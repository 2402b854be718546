---------------------------- MODULE ChVT_proofs -----------------------------
(***************************************************************************)
(* What holds of the delta list for any number of timers, any width of the *)
(* counter and any delays.                                                 *)
(***************************************************************************)
EXTENDS ChVT, Queues_proofs

-----------------------------------------------------------------------------
(***************************************************************************)
(* Arithmetic modulo Wrap.                                                 *)
(***************************************************************************)

\* Every integer is a multiple of W and a rest: the least natural number that
\* differs from it by a multiple of W.
LEMMA Division ==
  ASSUME NEW W \in Nat \ {0}, NEW a \in Int
  PROVE  \E k \in Int, r \in 0..W-1 : a = W * k + r /\ a % W = r
<1> DEFINE R == {n \in Nat : \E k \in Int : a = W * k + n}
<1>0. \A n \in Nat, k \in Int : a = W * k + n => n \in R
  OBVIOUS
<1>1. \A n \in R : n \in Nat /\ \E k \in Int : a = W * k + n
  OBVIOUS
<1> HIDE DEF R
<1>2. R # {}
  <2>1. CASE a >= 0
    <3>1. a = W * 0 + a /\ a \in Nat
      BY <2>1
    <3> QED
      BY <3>1, <1>0
  <2>2. CASE a < 0
    <3>1. W * a <= a
      BY <2>2
    <3>2. a = W * a + (a - W * a) /\ W * a \in Int
      OBVIOUS
    <3>3. a - W * a \in Nat
      BY <3>1, <3>2
    <3> QED
      BY <3>2, <3>3, <1>0
  <2> QED
    BY <2>1, <2>2
<1>3. PICK n \in R : \A m \in R : n <= m
  BY <1>1, <1>2, Smallest
<1>4. PICK k \in Int : a = W * k + n /\ n \in Nat
  BY <1>1
<1>5. n < W
  <2> SUFFICES ASSUME n >= W PROVE FALSE
    BY <1>4
  <2>1. W * (k + 1) = W * k + W /\ W * k \in Int
    OBVIOUS
  <2>2. a = W * (k + 1) + (n - W) /\ n - W \in Nat /\ k + 1 \in Int
    BY <1>4, <2>1
  <2>3. n <= n - W
    BY <1>0, <1>3, <2>2
  <2> QED
    BY <1>4, <2>3
<1>6. n \in 0..W-1
  BY <1>4, <1>5
<1> DEFINE p == W * k
<1>7. (n + p) % W = n /\ p \in Int /\ a = p + n
  BY <1>4, <1>6
<1> HIDE DEF p
<1>8. n + p = a
  BY <1>4, <1>7
<1>9. a % W = n
  BY <1>7, <1>8
<1> QED
  BY <1>6, <1>7, <1>9 DEF p

\* Two integers are the same time if they differ by turns of the counter.
\* The assumption on the constants, to be expanded only where it is needed.
Settings == TimeAssumption

LEMMA SettingsHold == Settings
BY TimeAssumption DEF Settings

Same(a, b) == a % Wrap = b % Wrap

LEMMA RestIs ==
  ASSUME Settings, NEW r \in 0..Wrap - 1, NEW k \in Int
  PROVE  (Wrap * k + r) % Wrap = r
<1>1. (r + Wrap * k) % Wrap = r
  BY DEF Settings, TimeAssumption
<1>2. r + Wrap * k = Wrap * k + r
  BY DEF Settings, TimeAssumption
<1> QED
  BY <1>1, <1>2

LEMMA RestRange ==
  ASSUME Settings, NEW a \in Int
  PROVE  a % Wrap \in 0..Wrap - 1 /\ a % Wrap \in Int
BY DEF Settings, TimeAssumption

\* The rest of a sum is that of the rests.
LEMMA RestOfSum ==
  ASSUME Settings, NEW a \in Int, NEW b \in Int
  PROVE  ((a % Wrap) + b) % Wrap = (a + b) % Wrap
<1> DEFINE r == a % Wrap
           s == (r + b) % Wrap
<1>0. Wrap \in Nat \ {0}
  BY DEF Settings, TimeAssumption
<1>1. r \in Int /\ r + b \in Int /\ s \in 0..Wrap - 1
  BY RestRange
<1>2. PICK k \in Int, x \in 0..Wrap-1 : a = Wrap * k + x /\ a % Wrap = x
  BY <1>0, Division
<1>r. x = r
  BY <1>2
<1> HIDE DEF r
<1>3. PICK j \in Int, y \in 0..Wrap-1 : r + b = Wrap * j + y /\ (r + b) % Wrap = y
  BY <1>0, <1>1, Division
<1>s. y = s
  BY <1>3
<1> HIDE DEF s
<1>4. Wrap * (k + j) = Wrap * k + Wrap * j /\ Wrap * k \in Int /\ Wrap * j \in Int /\ s \in Int
  BY <1>0, <1>1
<1>5. a + b = Wrap * (k + j) + s
  BY <1>1, <1>2, <1>3, <1>4, <1>r, <1>s
<1>6. (Wrap * (k + j) + s) % Wrap = s
  BY <1>1, RestIs
<1>7. (a + b) % Wrap = s
  BY <1>5, <1>6
<1> QED
  BY <1>7 DEF s, r

LEMMA SameSum ==
  ASSUME Settings, NEW a \in Int, NEW b \in Int, NEW c \in Int, Same(a, b)
  PROVE  Same(a + c, b + c)
<1>1. ((a % Wrap) + c) % Wrap = (a + c) % Wrap
  BY RestOfSum
<1>2. ((b % Wrap) + c) % Wrap = (b + c) % Wrap
  BY RestOfSum
<1> QED
  BY <1>1, <1>2 DEF Same

LEMMA SameRest ==
  ASSUME Settings, NEW a \in Int
  PROVE  Same(a % Wrap, a)
<1> DEFINE r == a % Wrap
<1>1. r \in 0..Wrap - 1
  BY RestRange
<1> HIDE DEF r
<1>2. r % Wrap = r
  BY <1>1 DEF Settings, TimeAssumption
<1> QED
  BY <1>2 DEF Same, r

LEMMA SameTrans ==
  ASSUME NEW a, NEW b, NEW c, Same(a, b), Same(b, c)
  PROVE  Same(a, c) /\ Same(b, a)
  BY DEF Same

-----------------------------------------------------------------------------
(***************************************************************************)
(* The invariant: what DeltaListExact says of sums, said of neighbours.    *)
(* P maps each timer to the time it is due at.                             *)
(***************************************************************************)
Ints == [Timers -> Int]

From(q, last, P, i) == IF i = 1 THEN last ELSE P[q[i - 1]]

Chain(q, D, last, P) ==
  \A i \in 1..Len(q) : Same(From(q, last, P, i) + D[q[i]], P[q[i]])

Points == [t \in Timers |-> time + left[t]]

LEMMA FromInt ==
  ASSUME NEW q \in Seq(Timers), NEW last \in Int, NEW P \in Ints, NEW i \in 1..Len(q)+1
  PROVE  From(q, last, P, i) \in Int
<1>1. i # 1 => i - 1 \in 1..Len(q)
  OBVIOUS
<1> QED
  BY <1>1 DEF From, Ints

\* Times may be told differently.
LEMMA ChainSame ==
  ASSUME Settings, NEW q \in Seq(Timers), NEW D \in Ints, NEW last \in Int,
         NEW P \in Ints, NEW P2 \in Ints, Chain(q, D, last, P),
         \A t \in ToSet(q) : Same(P2[t], P[t])
  PROVE  Chain(q, D, last, P2)
<1> SUFFICES ASSUME NEW i \in 1..Len(q) PROVE Same(From(q, last, P2, i) + D[q[i]], P2[q[i]])
  BY DEF Chain
<1>1. \A j \in 1..Len(q) : q[j] \in Timers /\ q[j] \in ToSet(q)
  BY DEF ToSet
<1>2. D[q[i]] \in Int /\ From(q, last, P, i) \in Int /\ From(q, last, P2, i) \in Int
  <2>1. D[q[i]] \in Int
    BY <1>1 DEF Ints
  <2>2. i \in 1..Len(q)+1
    OBVIOUS
  <2> QED
    BY <2>1, <2>2, FromInt
<1>3. Same(From(q, last, P2, i), From(q, last, P, i))
  <2>1. i # 1 => i - 1 \in 1..Len(q)
    OBVIOUS
  <2> QED
    BY <1>1, <2>1 DEF From, Same
<1>4. Same(From(q, last, P2, i) + D[q[i]], From(q, last, P, i) + D[q[i]])
  BY <1>2, <1>3, SameSum
<1>5. Same(From(q, last, P, i) + D[q[i]], P[q[i]]) /\ Same(P2[q[i]], P[q[i]])
  BY <1>1 DEF Chain
<1> QED
  BY <1>4, <1>5 DEF Same

Gives(q, i, D, D2) ==
  /\ i < Len(q) => D2[q[i + 1]] = (D[q[i + 1]] + D[q[i]]) % Wrap
  /\ \A j \in 1..Len(q) : j # i /\ j # i + 1 => D2[q[j]] = D[q[j]]

\* A timer leaves the list: its distance goes to the next one.
LEMMA ChainWithout ==
  ASSUME Settings, NEW q \in Seq(Timers), IsInjective(q), NEW i \in 1..Len(q),
         NEW r, Without(Timers, q, i, r),
         NEW D \in Ints, NEW D2 \in Ints, NEW last \in Int, NEW P \in Ints,
         Chain(q, D, last, P),
         Gives(q, i, D, D2)
  PROVE  Chain(r, D2, last, P)
<1> SUFFICES ASSUME NEW j \in 1..Len(r) PROVE Same(From(r, last, P, j) + D2[r[j]], P[r[j]])
  BY DEF Chain
<1>0. Len(q) \in Nat /\ Len(r) = Len(q) - 1
  BY DEF Without
<1>1. \A k \in 1..Len(q) : q[k] \in Timers
  OBVIOUS
<1>2. CASE j < i
  <2>1. j \in 1..(i - 1) /\ j \in 1..Len(q) /\ j # i /\ j # i + 1 /\ (j # 1 => j - 1 \in 1..(i - 1))
        /\ (j # 1 => j - 1 \in 1..Len(q) /\ j - 1 # i)
    BY <1>0, <1>2
  <2>2. r[j] = q[j] /\ (j # 1 => r[j - 1] = q[j - 1])
    BY <2>1 DEF Without
  <2>3. From(r, last, P, j) = From(q, last, P, j)
    BY <2>1, <2>2 DEF From
  <2> QED
    BY <2>1, <2>2, <2>3 DEF Chain, Gives
<1>3. CASE j > i
  <2>1. j \in i..(Len(q) - 1) /\ j - 1 \in i..(Len(q) - 1) /\ j + 1 \in 1..Len(q) /\ j + 1 # i
        /\ j + 1 # i + 1 /\ j # 1 /\ j + 1 # 1 /\ (j + 1) - 1 = j /\ (j - 1) + 1 = j
        /\ j \in 1..Len(q) /\ j # i
    BY <1>0, <1>3
  <2>2. r[j] = q[j + 1] /\ r[j - 1] = q[j]
    BY <2>1 DEF Without
  <2>3. From(r, last, P, j) = From(q, last, P, j + 1)
    BY <2>1, <2>2 DEF From
  <2>4. Same(From(q, last, P, j + 1) + D[q[j + 1]], P[q[j + 1]])
    BY <2>1 DEF Chain
  <2> QED
    BY <2>1, <2>2, <2>3, <2>4 DEF Gives
<1>4. CASE j = i
  <2>1. j \in i..(Len(q) - 1) /\ i + 1 \in 1..Len(q) /\ i < Len(q) /\ i + 1 # 1 /\ (i + 1) - 1 = i
        /\ i + 1 # i /\ (i # 1 => i - 1 \in 1..(i - 1) /\ i - 1 \in 1..Len(q) /\ i - 1 # i)
    BY <1>0, <1>4
  <2> DEFINE a == From(q, last, P, i)
             d == D[q[i]]
             e == D[q[i + 1]]
  <2>2. r[j] = q[i + 1] /\ (i # 1 => r[j - 1] = q[i - 1])
    BY <1>4, <2>1 DEF Without
  <2>3. From(r, last, P, j) = a
    BY <1>4, <2>1, <2>2 DEF From
  <2>4. a \in Int /\ d \in Int /\ e \in Int /\ P[q[i]] \in Int
    <3>1. d \in Int /\ e \in Int /\ P[q[i]] \in Int
      BY <1>1, <2>1 DEF Ints
    <3>2. i \in 1..Len(q)+1
      BY <1>0
    <3> QED
      BY <3>1, <3>2, FromInt
  <2>5. Same(a + d, P[q[i]])
    BY DEF Chain
  <2>6. Same(P[q[i]] + e, P[q[i + 1]])
    <3>1. Same(From(q, last, P, i + 1) + e, P[q[i + 1]])
      BY <2>1 DEF Chain
    <3> QED
      BY <2>1, <3>1 DEF From
  <2>7. D2[r[j]] = (e + d) % Wrap /\ P[r[j]] = P[q[i + 1]]
    BY <2>1, <2>2 DEF Gives
  <2> HIDE DEF a, d, e
  <2>8. Same((a + d) + e, P[q[i]] + e)
    <3>1. a + d \in Int
      BY <2>4
    <3> QED
      BY <2>4, <2>5, <3>1, SameSum
  <2>9. Same(((e + d) % Wrap) + a, (e + d) + a)
    <3>1. (e + d) \in Int /\ (e + d) % Wrap \in Int
      BY <2>4, RestRange
    <3> QED
      BY <2>4, <3>1, SameRest, SameSum
  <2>10. (e + d) + a = (a + d) + e /\ ((e + d) % Wrap) + a = a + ((e + d) % Wrap)
    <3>1. (e + d) \in Int /\ (e + d) % Wrap \in Int
      BY <2>4, RestRange
    <3> QED
      BY <2>4, <3>1
  <2>11. Same(a + ((e + d) % Wrap), P[q[i + 1]])
    BY <2>6, <2>8, <2>9, <2>10, SameTrans
  <2> QED
    BY <2>3, <2>7, <2>11
<1> QED
  BY <1>0, <1>2, <1>3, <1>4

\* The first timer leaves the list and vt_lasttime moves to it.
LEMMA ChainTail ==
  ASSUME Settings, NEW q \in Seq(Timers), IsInjective(q), q # <<>>,
         NEW D \in Ints, NEW D2 \in Ints, NEW last \in Int, NEW P \in Ints,
         Chain(q, D, last, P),
         \A j \in 2..Len(q) : D2[q[j]] = D[q[j]]
  PROVE  Chain(Tail(q), D2, (last + D[Head(q)]) % Wrap, P)
<1> DEFINE r == Tail(q)
           next == (last + D[Head(q)]) % Wrap
<1>0. /\ Len(q) \in Nat /\ Len(q) >= 1 /\ Head(q) = q[1] /\ Len(r) = Len(q) - 1
      /\ \A j \in 1..Len(q) - 1 : r[j] = q[j + 1]
  OBVIOUS
<1>1. \A k \in 1..Len(q) : q[k] \in Timers /\ D[q[k]] \in Int /\ P[q[k]] \in Int
  BY DEF Ints
<1> SUFFICES ASSUME NEW j \in 1..Len(r) PROVE Same(From(r, next, P, j) + D2[r[j]], P[r[j]])
  BY DEF Chain
<1>2. j \in 1..Len(q) - 1 /\ j + 1 \in 2..Len(q) /\ j + 1 \in 1..Len(q) /\ (j + 1) - 1 = j /\ j + 1 # 1
      /\ 1 \in 1..Len(q)
  BY <1>0
<1>3. r[j] = q[j + 1] /\ D2[r[j]] = D[q[j + 1]] /\ P[r[j]] = P[q[j + 1]]
  BY <1>0, <1>2
<1>4. Same(P[q[j]] + D[q[j + 1]], P[q[j + 1]])
  BY <1>2 DEF Chain, From
<1>5. CASE j # 1
  <2>1. j - 1 \in 1..Len(q) - 1 /\ j \in 2..Len(q) /\ (j - 1) + 1 = j
    BY <1>0, <1>2, <1>5
  <2>2. From(r, next, P, j) = P[q[j]]
    BY <1>0, <1>5, <2>1 DEF From
  <2> QED
    BY <1>3, <1>4, <2>2
<1>6. CASE j = 1
  <2> DEFINE x == last + D[Head(q)]
             e == D[q[j + 1]]
  <2>1. x \in Int /\ e \in Int /\ P[q[1]] \in Int
    BY <1>0, <1>1, <1>2
  <2>2. Same(x, P[q[1]])
    BY <1>0, <1>2 DEF Chain, From
  <2>3. From(r, next, P, j) = x % Wrap
    BY <1>6 DEF From
  <2> HIDE DEF x, e
  <2>4. Same(x % Wrap, x) /\ x % Wrap \in Int
    BY <2>1, SameRest, RestRange
  <2>5. Same(x % Wrap, P[q[1]])
    BY <2>2, <2>4, SameTrans
  <2>6. Same((x % Wrap) + e, P[q[1]] + e)
    BY <2>1, <2>4, <2>5, SameSum
  <2>7. Same(P[q[1]] + e, P[q[j + 1]])
    BY <1>4, <1>6 DEF e
  <2>8. Same((x % Wrap) + e, P[q[j + 1]])
    BY <2>6, <2>7, SameTrans
  <2> QED
    BY <1>3, <2>3, <2>8 DEF e
<1> QED
  BY <1>5, <1>6

-----------------------------------------------------------------------------
(***************************************************************************)
(* Running sums: the functions that the scan and the list are read with.   *)
(***************************************************************************)
Sums(m, x, h, f) == f = [i \in 1..m |-> (IF i = 1 THEN x ELSE f[i - 1]) + h[i]]

\* Each prefix exists; the shortest that did not would extend one that does.
LEMMA SumsExist ==
  ASSUME NEW m \in Nat, NEW x \in Int, NEW h \in [1..m -> Int]
  PROVE  \E f \in [1..m -> Int] : Sums(m, x, h, f)
<1> DEFINE Missing(k) == \A f \in [1..k -> Int] : ~Sums(k, x, h, f)
           T == {k \in 0..m : Missing(k)}
<1> SUFFICES ASSUME Missing(m) PROVE FALSE
  OBVIOUS
<1>1. PICK k \in T : \A l \in T : k <= l
  <2>1. T \in SUBSET Nat /\ m \in T
    OBVIOUS
  <2> HIDE DEF T
  <2> QED
    BY <2>1, Smallest
<1>2. k \in 0..m /\ Missing(k) /\ \A l \in 0..m : Missing(l) => k <= l
  BY <1>1
<1>3. k # 0
  <2> SUFFICES ASSUME k = 0 PROVE FALSE
    OBVIOUS
  <2> DEFINE f == [i \in 1..0 |-> 0]
  <2>1. f \in [1..0 -> Int]
    OBVIOUS
  <2>2. Sums(0, x, h, f)
    BY DEF Sums
  <2> QED
    BY <1>2, <2>1, <2>2
<1>4. k - 1 \in 0..m /\ ~(k <= k - 1)
  BY <1>2, <1>3
<1>5. PICK f \in [1..k - 1 -> Int] : Sums(k - 1, x, h, f)
  BY <1>2, <1>4
<1> DEFINE value == (IF k = 1 THEN x ELSE f[k - 1]) + h[k]
           g == [i \in 1..k |-> IF i = k THEN value ELSE f[i]]
<1>6. k \in 1..m /\ h[k] \in Int /\ value \in Int
  <2>1. k \in 1..m
    BY <1>2, <1>3
  <2>2. k # 1 => k - 1 \in 1..k - 1
    BY <2>1
  <2>3. (IF k = 1 THEN x ELSE f[k - 1]) \in Int
    BY <1>5, <2>2
  <2> QED
    BY <2>1, <2>3
<1>7. \A i \in 1..k : i # k => i \in 1..k - 1
  BY <1>6
<1>8. g \in [1..k -> Int]
  <2> HIDE DEF value
  <2> QED
    BY <1>6, <1>7
<1>9. \A i \in 1..k : g[i] = (IF i = 1 THEN x ELSE g[i - 1]) + h[i]
  <2> SUFFICES ASSUME NEW i \in 1..k PROVE g[i] = (IF i = 1 THEN x ELSE g[i - 1]) + h[i]
    OBVIOUS
  <2>1. \A j \in 1..k - 1 : g[j] = f[j]
    BY <1>6
  <2>2. \A j \in 1..k - 1 : f[j] = (IF j = 1 THEN x ELSE f[j - 1]) + h[j]
    BY <1>5 DEF Sums
  <2>3. i # 1 => i - 1 \in 1..k - 1
    BY <1>6
  <2>4. CASE i = k
    <3>1. g[i] = value
      BY <2>4
    <3> HIDE DEF g
    <3> QED
      BY <2>1, <2>3, <2>4, <3>1
  <2>5. CASE i # k
    <3>1. i \in 1..k - 1
      BY <1>7, <2>5
    <3> HIDE DEF g
    <3> QED
      BY <2>1, <2>2, <2>3, <3>1
  <2> QED
    BY <2>4, <2>5
<1>10. Sums(k, x, h, g)
  <2>1. DOMAIN g = 1..k /\ g = [i \in 1..k |-> g[i]]
    BY <1>8
  <2> HIDE DEF g
  <2> QED
    BY <1>9, <2>1 DEF Sums
<1> QED
  BY <1>2, <1>8, <1>10

-----------------------------------------------------------------------------
(***************************************************************************)
(* The scan that finds the place of a timer in the list.                   *)
(***************************************************************************)
Scan(q, D, delta, rem) ==
  \A i \in 1..Len(q) + 1 :
    rem[i] \in Int /\ rem[i] = IF i = 1 THEN delta ELSE rem[i - 1] - D[q[i - 1]]

\* What is left of the distance is counted from the timer before.
LEMMA ScanSame ==
  ASSUME Settings, NEW q \in Seq(Timers), NEW D \in Ints, NEW last \in Int, NEW P \in Ints,
         Chain(q, D, last, P), NEW delta \in Int, NEW p \in Int, Same(last + delta, p),
         NEW rem, Scan(q, D, delta, rem)
  PROVE  \A i \in 1..Len(q) + 1 : Same(From(q, last, P, i) + rem[i], p)
<1> DEFINE Bad(i) == ~Same(From(q, last, P, i) + rem[i], p)
           T == {i \in 1..Len(q) + 1 : Bad(i)}
<1> SUFFICES ASSUME T # {} PROVE FALSE
  OBVIOUS
<1>1. T \in SUBSET Nat
  OBVIOUS
<1>2. \A i \in 1..Len(q) + 1 : Bad(i) <=> i \in T
  OBVIOUS
<1>3. T \subseteq 1..Len(q) + 1
  OBVIOUS
<1> HIDE DEF T
<1>4. PICK k \in T : \A l \in T : k <= l
  BY <1>1, Smallest
<1>5. k \in 1..Len(q) + 1 /\ Bad(k)
  BY <1>2, <1>3, <1>4
<1>6. k # 1
  <2> SUFFICES ASSUME k = 1 PROVE FALSE
    OBVIOUS
  <2>1. rem[1] = delta /\ From(q, last, P, 1) = last
    BY <1>5 DEF Scan, From
  <2> QED
    BY <1>5, <2>1
<1>7. k - 1 \in 1..Len(q) /\ k - 1 \in 1..Len(q) + 1 /\ ~(k <= k - 1)
  BY <1>5, <1>6
<1> DEFINE a == From(q, last, P, k - 1)
           b == P[q[k - 1]]
           d == D[q[k - 1]]
           x == rem[k - 1]
<1>8. Same(a + x, p)
  BY <1>2, <1>4, <1>7
<1>9. Same(a + d, b)
  BY <1>7 DEF Chain
<1>10. From(q, last, P, k) = b /\ rem[k] = x - d
  BY <1>5, <1>6 DEF From, Scan
<1>11. a \in Int /\ b \in Int /\ d \in Int /\ x \in Int
  <2>1. q[k - 1] \in Timers
    BY <1>7
  <2>2. b \in Int /\ d \in Int
    BY <2>1 DEF Ints
  <2>3. a \in Int
    BY <1>7, FromInt
  <2>4. x \in Int
    BY <1>7 DEF Scan
  <2> QED
    BY <2>2, <2>3, <2>4
<1>12. ~Same(b + (x - d), p)
  BY <1>5, <1>10
<1> HIDE DEF Bad, a, b, d, x
<1>13. Same((a + d) + (x - d), b + (x - d))
  <2>1. a + d \in Int /\ x - d \in Int
    BY <1>11
  <2> QED
    BY <1>9, <1>11, <2>1, SameSum
<1>14. (a + d) + (x - d) = a + x
  BY <1>11
<1> QED
  BY <1>8, <1>12, <1>13, <1>14 DEF Same

Takes(q, t, i, D, D2) ==
  /\ i <= Len(q) => D2[q[i]] = D[q[i]] - D2[t]
  /\ \A j \in 1..Len(q) : j # i => D2[q[j]] = D[q[j]]

\* A timer joins the list: it takes its distance from that of the next one.
LEMMA ChainPlaced ==
  ASSUME Settings, NEW q \in Seq(Timers), NEW t \in Timers, t \notin ToSet(q),
         NEW i \in 1..Len(q) + 1, NEW r, Placed(Timers, q, t, i, r),
         NEW D \in Ints, NEW D2 \in Ints, NEW last \in Int, NEW P \in Ints,
         Chain(q, D, last, P), Same(From(q, last, P, i) + D2[t], P[t]),
         Takes(q, t, i, D, D2)
  PROVE  Chain(r, D2, last, P)
<1> SUFFICES ASSUME NEW j \in 1..Len(r) PROVE Same(From(r, last, P, j) + D2[r[j]], P[r[j]])
  BY DEF Chain
<1>0. Len(q) \in Nat /\ Len(r) = Len(q) + 1
  BY DEF Placed
<1>1. \A k \in 1..Len(q) : q[k] \in Timers
  OBVIOUS
<1>2. CASE j < i
  <2>1. j \in 1..i-1 /\ j \in 1..Len(q) /\ j # i /\ (j # 1 => j - 1 \in 1..i-1 /\ j - 1 \in 1..Len(q))
    BY <1>0, <1>2
  <2>2. r[j] = q[j] /\ (j # 1 => r[j - 1] = q[j - 1])
    BY <2>1 DEF Placed
  <2>3. From(r, last, P, j) = From(q, last, P, j)
    BY <2>1, <2>2 DEF From
  <2> QED
    BY <2>1, <2>2, <2>3 DEF Chain, Takes
<1>3. CASE j = i
  <2>1. r[j] = t
    BY <1>3 DEF Placed
  <2>2. j # 1 => j - 1 \in 1..i-1 /\ j - 1 \in 1..Len(q)
    BY <1>0, <1>3
  <2>3. j # 1 => r[j - 1] = q[j - 1]
    BY <2>2 DEF Placed
  <2>4. From(r, last, P, j) = From(q, last, P, i)
    BY <1>3, <2>2, <2>3 DEF From
  <2> QED
    BY <2>1, <2>4
<1>4. CASE j = i + 1
  <2>1. i \in 1..Len(q) /\ i <= Len(q) /\ j \in i+1..Len(q)+1 /\ j - 1 = i /\ j # 1
    BY <1>0, <1>4
  <2> DEFINE a == From(q, last, P, i)
             x == D2[t]
             d == D[q[i]]
             p == P[t]
  <2>2. r[j] = q[i] /\ r[j - 1] = t
    BY <2>1 DEF Placed
  <2>3. From(r, last, P, j) = p /\ D2[r[j]] = d - x /\ P[r[j]] = P[q[i]]
    BY <2>1, <2>2 DEF From, Takes
  <2>4. a \in Int /\ x \in Int /\ d \in Int /\ p \in Int
    <3>1. x \in Int /\ d \in Int /\ p \in Int
      BY <1>1, <2>1 DEF Ints
    <3> QED
      BY <3>1, FromInt
  <2>5. Same(a + d, P[q[i]])
    BY <2>1 DEF Chain
  <2>6. Same(a + x, p)
    OBVIOUS
  <2> HIDE DEF a, x, d, p
  <2>7. Same((a + x) + (d - x), p + (d - x))
    <3>1. a + x \in Int /\ d - x \in Int
      BY <2>4
    <3> QED
      BY <2>4, <2>6, <3>1, SameSum
  <2>8. (a + x) + (d - x) = a + d
    BY <2>4
  <2>9. Same(p + (d - x), P[q[i]])
    BY <2>5, <2>7, <2>8 DEF Same
  <2> QED
    BY <2>3, <2>9
<1>5. CASE j > i + 1
  <2>1. j \in i+1..Len(q)+1 /\ j - 1 \in i+1..Len(q)+1 /\ j - 1 \in 1..Len(q) /\ j - 1 # i
        /\ j # 1 /\ j - 1 # 1
    BY <1>0, <1>5
  <2>2. r[j] = q[j - 1] /\ r[j - 1] = q[(j - 1) - 1]
    BY <2>1 DEF Placed
  <2>3. (j - 1) - 1 \in 1..Len(q)
    BY <2>1
  <2>4. From(r, last, P, j) = From(q, last, P, j - 1)
    BY <2>1, <2>2, <2>3 DEF From
  <2>5. Same(From(q, last, P, j - 1) + D[q[j - 1]], P[q[j - 1]])
    BY <2>1 DEF Chain
  <2> QED
    BY <2>1, <2>2, <2>4, <2>5 DEF Takes
<1> QED
  BY <1>0, <1>2, <1>3, <1>4, <1>5

LEMMA RemainingScans ==
  ASSUME NEW v, v.list \in Seq(Timers), v.delta \in Ints, NEW delta \in Int
  PROVE  /\ Scan(v.list, v.delta, delta, Remaining(v, delta))
         /\ DOMAIN Remaining(v, delta) = 1..Len(v.list) + 1
<1> DEFINE q == v.list
           D == v.delta
           m == Len(q) + 1
           F(f) == f = [i \in 1..m |-> IF i = 1 THEN delta ELSE f[i - 1] - D[q[i - 1]]]
           rem == Remaining(v, delta)
<1>1. m \in Nat /\ \A i \in 2..m : i - 1 \in 1..Len(q) /\ D[q[i - 1]] \in Int
  <2>1. \A j \in 1..Len(q) : D[q[j]] \in Int
    BY DEF Ints
  <2>2. \A i \in 2..m : i - 1 \in 1..Len(q)
    OBVIOUS
  <2>3. m \in Nat
    OBVIOUS
  <2> QED
    BY <2>1, <2>2, <2>3
<1>2. \E f : F(f)
  <2> DEFINE h == [i \in 1..m |-> IF i = 1 THEN 0 ELSE 0 - D[q[i - 1]]]
  <2>1. \A i \in 1..m : i # 1 => i \in 2..m
    BY <1>1
  <2>2. h \in [1..m -> Int]
    BY <1>1, <2>1
  <2> HIDE DEF h, m
  <2>3. PICK f \in [1..m -> Int] : Sums(m, delta, h, f)
    BY <1>1, <2>2, SumsExist
  <2> USE DEF h
  <2>4. ASSUME NEW i \in 1..m
        PROVE  f[i] = IF i = 1 THEN delta ELSE f[i - 1] - D[q[i - 1]]
    <3>1. f[i] = (IF i = 1 THEN delta ELSE f[i - 1]) + h[i]
      BY <2>3 DEF Sums
    <3>2. CASE i = 1
      BY <3>1, <3>2
    <3>3. CASE i # 1
      <4>1. i \in 2..m /\ i - 1 \in 1..m
        BY <1>1, <3>3
      <4>2. D[q[i - 1]] \in Int /\ f[i - 1] \in Int
        BY <1>1, <2>3, <4>1
      <4>3. f[i] = f[i - 1] + (0 - D[q[i - 1]])
        BY <3>1, <3>3
      <4> QED
        BY <3>3, <4>2, <4>3
    <3> QED
      BY <3>2, <3>3
  <2>5. f = [i \in 1..m |-> f[i]]
    BY <2>3
  <2>6. F(f)
    BY <2>4, <2>5
  <2> QED
    BY <2>6
<1>3. rem = CHOOSE f : F(f)
  BY DEF Remaining
<1>4. F(rem)
  BY <1>2, <1>3
<1> HIDE DEF rem, m
<1>5. DOMAIN rem = 1..m /\ \A i \in 1..m : rem[i] = IF i = 1 THEN delta ELSE rem[i - 1] - D[q[i - 1]]
  BY <1>4
<1> HIDE DEF F
<1>6. \A i \in 1..m : rem[i] \in Int
  <2> DEFINE T == {i \in 1..m : rem[i] \notin Int}
  <2> SUFFICES ASSUME T # {} PROVE FALSE
    OBVIOUS
  <2>1. T \in SUBSET Nat
    BY <1>1
  <2>2. T \subseteq 1..m /\ \A i \in 1..m : i \in T <=> rem[i] \notin Int
    OBVIOUS
  <2> HIDE DEF T
  <2>3. PICK k \in T : \A l \in T : k <= l
    BY <2>1, Smallest
  <2>4. k \in 1..m /\ rem[k] \notin Int
    BY <2>2, <2>3
  <2>5. k # 1
    BY <1>5, <2>4
  <2>6. k \in 2..m /\ k - 1 \in 1..m /\ ~(k <= k - 1)
    BY <1>1, <2>4, <2>5
  <2>7. rem[k - 1] \in Int /\ D[q[k - 1]] \in Int
    BY <1>1, <2>2, <2>3, <2>6
  <2> QED
    BY <1>5, <2>4, <2>5, <2>7
<1> QED
  BY <1>5, <1>6 DEF Scan, m, rem

Distances == [Timers -> 0..Wrap - 1]

\* Where the scan stops, what is left is a distance, and one that can be
\* taken from that of the timer there.
Stops(q, D, rem, i) ==
  /\ \A j \in 1..i - 1 : D[q[j]] < rem[j]
  /\ i <= Len(q) => D[q[i]] >= rem[i]

LEMMA ScanStops ==
  ASSUME NEW q \in Seq(Timers), NEW D \in Distances, NEW delta \in 0..Wrap - 1, Wrap \in Nat,
         NEW rem, Scan(q, D, delta, rem)
  PROVE  /\ \E i \in 1..Len(q) + 1 : Stops(q, D, rem, i)
         /\ \A i \in 1..Len(q) + 1 :
              Stops(q, D, rem, i) =>
                /\ rem[i] \in 0..Wrap - 1
                /\ i <= Len(q) => D[q[i]] - rem[i] \in 0..Wrap - 1
<1>1. \A i \in 1..Len(q) : D[q[i]] \in 0..Wrap - 1
  BY DEF Distances
<1>2. \A i \in 1..Len(q) + 1 :
        rem[i] \in Int /\ rem[i] = IF i = 1 THEN delta ELSE rem[i - 1] - D[q[i - 1]]
  BY DEF Scan
<1>3. \E i \in 1..Len(q) + 1 : Stops(q, D, rem, i)
  <2> DEFINE T == {i \in 1..Len(q) + 1 : i <= Len(q) => D[q[i]] >= rem[i]}
  <2>1. T \in SUBSET Nat /\ Len(q) + 1 \in T
    OBVIOUS
  <2>2. T \subseteq 1..Len(q) + 1
    OBVIOUS
  <2>3. \A i \in 1..Len(q) + 1 : i \in T <=> (i <= Len(q) => D[q[i]] >= rem[i])
    OBVIOUS
  <2> HIDE DEF T
  <2>4. PICK k \in T : \A l \in T : k <= l
    BY <2>1, Smallest
  <2>5. k \in 1..Len(q) + 1
    BY <2>2, <2>4
  <2>6. ASSUME NEW j \in 1..k - 1 PROVE D[q[j]] < rem[j]
    <3>1. j \in 1..Len(q) /\ j \in 1..Len(q) + 1 /\ ~(k <= j)
      BY <2>5
    <3>2. ~(D[q[j]] >= rem[j])
      BY <2>3, <2>4, <3>1
    <3>3. D[q[j]] \in 0..Wrap - 1 /\ rem[j] \in Int
      BY <1>1, <1>2, <3>1
    <3> QED
      BY <3>2, <3>3
  <2>7. k <= Len(q) => D[q[k]] >= rem[k]
    BY <2>3, <2>4, <2>5
  <2> QED
    BY <2>5, <2>6, <2>7 DEF Stops
<1>4. \A i \in 1..Len(q) + 1 : rem[i] <= delta
  <2> DEFINE T == {i \in 1..Len(q) + 1 : ~(rem[i] <= delta)}
  <2> SUFFICES ASSUME T # {} PROVE FALSE
    OBVIOUS
  <2>1. T \in SUBSET Nat
    OBVIOUS
  <2>2. T \subseteq 1..Len(q) + 1 /\ \A i \in 1..Len(q) + 1 : i \in T <=> ~(rem[i] <= delta)
    OBVIOUS
  <2> HIDE DEF T
  <2>3. PICK k \in T : \A l \in T : k <= l
    BY <2>1, Smallest
  <2>4. k \in 1..Len(q) + 1 /\ ~(rem[k] <= delta)
    BY <2>2, <2>3
  <2>5. k # 1
    BY <1>2, <2>4
  <2>6. k - 1 \in 1..Len(q) + 1 /\ k - 1 \in 1..Len(q) /\ ~(k <= k - 1)
    BY <2>4, <2>5
  <2>7. rem[k - 1] <= delta
    BY <2>2, <2>3, <2>6
  <2>8. rem[k] = rem[k - 1] - D[q[k - 1]] /\ rem[k - 1] \in Int /\ D[q[k - 1]] \in 0..Wrap - 1
    BY <1>1, <1>2, <2>4, <2>5, <2>6
  <2> QED
    BY <2>4, <2>7, <2>8
<1>5. ASSUME NEW i \in 1..Len(q) + 1, Stops(q, D, rem, i)
      PROVE  rem[i] \in 0..Wrap - 1 /\ (i <= Len(q) => D[q[i]] - rem[i] \in 0..Wrap - 1)
  <2>1. rem[i] \in Int /\ rem[i] <= delta
    BY <1>2, <1>4
  <2>2. 0 <= rem[i]
    <3>1. CASE i = 1
      BY <1>2, <3>1
    <3>2. CASE i # 1
      <4>1. i - 1 \in 1..i - 1 /\ i - 1 \in 1..Len(q) /\ i - 1 \in 1..Len(q) + 1
        BY <3>2
      <4>2. D[q[i - 1]] < rem[i - 1]
        BY <1>5, <4>1 DEF Stops
      <4>3. rem[i] = rem[i - 1] - D[q[i - 1]] /\ rem[i - 1] \in Int /\ D[q[i - 1]] \in 0..Wrap - 1
        BY <1>1, <1>2, <3>2, <4>1
      <4> QED
        BY <4>2, <4>3
    <3> QED
      BY <3>1, <3>2
  <2>3. rem[i] \in 0..Wrap - 1
    BY <2>1, <2>2
  <2>4. ASSUME i <= Len(q) PROVE D[q[i]] - rem[i] \in 0..Wrap - 1
    <3>1. i \in 1..Len(q)
      BY <2>4
    <3>2. D[q[i]] >= rem[i] /\ D[q[i]] \in 0..Wrap - 1
      BY <1>1, <1>5, <3>1, <2>4 DEF Stops
    <3> QED
      BY <2>3, <3>2
  <2> QED
    BY <2>3, <2>4
<1> QED
  BY <1>3, <1>5

-----------------------------------------------------------------------------
(***************************************************************************)
(* The operations: each leaves the list exact, P being the same.           *)
(***************************************************************************)
VList == [list : Seq(Timers), delta : Distances, last : 0..Wrap - 1, alarm : 0..Wrap - 1, on : BOOLEAN]

Exact(v, P) == v \in VList /\ IsInjective(v.list) /\ Chain(v.list, v.delta, v.last, P)

LEMMA Fields ==
  ASSUME NEW v \in VList
  PROVE  /\ v.list \in Seq(Timers) /\ v.delta \in Distances /\ v.last \in 0..Wrap - 1
         /\ v.alarm \in 0..Wrap - 1 /\ v.on \in BOOLEAN
BY DEF VList

LEMMA InOneTurn ==
  ASSUME Settings, NEW x \in 0..Wrap - 1
  PROVE  x \in Int /\ 0 <= x /\ x <= Wrap - 1
BY DEF Settings, TimeAssumption

LEMMA LastIsInt ==
  ASSUME Settings, NEW v \in VList
  PROVE  v.last \in Int
BY Fields, InOneTurn

LEMMA DistancesAreInts ==
  ASSUME Settings, NEW D \in Distances
  PROVE  D \in Ints
BY DEF Settings, TimeAssumption, Distances, Ints

LEMMA AddSub ==
  ASSUME Settings, NEW a \in Int, NEW b \in Int
  PROVE  /\ Add(a, b) \in 0..Wrap - 1 /\ Sub(a, b) \in 0..Wrap - 1
         /\ Add(a, b) \in Int /\ Sub(a, b) \in Int
         /\ Same(Add(a, b), a + b) /\ Same(b + Sub(a, b), a)
<1>1. a + b \in Int /\ a - b \in Int
  OBVIOUS
<1>2. /\ Add(a, b) \in 0..Wrap - 1 /\ Sub(a, b) \in 0..Wrap - 1
      /\ Add(a, b) \in Int /\ Sub(a, b) \in Int
  BY <1>1, RestRange DEF Add, Sub
<1>3. Same(Add(a, b), a + b)
  BY <1>1, SameRest DEF Add
<1>4. Same(Sub(a, b), a - b)
  BY <1>1, SameRest DEF Sub
<1> DEFINE s == Sub(a, b)
<1>5. s \in Int
  BY <1>2
<1>6. Same(s, a - b)
  BY <1>4
<1> HIDE DEF s
<1>7. Same(s + b, (a - b) + b)
  BY <1>1, <1>5, <1>6, SameSum
<1>8. s + b = b + s /\ (a - b) + b = a
  BY <1>5
<1>9. Same(b + s, a)
  BY <1>7, <1>8
<1> QED
  BY <1>2, <1>3, <1>9 DEF s

LEMMA ExactSame ==
  ASSUME Settings, NEW v, NEW P \in Ints, NEW P2 \in Ints, Exact(v, P),
         \A t \in ToSet(v.list) : Same(P2[t], P[t])
  PROVE  Exact(v, P2)
<1>1. v \in VList /\ IsInjective(v.list) /\ Chain(v.list, v.delta, v.last, P)
  BY DEF Exact
<1>2. v.list \in Seq(Timers) /\ v.delta \in Ints /\ v.last \in Int
  BY <1>1, Fields, DistancesAreInts DEF Settings, TimeAssumption
<1>3. Chain(v.list, v.delta, v.last, P2)
  BY <1>1, <1>2, ChainSame
<1> QED
  BY <1>1, <1>3 DEF Exact

LEMMA InsertedExact ==
  ASSUME Settings, NEW v, NEW P \in Ints, Exact(v, P), NEW t \in Timers, t \notin ToSet(v.list),
         NEW delta \in 0..Wrap - 1, Same(v.last + delta, P[t])
  PROVE  /\ Exact(Inserted(v, t, delta), P)
         /\ \E i \in 1..Len(v.list) + 1 :
              /\ Stops(v.list, v.delta, Remaining(v, delta), i)
              /\ Placed(Timers, v.list, t, i, Inserted(v, t, delta).list)
         /\ Inserted(v, t, delta).last = v.last
         /\ Inserted(v, t, delta).alarm = v.alarm /\ Inserted(v, t, delta).on = v.on
<1> DEFINE q == v.list
           D == v.delta
           rem == Remaining(v, delta)
<1>1. v \in VList /\ IsInjective(q) /\ Chain(q, D, v.last, P)
  BY DEF Exact
<1>2. q \in Seq(Timers) /\ D \in Distances /\ D \in Ints /\ v.last \in Int /\ delta \in Int /\ P[t] \in Int
  BY <1>1, Fields, DistancesAreInts DEF Settings, TimeAssumption, Ints
<1>3. Scan(q, D, delta, rem) /\ DOMAIN rem = 1..Len(q) + 1
  BY <1>2, RemainingScans
<1> DEFINE at == CHOOSE i \in DOMAIN rem :
              /\ \A j \in 1..i - 1 : D[q[j]] < rem[j]
              /\ i <= Len(q) => D[q[i]] >= rem[i]
           X == InsertAt(q, at, t)
           Y == [u \in Timers |->
                     IF u = t THEN rem[at]
                     ELSE IF at <= Len(q) /\ u = q[at] THEN D[u] - rem[at]
                     ELSE D[u]]
<1>4. Inserted(v, t, delta) = [v EXCEPT !.list = X, !.delta = Y]
  BY Zenon DEF Inserted
<1> HIDE DEF rem
<1>5. /\ \E i \in 1..Len(q) + 1 : Stops(q, D, rem, i)
      /\ \A i \in 1..Len(q) + 1 :
              Stops(q, D, rem, i) =>
                /\ rem[i] \in 0..Wrap - 1
                /\ i <= Len(q) => D[q[i]] - rem[i] \in 0..Wrap - 1
  <2>1. Wrap \in Nat
    BY DEF Settings, TimeAssumption
  <2> QED
    BY <1>2, <1>3, <2>1, ScanStops
<1>6. at = CHOOSE i \in 1..Len(q) + 1 : Stops(q, D, rem, i)
  BY <1>3 DEF Stops
<1>7. at \in 1..Len(q) + 1 /\ Stops(q, D, rem, at)
  <2> HIDE DEF at
  <2> QED
    BY <1>5, <1>6
<1> HIDE DEF at
<1>8. rem[at] \in 0..Wrap - 1 /\ (at <= Len(q) => D[q[at]] - rem[at] \in 0..Wrap - 1)
  BY <1>5, <1>7
<1>9. Y \in Distances
  <2>1. \A u \in Timers : D[u] \in 0..Wrap - 1
    BY <1>2 DEF Distances
  <2>2. \A u \in Timers : Y[u] \in 0..Wrap - 1
    BY <1>8, <2>1
  <2> QED
    BY <2>2 DEF Distances
<1>10. Placed(Timers, q, t, at, X)
  BY <1>2, <1>7, InsertAtPlaces
<1> HIDE DEF X
<1>11. \A j \in 1..Len(q) : q[j] \in Timers /\ q[j] # t /\ (q[j] = q[at] /\ at <= Len(q) => j = at)
  <2>1. \A j \in 1..Len(q) : q[j] \in Timers /\ q[j] # t
    BY <1>2 DEF ToSet
  <2>2. at <= Len(q) => at \in 1..Len(q)
    BY <1>2, <1>7
  <2>3. \A j, k \in 1..Len(q) : q[j] = q[k] => j = k
    BY <1>1, <1>2 DEF IsInjective
  <2> QED
    BY <2>1, <2>2, <2>3
<1>12. /\ Y[t] = rem[at]
       /\ at <= Len(q) => Y[q[at]] = D[q[at]] - rem[at]
       /\ \A j \in 1..Len(q) : j # at => Y[q[j]] = D[q[j]]
  <2>1. at <= Len(q) => at \in 1..Len(q)
    BY <1>2, <1>7
  <2> QED
    BY <1>11, <2>1
<1> HIDE DEF Y
<1>13. Same(From(q, v.last, P, at) + Y[t], P[t])
  <2>1. Same(From(q, v.last, P, at) + rem[at], P[t])
    BY <1>1, <1>2, <1>3, <1>7, ScanSame
  <2> QED
    BY <1>12, <2>1
<1>14. Chain(X, Y, v.last, P)
  <2>1. Y \in Ints
    BY <1>9, DistancesAreInts
  <2>2. Takes(q, t, at, D, Y)
    BY <1>12 DEF Takes
  <2> HIDE DEF D, q
  <2>3. t \notin ToSet(q)
    BY DEF q
  <2> QED
    BY <1>1, <1>2, <1>7, <1>10, <1>13, <2>1, <2>2, <2>3, ChainPlaced
<1>15. X \in Seq(Timers) /\ IsInjective(X)
  <2>1. X \in Seq(Timers) /\ Len(X) = Len(q) + 1
    BY <1>10 DEF Placed
  <2>2. ASSUME NEW j \in 1..Len(X), NEW k \in 1..Len(X), j < k PROVE X[j] # X[k]
    <3>1. Len(q) \in Nat /\ (\A a, b \in 1..Len(q) : q[a] = q[b] => a = b) /\ \A a \in 1..Len(q) : q[a] # t
      BY <1>1, <1>2, <1>11 DEF IsInjective
    <3>2. \A a \in 1..Len(X) :
             \/ a \in 1..at - 1 /\ a \in 1..Len(q) /\ X[a] = q[a]
             \/ a = at /\ X[a] = t
             \/ a \in at + 1..Len(q) + 1 /\ a - 1 \in 1..Len(q) /\ X[a] = q[a - 1]
      <4> SUFFICES ASSUME NEW a \in 1..Len(X)
                   PROVE  \/ a \in 1..at - 1 /\ a \in 1..Len(q) /\ X[a] = q[a]
                          \/ a = at /\ X[a] = t
                          \/ a \in at + 1..Len(q) + 1 /\ a - 1 \in 1..Len(q) /\ X[a] = q[a - 1]
        OBVIOUS
      <4>1. \/ a \in 1..at - 1 /\ a \in 1..Len(q)
            \/ a = at
            \/ a \in at + 1..Len(q) + 1 /\ a - 1 \in 1..Len(q)
        BY <1>7, <2>1, <3>1
      <4> QED
        BY <1>10, <4>1 DEF Placed
    <3>3. CASE j \in 1..at - 1 /\ j \in 1..Len(q) /\ X[j] = q[j]
      <4>1. \/ k = at /\ X[k] = t
            \/ k \in 1..Len(q) /\ X[k] = q[k]
            \/ k - 1 \in 1..Len(q) /\ X[k] = q[k - 1] /\ k - 1 # j
        BY <1>7, <3>2, <3>3
      <4>2. k # j
        BY <2>1, <2>2
      <4> QED
        BY <3>1, <3>3, <4>1, <4>2
    <3>4. CASE j = at /\ X[j] = t
      <4>1. k - 1 \in 1..Len(q) /\ X[k] = q[k - 1]
        BY <1>7, <2>1, <2>2, <3>2, <3>4
      <4> QED
        BY <3>1, <3>4, <4>1
    <3>5. CASE j \in at + 1..Len(q) + 1 /\ j - 1 \in 1..Len(q) /\ X[j] = q[j - 1]
      <4>1. k - 1 \in 1..Len(q) /\ X[k] = q[k - 1] /\ k - 1 # j - 1
        BY <1>7, <2>1, <2>2, <3>2, <3>5
      <4> QED
        BY <3>1, <3>5, <4>1
    <3> QED
      BY <3>2, <3>3, <3>4, <3>5
  <2>3. \A j, k \in 1..Len(X) : X[j] = X[k] => j = k
    <3>1. \A j, k \in 1..Len(X) : j = k \/ j < k \/ k < j
      BY <2>1
    <3> QED
      BY <2>2, <3>1
  <2>4. DOMAIN X = 1..Len(X)
    BY <2>1
  <2> QED
    BY <2>1, <2>3, <2>4 DEF IsInjective
<1> DEFINE w == [v EXCEPT !.list = X, !.delta = Y]
<1>16. /\ w \in VList /\ w.list = X /\ w.delta = Y
       /\ w.last = v.last /\ w.alarm = v.alarm /\ w.on = v.on
  BY <1>1, <1>9, <1>15 DEF VList
<1> HIDE DEF w
<1>17. Exact(w, P)
  BY <1>14, <1>15, <1>16 DEF Exact
<1>18. \E i \in 1..Len(q) + 1 : Stops(q, D, rem, i) /\ Placed(Timers, q, t, i, w.list)
  BY <1>7, <1>10, <1>16
<1> QED
  BY <1>4, <1>16, <1>17, <1>18 DEF w, rem

\* The comparator is no part of the list.
LEMMA AlarmExact ==
  ASSUME NEW v, NEW P, Exact(v, P), NEW a \in 0..Wrap - 1
  PROVE  /\ Exact([v EXCEPT !.alarm = a], P) /\ [v EXCEPT !.alarm = a].list = v.list
         /\ [v EXCEPT !.alarm = a].delta = v.delta /\ [v EXCEPT !.alarm = a].last = v.last
         /\ Exact([v EXCEPT !.on = FALSE], P) /\ [v EXCEPT !.on = FALSE].list = v.list
<1>1. v \in VList /\ IsInjective(v.list) /\ Chain(v.list, v.delta, v.last, P)
  BY DEF Exact
<1> DEFINE w == [v EXCEPT !.alarm = a]
           x == [v EXCEPT !.on = FALSE]
<1>2. w \in VList /\ w.list = v.list /\ w.delta = v.delta /\ w.last = v.last
  BY <1>1 DEF VList
<1>3. x \in VList /\ x.list = v.list /\ x.delta = v.delta /\ x.last = v.last
  BY <1>1 DEF VList
<1> HIDE DEF w, x
<1>4. Exact(w, P) /\ Exact(x, P)
  BY <1>1, <1>2, <1>3 DEF Exact
<1> QED
  BY <1>2, <1>3, <1>4 DEF w, x

LEMMA RaisedRange ==
  ASSUME Settings, NEW request \in Delays
  PROVE  Raised(request) \in 1..Wrap - 1
<1>1. request \in Int /\ request > 0 /\ Wrap \in Int /\ TimeDelta \in Nat /\ Margin \in Nat
  BY DEF Settings, TimeAssumption, Margin, MaxLate
<1>2. Larger(request, TimeDelta) + Margin < Wrap - 1
  BY DEF Settings, TimeAssumption
<1> QED
  BY <1>1, <1>2 DEF Raised, Larger

LEMMA SetExact ==
  ASSUME Settings, time \in 0..Wrap - 1, NEW v, NEW P \in Ints, Exact(v, P),
         NEW t \in Timers, t \notin ToSet(v.list), NEW request \in Delays,
         Same(time + Raised(request), P[t])
  PROVE  Exact(DoSetI(v, t, request), P)
<1> DEFINE delay == Raised(request)
           x == Add(time, delay)
           delta == Sub(x, v.last)
<1>1. v \in VList /\ IsInjective(v.list) /\ Chain(v.list, v.delta, v.last, P)
  BY DEF Exact
<1>2. /\ v.list \in Seq(Timers) /\ v.delta \in Distances /\ v.last \in 0..Wrap - 1
      /\ v.on \in BOOLEAN /\ v.last \in Int /\ P[t] \in Int /\ time \in Int
  BY <1>1, Fields DEF Settings, TimeAssumption, Ints
<1>3. delay \in 0..Wrap - 1 /\ delay \in Int /\ time + delay \in Int
  BY <1>2, RaisedRange DEF Settings, TimeAssumption
<1>4. Same(time + delay, P[t])
  OBVIOUS
<1> HIDE DEF delay
<1>5. x \in 0..Wrap - 1 /\ x \in Int /\ Same(x, time + delay)
  BY <1>2, <1>3, AddSub
<1>6. CASE v.list = <<>>
  <2> DEFINE D2 == [v.delta EXCEPT ![t] = delay]
             w == [list |-> <<t>>, delta |-> D2, last |-> time, alarm |-> x, on |-> TRUE]
  <2>1. DoSetI(v, t, request) = w
    BY <1>6, Zenon DEF DoSetI, delay
  <2>2. D2 \in Distances /\ D2[t] = delay
    BY <1>2, <1>3 DEF Distances
  <2> HIDE DEF x, D2
  <2>3. w \in VList /\ w.list = <<t>> /\ w.delta = D2 /\ w.last = time
    BY <1>5, <2>2 DEF VList
  <2>4. IsInjective(<<t>>)
    BY DEF IsInjective
  <2>5. Chain(<<t>>, D2, time, P)
    BY <1>4, <2>2 DEF Chain, From
  <2> HIDE DEF w
  <2> QED
    BY <2>1, <2>3, <2>4, <2>5 DEF Exact
<1>7. CASE v.list # <<>>
  <2> DEFINE w == IF delta < v.delta[Head(v.list)] THEN [v EXCEPT !.alarm = Add(v.last, delta)] ELSE v
  <2>1. DoSetI(v, t, request) = Inserted(w, t, delta)
    BY <1>7, Zenon DEF DoSetI, delay
  <2>2. delta \in 0..Wrap - 1 /\ delta \in Int /\ Same(v.last + delta, x)
    BY <1>2, <1>5, AddSub
  <2>3. Same(v.last + delta, P[t])
    BY <1>4, <1>5, <2>2, SameTrans
  <2> HIDE DEF delta
  <2>4. Add(v.last, delta) \in 0..Wrap - 1
    BY <1>2, <2>2, AddSub
  <2>5. Exact(w, P) /\ w.list = v.list /\ w.last = v.last
    <3> DEFINE a == Add(v.last, delta)
    <3>1. Exact([v EXCEPT !.alarm = a], P) /\ [v EXCEPT !.alarm = a].list = v.list
          /\ [v EXCEPT !.alarm = a].last = v.last
      <4> HIDE DEF a
      <4> QED
        BY <2>4, AlarmExact DEF a
    <3> QED
      BY <3>1
  <2> HIDE DEF w
  <2> QED
    BY <2>1, <2>2, <2>3, <2>5, InsertedExact
<1> QED
  BY <1>6, <1>7

\* chVTDoResetI takes the timer at place i out and leaves w: the alarm is the
\* old one, or one for the timer that is first now.
ResetTo(v, i, w) ==
  /\ Without(Timers, v.list, i, w.list) /\ w.last = v.last
  /\ w.list = <<>> => w.on = FALSE
  /\ w.list # <<>> =>
       /\ w.on = v.on
       /\ IF i # 1 \/ Sub(time, v.last) >= w.delta[Head(w.list)] THEN w.alarm = v.alarm
          ELSE w.alarm = Add(Add(v.last, Sub(time, v.last)),
                             Larger(w.delta[Head(w.list)] - Sub(time, v.last), TimeDelta))

\* One timer is taken out.
LEMMA ResetExact ==
  ASSUME Settings, time \in 0..Wrap - 1, NEW v, NEW P \in Ints, Exact(v, P),
         NEW t \in ToSet(v.list)
  PROVE  /\ Exact(DoResetI(v, t), P) /\ ToSet(DoResetI(v, t).list) = ToSet(v.list) \ {t}
         /\ \E i \in 1..Len(v.list) : v.list[i] = t /\ ResetTo(v, i, DoResetI(v, t))
<1> DEFINE q == v.list
           D == v.delta
           i == CHOOSE j \in DOMAIN q : q[j] = t
           r == RemoveAt(q, i)
           Y == [x \in Timers |->
                    IF x = t THEN 0
                    ELSE IF i < Len(q) /\ x = q[i + 1] THEN GapClosed(D[x], D[t])
                    ELSE D[x]]
           u == [v EXCEPT !.list = r, !.delta = Y]
           since == Sub(time, v.last)
           first == u.delta[Head(r)]
           a == Add(Add(v.last, since), Larger(first - since, TimeDelta))
<1>1. v \in VList /\ IsInjective(q) /\ Chain(q, D, v.last, P)
  BY DEF Exact
<1>2. /\ q \in Seq(Timers) /\ D \in Distances /\ D \in Ints /\ v.last \in 0..Wrap - 1
      /\ v.last \in Int /\ time \in Int /\ Wrap \in Nat \ {0}
  BY <1>1, Fields, DistancesAreInts DEF Settings, TimeAssumption
<1>3. DoResetI(v, t) =
        IF i # 1 THEN u
        ELSE IF r = <<>> THEN [u EXCEPT !.on = FALSE]
        ELSE IF since >= first THEN u
        ELSE [u EXCEPT !.alarm = a]
  BY Zenon DEF DoResetI
<1>4. r = Dequeue(q, t)
  BY Zenon DEF Dequeue
<1>5. i \in 1..Len(q) /\ q[i] = t
  BY <1>2 DEF ToSet
<1> HIDE DEF i
<1>6. \A j \in 1..Len(q) : q[j] \in Timers /\ (q[j] = t => j = i)
  BY <1>1, <1>2, <1>5 DEF IsInjective
<1>7. PICK k \in 1..Len(q) : q[k] = t /\ Without(Timers, q, k, Dequeue(q, t))
  BY <1>2, DequeuePlaces
<1>8. k = i
  BY <1>6, <1>7
<1>9. Without(Timers, q, i, r)
  BY <1>4, <1>7, <1>8
<1>10. r \in Seq(Timers) /\ IsInjective(r) /\ ToSet(r) = ToSet(q) \ {t}
  BY <1>1, <1>2, <1>4, DequeueOne
<1> HIDE DEF r
<1>11. \A x \in Timers : D[x] \in 0..Wrap - 1 /\ D[x] \in Int
  BY <1>2 DEF Distances, Ints
<1>12. Y \in Distances
  <2>1. t \in Timers
    BY <1>5, <1>6
  <2>2. \A x \in Timers : GapClosed(D[x], D[t]) \in 0..Wrap - 1
    BY <1>11, <2>1, AddSub DEF GapClosed
  <2>3. \A x \in Timers : Y[x] \in 0..Wrap - 1
    BY <1>2, <1>11, <2>2
  <2> QED
    BY <2>3 DEF Distances
<1>13. /\ i < Len(q) => Y[q[i + 1]] = (D[q[i + 1]] + D[q[i]]) % Wrap
       /\ \A j \in 1..Len(q) : j # i /\ j # i + 1 => Y[q[j]] = D[q[j]]
  <2>1. i < Len(q) => i + 1 \in 1..Len(q) /\ q[i + 1] \in Timers /\ q[i + 1] # t
    <3>1. i < Len(q) => i + 1 \in 1..Len(q) /\ i + 1 # i
      BY <1>2, <1>5
    <3> QED
      BY <1>6, <3>1
  <2>2. i < Len(q) => Y[q[i + 1]] = (D[q[i + 1]] + D[q[i]]) % Wrap
    BY <1>5, <2>1 DEF GapClosed, Add
  <2>3. ASSUME NEW j \in 1..Len(q), j # i, j # i + 1 PROVE Y[q[j]] = D[q[j]]
    <3>1. q[j] \in Timers /\ q[j] # t
      BY <1>6, <2>3
    <3>2. i < Len(q) => q[j] # q[i + 1]
      BY <1>1, <1>2, <2>1, <2>3 DEF IsInjective
    <3> QED
      BY <3>1, <3>2
  <2> QED
    BY <2>2, <2>3
<1> HIDE DEF Y
<1>14. u \in VList /\ u.list = r /\ u.delta = Y /\ u.last = v.last /\ u.alarm = v.alarm /\ u.on = v.on
  BY <1>1, <1>10, <1>12 DEF VList
<1> HIDE DEF u
<1>15. Exact(u, P)
  <2>1. Y \in Ints
    BY <1>12, DistancesAreInts
  <2>3. Gives(q, i, D, Y)
    BY <1>13 DEF Gives
  <2> HIDE DEF D, q
  <2>2. Chain(r, Y, v.last, P)
    BY <1>1, <1>2, <1>5, <1>9, <2>1, <2>3, ChainWithout
  <2> QED
    BY <1>10, <1>14, <2>2 DEF Exact
<1>16. Exact([u EXCEPT !.on = FALSE], P) /\ [u EXCEPT !.on = FALSE].list = r
  <2>1. 0 \in 0..Wrap - 1
    BY <1>2
  <2> QED
    BY <1>14, <1>15, <2>1, AlarmExact
<1>17. r # <<>> => Exact([u EXCEPT !.alarm = a], P) /\ [u EXCEPT !.alarm = a].list = r
  <2> SUFFICES ASSUME r # <<>> PROVE Exact([u EXCEPT !.alarm = a], P) /\ [u EXCEPT !.alarm = a].list = r
    OBVIOUS
  <2>1. since \in Int /\ Add(v.last, since) \in Int
    BY <1>2, AddSub
  <2>2. first \in Int
    <3>1. Head(r) \in Timers
      BY <1>10
    <3> QED
      BY <1>12, <1>14, <3>1, DistancesAreInts DEF Ints
  <2> HIDE DEF since, first
  <2>3. Larger(first - since, TimeDelta) \in Int
    BY <2>1, <2>2 DEF Larger, Settings, TimeAssumption
  <2>4. a \in 0..Wrap - 1
    BY <2>1, <2>3, AddSub
  <2> HIDE DEF a
  <2> QED
    BY <1>14, <1>15, <2>4, AlarmExact
<1> HIDE DEF a, first, since
<1> DEFINE w1 == [u EXCEPT !.on = FALSE]
           w2 == [u EXCEPT !.alarm = a]
<1>18. DoResetI(v, t) \in {u, w1, w2} /\ (DoResetI(v, t) = w2 => r # <<>> \/ w2 = u \/ w2 = w1)
  BY <1>3
<1>19. Exact(w1, P) /\ w1.list = r /\ (r # <<>> => Exact(w2, P) /\ w2.list = r)
  BY <1>16, <1>17
<1> HIDE DEF w1, w2
<1>20. Exact(DoResetI(v, t), P) /\ DoResetI(v, t).list = r
  BY <1>14, <1>15, <1>18, <1>19
<1>21. ResetTo(v, i, DoResetI(v, t))
  <2>1. i # 1 => r # <<>>
    <3>1. Len(r) = Len(q) - 1 /\ Len(q) \in Nat
      BY <1>2, <1>9 DEF Without
    <3>2. i # 1 => Len(r) # 0
      BY <1>5, <3>1
    <3> QED
      BY <3>2
  <2>2. /\ w1.list = r /\ w1.last = v.last /\ w1.on = FALSE
        /\ w2.list = r /\ w2.last = v.last /\ w2.on = v.on /\ w2.alarm = a /\ w2.delta = Y
    BY <1>14 DEF VList, w1, w2
  <2>3. CASE r = <<>>
    <3>1. DoResetI(v, t) = w1
      BY <1>3, <2>1, <2>3 DEF w1
    <3> QED
      BY <1>9, <2>2, <2>3, <3>1 DEF ResetTo
  <2>4. CASE r # <<>> /\ (i # 1 \/ since >= first)
    <3>1. DoResetI(v, t) = u
      BY <1>3, <2>4
    <3> QED
      BY <1>9, <1>14, <2>4, <3>1 DEF ResetTo, first, since
  <2>5. CASE r # <<>> /\ ~(i # 1 \/ since >= first)
    <3>1. DoResetI(v, t) = w2
      BY <1>3, <2>5 DEF w2
    <3>2. first = w2.delta[Head(r)]
      BY <1>14, <2>2 DEF first
    <3> QED
      BY <1>9, <2>2, <2>5, <3>1, <3>2 DEF ResetTo, since, a
  <2> QED
    BY <2>3, <2>4, <2>5
<1> QED
  BY <1>5, <1>10, <1>20, <1>21

\* The first timer expires.
LEMMA PoppedExact ==
  ASSUME Settings, NEW v, NEW P \in Ints, Exact(v, P), v.list # <<>>
  PROVE  /\ Exact(Popped(v), P)
         /\ Head(v.list) \in Timers /\ Popped(v).list = Tail(v.list)
         /\ Popped(v).last = Add(v.last, v.delta[Head(v.list)])
         /\ Popped(v).on = (v.on /\ Len(v.list) > 1)
         /\ \A t \in ToSet(Tail(v.list)) : t \in ToSet(v.list) /\ t # Head(v.list)
<1> DEFINE q == v.list
           D == v.delta
           h == Head(q)
           D2 == [D EXCEPT ![h] = 0]
           next == Add(v.last, D[h])
           w == [v EXCEPT !.list = Tail(@), !.last = Add(@, v.delta[Head(v.list)]),
                          !.delta = [@ EXCEPT ![Head(v.list)] = 0], !.on = @ /\ Len(v.list) > 1]
<1>1. v \in VList /\ IsInjective(q) /\ Chain(q, D, v.last, P)
  BY DEF Exact
<1>2. /\ q \in Seq(Timers) /\ D \in Distances /\ D \in Ints /\ v.last \in 0..Wrap - 1
      /\ v.last \in Int /\ v.on \in BOOLEAN /\ Wrap \in Nat \ {0}
  BY <1>1, Fields, DistancesAreInts DEF Settings, TimeAssumption
<1>3. /\ h \in Timers /\ h = q[1] /\ Len(q) \in Nat /\ Len(q) >= 1
      /\ Tail(q) \in Seq(Timers) /\ Len(Tail(q)) = Len(q) - 1
      /\ \A j \in 1..Len(q) - 1 : Tail(q)[j] = q[j + 1]
  BY <1>2
<1>4. \A j \in 2..Len(q) : q[j] \in Timers /\ q[j] # h
  <2>1. \A j \in 2..Len(q) : j \in 1..Len(q) /\ 1 \in 1..Len(q) /\ j # 1
    BY <1>3
  <2> QED
    BY <1>1, <1>2, <1>3, <2>1 DEF IsInjective
<1>5. D2 \in Distances /\ next \in 0..Wrap - 1
  <2>1. D[h] \in Int
    BY <1>2, <1>3 DEF Ints
  <2>2. next \in 0..Wrap - 1
    BY <1>2, <2>1, AddSub
  <2>3. D2 \in Distances
    BY <1>2, <1>3 DEF Distances
  <2> QED
    BY <2>2, <2>3
<1>6. \A j \in 2..Len(q) : D2[q[j]] = D[q[j]]
  BY <1>2, <1>3, <1>4 DEF Distances
<1>7. Chain(Tail(q), D2, next, P)
  <2>1. D2 \in Ints
    BY <1>5, DistancesAreInts
  <2>2. next = (v.last + D[Head(q)]) % Wrap
    BY DEF Add
  <2> HIDE DEF D2, next
  <2>3. Chain(Tail(q), D2, (v.last + D[Head(q)]) % Wrap, P)
    BY <1>1, <1>2, <1>6, <2>1, ChainTail
  <2> QED
    BY <2>2, <2>3
<1>8. Popped(v) = w
  BY Zenon DEF Popped
<1>9. w = [v EXCEPT !.list = Tail(q), !.last = next, !.delta = D2, !.on = v.on /\ Len(q) > 1]
  BY <1>1 DEF VList
<1> HIDE DEF w, D2, next
<1>10. /\ w \in VList /\ w.list = Tail(q) /\ w.delta = D2 /\ w.last = next
       /\ w.on = (v.on /\ Len(q) > 1)
  BY <1>1, <1>2, <1>3, <1>5, <1>9 DEF VList
<1>11. IsInjective(Tail(q)) /\ ToSet(Tail(q)) = ToSet(q) \ {h}
  BY <1>1, <1>2, TailQueue
<1>12. Exact(w, P)
  BY <1>7, <1>10, <1>11 DEF Exact
<1> QED
  BY <1>3, <1>8, <1>10, <1>11, <1>12 DEF next

\* The alarm is programmed.
LEMMA RearmedExact ==
  ASSUME Settings, time \in 0..Wrap - 1, NEW v, NEW P \in Ints, Exact(v, P)
  PROVE  Exact(Rearmed(v), P) /\ Rearmed(v).list = v.list
<1>1. CASE v.list = <<>>
  BY <1>1 DEF Rearmed
<1>2. CASE v.list # <<>>
  <2> DEFINE due == Add(v.last, v.delta[Head(v.list)])
             wait == Larger(Sub(due, time), TimeDelta)
             a == Add(time, wait)
  <2>1. Rearmed(v) = [v EXCEPT !.alarm = a]
    BY <1>2, Zenon DEF Rearmed
  <2>2. v \in VList /\ time \in Int
    BY DEF Exact, Settings, TimeAssumption
  <2>3. v.list \in Seq(Timers) /\ v.delta \in Ints /\ v.last \in Int
    BY <2>2, Fields, DistancesAreInts DEF Settings, TimeAssumption
  <2>4. v.delta[Head(v.list)] \in Int
    BY <1>2, <2>3 DEF Ints
  <2>5. due \in Int
    BY <2>3, <2>4, AddSub
  <2>6. wait \in Int
    <3>1. Sub(due, time) \in Int
      BY <2>2, <2>5, AddSub
    <3> QED
      BY <3>1 DEF Larger, Settings, TimeAssumption
  <2> HIDE DEF wait
  <2>7. a \in 0..Wrap - 1
    BY <2>2, <2>6, AddSub
  <2> HIDE DEF a
  <2>8. Exact([v EXCEPT !.alarm = a], P) /\ [v EXCEPT !.alarm = a].list = v.list
    BY <2>7, AlarmExact
  <2> QED
    BY <2>1, <2>8
<1> QED
  BY <1>1, <1>2

-----------------------------------------------------------------------------
(***************************************************************************)
(* The invariant and the steps.                                            *)
(***************************************************************************)
Clocks ==
  /\ time \in 0..Wrap - 1
  /\ flag \in BOOLEAN /\ latched \in BOOLEAN /\ ticking \in BOOLEAN
  /\ behind \in 0..Latency
  /\ left \in Ints
  /\ late \in Int

VTInv == Clocks /\ Exact(vtlist, Points)

LEMMA PointsAre ==
  ASSUME VTInv, Settings
  PROVE  Points \in Ints /\ \A t \in Timers : Points[t] = time + left[t] /\ left[t] \in Int
BY DEF VTInv, Clocks, Points, Ints, Settings, TimeAssumption

\* While the counter moves on by d, what is due in x ticks comes d closer.
LEMMA Passing ==
  ASSUME VTInv, Settings, NEW d \in 0..Slip, NEW clears, Moves(d, clears)
  PROVE  /\ time' \in 0..Wrap - 1 /\ time' \in Int /\ flag' \in BOOLEAN /\ latched' \in BOOLEAN
         /\ latched \/ ticking => behind + d \in 0..Latency
         /\ \A x \in Int : Same(time' + (x - d), time + x)
<1>1. time \in Int /\ d \in Int /\ d >= 0 /\ behind \in 0..Latency /\ time' = Add(time, d)
  BY DEF Settings, TimeAssumption, VTInv, Clocks, Moves
<1>2. time' \in 0..Wrap - 1 /\ time' \in Int /\ Same(time', time + d)
  BY <1>1, AddSub
<1>3. latched \/ ticking => behind + d \in 0..Latency
  BY <1>1 DEF Moves, Settings, TimeAssumption
<1>4. flag' \in BOOLEAN /\ latched' \in BOOLEAN
  BY DEF Moves
<1>5. ASSUME NEW x \in Int PROVE Same(time' + (x - d), time + x)
  <2> DEFINE a == time'
  <2>1. a \in Int /\ Same(a, time + d) /\ time + d \in Int /\ x - d \in Int
    BY <1>1, <1>2
  <2> HIDE DEF a
  <2>2. Same(a + (x - d), (time + d) + (x - d))
    BY <2>1, SameSum
  <2>3. (time + d) + (x - d) = time + x
    BY <1>1
  <2> QED
    BY <2>2, <2>3 DEF a
<1> QED
  BY <1>2, <1>3, <1>4, <1>5

LEMMA Lagging ==
  ASSUME VTInv, Settings, NEW d, Lags(d),
         latched \/ ticking => behind + d \in 0..Latency
  PROVE  behind' \in 0..Latency
BY DEF Lags, Settings, TimeAssumption

LEMMA Ageing ==
  ASSUME VTInv, Settings, NEW d \in 0..Slip
  PROVE  Ages(d) \in Ints /\ \A t \in Timers : Ages(d)[t] = IF Armed(t) THEN left[t] - d ELSE left[t]
<1>1. d \in Int /\ \A t \in Timers : left[t] \in Int
  BY DEF Settings, TimeAssumption, VTInv, Clocks, Ints
<1> QED
  BY <1>1 DEF Ages, Ints

\* The times that the timers of v are due at stay what they are.
LEMMA ExactPassing ==
  ASSUME VTInv, Settings, NEW d \in 0..Slip, NEW clears, Moves(d, clears), left' \in Ints,
         NEW v, Exact(v, Points),
         \A t \in ToSet(v.list) : left'[t] = left[t] - d
  PROVE  Points' \in Ints /\ Exact(v, Points')
<1>1. /\ time' \in Int
      /\ \A x \in Int : Same(time' + (x - d), time + x)
  BY Passing
<1>2. Points' = [t \in Timers |-> time' + left'[t]]
  BY DEF Points
<1>3. \A t \in Timers : left'[t] \in Int
  BY DEF Ints
<1>4. Points' \in Ints
  BY <1>1, <1>2, <1>3 DEF Ints
<1>5. \A t \in ToSet(v.list) : t \in Timers
  <2>1. v.list \in Seq(Timers)
    BY Fields DEF Exact
  <2> QED
    BY <2>1 DEF ToSet
<1>6. \A t \in ToSet(v.list) : Same(Points'[t], Points[t])
  BY <1>1, <1>2, <1>5, PointsAre
<1> DEFINE P2 == Points'
<1>7. P2 \in Ints /\ \A t \in ToSet(v.list) : Same(P2[t], Points[t])
  BY <1>4, <1>6
<1>8. Points \in Ints
  BY PointsAre
<1> HIDE DEF P2
<1>9. Exact(v, P2)
  BY <1>7, <1>8, ExactSame
<1> QED
  BY <1>7, <1>9 DEF P2

LEMMA DisarmedExact ==
  ASSUME VTInv, Settings, NEW t \in Timers
  PROVE  /\ Exact(Disarmed(t), Points)
         /\ \A u \in ToSet(Disarmed(t).list) : u \in Timers /\ u # t /\ Armed(u)
<1>1. Exact(vtlist, Points) /\ time \in 0..Wrap - 1 /\ Points \in Ints
  BY PointsAre DEF VTInv, Clocks
<1>2. \A u \in ToSet(vtlist.list) : u \in Timers
  <2>1. vtlist.list \in Seq(Timers)
    BY <1>1, Fields DEF Exact
  <2> QED
    BY <2>1 DEF ToSet
<1>3. CASE Armed(t)
  <2>1. Exact(DoResetI(vtlist, t), Points)
        /\ ToSet(DoResetI(vtlist, t).list) = ToSet(vtlist.list) \ {t}
    BY <1>1, <1>3, ResetExact DEF Armed
  <2> QED
    BY <1>2, <1>3, <2>1 DEF Disarmed, Armed
<1>4. CASE ~Armed(t)
  BY <1>1, <1>2, <1>4 DEF Disarmed, Armed
<1> QED
  BY <1>3, <1>4

LEMMA StepTick == ASSUME VTInv, Settings, Tick PROVE VTInv'
<1>0. 1 \in 0..Slip
  BY DEF Settings, TimeAssumption
<1>1. 1 \in 0..Slip /\ Moves(1, FALSE) /\ Lags(1) /\ left' = Ages(1) /\ UNCHANGED <<vtlist, ticking, late>>
  BY <1>0 DEF Tick
<1>2. left' \in Ints /\ \A t \in ToSet(vtlist.list) : t \in Timers => left'[t] = left[t] - 1
  BY <1>1, Ageing DEF Armed
<1>3. Exact(vtlist, Points) /\ \A t \in ToSet(vtlist.list) : t \in Timers
  <2>1. Exact(vtlist, Points)
    BY DEF VTInv
  <2>2. vtlist.list \in Seq(Timers)
    BY <2>1, Fields DEF Exact
  <2> QED
    BY <2>1, <2>2 DEF ToSet
<1>4. Exact(vtlist, Points')
  BY <1>1, <1>2, <1>3, ExactPassing
<1>5. Clocks'
  BY <1>1, <1>2, Passing, Lagging DEF VTInv, Clocks
<1>6. vtlist' = vtlist
  BY <1>1
<1> QED
  BY <1>4, <1>5, <1>6 DEF VTInv

LEMMA StepSet ==
  ASSUME VTInv, Settings, NEW t \in Timers, NEW delay \in Delays, NEW d \in 0..Slip,
         SetI(t, delay, d)
  PROVE  VTInv'
<1> DEFINE v == Disarmed(t)
           clears == Disarmed(t).list = <<>>
<1>1. /\ Moves(d, clears) /\ Lags(d) /\ vtlist' = DoSetI(v, t, delay)
      /\ left' = [Ages(d) EXCEPT ![t] = Raised(delay) - d]
      /\ UNCHANGED <<ticking, late>>
  BY DEF SetI
<1>2. Exact(v, Points) /\ \A u \in ToSet(v.list) : u \in Timers /\ u # t /\ Armed(u)
  BY DisarmedExact
<1> HIDE DEF v, clears
<1>3. Raised(delay) \in 1..Wrap - 1 /\ Raised(delay) \in Int /\ Raised(delay) - d \in Int
  <2>1. Raised(delay) \in 1..Wrap - 1
    BY RaisedRange
  <2>2. d \in Int
    BY DEF Settings, TimeAssumption
  <2> QED
    BY <2>1, <2>2 DEF Settings, TimeAssumption
<1>4. left' \in Ints /\ left'[t] = Raised(delay) - d /\ \A u \in ToSet(v.list) : left'[u] = left[u] - d
  <2> DEFINE A == Ages(d)
  <2>1. A \in Ints /\ \A u \in Timers : A[u] = IF Armed(u) THEN left[u] - d ELSE left[u]
    BY Ageing
  <2>2. left' = [A EXCEPT ![t] = Raised(delay) - d]
    BY <1>1
  <2> HIDE DEF A
  <2>3. left' \in Ints /\ left'[t] = Raised(delay) - d /\ \A u \in Timers : u # t => left'[u] = A[u]
    BY <1>3, <2>1, <2>2 DEF Ints
  <2> QED
    BY <1>2, <2>1, <2>3
<1>5. Points' \in Ints /\ Exact(v, Points')
  BY <1>1, <1>2, <1>4, ExactPassing
<1>6. Same(time + Raised(delay), Points'[t])
  <2>1. Points'[t] = time' + (Raised(delay) - d)
    BY <1>4 DEF Points
  <2>2. Same(time' + (Raised(delay) - d), time + Raised(delay))
    BY <1>1, <1>3, Passing
  <2> QED
    BY <2>1, <2>2 DEF Same
<1> DEFINE P2 == Points'
<1>7. P2 \in Ints /\ Exact(v, P2) /\ Same(time + Raised(delay), P2[t]) /\ t \notin ToSet(v.list)
      /\ time \in 0..Wrap - 1
  BY <1>2, <1>5, <1>6 DEF VTInv, Clocks
<1> HIDE DEF P2
<1>8. Exact(vtlist', P2)
  BY <1>1, <1>7, SetExact
<1>9. Clocks'
  BY <1>1, <1>4, Passing, Lagging DEF VTInv, Clocks
<1> QED
  BY <1>8, <1>9 DEF VTInv, P2

LEMMA StepReset ==
  ASSUME VTInv, Settings, NEW t \in Timers, NEW d \in 0..Slip, ResetI(t, d)
  PROVE  VTInv'
<1> DEFINE v == Disarmed(t)
<1>1. /\ Moves(d, FALSE) /\ Lags(d) /\ vtlist' = v
      /\ left' = [Ages(d) EXCEPT ![t] = 0]
      /\ UNCHANGED <<ticking, late>>
  BY DEF ResetI
<1>2. Exact(v, Points) /\ \A u \in ToSet(v.list) : u \in Timers /\ u # t /\ Armed(u)
  BY DisarmedExact
<1> HIDE DEF v
<1>3. left' \in Ints /\ \A u \in ToSet(v.list) : left'[u] = left[u] - d
  <2> DEFINE A == Ages(d)
  <2>1. A \in Ints /\ \A u \in Timers : A[u] = IF Armed(u) THEN left[u] - d ELSE left[u]
    BY Ageing
  <2>2. left' = [A EXCEPT ![t] = 0]
    BY <1>1
  <2> HIDE DEF A
  <2>3. left' \in Ints /\ \A u \in Timers : u # t => left'[u] = A[u]
    BY <2>1, <2>2 DEF Ints
  <2> QED
    BY <1>2, <2>1, <2>3
<1>4. Exact(v, Points')
  BY <1>1, <1>2, <1>3, ExactPassing
<1>5. Clocks'
  BY <1>1, <1>3, Passing, Lagging DEF VTInv, Clocks
<1> QED
  BY <1>1, <1>4, <1>5 DEF VTInv

LEMMA StepServe == ASSUME VTInv, Settings, Serve PROVE VTInv'
<1>1. Points' = Points /\ vtlist' = vtlist
  BY DEF Serve, Points
<1>2. Clocks'
  BY DEF VTInv, Clocks, Serve
<1>3. Exact(vtlist, Points)
  BY DEF VTInv
<1> QED
  BY <1>1, <1>2, <1>3 DEF VTInv

LEMMA StepCallback == ASSUME VTInv, Settings, TickCallback PROVE VTInv'
<1> DEFINE h == Head(vtlist.list)
           v == Popped(vtlist)
<1>1. /\ vtlist.list # <<>> /\ vtlist' = v /\ late' = 0 - left[h] /\ left' = [left EXCEPT ![h] = 0]
      /\ time' = time /\ flag' = flag /\ latched' = latched /\ behind' = behind /\ ticking' = ticking
  BY DEF TickCallback, Due, hw
<1>2. Exact(vtlist, Points) /\ Points \in Ints
  BY PointsAre DEF VTInv
<1>3. /\ Exact(v, Points) /\ h \in Timers /\ v.list = Tail(vtlist.list)
      /\ \A t \in ToSet(Tail(vtlist.list)) : t \in ToSet(vtlist.list) /\ t # h
  BY <1>1, <1>2, PoppedExact
<1> HIDE DEF h, v
<1>4. left' \in Ints /\ late' \in Int /\ \A t \in Timers : t # h => left'[t] = left[t]
  <2>1. left \in Ints /\ left[h] \in Int
    BY <1>3, PointsAre DEF VTInv, Clocks
  <2> QED
    BY <1>1, <1>3, <2>1 DEF Ints
<1>5. \A t \in ToSet(v.list) : t \in Timers
  <2>1. v.list \in Seq(Timers)
    BY <1>3, Fields DEF Exact
  <2> QED
    BY <2>1 DEF ToSet
<1>6. Points' \in Ints /\ \A t \in ToSet(v.list) : Points'[t] = Points[t]
  <2>1. Points' = [t \in Timers |-> time + left'[t]] /\ time \in Int
    BY <1>1 DEF Points, VTInv, Clocks, Settings, TimeAssumption
  <2>2. \A t \in Timers : left'[t] \in Int
    BY <1>4 DEF Ints
  <2>3. Points' \in Ints
    BY <2>1, <2>2 DEF Ints
  <2> QED
    BY <1>3, <1>4, <1>5, <2>1, <2>3, PointsAre
<1> DEFINE P2 == Points'
<1>7. P2 \in Ints /\ \A t \in ToSet(v.list) : Same(P2[t], Points[t])
  BY <1>6 DEF Same
<1> HIDE DEF P2
<1>8. Exact(v, P2)
  BY <1>2, <1>3, <1>7, ExactSame
<1>9. Clocks'
  BY <1>1, <1>4 DEF VTInv, Clocks
<1> QED
  BY <1>1, <1>8, <1>9 DEF VTInv, P2

LEMMA StepEnd ==
  ASSUME VTInv, Settings, NEW d \in 0..Slip, TickEnd(d)
  PROVE  VTInv'
<1> DEFINE v == Rearmed(vtlist)
<1>1. Moves(d, FALSE) /\ behind' = 0 /\ vtlist' = v /\ left' = Ages(d) /\ ticking' = FALSE /\ late' = late
  BY DEF TickEnd
<1>2. Exact(v, Points) /\ v.list = vtlist.list
  <2>1. Exact(vtlist, Points) /\ time \in 0..Wrap - 1 /\ Points \in Ints
    BY PointsAre DEF VTInv, Clocks
  <2> QED
    BY <2>1, RearmedExact
<1> HIDE DEF v
<1>3. \A t \in ToSet(v.list) : t \in Timers
  <2>1. v.list \in Seq(Timers)
    BY <1>2, Fields DEF Exact
  <2> QED
    BY <2>1 DEF ToSet
<1>4. left' \in Ints /\ \A t \in ToSet(v.list) : left'[t] = left[t] - d
  BY <1>1, <1>2, <1>3, Ageing DEF Armed
<1>5. Exact(v, Points')
  BY <1>1, <1>2, <1>4, ExactPassing
<1>6. Clocks'
  <2>1. 0 \in 0..Latency
    BY DEF Settings, TimeAssumption
  <2> QED
    BY <1>1, <1>4, <2>1, Passing DEF VTInv, Clocks
<1> QED
  BY <1>1, <1>5, <1>6 DEF VTInv

-----------------------------------------------------------------------------
\* Every state satisfies the invariant.
THEOREM Invariance == Spec => []VTInv
<1>1. Init => VTInv
  <2> SUFFICES ASSUME Init PROVE VTInv
    OBVIOUS
  <2>1. Wrap \in Nat \ {0} /\ 0 \in 0..Wrap - 1 /\ 0 \in 0..Latency
    BY SettingsHold DEF Settings, TimeAssumption
  <2>2. Clocks
    <3>1. left \in Ints
      BY DEF Init, Ints
    <3>2. time = 0 /\ flag = FALSE /\ latched = FALSE /\ behind = 0 /\ ticking = FALSE /\ late = 0
      BY DEF Init
    <3>3. flag \in BOOLEAN /\ latched \in BOOLEAN /\ ticking \in BOOLEAN
      BY <3>2
    <3>4. time \in 0..Wrap - 1 /\ behind \in 0..Latency /\ late \in Int
      BY <2>1, <3>2
    <3> QED
      BY <3>1, <3>3, <3>4, Zenon DEF Clocks
  <2>3. vtlist \in VList /\ vtlist.list = <<>>
    BY <2>1 DEF Init, VList, Distances
  <2>4. IsInjective(vtlist.list)
    BY <2>3 DEF IsInjective
  <2>5. Chain(vtlist.list, vtlist.delta, vtlist.last, Points)
    BY <2>3 DEF Chain
  <2> QED
    BY <2>2, <2>3, <2>4, <2>5 DEF VTInv, Exact
<1>2. VTInv /\ [Next]_vars => VTInv'
  <2> SUFFICES ASSUME VTInv, [Next]_vars PROVE VTInv'
    OBVIOUS
  <2>1. CASE Tick
    BY <2>1, StepTick, SettingsHold
  <2>2. ASSUME NEW t \in Timers, NEW d \in 0..Slip, ResetI(t, d) PROVE VTInv'
    BY <2>2, StepReset, SettingsHold
  <2>3. ASSUME NEW t \in Timers, NEW d \in 0..Slip, NEW delay \in Delays, SetI(t, delay, d)
        PROVE VTInv'
    BY <2>3, StepSet, SettingsHold
  <2>4. CASE Serve
    BY <2>4, StepServe, SettingsHold
  <2>5. CASE TickCallback
    BY <2>5, StepCallback, SettingsHold
  <2>6. ASSUME NEW d \in 0..Slip, TickEnd(d) PROVE VTInv'
    BY <2>6, StepEnd, SettingsHold
  <2>7. CASE UNCHANGED vars
    <3>1. /\ vtlist' = vtlist /\ time' = time /\ left' = left /\ flag' = flag /\ latched' = latched
          /\ ticking' = ticking /\ behind' = behind /\ late' = late
      BY <2>7 DEF vars, hw
    <3>2. Points' = Points
      BY <3>1 DEF Points
    <3> QED
      BY <3>1, <3>2 DEF VTInv, Clocks
  <2> QED
    BY <2>1, <2>2, <2>3, <2>4, <2>5, <2>6, <2>7 DEF Next
<1> QED
  BY <1>1, <1>2, PTL DEF Spec

\* Distances and times fit the counter, however long timers are armed and
\* disarmed: no distance in the list ever becomes negative or wraps.
THEOREM TypeCorrect == Spec => []TypeOK
<1>1. VTInv => TypeOK
  BY DEF VTInv, Clocks, Exact, VList, Distances, Ints, TypeOK
<1> QED
  BY <1>1, Invariance, PTL

\* The running sums that DeltaListExact reads the list with.
LEMMA SumsAlongChain ==
  ASSUME Settings, NEW q \in Seq(Timers), NEW D \in Ints, NEW last \in Int, NEW P \in Ints,
         Chain(q, D, last, P),
         NEW at, \A i \in 1..Len(q) : at[i] = (IF i = 1 THEN last ELSE at[i - 1]) + D[q[i]]
  PROVE  \A i \in 1..Len(q) : at[i] \in Int /\ Same(at[i], P[q[i]])
<1> DEFINE Bad(i) == ~(at[i] \in Int /\ Same(at[i], P[q[i]]))
           T == {i \in 1..Len(q) : Bad(i)}
<1> SUFFICES ASSUME T # {} PROVE FALSE
  OBVIOUS
<1>1. T \in SUBSET Nat /\ T \subseteq 1..Len(q) /\ \A i \in 1..Len(q) : i \in T <=> Bad(i)
  OBVIOUS
<1> HIDE DEF T
<1>2. PICK k \in T : \A l \in T : k <= l
  BY <1>1, Smallest
<1>3. k \in 1..Len(q) /\ Bad(k)
  BY <1>1, <1>2
<1> DEFINE a == IF k = 1 THEN last ELSE at[k - 1]
           b == From(q, last, P, k)
           d == D[q[k]]
<1>4. a \in Int /\ Same(a, b)
  <2>1. CASE k = 1
    BY <2>1 DEF From, Same
  <2>2. CASE k # 1
    <3>1. k - 1 \in 1..Len(q) /\ ~(k <= k - 1)
      BY <1>3, <2>2
    <3>2. at[k - 1] \in Int /\ Same(at[k - 1], P[q[k - 1]])
      BY <1>1, <1>2, <3>1
    <3> QED
      BY <2>2, <3>2 DEF From
  <2> QED
    BY <2>1, <2>2
<1>5. b \in Int /\ d \in Int
  <2>1. q[k] \in Timers
    BY <1>3
  <2>2. d \in Int
    BY <2>1 DEF Ints
  <2>3. k \in 1..Len(q) + 1
    BY <1>3
  <2> QED
    BY <2>2, <2>3, FromInt
<1>6. at[k] = a + d
  BY <1>3
<1>7. Same(b + d, P[q[k]])
  BY <1>3 DEF Chain
<1> HIDE DEF a, b, d
<1>8. Same(a + d, b + d)
  BY <1>4, <1>5, SameSum
<1>9. a + d \in Int /\ Same(a + d, P[q[k]])
  BY <1>4, <1>5, <1>7, <1>8, SameTrans
<1> QED
  BY <1>3, <1>6, <1>9

\* For any number of timers and any width of the counter, vt_lasttime and the
\* distances up to a timer add up to the time it is due at, modulo the counter.
THEOREM DeltaListIsExact == Spec => []DeltaListExact
<1>1. VTInv => DeltaListExact
  <2> SUFFICES ASSUME VTInv PROVE DeltaListExact
    OBVIOUS
  <2> DEFINE q == vtlist.list
             D == vtlist.delta
             F(f) == f = [i \in DOMAIN q |-> (IF i = 1 THEN vtlist.last ELSE f[i - 1]) + D[q[i]]]
             at == CHOOSE f : F(f)
  <2>1. /\ vtlist \in VList /\ Chain(q, D, vtlist.last, Points) /\ Points \in Ints
    BY PointsAre, SettingsHold DEF VTInv, Exact
  <2>2. q \in Seq(Timers) /\ D \in Ints /\ vtlist.last \in Int
    BY <2>1, Fields, DistancesAreInts, SettingsHold DEF Settings, TimeAssumption
  <2>3. \E f : F(f)
    <3> DEFINE h == [i \in 1..Len(q) |-> D[q[i]]]
    <3>1. h \in [1..Len(q) -> Int]
      BY <2>2 DEF Ints
    <3>2. Len(q) \in Nat /\ DOMAIN q = 1..Len(q)
      BY <2>2
    <3> HIDE DEF h
    <3>3. PICK f \in [1..Len(q) -> Int] : Sums(Len(q), vtlist.last, h, f)
      BY <2>2, <3>1, <3>2, SumsExist
    <3>4. F(f)
      BY <3>2, <3>3 DEF Sums, h
    <3> QED
      BY <3>4
  <2>4. F(at)
    BY <2>3
  <2>5. \A i \in 1..Len(q) : at[i] = (IF i = 1 THEN vtlist.last ELSE at[i - 1]) + D[q[i]]
    <3> HIDE DEF at
    <3>1. DOMAIN q = 1..Len(q)
      BY <2>2
    <3> QED
      BY <2>4, <3>1
  <2>6. DeltaListExact <=> \A i \in DOMAIN q : at[i] % Wrap = Add(time, left[q[i]])
    BY DEF DeltaListExact
  <2> HIDE DEF at, F
  <2>7. \A i \in 1..Len(q) : Same(at[i], Points[q[i]])
    BY <2>1, <2>2, <2>5, SumsAlongChain, SettingsHold
  <2>8. \A i \in DOMAIN q : i \in 1..Len(q) /\ q[i] \in Timers
    BY <2>2
  <2>9. \A i \in DOMAIN q : at[i] % Wrap = Add(time, left[q[i]])
    BY <2>7, <2>8, PointsAre, SettingsHold DEF Same, Add
  <2> QED
    BY <2>6, <2>9
<1> QED
  BY <1>1, Invariance, PTL

-----------------------------------------------------------------------------
(***************************************************************************)
(* Callbacks in their window, if vt_lasttime is kept close to the time: a  *)
(* second invariant, on the first one.                                     *)
(***************************************************************************)

\* How late a timer may be when its interrupt becomes pending.
Delayed == (TimeDelta - 1) + (Slip - 1)

LEMMA Numbers ==
  ASSUME Settings
  PROVE  /\ Wrap \in Nat \ {0} /\ TimeDelta \in Nat /\ Slip \in Nat /\ Latency \in Nat
         /\ Slip >= 1 /\ TimeDelta >= 2 /\ Delayed \in Nat /\ Delayed >= TimeDelta - 1
         /\ Delayed >= TimeDelta + Slip - 2
         /\ MaxLate = Latency + Delayed /\ Margin = 3 * Latency + Delayed
         /\ MaxLate \in Nat /\ Margin \in Nat
BY DEF Settings, TimeAssumption, Delayed, MaxLate, Margin

\* Times in one turn of the counter that are the same are equal.
LEMMA SameEqual ==
  ASSUME Settings, NEW a \in 0..Wrap - 1, NEW b \in 0..Wrap - 1, Same(a, b)
  PROVE  a = b
<1>1. a % Wrap = a /\ b % Wrap = b
  BY DEF Settings, TimeAssumption
<1> QED
  BY <1>1 DEF Same

LEMMA SubIs ==
  ASSUME Settings, NEW a \in Int, NEW b \in Int, NEW e \in 0..Wrap - 1, Same(b + e, a)
  PROVE  Sub(a, b) = e
<1> DEFINE s == Sub(a, b)
<1>1. s \in 0..Wrap - 1 /\ s \in Int /\ Same(b + s, a)
  BY AddSub
<1>2. e \in Int /\ b + e \in Int /\ 0 - b \in Int
  BY DEF Settings, TimeAssumption
<1> HIDE DEF s
<1>3. b + s \in Int
  BY <1>1
<1>4. Same(b + s, b + e)
  BY <1>1 DEF Same
<1>5. Same((b + s) + (0 - b), (b + e) + (0 - b))
  BY <1>2, <1>3, <1>4, SameSum
<1>6. (b + s) + (0 - b) = s /\ (b + e) + (0 - b) = e
  BY <1>1, <1>2
<1>7. s = e
  BY <1>1, <1>5, <1>6, SameEqual
<1> QED
  BY <1>7 DEF s

LEMMA AddIs ==
  ASSUME Settings, NEW a \in Int, NEW b \in Int, NEW c \in 0..Wrap - 1, Same(c, a + b)
  PROVE  Add(a, b) = c
<1>1. Add(a, b) \in 0..Wrap - 1 /\ Same(Add(a, b), a + b)
  BY AddSub
<1>2. Same(Add(a, b), c)
  BY <1>1 DEF Same
<1> QED
  BY <1>1, <1>2, SameEqual

\* The time that has elapsed since last grows with the time, until it wraps.
LEMMA SubGrows ==
  ASSUME Settings, NEW now \in Int, NEW last \in Int, NEW d \in Int, NEW e, e = Sub(now, last),
         e + d \in 0..Wrap - 1
  PROVE  Sub(Add(now, d), last) = e + d
<1>1. e \in Int /\ Same(last + e, now)
  BY AddSub
<1> DEFINE m == Add(now, d)
<1>2. m \in Int /\ Same(m, now + d)
  BY AddSub
<1> HIDE DEF m
<1>3. last + e \in Int
  BY <1>1
<1>4. Same((last + e) + d, now + d)
  BY <1>1, <1>3, SameSum
<1>5. (last + e) + d = last + (e + d)
  BY <1>1
<1>6. Same(last + (e + d), m)
  BY <1>2, <1>4, <1>5 DEF Same
<1>7. Sub(m, last) = e + d
  BY <1>2, <1>6, SubIs
<1> QED
  BY <1>7 DEF m

LEMMA AddAdd ==
  ASSUME Settings, NEW a \in Int, NEW b \in Int, NEW c \in Int
  PROVE  Add(Add(a, b), c) = Add(a, b + c)
<1> DEFINE m == Add(a, b)
           n == Add(a, b + c)
<1>1. m \in Int /\ Same(m, a + b) /\ b + c \in Int /\ a + b \in Int
  BY AddSub
<1>2. n \in 0..Wrap - 1 /\ n \in Int /\ Same(n, a + (b + c))
  BY <1>1, AddSub
<1> HIDE DEF m, n
<1>3. Same(m + c, (a + b) + c)
  BY <1>1, SameSum
<1>4. (a + b) + c = a + (b + c)
  OBVIOUS
<1>5. Same(n, m + c)
  BY <1>2, <1>3, <1>4 DEF Same
<1>6. Add(m, c) = n
  BY <1>1, <1>2, <1>5, AddIs
<1> QED
  BY <1>6 DEF m, n

\* L is what is left until each timer is due, and e has elapsed since
\* vt_lasttime: the first timer is due next, none was due before
\* vt_lasttime, and none is so far away that the counter wraps before it.
Ordered(q, L) == \A i, j \in 1..Len(q) : i < j => L[q[i]] <= L[q[j]]

Near(q, e, L) ==
  /\ e \in 0..Wrap - 1
  /\ q # <<>> => 0 <= e + L[q[1]]
  /\ \A i \in 1..Len(q) : e + L[q[i]] + Margin < Wrap - 1

DueAt(now, L) == [t \in Timers |-> now + L[t]]

LEMMA OrderedBounds ==
  ASSUME Settings, NEW q \in Seq(Timers), NEW L \in Ints, NEW e, Ordered(q, L), Near(q, e, L)
  PROVE  \A i \in 1..Len(q) :
           L[q[i]] \in Int /\ e + L[q[i]] \in 0..Wrap - 1 /\ e + L[q[i]] + Margin < Wrap - 1
<1> SUFFICES ASSUME NEW i \in 1..Len(q)
             PROVE  L[q[i]] \in Int /\ e + L[q[i]] \in 0..Wrap - 1 /\ e + L[q[i]] + Margin < Wrap - 1
  OBVIOUS
<1>1. e \in Int /\ Wrap \in Nat /\ Margin \in Nat
  BY Numbers DEF Near
<1>2. 1 \in 1..Len(q) /\ q # <<>> /\ \A j \in 1..Len(q) : L[q[j]] \in Int
  BY DEF Ints
<1>3. 0 <= e + L[q[1]] /\ e + L[q[i]] + Margin < Wrap - 1
  BY <1>2 DEF Near
<1>4. L[q[1]] <= L[q[i]]
  <2>1. i = 1 \/ 1 < i
    OBVIOUS
  <2> QED
    BY <1>2, <2>1 DEF Ordered
<1> QED
  BY <1>1, <1>2, <1>3, <1>4

\* Then the distances are exact, not only modulo the counter.
LEMMA DistancesExact ==
  ASSUME Settings, NEW q \in Seq(Timers), NEW D \in Distances, NEW last \in Int, NEW now \in Int,
         NEW L \in Ints, Chain(q, D, last, DueAt(now, L)),
         Ordered(q, L), Near(q, Sub(now, last), L)
  PROVE  \A i \in 1..Len(q) : D[q[i]] = L[q[i]] - IF i = 1 THEN 0 - Sub(now, last) ELSE L[q[i - 1]]
<1> DEFINE e == Sub(now, last)
           P == DueAt(now, L)
<1> SUFFICES ASSUME NEW i \in 1..Len(q) PROVE D[q[i]] = L[q[i]] - IF i = 1 THEN 0 - e ELSE L[q[i - 1]]
  OBVIOUS
<1>0. \A j \in 1..Len(q) : q[j] \in Timers /\ P[q[j]] = now + L[q[j]]
  BY DEF DueAt
<1>1. e \in 0..Wrap - 1 /\ e \in Int /\ Same(last + e, now)
  BY AddSub
<1>2. \A j \in 1..Len(q) : L[q[j]] \in Int /\ e + L[q[j]] \in 0..Wrap - 1
  BY OrderedBounds
<1>3. D[q[i]] \in 0..Wrap - 1 /\ D[q[i]] \in Int
  <2>1. D[q[i]] \in 0..Wrap - 1
    BY <1>0 DEF Distances
  <2> QED
    BY <2>1, InOneTurn
<1>4. Same(From(q, last, P, i) + D[q[i]], P[q[i]])
  BY DEF Chain
<1>5. CASE i = 1
  <2> DEFINE x == L[q[i]]
             g == D[q[i]]
  <2>1. Same(last + g, now + x)
    BY <1>0, <1>4, <1>5 DEF From
  <2>2. x \in Int /\ g \in Int /\ e + x \in 0..Wrap - 1 /\ g \in 0..Wrap - 1
    BY <1>2, <1>3
  <2> HIDE DEF x, g, e
  <2>3. Same((last + e) + (x - last), now + (x - last)) /\ Same((last + g) + (0 - last), (now + x) + (0 - last))
    <3>1. last + e \in Int /\ x - last \in Int /\ last + g \in Int /\ now + x \in Int /\ 0 - last \in Int
      BY <1>1, <2>2
    <3> QED
      BY <1>1, <2>1, <3>1, SameSum
  <2>4. (last + e) + (x - last) = e + x /\ (last + g) + (0 - last) = g
        /\ now + (x - last) = (now + x) + (0 - last)
    BY <1>1, <2>2
  <2>5. Same(e + x, g)
    BY <2>3, <2>4 DEF Same
  <2>6. e + x = g
    BY <2>2, <2>5, SameEqual
  <2>7. g = x - (0 - e)
    BY <1>1, <2>2, <2>6
  <2> QED
    BY <1>5, <2>7 DEF x, g
<1>6. CASE i # 1
  <2> DEFINE x == L[q[i]]
             y == L[q[i - 1]]
             g == D[q[i]]
  <2>0. i - 1 \in 1..Len(q) /\ i - 1 < i
    BY <1>6
  <2>1. Same((now + y) + g, now + x)
    BY <1>0, <1>4, <1>6, <2>0 DEF From
  <2>2. x \in Int /\ y \in Int /\ g \in Int /\ g \in 0..Wrap - 1
    BY <1>2, <1>3, <2>0
  <2>3. x - y \in 0..Wrap - 1
    <3>1. y <= x
      BY <2>0 DEF Ordered
    <3>2. e + x \in 0..Wrap - 1 /\ e + y \in 0..Wrap - 1
      BY <1>2, <2>0
    <3> HIDE DEF x, y, e
    <3>3. Wrap \in Nat
      BY Numbers
    <3> QED
      BY <1>1, <2>2, <3>1, <3>2, <3>3
  <2> HIDE DEF x, y, g, e
  <2>4. Same(((now + y) + g) + (0 - (now + y)), (now + x) + (0 - (now + y)))
    <3>1. (now + y) + g \in Int /\ now + x \in Int /\ 0 - (now + y) \in Int
      BY <2>2
    <3> QED
      BY <2>1, <3>1, SameSum
  <2>5. ((now + y) + g) + (0 - (now + y)) = g /\ (now + x) + (0 - (now + y)) = x - y
    BY <2>2
  <2>6. Same(g, x - y)
    BY <2>4, <2>5
  <2>7. g = x - y
    BY <2>2, <2>3, <2>6, SameEqual
  <2> QED
    BY <1>6, <2>7 DEF x, y, g
<1> QED
  BY <1>5, <1>6

Gaps(q, D, e, L) ==
  \A i \in 1..Len(q) : D[q[i]] = L[q[i]] - IF i = 1 THEN 0 - e ELSE L[q[i - 1]]

Rests(q, e, L, delta, rem) ==
  \A i \in 1..Len(q) + 1 : rem[i] = delta - IF i = 1 THEN 0 ELSE e + L[q[i - 1]]

LEMMA ScanGaps ==
  ASSUME NEW q \in Seq(Timers), NEW D, NEW L \in Ints, NEW e \in Int, Gaps(q, D, e, L),
         NEW delta \in Int, NEW rem, Scan(q, D, delta, rem)
  PROVE  Rests(q, e, L, delta, rem)
<1> DEFINE Bad(i) == ~(rem[i] = delta - IF i = 1 THEN 0 ELSE e + L[q[i - 1]])
           T == {i \in 1..Len(q) + 1 : Bad(i)}
<1> SUFFICES ASSUME T # {} PROVE FALSE
  BY DEF Rests
<1>1. T \in SUBSET Nat /\ T \subseteq 1..Len(q) + 1 /\ \A i \in 1..Len(q) + 1 : i \in T <=> Bad(i)
  OBVIOUS
<1> HIDE DEF T
<1>2. PICK k \in T : \A l \in T : k <= l
  BY <1>1, Smallest
<1>3. k \in 1..Len(q) + 1 /\ Bad(k)
  BY <1>1, <1>2
<1>4. k # 1
  <2> SUFFICES ASSUME k = 1 PROVE FALSE
    OBVIOUS
  <2>1. rem[1] = delta
    BY <1>3 DEF Scan
  <2> QED
    BY <1>3, <2>1
<1> DEFINE j == k - 1
<1>5. j \in 1..Len(q) /\ j \in 1..Len(q) + 1 /\ ~(k <= j) /\ (j # 1 => j - 1 \in 1..Len(q))
  BY <1>3, <1>4
<1>6. rem[j] = delta - IF j = 1 THEN 0 ELSE e + L[q[j - 1]]
  BY <1>1, <1>2, <1>5
<1>7. rem[k] = rem[j] - D[q[j]]
  BY <1>3, <1>4 DEF Scan
<1>8. D[q[j]] = L[q[j]] - IF j = 1 THEN 0 - e ELSE L[q[j - 1]]
  BY <1>5 DEF Gaps
<1>9. \A i \in 1..Len(q) : L[q[i]] \in Int
  BY DEF Ints
<1>10. L[q[j]] \in Int /\ (j # 1 => L[q[j - 1]] \in Int)
  BY <1>5, <1>9
<1>11. rem[k] # delta - (e + L[q[j]])
  BY <1>3, <1>4
<1> HIDE DEF j, Bad
<1> QED
  BY <1>6, <1>7, <1>8, <1>10, <1>11

\* t joins q: it becomes r[i].
Joins(q, t, D, e, L, L2, rem, i, r) ==
  /\ \A u \in Timers : u # t => L2[u] = L[u]
  /\ 0 <= e + L2[t] /\ e + L2[t] + Margin < Wrap - 1
  /\ Scan(q, D, e + L2[t], rem)
  /\ i \in 1..Len(q) + 1 /\ Stops(q, D, rem, i) /\ Placed(Timers, q, t, i, r)

Joined(q, t, D, e, L, L2, r) ==
  /\ Ordered(r, L2) /\ Near(r, e, L2)
  /\ q # <<>> => IF e + L2[t] < D[q[1]] THEN r[1] = t ELSE L2[r[1]] = L[q[1]]

\* The scan stops between those due before the new timer and the others.
LEMMA PlacedOrdered ==
  ASSUME Settings, NEW q \in Seq(Timers), NEW t \in Timers, t \notin ToSet(q),
         NEW D, NEW e, NEW L \in Ints, NEW L2 \in Ints,
         Ordered(q, L), Near(q, e, L), Gaps(q, D, e, L),
         NEW rem, NEW i, NEW r, Joins(q, t, D, e, L, L2, rem, i, r)
  PROVE  Joined(q, t, D, e, L, L2, r)
<1> /\ \A u \in Timers : u # t => L2[u] = L[u]
    /\ 0 <= e + L2[t] /\ e + L2[t] + Margin < Wrap - 1
    /\ Scan(q, D, e + L2[t], rem)
    /\ i \in 1..Len(q) + 1 /\ Stops(q, D, rem, i) /\ Placed(Timers, q, t, i, r)
  BY DEF Joins
<1> DEFINE x == L2[t]
<1>0. Len(q) \in Nat /\ e \in Int /\ x \in Int /\ Wrap \in Nat /\ Margin \in Nat
  BY Numbers DEF Near, Ints
<1>1. \A j \in 1..Len(q) : q[j] \in Timers /\ q[j] # t /\ L2[q[j]] = L[q[j]] /\ L[q[j]] \in Int
  <2>1. \A j \in 1..Len(q) : q[j] \in Timers /\ q[j] # t
    BY DEF ToSet
  <2> QED
    BY <2>1 DEF Ints
<1>2. \A j \in 1..Len(q) + 1 : rem[j] = (e + x) - IF j = 1 THEN 0 ELSE e + L[q[j - 1]]
  <2> DEFINE delta == e + x
  <2>1. delta \in Int /\ Scan(q, D, delta, rem)
    BY <1>0
  <2> HIDE DEF delta
  <2>2. Rests(q, e, L, delta, rem)
    BY <1>0, <2>1, ScanGaps
  <2> QED
    BY <2>2 DEF delta, Rests
<1>3. \A j \in 1..Len(q) : D[q[j]] = L[q[j]] - IF j = 1 THEN 0 - e ELSE L[q[j - 1]]
  BY DEF Gaps
<1>4. ASSUME NEW j \in 1..Len(q) PROVE (D[q[j]] < rem[j] <=> L[q[j]] < x) /\ (D[q[j]] >= rem[j] <=> x <= L[q[j]])
  <2>1. j \in 1..Len(q) + 1 /\ (j # 1 => j - 1 \in 1..Len(q))
    BY <1>0
  <2>2. rem[j] = (e + x) - IF j = 1 THEN 0 ELSE e + L[q[j - 1]]
    BY <1>2, <2>1
  <2>3. D[q[j]] = L[q[j]] - IF j = 1 THEN 0 - e ELSE L[q[j - 1]]
    BY <1>3
  <2>4. L[q[j]] \in Int /\ (j # 1 => L[q[j - 1]] \in Int)
    BY <1>1, <2>1
  <2> DEFINE y == L[q[j]]
             z == IF j = 1 THEN 0 ELSE e + L[q[j - 1]]
             gap == D[q[j]]
             rest == rem[j]
  <2>5. y \in Int /\ z \in Int /\ rest = (e + x) - z /\ gap = (e + y) - z
    <3>1. CASE j = 1
      BY <1>0, <2>2, <2>3, <2>4, <3>1
    <3>2. CASE j # 1
      <4> DEFINE u == L[q[j - 1]]
      <4>1. rest = (e + x) - (e + u) /\ gap = y - u /\ z = e + u
        BY <2>2, <2>3, <3>2
      <4>2. u \in Int /\ y \in Int /\ e \in Int /\ x \in Int
        BY <1>0, <2>4, <3>2
      <4> HIDE DEF rest, gap, u, y, z, x
      <4> QED
        BY <4>1, <4>2
    <3> QED
      BY <3>1, <3>2
  <2> HIDE DEF x, y, z, gap, rest
  <2>6. (gap < rest <=> y < x) /\ (gap >= rest <=> x <= y)
    BY <1>0, <2>5
  <2> QED
    BY <2>6 DEF y, gap, rest
<1>5. \A j \in 1..Len(q) : (j < i => L[q[j]] <= x) /\ (i <= j => x <= L[q[j]])
  <2> SUFFICES ASSUME NEW j \in 1..Len(q) PROVE (j < i => L[q[j]] <= x) /\ (i <= j => x <= L[q[j]])
    OBVIOUS
  <2>1. L[q[j]] \in Int
    BY <1>1
  <2>2. CASE j < i
    <3>1. j \in 1..i - 1
      BY <2>2
    <3>2. L[q[j]] < x
      BY <1>4, <3>1 DEF Stops
    <3> HIDE DEF x
    <3> QED
      BY <1>0, <2>1, <2>2, <3>2
  <2>3. CASE i <= j
    <3>1. i \in 1..Len(q) /\ i <= Len(q) /\ (i = j \/ i < j)
      BY <1>0, <2>3
    <3>2. D[q[i]] >= rem[i]
      BY <3>1 DEF Stops
    <3>3. x <= L[q[i]] /\ L[q[i]] \in Int
      BY <1>1, <1>4, <3>1, <3>2
    <3>4. L[q[i]] <= L[q[j]]
      BY <1>1, <3>1 DEF Ordered
    <3> HIDE DEF x
    <3> QED
      BY <1>0, <2>1, <2>3, <3>3, <3>4
  <2> QED
    BY <1>0, <2>2, <2>3
\* Where each place of r comes from.
<1>6. ASSUME NEW a \in 1..Len(r)
      PROVE  \/ a < i /\ a \in 1..Len(q) /\ L2[r[a]] = L[q[a]]
             \/ a = i /\ L2[r[a]] = x
             \/ i < a /\ a - 1 \in 1..Len(q) /\ i <= a - 1 /\ L2[r[a]] = L[q[a - 1]]
  <2>1. Len(r) = Len(q) + 1
    BY DEF Placed
  <2>2. \/ a < i /\ a \in 1..i - 1 /\ a \in 1..Len(q)
        \/ a = i
        \/ i < a /\ a \in i + 1..Len(q) + 1 /\ a - 1 \in 1..Len(q) /\ i <= a - 1
    BY <1>0, <2>1
  <2> QED
    BY <1>1, <2>2 DEF Placed
<1>7. Ordered(r, L2)
  <2> SUFFICES ASSUME NEW a \in 1..Len(r), NEW b \in 1..Len(r), a < b PROVE L2[r[a]] <= L2[r[b]]
    BY DEF Ordered
  <2>0. Len(r) \in Nat
    BY <1>0 DEF Placed
  <2>1. CASE a < i /\ a \in 1..Len(q) /\ L2[r[a]] = L[q[a]]
    <3>1. CASE b < i /\ b \in 1..Len(q) /\ L2[r[b]] = L[q[b]]
      BY <2>1, <3>1 DEF Ordered
    <3>2. CASE b = i /\ L2[r[b]] = x
      BY <1>5, <2>1, <3>2
    <3>3. CASE i < b /\ b - 1 \in 1..Len(q) /\ i <= b - 1 /\ L2[r[b]] = L[q[b - 1]]
      <4>1. a < b - 1
        BY <2>1, <3>3
      <4> QED
        BY <2>1, <3>3, <4>1 DEF Ordered
    <3> QED
      BY <1>6, <3>1, <3>2, <3>3
  <2>2. CASE a = i /\ L2[r[a]] = x
    <3>1. b - 1 \in 1..Len(q) /\ i <= b - 1 /\ L2[r[b]] = L[q[b - 1]]
      <4>1. ~(b < i) /\ b # i
        BY <2>2
      <4> QED
        BY <1>6, <4>1
    <3> QED
      BY <1>5, <2>2, <3>1
  <2>3. CASE i < a /\ a - 1 \in 1..Len(q) /\ L2[r[a]] = L[q[a - 1]]
    <3>1. b - 1 \in 1..Len(q) /\ L2[r[b]] = L[q[b - 1]]
      <4>1. ~(b < i) /\ b # i
        BY <2>3
      <4> QED
        BY <1>6, <4>1
    <3>2. a - 1 < b - 1
      BY <2>3
    <3> QED
      BY <2>3, <3>1, <3>2 DEF Ordered
  <2> QED
    BY <1>6, <2>1, <2>2, <2>3
<1>8. Near(r, e, L2)
  <2>1. \A j \in 1..Len(q) : e + L[q[j]] \in 0..Wrap - 1 /\ e + L[q[j]] + Margin < Wrap - 1
    BY OrderedBounds
  <2>2. ASSUME NEW a \in 1..Len(r) PROVE 0 <= e + L2[r[a]] /\ e + L2[r[a]] + Margin < Wrap - 1
    <3>1. \A j \in 1..Len(q) : 0 <= e + L[q[j]]
      BY <1>0, <2>1
    <3> QED
      BY <1>6, <2>1, <3>1
  <2>3. 1 \in 1..Len(r)
    BY <1>0 DEF Placed
  <2> QED
    BY <2>2, <2>3 DEF Near
<1>9. ASSUME q # <<>> PROVE IF e + x < D[q[1]] THEN r[1] = t ELSE L2[r[1]] = L[q[1]]
  <2>1. 1 \in 1..Len(q) /\ 1 \in 1..Len(r) /\ rem[1] = e + x
    <3>1. 1 \in 1..Len(q) /\ 1 \in 1..Len(q) + 1
      BY <1>9
    <3>2. 1 \in 1..Len(r)
      BY <1>0 DEF Placed
    <3>3. rem[1] = e + x
      BY <3>1 DEF Scan
    <3> QED
      BY <3>1, <3>2, <3>3
  <2>2. D[q[1]] \in Int
    <3>1. D[q[1]] = L[q[1]] - (0 - e) /\ L[q[1]] \in Int
      BY <1>1, <1>3, <2>1
    <3> QED
      BY <1>0, <3>1
  <2>3. CASE i = 1
    <3>1. r[1] = t
      BY <2>3 DEF Placed
    <3>2. D[q[1]] >= e + x
      BY <1>0, <2>1, <2>3 DEF Stops
    <3>3. D[q[1]] = e + x => x = L[q[1]]
      <4>1. D[q[1]] = L[q[1]] - (0 - e) /\ L[q[1]] \in Int
        BY <1>1, <1>3, <2>1
      <4> HIDE DEF x
      <4> QED
        BY <1>0, <4>1
    <3> HIDE DEF x
    <3>4. ~(e + x < D[q[1]]) => D[q[1]] = e + x
      BY <1>0, <2>2, <3>2
    <3> QED
      BY <3>1, <3>3, <3>4 DEF x
  <2>4. CASE i # 1
    <3>1. 1 \in 1..i - 1 /\ 1 < i /\ 1 # i
      BY <1>0, <2>4
    <3>2. D[q[1]] < e + x
      BY <2>1, <3>1 DEF Stops
    <3>3. L2[r[1]] = L[q[1]]
      BY <1>6, <2>1, <3>1
    <3> HIDE DEF x
    <3> QED
      BY <1>0, <2>2, <3>2, <3>3
  <2> QED
    BY <2>3, <2>4
<1> QED
  BY <1>7, <1>8, <1>9 DEF Joined

LEMMA OrderedWithout ==
  ASSUME Settings, NEW q \in Seq(Timers), NEW L \in Ints, NEW e, Ordered(q, L), Near(q, e, L),
         NEW i \in 1..Len(q), NEW r, Without(Timers, q, i, r)
  PROVE  /\ Ordered(r, L) /\ Near(r, e, L)
         /\ r # <<>> => L[Head(q)] <= L[Head(r)] /\ (i # 1 => Head(r) = Head(q))
<1>0. Len(q) \in Nat /\ Len(r) = Len(q) - 1 /\ r \in Seq(Timers) /\ e \in Int
  BY DEF Without, Near
<1>1. \A a \in 1..Len(r) :
        \/ a < i /\ a \in 1..Len(q) /\ r[a] = q[a]
        \/ i <= a /\ a + 1 \in 1..Len(q) /\ r[a] = q[a + 1]
  <2> SUFFICES ASSUME NEW a \in 1..Len(r)
               PROVE  \/ a < i /\ a \in 1..Len(q) /\ r[a] = q[a]
                      \/ i <= a /\ a + 1 \in 1..Len(q) /\ r[a] = q[a + 1]
    OBVIOUS
  <2>1. \/ a < i /\ a \in 1..(i - 1) /\ a \in 1..Len(q)
        \/ i <= a /\ a \in i..(Len(q) - 1) /\ a + 1 \in 1..Len(q)
    BY <1>0
  <2> QED
    BY <2>1 DEF Without
<1>2. \A j \in 1..Len(q) : L[q[j]] \in Int /\ e + L[q[j]] \in 0..Wrap - 1 /\ e + L[q[j]] + Margin < Wrap - 1
  BY OrderedBounds
<1>3. Ordered(r, L)
  <2> SUFFICES ASSUME NEW a \in 1..Len(r), NEW b \in 1..Len(r), a < b PROVE L[r[a]] <= L[r[b]]
    BY DEF Ordered
  <2>1. PICK j \in 1..Len(q) : r[a] = q[j] /\ ((a < i /\ j = a) \/ (i <= a /\ j = a + 1))
    BY <1>1
  <2>2. PICK k \in 1..Len(q) : r[b] = q[k] /\ ((b < i /\ k = b) \/ (i <= b /\ k = b + 1))
    BY <1>1
  <2>3. j < k
    BY <2>1, <2>2, <1>0
  <2> QED
    BY <2>1, <2>2, <2>3 DEF Ordered
<1>4. Near(r, e, L)
  <2>1. \A a \in 1..Len(r) : e + L[r[a]] \in 0..Wrap - 1 /\ e + L[r[a]] + Margin < Wrap - 1
    BY <1>1, <1>2
  <2>2. r # <<>> => 1 \in 1..Len(r)
    BY <1>0
  <2>3. r # <<>> => 0 <= e + L[r[1]]
    BY <2>1, <2>2
  <2> QED
    BY <2>1, <2>3 DEF Near
<1>5. ASSUME r # <<>> PROVE L[Head(q)] <= L[Head(r)] /\ (i # 1 => Head(r) = Head(q))
  <2>1. 1 \in 1..Len(r) /\ 1 \in 1..Len(q) /\ Head(q) = q[1] /\ Head(r) = r[1]
    BY <1>0, <1>5
  <2>2. i # 1 => 1 < i
    OBVIOUS
  <2>3. (r[1] = q[1] /\ 1 < i) \/ (i <= 1 /\ 1 + 1 \in 1..Len(q) /\ r[1] = q[1 + 1])
    BY <1>1, <2>1
  <2>4. CASE 1 < i
    BY <1>2, <2>1, <2>3, <2>4
  <2>5. CASE i <= 1
    <3>1. 1 + 1 \in 1..Len(q) /\ r[1] = q[1 + 1] /\ 1 < 1 + 1 /\ i = 1
      BY <2>3, <2>5
    <3>2. L[q[1]] <= L[q[1 + 1]]
      BY <2>1, <3>1 DEF Ordered
    <3> QED
      BY <2>1, <3>1, <3>2
  <2> QED
    BY <2>4, <2>5
<1> QED
  BY <1>3, <1>4, <1>5

Window(v, L) == Ordered(v.list, L) /\ Near(v.list, Sub(time, v.last), L)

\* A timer due in x ticks is not late, but for the b ticks its interrupt waits.
InTime(x, b) == 0 - Delayed - b <= x

LEMMA LateIsBounded ==
  ASSUME Settings, NEW x \in Int, NEW b \in Int, b <= Latency, InTime(x, b)
  PROVE  0 - MaxLate <= x
<1>1. MaxLate = Latency + Delayed /\ Latency \in Int /\ Delayed \in Int
  BY Numbers
<1> QED
  BY <1>1 DEF InTime

LEMMA LargerBounds ==
  ASSUME Settings, NEW x \in Int, x > 0, x + Margin < Wrap - 1
  PROVE  Larger(x, TimeDelta) \in TimeDelta..Wrap - 1 /\ Larger(x, TimeDelta) <= x + (TimeDelta - 1)
<1>1. Wrap \in Int /\ TimeDelta \in Int /\ TimeDelta >= 2
  BY Numbers
<1>4. x < Wrap - 1 /\ TimeDelta <= Wrap - 1
  <2>1. Margin >= TimeDelta - 1 /\ Margin \in Int
    <3>1. Margin = 3 * Latency + Delayed /\ Latency \in Int /\ Latency >= 0 /\ Delayed \in Int /\ Delayed >= TimeDelta - 1
      BY Numbers
    <3> QED
      BY <1>1, <3>1
  <2> QED
    BY <1>1, <2>1
<1>2. CASE x < TimeDelta
  BY <1>1, <1>2, <1>4 DEF Larger
<1>3. CASE ~(x < TimeDelta)
  BY <1>1, <1>3, <1>4 DEF Larger
<1> QED
  BY <1>2, <1>3

LEMMA ComingIsInTime ==
  ASSUME Settings, NEW x \in Int, NEW a \in Int, a >= 1, a <= x + (TimeDelta - 1)
  PROVE  0 - MaxLate <= x
<1>1. /\ MaxLate = Latency + Delayed /\ Latency \in Int /\ Delayed \in Int /\ TimeDelta \in Int
      /\ Latency >= 0 /\ Delayed >= TimeDelta - 1
  BY Numbers
<1> QED
  BY <1>1

LEMMA AheadInTime ==
  ASSUME Settings, NEW x \in Int, x > 0, NEW d \in Int, d <= Slip, NEW b \in Int, b >= 0
  PROVE  InTime(x - d, b)
<1>1. Delayed \in Int /\ Slip \in Int /\ TimeDelta \in Int /\ Delayed >= TimeDelta + Slip - 2 /\ TimeDelta >= 2
  BY Numbers
<1> QED
  BY <1>1 DEF InTime

LEMMA StillInTime ==
  ASSUME Settings, NEW z \in Int, NEW x \in Int, z <= x, NEW d \in Int, NEW b \in Int, InTime(z, b)
  PROVE  InTime(x - d, b + d)
<1>1. Delayed \in Int
  BY Numbers
<1> QED
  BY <1>1 DEF InTime

LEMMA LaterInTime ==
  ASSUME Settings, NEW z \in Int, NEW x \in Int, z <= x, NEW b \in Int, InTime(z, b)
  PROVE  InTime(x, b)
<1>1. Delayed \in Int
  BY Numbers
<1> QED
  BY <1>1 DEF InTime

LEMMA ReachedInTime ==
  ASSUME Settings, NEW x \in Int, NEW a \in Int, a >= 1, a <= x + (TimeDelta - 1),
         NEW d \in Int, d <= Slip, NEW b \in Int, b >= 0
  PROVE  InTime(x - d, b)
<1>1. Delayed \in Int /\ Slip \in Int /\ TimeDelta \in Int /\ Delayed >= TimeDelta + Slip - 2
  BY Numbers
<1>2. x >= 2 - TimeDelta
  BY <1>1
<1> QED
  BY <1>1, <1>2 DEF InTime

\* An alarm that is still to come, at most TimeDelta - 1 ticks after x.
Coming(alarm, now, x) ==
  \E a \in 1..Wrap - 1 : alarm = Add(now, a) /\ a <= x + (TimeDelta - 1)

\* The first timer has its alarm, or its interrupt is pending or served.
AlarmHolds ==
  IF vtlist.list = <<>> THEN vtlist.on = FALSE
  ELSE /\ vtlist.on = TRUE
       /\ flag => latched
       /\ IF ticking \/ flag THEN InTime(left[Head(vtlist.list)], behind)
          ELSE Coming(vtlist.alarm, time, left[Head(vtlist.list)])

\* Nobody looks at a list that is empty when vt_lasttime is far behind.
HeaderHolds ==
  vtlist.list = <<>> =>
    /\ ticking /\ latched => Sub(time, vtlist.last) + 2 * Latency - behind < Wrap - 1
    /\ ticking \/ latched => Sub(time, vtlist.last) + Latency - behind < Wrap - 1

WInv ==
  /\ VTInv
  /\ Window(vtlist, left)
  /\ AlarmHolds
  /\ HeaderHolds
  /\ late \in 0..MaxLate

\* What a call does to the alarm of the first timer, due in x ticks: it is
\* as it was and so is the timer, or a later one is first; or it is new.
Kept(v, x) == v.alarm = vtlist.alarm /\ vtlist.list # <<>> /\ left[Head(vtlist.list)] <= x

New(v, x) ==
  x > 0 /\ \E a \in TimeDelta..Wrap - 1 : v.alarm = Add(time, a) /\ a <= x + (TimeDelta - 1)

AlarmFor(v, x) == v.on = TRUE /\ (Kept(v, x) \/ New(v, x))

LEMMA WFacts ==
  ASSUME WInv, Settings
  PROVE  /\ time \in 0..Wrap - 1 /\ time \in Int /\ left \in Ints /\ behind \in 0..Latency /\ behind \in Int
         /\ Exact(vtlist, Points) /\ Points = DueAt(time, left) /\ Points \in Ints
         /\ vtlist \in VList /\ vtlist.list \in Seq(Timers) /\ IsInjective(vtlist.list)
         /\ vtlist.last \in Int
         /\ Ordered(vtlist.list, left) /\ Near(vtlist.list, Sub(time, vtlist.last), left)
<1>1. /\ time \in 0..Wrap - 1 /\ left \in Ints /\ behind \in 0..Latency /\ Exact(vtlist, Points)
  BY DEF WInv, VTInv, Clocks
<1>2. vtlist \in VList /\ IsInjective(vtlist.list)
  BY <1>1 DEF Exact
<1>3. vtlist.list \in Seq(Timers) /\ vtlist.last \in 0..Wrap - 1
  BY <1>2, Fields
<1>4. time \in Int /\ behind \in Int /\ vtlist.last \in Int
  BY <1>1, <1>3, Numbers
<1>5. Points = DueAt(time, left) /\ Points \in Ints
  BY PointsAre DEF WInv, Points, DueAt
<1>6. Ordered(vtlist.list, left) /\ Near(vtlist.list, Sub(time, vtlist.last), left)
  BY DEF WInv, Window
<1> QED
  BY <1>1, <1>2, <1>3, <1>4, <1>5, <1>6

LEMMA GapsExact ==
  ASSUME Settings, time \in 0..Wrap - 1, NEW v, NEW L \in Ints, Exact(v, DueAt(time, L)), Window(v, L)
  PROVE  Gaps(v.list, v.delta, Sub(time, v.last), L)
<1>1. v \in VList /\ Chain(v.list, v.delta, v.last, DueAt(time, L))
  BY DEF Exact
<1>2. v.list \in Seq(Timers) /\ v.delta \in Distances /\ v.last \in Int /\ time \in Int
  BY <1>1, Fields, Numbers
<1> DEFINE q == v.list
           D == v.delta
           last == v.last
<1>3. q \in Seq(Timers) /\ D \in Distances /\ last \in Int /\ Chain(q, D, last, DueAt(time, L))
      /\ Ordered(q, L) /\ Near(q, Sub(time, last), L)
  BY <1>1, <1>2 DEF Window
<1> HIDE DEF q, D, last
<1>4. Gaps(q, D, Sub(time, last), L)
  BY <1>2, <1>3, DistancesExact DEF Gaps
<1> QED
  BY <1>4 DEF q, D, last

\* A call that takes a timer out.
LEMMA DisarmedWindow ==
  ASSUME WInv, Settings, NEW t \in Timers
  PROVE  /\ Window(Disarmed(t), left)
         /\ Disarmed(t).list = <<>> => Disarmed(t).on = FALSE /\ Disarmed(t).last = vtlist.last
         /\ Disarmed(t).list # <<>> =>
              vtlist.list # <<>> /\ AlarmFor(Disarmed(t), left[Head(Disarmed(t).list)])
<1>1. CASE ~Armed(t)
  <2>1. Disarmed(t) = vtlist
    BY <1>1 DEF Disarmed
  <2>2. Window(vtlist, left) /\ AlarmHolds
    BY DEF WInv
  <2>3. ASSUME vtlist.list # <<>> PROVE AlarmFor(vtlist, left[Head(vtlist.list)])
    <3>1. Head(vtlist.list) \in Timers
      BY <2>3, WFacts
    <3>2. left[Head(vtlist.list)] \in Int
      BY <3>1, WFacts DEF Ints
    <3> QED
      BY <2>2, <2>3, <3>2 DEF AlarmHolds, AlarmFor, Kept
  <2> QED
    BY <2>1, <2>2, <2>3 DEF AlarmHolds
<1>2. CASE Armed(t)
  <2> DEFINE q == vtlist.list
             w == DoResetI(vtlist, t)
             e == Sub(time, vtlist.last)
  <2>1. Disarmed(t) = w
    BY <1>2 DEF Disarmed
  <2>2. Exact(w, Points) /\ \E i \in 1..Len(q) : q[i] = t /\ ResetTo(vtlist, i, w)
    BY <1>2, WFacts, ResetExact DEF Armed
  <2>3. PICK i \in 1..Len(q) : ResetTo(vtlist, i, w)
    BY <2>2
  <2> HIDE DEF w
  <2>4. Without(Timers, q, i, w.list) /\ w.last = vtlist.last /\ (w.list = <<>> => w.on = FALSE)
    BY <2>3 DEF ResetTo
  <2>5. /\ Ordered(w.list, left) /\ Near(w.list, e, left)
        /\ w.list # <<>> => left[Head(q)] <= left[Head(w.list)] /\ (i # 1 => Head(w.list) = Head(q))
    BY <2>4, WFacts, OrderedWithout
  <2>6. Window(w, left)
    BY <2>4, <2>5 DEF Window
  <2>7. ASSUME w.list # <<>> PROVE AlarmFor(w, left[Head(w.list)])
    <3> DEFINE x == left[Head(w.list)]
               first == w.delta[Head(w.list)]
               a == Larger(first - e, TimeDelta)
    <3>1. vtlist.list # <<>> /\ w.on = TRUE /\ left[Head(q)] <= x
      <4>1. vtlist.list # <<>>
        BY WFacts
      <4>2. vtlist.on = TRUE
        BY <4>1 DEF WInv, AlarmHolds
      <4> QED
        BY <2>3, <2>5, <2>7, <4>1, <4>2 DEF ResetTo
    <3>2. CASE i # 1 \/ e >= first
      <4>1. w.alarm = vtlist.alarm
        BY <2>3, <2>7, <3>2 DEF ResetTo
      <4> QED
        BY <3>1, <4>1 DEF AlarmFor, Kept
    <3>3. CASE ~(i # 1 \/ e >= first)
      <4>1. w.alarm = Add(Add(vtlist.last, e), a)
        BY <2>3, <2>7, <3>3 DEF ResetTo
      <4>2. Add(vtlist.last, e) = time
        <5>1. e \in Int /\ Same(vtlist.last + e, time)
          BY WFacts, AddSub
        <5>2. Same(time, vtlist.last + e)
          BY <5>1 DEF Same
        <5> QED
          BY <5>1, <5>2, WFacts, AddIs
      <4>3. w \in VList
        BY <2>2 DEF Exact
      <4>4. w.list \in Seq(Timers) /\ 1 \in 1..Len(w.list) /\ Head(w.list) = w.list[1]
        BY <2>7, <4>3, Fields
      <4>5. first = x + e /\ x \in Int /\ e + x + Margin < Wrap - 1 /\ e + x \in 0..Wrap - 1 /\ e \in Int
        <5>1. Gaps(w.list, w.delta, Sub(time, w.last), left)
          BY <2>2, <2>6, WFacts, GapsExact
        <5>2. Gaps(w.list, w.delta, e, left)
          BY <2>4, <5>1
        <5>3. first = x - (0 - e)
          BY <4>4, <5>2 DEF Gaps
        <5>4. x \in Int /\ e + x + Margin < Wrap - 1 /\ e + x \in 0..Wrap - 1
          BY <2>5, <4>4, WFacts, OrderedBounds
        <5>5. e \in Int
          BY WFacts, AddSub
        <5> QED
          BY <5>3, <5>4, <5>5
      <4>6. x > 0 /\ a \in TimeDelta..Wrap - 1 /\ a <= x + (TimeDelta - 1)
        <5>1. e \in 0..Wrap - 1
          BY WFacts DEF Near
        <5>3. first \in Int /\ ~(e >= first)
          BY <3>3, <4>5
        <5> HIDE DEF x, e, first
        <5>2. x > 0 /\ first - e = x
          BY <4>5, <5>3
        <5>4. a = Larger(x, TimeDelta)
          BY <5>2
        <5>5. x \in Int /\ x + Margin < Wrap - 1
          <6>1. Margin \in Nat /\ Wrap \in Int
            BY Numbers
          <6>2. 0 <= e
            BY <5>1, InOneTurn
          <6>3. e \in Int /\ x \in Int /\ e + x + Margin < Wrap - 1
            BY <4>5
          <6> QED
            BY <6>1, <6>2, <6>3
        <5> HIDE DEF a
        <5> QED
          BY <5>2, <5>4, <5>5, LargerBounds
      <4> HIDE DEF a
      <4>7. w.alarm = Add(time, a)
        BY <4>1, <4>2
      <4> QED
        BY <3>1, <4>6, <4>7 DEF AlarmFor, New
    <3> QED
      BY <3>2, <3>3
  <2>8. q # <<>>
    BY WFacts
  <2> QED
    BY <2>1, <2>4, <2>6, <2>7, <2>8
<1> QED
  BY <1>1, <1>2

\* A call that arms a timer, already taken out.
LEMMA SetWindow ==
  ASSUME WInv, Settings, NEW t \in Timers, NEW request \in Delays,
         BaseFresh(Disarmed(t), request),
         NEW w, w = DoSetI(Disarmed(t), t, request),
         NEW L2, L2 = [left EXCEPT ![t] = Raised(request)]
  PROVE  /\ w \in VList /\ L2 \in Ints /\ Window(w, L2) /\ w.list # <<>>
         /\ AlarmFor(w, L2[Head(w.list)])
         /\ Disarmed(t).list = <<>> => New(w, L2[Head(w.list)])
         /\ \A a \in 1..Len(w.list) : w.list[a] = t \/ w.list[a] \in ToSet(Disarmed(t).list)
<1> DEFINE v == Disarmed(t)
           q == v.list
           D == v.delta
           delay == Raised(request)
           e == Sub(time, v.last)
           delta == Sub(Add(time, delay), v.last)
           P2 == DueAt(time, L2)
<1>1. /\ Exact(v, Points) /\ t \notin ToSet(q) /\ \A u \in ToSet(q) : u \in Timers
  BY DisarmedExact DEF WInv
<1>2. v \in VList /\ q \in Seq(Timers) /\ D \in Distances /\ D \in Ints /\ v.last \in Int
      /\ v.alarm \in 0..Wrap - 1
  <2>1. v \in VList
    BY <1>1 DEF Exact
  <2> HIDE DEF v
  <2> QED
    BY <2>1, Fields, DistancesAreInts, LastIsInt
<1>3. /\ Window(v, left)
      /\ q # <<>> => AlarmFor(v, left[Head(q)])
  BY DisarmedWindow
<1>4. delay \in 1..Wrap - 1 /\ delay \in Int /\ delay >= TimeDelta /\ delay + Margin < Wrap - 1
  <2>1. delay \in 1..Wrap - 1
    BY RaisedRange
  <2>2. request \in Int /\ Larger(request, TimeDelta) + Margin < Wrap - 1
    BY DEF Settings, TimeAssumption
  <2>3. delay = Larger(request, TimeDelta)
    BY DEF Raised
  <2>4. Larger(request, TimeDelta) >= TimeDelta
    BY <2>2, Numbers DEF Larger
  <2> HIDE DEF delay
  <2> QED
    BY <2>1, <2>2, <2>3, <2>4, Numbers
<1>5. L2 \in Ints /\ L2[t] = delay /\ \A u \in Timers : u # t => L2[u] = left[u]
  BY <1>4, WFacts DEF Ints
<1> HIDE DEF delay
<1>7. CASE q = <<>>
  <2>1. w = [list |-> <<t>>, delta |-> [D EXCEPT ![t] = delay],
             last |-> time, alarm |-> Add(time, delay), on |-> TRUE]
    BY <1>7, Zenon DEF DoSetI, delay
  <2>2. w.list = <<t>> /\ w.last = time /\ w.alarm = Add(time, delay) /\ w.on = TRUE
    BY <2>1
  <2>3. w \in VList
    <3>1. Add(time, delay) \in 0..Wrap - 1 /\ time \in 0..Wrap - 1
      BY <1>4, WFacts, AddSub
    <3>2. [D EXCEPT ![t] = delay] \in Distances
      <4>1. delay \in 0..Wrap - 1
        BY <1>4, Numbers
      <4> QED
        BY <1>2, <4>1 DEF Distances
    <3> QED
      BY <2>1, <3>1, <3>2 DEF VList
  <2>4. Sub(time, time) = 0
    <3>1. Same(time + 0, time) /\ 0 \in 0..Wrap - 1 /\ time \in Int
      <4>1. time \in Int
        BY WFacts
      <4>2. 0 \in 0..Wrap - 1
        BY Numbers
      <4> QED
        BY <4>1, <4>2 DEF Same
    <3> QED
      BY <3>1, SubIs
  <2>5. Window(w, L2)
    <3>1. Near(<<t>>, 0, L2)
      BY <1>4, <1>5, Numbers DEF Near
    <3>2. Ordered(<<t>>, L2)
      BY DEF Ordered
    <3> QED
      BY <2>2, <2>4, <3>1, <3>2 DEF Window
  <2>6. New(w, delay)
    <3>1. delay \in TimeDelta..Wrap - 1 /\ delay > 0 /\ delay <= delay + (TimeDelta - 1)
      BY <1>4, Numbers
    <3> QED
      BY <2>2, <3>1 DEF New
  <2>7. Head(w.list) = t /\ w.list # <<>>
    BY <2>2
  <2> QED
    BY <1>5, <2>2, <2>3, <2>5, <2>6, <2>7 DEF AlarmFor
<1>8. CASE q # <<>>
  <2> DEFINE w0 == IF delta < D[Head(q)] THEN [v EXCEPT !.alarm = Add(v.last, delta)] ELSE v
  <2>1. w = Inserted(w0, t, delta)
    BY <1>8, Zenon DEF DoSetI, delay
  <2>2. e \in Int /\ e + delay + Margin < Wrap - 1 /\ e + delay \in 0..Wrap - 1 /\ 0 <= e
    <3>1. e + delay + Margin < Wrap - 1
      BY <1>8 DEF BaseFresh, delay
    <3>2. e \in 0..Wrap - 1 /\ e \in Int
      BY <1>2, WFacts, AddSub
    <3> HIDE DEF e
    <3> QED
      BY <1>4, <3>1, <3>2, Numbers
  <2>3. delta = e + delay /\ delta \in 0..Wrap - 1 /\ delta \in Int
    BY <1>2, <1>4, <2>2, WFacts, SubGrows
  <2>4. Same(v.last + delta, time + delay) /\ v.last + delta \in Int
    <3>1. Same(v.last + e, time)
      BY <1>2, WFacts, AddSub
    <3> HIDE DEF delta, e
    <3>4. v.last + e \in Int
      BY <1>2, <2>2
    <3>2. Same((v.last + e) + delay, time + delay)
      BY <1>4, <3>1, <3>4, WFacts, SameSum
    <3>3. (v.last + e) + delay = v.last + delta
      BY <1>2, <1>4, <2>2, <2>3
    <3> QED
      BY <1>2, <2>3, <3>2, <3>3
  <2>5. Add(v.last, delta) = Add(time, delay)
    <3> DEFINE c == Add(time, delay)
    <3>1. c \in 0..Wrap - 1 /\ Same(c, time + delay)
      BY <1>4, WFacts, AddSub
    <3>2. Same(c, v.last + delta)
      BY <2>4, <3>1 DEF Same
    <3> HIDE DEF c, delta
    <3> QED
      BY <1>2, <2>3, <3>1, <3>2, AddIs DEF c
  <2>6. P2 \in Ints /\ P2[t] = time + delay /\ Exact(v, P2)
    <3>1. P2 \in Ints
      BY <1>5, WFacts DEF DueAt, Ints
    <3>2. P2[t] = time + delay
      BY <1>5 DEF DueAt
    <3>3. \A u \in ToSet(q) : Same(P2[u], Points[u])
      BY <1>1, <1>5 DEF DueAt, Points, Same
    <3> HIDE DEF P2
    <3> QED
      BY <1>1, <3>1, <3>2, <3>3, WFacts, ExactSame
  <2>7. /\ Exact(w0, P2) /\ w0.list = q /\ w0.delta = D /\ w0.last = v.last /\ w0.on = v.on
        /\ w0.alarm = IF delta < D[Head(q)] THEN Add(time, delay) ELSE v.alarm
    <3> DEFINE c == Add(v.last, delta)
    <3>1. c \in 0..Wrap - 1
      BY <1>2, <2>3, AddSub
    <3>2. c = Add(time, delay)
      BY <2>5
    <3> HIDE DEF c, P2
    <3> DEFINE u == [v EXCEPT !.alarm = c]
    <3>3. Exact(u, P2)
      BY <2>6, <3>1, AlarmExact
    <3>4. u.list = q /\ u.delta = D /\ u.last = v.last /\ u.on = v.on /\ u.alarm = c
      BY <1>2 DEF VList
    <3>5. w0 = IF delta < D[Head(q)] THEN u ELSE v
      BY DEF c
    <3> HIDE DEF u, w0
    <3> QED
      BY <2>6, <3>2, <3>3, <3>4, <3>5
  <2> HIDE DEF w0, P2
  <2>8. /\ Exact(w, P2)
        /\ \E i \in 1..Len(q) + 1 :
              /\ Stops(q, D, Remaining(w0, delta), i)
              /\ Placed(Timers, q, t, i, w.list)
        /\ w.last = v.last /\ w.alarm = w0.alarm /\ w.on = v.on
    <3>1. Same(w0.last + delta, P2[t]) /\ t \notin ToSet(w0.list)
      BY <1>1, <2>4, <2>6, <2>7
    <3> HIDE DEF delta
    <3>2. /\ Exact(Inserted(w0, t, delta), P2)
          /\ \E i \in 1..Len(w0.list) + 1 :
              /\ Stops(w0.list, w0.delta, Remaining(w0, delta), i)
              /\ Placed(Timers, w0.list, t, i, Inserted(w0, t, delta).list)
          /\ Inserted(w0, t, delta).last = w0.last
          /\ Inserted(w0, t, delta).alarm = w0.alarm /\ Inserted(w0, t, delta).on = w0.on
      BY <2>3, <2>6, <2>7, <3>1, InsertedExact
    <3> QED
      BY <2>1, <2>7, <3>2
  <2>9. Scan(q, D, e + L2[t], Remaining(w0, delta))
    <3>1. Scan(w0.list, w0.delta, delta, Remaining(w0, delta))
      <4> HIDE DEF delta
      <4> QED
        BY <1>2, <2>3, <2>7, RemainingScans
    <3> QED
      BY <1>5, <2>3, <2>7, <3>1
  <2>10. PICK i \in 1..Len(q) + 1 : Stops(q, D, Remaining(w0, delta), i) /\ Placed(Timers, q, t, i, w.list)
    BY <2>8
  <2>11. Gaps(q, D, e, left)
    BY <1>1, <1>3, WFacts, GapsExact
  <2> DEFINE rem == Remaining(w0, delta)
             r == w.list
  <2>12. /\ Ordered(r, L2) /\ Near(r, e, L2)
         /\ IF e + L2[t] < D[q[1]] THEN r[1] = t ELSE L2[r[1]] = left[q[1]]
    <3>1. 0 <= e + L2[t] /\ e + L2[t] + Margin < Wrap - 1
      BY <1>4, <1>5, <2>2
    <3>2. Joins(q, t, D, e, left, L2, rem, i, r)
      BY <1>5, <2>9, <2>10, <3>1 DEF Joins
    <3>3. Ordered(q, left) /\ Near(q, e, left)
      BY <1>3 DEF Window
    <3> HIDE DEF rem, r, q, D, e, v
    <3>4. t \notin ToSet(q) /\ q \in Seq(Timers) /\ q # <<>>
      BY <1>1, <1>2, <1>8
    <3> QED
      <4>1. left \in Ints /\ L2 \in Ints
        BY <1>5, WFacts
      <4>2. Joined(q, t, D, e, left, L2, r)
        BY <2>11, <3>2, <3>3, <3>4, <4>1, PlacedOrdered
      <4> QED
        BY <3>4, <4>2 DEF Joined
  <2>13. Window(w, L2)
    BY <2>8, <2>12 DEF Window
  <2>14. w \in VList
    BY <2>8 DEF Exact
  <2>15. r \in Seq(Timers) /\ r # <<>> /\ Head(r) = r[1] /\ Head(q) = q[1]
    <3>1. r \in Seq(Timers) /\ Len(r) = Len(q) + 1 /\ Len(q) \in Nat
      BY <1>2, <2>10 DEF Placed
    <3> HIDE DEF r
    <3>2. r # <<>> /\ Head(r) = r[1]
      BY <3>1
    <3> QED
      BY <1>2, <1>8, <3>1, <3>2
  <2>16. AlarmFor(w, L2[Head(w.list)])
    <3>1. v.on = TRUE
      BY <1>3, <1>8 DEF AlarmFor
    <3>2. CASE delta < D[Head(q)]
      <4>1. r[1] = t /\ w.alarm = Add(time, delay)
        BY <1>5, <2>3, <2>7, <2>8, <2>12, <2>15, <3>2
      <4>2. delay \in TimeDelta..Wrap - 1 /\ delay > 0 /\ delay <= delay + (TimeDelta - 1)
        BY <1>4, Numbers
      <4>3. New(w, delay)
        BY <4>1, <4>2 DEF New
      <4> QED
        BY <1>5, <2>8, <2>15, <3>1, <4>1, <4>3 DEF AlarmFor
    <3>3. CASE ~(delta < D[Head(q)])
      <4>1. L2[r[1]] = left[q[1]] /\ w.alarm = v.alarm
        BY <1>5, <2>3, <2>7, <2>8, <2>12, <2>15, <3>3
      <4>2. AlarmFor(v, left[Head(q)])
        BY <1>3, <1>8
      <4> QED
        BY <2>8, <2>15, <4>1, <4>2 DEF AlarmFor, Kept, New
    <3> QED
      BY <3>2, <3>3
  <2>17. ASSUME NEW a \in 1..Len(r) PROVE r[a] = t \/ r[a] \in ToSet(q)
    <3>1. Len(r) = Len(q) + 1 /\ Len(q) \in Nat
      BY <1>2, <2>10 DEF Placed
    <3>2. \/ a \in 1..i - 1 /\ a \in 1..Len(q)
          \/ a = i
          \/ a \in i + 1..Len(q) + 1 /\ a - 1 \in 1..Len(q)
      BY <3>1
    <3>3. r[a] = t \/ \E j \in 1..Len(q) : r[a] = q[j]
      BY <2>10, <3>2 DEF Placed
    <3> QED
      BY <1>2, <3>3 DEF ToSet
  <2> QED
    BY <1>5, <1>8, <2>13, <2>14, <2>15, <2>16, <2>17
<1> QED
  BY <1>7, <1>8

\* What is known of the alarm when d ticks have passed since: it is new, or
\* it is the one there was and the handler has run, or not, all the time.
Carries(w, x, d, clears) ==
  \/ New(w, x)
  \/ Kept(w, x) /\ ~clears /\ ticking' = ticking /\ Lags(d)

LEMMA CarriedAlarm ==
  ASSUME WInv, Settings, NEW d \in 0..Slip, NEW clears \in BOOLEAN, Moves(d, clears),
         NEW w, vtlist' = w, w.list # <<>>, w.on = TRUE,
         NEW x \in Int, Carries(w, x, d, clears), left'[Head(w.list)] = x - d,
         ~clears => vtlist.list # <<>>, behind' \in 0..Latency
  PROVE  AlarmHolds' /\ 0 - MaxLate <= left'[Head(w.list)]
<1> DEFINE y == left'[Head(w.list)]
<1>1. /\ time \in Int /\ behind \in Int /\ behind >= 0 /\ d \in Int /\ 0 <= d /\ d <= Slip /\ y = x - d /\ y \in Int
      /\ behind' \in Int /\ behind' >= 0 /\ behind' <= Latency /\ x \in Int
  <2>1. behind \in 0..Latency /\ time \in Int
    BY WFacts
  <2> QED
    BY <2>1, Numbers
<1>0. /\ TimeDelta \in Int /\ Slip \in Int /\ Latency \in Int /\ Wrap \in Int /\ MaxLate \in Int /\ Delayed \in Int
      /\ TimeDelta >= 2 /\ Slip >= 1 /\ Latency >= 0 /\ Delayed >= 0
      /\ Delayed >= TimeDelta - 1 /\ Delayed >= TimeDelta + Slip - 2 /\ MaxLate = Latency + Delayed
  BY Numbers
<1>2. time' = Add(time, d)
  BY DEF Moves
<1>3. flag' => latched'
  <2>1. CASE clears
    BY <2>1 DEF Moves
  <2>2. CASE ~clears
    <3>1. vtlist.on = TRUE /\ (flag => latched)
      BY <2>2 DEF WInv, AlarmHolds
    <3> QED
      BY <3>1 DEF Moves
  <2> QED
    BY <2>1, <2>2
<1>4. ASSUME NEW a \in 1..Wrap - 1, w.alarm = Add(time, a), a > d, a <= x + (TimeDelta - 1)
      PROVE  Coming(w.alarm, time', y)
  <2>1. a - d \in 1..Wrap - 1 /\ a - d \in Int /\ d + (a - d) = a /\ a - d <= y + (TimeDelta - 1)
    BY <1>1, <1>4, <1>0
  <2>2. w.alarm = Add(time', a - d)
    BY <1>1, <1>2, <1>4, <2>1, AddAdd
  <2> HIDE DEF y
  <2> QED
    BY <2>1, <2>2 DEF Coming
<1> DEFINE Answered == ticking' \/ flag'
<1> SUFFICES /\ Answered => InTime(y, behind')
             /\ ~Answered => Coming(w.alarm, time', y)
  <2>1. ASSUME ~Answered PROVE 0 - MaxLate <= y
    <3>1. PICK a \in 1..Wrap - 1 : a <= y + (TimeDelta - 1)
      BY <2>1 DEF Coming
    <3>2. a \in Int /\ a >= 1
      BY <1>0
    <3> HIDE DEF y
    <3> QED
      BY <1>1, <3>1, <3>2, ComingIsInTime
  <2>2. ASSUME Answered PROVE 0 - MaxLate <= y
    <3>1. InTime(y, behind')
      BY <2>2
    <3> HIDE DEF y
    <3> QED
      BY <1>1, <3>1, LateIsBounded
  <2>3. AlarmHolds'
    BY <1>3, <2>1, <2>2 DEF AlarmHolds
  <2> QED
    BY <2>1, <2>2, <2>3
<1> HIDE DEF y
<1>5. CASE New(w, x)
  <2>1. PICK a \in TimeDelta..Wrap - 1 : w.alarm = Add(time, a) /\ a <= x + (TimeDelta - 1)
    BY <1>5 DEF New
  <2>2. x > 0
    BY <1>5 DEF New
  <2>3. a \in 1..Wrap - 1 /\ a > d
    <3>1. Slip < TimeDelta
      BY DEF Settings, TimeAssumption
    <3> QED
      BY <1>1, <3>1, <1>0
  <2>4. InTime(y, behind')
    BY <1>1, <2>2, AheadInTime
  <2> QED
    BY <1>4, <2>1, <2>3, <2>4
<1>6. CASE Kept(w, x) /\ ~clears /\ ticking' = ticking /\ Lags(d)
  <2> DEFINE z == left[Head(vtlist.list)]
  <2>1. w.alarm = vtlist.alarm /\ vtlist.list # <<>> /\ z <= x
    BY <1>6 DEF Kept
  <2>2. z \in Int
    <3>1. Head(vtlist.list) \in Timers
      BY <2>1, WFacts
    <3> QED
      BY <3>1, WFacts DEF Ints
  <2>3. /\ flag => latched
        /\ ticking \/ flag => InTime(z, behind)
        /\ ~(ticking \/ flag) => Coming(vtlist.alarm, time, z)
    BY <2>1 DEF WInv, AlarmHolds
  <2> HIDE DEF z
  <2>4. flag' = (flag \/ Matched(d))
    BY <1>6 DEF Moves
  <2>5. CASE ticking \/ flag
    <3>1. behind' = behind + d
      BY <1>6, <2>3, <2>5 DEF Lags
    <3>4. InTime(z, behind) /\ z <= x
      BY <2>1, <2>3, <2>5
    <3>2. InTime(y, behind')
      BY <1>1, <2>2, <3>1, <3>4, StillInTime
    <3>3. ticking' \/ flag'
      BY <1>6, <2>4, <2>5
    <3> QED
      BY <3>2, <3>3
  <2>6. CASE ~(ticking \/ flag)
    <3>1. PICK a \in 1..Wrap - 1 : vtlist.alarm = Add(time, a) /\ a <= z + (TimeDelta - 1)
      BY <2>3, <2>6 DEF Coming
    <3>2. a \in Int /\ a >= 1 /\ a <= x + (TimeDelta - 1)
      BY <1>1, <2>1, <2>2, <3>1, <1>0
    <3>3. InTime(y, behind')
      BY <1>1, <3>2, ReachedInTime
    <3>4. ASSUME ~Answered PROVE Coming(w.alarm, time', y)
      <4>1. ~Matched(d)
        BY <2>4, <3>4
      <4>2. ~(a <= d)
        <5>1. a <= d => a \in 1..d
          BY <1>1, <3>2
        <5> QED
          BY <3>1, <4>1, <5>1 DEF Matched
      <4>3. a > d
        BY <1>1, <3>2, <4>2
      <4> QED
        BY <1>4, <2>1, <3>1, <3>2, <4>3
    <3> QED
      BY <3>3, <3>4
  <2> QED
    BY <2>5, <2>6
<1> QED
  BY <1>5, <1>6 DEF Carries

\* The window moves with the time.
LEMMA CarriedWindow ==
  ASSUME Settings, time \in Int, NEW w, NEW L \in Ints, Window(w, L), w \in VList, w.list # <<>>,
         NEW d \in 0..Slip, NEW now, now = Add(time, d), NEW L2 \in Ints,
         \A a \in 1..Len(w.list) : L2[w.list[a]] = L[w.list[a]] - d,
         0 - MaxLate <= L2[Head(w.list)]
  PROVE  Ordered(w.list, L2) /\ Near(w.list, Sub(now, w.last), L2)
<1> DEFINE q == w.list
           e == Sub(time, w.last)
<1>1. q \in Seq(Timers) /\ w.last \in Int
  BY Fields, LastIsInt
<1>2. Ordered(q, L) /\ Near(q, e, L)
  BY DEF Window
<1>3. \A i \in 1..Len(q) : L[q[i]] \in Int /\ e + L[q[i]] \in 0..Wrap - 1 /\ e + L[q[i]] + Margin < Wrap - 1
  <2> HIDE DEF q, e
  <2> QED
    BY <1>1, <1>2, OrderedBounds
<1>4. e \in Int /\ 0 <= e /\ d \in Int /\ 0 <= d
  BY <1>2, Numbers DEF Near
<1>5. \A i \in 1..Len(q) : L2[q[i]] = L[q[i]] - d
  OBVIOUS
<1>6. 1 \in 1..Len(q) /\ Head(q) = q[1]
  BY <1>1
<1>7. e + d \in 0..Wrap - 1 /\ e + d \in Int
  <2>1. 0 - MaxLate <= L[q[1]] - d
    BY <1>5, <1>6
  <2>2. L[q[1]] \in Int /\ e + L[q[1]] + Margin < Wrap - 1
    BY <1>3, <1>6
  <2> DEFINE x == L[q[1]]
  <2>3. x \in Int /\ e + x + Margin < Wrap - 1 /\ 0 - MaxLate <= x - d
    BY <2>1, <2>2
  <2>4. MaxLate <= Margin /\ MaxLate \in Int /\ Margin \in Int /\ Wrap \in Int
    BY Numbers
  <2> HIDE DEF e, q, x
  <2>5. e + d < Wrap - 1
    BY <1>4, <2>3, <2>4
  <2> QED
    BY <1>4, <2>4, <2>5
<1>8. Sub(now, w.last) = e + d
  BY <1>1, <1>4, <1>7, SubGrows
<1> HIDE DEF e, q
<1>9. Ordered(q, L2)
  <2> SUFFICES ASSUME NEW i \in 1..Len(q), NEW j \in 1..Len(q), i < j PROVE L2[q[i]] <= L2[q[j]]
    BY DEF Ordered
  <2>1. L[q[i]] <= L[q[j]]
    BY <1>2 DEF Ordered
  <2>2. L2[q[i]] = L[q[i]] - d /\ L2[q[j]] = L[q[j]] - d /\ L[q[i]] \in Int /\ L[q[j]] \in Int
    BY <1>3, <1>5
  <2> QED
    BY <1>4, <2>1, <2>2
<1>10. Near(q, e + d, L2)
  <2>1. \A i \in 1..Len(q) : 0 <= (e + d) + L2[q[i]] /\ (e + d) + L2[q[i]] + Margin < Wrap - 1
    <3> SUFFICES ASSUME NEW i \in 1..Len(q)
                 PROVE  0 <= (e + d) + L2[q[i]] /\ (e + d) + L2[q[i]] + Margin < Wrap - 1
      OBVIOUS
    <3> DEFINE x == L[q[i]]
               y == L2[q[i]]
    <3>1. x \in Int /\ e + x \in 0..Wrap - 1 /\ e + x + Margin < Wrap - 1
      BY <1>3
    <3>2. y = x - d
      BY <1>5
    <3> HIDE DEF x, y
    <3>3. 0 <= (e + d) + y /\ (e + d) + y + Margin < Wrap - 1
      BY <1>4, <3>1, <3>2, Numbers
    <3> QED
      BY <3>3 DEF y
  <2> QED
    BY <1>6, <1>7, <2>1 DEF Near
<1> QED
  BY <1>8, <1>9, <1>10 DEF q

LEMMA Carried ==
  ASSUME WInv, Settings, VTInv', NEW d \in 0..Slip, NEW clears \in BOOLEAN, Moves(d, clears),
         NEW w \in VList, vtlist' = w, w.list # <<>>, w.on = TRUE,
         NEW L \in Ints, Window(w, L), Carries(w, L[Head(w.list)], d, clears),
         \A a \in 1..Len(w.list) : left'[w.list[a]] = L[w.list[a]] - d,
         ~clears => vtlist.list # <<>>, late' \in 0..MaxLate
  PROVE  WInv'
<1>1. left' \in Ints /\ behind' \in 0..Latency /\ time \in Int /\ time' = Add(time, d)
  BY WFacts DEF VTInv, Clocks, Moves
<1>2. w.list \in Seq(Timers)
  BY Fields
<1>3. 1 \in 1..Len(w.list) /\ Head(w.list) = w.list[1] /\ Head(w.list) \in Timers
  BY <1>2
<1> DEFINE x == L[Head(w.list)]
<1>4. x \in Int /\ left'[Head(w.list)] = x - d
  BY <1>3 DEF Ints
<1>5. Carries(w, x, d, clears)
  OBVIOUS
<1> HIDE DEF x
<1>6. AlarmHolds' /\ 0 - MaxLate <= left'[Head(w.list)]
  BY <1>1, <1>4, <1>5, CarriedAlarm
<1> DEFINE L2 == left'
           now == time'
<1>7. L2 \in Ints /\ 0 - MaxLate <= L2[Head(w.list)] /\ now = Add(time, d)
      /\ \A a \in 1..Len(w.list) : L2[w.list[a]] = L[w.list[a]] - d
  BY <1>1, <1>6
<1> HIDE DEF L2, now
<1>8. Ordered(w.list, L2) /\ Near(w.list, Sub(now, w.last), L2)
  BY <1>1, <1>7, CarriedWindow
<1>9. Window(vtlist, left)'
  BY <1>8 DEF Window, L2, now
<1>10. HeaderHolds'
  BY DEF HeaderHolds
<1> QED
  BY <1>6, <1>9, <1>10 DEF WInv

\* Once the list is empty, time passes.
LEMMA HeaderCarried ==
  ASSUME Settings, VTInv', NEW d \in Nat, NEW last \in Int, time \in Int, time' = Add(time, d),
         vtlist'.list = <<>>, vtlist'.on = FALSE, vtlist'.last = last, late' \in 0..MaxLate,
         ticking' \/ latched' => Sub(time, last) + d + Latency - behind' < Wrap - 1,
         ticking' /\ latched' => Sub(time, last) + d + 2 * Latency - behind' < Wrap - 1
  PROVE  WInv'
<1> DEFINE e == Sub(time, last)
           f == Sub(time', last)
<1>1. e \in Int /\ e >= 0 /\ behind' \in 0..Latency
  <2>1. e \in 0..Wrap - 1
    BY AddSub
  <2> HIDE DEF e
  <2> QED
    BY <2>1, Numbers DEF VTInv, Clocks
<1>2. f \in 0..Wrap - 1
  <2>1. time' \in 0..Wrap - 1
    BY DEF VTInv, Clocks
  <2>2. time' \in Int
    BY <2>1, Numbers
  <2> DEFINE now == time'
  <2>3. now \in Int
    BY <2>2
  <2> HIDE DEF now
  <2>4. Sub(now, last) \in 0..Wrap - 1
    BY <2>3, AddSub
  <2> QED
    BY <2>4 DEF now
<1>3. ASSUME ticking' \/ latched' PROVE f = e + d
  <2>1. e + d + Latency - behind' < Wrap - 1
    BY <1>3
  <2> DEFINE b == behind'
  <2>4. b \in Int /\ b <= Latency /\ Latency \in Int /\ Wrap \in Int /\ e + d + Latency - b < Wrap - 1
    BY <1>1, <2>1, Numbers
  <2> HIDE DEF e, b
  <2>5. e + d < Wrap - 1
    BY <1>1, <2>4
  <2>2. e + d \in 0..Wrap - 1
    BY <1>1, <2>4, <2>5
  <2> DEFINE now == Add(time, d)
  <2>3. Sub(now, last) = e + d
    BY <2>2, SubGrows DEF e
  <2> QED
    BY <2>3
<1>4. HeaderHolds'
  <2>1. ticking' \/ latched' => f + Latency - behind' < Wrap - 1
    BY <1>3
  <2>2. ticking' /\ latched' => f + 2 * Latency - behind' < Wrap - 1
    BY <1>3
  <2> QED
    BY <2>1, <2>2 DEF HeaderHolds
<1>5. Window(vtlist, left)'
  <2>1. Ordered(<<>>, left') /\ Near(<<>>, f, left')
    BY <1>2 DEF Ordered, Near
  <2> QED
    BY <2>1 DEF Window
<1>6. AlarmHolds'
  BY DEF AlarmHolds
<1> QED
  BY <1>4, <1>5, <1>6 DEF WInv

LEMMA TickWindow == ASSUME WInv, Settings, Tick PROVE WInv'
<1>1. 1 \in 0..Slip /\ Moves(1, FALSE) /\ Lags(1) /\ left' = Ages(1) /\ vtlist' = vtlist
      /\ ticking' = ticking /\ late' = late /\ late' \in 0..MaxLate /\ VTInv' /\ VTInv
  <2>1. 1 \in 0..Slip
    BY Numbers
  <2>2. VTInv'
    BY StepTick DEF WInv
  <2> QED
    BY <2>1, <2>2 DEF Tick, WInv
<1>2. CASE vtlist.list # <<>>
  <2>1. Window(vtlist, left) /\ vtlist.on = TRUE
    BY <1>2 DEF WInv, AlarmHolds
  <2>2. \A a \in 1..Len(vtlist.list) : left'[vtlist.list[a]] = left[vtlist.list[a]] - 1
    <3>1. \A a \in 1..Len(vtlist.list) : vtlist.list[a] \in Timers /\ Armed(vtlist.list[a])
      <4>1. vtlist.list \in Seq(Timers)
        BY WFacts
      <4> QED
        BY <4>1 DEF Armed, ToSet
    <3> QED
      BY <1>1, <3>1, Ageing
  <2>3. left[Head(vtlist.list)] \in Int
    <3>1. Head(vtlist.list) \in Timers
      BY <1>2, WFacts
    <3> QED
      BY <3>1, WFacts DEF Ints
  <2>4. Carries(vtlist, left[Head(vtlist.list)], 1, FALSE)
    BY <1>1, <1>2, <2>3 DEF Carries, Kept
  <2> QED
    BY <1>1, <1>2, <2>1, <2>2, <2>4, WFacts, Carried
<1>3. CASE vtlist.list = <<>>
  <2> DEFINE e == Sub(time, vtlist.last)
  <2>1. vtlist.on = FALSE
    BY <1>3 DEF WInv, AlarmHolds
  <2>2. latched' = latched /\ time' = Add(time, 1)
    BY <1>1, <2>1 DEF Moves, VTInv, Clocks
  <2>3. /\ ticking /\ latched => e + 2 * Latency - behind < Wrap - 1
        /\ ticking \/ latched => e + Latency - behind < Wrap - 1
    BY <1>3 DEF WInv, HeaderHolds
  <2>4. latched \/ ticking => behind' = behind + 1
    BY <1>1 DEF Lags
  <2>5. e \in Int /\ behind \in Int /\ vtlist.last \in Int /\ time \in Int /\ 1 \in Nat
    BY WFacts, AddSub
  <2>6. ticking' \/ latched' => e + 1 + Latency - behind' < Wrap - 1
    <3> HIDE DEF e
    <3> QED
      BY <1>1, <2>2, <2>3, <2>4, <2>5, Numbers
  <2>7. ticking' /\ latched' => e + 1 + 2 * Latency - behind' < Wrap - 1
    <3> HIDE DEF e
    <3> QED
      BY <1>1, <2>2, <2>3, <2>4, <2>5, Numbers
  <2> QED
    BY <1>1, <1>3, <2>1, <2>2, <2>5, <2>6, <2>7, HeaderCarried
<1> QED
  BY <1>2, <1>3

LEMMA SetStep ==
  ASSUME WInv, Settings, ~BaseMayAge, NEW t \in Timers, NEW delay \in Delays, NEW d \in 0..Slip,
         SetI(t, delay, d)
  PROVE  WInv'
<1> DEFINE v == Disarmed(t)
           clears == Disarmed(t).list = <<>>
           w == DoSetI(v, t, delay)
           L2 == [left EXCEPT ![t] = Raised(delay)]
<1>1. /\ Moves(d, clears) /\ Lags(d) /\ vtlist' = w /\ BaseFresh(v, delay)
      /\ left' = [Ages(d) EXCEPT ![t] = Raised(delay) - d]
      /\ ticking' = ticking /\ late' = late /\ late \in 0..MaxLate /\ VTInv
  BY DEF SetI, WInv
<1>2. VTInv'
  BY StepSet DEF WInv
<1>3. /\ w \in VList /\ L2 \in Ints /\ Window(w, L2) /\ w.list # <<>>
      /\ AlarmFor(w, L2[Head(w.list)])
      /\ v.list = <<>> => New(w, L2[Head(w.list)])
      /\ \A a \in 1..Len(w.list) : w.list[a] = t \/ w.list[a] \in ToSet(v.list)
  BY <1>1, SetWindow
<1>4. \A u \in ToSet(v.list) : u \in Timers /\ u # t /\ Armed(u)
  BY <1>1, DisarmedExact
<1>5. v.list # <<>> => vtlist.list # <<>>
  BY DisarmedWindow
<1> HIDE DEF w
<1>6. \A a \in 1..Len(w.list) : left'[w.list[a]] = L2[w.list[a]] - d
  <2> DEFINE A == Ages(d)
  <2>1. A \in Ints /\ \A u \in Timers : A[u] = IF Armed(u) THEN left[u] - d ELSE left[u]
    BY <1>1, Ageing
  <2>2. left' = [A EXCEPT ![t] = Raised(delay) - d]
    BY <1>1
  <2> HIDE DEF A
  <2>3. left'[t] = Raised(delay) - d /\ \A u \in Timers : u # t => left'[u] = A[u]
    BY <2>1, <2>2 DEF Ints
  <2>4. L2[t] = Raised(delay) /\ \A u \in Timers : u # t => L2[u] = left[u]
    BY WFacts DEF Ints
  <2> HIDE DEF L2
  <2> SUFFICES ASSUME NEW a \in 1..Len(w.list) PROVE left'[w.list[a]] = L2[w.list[a]] - d
    OBVIOUS
  <2>5. CASE w.list[a] = t
    BY <2>3, <2>4, <2>5
  <2>6. CASE w.list[a] # t
    <3>1. w.list[a] \in Timers /\ Armed(w.list[a])
      BY <1>3, <1>4, <2>6
    <3> QED
      BY <2>1, <2>3, <2>4, <2>6, <3>1
  <2> QED
    BY <2>5, <2>6
<1>7. Carries(w, L2[Head(w.list)], d, clears)
  BY <1>1, <1>3 DEF AlarmFor, Carries
<1>8. w.on = TRUE /\ late' \in 0..MaxLate /\ clears \in BOOLEAN /\ (~clears => vtlist.list # <<>>)
  BY <1>1, <1>3, <1>5 DEF AlarmFor
<1> HIDE DEF L2, clears, v
<1> QED
  BY <1>1, <1>2, <1>3, <1>6, <1>7, <1>8, Carried

LEMMA ResetStep ==
  ASSUME WInv, Settings, NEW t \in Timers, NEW d \in 0..Slip, ResetI(t, d)
  PROVE  WInv'
<1> DEFINE w == Disarmed(t)
           e == Sub(time, vtlist.last)
<1>1. /\ Armed(t) /\ Moves(d, FALSE) /\ Lags(d) /\ vtlist' = w /\ left' = [Ages(d) EXCEPT ![t] = 0]
      /\ ticking' = ticking /\ late' = late /\ late' \in 0..MaxLate /\ VTInv
  BY DEF ResetI, WInv
<1>2. VTInv'
  BY StepReset DEF WInv
<1>3. /\ Window(w, left)
      /\ w.list = <<>> => w.on = FALSE /\ w.last = vtlist.last
      /\ w.list # <<>> => AlarmFor(w, left[Head(w.list)])
  BY DisarmedWindow
<1>4. Exact(w, Points) /\ \A u \in ToSet(w.list) : u \in Timers /\ u # t /\ Armed(u)
  BY <1>1, DisarmedExact
<1>5. vtlist.list # <<>> /\ Head(vtlist.list) \in Timers
  <2>1. vtlist.list # <<>>
    BY <1>1 DEF Armed, ToSet
  <2> QED
    BY <2>1, WFacts
<1> HIDE DEF w
<1>6. CASE w.list # <<>>
  <2>1. w \in VList
    BY <1>4 DEF Exact
  <2>2. w.list \in Seq(Timers)
    BY <2>1, Fields
  <2>3. \A u \in ToSet(w.list) : left'[u] = left[u] - d
    <3> DEFINE A == Ages(d)
    <3>1. A \in Ints /\ \A u \in Timers : A[u] = IF Armed(u) THEN left[u] - d ELSE left[u]
      BY <1>1, Ageing
    <3>2. left' = [A EXCEPT ![t] = 0]
      BY <1>1
    <3> HIDE DEF A
    <3>3. \A u \in Timers : u # t => left'[u] = A[u]
      BY <3>1, <3>2 DEF Ints
    <3> QED
      BY <1>4, <3>1, <3>3
  <2>4. \A a \in 1..Len(w.list) : left'[w.list[a]] = left[w.list[a]] - d
    BY <2>2, <2>3 DEF ToSet
  <2>5. Carries(w, left[Head(w.list)], d, FALSE) /\ w.on = TRUE
    BY <1>1, <1>3, <1>6 DEF AlarmFor, Carries
  <2> QED
    BY <1>1, <1>2, <1>3, <1>5, <1>6, <2>1, <2>4, <2>5, WFacts, Carried
<1>7. CASE w.list = <<>>
  <2> DEFINE x == left[Head(vtlist.list)]
  <2>1. /\ e \in Int /\ x \in Int /\ behind \in Int /\ behind >= 0 /\ behind' \in Int /\ behind' >= 0 /\ d \in Nat
        /\ d <= Slip
    <3>1. e \in Int /\ behind \in 0..Latency
      BY WFacts, AddSub
    <3>2. x \in Int
      BY <1>5, WFacts DEF Ints
    <3>3. behind' \in 0..Latency
      BY <1>2 DEF VTInv, Clocks
    <3> HIDE DEF e, x
    <3> QED
      BY <3>1, <3>2, <3>3, Numbers
  <2>2. e + x + Margin < Wrap - 1
    <3>1. 1 \in 1..Len(vtlist.list) /\ Head(vtlist.list) = vtlist.list[1]
      BY <1>5, WFacts
    <3> QED
      BY <3>1, WFacts, OrderedBounds
  <2>3. /\ flag => latched
        /\ ticking \/ flag => InTime(x, behind)
        /\ ~(ticking \/ flag) => 2 - TimeDelta <= x
    <3>1. /\ flag => latched
          /\ ticking \/ flag => InTime(x, behind)
          /\ ~(ticking \/ flag) => Coming(vtlist.alarm, time, x)
      BY <1>5 DEF WInv, AlarmHolds
    <3>2. ASSUME Coming(vtlist.alarm, time, x) PROVE 2 - TimeDelta <= x
      <4>1. PICK a \in 1..Wrap - 1 : a <= x + (TimeDelta - 1)
        BY <3>2 DEF Coming
      <4> HIDE DEF x
      <4> QED
        BY <2>1, <4>1, Numbers
    <3> QED
      BY <3>1, <3>2
  <2> HIDE DEF e, x
  <2>4. Delayed = TimeDelta + Slip - 2
    BY Numbers DEF Delayed
  <2>5. InTime(x, behind)
    <3>1. CASE ticking \/ flag
      BY <2>3, <3>1
    <3>2. CASE ~(ticking \/ flag)
      <4>1. 2 - TimeDelta <= x
        BY <2>3, <3>2
      <4>2. /\ x \in Int /\ TimeDelta \in Int /\ Slip \in Int /\ Delayed \in Int /\ behind \in Int
            /\ Slip >= 1 /\ behind >= 0
        BY <2>1, WFacts, Numbers
      <4> QED
        BY <2>4, <4>1, <4>2 DEF InTime
    <3> QED
      BY <3>1, <3>2
  <2>6. CASE ticking \/ latched
    <3>1. behind' = behind + d
      BY <1>1, <2>6 DEF Lags
    <3>2. /\ e + d + Latency - behind' < Wrap - 1
          /\ e + d + 2 * Latency - behind' < Wrap - 1
      <4>1. /\ Delayed \in Int /\ Latency \in Int /\ Latency >= 0 /\ Wrap \in Int
            /\ Margin = 3 * Latency + Delayed /\ Delayed >= 0
        BY Numbers
      <4>2. e \in Int /\ x \in Int /\ d \in Int /\ behind \in Int
        BY <2>1, WFacts
      <4> QED
        BY <2>2, <2>5, <3>1, <4>1, <4>2 DEF InTime
    <3> QED
      BY <1>1, <1>2, <1>3, <1>7, <2>1, <3>2, WFacts, HeaderCarried DEF e, Moves
  <2>7. CASE ~(ticking \/ latched)
    <3>1. ticking' = FALSE
      BY <1>1, <1>2, <2>7 DEF VTInv, Clocks
    <3>2. 2 - TimeDelta <= x
      BY <2>3, <2>7
    <3>3. e + d + Latency - behind' < Wrap - 1
      <4> DEFINE b == behind'
      <4>1. b \in Int /\ b >= 0 /\ TimeDelta \in Int /\ Slip \in Int /\ Latency \in Int /\ Latency >= 0
            /\ Wrap \in Int /\ Margin = 3 * Latency + Delayed
        BY <2>1, Numbers
      <4> HIDE DEF b
      <4>2. e + Slip + 3 * Latency < Wrap - 1
        BY <2>1, <2>2, <2>4, <3>2, <4>1
      <4>3. e + d + Latency - b < Wrap - 1
        BY <2>1, <4>1, <4>2
      <4> QED
        BY <4>3 DEF b
    <3> QED
      BY <1>1, <1>2, <1>3, <1>7, <2>1, <3>1, <3>3, WFacts, HeaderCarried DEF e, Moves
  <2> QED
    BY <2>6, <2>7
<1> QED
  BY <1>6, <1>7

LEMMA ServeStep == ASSUME WInv, Settings, Serve PROVE WInv'
<1>1. /\ latched /\ ~ticking /\ latched' = FALSE /\ flag' = FALSE /\ ticking' = flag
      /\ time' = time /\ vtlist' = vtlist /\ behind' = behind /\ left' = left /\ late' = late
      /\ VTInv' /\ Window(vtlist, left) /\ late \in 0..MaxLate
  <2>1. VTInv'
    BY StepServe DEF WInv
  <2> QED
    BY <2>1 DEF WInv, Serve
<1>2. Window(vtlist, left)'
  BY <1>1 DEF Window
<1>3. AlarmHolds'
  BY <1>1 DEF WInv, AlarmHolds
<1>4. HeaderHolds'
  BY <1>1 DEF WInv, HeaderHolds
<1> QED
  BY <1>1, <1>2, <1>3, <1>4 DEF WInv

LEMMA CallbackStep == ASSUME WInv, Settings, TickCallback PROVE WInv'
<1> DEFINE q == vtlist.list
           h == Head(q)
           x == left[h]
           gap == vtlist.delta[h]
           e == Sub(time, vtlist.last)
           v == Popped(vtlist)
<1>1. /\ ticking /\ q # <<>> /\ gap <= e /\ vtlist' = v /\ late' = 0 - x /\ left' = [left EXCEPT ![h] = 0]
      /\ time' = time /\ flag' = flag /\ latched' = latched /\ behind' = behind /\ ticking' = ticking
  BY DEF TickCallback, Due, hw
<1>2. VTInv'
  BY StepCallback DEF WInv
<1>3. /\ h \in Timers /\ v.list = Tail(q) /\ v.last = Add(vtlist.last, gap) /\ v.on = (vtlist.on /\ Len(q) > 1)
      /\ \A t \in ToSet(Tail(q)) : t # h
  BY <1>1, WFacts, PoppedExact
<1>4. q \in Seq(Timers) /\ Len(q) \in Nat /\ Len(q) >= 1 /\ h = q[1] /\ 1 \in 1..Len(q)
  BY <1>1, WFacts
<1>5. /\ Tail(q) \in Seq(Timers) /\ Len(Tail(q)) = Len(q) - 1
      /\ \A i \in 1..Len(q) - 1 : Tail(q)[i] = q[i + 1]
  BY <1>4
<1>6. /\ e \in Int /\ e \in 0..Wrap - 1 /\ x \in Int /\ behind \in Int /\ behind >= 0 /\ behind <= Latency
      /\ vtlist.last \in Int /\ time \in Int
  <2>1. x \in Int
    BY <1>3, WFacts DEF Ints
  <2>2. e \in 0..Wrap - 1 /\ e \in Int
    BY WFacts, AddSub
  <2>3. behind \in 0..Latency /\ behind \in Int
    BY WFacts
  <2>4. behind >= 0 /\ behind <= Latency
    BY <2>3, Numbers
  <2> QED
    BY <2>1, <2>2, <2>3, <2>4, WFacts
<1>7. gap = x + e
  <2>1. Gaps(q, vtlist.delta, e, left)
    BY WFacts, GapsExact DEF WInv
  <2>2. gap = x - (0 - e)
    BY <1>4, <2>1 DEF Gaps
  <2> HIDE DEF gap, x, e
  <2> QED
    BY <1>6, <2>2
<1>8. \A i \in 1..Len(q) : left[q[i]] \in Int /\ e + left[q[i]] \in 0..Wrap - 1 /\ e + left[q[i]] + Margin < Wrap - 1
  BY WFacts, OrderedBounds
<1>9. InTime(x, behind) /\ (flag => latched) /\ vtlist.on = TRUE
  BY <1>1 DEF WInv, AlarmHolds
<1>10. e + x \in 0..Wrap - 1 /\ e + x + Margin < Wrap - 1
  BY <1>4, <1>8
<1> HIDE DEF q, h, x, gap, e, v
<1>11. x <= 0 /\ 0 - x \in 0..MaxLate /\ 0 - x \in 0..Wrap - 1 /\ 0 - x <= e /\ Margin < Wrap - 1
  <2>1. e \in Int /\ e <= Wrap - 1 /\ Wrap \in Int /\ MaxLate \in Int /\ Margin \in Int /\ Delayed \in Int
        /\ Latency \in Int /\ MaxLate = Latency + Delayed
    BY <1>6, Numbers
  <2>2. x + e <= e /\ 0 <= e + x /\ e + x + Margin < Wrap - 1
    BY <1>1, <1>7, <1>10, Numbers
  <2>3. x <= 0 /\ 0 - x <= e /\ Margin < Wrap - 1
    BY <1>6, <2>1, <2>2
  <2>4. 0 - x <= MaxLate /\ 0 - x <= Wrap - 1
    <3>1. behind \in Int /\ behind <= Latency /\ x \in Int
      BY <1>6, WFacts
    <3>2. 0 - MaxLate <= x
      BY <1>9, <3>1, LateIsBounded
    <3> QED
      BY <2>1, <2>3, <3>1, <3>2
  <2> QED
    BY <1>6, <2>1, <2>3, <2>4
<1>12. Sub(time, v.last) = 0 - x
  <2> DEFINE next == Add(vtlist.last, gap)
             n == 0 - x
  <2>1. next \in Int /\ Same(next, vtlist.last + gap) /\ gap \in Int /\ n \in Int /\ n \in 0..Wrap - 1
    <3>1. gap \in Int
      BY <1>6, <1>7
    <3>2. next \in Int /\ Same(next, vtlist.last + gap)
      BY <1>6, <3>1, AddSub
    <3>3. n \in Int /\ n \in 0..Wrap - 1
      BY <1>6, <1>11
    <3> QED
      BY <3>1, <3>2, <3>3
  <2>2. Same(vtlist.last + e, time)
    BY <1>6, AddSub DEF e
  <2>3. n = e - gap
    BY <1>6, <1>7
  <2> HIDE DEF next, n
  <2>4. vtlist.last + gap \in Int
    BY <1>6, <2>1
  <2>5. Same(next + n, (vtlist.last + gap) + n)
    BY <2>1, <2>4, SameSum
  <2>6. (vtlist.last + gap) + n = vtlist.last + e
    BY <1>6, <2>1, <2>3
  <2>7. Same(next + n, time)
    BY <2>2, <2>5, <2>6 DEF Same
  <2>8. Sub(time, next) = n
    BY <1>6, <2>1, <2>7, SubIs
  <2> QED
    BY <1>3, <2>8 DEF next, n
<1> DEFINE r == Tail(q)
<1>13. \A i \in 1..Len(r) : i + 1 \in 1..Len(q) /\ r[i] = q[i + 1] /\ r[i] \in Timers /\ r[i] # h
  <2>1. \A i \in 1..Len(r) : i + 1 \in 1..Len(q) /\ r[i] = q[i + 1]
    BY <1>4, <1>5
  <2>3. r \in Seq(Timers)
    BY <1>5
  <2> HIDE DEF r
  <2>2. \A i \in 1..Len(r) : r[i] \in ToSet(r) /\ r[i] \in Timers
    BY <2>3 DEF ToSet
  <2>4. \A u \in ToSet(r) : u # h
    BY <1>3 DEF r
  <2> QED
    BY <2>1, <2>2, <2>4
<1>14. \A i \in 1..Len(r) : left'[r[i]] = left[q[i + 1]]
  BY <1>1, <1>3, <1>13, WFacts DEF Ints
<1>15. Ordered(q, left)
  BY WFacts DEF q
<1>16. Ordered(r, left')
  <2> SUFFICES ASSUME NEW i \in 1..Len(r), NEW j \in 1..Len(r), i < j PROVE left'[r[i]] <= left'[r[j]]
    BY DEF Ordered
  <2>1. i + 1 \in 1..Len(q) /\ j + 1 \in 1..Len(q) /\ i + 1 < j + 1
    BY <1>13
  <2>2. left[q[i + 1]] <= left[q[j + 1]]
    BY <1>15, <2>1 DEF Ordered
  <2> QED
    BY <1>14, <2>2
<1>17. \A i \in 1..Len(r) : left'[r[i]] \in Int /\ x <= left'[r[i]] /\ (0 - x) + left'[r[i]] + Margin < Wrap - 1
  <2> SUFFICES ASSUME NEW i \in 1..Len(r)
               PROVE  left'[r[i]] \in Int /\ x <= left'[r[i]] /\ (0 - x) + left'[r[i]] + Margin < Wrap - 1
    OBVIOUS
  <2> DEFINE y == left[q[i + 1]]
  <2>1. y \in Int /\ e + y + Margin < Wrap - 1
    BY <1>8, <1>13
  <2>2. x <= y
    <3>1. i + 1 \in 1..Len(q) /\ 1 < i + 1
      BY <1>13
    <3>2. left[q[1]] <= y
      BY <1>4, <1>15, <3>1 DEF Ordered
    <3> QED
      BY <1>4, <3>2 DEF x
  <2>3. left'[r[i]] = y
    BY <1>14
  <2> HIDE DEF y, r
  <2>4. (0 - x) + y + Margin < Wrap - 1
    <3>1. e \in Int /\ x \in Int /\ 0 - x <= e /\ Margin \in Int /\ Wrap \in Int
      BY <1>6, <1>11, Numbers
    <3> QED
      BY <2>1, <3>1
  <2> QED
    BY <2>1, <2>2, <2>3, <2>4
<1>18. r # <<>> => 1 \in 1..Len(r) /\ Head(r) = r[1]
  BY <1>5
<1> HIDE DEF r
<1>19. Window(vtlist, left)'
  <2>1. \A i \in 1..Len(r) : 0 <= (0 - x) + left'[r[i]]
    BY <1>6, <1>17
  <2>2. Near(r, 0 - x, left')
    BY <1>11, <1>17, <1>18, <2>1 DEF Near
  <2>3. Near(r, Sub(time, v.last), left')
    BY <1>12, <2>2
  <2> QED
    BY <1>1, <1>3, <1>16, <2>3 DEF Window, r
<1>20. AlarmHolds'
  <2>1. CASE r = <<>>
    <3>1. ~(Len(q) > 1)
      <4> DEFINE n == Len(q)
                 m == Len(r)
      <4>1. m = n - 1 /\ n \in Int
        BY <1>5 DEF r
      <4>2. m = 0
        BY <2>1
      <4> HIDE DEF n, m
      <4>3. ~(n > 1)
        BY <4>1, <4>2
      <4> QED
        BY <4>3 DEF n
    <3>2. v.on = FALSE /\ v.list = <<>>
      BY <1>3, <2>1, <3>1 DEF r
    <3> QED
      BY <1>1, <3>2 DEF AlarmHolds
  <2>2. CASE r # <<>>
    <3>1. Len(q) > 1
      BY <1>4, <1>5, <1>18, <2>2 DEF r
    <3>2. v.on = TRUE /\ v.list = r
      BY <1>3, <1>9, <3>1 DEF r
    <3>3. InTime(left'[Head(r)], behind)
      <4> DEFINE y == left'[Head(r)]
      <4>1. y \in Int /\ x <= y
        BY <1>17, <1>18, <2>2
      <4>2. x \in Int /\ behind \in Int
        BY <1>6, WFacts
      <4> HIDE DEF y
      <4>3. InTime(y, behind)
        BY <1>9, <4>1, <4>2, LaterInTime
      <4> QED
        BY <4>3 DEF y
    <3> QED
      BY <1>1, <1>9, <2>2, <3>2, <3>3 DEF AlarmHolds
  <2> QED
    BY <2>1, <2>2
<1>21. HeaderHolds'
  <2>1. (0 - x) + 2 * Latency - behind < Wrap - 1 /\ (0 - x) + Latency - behind < Wrap - 1
    BY <1>6, <1>9, <1>11, Numbers
  <2> QED
    BY <1>1, <1>12, <2>1 DEF HeaderHolds
<1> QED
  BY <1>1, <1>2, <1>11, <1>19, <1>20, <1>21 DEF WInv

LEMMA EndStep ==
  ASSUME WInv, Settings, NEW d \in 0..Slip, TickEnd(d)
  PROVE  WInv'
<1> DEFINE q == vtlist.list
           h == Head(q)
           x == left[h]
           gap == vtlist.delta[h]
           e == Sub(time, vtlist.last)
           w == Rearmed(vtlist)
<1>1. /\ ticking /\ ~Due /\ Moves(d, FALSE) /\ behind' = 0 /\ vtlist' = w /\ left' = Ages(d)
      /\ ticking' = FALSE /\ late' = late /\ late' \in 0..MaxLate /\ VTInv
  BY DEF TickEnd, WInv
<1>2. VTInv'
  BY StepEnd DEF WInv
<1>3. e \in Int /\ e >= 0 /\ vtlist.last \in Int /\ time \in Int /\ d \in Nat /\ d <= Slip
  <2>1. e \in 0..Wrap - 1 /\ e \in Int
    BY WFacts, AddSub
  <2> HIDE DEF e
  <2> QED
    BY <2>1, WFacts, Numbers
<1> HIDE DEF e, w
<1>4. CASE q = <<>>
  <2>1. w = vtlist /\ vtlist.on = FALSE
    BY <1>4 DEF w, Rearmed, WInv, AlarmHolds
  <2>2. latched' = latched
    BY <1>1, <2>1 DEF Moves, VTInv, Clocks
  <2>3. latched => e + 2 * Latency - behind < Wrap - 1
    BY <1>1, <1>4 DEF WInv, HeaderHolds, e
  <2>4. behind + d <= Latency /\ behind \in Int
    BY <1>1, WFacts DEF Moves
  <2>5. latched' => e + d + Latency - behind' < Wrap - 1
    BY <1>1, <1>3, <2>2, <2>3, <2>4, Numbers
  <2> QED
    BY <1>1, <1>2, <1>3, <1>4, <2>1, <2>5, HeaderCarried DEF e, Moves
<1>5. CASE q # <<>>
  <2> DEFINE due == Add(vtlist.last, gap)
             wait == Larger(Sub(due, time), TimeDelta)
  <2>1. w = [vtlist EXCEPT !.alarm = Add(time, wait)]
    BY <1>5, Zenon DEF w, Rearmed
  <2>2. vtlist \in VList /\ vtlist.on = TRUE
    BY <1>5, WFacts DEF WInv, AlarmHolds
  <2> HIDE DEF wait
  <2>3. w.list = q /\ w.last = vtlist.last /\ w.on = TRUE /\ w.alarm = Add(time, wait)
    BY <2>1, <2>2 DEF VList
  <2>4. w \in VList
    <3>1. Exact(vtlist, Points) /\ time \in 0..Wrap - 1 /\ Points \in Ints
      BY WFacts
    <3> QED
      BY <3>1, RearmedExact DEF Exact, w
  <2>5. 1 \in 1..Len(q) /\ h = q[1] /\ h \in Timers
    BY <1>5, WFacts
  <2>6. x \in Int /\ e + x \in 0..Wrap - 1 /\ e + x + Margin < Wrap - 1
    BY <2>5, WFacts, OrderedBounds DEF e
  <2>7. gap = x + e
    <3>1. Gaps(q, vtlist.delta, e, left)
      BY WFacts, GapsExact DEF WInv, e
    <3>2. gap = x - (0 - e)
      BY <2>5, <3>1 DEF Gaps
    <3> HIDE DEF gap, x
    <3> QED
      BY <1>3, <2>6, <3>2
  <2>8. ~(gap <= e)
    BY <1>1, <1>5 DEF Due, e
  <2> HIDE DEF gap, x
  <2>9. x > 0 /\ x \in 0..Wrap - 1
    BY <1>3, <2>6, <2>7, <2>8, Numbers
  <2>10. Sub(due, time) = x
    <3>7. Same(vtlist.last + e, time)
      BY <1>3, AddSub DEF e
    <3>1. Same(vtlist.last + e, time) /\ gap \in Int
      BY <1>3, <2>6, <2>7, <3>7
    <3>2. due \in Int /\ Same(due, vtlist.last + gap)
      BY <1>3, <3>1, AddSub
    <3>3. vtlist.last + e \in Int
      BY <1>3
    <3>4. Same((vtlist.last + e) + x, time + x)
      BY <1>3, <2>6, <3>1, <3>3, SameSum
    <3>5. (vtlist.last + e) + x = vtlist.last + gap
      BY <1>3, <2>6, <2>7
    <3> HIDE DEF due
    <3>6. Same(time + x, due)
      BY <3>2, <3>4, <3>5 DEF Same
    <3> QED
      BY <1>3, <2>9, <3>2, <3>6, SubIs
  <2>11. New(w, x)
    <3>1. wait = Larger(x, TimeDelta)
      BY <2>10 DEF wait
    <3>2. Margin < Wrap - 1 /\ TimeDelta - 1 <= Margin
      BY <2>6, Numbers
    <3>3. wait \in TimeDelta..Wrap - 1 /\ wait <= x + (TimeDelta - 1)
      BY <2>6, <2>9, <3>1, <3>2, Numbers DEF Larger
    <3> QED
      BY <2>3, <2>9, <3>3 DEF New
  <2>12. Window(w, left)
    BY <2>3 DEF WInv, Window
  <2>13. \A a \in 1..Len(w.list) : left'[w.list[a]] = left[w.list[a]] - d
    <3>1. \A a \in 1..Len(q) : q[a] \in Timers /\ Armed(q[a])
      <4>1. q \in Seq(Timers)
        BY WFacts
      <4> QED
        BY <4>1 DEF Armed, ToSet
    <3>2. \A a \in 1..Len(q) : left'[q[a]] = left[q[a]] - d
      BY <1>1, <3>1, Ageing
    <3> QED
      BY <2>3, <3>2
  <2>14. Carries(w, left[Head(w.list)], d, FALSE)
    BY <2>3, <2>11 DEF Carries, x
  <2> QED
    BY <1>1, <1>2, <1>5, <2>3, <2>4, <2>12, <2>13, <2>14, WFacts, Carried
<1> QED
  BY <1>4, <1>5

-----------------------------------------------------------------------------
\* While vt_lasttime is kept close to the time every state satisfies WInv.
THEOREM WindowInvariance == ~BaseMayAge => (Spec => []WInv)
<1> SUFFICES ASSUME ~BaseMayAge PROVE Spec => []WInv
  OBVIOUS
<1>1. Init /\ VTInv => WInv
  <2> SUFFICES ASSUME Init, VTInv PROVE WInv
    OBVIOUS
  <2>1. vtlist.list = <<>> /\ vtlist.last = 0 /\ vtlist.on = FALSE /\ time = 0 /\ late = 0
        /\ latched = FALSE /\ ticking = FALSE
    BY DEF Init
  <2>2. Sub(time, vtlist.last) \in 0..Wrap - 1
    BY <2>1, AddSub, SettingsHold
  <2>3. Ordered(<<>>, left) /\ Near(<<>>, Sub(time, vtlist.last), left)
    BY <2>2 DEF Ordered, Near
  <2>4. Window(vtlist, left)
    BY <2>1, <2>3 DEF Window
  <2>5. AlarmHolds /\ HeaderHolds
    BY <2>1 DEF AlarmHolds, HeaderHolds
  <2>6. late \in 0..MaxLate
    BY <2>1, Numbers, SettingsHold
  <2> QED
    BY <2>4, <2>5, <2>6 DEF WInv
<1>2. WInv /\ [Next]_vars => WInv'
  <2> SUFFICES ASSUME WInv, [Next]_vars PROVE WInv'
    OBVIOUS
  <2>1. CASE Tick
    BY <2>1, TickWindow, SettingsHold
  <2>2. ASSUME NEW t \in Timers, NEW d \in 0..Slip, ResetI(t, d) PROVE WInv'
    BY <2>2, ResetStep, SettingsHold
  <2>3. ASSUME NEW t \in Timers, NEW d \in 0..Slip, NEW delay \in Delays, SetI(t, delay, d)
        PROVE WInv'
    BY <2>3, SetStep, SettingsHold
  <2>4. CASE Serve
    BY <2>4, ServeStep, SettingsHold
  <2>5. CASE TickCallback
    BY <2>5, CallbackStep, SettingsHold
  <2>6. ASSUME NEW d \in 0..Slip, TickEnd(d) PROVE WInv'
    BY <2>6, EndStep, SettingsHold
  <2>7. CASE UNCHANGED vars
    <3>1. /\ vtlist' = vtlist /\ time' = time /\ left' = left /\ flag' = flag /\ latched' = latched
          /\ ticking' = ticking /\ behind' = behind /\ late' = late
      BY <2>7 DEF vars, hw
    <3>2. VTInv'
      <4>1. Points' = Points
        BY <3>1 DEF Points
      <4> QED
        BY <3>1, <4>1 DEF WInv, VTInv, Clocks
    <3>3. Window(vtlist, left)' /\ AlarmHolds' /\ HeaderHolds'
      BY <3>1 DEF WInv, Window, AlarmHolds, HeaderHolds
    <3> QED
      BY <3>1, <3>2, <3>3 DEF WInv
  <2> QED
    BY <2>1, <2>2, <2>3, <2>4, <2>5, <2>6, <2>7 DEF Next
<1> QED
  BY <1>1, <1>2, Invariance, PTL DEF Spec

LEMMA InWindow == ASSUME WInv, Settings PROVE FiresInWindow
<1>1. ASSUME NEW t \in Timers, Armed(t) PROVE left[t] >= 0 - MaxLate
  <2> DEFINE q == vtlist.list
             x == left[Head(q)]
  <2>1. q \in Seq(Timers) /\ Ordered(q, left) /\ behind \in 0..Latency /\ left \in Ints
    BY WFacts
  <2>2. PICK i \in 1..Len(q) : q[i] = t
    BY <1>1, <2>1 DEF Armed, ToSet
  <2>3. q # <<>> /\ 1 \in 1..Len(q) /\ Head(q) = q[1] /\ Head(q) \in Timers
    BY <2>1, <2>2
  <2>4. x \in Int /\ left[t] \in Int
    BY <2>1, <2>3 DEF Ints
  <2>5. x <= left[t]
    <3>1. i = 1 \/ 1 < i
      OBVIOUS
    <3> QED
      BY <2>1, <2>2, <2>3, <2>4, <3>1 DEF Ordered
  <2>6. IF ticking \/ flag THEN InTime(x, behind) ELSE Coming(vtlist.alarm, time, x)
    BY <2>3 DEF WInv, AlarmHolds
  <2> HIDE DEF x, q
  <2>7. behind \in Int /\ behind <= Latency
    BY <2>1, Numbers
  <2>8. 0 - MaxLate <= x
    <3>1. ASSUME Coming(vtlist.alarm, time, x) PROVE 0 - MaxLate <= x
      <4>1. PICK a \in 1..Wrap - 1 : a <= x + (TimeDelta - 1)
        BY <3>1 DEF Coming
      <4>2. a \in Int /\ a >= 1
        BY Numbers
      <4> QED
        BY <2>4, <4>1, <4>2, ComingIsInTime
    <3>2. ASSUME InTime(x, behind) PROVE 0 - MaxLate <= x
      BY <2>4, <2>7, <3>2, LateIsBounded
    <3> QED
      BY <2>6, <3>1, <3>2
  <2>9. MaxLate \in Int
    BY Numbers
  <2> DEFINE y == left[t]
  <2> HIDE DEF y
  <2>10. 0 - MaxLate <= y
    BY <2>4, <2>5, <2>8, <2>9 DEF y
  <2> QED
    BY <2>10 DEF y
<1>2. ASSUME ticking, vtlist.list = <<>> PROVE Sub(time, vtlist.last) < Wrap - 1
  <2> DEFINE e == Sub(time, vtlist.last)
  <2>1. e + Latency - behind < Wrap - 1
    BY <1>2 DEF WInv, HeaderHolds
  <2>2. e \in Int /\ behind \in 0..Latency
    BY WFacts, AddSub
  <2> HIDE DEF e
  <2>3. e < Wrap - 1
    BY <2>1, <2>2, Numbers
  <2> QED
    BY <2>3 DEF e
<1> QED
  BY <1>1, <1>2 DEF WInv, FiresInWindow

\* A callback is called in its window, no armed timer waits for an alarm that
\* does not come, and the header of an emptied list is not taken for a timer,
\* whatever timers are armed and disarmed around the interrupt.
THEOREM CallbacksInWindow == ~BaseMayAge => (Spec => []FiresInWindow)
<1>1. WInv => FiresInWindow
  BY InWindow, SettingsHold
<1> QED
  BY <1>1, WindowInvariance, PTL

=============================================================================
