--------------------------- MODULE Queues_proofs ----------------------------
(***************************************************************************)
(* What the proofs share: least elements, in place of induction; places in *)
(* a ring; and what the operations on queues without repetition return.    *)
(***************************************************************************)
EXTENDS Queues, SequenceTheorems, FiniteSetTheorems, FunctionTheorems, TLAPS

-----------------------------------------------------------------------------
\* Sets of naturals that are not empty have a least element, finitely many
\* naturals a greatest.

\* Otherwise n |-> n - 1 would be one to one, and not onto, on a finite set.
LEMMA Smallest ==
  ASSUME NEW T \in SUBSET Nat, T # {}
  PROVE  \E x \in T : \A y \in T : x <= y
<1> SUFFICES ASSUME \A x \in T : \E y \in T : y < x PROVE FALSE
  OBVIOUS
<1>1. PICK x0 \in T : TRUE
  OBVIOUS
<1> DEFINE U == {n \in 0..x0 : \E z \in T : z <= n}
           f == [n \in U |-> n - 1]
<1>2. IsFiniteSet(U)
  <2>1. IsFiniteSet(0..x0)
    BY <1>1, FS_Interval
  <2>2. U \in SUBSET (0..x0)
    OBVIOUS
  <2> QED
    BY <2>1, <2>2, FS_Subset
<1>3. \A n \in U : n - 1 \in U
  OBVIOUS
<1>4. f \in Injection(U, U)
  <2>1. U \subseteq Nat
    OBVIOUS
  <2> HIDE DEF U
  <2>2. f \in [U -> U]
    BY <1>3
  <2>3. \A a, b \in U : f[a] = f[b] => a = b
    BY <2>1
  <2> HIDE DEF f
  <2> QED
    BY <2>2, <2>3 DEF Injection, IsInjective
<1>5. f \in Surjection(U, U)
  BY <1>2, <1>4, FS_Injection
<1>6. x0 \in U
  BY <1>1
<1>7. PICK n \in U : f[n] = x0
  BY <1>5, <1>6 DEF Surjection
<1> QED
  BY <1>7

\* Of finitely many naturals one is the greatest.
LEMMA Greatest ==
  ASSUME NEW n \in Nat \ {0}, NEW f \in [1..n -> Nat]
  PROVE  \E i \in 1..n : \A j \in 1..n : f[j] <= f[i]
<1> DEFINE Less(k) == \A i \in 1..k : \E j \in 1..k : f[j] > f[i]
           T == {k \in 1..n : Less(k)}
<1>0. \A j \in 1..n : f[j] \in Nat
  OBVIOUS
<1> SUFFICES ASSUME Less(n) PROVE FALSE
  <2> SUFFICES ASSUME \A i \in 1..n : ~(\A j \in 1..n : f[j] <= f[i]) PROVE Less(n)
    OBVIOUS
  <2> SUFFICES ASSUME NEW i \in 1..n PROVE \E j \in 1..n : f[j] > f[i]
    OBVIOUS
  <2>1. PICK j \in 1..n : ~(f[j] <= f[i])
    OBVIOUS
  <2> QED
    BY <1>0, <2>1
<1>1. T \in SUBSET Nat /\ n \in T
  OBVIOUS
<1>2. PICK k \in T : \A l \in T : k <= l
  BY <1>1, Smallest
<1>3. k \in 1..n /\ Less(k) /\ \A l \in 1..n : Less(l) => k <= l
  BY <1>2
<1> HIDE DEF T
<1>4. k \in Nat /\ 1 <= k /\ k <= n /\ k # 1
  <2>1. ~Less(1)
    <3>1. 1 \in 1..n /\ f[1] \in Nat
      BY <1>0
    <3>2. ASSUME NEW j \in 1..1 PROVE ~(f[j] > f[1])
      BY <3>1
    <3> QED
      BY <3>2
  <2>2. k # 1
    BY <1>3, <2>1
  <2> HIDE DEF Less
  <2> QED
    BY <1>3, <2>2
<1>5. k - 1 \in 1..n /\ ~(k <= k - 1)
  BY <1>4
<1>6. ~Less(k - 1)
  BY <1>3, <1>5
<1>7. PICK i \in 1..k-1 : \A j \in 1..k-1 : ~(f[j] > f[i])
  BY <1>6
<1>8. i \in 1..n /\ i \in 1..k /\ k \in 1..k /\ f[k] \in Nat /\ f[i] \in Nat
  <2>1. i \in 1..n /\ i \in 1..k /\ k \in 1..k /\ k \in 1..n
    BY <1>4
  <2> QED
    BY <1>0, <2>1
<1>9. ASSUME NEW j \in 1..k PROVE f[j] \in Nat /\ (j = k \/ f[j] <= f[i])
  <2>1. j \in 1..n /\ (j = k \/ j \in 1..k-1)
    <3> HIDE DEF Less
    <3> QED
      BY <1>4
  <2> QED
    BY <1>0, <1>7, <1>8, <2>1
<1>10. ASSUME NEW x \in 1..k, \A j \in 1..k : f[j] <= f[x] PROVE FALSE
  <2>1. PICK j \in 1..k : f[j] > f[x]
    BY <1>3, <1>10
  <2>2. f[j] <= f[x] /\ f[j] \in Nat /\ f[x] \in Nat
    BY <1>9, <1>10
  <2> HIDE DEF Less
  <2> QED
    BY <2>1, <2>2
<1> HIDE DEF Less
<1>11. CASE f[k] > f[i]
  <2>1. \A j \in 1..k : f[j] <= f[k]
    BY <1>8, <1>9, <1>11
  <2> QED
    BY <1>8, <1>10, <2>1
<1>12. CASE f[k] <= f[i]
  <2>1. \A j \in 1..k : f[j] <= f[i]
    BY <1>8, <1>9, <1>12
  <2> QED
    BY <1>8, <1>10, <2>1
<1> QED
  BY <1>8, <1>11, <1>12

-----------------------------------------------------------------------------
\* Places in a ring of N.

LEMMA Place ==
  ASSUME NEW N \in Nat \ {0}, NEW i \in 0..N-1, NEW k \in 0..N
  PROVE  /\ (i + k) % N = IF i + k < N THEN i + k ELSE i + k - N
         /\ (i + k) % N \in 0..N-1
  OBVIOUS

\* Two places less than a turn apart are different.
LEMMA Apart ==
  ASSUME NEW N \in Nat \ {0}, NEW i \in 0..N-1, NEW j \in 0..N-1, NEW k \in 0..N-1,
         (i + j) % N = (i + k) % N
  PROVE  j = k
<1>1. (i + j) % N = IF i + j < N THEN i + j ELSE i + j - N
  OBVIOUS
<1>2. (i + k) % N = IF i + k < N THEN i + k ELSE i + k - N
  OBVIOUS
<1> QED
  BY <1>1, <1>2

\* Moving j places on and then k more.
LEMMA Onward ==
  ASSUME NEW N \in Nat \ {0}, NEW i \in 0..N-1, NEW j \in 0..N, NEW k \in 0..N, j + k <= N
  PROVE  (((i + j) % N) + k) % N = (i + (j + k)) % N
<1> DEFINE l == (i + j) % N
<1>1. /\ l = IF i + j < N THEN i + j ELSE i + j - N
      /\ l \in 0..N-1
  OBVIOUS
<1> HIDE DEF l
<1>2. (l + k) % N = IF l + k < N THEN l + k ELSE l + k - N
  BY <1>1
<1> DEFINE m == j + k
<1>3. m \in 0..N
  OBVIOUS
<1> HIDE DEF m
<1>4. (i + m) % N = IF i + m < N THEN i + m ELSE i + m - N
  BY <1>3
<1>5. (l + k) % N = (i + m) % N
  BY <1>1, <1>2, <1>3, <1>4 DEF m
<1> QED
  BY <1>5 DEF l, m

-----------------------------------------------------------------------------
\* First out first in: some leave at one end, one joins, one leaves anywhere.

LEMMA DropFirst ==
  ASSUME NEW S, NEW q \in Seq(S), IsInjective(q), NEW k \in 0..Len(q)
  PROVE  LET r == SubSeq(q, k + 1, Len(q)) IN
         /\ r \in Seq(S)
         /\ Len(r) = Len(q) - k
         /\ IsInjective(r)
         /\ ToSet(r) = ToSet(q) \ {q[i] : i \in 1..k}
<1> DEFINE r == SubSeq(q, k + 1, Len(q))
<1>1. /\ r \in Seq(S)
      /\ Len(r) = Len(q) - k
      /\ DOMAIN r = 1..Len(r)
      /\ \A i \in 1..Len(r) : r[i] = q[i + k]
  OBVIOUS
<1>2. IsInjective(r)
  BY <1>1 DEF IsInjective
<1>3. ASSUME NEW x \in ToSet(r) PROVE x \in ToSet(q) \ {q[i] : i \in 1..k}
  <2>1. PICK i \in 1..Len(r) : x = r[i]
    BY <1>1 DEF ToSet
  <2>2. i + k \in 1..Len(q) /\ x = q[i + k]
    BY <1>1, <2>1
  <2>3. \A j \in 1..k : q[j] # q[i + k]
    BY <2>1, <2>2 DEF IsInjective
  <2>4. x \in ToSet(q)
    BY <2>2 DEF ToSet
  <2> QED
    BY <2>2, <2>3, <2>4
<1>4. ASSUME NEW x \in ToSet(q), x \notin {q[i] : i \in 1..k} PROVE x \in ToSet(r)
  <2>1. PICK i \in 1..Len(q) : x = q[i]
    BY DEF ToSet
  <2>2. i > k
    BY <1>4, <2>1
  <2>3. i - k \in 1..Len(r) /\ r[i - k] = x
    BY <1>1, <2>1, <2>2
  <2> QED
    BY <2>3, <1>1 DEF ToSet
<1> QED
  BY <1>1, <1>2, <1>3, <1>4

LEMMA DropLast ==
  ASSUME NEW S, NEW q \in Seq(S), IsInjective(q), NEW k \in 0..Len(q)
  PROVE  LET r == SubSeq(q, 1, Len(q) - k) IN
         /\ r \in Seq(S)
         /\ Len(r) = Len(q) - k
         /\ IsInjective(r)
         /\ ToSet(r) = ToSet(q) \ {q[i] : i \in Len(q) - k + 1 .. Len(q)}
<1> DEFINE r == SubSeq(q, 1, Len(q) - k)
<1>1. /\ r \in Seq(S)
      /\ Len(r) = Len(q) - k
      /\ DOMAIN r = 1..Len(r)
      /\ \A i \in 1..Len(r) : r[i] = q[i]
  OBVIOUS
<1>2. IsInjective(r)
  BY <1>1 DEF IsInjective
<1>3. ASSUME NEW x \in ToSet(r)
      PROVE x \in ToSet(q) \ {q[i] : i \in Len(q) - k + 1 .. Len(q)}
  <2>1. PICK i \in 1..Len(r) : x = r[i]
    BY <1>1 DEF ToSet
  <2>2. i \in 1..Len(q) /\ x = q[i]
    BY <1>1, <2>1
  <2>3. \A j \in Len(q) - k + 1 .. Len(q) : q[j] # q[i]
    BY <1>1, <2>1, <2>2 DEF IsInjective
  <2>4. x \in ToSet(q)
    BY <2>2 DEF ToSet
  <2> QED
    BY <2>2, <2>3, <2>4
<1>4. ASSUME NEW x \in ToSet(q), x \notin {q[i] : i \in Len(q) - k + 1 .. Len(q)}
      PROVE x \in ToSet(r)
  <2>1. PICK i \in 1..Len(q) : x = q[i]
    BY DEF ToSet
  <2>2. i \in 1..Len(r) /\ r[i] = x
    BY <1>1, <1>4, <2>1
  <2> QED
    BY <2>2, <1>1 DEF ToSet
<1> QED
  BY <1>1, <1>2, <1>3, <1>4

LEMMA AppendNew ==
  ASSUME NEW S, NEW q \in Seq(S), IsInjective(q), NEW t \in S, t \notin ToSet(q)
  PROVE  /\ Append(q, t) \in Seq(S)
         /\ Len(Append(q, t)) = Len(q) + 1
         /\ IsInjective(Append(q, t))
         /\ ToSet(Append(q, t)) = ToSet(q) \cup {t}
<1> DEFINE r == Append(q, t)
<1>1. /\ r \in Seq(S)
      /\ Len(r) = Len(q) + 1
      /\ \A i \in 1..Len(q) : r[i] = q[i]
      /\ r[Len(q) + 1] = t
  OBVIOUS
<1>2. \A i \in 1..Len(q) : q[i] # t
  BY DEF ToSet
<1>3. IsInjective(r)
  BY <1>1, <1>2 DEF IsInjective
<1>4. ToSet(r) = ToSet(q) \cup {t}
  BY <1>1 DEF ToSet
<1> QED
  BY <1>1, <1>3, <1>4

\* r is q without its place i.
Without(S, q, i, r) ==
  /\ r \in Seq(S) /\ Len(r) = Len(q) - 1
  /\ \A j \in 1..(i - 1) : r[j] = q[j]
  /\ \A j \in i..(Len(q) - 1) : r[j] = q[j + 1]

LEMMA DequeuePlaces ==
  ASSUME NEW S, NEW q \in Seq(S), NEW t \in ToSet(q)
  PROVE  \E i \in 1..Len(q) : q[i] = t /\ Without(S, q, i, Dequeue(q, t))
<1> DEFINE i == CHOOSE j \in DOMAIN q : q[j] = t
           a == SubSeq(q, 1, i - 1)
           b == SubSeq(q, i + 1, Len(q))
           r == a \o b
<1>1. i \in 1..Len(q) /\ q[i] = t
  BY DEF ToSet
<1>2. Dequeue(q, t) = r
  BY Zenon DEF Dequeue, RemoveAt
<1> HIDE DEF i
<1>3. /\ a \in Seq(S) /\ Len(a) = i - 1
      /\ \A j \in 1..(i - 1) : a[j] = q[j]
  BY <1>1
<1>4. /\ b \in Seq(S) /\ Len(b) = Len(q) - i
      /\ \A j \in 1..(Len(q) - i) : b[j] = q[j + i]
  BY <1>1
<1> HIDE DEF a, b
<1>5. /\ r \in Seq(S) /\ Len(r) = Len(q) - 1
      /\ \A j \in 1..(i - 1) : r[j] = q[j]
      /\ \A j \in i..(Len(q) - 1) : r[j] = q[j + 1]
  <2>1. r \in Seq(S) /\ Len(r) = Len(q) - 1
    <3>1. r \in Seq(S) /\ Len(r) = Len(a) + Len(b)
      BY <1>3, <1>4, ConcatProperties
    <3> HIDE DEF r
    <3> QED
      BY <3>1, <1>1, <1>3, <1>4
  <2>2. ASSUME NEW j \in 1..(i - 1) PROVE r[j] = q[j]
    BY <1>1, <1>3, <1>4
  <2>3. ASSUME NEW j \in i..(Len(q) - 1) PROVE r[j] = q[j + 1]
    <3>1. r[j] = b[j - Len(a)]
      BY <1>1, <1>3, <1>4
    <3>2. j - Len(a) \in 1..(Len(q) - i) /\ (j - Len(a)) + i = j + 1
      BY <1>1, <1>3
    <3> QED
      BY <3>1, <3>2, <1>4
  <2> QED
    BY <2>1, <2>2, <2>3
<1> HIDE DEF r
<1> QED
  BY <1>1, <1>2, <1>5 DEF Without

LEMMA DequeueOne ==
  ASSUME NEW S, NEW q \in Seq(S), IsInjective(q), NEW t \in ToSet(q)
  PROVE  /\ Dequeue(q, t) \in Seq(S)
         /\ Len(Dequeue(q, t)) = Len(q) - 1
         /\ IsInjective(Dequeue(q, t))
         /\ ToSet(Dequeue(q, t)) = ToSet(q) \ {t}
<1> DEFINE r == Dequeue(q, t)
<1>1. PICK i \in 1..Len(q) : q[i] = t /\ Without(S, q, i, r)
  BY DequeuePlaces
<1> HIDE DEF r
<1>5. /\ r \in Seq(S) /\ Len(r) = Len(q) - 1
      /\ \A j \in 1..(i - 1) : r[j] = q[j]
      /\ \A j \in i..(Len(q) - 1) : r[j] = q[j + 1]
  BY <1>1 DEF Without
<1>6. DOMAIN r = 1..(Len(q) - 1) /\ DOMAIN q = 1..Len(q)
  BY <1>5
<1>7. IsInjective(r)
  <2> SUFFICES ASSUME NEW x \in 1..(Len(q) - 1), NEW y \in 1..(Len(q) - 1), r[x] = r[y]
               PROVE x = y
    BY <1>6 DEF IsInjective
  <2> DEFINE f(z) == IF z < i THEN z ELSE z + 1
  <2>1. r[x] = q[f(x)] /\ r[y] = q[f(y)] /\ f(x) \in 1..Len(q) /\ f(y) \in 1..Len(q)
    BY <1>1, <1>5
  <2>2. f(x) = f(y)
    BY <2>1, <1>6 DEF IsInjective
  <2> QED
    BY <2>2, <1>1
<1>8. ASSUME NEW x \in ToSet(r) PROVE x \in ToSet(q) /\ x # t
  <2>1. PICK j \in 1..(Len(q) - 1) : x = r[j]
    BY <1>6 DEF ToSet
  <2>2. PICK h \in 1..Len(q) : x = q[h] /\ h # i
    <3>1. CASE j < i
      BY <3>1, <2>1, <1>5, <1>1
    <3>2. CASE j >= i
      BY <3>2, <2>1, <1>5, <1>1
    <3> QED
      BY <3>1, <3>2, <1>1
  <2> QED
    BY <2>2, <1>1, <1>6 DEF IsInjective, ToSet
<1>9. ASSUME NEW x \in ToSet(q), x # t PROVE x \in ToSet(r)
  <2>1. PICK j \in 1..Len(q) : x = q[j] /\ j # i
    BY <1>1, <1>6, <1>9 DEF ToSet
  <2>2. CASE j < i
    <3>1. j \in 1..(Len(q) - 1) /\ x = r[j]
      BY <2>1, <2>2, <1>1, <1>5
    <3> QED
      BY <3>1, <1>6 DEF ToSet
  <2>3. CASE j > i
    <3>1. j - 1 \in i..(Len(q) - 1) /\ j - 1 \in 1..(Len(q) - 1) /\ (j - 1) + 1 = j
      BY <2>1, <2>3, <1>1
    <3>2. x = r[j - 1]
      BY <2>1, <3>1, <1>5
    <3> QED
      BY <3>1, <3>2, <1>6 DEF ToSet
  <2> QED
    BY <2>1, <2>2, <2>3, <1>1
<1>10. ToSet(r) = ToSet(q) \ {t}
  BY <1>8, <1>9
<1> QED
  BY <1>5, <1>7, <1>10 DEF r

\* queue_fifo_remove.
LEMMA TailQueue ==
  ASSUME NEW S, NEW q \in Seq(S), IsInjective(q), q # <<>>
  PROVE  /\ Head(q) \in S /\ Head(q) \in ToSet(q)
         /\ Tail(q) \in Seq(S) /\ IsInjective(Tail(q))
         /\ ToSet(Tail(q)) = ToSet(q) \ {Head(q)}
<1>1. Len(q) \in Nat /\ Len(q) >= 1 /\ Head(q) = q[1] /\ q[1] \in S
  OBVIOUS
<1>2. SubSeq(q, 1 + 1, Len(q)) = Tail(q)
  OBVIOUS
<1>3. 1 \in 0..Len(q) /\ {q[i] : i \in 1..1} = {q[1]}
  BY <1>1
<1>4. Head(q) \in ToSet(q)
  BY <1>1 DEF ToSet
<1>5. /\ Tail(q) \in Seq(S)
      /\ IsInjective(Tail(q))
      /\ ToSet(Tail(q)) = ToSet(q) \ {q[i] : i \in 1..1}
  <2> DEFINE r == SubSeq(q, 1 + 1, Len(q))
  <2>1. r \in Seq(S) /\ IsInjective(r) /\ ToSet(r) = ToSet(q) \ {q[i] : i \in 1..1}
    BY <1>3, DropFirst, Zenon
  <2>2. r = Tail(q)
    BY <1>2
  <2> HIDE DEF r
  <2> QED
    BY <2>1, <2>2
<1> QED
  BY <1>1, <1>3, <1>4, <1>5

\* One joins in front.
LEMMA PushFront ==
  ASSUME NEW S, NEW q \in Seq(S), IsInjective(q), NEW t \in S, t \notin ToSet(q)
  PROVE  /\ <<t>> \o q \in Seq(S)
         /\ IsInjective(<<t>> \o q)
         /\ ToSet(<<t>> \o q) = ToSet(q) \cup {t}
         /\ Head(<<t>> \o q) = t
<1> DEFINE r == <<t>> \o q
<1>1. /\ r \in Seq(S) /\ Len(r) = Len(q) + 1 /\ r[1] = t /\ Head(r) = t
      /\ \A i \in 2..Len(q)+1 : r[i] = q[i - 1]
  OBVIOUS
<1> HIDE DEF r
<1>2. DOMAIN r = 1..Len(q)+1 /\ DOMAIN q = 1..Len(q)
  BY <1>1
<1>3. \A i \in 1..Len(q) : q[i] # t
  BY <1>2 DEF ToSet
<1>4. ASSUME NEW i \in 1..Len(q)+1, i # 1
      PROVE  i - 1 \in 1..Len(q) /\ r[i] = q[i - 1] /\ r[i] # t
  BY <1>1, <1>3, <1>4
<1>5. IsInjective(r)
  <2> SUFFICES ASSUME NEW x \in 1..Len(q)+1, NEW y \in 1..Len(q)+1, r[x] = r[y]
               PROVE  x = y
    BY <1>2 DEF IsInjective
  <2>1. CASE x = 1 \/ y = 1
    BY <1>1, <1>4, <2>1
  <2>2. CASE x # 1 /\ y # 1
    <3>1. x - 1 = y - 1
      BY <1>2, <1>4, <2>2 DEF IsInjective
    <3> QED
      BY <3>1
  <2> QED
    BY <2>1, <2>2
<1>6. ASSUME NEW x \in ToSet(r) PROVE x \in ToSet(q) \cup {t}
  <2>1. PICK i \in 1..Len(q)+1 : x = r[i]
    BY <1>2 DEF ToSet
  <2> QED
    BY <1>1, <1>2, <1>4, <2>1 DEF ToSet
<1>7. ASSUME NEW x \in ToSet(q) \cup {t} PROVE x \in ToSet(r)
  <2>1. CASE x = t
    BY <1>1, <1>2, <2>1 DEF ToSet
  <2>2. CASE x \in ToSet(q)
    <3>1. PICK i \in 1..Len(q) : x = q[i]
      BY <1>2, <2>2 DEF ToSet
    <3>2. i + 1 \in 2..Len(q)+1 /\ i + 1 \in 1..Len(q)+1 /\ (i + 1) - 1 = i
      BY <3>1
    <3>3. r[i + 1] = q[(i + 1) - 1]
      BY <1>1, <3>2
    <3> QED
      BY <1>2, <3>1, <3>2, <3>3 DEF ToSet
  <2> QED
    BY <2>1, <2>2
<1> QED
  BY <1>1, <1>5, <1>6, <1>7 DEF r

-----------------------------------------------------------------------------
\* Queues in decreasing priority.

\* r is q with t at place i.
Placed(S, q, t, i, r) ==
  /\ r \in Seq(S) /\ Len(r) = Len(q) + 1
  /\ \A j \in 1..i-1 : r[j] = q[j]
  /\ r[i] = t
  /\ \A j \in i+1..Len(q)+1 : r[j] = q[j - 1]

LEMMA InsertAtPlaces ==
  ASSUME NEW S, NEW q \in Seq(S), NEW t \in S, NEW i \in 1..Len(q)+1
  PROVE  Placed(S, q, t, i, InsertAt(q, i, t))
<1> DEFINE a == SubSeq(q, 1, i - 1)
           b == SubSeq(q, i, Len(q))
           c == a \o <<t>>
           r == c \o b
<1>1. /\ a \in Seq(S) /\ Len(a) = i - 1
      /\ \A j \in 1..i-1 : a[j] = q[j]
  OBVIOUS
<1>2. /\ b \in Seq(S) /\ Len(b) = Len(q) - i + 1
      /\ \A j \in 1..(Len(q)-i+1) : b[j] = q[j + i - 1]
  OBVIOUS
<1> HIDE DEF a, b
<1>3. /\ c \in Seq(S) /\ Len(c) = i
      /\ \A j \in 1..i-1 : c[j] = q[j]
      /\ c[i] = t
  <2>1. <<t>> \in Seq(S) /\ Len(<<t>>) = 1 /\ <<t>>[1] = t
    OBVIOUS
  <2>2. c \in Seq(S) /\ Len(c) = i
    BY <1>1, <2>1, ConcatProperties
  <2>3. \A j \in 1..i-1 : c[j] = a[j]
    BY <1>1, <2>1
  <2>4. c[i] = t
    BY <1>1, <2>1
  <2> QED
    BY <1>1, <2>2, <2>3, <2>4
<1> HIDE DEF c
<1>4. /\ r \in Seq(S) /\ Len(r) = Len(q) + 1
  <2>1. r \in Seq(S) /\ Len(r) = Len(c) + Len(b)
    BY <1>2, <1>3, ConcatProperties
  <2> HIDE DEF r
  <2> QED
    BY <1>2, <1>3, <2>1
<1>5. \A j \in 1..i : r[j] = c[j]
  BY <1>2, <1>3
<1>6. ASSUME NEW j \in i+1..Len(q)+1 PROVE r[j] = q[j - 1]
  <2>1. r[j] = b[j - Len(c)]
    BY <1>2, <1>3
  <2>2. j - i \in 1..(Len(q)-i+1) /\ (j - i) + i - 1 = j - 1
    OBVIOUS
  <2> QED
    BY <1>2, <1>3, <2>1, <2>2
<1>7. r[i] = t /\ \A j \in 1..i-1 : r[j] = q[j]
  BY <1>3, <1>5
<1>8. InsertAt(q, i, t) = r
  BY Zenon DEF InsertAt, r, c, a, b
<1> HIDE DEF r
<1>9. Placed(S, q, t, i, r)
  BY <1>4, <1>6, <1>7 DEF Placed
<1> QED
  BY <1>8, <1>9

\* The place: everybody before it is as urgent, the next one is not.
LEMMA PrioPlace ==
  ASSUME NEW S, NEW q \in Seq(S), NEW t \in S, NEW p \in [S -> Nat]
  PROVE  \E i \in 1..Len(q)+1 :
           /\ Placed(S, q, t, i, PrioInsert(q, t, p))
           /\ \A j \in 1..i-1 : p[q[j]] >= p[t]
           /\ i <= Len(q) => p[q[i]] < p[t]
<1> DEFINE I == {i \in 1..Len(q) : p[q[i]] < p[t]}
           s == SelectInSeq(q, LAMBDA w : p[w] < p[t])
           i == IF s = 0 THEN Len(q) + 1 ELSE s
<1>1. s = IF I # {} THEN Min(I) ELSE 0
  BY DEF SelectInSeq
<1>2. \A j \in 1..Len(q) : p[q[j]] \in Nat /\ p[t] \in Nat
  OBVIOUS
<1>3. \A j \in 1..Len(q) : j \in I <=> p[q[j]] < p[t]
  OBVIOUS
<1>4. PrioInsert(q, t, p) = InsertAt(q, i, t)
  BY DEF PrioInsert
<1>5. I \in SUBSET Nat /\ I \subseteq 1..Len(q)
  OBVIOUS
<1> SUFFICES \E k \in 1..Len(q)+1 :
               /\ PrioInsert(q, t, p) = InsertAt(q, k, t)
               /\ \A j \in 1..k-1 : p[q[j]] >= p[t]
               /\ k <= Len(q) => p[q[k]] < p[t]
  BY InsertAtPlaces
<1> HIDE DEF I, s
<1>6. CASE I = {}
  BY <1>1, <1>2, <1>3, <1>4, <1>6
<1>7. CASE I # {}
  <2>1. \E x \in I : \A y \in I : x <= y
    BY <1>5, <1>7, Smallest
  <2>2. s \in I /\ \A y \in I : s <= y
    BY <1>1, <1>7, <2>1 DEF Min
  <2>3. i = s /\ i \in 1..Len(q)
    BY <1>5, <2>2
  <2> HIDE DEF i
  <2>4. ASSUME NEW j \in 1..i-1 PROVE p[q[j]] >= p[t]
    <3>1. j \in 1..Len(q) /\ j \notin I
      BY <2>2, <2>3
    <3> QED
      BY <3>1, <1>2, <1>3
  <2>5. p[q[i]] < p[t]
    BY <2>2, <2>3, <1>3
  <2> QED
    BY <1>4, <2>3, <2>4, <2>5
<1> QED
  BY <1>6, <1>7

LEMMA PrioInsertNew ==
  ASSUME NEW S, NEW q \in Seq(S), NEW t \in S, NEW p \in [S -> Nat],
         IsInjective(q), t \notin ToSet(q)
  PROVE  /\ PrioInsert(q, t, p) \in Seq(S)
         /\ IsInjective(PrioInsert(q, t, p))
         /\ ToSet(PrioInsert(q, t, p)) = ToSet(q) \cup {t}
<1> DEFINE r == PrioInsert(q, t, p)
<1>1. PICK i \in 1..Len(q)+1 : Placed(S, q, t, i, r)
  BY PrioPlace
<1> HIDE DEF r
<1>2. /\ r \in Seq(S) /\ Len(r) = Len(q) + 1
      /\ \A j \in 1..i-1 : r[j] = q[j]
      /\ r[i] = t
      /\ \A j \in i+1..Len(q)+1 : r[j] = q[j - 1]
  BY <1>1 DEF Placed
<1>3. DOMAIN r = 1..Len(q)+1 /\ DOMAIN q = 1..Len(q)
  BY <1>2
<1>4. \A j \in 1..Len(q) : q[j] # t
  BY <1>3 DEF ToSet
<1>5. IsInjective(r)
  <2> SUFFICES ASSUME NEW x \in 1..Len(q)+1, NEW y \in 1..Len(q)+1, r[x] = r[y]
               PROVE  x = y
    BY <1>3 DEF IsInjective
  <2> DEFINE f(z) == IF z < i THEN z ELSE z - 1
  <2>1. ASSUME NEW z \in 1..Len(q)+1, z # i
        PROVE  f(z) \in 1..Len(q) /\ r[z] = q[f(z)]
    BY <1>2, <2>1
  <2>2. CASE x = i \/ y = i
    <3>1. ASSUME NEW z \in 1..Len(q)+1, z # i PROVE r[z] # r[i]
      BY <1>2, <1>4, <2>1, <3>1
    <3> QED
      BY <2>2, <3>1
  <2>3. CASE x # i /\ y # i
    <3>1. f(x) = f(y)
      BY <2>1, <2>3, <1>3 DEF IsInjective
    <3> QED
      BY <3>1, <2>3
  <2> QED
    BY <2>2, <2>3
<1>6. ASSUME NEW x \in ToSet(r) PROVE x \in ToSet(q) \cup {t}
  <2>1. PICK j \in 1..Len(q)+1 : x = r[j]
    BY <1>3 DEF ToSet
  <2>2. j < i \/ j = i \/ j > i
    OBVIOUS
  <2>3. j < i => j \in 1..Len(q) /\ x = q[j]
    BY <1>2, <2>1
  <2>4. j > i => j - 1 \in 1..Len(q) /\ x = q[j - 1]
    BY <1>2, <2>1
  <2> QED
    BY <1>2, <1>3, <2>1, <2>2, <2>3, <2>4 DEF ToSet
<1>7. ASSUME NEW x \in ToSet(q) \cup {t} PROVE x \in ToSet(r)
  <2>1. CASE x = t
    BY <1>2, <1>3, <2>1 DEF ToSet
  <2>2. CASE x \in ToSet(q)
    <3>1. PICK j \in 1..Len(q) : x = q[j]
      BY <1>3, <2>2 DEF ToSet
    <3>2. j < i => x = r[j] /\ j \in 1..Len(q)+1
      BY <1>2, <3>1
    <3>3. ASSUME j >= i PROVE x = r[j + 1] /\ j + 1 \in 1..Len(q)+1
      <4>1. j + 1 \in i+1..Len(q)+1 /\ (j + 1) - 1 = j
        BY <3>1, <3>3
      <4>2. r[j + 1] = q[(j + 1) - 1]
        BY <1>2, <4>1
      <4> QED
        BY <3>1, <4>1, <4>2
    <3>4. j < i \/ j >= i
      OBVIOUS
    <3> QED
      BY <1>3, <3>2, <3>3, <3>4 DEF ToSet
  <2> QED
    BY <2>1, <2>2
<1> QED
  BY <1>2, <1>5, <1>6, <1>7 DEF r

LEMMA PrioInsertDescending ==
  ASSUME NEW S, NEW q \in Seq(S), NEW t \in S, NEW p \in [S -> Nat], Descending(q, p)
  PROVE  Descending(PrioInsert(q, t, p), p)
<1> DEFINE r == PrioInsert(q, t, p)
<1>1. PICK i \in 1..Len(q)+1 :
        /\ Placed(S, q, t, i, r)
        /\ \A j \in 1..i-1 : p[q[j]] >= p[t]
        /\ i <= Len(q) => p[q[i]] < p[t]
  BY PrioPlace
<1> HIDE DEF r
<1>2. /\ r \in Seq(S) /\ Len(r) = Len(q) + 1
      /\ \A j \in 1..i-1 : r[j] = q[j]
      /\ r[i] = t
      /\ \A j \in i+1..Len(q)+1 : r[j] = q[j - 1]
  BY <1>1 DEF Placed
<1>3. DOMAIN r = 1..Len(q)+1 /\ DOMAIN q = 1..Len(q)
  BY <1>2
<1>4. \A j \in 1..Len(q) : p[q[j]] \in Nat /\ p[t] \in Nat
  OBVIOUS
<1>5. \A x, y \in 1..Len(q) : x < y => p[q[x]] >= p[q[y]]
  BY <1>3 DEF Descending
<1>6. ASSUME NEW j \in i..Len(q) PROVE p[q[j]] < p[t]
  <2>1. i \in 1..Len(q) /\ j \in 1..Len(q) /\ p[q[i]] < p[t]
    BY <1>1
  <2>2. p[q[i]] >= p[q[j]]
    BY <1>4, <1>5, <2>1
  <2> QED
    BY <1>4, <2>1, <2>2
<1>7. ASSUME NEW x \in 1..Len(q)+1, NEW y \in 1..Len(q)+1, x < y
      PROVE  p[r[x]] >= p[r[y]]
  <2>1. CASE y < i
    <3>1. x \in 1..i-1 /\ y \in 1..i-1 /\ x \in 1..Len(q) /\ y \in 1..Len(q)
      BY <1>7, <2>1
    <3> QED
      BY <1>2, <1>5, <1>7, <3>1
  <2>2. CASE y = i
    <3>1. x \in 1..i-1
      BY <1>7, <2>2
    <3> QED
      BY <1>1, <1>2, <2>2, <3>1
  <2>3. CASE y > i /\ x < i
    <3>1. x \in 1..i-1 /\ y \in i+1..Len(q)+1 /\ y - 1 \in i..Len(q)
          /\ x \in 1..Len(q) /\ y - 1 \in 1..Len(q)
      BY <2>3
    <3>2. p[q[x]] >= p[t] /\ p[q[y - 1]] < p[t]
      BY <1>1, <1>6, <3>1
    <3>3. p[q[x]] \in Nat /\ p[q[y - 1]] \in Nat /\ p[t] \in Nat
      BY <1>4, <3>1
    <3>4. r[x] = q[x] /\ r[y] = q[y - 1]
      BY <1>2, <3>1
    <3> QED
      BY <3>2, <3>3, <3>4
  <2>4. CASE y > i /\ x = i
    <3>1. y \in i+1..Len(q)+1 /\ y - 1 \in i..Len(q) /\ y - 1 \in 1..Len(q)
      BY <2>4
    <3>2. p[q[y - 1]] < p[t] /\ p[q[y - 1]] \in Nat /\ p[t] \in Nat
      BY <1>4, <1>6, <3>1
    <3>3. r[x] = t /\ r[y] = q[y - 1]
      BY <1>2, <2>4, <3>1
    <3> QED
      BY <3>2, <3>3
  <2>5. CASE y > i /\ x > i
    <3>1. /\ x \in i+1..Len(q)+1 /\ y \in i+1..Len(q)+1
          /\ x - 1 \in 1..Len(q) /\ y - 1 \in 1..Len(q) /\ x - 1 < y - 1
      BY <1>7, <2>5
    <3>2. r[x] = q[x - 1] /\ r[y] = q[y - 1]
      BY <1>2, <3>1
    <3>3. p[q[x - 1]] >= p[q[y - 1]]
      BY <1>5, <3>1
    <3> QED
      BY <3>2, <3>3
  <2> QED
    BY <2>1, <2>2, <2>3, <2>4, <2>5
<1> QED
  BY <1>3, <1>7 DEF Descending, r

LEMMA DescendingHead ==
  ASSUME NEW S, NEW q \in Seq(S), NEW p \in [S -> Nat], Descending(q, p), NEW w \in ToSet(q)
  PROVE  p[Head(q)] >= p[w]
<1>1. DOMAIN q = 1..Len(q)
  OBVIOUS
<1>2. PICK i \in 1..Len(q) : w = q[i]
  BY <1>1 DEF ToSet
<1>3. Head(q) = q[1] /\ 1 \in 1..Len(q) /\ q[1] \in S /\ q[i] \in S
  BY <1>2
<1>4. i = 1 \/ 1 < i
  BY <1>2
<1>5. 1 < i => p[q[1]] >= p[q[i]]
  BY <1>1, <1>3 DEF Descending
<1> QED
  BY <1>2, <1>3, <1>4, <1>5

LEMMA DescendingTail ==
  ASSUME NEW S, NEW q \in Seq(S), NEW p, Descending(q, p), q # <<>>
  PROVE  Descending(Tail(q), p)
<1>1. DOMAIN q = 1..Len(q) /\ Len(q) \in Nat /\ Len(q) >= 1
  OBVIOUS
<1>2. /\ DOMAIN Tail(q) = 1..Len(q)-1
      /\ \A i \in 1..Len(q)-1 : Tail(q)[i] = q[i + 1]
  OBVIOUS
<1>3. ASSUME NEW x \in 1..Len(q)-1, NEW y \in 1..Len(q)-1, x < y
      PROVE  p[Tail(q)[x]] >= p[Tail(q)[y]]
  <2>1. x + 1 \in 1..Len(q) /\ y + 1 \in 1..Len(q) /\ x + 1 < y + 1
    BY <1>1, <1>3
  <2> QED
    BY <1>1, <1>2, <2>1 DEF Descending
<1> QED
  BY <1>2, <1>3 DEF Descending

LEMMA DescendingDequeue ==
  ASSUME NEW S, NEW q \in Seq(S), NEW p, Descending(q, p), NEW t \in ToSet(q)
  PROVE  Descending(Dequeue(q, t), p)
<1> DEFINE r == Dequeue(q, t)
<1>1. PICK i \in 1..Len(q) : q[i] = t /\ Without(S, q, i, r)
  BY DequeuePlaces
<1> HIDE DEF r
<1>2. /\ r \in Seq(S) /\ Len(r) = Len(q) - 1
      /\ \A j \in 1..(i - 1) : r[j] = q[j]
      /\ \A j \in i..(Len(q) - 1) : r[j] = q[j + 1]
  BY <1>1 DEF Without
<1>3. DOMAIN r = 1..Len(q)-1 /\ DOMAIN q = 1..Len(q)
  BY <1>2
<1> DEFINE f(z) == IF z < i THEN z ELSE z + 1
<1>4. ASSUME NEW z \in 1..Len(q)-1
      PROVE  f(z) \in 1..Len(q) /\ r[z] = q[f(z)]
  BY <1>2
<1>5. ASSUME NEW x \in 1..Len(q)-1, NEW y \in 1..Len(q)-1, x < y
      PROVE  p[r[x]] >= p[r[y]]
  <2>1. f(x) < f(y)
    BY <1>5
  <2> HIDE DEF f
  <2> QED
    BY <1>3, <1>4, <2>1 DEF Descending
<1> QED
  BY <1>3, <1>5 DEF Descending, r

\* Only the priorities of the threads in the queue matter.
LEMMA DescendingSame ==
  ASSUME NEW q, NEW p, NEW p2, Descending(q, p), \A t \in ToSet(q) : p2[t] = p[t]
  PROVE  Descending(q, p2)
<1>1. \A i \in DOMAIN q : q[i] \in ToSet(q)
  BY DEF ToSet
<1> QED
  BY <1>1 DEF Descending

\* One that is not less urgent than the others goes in front.
LEMMA DescendingPush ==
  ASSUME NEW S, NEW q \in Seq(S), NEW t \in S, NEW p \in [S -> Nat], Descending(q, p),
         \A w \in ToSet(q) : p[w] <= p[t]
  PROVE  Descending(<<t>> \o q, p)
<1> DEFINE r == <<t>> \o q
<1>1. /\ Len(r) = Len(q) + 1 /\ DOMAIN r = 1..Len(q)+1 /\ r[1] = t
      /\ \A i \in 2..Len(q)+1 : r[i] = q[i - 1]
  OBVIOUS
<1>2. Len(q) \in Nat /\ DOMAIN q = 1..Len(q) /\ \A i \in 1..Len(q) : q[i] \in S /\ q[i] \in ToSet(q)
  BY DEF ToSet
<1> HIDE DEF r
<1>3. ASSUME NEW i \in DOMAIN r, NEW j \in DOMAIN r, i < j PROVE p[r[i]] >= p[r[j]]
  <2>1. j \in 2..Len(q)+1 /\ j - 1 \in 1..Len(q) /\ r[j] = q[j - 1]
    BY <1>1, <1>2, <1>3
  <2>2. CASE i = 1
    <3>1. p[q[j - 1]] <= p[t] /\ p[q[j - 1]] \in Nat /\ p[t] \in Nat
      BY <1>2, <2>1
    <3> QED
      BY <1>1, <2>1, <2>2, <3>1
  <2>3. CASE i # 1
    <3>1. i \in 2..Len(q)+1 /\ i - 1 \in 1..Len(q) /\ r[i] = q[i - 1] /\ i - 1 < j - 1
      BY <1>1, <1>2, <1>3, <2>3
    <3> QED
      BY <1>2, <2>1, <3>1 DEF Descending
  <2> QED
    BY <2>2, <2>3
<1> QED
  BY <1>3 DEF Descending, r

-----------------------------------------------------------------------------
\* What stays of a queue that several threads leave: the running results of
\* the search, one for each prefix of the queue.
Keeps(q, S, n, f) ==
  f = [i \in 0..n |-> IF i = 0 THEN <<>>
                      ELSE IF q[i] \in S THEN Append(f[i - 1], q[i]) ELSE f[i - 1]]

LEMMA KeepsStep ==
  ASSUME NEW q, NEW S, NEW k \in Nat, k # 0, NEW f, Keeps(q, S, k - 1, f)
  PROVE  \E g : Keeps(q, S, k, g)
<1> DEFINE value == IF q[k] \in S THEN Append(f[k - 1], q[k]) ELSE f[k - 1]
           g == [i \in 0..k |-> IF i = k THEN value ELSE f[i]]
<1>1. \A i \in 0..k : i # k => i \in 0..k - 1
  OBVIOUS
<1>2. \A i \in 0..k - 1 : g[i] = f[i]
  OBVIOUS
<1>3. \A i \in 0..k - 1 : f[i] = IF i = 0 THEN <<>>
                                 ELSE IF q[i] \in S THEN Append(f[i - 1], q[i]) ELSE f[i - 1]
  BY DEF Keeps
<1>4. g[k] = value
  OBVIOUS
<1>5. ASSUME NEW i \in 0..k
      PROVE  g[i] = IF i = 0 THEN <<>>
                    ELSE IF q[i] \in S THEN Append(g[i - 1], q[i]) ELSE g[i - 1]
  <2>1. i # 0 => i - 1 \in 0..k - 1
    OBVIOUS
  <2>2. CASE i = k
    <3> HIDE DEF g
    <3> QED
      BY <1>2, <1>4, <2>1, <2>2
  <2>3. CASE i # k
    <3>1. i \in 0..k - 1
      BY <1>1, <2>3
    <3> HIDE DEF g
    <3> QED
      BY <1>2, <1>3, <2>1, <3>1
  <2> QED
    BY <2>2, <2>3
<1>6. g = [i \in 0..k |-> g[i]]
  OBVIOUS
<1> HIDE DEF g
<1>7. Keeps(q, S, k, g)
  BY <1>5, <1>6 DEF Keeps
<1> QED
  BY <1>7

\* Each prefix has a result; the shortest that had none would extend one.
LEMMA KeepsExist ==
  ASSUME NEW q, NEW S, NEW n \in Nat
  PROVE  \E f : Keeps(q, S, n, f)
<1> DEFINE Missing(k) == \A f : ~Keeps(q, S, k, f)
           T == {k \in 0..n : Missing(k)}
<1> SUFFICES ASSUME Missing(n) PROVE FALSE
  OBVIOUS
<1>1. PICK k \in T : \A l \in T : k <= l
  <2>1. T \in SUBSET Nat /\ n \in T
    OBVIOUS
  <2> HIDE DEF T
  <2> QED
    BY <2>1, Smallest
<1>2. k \in 0..n /\ Missing(k) /\ \A l \in 0..n : Missing(l) => k <= l
  BY <1>1
<1>3. k # 0
  <2> SUFFICES ASSUME k = 0 PROVE FALSE
    OBVIOUS
  <2> DEFINE f == [i \in 0..0 |-> <<>>]
  <2>1. Keeps(q, S, 0, f)
    BY DEF Keeps
  <2> QED
    BY <1>2, <2>1
<1>4. k - 1 \in 0..n /\ ~(k <= k - 1) /\ k \in Nat
  BY <1>2, <1>3
<1>5. PICK f : Keeps(q, S, k - 1, f)
  BY <1>2, <1>4
<1> HIDE DEF Missing, T
<1>6. \E g : Keeps(q, S, k, g)
  BY <1>3, <1>4, <1>5, KeepsStep
<1> QED
  BY <1>2, <1>6 DEF Missing

\* The threads that stay are threads of the queue.
LEMMA StillInType ==
  ASSUME NEW A, NEW q \in Seq(A), NEW S
  PROVE  StillIn(q, S) \in Seq(A)
<1> DEFINE n == Len(q)
<1>1. n \in Nat /\ \A i \in 1..n : q[i] \in A
  OBVIOUS
<1>2. PICK f : Keeps(q, S, n, f) /\ StillIn(q, S) = f[n]
  <2> DEFINE f == CHOOSE kept : Keeps(q, S, n, kept)
  <2>1. Keeps(q, S, n, f)
    BY <1>1, KeepsExist
  <2>2. StillIn(q, S) = f[n]
    BY DEF StillIn, Keeps
  <2> QED
    BY <2>1, <2>2
<1> HIDE DEF n
<1>3. \A i \in 0..n : f[i] = IF i = 0 THEN <<>>
                             ELSE IF q[i] \in S THEN Append(f[i - 1], q[i]) ELSE f[i - 1]
  BY <1>2 DEF Keeps
<1> DEFINE T == {i \in 0..n : f[i] \notin Seq(A)}
<1>4. T = {}
  <2> SUFFICES ASSUME T # {} PROVE FALSE
    OBVIOUS
  <2>1. T \in SUBSET Nat /\ \A i \in 0..n : i \in T <=> f[i] \notin Seq(A)
    BY <1>1
  <2>2. PICK k \in T : \A l \in T : k <= l
    <3> HIDE DEF T
    <3> QED
      BY <2>1, Smallest
  <2>3. k \in 0..n /\ f[k] \notin Seq(A) /\ k # 0
    <3>1. k \in 0..n /\ f[k] \notin Seq(A)
      BY <2>1, <2>2
    <3>2. k = 0 => f[k] = <<>>
      BY <1>3, <3>1
    <3>3. <<>> \in Seq(A)
      OBVIOUS
    <3> QED
      BY <3>1, <3>2, <3>3
  <2>4. k \in 1..n /\ k - 1 \in 0..n /\ ~(k <= k - 1)
    BY <1>1, <2>3
  <2> HIDE DEF T
  <2>5. f[k - 1] \in Seq(A) /\ q[k] \in A
    BY <1>1, <2>1, <2>2, <2>4
  <2> DEFINE r == f[k - 1]
             x == q[k]
  <2>6. f[k] = IF x \in S THEN Append(r, x) ELSE r
    BY <1>3, <2>3
  <2> HIDE DEF r, x
  <2>7. Append(r, x) \in Seq(A)
    BY <2>5 DEF r, x
  <2> QED
    BY <2>3, <2>5, <2>6, <2>7 DEF r
<1> QED
  BY <1>1, <1>2, <1>4

\* The running results of a longer queue begin with those of a shorter one.
LEMMA KeepsPrefix ==
  ASSUME NEW q, NEW r, NEW S, NEW n \in Nat, NEW f, NEW g,
         Keeps(q, S, n, f), Keeps(r, S, n + 1, g), \A i \in 1..n : r[i] = q[i]
  PROVE  g[n] = f[n]
<1>1. \A i \in 0..n : f[i] = IF i = 0 THEN <<>>
                             ELSE IF q[i] \in S THEN Append(f[i - 1], q[i]) ELSE f[i - 1]
  BY DEF Keeps
<1>2. \A i \in 0..n + 1 : g[i] = IF i = 0 THEN <<>>
                                 ELSE IF r[i] \in S THEN Append(g[i - 1], r[i]) ELSE g[i - 1]
  BY DEF Keeps
<1> DEFINE T == {i \in 0..n : g[i] # f[i]}
<1> SUFFICES ASSUME T # {} PROVE FALSE
  BY DEF T
<1>3. T \in SUBSET Nat /\ \A i \in 0..n : i \in T <=> g[i] # f[i]
  OBVIOUS
<1>4. PICK k \in T : \A l \in T : k <= l
  <2> HIDE DEF T
  <2> QED
    BY <1>3, Smallest
<1>5. k \in 0..n /\ k \in 0..n + 1 /\ g[k] # f[k]
  BY <1>3, <1>4
<1> HIDE DEF T
<1>6. k # 0
  BY <1>1, <1>2, <1>5
<1>7. k \in 1..n /\ k - 1 \in 0..n /\ ~(k <= k - 1)
  BY <1>5, <1>6
<1>8. g[k - 1] = f[k - 1] /\ r[k] = q[k]
  BY <1>3, <1>4, <1>7
<1>9. f[k] = IF q[k] \in S THEN Append(f[k - 1], q[k]) ELSE f[k - 1]
  BY <1>1, <1>5, <1>6
<1>10. g[k] = IF r[k] \in S THEN Append(g[k - 1], r[k]) ELSE g[k - 1]
  BY <1>2, <1>5, <1>6
<1> QED
  BY <1>5, <1>8, <1>9, <1>10

LEMMA StillInResult ==
  ASSUME NEW q, NEW S, Len(q) \in Nat
  PROVE  \E f : Keeps(q, S, Len(q), f) /\ StillIn(q, S) = f[Len(q)]
<1> DEFINE f == CHOOSE kept : Keeps(q, S, Len(q), kept)
<1>1. Keeps(q, S, Len(q), f)
  BY KeepsExist
<1>2. StillIn(q, S) = f[Len(q)]
  BY DEF StillIn, Keeps
<1> QED
  BY <1>1, <1>2

LEMMA StillInEmpty ==
  ASSUME NEW S
  PROVE  StillIn(<<>>, S) = <<>>
<1>1. Len(<<>>) = 0 /\ 0 \in Nat
  OBVIOUS
<1>2. PICK f : Keeps(<<>>, S, 0, f) /\ StillIn(<<>>, S) = f[0]
  BY <1>1, StillInResult
<1>3. f[0] = <<>>
  BY <1>2 DEF Keeps
<1> QED
  BY <1>2, <1>3

\* One more at the end of the queue stays or not.
LEMMA StillInAppend ==
  ASSUME NEW A, NEW q \in Seq(A), NEW x \in A, NEW S
  PROVE  StillIn(Append(q, x), S) = IF x \in S THEN Append(StillIn(q, S), x) ELSE StillIn(q, S)
<1> DEFINE r == Append(q, x)
           n == Len(q)
<1>1. n \in Nat /\ n + 1 \in Nat /\ Len(r) = n + 1 /\ r[n + 1] = x /\ \A i \in 1..n : r[i] = q[i]
  OBVIOUS
<1>2. PICK f : Keeps(q, S, n, f) /\ StillIn(q, S) = f[n]
  BY <1>1, StillInResult
<1> HIDE DEF r
<1>3. PICK g : Keeps(r, S, n + 1, g) /\ StillIn(r, S) = g[n + 1]
  BY <1>1, StillInResult
<1> HIDE DEF n
<1>4. g[n] = f[n]
  BY <1>1, <1>2, <1>3, KeepsPrefix
<1>5. n + 1 \in 0..n + 1 /\ n + 1 # 0 /\ (n + 1) - 1 = n
  BY <1>1
<1>6. g[n + 1] = IF r[n + 1] \in S THEN Append(g[n], r[n + 1]) ELSE g[n]
  <2> DEFINE m == n + 1
  <2>1. m \in 0..m /\ m # 0 /\ m - 1 = n
    BY <1>5
  <2> HIDE DEF m
  <2>2. Keeps(r, S, m, g)
    BY <1>3 DEF m
  <2>3. g[m] = IF m = 0 THEN <<>> ELSE IF r[m] \in S THEN Append(g[m - 1], r[m]) ELSE g[m - 1]
    BY <2>1, <2>2 DEF Keeps
  <2> QED
    BY <2>1, <2>3 DEF m
<1> QED
  BY <1>1, <1>2, <1>3, <1>4, <1>6 DEF r

=============================================================================
