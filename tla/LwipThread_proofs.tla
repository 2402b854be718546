------------------------- MODULE LwipThread_proofs --------------------------
(***************************************************************************)
(* What holds of the lwIP thread and the driver for rings of any size, a   *)
(* mailbox of any size, any number of buffers and any time-out.            *)
(***************************************************************************)
EXTENDS LwipThread, Queues_proofs

-----------------------------------------------------------------------------
(***************************************************************************)
(* The driver's rings, for any number of descriptors and of senders.       *)
(***************************************************************************)

\* Runs of descriptors.

LEMMA RunInRing ==
  ASSUME NEW N \in Nat \ {0}, NEW i \in 0..N-1, NEW n \in 0..N
  PROVE  Run(i, n, N) \subseteq 0..N-1
  BY Place DEF Run

\* A run less than a full turn does not hold the descriptor behind it.
LEMMA RunEnd ==
  ASSUME NEW N \in Nat \ {0}, NEW i \in 0..N-1, NEW n \in 0..N-1
  PROVE  /\ (i + n) % N \notin Run(i, n, N)
         /\ Run(i, n + 1, N) = Run(i, n, N) \cup {(i + n) % N}
<1>1. (i + n) % N \notin Run(i, n, N)
  BY Apart DEF Run
<1>2. 0..(n + 1)-1 = (0..n-1) \cup {n}
  OBVIOUS
<1> QED
  BY <1>1, <1>2 DEF Run

\* A full turn is the whole ring.
LEMMA RunFull ==
  ASSUME NEW N \in Nat \ {0}, NEW i \in 0..N-1
  PROVE  Run(i, N, N) = 0..N-1
<1>1. ASSUME NEW j \in 0..N-1 PROVE j \in Run(i, N, N)
  <2> DEFINE k == IF j >= i THEN j - i ELSE j + N - i
  <2>1. k \in 0..N-1 /\ (i + k) % N = j
    BY Place
  <2> QED
    BY <2>1 DEF Run
<1>2. Run(i, N, N) \subseteq 0..N-1
  <2>1. N \in 0..N
    OBVIOUS
  <2> QED
    BY <2>1, RunInRing
<1> QED
  BY <1>1, <1>2

\* What is left of a run without its first k descriptors.
LEMMA RunDrop ==
  ASSUME NEW N \in Nat \ {0}, NEW i \in 0..N-1, NEW n \in 0..N, NEW k \in 0..n
  PROVE  Run(i, n, N) \ Run(i, k, N) = Run((i + k) % N, n - k, N)
<1> DEFINE l == (i + k) % N
<1>0. l \in 0..N-1
  BY Place
<1>1. ASSUME NEW m \in 0..n-k PROVE (l + m) % N = (i + (k + m)) % N
  <2>1. k \in 0..N /\ m \in 0..N /\ k + m <= N
    OBVIOUS
  <2> QED
    BY <2>1, Onward
<1> HIDE DEF l
<1>2. ASSUME NEW x \in Run(i, n, N) \ Run(i, k, N) PROVE x \in Run(l, n - k, N)
  <2>1. PICK a \in 0..n-1 : x = (i + a) % N
    BY DEF Run
  <2>2. a >= k
    BY <2>1, <1>2 DEF Run
  <2> DEFINE b == a - k
  <2>3. b \in 0..n-k /\ b \in 0..(n-k)-1 /\ k + b = a
    BY <2>1, <2>2
  <2> HIDE DEF b
  <2>4. x = (l + b) % N
    BY <2>1, <2>3, <1>1
  <2> QED
    BY <2>3, <2>4 DEF Run
<1>3. ASSUME NEW x \in Run(l, n - k, N) PROVE x \in Run(i, n, N) \ Run(i, k, N)
  <2>1. PICK m \in 0..(n-k)-1 : x = (l + m) % N
    BY DEF Run
  <2>m. m \in 0..n-k /\ k + m \in 0..n-1 /\ k + m \in 0..N-1
    BY <2>1
  <2>2. x = (i + (k + m)) % N
    BY <1>1, <2>1, <2>m
  <2>3. x \in Run(i, n, N)
    BY <2>2, <2>m DEF Run
  <2>4. ASSUME NEW a \in 0..k-1, (i + a) % N = x PROVE FALSE
    <3>1. a \in 0..N-1 /\ a # k + m
      BY <2>m
    <3> QED
      BY <2>2, <2>4, <2>m, <3>1, Apart
  <2> QED
    BY <2>3, <2>4 DEF Run
<1>5. Run(i, n, N) \ Run(i, k, N) = Run(l, n - k, N)
  BY <1>2, <1>3
<1> QED
  BY <1>5 DEF l

\* The first descriptor leaves a run.
LEMMA RunFirst ==
  ASSUME NEW N \in Nat \ {0}, NEW i \in 0..N-1, NEW n \in 1..N
  PROVE  /\ Run(i, n, N) \ {i} = Run((i + 1) % N, n - 1, N)
         /\ (((i + 1) % N) + (n - 1)) % N = (i + n) % N
<1>1. Run(i, 1, N) = {i}
  <2>1. 0..1-1 = {0} /\ (i + 0) % N = i
    BY Place
  <2> QED
    BY <2>1 DEF Run
<1>2. Run(i, n, N) \ Run(i, 1, N) = Run((i + 1) % N, n - 1, N)
  <2>1. 1 \in 0..n /\ n \in 0..N
    OBVIOUS
  <2> QED
    BY <2>1, RunDrop
<1>3. (((i + 1) % N) + (n - 1)) % N = (i + n) % N
  <2>1. 1 \in 0..N /\ n - 1 \in 0..N /\ 1 + (n - 1) = n
    OBVIOUS
  <2> QED
    BY <2>1, Onward
<1> QED
  BY <1>1, <1>2, <1>3

LEMMA RunSize ==
  ASSUME NEW N \in Nat \ {0}, NEW i \in 0..N-1, NEW n \in 0..N
  PROVE  Cardinality(Run(i, n, N)) = n
<1> DEFINE f == [k \in 0..n-1 |-> (i + k) % N]
<1>1. f \in Injection(0..n-1, Run(i, n, N))
  <2>1. \A k \in 0..n-1 : f[k] \in Run(i, n, N)
    BY DEF Run
  <2>2. ASSUME NEW j \in 0..n-1, NEW k \in 0..n-1, f[j] = f[k] PROVE j = k
    <3>1. j \in 0..N-1 /\ k \in 0..N-1 /\ (i + j) % N = (i + k) % N
      BY <2>2
    <3> QED
      BY <3>1, Apart
  <2> HIDE DEF f
  <2>3. f \in [0..n-1 -> Run(i, n, N)]
    BY <2>1 DEF f
  <2> QED
    BY <2>2, <2>3 DEF Injection, IsInjective
<1>2. f \in Surjection(0..n-1, Run(i, n, N))
  BY <1>1 DEF Surjection, Injection, Run
<1>3. IsFiniteSet(0..n-1) /\ Cardinality(0..n-1) = n
  BY FS_Interval
<1> HIDE DEF f
<1>4. Cardinality(Run(i, n, N)) = Cardinality(0..n-1)
  BY <1>1, <1>2, <1>3, FS_Surjection
<1> QED
  BY <1>3, <1>4

-----------------------------------------------------------------------------
\* What mac_lld_get_receive_descriptor discards.

LEMMA PurgedIsRun ==
  ASSUME RXN \in Nat \ {0}, rxptr \in 0..RXN-1
  PROVE  /\ Cardinality(Purged) \in 0..RXN
         /\ Purged = Run(rxptr, Cardinality(Purged), RXN)
         /\ \A k \in 0..Cardinality(Purged)-1 : rx[(rxptr + k) % RXN] = "BAD"
         /\ Cardinality(Purged) < RXN => rx[Found] # "BAD"
<1> DEFINE good == {k \in 0..RXN-1 : rx[(rxptr + k) % RXN] # "BAD"}
<1>1. PICK K \in 0..RXN : /\ \A k \in 0..K-1 : rx[(rxptr + k) % RXN] = "BAD"
                          /\ K < RXN => rx[(rxptr + K) % RXN] # "BAD"
  <2>1. CASE good = {}
    <3>1. \A k \in 0..RXN-1 : rx[(rxptr + k) % RXN] = "BAD"
      BY <2>1
    <3>2. RXN \in 0..RXN
      OBVIOUS
    <3>3. ~(RXN < RXN)
      OBVIOUS
    <3> WITNESS RXN \in 0..RXN
    <3> QED
      BY <3>1, <3>3
  <2>2. CASE good # {}
    <3>1. PICK K \in good : \A k \in good : K <= k
      <4>1. good \in SUBSET Nat
        OBVIOUS
      <4> HIDE DEF good
      <4> QED
        BY <2>2, <4>1, Smallest
    <3>2. K \in 0..RXN-1 /\ rx[(rxptr + K) % RXN] # "BAD"
      BY <3>1
    <3>3. ASSUME NEW k \in 0..K-1 PROVE rx[(rxptr + k) % RXN] = "BAD"
      <4>1. k \in 0..RXN-1 /\ ~(K <= k)
        BY <3>2
      <4>2. k \notin good
        BY <3>1, <4>1
      <4> QED
        BY <4>1, <4>2
    <3>4. K \in 0..RXN
      BY <3>2
    <3> WITNESS K \in 0..RXN
    <3> QED
      BY <3>2, <3>3
  <2> QED
    BY <2>1, <2>2
<1>2. Purged = Run(rxptr, K, RXN)
  <2> DEFINE long == {k \in 0..RXN-1 : \A j \in 0..k : rx[(rxptr + j) % RXN] = "BAD"}
  <2>1. long = 0..K-1
    <3>1. ASSUME NEW k \in long PROVE k \in 0..K-1
      <4>1. CASE K <= k
        <5>1. K \in 0..k /\ K < RXN
          BY <4>1
        <5> QED
          BY <1>1, <5>1
      <4> QED
        BY <4>1
    <3>2. ASSUME NEW k \in 0..K-1 PROVE k \in long
      <4>1. k \in 0..RXN-1 /\ \A j \in 0..k : j \in 0..K-1
        OBVIOUS
      <4> QED
        BY <1>1, <4>1
    <3> QED
      BY <3>1, <3>2
  <2>2. Purged = {(rxptr + k) % RXN : k \in long}
    BY DEF Purged
  <2> QED
    BY <2>1, <2>2 DEF Run
<1>3. Cardinality(Purged) = K
  BY <1>2, RunSize
<1> QED
  BY <1>1, <1>2, <1>3 DEF Found

-----------------------------------------------------------------------------
\* The receive ring.

RxInv ==
  /\ rx \in [0..RXN-1 -> {"DMA", "FRAME", "BAD"}]
  /\ rxptr \in 0..RXN-1 /\ rxdma \in 0..RXN-1
  /\ held \subseteq 0..RXN-1
  /\ \A i \in held : rx[i] # "DMA"
  /\ \E n \in 0..RXN : /\ (rxptr + n) % RXN = rxdma
                       /\ {i \in 0..RXN-1 : rx[i] # "DMA"} \ held = Run(rxptr, n, RXN)

LEMMA RxKept ==
  ASSUME RxInv, UNCHANGED rxring
  PROVE  RxInv'
  BY DEF RxInv, rxring, Run

LEMMA RxFrameKeeps ==
  ASSUME MacAssumption, RxInv, NEW kind \in {"FRAME", "BAD"}, RxFrame(kind)
  PROVE  RxInv'
<1> USE DEF MacAssumption, RxInv, RxFrame
<1> DEFINE mine == {i \in 0..RXN-1 : rx[i] # "DMA"} \ held
<1>1. PICK n \in 0..RXN : (rxptr + n) % RXN = rxdma /\ mine = Run(rxptr, n, RXN)
  OBVIOUS
<1>2. n # RXN
  <2>1. SUFFICES ASSUME n = RXN PROVE FALSE
    OBVIOUS
  <2>2. rxdma \in mine
    BY <1>1, <2>1, RunFull
  <2> QED
    BY <2>2
<1>3. n \in 0..RXN-1 /\ n + 1 \in 0..RXN
  BY <1>2
<1>4. Run(rxptr, n + 1, RXN) = mine \cup {rxdma}
  BY <1>1, <1>3, RunEnd
<1>5. (rxptr + (n + 1)) % RXN = rxdma'
  <2>1. 1 \in 0..RXN /\ n \in 0..RXN /\ n + 1 <= RXN
    BY <1>3
  <2>2. (((rxptr + n) % RXN) + 1) % RXN = (rxptr + (n + 1)) % RXN
    BY <2>1, Onward
  <2> QED
    BY <1>1, <2>2 DEF NextRx
<1>6. {i \in 0..RXN-1 : rx'[i] # "DMA"} \ held' = mine \cup {rxdma}
  OBVIOUS
<1>7. rxdma' \in 0..RXN-1
  BY DEF NextRx
<1>8. \A i \in held : rx'[i] # "DMA"
  OBVIOUS
<1> HIDE DEF mine
<1>9. \E k \in 0..RXN : /\ (rxptr' + k) % RXN = rxdma'
                        /\ {i \in 0..RXN-1 : rx'[i] # "DMA"} \ held' = Run(rxptr', k, RXN)
  BY <1>3, <1>4, <1>5, <1>6
<1> QED
  BY <1>7, <1>8, <1>9

\* One frame is looked for at a time: what is found is handed out, and if
\* nothing is found the descriptor the search ends at is the DMA's.
LEMMA GetReceiveKeeps ==
  ASSUME MacAssumption, RxInv, held = {}, GetReceiveDescriptor
  PROVE  /\ RxInv'
         /\ held' = {} => rx'[rxptr'] = "DMA"
         /\ held' # {} => \E i \in 0..RXN-1 : held' = {i}
<1> DEFINE mine == {i \in 0..RXN-1 : rx[i] # "DMA"}
           K == Cardinality(Purged)
           left == {i \in 0..RXN-1 : rx'[i] # "DMA"}
<1>0. /\ RXN \in Nat \ {0}
      /\ rx \in [0..RXN-1 -> {"DMA", "FRAME", "BAD"}]
      /\ rxptr \in 0..RXN-1 /\ rxdma \in 0..RXN-1
      /\ rxdma' = rxdma
      /\ rx' = [i \in 0..RXN-1 |-> IF i \in Purged THEN "DMA" ELSE rx[i]]
  BY DEF MacAssumption, RxInv, GetReceiveDescriptor
<1>1. PICK n \in 0..RXN : (rxptr + n) % RXN = rxdma /\ mine = Run(rxptr, n, RXN)
  <2>1. mine = {i \in 0..RXN-1 : rx[i] # "DMA"} \ held
    OBVIOUS
  <2> HIDE DEF mine
  <2> QED
    BY <2>1 DEF RxInv
<1>2. /\ K \in 0..RXN
      /\ Purged = Run(rxptr, K, RXN)
      /\ \A k \in 0..K-1 : rx[(rxptr + k) % RXN] = "BAD"
      /\ K < RXN => rx[Found] # "BAD"
      /\ Found = (rxptr + K) % RXN
  BY <1>0, PurgedIsRun DEF Found
<1> HIDE DEF K
<1>3. Found \in 0..RXN-1
  BY <1>0, <1>2, Place
<1>4. K <= n
  <2> SUFFICES ASSUME n < K PROVE FALSE
    BY <1>2
  <2>1. n \in 0..RXN-1 /\ n \in 0..K-1
    BY <1>2
  <2>2. (rxptr + n) % RXN \notin mine
    BY <1>0, <1>1, <2>1, RunEnd
  <2>3. (rxptr + n) % RXN \in 0..RXN-1
    BY <1>0, <2>1
  <2> QED
    BY <1>2, <2>1, <2>2, <2>3
<1>5. /\ left = Run(Found, n - K, RXN)
      /\ (Found + (n - K)) % RXN = rxdma
  <2>1. left = mine \ Purged
    BY <1>0
  <2>2. K \in 0..n
    BY <1>2, <1>4
  <2>3. Run(rxptr, n, RXN) \ Run(rxptr, K, RXN) = Run(Found, n - K, RXN)
    BY <1>0, <1>2, <2>2, RunDrop
  <2>4. (Found + (n - K)) % RXN = (rxptr + n) % RXN
    <3> DEFINE b == n - K
    <3>1. K \in 0..RXN /\ b \in 0..RXN /\ K + b = n
      BY <2>2
    <3> HIDE DEF b
    <3>2. (((rxptr + K) % RXN) + b) % RXN = (rxptr + (K + b)) % RXN
      <4>1. RXN \in Nat \ {0} /\ rxptr \in 0..RXN-1 /\ K \in 0..RXN /\ b \in 0..RXN /\ K + b <= RXN
        BY <1>0, <3>1
      <4> QED
        BY ONLY <4>1, Onward
    <3>3. (Found + b) % RXN = (rxptr + n) % RXN
      BY <1>2, <3>1, <3>2
    <3> QED
      BY <3>3 DEF b
  <2> QED
    BY <1>1, <1>2, <2>1, <2>3, <2>4
<1>6. rx'[Found] # "BAD"
  <2>1. CASE K < RXN
    BY <1>0, <1>2, <1>3, <2>1
  <2>2. CASE K = RXN
    <3>1. Found \in Purged
      BY <1>0, <1>2, <1>3, <2>2, RunFull
    <3> QED
      BY <1>0, <1>3, <3>1
  <2> QED
    BY <1>2, <2>1, <2>2
<1>7. rx' \in [0..RXN-1 -> {"DMA", "FRAME", "BAD"}]
  BY <1>0
<1>8. n - K \in 0..RXN
  BY <1>2, <1>4
<1>9. CASE rx'[Found] = "FRAME"
  <2>1. held' = {Found} /\ rxptr' = NextRx(Found)
    BY <1>9 DEF GetReceiveDescriptor
  <2>2. n - K \in 1..RXN
    <3>1. Found \in left
      BY <1>3, <1>9
    <3>2. n - K # 0
      BY <1>5, <3>1 DEF Run
    <3> QED
      BY <1>8, <3>2
  <2>3. left \ {Found} = Run((Found + 1) % RXN, n - K - 1, RXN)
    BY <1>0, <1>3, <1>5, <2>2, RunFirst
  <2>4. (((Found + 1) % RXN) + (n - K - 1)) % RXN = rxdma
    BY <1>0, <1>3, <1>5, <2>2, RunFirst
  <2>5. rxptr' \in 0..RXN-1 /\ n - K - 1 \in 0..RXN
    BY <1>0, <1>3, <2>1, <2>2 DEF NextRx
  <2>6. \A i \in held' : rx'[i] # "DMA"
    BY <1>9, <2>1
  <2>7. left \ held' = Run(rxptr', n - K - 1, RXN) /\ (rxptr' + (n - K - 1)) % RXN = rxdma'
    BY <1>0, <2>1, <2>3, <2>4 DEF NextRx
  <2>8. held' \subseteq 0..RXN-1
    BY <1>3, <2>1
  <2>9. RxInv'
    BY <1>0, <1>7, <2>5, <2>6, <2>7, <2>8 DEF RxInv
  <2> QED
    BY <1>3, <2>1, <2>9
<1>10. CASE rx'[Found] # "FRAME"
  <2>1. held' = {} /\ rxptr' = Found
    BY <1>10 DEF GetReceiveDescriptor
  <2>2. rx'[Found] = "DMA"
    BY <1>3, <1>6, <1>7, <1>10
  <2>3. left \ held' = Run(rxptr', n - K, RXN) /\ (rxptr' + (n - K)) % RXN = rxdma'
    BY <1>0, <1>5, <2>1
  <2>4. RxInv'
    BY <1>0, <1>3, <1>7, <1>8, <2>1, <2>3 DEF RxInv
  <2> QED
    BY <2>1, <2>2, <2>4
<1> QED
  BY <1>9, <1>10

LEMMA ReleaseReceiveKeeps ==
  ASSUME RxInv, NEW i \in held, ReleaseReceiveDescriptor(i)
  PROVE  RxInv'
<1> DEFINE mine == {j \in 0..RXN-1 : rx[j] # "DMA"} \ held
<1>1. i \in 0..RXN-1 /\ i \notin mine
  BY DEF RxInv
<1>2. {j \in 0..RXN-1 : rx'[j] # "DMA"} \ held' = mine
  BY DEF RxInv, ReleaseReceiveDescriptor
<1>3. PICK n \in 0..RXN : (rxptr + n) % RXN = rxdma /\ mine = Run(rxptr, n, RXN)
  BY DEF RxInv
<1> HIDE DEF mine
<1>4. \E k \in 0..RXN : /\ (rxptr' + k) % RXN = rxdma'
                        /\ {j \in 0..RXN-1 : rx'[j] # "DMA"} \ held' = Run(rxptr', k, RXN)
  BY <1>2, <1>3 DEF ReleaseReceiveDescriptor
<1> QED
  BY <1>4 DEF RxInv, ReleaseReceiveDescriptor

-----------------------------------------------------------------------------
\* The transmit ring, and the senders that have a descriptor of it.

TxInv ==
  /\ tx \in [0..TXN-1 -> {"FREE", "LOCKED", "DMA"}]
  /\ txptr \in 0..TXN-1 /\ txdma \in 0..TXN-1
  /\ \E n \in 0..TXN : /\ (txdma + n) % TXN = txptr
                       /\ {i \in 0..TXN-1 : tx[i] # "FREE"} = Run(txdma, n, TXN)

Pcs   == {"idle", "get", "enqueue", "asleep", "woken", "expired", "fill"}
Sends == [pc : Pcs, timeout : Int, timer : Int, elapsed : Int, desc : 0..TXN-1]

SndInv ==
  /\ snd \in [Senders -> Sends]
  /\ \A s \in Senders : At(s, "fill") => tx[snd[s].desc] = "LOCKED"
  /\ \A s, t \in Senders : At(s, "fill") /\ At(t, "fill") /\ s # t =>
       snd[s].desc # snd[t].desc

\* A step that changes no descriptor of the ring and gives none to a sender.
LEMMA TxKept ==
  ASSUME TxInv, UNCHANGED txring
  PROVE  TxInv'
  BY DEF TxInv, txring, Run

LEMMA SndKept ==
  ASSUME SndInv, UNCHANGED tx,
         snd' \in [Senders -> Sends],
         \A s \in Senders : snd'[s].pc = "fill" =>
           snd[s].pc = "fill" /\ snd'[s].desc = snd[s].desc
  PROVE  SndInv'
  BY DEF SndInv, At

LEMMA SetTimeout ==
  ASSUME NEW d \in Sends, NEW p \in Pcs, NEW a \in Int
  PROVE  LET e == [d EXCEPT !.pc = p, !.timeout = a] IN e \in Sends /\ e.pc = p
  BY DEF Sends

LEMMA MacIsrKeeps ==
  ASSUME SndInv, MacIsr
  PROVE  SndInv'
<1>1. CASE "TS" \in status
  <2>1. snd' = [s \in Senders |-> IF s \in ToSet(tdqueue)
                                    THEN [snd[s] EXCEPT !.pc = "woken"] ELSE snd[s]]
    BY <1>1 DEF MacIsr
  <2>2. UNCHANGED tx
    BY DEF MacIsr, txring
  <2>3. ASSUME NEW s \in Senders
        PROVE  [snd[s] EXCEPT !.pc = "woken"] \in Sends /\ [snd[s] EXCEPT !.pc = "woken"].pc = "woken"
    BY DEF SndInv, Sends, Pcs
  <2>4. \A s \in Senders : snd'[s] \in Sends /\ (snd'[s].pc = "fill" => snd'[s] = snd[s])
    BY <2>1, <2>3 DEF SndInv
  <2> QED
    BY <2>1, <2>2, <2>4, SndKept
<1>2. CASE "TS" \notin status
  BY <1>2 DEF MacIsr, SndInv, At, senders, txring
<1> QED
  BY <1>1, <1>2

LEMMA IdlingType ==
  ASSUME MacAssumption
  PROVE  /\ Idling \in Sends
         /\ Idling.pc = "idle"
  BY DEF MacAssumption, Idling, Sends, Pcs

LEMMA EndSendKeeps ==
  ASSUME MacAssumption, SndInv, NEW s \in Senders, EndSend(s), UNCHANGED tx
  PROVE  SndInv'
  BY IdlingType, SndKept DEF EndSend, SndInv

LEMMA StartSendKeeps ==
  ASSUME MacAssumption, SndInv, NEW s \in Senders, StartSend(s)
  PROVE  SndInv'
<1> DEFINE d == [Idling EXCEPT !.pc = "get", !.timeout = SendTimeout]
<1>1. d \in Sends /\ d.pc = "get"
  <2>1. "get" \in Pcs /\ SendTimeout \in Int
    BY DEF Pcs, MacAssumption
  <2> QED
    BY <2>1, IdlingType, SetTimeout
<1>2. snd' = [snd EXCEPT ![s] = d] /\ UNCHANGED tx
  BY DEF StartSend, txring
<1> HIDE DEF d
<1> QED
  BY <1>1, <1>2, SndKept DEF SndInv

LEMMA EnqueueSenderKeeps ==
  ASSUME MacAssumption, SndInv, NEW s \in Senders, EnqueueSender(s)
  PROVE  SndInv'
<1> DEFINE d == [snd[s] EXCEPT !.pc = "asleep", !.timer = snd[s].timeout, !.elapsed = 0]
<1>1. d \in Sends /\ d.pc = "asleep"
  <2> DEFINE c == snd[s]
             a == c.timeout
             p == "asleep"
  <2>1. c \in Sends /\ a \in Int /\ p \in Pcs
    BY DEF SndInv, Sends, Pcs
  <2>2. d = [c EXCEPT !.pc = p, !.timer = a, !.elapsed = 0]
    OBVIOUS
  <2> HIDE DEF a, c, d, p
  <2>e. d = [pc |-> p, timeout |-> c.timeout, timer |-> a, elapsed |-> 0, desc |-> c.desc]
    BY <2>1, <2>2 DEF Sends
  <2>3. d \in Sends
    BY <2>1, <2>e DEF Sends
  <2>4. d.pc = p
    BY <2>1, <2>2 DEF Sends
  <2> QED
    BY <2>3, <2>4 DEF p
<1>2. snd' = [snd EXCEPT ![s] = d] /\ UNCHANGED tx
  BY DEF EnqueueSender, txring
<1> HIDE DEF d
<1> QED
  BY <1>1, <1>2, SndKept DEF SndInv

\* A time-out stays in the range of systime_t, whatever is taken off.
LEMMA RemainingRange ==
  ASSUME MacAssumption, NEW timeout \in Int, NEW elapsed \in Int
  PROVE  Remaining(timeout, elapsed) \in 0..TimeMod-1
<1>1. TimeMod \in Nat \ {0}
  BY DEF MacAssumption
<1>2. INFINITE \in 0..TimeMod-1
  BY <1>1 DEF INFINITE
<1> DEFINE left == timeout - elapsed
<1>3. left \in Int
  OBVIOUS
<1> HIDE DEF left
<1>4. left % TimeMod \in 0..TimeMod-1
  BY <1>1, <1>3
<1> QED
  BY <1>2, <1>4 DEF Remaining, left

LEMMA ResumeSenderKeeps ==
  ASSUME MacAssumption, SndInv, NEW s \in Senders, ResumeSender(s)
  PROVE  SndInv'
<1>0. UNCHANGED tx
  BY DEF ResumeSender, txring
<1>1. CASE At(s, "expired")
  BY <1>0, <1>1, EndSendKeeps DEF ResumeSender
<1>2. CASE ~At(s, "expired")
  <2> DEFINE r == Remaining(snd[s].timeout, snd[s].elapsed)
             d == [Idling EXCEPT !.pc = "get", !.timeout = r]
  <2>1. r \in Int
    <3>1. snd[s].timeout \in Int /\ snd[s].elapsed \in Int
      BY DEF SndInv, Sends
    <3>2. r \in 0..TimeMod-1
      BY <3>1, RemainingRange
    <3>3. TimeMod \in Int
      BY DEF MacAssumption
    <3> HIDE DEF r
    <3> QED
      BY <3>2, <3>3
  <2>2. snd' = [snd EXCEPT ![s] = d]
    BY <1>2 DEF ResumeSender
  <2> HIDE DEF r
  <2>3. d \in Sends /\ d.pc = "get"
    <3>1. "get" \in Pcs
      BY DEF Pcs
    <3> QED
      BY <2>1, <3>1, IdlingType, SetTimeout
  <2> HIDE DEF d
  <2> QED
    BY <1>0, <2>2, <2>3, SndKept DEF SndInv
<1> QED
  BY <1>1, <1>2

LEMMA TickKeeps ==
  ASSUME MacAssumption, SndInv, Tick
  PROVE  SndInv'
<1>1. ASSUME NEW s \in Senders
      PROVE  /\ Ticked(snd[s]) \in Sends
             /\ Ticked(snd[s]).pc \in {snd[s].pc, "expired"}
             /\ Ticked(snd[s]).desc = snd[s].desc
  <2> DEFINE d == snd[s]
             a == IF d.pc = "asleep" /\ d.timer # INFINITE THEN d.timer - 1 ELSE d.timer
             p == IF d.pc = "asleep" /\ a = 0 THEN "expired" ELSE d.pc
             b == (d.elapsed + 1) % TimeMod
  <2>0. TimeMod \in Nat \ {0}
    BY DEF MacAssumption
  <2>1. d \in Sends /\ p \in Pcs /\ a \in Int /\ b \in Int /\ p \in {d.pc, "expired"}
    <3>1. d \in Sends /\ d.elapsed \in Int
      BY DEF SndInv, Sends
    <3>2. b \in Int
      <4> HIDE DEF d
      <4> QED
        BY <2>0, <3>1
    <3> HIDE DEF b
    <3> QED
      BY <3>1, <3>2 DEF Sends, Pcs
  <2>2. Ticked(d) = [d EXCEPT !.timer = a, !.elapsed = b, !.pc = p]
    BY DEF Ticked
  <2> HIDE DEF a, b, p, d
  <2>3. Ticked(d) \in Sends
    BY <2>1, <2>2 DEF Sends
  <2>4. Ticked(d).pc = p /\ Ticked(d).desc = d.desc
    BY <2>1, <2>2 DEF Sends
  <2> QED
    BY <2>1, <2>3, <2>4 DEF d
<1>2. snd' = [s \in Senders |-> IF s \in Timing THEN Ticked(snd[s]) ELSE snd[s]] /\ UNCHANGED tx
  BY DEF Tick, txring
<1> QED
  BY <1>1, <1>2, SndKept DEF SndInv

LEMMA TxDoneKeeps ==
  ASSUME MacAssumption, TxInv, SndInv, TxDone
  PROVE  TxInv' /\ SndInv'
<1> DEFINE busy == {i \in 0..TXN-1 : tx[i] # "FREE"}
<1>0. /\ TXN \in Nat \ {0}
      /\ tx \in [0..TXN-1 -> {"FREE", "LOCKED", "DMA"}] /\ tx[txdma] = "DMA"
      /\ txptr \in 0..TXN-1 /\ txdma \in 0..TXN-1
      /\ tx' = [tx EXCEPT ![txdma] = "FREE"]
      /\ txdma' = NextTx(txdma) /\ txptr' = txptr /\ snd' = snd
  BY DEF MacAssumption, TxInv, TxDone, senders
<1>1. PICK n \in 0..TXN : (txdma + n) % TXN = txptr /\ busy = Run(txdma, n, TXN)
  BY DEF TxInv
<1>2. n \in 1..TXN
  <2>1. txdma \in busy
    BY <1>0
  <2>2. n # 0
    BY <1>1, <2>1 DEF Run
  <2> QED
    BY <2>2
<1>3. {i \in 0..TXN-1 : tx'[i] # "FREE"} = busy \ {txdma}
  BY <1>0
<1> HIDE DEF busy
<1>4. /\ busy \ {txdma} = Run(NextTx(txdma), n - 1, TXN)
      /\ (NextTx(txdma) + (n - 1)) % TXN = txptr
  BY <1>0, <1>1, <1>2, RunFirst DEF NextTx
<1>5. n - 1 \in 0..TXN /\ txdma' \in 0..TXN-1
  BY <1>0, <1>2 DEF NextTx
<1>6. tx' \in [0..TXN-1 -> {"FREE", "LOCKED", "DMA"}]
  BY <1>0
<1>7. \E k \in 0..TXN : /\ (txdma' + k) % TXN = txptr'
                        /\ {i \in 0..TXN-1 : tx'[i] # "FREE"} = Run(txdma', k, TXN)
  BY <1>0, <1>3, <1>4, <1>5
<1>8. TxInv'
  BY <1>0, <1>5, <1>6, <1>7 DEF TxInv
<1>9. \A s \in Senders : At(s, "fill") => snd[s].desc \in 0..TXN-1 /\ tx'[snd[s].desc] = "LOCKED"
  BY <1>0 DEF SndInv, Sends
<1>10. SndInv'
  BY <1>0, <1>9 DEF SndInv, At
<1> QED
  BY <1>8, <1>10

LEMMA GetTransmitKeeps ==
  ASSUME MacAssumption, TxInv, SndInv, NEW s \in Senders, GetTransmitDescriptor(s)
  PROVE  TxInv' /\ SndInv'
<1>1. CASE TxAvailable
  <2> DEFINE busy == {i \in 0..TXN-1 : tx[i] # "FREE"}
             d == [snd[s] EXCEPT !.pc = "fill", !.desc = txptr]
  <2>0. /\ TXN \in Nat \ {0}
        /\ tx \in [0..TXN-1 -> {"FREE", "LOCKED", "DMA"}] /\ tx[txptr] = "FREE"
        /\ txptr \in 0..TXN-1 /\ txdma \in 0..TXN-1
        /\ tx' = [tx EXCEPT ![txptr] = "LOCKED"]
        /\ txptr' = NextTx(txptr) /\ txdma' = txdma
    BY <1>1 DEF MacAssumption, TxInv, GetTransmitDescriptor, TxAvailable
  <2>1. PICK n \in 0..TXN : (txdma + n) % TXN = txptr /\ busy = Run(txdma, n, TXN)
    BY DEF TxInv
  <2>2. n # TXN
    <3>1. SUFFICES ASSUME n = TXN PROVE FALSE
      OBVIOUS
    <3>2. txptr \in busy
      BY <2>0, <2>1, <3>1, RunFull
    <3> QED
      BY <2>0, <3>2
  <2>3. n \in 0..TXN-1 /\ n + 1 \in 0..TXN
    BY <2>2
  <2>4. Run(txdma, n + 1, TXN) = busy \cup {txptr}
    BY <2>0, <2>1, <2>3, RunEnd
  <2>5. (txdma + (n + 1)) % TXN = txptr'
    <3>1. 1 \in 0..TXN /\ n \in 0..TXN /\ n + 1 <= TXN
      BY <2>0, <2>3
    <3>2. (((txdma + n) % TXN) + 1) % TXN = (txdma + (n + 1)) % TXN
      BY <2>0, <3>1, Onward
    <3> QED
      BY <2>0, <2>1, <3>2 DEF NextTx
  <2>6. {i \in 0..TXN-1 : tx'[i] # "FREE"} = busy \cup {txptr}
    BY <2>0
  <2>7. txptr' \in 0..TXN-1 /\ tx' \in [0..TXN-1 -> {"FREE", "LOCKED", "DMA"}]
    BY <2>0 DEF NextTx
  <2> HIDE DEF busy
  <2>8. \E k \in 0..TXN : /\ (txdma' + k) % TXN = txptr'
                          /\ {i \in 0..TXN-1 : tx'[i] # "FREE"} = Run(txdma', k, TXN)
    BY <2>0, <2>3, <2>4, <2>5, <2>6
  <2>9. TxInv'
    BY <2>0, <2>7, <2>8 DEF TxInv
  <2>10. snd[s] \in Sends /\ snd' = [snd EXCEPT ![s] = d]
    BY <1>1 DEF GetTransmitDescriptor, SndInv
  <2>11. d \in Sends
    BY <2>0, <2>10 DEF Sends, Pcs
  <2>12. d.pc = "fill" /\ d.desc = txptr
    BY <2>10 DEF Sends
  <2> HIDE DEF d
  <2>13. \A t \in Senders \ {s} : snd'[t] = snd[t] /\ (snd[t].pc = "fill" =>
           tx[snd[t].desc] = "LOCKED" /\ snd[t].desc # txptr /\ snd[t].desc \in 0..TXN-1)
    BY <2>0, <2>10 DEF SndInv, At, Sends
  <2>14. snd'[s] = d
    BY <2>10 DEF SndInv
  <2>15. snd' \in [Senders -> Sends]
    BY <2>10, <2>11 DEF SndInv
  <2>16. \A t \in Senders : snd'[t].pc = "fill" => tx'[snd'[t].desc] = "LOCKED"
    BY <2>0, <2>12, <2>13, <2>14
  <2>17. ASSUME NEW t \in Senders, NEW u \in Senders, snd'[t].pc = "fill", snd'[u].pc = "fill", t # u
         PROVE  snd'[t].desc # snd'[u].desc
    <3>1. CASE t = s
      BY <2>12, <2>13, <2>14, <2>17, <3>1
    <3>2. CASE u = s
      BY <2>12, <2>13, <2>14, <2>17, <3>2
    <3>3. CASE t # s /\ u # s
      BY <2>13, <2>17, <3>3 DEF SndInv, At
    <3> QED
      BY <3>1, <3>2, <3>3
  <2>18. SndInv'
    BY <2>15, <2>16, <2>17 DEF SndInv, At
  <2> QED
    BY <2>9, <2>18
<1>2. CASE ~TxAvailable
  <2>1. UNCHANGED txring /\ UNCHANGED tx
    BY <1>2 DEF GetTransmitDescriptor, txring
  <2>2. SndInv'
    <3>1. CASE snd[s].timeout > 0
      <4> DEFINE d == [snd[s] EXCEPT !.pc = "enqueue"]
      <4>1. snd[s] \in Sends /\ snd' = [snd EXCEPT ![s] = d]
        BY <1>2, <3>1 DEF GetTransmitDescriptor, Goto, SndInv
      <4>2. d \in Sends /\ d.pc = "enqueue"
        BY <4>1 DEF Sends, Pcs
      <4> HIDE DEF d
      <4> QED
        BY <2>1, <4>1, <4>2, SndKept DEF SndInv
    <3>2. CASE ~(snd[s].timeout > 0)
      BY <1>2, <2>1, <3>2, EndSendKeeps DEF GetTransmitDescriptor
    <3> QED
      BY <3>1, <3>2
  <2> QED
    BY <2>1, <2>2, TxKept
<1> QED
  BY <1>1, <1>2

LEMMA ReleaseTransmitKeeps ==
  ASSUME MacAssumption, TxInv, SndInv, NEW s \in Senders, ReleaseTransmitDescriptor(s)
  PROVE  TxInv' /\ SndInv'
<1> DEFINE i == snd[s].desc
<1>0. /\ i \in 0..TXN-1 /\ tx[i] = "LOCKED" /\ At(s, "fill")
      /\ tx \in [0..TXN-1 -> {"FREE", "LOCKED", "DMA"}]
      /\ tx' = [tx EXCEPT ![i] = "DMA"] /\ UNCHANGED <<txptr, txdma>>
      /\ snd' = [snd EXCEPT ![s] = Idling]
  BY DEF TxInv, SndInv, ReleaseTransmitDescriptor, Sends, EndSend
<1>1. {j \in 0..TXN-1 : tx'[j] # "FREE"} = {j \in 0..TXN-1 : tx[j] # "FREE"}
  BY <1>0
<1>2. tx' \in [0..TXN-1 -> {"FREE", "LOCKED", "DMA"}]
  BY <1>0
<1>3. TxInv'
  <2>1. PICK n \in 0..TXN : /\ (txdma + n) % TXN = txptr
                            /\ {j \in 0..TXN-1 : tx[j] # "FREE"} = Run(txdma, n, TXN)
    BY DEF TxInv
  <2>2. \E k \in 0..TXN : /\ (txdma' + k) % TXN = txptr'
                          /\ {j \in 0..TXN-1 : tx'[j] # "FREE"} = Run(txdma', k, TXN)
    BY <1>0, <1>1, <2>1
  <2> QED
    BY <1>0, <1>2, <2>2 DEF TxInv
<1>4. snd' \in [Senders -> Sends] /\ snd'[s].pc = "idle" /\ \A t \in Senders \ {s} : snd'[t] = snd[t]
  BY <1>0, IdlingType DEF SndInv
<1>5. \A t \in Senders \ {s} : At(t, "fill") => snd[t].desc # i /\ tx[snd[t].desc] = "LOCKED"
                                                /\ snd[t].desc \in 0..TXN-1
  BY <1>0 DEF SndInv, Sends
<1>6. \A t \in Senders : snd'[t].pc = "fill" => t # s /\ At(t, "fill") /\ snd'[t] = snd[t]
  BY <1>4 DEF At
<1> HIDE DEF i
<1>7. \A t \in Senders : snd'[t].pc = "fill" => tx'[snd'[t].desc] = "LOCKED"
  BY <1>0, <1>5, <1>6
<1>8. \A t, u \in Senders : snd'[t].pc = "fill" /\ snd'[u].pc = "fill" /\ t # u =>
        snd'[t].desc # snd'[u].desc
  BY <1>6 DEF SndInv
<1> QED
  BY <1>3, <1>4, <1>7, <1>8 DEF SndInv, At

LEMMA SenderStepKeeps ==
  ASSUME MacAssumption, TxInv, SndInv, NEW s \in Senders, SenderStep(s)
  PROVE  TxInv' /\ SndInv'
<1>1. CASE EnqueueSender(s)
  BY <1>1, EnqueueSenderKeeps, TxKept DEF EnqueueSender
<1>2. CASE ResumeSender(s)
  BY <1>2, ResumeSenderKeeps, TxKept DEF ResumeSender
<1> QED
  BY <1>1, <1>2, GetTransmitKeeps, ReleaseTransmitKeeps DEF SenderStep

-----------------------------------------------------------------------------
(***************************************************************************)
(* The thread, its mailbox and its buffers.                                *)
(***************************************************************************)

LEMMA Constants ==
  ASSUME MacAssumption, LwipAssumption
  PROVE  /\ RXN \in Nat \ {0} /\ TXN \in Nat \ {0}
         /\ "lwip" \in Senders /\ "tcpip" \in Senders
  BY DEF MacAssumption, LwipAssumption

-----------------------------------------------------------------------------
\* The driver's part of the state.

MacInv == RxInv /\ TxInv /\ SndInv

LEMMA MacUnchanged ==
  ASSUME MacInv, UNCHANGED mac
  PROVE  MacInv'
<1>1. UNCHANGED rxring /\ UNCHANGED txring /\ UNCHANGED snd /\ UNCHANGED tx
  BY DEF mac, senders, txring
<1>2. SndInv'
  BY <1>1, SndKept DEF MacInv, SndInv, At
<1> QED
  BY <1>1, <1>2, RxKept, TxKept DEF MacInv

LEMMA SenderStepRings ==
  ASSUME NEW s \in Senders, SenderStep(s)
  PROVE  UNCHANGED <<active, rxring, status, phy, linkUp>>
  BY DEF SenderStep, GetTransmitDescriptor, EnqueueSender, ResumeSender, ReleaseTransmitDescriptor

LEMMA SenderStepInv ==
  ASSUME MacAssumption, MacInv, NEW s \in Senders, SenderStep(s)
  PROVE  MacInv'
  BY SenderStepKeeps, SenderStepRings, RxKept DEF MacInv

LEMMA StartSendInv ==
  ASSUME MacAssumption, MacInv, NEW s \in Senders, StartSend(s)
  PROVE  MacInv'
<1>1. UNCHANGED rxring /\ UNCHANGED txring
  BY DEF StartSend
<1> QED
  BY <1>1, StartSendKeeps, RxKept, TxKept DEF MacInv

LEMMA InitInv ==
  ASSUME MacAssumption, MacInit
  PROVE  MacInv
<1>0. RXN \in Nat \ {0} /\ TXN \in Nat \ {0}
  BY DEF MacAssumption
<1>1. ASSUME NEW N \in Nat \ {0} PROVE (0 + 0) % N = 0 /\ Run(0, 0, N) = {} /\ 0 \in 0..N /\ 0 \in 0..N-1
  BY DEF Run
<1>2. RxInv
  <2>1. {i \in 0..RXN-1 : rx[i] # "DMA"} \ held = {} /\ rxptr = 0 /\ rxdma = 0 /\ held = {}
    BY DEF MacInit
  <2>2. \E n \in 0..RXN : /\ (rxptr + n) % RXN = rxdma
                          /\ {i \in 0..RXN-1 : rx[i] # "DMA"} \ held = Run(rxptr, n, RXN)
    BY <1>0, <1>1, <2>1
  <2> QED
    BY <1>0, <1>1, <2>1, <2>2 DEF RxInv, MacInit
<1>3. TxInv
  <2>1. {i \in 0..TXN-1 : tx[i] # "FREE"} = {} /\ txptr = 0 /\ txdma = 0
    BY DEF MacInit
  <2>2. \E n \in 0..TXN : /\ (txdma + n) % TXN = txptr
                          /\ {i \in 0..TXN-1 : tx[i] # "FREE"} = Run(txdma, n, TXN)
    BY <1>0, <1>1, <2>1
  <2> QED
    BY <1>0, <1>1, <2>1, <2>2 DEF TxInv, MacInit
<1>4. SndInv
  BY IdlingType DEF SndInv, MacInit, At
<1> QED
  BY <1>2, <1>3, <1>4 DEF MacInv

-----------------------------------------------------------------------------
\* The thread has at most one frame in its hands, and only while it looks for
\* a buffer; it is registered for frames before it waits for them.

Handed == IF lw = "alloc" THEN \E i \in 0..RXN-1 : held = {i} ELSE held = {}

Registered == FRAME_RECEIVED_ID \notin registered => lw \in {"start", "arp", "timer", "register"}

ThreadInv == MacInv /\ Handed /\ Registered /\ FrameNotForgotten

\* A step of the others: the receive side of the driver stays as it is, and
\* so does the thread.
LEMMA OthersKeep ==
  ASSUME MacAssumption, LwipAssumption, ThreadInv, MacInv',
         UNCHANGED <<active, rxring, status, lw, pending, events, registered, starved>>
  PROVE  ThreadInv'
<1>1. Handed'
  BY DEF ThreadInv, Handed, rxring
<1>2. Registered'
  BY DEF ThreadInv, Registered, Starting
<1>3. FrameNotForgotten'
  BY DEF ThreadInv, FrameNotForgotten, Starting, Draining, rxring
<1> QED
  BY <1>1, <1>2, <1>3 DEF ThreadInv

LEMMA HardwareKeeps ==
  ASSUME MacAssumption, LwipAssumption, ThreadInv, Hardware
  PROVE  ThreadInv'
<1>1. ASSUME NEW kind \in {"FRAME", "BAD"}, RxFrame(kind), UNCHANGED lwip PROVE ThreadInv'
  <2>1. RxInv'
    BY <1>1, RxFrameKeeps DEF ThreadInv, MacInv
  <2>2. UNCHANGED <<txring, snd, tx, held>> /\ "RS" \in status'
    BY <1>1 DEF RxFrame, txring, senders
  <2>3. TxInv' /\ SndInv'
    BY <2>2, TxKept, SndKept DEF ThreadInv, MacInv, SndInv, At
  <2>4. Handed' /\ Registered'
    BY <1>1, <2>2 DEF ThreadInv, Handed, Registered, Starting, lwip
  <2>5. FrameNotForgotten'
    BY <2>2 DEF FrameNotForgotten
  <2> QED
    BY <2>1, <2>3, <2>4, <2>5 DEF ThreadInv, MacInv
<1>2. ASSUME TxDone, UNCHANGED lwip PROVE ThreadInv'
  <2>1. TxInv' /\ SndInv'
    BY <1>2, TxDoneKeeps DEF ThreadInv, MacInv
  <2>2. UNCHANGED <<active, rxring>> /\ status' = status \cup {"TS"}
    BY <1>2 DEF TxDone
  <2>3. RxInv'
    BY <2>2, RxKept DEF ThreadInv, MacInv
  <2>4. Handed' /\ Registered'
    BY <1>2, <2>2 DEF ThreadInv, Handed, Registered, Starting, lwip, rxring
  <2>5. FrameNotForgotten'
    BY <1>2, <2>2 DEF ThreadInv, FrameNotForgotten, lwip, rxring, Starting, Draining
  <2> QED
    BY <2>1, <2>3, <2>4, <2>5 DEF ThreadInv, MacInv
<1>3. ASSUME LinkChanges, UNCHANGED lwip PROVE ThreadInv'
  <2>1. UNCHANGED <<active, rxring, txring, status, snd, tx>>
    BY <1>3 DEF LinkChanges, senders, txring
  <2>2. MacInv'
    BY <2>1, RxKept, TxKept, SndKept DEF ThreadInv, MacInv, SndInv, At
  <2> QED
    BY <1>3, <2>1, <2>2, OthersKeep DEF lwip
<1> QED
  BY <1>1, <1>2, <1>3 DEF Hardware

LEMMA EthIrqKeeps ==
  ASSUME MacAssumption, LwipAssumption, ThreadInv, EthIrq
  PROVE  ThreadInv'
<1>1. SndInv'
  BY MacIsrKeeps DEF EthIrq, ThreadInv, MacInv
<1>2. UNCHANGED <<active, rxring, txring>> /\ status' = {}
  BY DEF EthIrq, MacIsr
<1>3. RxInv' /\ TxInv'
  BY <1>2, RxKept, TxKept DEF ThreadInv, MacInv
<1>4. Handed' /\ Registered'
  BY <1>2 DEF EthIrq, ThreadInv, Handed, Registered, Starting, rxring
<1>5. FrameNotForgotten'
  <2>1. CASE "RS" \in status
    <3>1. FRAME_RECEIVED_ID \in registered => FRAME_RECEIVED_ID \in pending'
      BY <2>1 DEF EthIrq, Broadcast
    <3>2. FRAME_RECEIVED_ID \notin registered => Starting'
      BY DEF ThreadInv, Registered, Starting, EthIrq
    <3> QED
      BY <3>1, <3>2 DEF FrameNotForgotten
  <2>2. CASE "RS" \notin status
    <3>1. UNCHANGED <<lw, pending, events, starved>>
      BY <2>2 DEF EthIrq
    <3> QED
      BY <1>2, <2>2, <3>1 DEF ThreadInv, FrameNotForgotten, Starting, Draining, rxring
  <2> QED
    BY <2>1, <2>2
<1> QED
  BY <1>1, <1>3, <1>4, <1>5 DEF ThreadInv, MacInv

LEMMA LinkTimerKeeps ==
  ASSUME MacAssumption, LwipAssumption, ThreadInv, LinkTimer
  PROVE  ThreadInv'
<1>1. MacInv' /\ UNCHANGED <<active, rxring, status>>
  BY MacUnchanged DEF LinkTimer, ThreadInv, mac
<1>2. pending \subseteq pending' /\ UNCHANGED <<lw, events, registered, starved>>
  BY DEF LinkTimer, Broadcast
<1>3. Handed' /\ Registered'
  BY <1>1, <1>2 DEF ThreadInv, Handed, Registered, Starting, rxring
<1>4. FrameNotForgotten'
  BY <1>1, <1>2 DEF ThreadInv, FrameNotForgotten, Starting, Draining, rxring
<1> QED
  BY <1>1, <1>3, <1>4 DEF ThreadInv

LEMMA ClockTickKeeps ==
  ASSUME MacAssumption, LwipAssumption, ThreadInv, ClockTick
  PROVE  ThreadInv'
<1>1. UNCHANGED <<active, rxring, txring, status>>
  BY DEF ClockTick, Tick
<1>2. MacInv'
  BY <1>1, TickKeeps, RxKept, TxKept DEF ClockTick, ThreadInv, MacInv
<1> QED
  BY <1>1, <1>2, OthersKeep DEF ClockTick, lwip

-----------------------------------------------------------------------------
\* The steps of the lwIP thread.

LEMMA LwLoopKeeps ==
  ASSUME MacAssumption, LwipAssumption, ThreadInv, LwLoop
  PROVE  ThreadInv'
<1>1. ASSUME LwStart PROVE ThreadInv'
  <2>1. UNCHANGED <<rxring, status, pending, events, registered, starved>> /\ lw = "start"
    BY <1>1 DEF LwStart, MacStart, StartSend
  <2>2. MacInv'
    <3>1. CASE MacStart
      <4>1. UNCHANGED <<rxring, txring, tx, snd>>
        BY <3>1 DEF MacStart, txring, senders
      <4> QED
        BY <4>1, RxKept, TxKept, SndKept DEF ThreadInv, MacInv, SndInv, At
    <3>2. CASE StartSend("lwip")
      BY <3>2, Constants, StartSendInv DEF ThreadInv
    <3> QED
      BY <1>1, <3>1, <3>2 DEF LwStart
  <2>3. lw' \in {"start", "arp"}
    BY <1>1 DEF LwStart
  <2>4. Handed' /\ Registered'
    BY <2>1, <2>3 DEF ThreadInv, Handed, Registered, rxring
  <2>5. FrameNotForgotten'
    BY <2>3 DEF FrameNotForgotten, Starting
  <2> QED
    BY <2>2, <2>4, <2>5 DEF ThreadInv
<1>2. ASSUME LwArpSent \/ LwRegister PROVE ThreadInv'
  <2>1. MacInv' /\ UNCHANGED rxring
    BY <1>2, MacUnchanged DEF LwArpSent, LwRegister, ThreadInv, mac
  <2>2. lw # "alloc" /\ lw' \in {"timer", "register", "add"}
    BY <1>2 DEF LwArpSent, LwRegister
  <2>3. Handed' /\ Registered'
    BY <1>2, <2>1, <2>2 DEF ThreadInv, Handed, Registered, rxring, LwArpSent, LwRegister
  <2>4. FrameNotForgotten'
    BY <2>2 DEF FrameNotForgotten, Starting
  <2> QED
    BY <2>1, <2>3, <2>4 DEF ThreadInv
<1>3. ASSUME LwAddEvents PROVE ThreadInv'
  <2>1. MacInv' /\ UNCHANGED <<rxring, registered>>
    BY <1>3, MacUnchanged DEF LwAddEvents, ThreadInv, mac
  <2>2. lw = "add" /\ lw' = "wait" /\ FRAME_RECEIVED_ID \in pending'
    BY <1>3 DEF LwAddEvents
  <2>3. FrameNotForgotten'
    BY <2>2 DEF FrameNotForgotten
  <2>4. Handed' /\ Registered'
    BY <2>1, <2>2 DEF ThreadInv, Registered, Handed, rxring
  <2> QED
    BY <2>1, <2>3, <2>4 DEF ThreadInv
<1>4. ASSUME LwWaitAny PROVE ThreadInv'
  <2>1. MacInv' /\ UNCHANGED <<active, rxring, status, registered, starved>>
    BY <1>4, MacUnchanged DEF LwWaitAny, ThreadInv, mac
  <2>2. lw = "wait" /\ lw' \in {"poll", "frames", "wait"}
    BY <1>4 DEF LwWaitAny, Frames
  <2>3. FrameNotForgotten'
    <3>1. CASE FRAME_RECEIVED_ID \in pending
      BY <1>4, <3>1 DEF LwWaitAny, Frames, FrameNotForgotten, Draining
    <3>2. CASE FRAME_RECEIVED_ID \notin pending
      BY <2>1, <2>2, <3>2 DEF ThreadInv, FrameNotForgotten, Draining, Starting, rxring
    <3> QED
      BY <3>1, <3>2
  <2>4. Handed' /\ Registered'
    BY <2>1, <2>2 DEF ThreadInv, Registered, Handed, rxring
  <2> QED
    BY <2>1, <2>3, <2>4 DEF ThreadInv
<1>5. ASSUME LwPoll PROVE ThreadInv'
  <2>1. UNCHANGED <<active, rxring, txring, status, snd, tx>>
    BY <1>5 DEF LwPoll, PollLinkStatus, senders, txring
  <2>2. MacInv'
    BY <2>1, RxKept, TxKept, SndKept DEF ThreadInv, MacInv, SndInv, At
  <2>3. /\ lw = "poll" /\ lw' = "compare"
        /\ UNCHANGED <<pending, events, registered, starved>>
    BY <1>5 DEF LwPoll
  <2>4. FrameNotForgotten'
    BY <2>1, <2>3 DEF ThreadInv, FrameNotForgotten, Draining, Starting, rxring
  <2>5. Handed' /\ Registered'
    BY <2>1, <2>3 DEF ThreadInv, Registered, Handed, rxring
  <2> QED
    BY <2>2, <2>4, <2>5 DEF ThreadInv
<1>6. ASSUME SenderStep("lwip"), UNCHANGED lwip PROVE ThreadInv'
  <2>1. MacInv'
    BY <1>6, Constants, SenderStepInv DEF ThreadInv
  <2>2. UNCHANGED <<active, rxring, status>>
    BY <1>6, Constants, SenderStepRings
  <2> QED
    BY <1>6, <2>1, <2>2, OthersKeep DEF lwip
<1> QED
  BY <1>1, <1>2, <1>3, <1>4, <1>5, <1>6 DEF LwLoop

LEMMA LwCompareKeeps ==
  ASSUME MacAssumption, LwipAssumption, ThreadInv, LwCompare
  PROVE  ThreadInv'
<1>1. MacInv' /\ UNCHANGED <<active, rxring, status, pending, registered, starved>>
  BY MacUnchanged DEF LwCompare, ThreadInv, mac
<1>2. lw = "compare" /\ lw' = Frames(events)
  BY DEF LwCompare
<1>3. FrameNotForgotten'
  <2>1. CASE FRAME_RECEIVED_ID \in events
    BY <1>2, <2>1 DEF Frames, FrameNotForgotten, Draining
  <2>2. CASE FRAME_RECEIVED_ID \notin events
    BY <1>1, <1>2, <2>2 DEF ThreadInv, FrameNotForgotten, Draining, Starting, rxring
  <2> QED
    BY <2>1, <2>2
<1>4. Handed' /\ Registered'
  BY <1>1, <1>2 DEF ThreadInv, Registered, Handed, rxring, Frames
<1> QED
  BY <1>1, <1>3, <1>4 DEF ThreadInv

LEMMA LwGetFrameKeeps ==
  ASSUME MacAssumption, LwipAssumption, ThreadInv, LwGetFrame
  PROVE  ThreadInv'
<1>1. /\ lw = "frames" /\ GetReceiveDescriptor
      /\ lw' = IF held' # {} THEN "alloc" ELSE "wait"
      /\ UNCHANGED registered
  BY DEF LwGetFrame
<1>2. /\ RxInv'
      /\ held' = {} => rx'[rxptr'] = "DMA"
      /\ held' # {} => \E i \in 0..RXN-1 : held' = {i}
  BY <1>1, GetReceiveKeeps DEF ThreadInv, MacInv, Handed
<1>3. UNCHANGED <<txring, tx, snd>>
  BY <1>1 DEF GetReceiveDescriptor, txring, senders
<1>4. MacInv'
  BY <1>2, <1>3, TxKept, SndKept DEF ThreadInv, MacInv, SndInv, At
<1>5. Handed'
  BY <1>1, <1>2 DEF Handed
<1>6. Registered'
  BY <1>1 DEF ThreadInv, Registered
<1>7. FrameNotForgotten'
  BY <1>1, <1>2 DEF FrameNotForgotten, Draining
<1> QED
  BY <1>4, <1>5, <1>6, <1>7 DEF ThreadInv

LEMMA LwAllocKeeps ==
  ASSUME MacAssumption, LwipAssumption, ThreadInv, LwAlloc
  PROVE  ThreadInv'
<1>1. PICK i \in held : ReleaseReceiveDescriptor(i)
  BY DEF LwAlloc
<1>2. RxInv'
  BY <1>1, ReleaseReceiveKeeps DEF ThreadInv, MacInv
<1>3. UNCHANGED <<txring, tx, snd>>
  BY <1>1 DEF ReleaseReceiveDescriptor, txring, senders
<1>4. MacInv'
  BY <1>2, <1>3, TxKept, SndKept DEF ThreadInv, MacInv, SndInv, At
<1>5. held' = {} /\ lw = "alloc" /\ UNCHANGED registered
  BY <1>1 DEF ReleaseReceiveDescriptor, ThreadInv, Handed, LwAlloc
<1>6. lw' = "input" \/ (lw' = "wait" /\ starved')
  BY DEF LwAlloc
<1>7. Handed' /\ Registered' /\ FrameNotForgotten'
  BY <1>5, <1>6 DEF ThreadInv, Handed, Registered, FrameNotForgotten, Draining
<1> QED
  BY <1>4, <1>7 DEF ThreadInv

LEMMA LwInputKeeps ==
  ASSUME MacAssumption, LwipAssumption, ThreadInv, LwInput
  PROVE  ThreadInv'
<1>1. MacInv' /\ UNCHANGED <<rxring, registered>>
  BY MacUnchanged DEF LwInput, ThreadInv, mac
<1>2. lw = "input" /\ lw' = "frames"
  BY DEF LwInput
<1>3. Handed' /\ Registered' /\ FrameNotForgotten'
  BY <1>1, <1>2 DEF ThreadInv, Handed, Registered, FrameNotForgotten, Draining, rxring
<1> QED
  BY <1>1, <1>3 DEF ThreadInv

-----------------------------------------------------------------------------
\* The stack and the application.

LEMMA TcpKeeps ==
  ASSUME MacAssumption, LwipAssumption, ThreadInv, TcpStep
  PROVE  ThreadInv'
<1>1. CASE TcpFetch
  <2>1. MacInv' /\ UNCHANGED <<active, rxring, status>>
    <3>1. CASE StartSend("tcpip")
      BY <3>1, Constants, StartSendInv DEF ThreadInv, StartSend
    <3>2. CASE UNCHANGED mac
      BY <3>2, MacUnchanged DEF ThreadInv, mac
    <3> QED
      BY <1>1, <3>1, <3>2 DEF TcpFetch
  <2> QED
    BY <1>1, <2>1, OthersKeep DEF TcpFetch
<1>2. CASE TcpSend
  <2>1. MacInv' /\ UNCHANGED <<active, rxring, status>>
    <3>1. CASE SenderStep("tcpip")
      BY <3>1, Constants, SenderStepInv, SenderStepRings DEF ThreadInv
    <3>2. CASE UNCHANGED mac
      BY <3>2, MacUnchanged DEF ThreadInv, mac
    <3> QED
      BY <1>2, <3>1, <3>2 DEF TcpSend
  <2> QED
    BY <1>2, <2>1, OthersKeep DEF TcpSend, lwip
<1>3. CASE TcpDone
  <2>1. MacInv' /\ UNCHANGED <<active, rxring, status>>
    BY <1>3, MacUnchanged DEF TcpDone, ThreadInv, mac
  <2> QED
    BY <1>3, <2>1, OthersKeep DEF TcpDone, lwip
<1> QED
  BY <1>1, <1>2, <1>3 DEF TcpStep

LEMMA AppKeeps ==
  ASSUME MacAssumption, LwipAssumption, ThreadInv, AppStep
  PROVE  ThreadInv'
<1>1. UNCHANGED mac /\ UNCHANGED lwip
  BY DEF AppStep, AppBorn, AppCall, AppPosted, AppRecv
<1>2. MacInv' /\ UNCHANGED <<active, rxring, status>>
  BY <1>1, MacUnchanged DEF ThreadInv, mac
<1> QED
  BY <1>1, <1>2, OthersKeep DEF lwip

LEMMA ThreadInvInit ==
  ASSUME MacAssumption, LwipAssumption, Init
  PROVE  ThreadInv
<1>1. MacInv
  BY InitInv DEF Init
<1> QED
  BY <1>1 DEF ThreadInv, Handed, Registered, FrameNotForgotten, Starting, Init, MacInit

LEMMA ThreadInvStep ==
  ASSUME MacAssumption, LwipAssumption, ThreadInv, [Next]_vars
  PROVE  ThreadInv'
<1>1. CASE UNCHANGED vars
  <2>1. MacInv' /\ UNCHANGED <<active, rxring, status>>
    BY <1>1, MacUnchanged DEF ThreadInv, mac, vars
  <2> QED
    BY <1>1, <2>1, OthersKeep DEF vars, lwip
<1>2. CASE Next
  <2>1. CASE Interrupts
    BY <2>1, EthIrqKeeps, LinkTimerKeeps, ClockTickKeeps DEF Interrupts
  <2>2. CASE LwStep
    BY <2>2, LwLoopKeeps, LwCompareKeeps, LwGetFrameKeeps, LwAllocKeeps, LwInputKeeps DEF LwStep
  <2> QED
    BY <1>2, <2>1, <2>2, HardwareKeeps, TcpKeeps, AppKeeps DEF Next
<1> QED
  BY <1>1, <1>2

\* The code and the DMA agree on both rings for any number of descriptors
\* (mac_lld.c), and no frame waits in the ring without an interrupt, an event
\* or the thread that will take it, except for want of a buffer
\* (lwip_thread, low_level_input).
THEOREM ThreadInvariant == Spec => []ThreadInv
<1>1. Init => ThreadInv
  BY MacAssumption, LwipAssumption, ThreadInvInit
<1>2. ThreadInv /\ [Next]_vars => ThreadInv'
  BY MacAssumption, LwipAssumption, ThreadInvStep
<1> QED
  BY <1>1, <1>2, PTL DEF Spec

\* Neither side of a ring waits at a descriptor while the other's work lies
\* further on, for rings of any size (mac_lld_get_receive_descriptor,
\* mac_lld_get_transmit_descriptor and their releases).
THEOREM RingsAlwaysAgree == Spec => []RingsAgree
<1>1. ThreadInv => RingsAgree
  BY DEF ThreadInv, MacInv, RxInv, TxInv, RingsAgree
<1> QED
  BY <1>1, ThreadInvariant, PTL

\* A received frame is not forgotten in the ring (lwip_thread).
THEOREM NoFrameForgotten == Spec => []FrameNotForgotten
<1>1. ThreadInv => FrameNotForgotten
  BY DEF ThreadInv
<1> QED
  BY <1>1, ThreadInvariant, PTL

-----------------------------------------------------------------------------
\* Buffers.

Packets(q) == {i \in DOMAIN q : q[i] = "packet"}

LEMMA PacketsFinite ==
  ASSUME NEW S, NEW q \in Seq(S)
  PROVE  IsFiniteSet(Packets(q)) /\ Cardinality(Packets(q)) \in Nat
<1>1. Len(q) \in Nat /\ DOMAIN q = 1..Len(q)
  OBVIOUS
<1>2. IsFiniteSet(1..Len(q))
  BY <1>1, FS_Interval
<1>3. Packets(q) \in SUBSET (1..Len(q))
  BY <1>1 DEF Packets
<1>4. IsFiniteSet(Packets(q))
  BY <1>2, <1>3, FS_Subset
<1> QED
  BY <1>4, FS_CardinalityType

LEMMA PacketsAppend ==
  ASSUME NEW S, NEW q \in Seq(S), NEW m \in S
  PROVE  Cardinality(Packets(Append(q, m))) =
           Cardinality(Packets(q)) + (IF m = "packet" THEN 1 ELSE 0)
<1> DEFINE n == Len(q) + 1
<1>1. /\ DOMAIN Append(q, m) = 1..n /\ DOMAIN q = 1..Len(q) /\ Len(q) \in Nat
      /\ Append(q, m)[n] = m
      /\ \A i \in 1..Len(q) : Append(q, m)[i] = q[i]
  OBVIOUS
<1>2. n \notin Packets(q)
  BY <1>1 DEF Packets
<1>3. CASE m = "packet"
  <2>1. Packets(Append(q, m)) = Packets(q) \cup {n}
    BY <1>1, <1>3 DEF Packets
  <2>2. Cardinality(Packets(q) \cup {n}) = Cardinality(Packets(q)) + 1
    BY <1>2, PacketsFinite, FS_AddElement
  <2> QED
    BY <1>3, <2>1, <2>2
<1>4. CASE m # "packet"
  <2>1. Packets(Append(q, m)) = Packets(q)
    BY <1>1, <1>4 DEF Packets
  <2> QED
    BY <1>4, <2>1, PacketsFinite
<1> QED
  BY <1>3, <1>4

LEMMA PacketsTail ==
  ASSUME NEW S, NEW q \in Seq(S), q # <<>>
  PROVE  Cardinality(Packets(q)) =
           Cardinality(Packets(Tail(q))) + (IF Head(q) = "packet" THEN 1 ELSE 0)
<1> DEFINE P == Packets(q)
           T == Packets(Tail(q))
           f == [i \in T |-> i + 1]
<1>1. /\ DOMAIN q = 1..Len(q) /\ Len(q) \in Nat \ {0}
      /\ DOMAIN Tail(q) = 1..Len(q)-1
      /\ \A i \in 1..Len(q)-1 : Tail(q)[i] = q[i + 1]
      /\ Head(q) = q[1]
      /\ Tail(q) \in Seq(S)
  OBVIOUS
<1>2. T \in SUBSET (1..Len(q)-1) /\ \A i \in 1..Len(q)-1 : i \in T <=> i + 1 \in P \ {1}
  BY <1>1 DEF Packets
<1>3. P \in SUBSET (1..Len(q)) /\ (1 \in P <=> Head(q) = "packet")
  BY <1>1 DEF Packets
<1> HIDE DEF P, T
<1>4. f \in Injection(T, P \ {1})
  BY <1>1, <1>2 DEF Injection, IsInjective
<1>5. f \in Surjection(T, P \ {1})
  <2>1. ASSUME NEW j \in P \ {1} PROVE \E i \in T : f[i] = j
    <3>1. j - 1 \in 1..Len(q)-1 /\ (j - 1) + 1 = j
      BY <1>1, <1>3
    <3> QED
      BY <1>2, <3>1
  <2> QED
    BY <1>4, <2>1 DEF Surjection, Injection
<1>6. IsFiniteSet(T) /\ IsFiniteSet(P) /\ Cardinality(P) \in Nat
  BY <1>1, PacketsFinite DEF P, T
<1> HIDE DEF f
<1>7. Cardinality(P \ {1}) = Cardinality(T)
  BY <1>4, <1>5, <1>6, FS_Surjection
<1>8. Cardinality(P \ {1}) = IF 1 \in P THEN Cardinality(P) - 1 ELSE Cardinality(P)
  BY <1>6, FS_RemoveElement
<1> QED
  BY <1>3, <1>6, <1>7, <1>8 DEF P, T

Messages == {"packet", "up", "down", "api"}

PoolInv ==
  /\ pbufs \in Int /\ netbufs \in Int
  /\ mbox \in Seq(Messages)
  /\ tcp = "fetch" => msg # "packet"
  /\ PbufsConserved

\* What a message in hand and a buffer in the thread's hands count.
MsgCount == IF msg = "packet" THEN 1 ELSE 0
InHand   == IF lw = "input" THEN 1 ELSE 0

LEMMA Conserved ==
  PbufsConserved <=> pbufs + netbufs + (Cardinality(Packets(mbox)) + MsgCount) + InHand = Pool
  BY DEF PbufsConserved, InStack, Packets, MsgCount, InHand

\* A step that leaves everything a buffer can be in as it is.
LEMMA PoolKept ==
  ASSUME PoolInv, UNCHANGED <<pbufs, netbufs, mbox>>, InHand' = InHand, MsgCount' = MsgCount,
         tcp' = "fetch" => msg' # "packet"
  PROVE  PoolInv'
<1>1. PbufsConserved'
  BY DEF PoolInv, PbufsConserved, InStack, MsgCount, InHand
<1> QED
  BY <1>1 DEF PoolInv

\* The mailbox after a post, if the message is none of the packets.
LEMMA PostKeeps ==
  ASSUME PoolInv, NEW m \in Messages, TryPost(m)
  PROVE  /\ mbox' \in Seq(Messages)
         /\ Cardinality(Packets(mbox)) \in Nat
         /\ Cardinality(Packets(mbox')) =
              Cardinality(Packets(mbox)) + (IF Len(mbox) < MBox /\ m = "packet" THEN 1 ELSE 0)
<1>1. Cardinality(Packets(mbox)) \in Nat
  BY PacketsFinite DEF PoolInv
<1>2. CASE Len(mbox) < MBox
  <2>1. mbox' = Append(mbox, m)
    BY <1>2 DEF TryPost
  <2>2. mbox' \in Seq(Messages)
    BY <2>1 DEF PoolInv
  <2> QED
    BY <1>1, <1>2, <2>1, <2>2, PacketsAppend DEF PoolInv
<1>3. CASE ~(Len(mbox) < MBox)
  BY <1>1, <1>3 DEF TryPost, PoolInv
<1> QED
  BY <1>2, <1>3

\* The count after a step, from its parts.
LEMMA ConservedAfter ==
  ASSUME pbufs' + netbufs' + (Cardinality(Packets(mbox')) + MsgCount') + InHand' = Pool
  PROVE  PbufsConserved'
  BY DEF PbufsConserved, InStack, Packets, MsgCount, InHand

LEMMA CountTypes ==
  ASSUME PoolInv
  PROVE  /\ Cardinality(Packets(mbox)) \in Nat
         /\ MsgCount \in {0, 1} /\ InHand \in {0, 1}
         /\ pbufs + netbufs + (Cardinality(Packets(mbox)) + MsgCount) + InHand = Pool
  BY PacketsFinite, Conserved DEF PoolInv, MsgCount, InHand

LEMMA PoolHardware ==
  ASSUME PoolInv, Hardware \/ Interrupts
  PROVE  PoolInv'
<1>1. UNCHANGED <<pbufs, netbufs, mbox, lw, tcp, msg>>
  BY DEF Hardware, Interrupts, EthIrq, LinkTimer, ClockTick, lwip, stack
<1>2. InHand' = InHand /\ MsgCount' = MsgCount
  BY <1>1 DEF InHand, MsgCount
<1> QED
  BY <1>1, <1>2, PoolKept DEF PoolInv

LEMMA PoolLoop ==
  ASSUME PoolInv, LwLoop \/ LwGetFrame
  PROVE  PoolInv'
<1>1. UNCHANGED <<pbufs, netbufs, mbox, tcp, msg>>
  BY DEF LwLoop, LwGetFrame, stack
<1>2. (lw # "input" /\ lw' # "input") \/ lw' = lw
  BY DEF LwLoop, LwGetFrame, LwStart, LwArpSent, LwRegister, LwAddEvents, LwWaitAny, LwPoll, lwip, Frames
<1>3. InHand' = InHand /\ MsgCount' = MsgCount
  BY <1>1, <1>2 DEF InHand, MsgCount
<1> QED
  BY <1>1, <1>3, PoolKept DEF PoolInv

LEMMA PoolCompare ==
  ASSUME PoolInv, LwCompare
  PROVE  PoolInv'
<1>1. UNCHANGED <<pbufs, netbufs, tcp, msg>> /\ lw = "compare" /\ lw' \in {"frames", "wait"}
  BY DEF LwCompare, Frames
<1>2. InHand' = InHand /\ MsgCount' = MsgCount
  BY <1>1 DEF InHand, MsgCount
<1>3. mbox' \in Seq(Messages) /\ Cardinality(Packets(mbox')) = Cardinality(Packets(mbox))
  <2>1. CASE UNCHANGED mbox
    BY <2>1 DEF PoolInv
  <2>2. ASSUME NEW m \in {"up", "down"}, TryPost(m)
        PROVE  mbox' \in Seq(Messages) /\ Cardinality(Packets(mbox')) = Cardinality(Packets(mbox))
    BY <2>2, PostKeeps DEF Messages
  <2> QED
    BY <2>1, <2>2 DEF LwCompare
<1>4. PbufsConserved'
  BY <1>1, <1>2, <1>3, CountTypes, ConservedAfter
<1> QED
  BY <1>1, <1>3, <1>4 DEF PoolInv

LEMMA PoolAlloc ==
  ASSUME PoolInv, LwAlloc
  PROVE  PoolInv'
<1>1. UNCHANGED <<netbufs, mbox, tcp, msg>> /\ lw = "alloc"
  BY DEF LwAlloc, stack
<1>2. MsgCount' = MsgCount /\ InHand = 0
  BY <1>1 DEF MsgCount, InHand
<1>3. \/ pbufs' = pbufs - 1 /\ InHand' = 1
      \/ pbufs' = pbufs /\ InHand' = 0
  BY DEF LwAlloc, InHand
<1>4. pbufs' \in Int
  BY <1>3 DEF PoolInv
<1>5. PbufsConserved'
  <2>1. pbufs' + netbufs' + (Cardinality(Packets(mbox')) + MsgCount') + InHand' = Pool
    BY <1>1, <1>2, <1>3, CountTypes DEF PoolInv
  <2> QED
    BY <2>1, ConservedAfter
<1> QED
  BY <1>1, <1>4, <1>5 DEF PoolInv

LEMMA PoolInput ==
  ASSUME PoolInv, LwInput
  PROVE  PoolInv'
<1>1. UNCHANGED <<netbufs, tcp, msg>> /\ lw = "input" /\ lw' = "frames"
  BY DEF LwInput
<1>2. MsgCount' = MsgCount /\ InHand = 1 /\ InHand' = 0
  BY <1>1 DEF MsgCount, InHand
<1>3. CASE Len(mbox) < MBox /\ TryPost("packet") /\ UNCHANGED pbufs
  <2>1. /\ mbox' \in Seq(Messages)
        /\ Cardinality(Packets(mbox')) = Cardinality(Packets(mbox)) + 1
    BY <1>3, PostKeeps DEF Messages
  <2>2. PbufsConserved'
    BY <1>1, <1>2, <1>3, <2>1, CountTypes, ConservedAfter DEF PoolInv
  <2> QED
    BY <1>1, <1>3, <2>1, <2>2 DEF PoolInv
<1>4. CASE Refused /\ UNCHANGED mbox
  <2>1. pbufs' = pbufs + 1 /\ mbox' = mbox
    BY <1>4 DEF Refused
  <2>2. PbufsConserved'
    <3>1. pbufs' + netbufs' + (Cardinality(Packets(mbox')) + MsgCount') + InHand' = Pool
      BY <1>1, <1>2, <2>1, CountTypes DEF PoolInv
    <3> QED
      BY <3>1, ConservedAfter
  <2> QED
    BY <1>1, <2>1, <2>2 DEF PoolInv
<1> QED
  BY <1>3, <1>4 DEF LwInput

LEMMA PoolTcp ==
  ASSUME PoolInv, TcpStep
  PROVE  PoolInv'
<1>1. UNCHANGED lw /\ InHand' = InHand
  BY DEF TcpStep, TcpFetch, TcpSend, TcpDone, lwip, InHand
<1>2. CASE TcpFetch
  <2>1. UNCHANGED <<netbufs, pbufs>> /\ tcp = "fetch" /\ tcp' \in {"send", "done"}
    BY <1>2 DEF TcpFetch
  <2>2. MsgCount = 0
    BY <2>1 DEF PoolInv, MsgCount
  <2>3. /\ mbox' \in Seq(Messages)
        /\ Cardinality(Packets(mbox')) + MsgCount' = Cardinality(Packets(mbox))
    <3>1. CASE mbox # <<>>
      <4>1. msg' = Head(mbox) /\ mbox' = Tail(mbox)
        BY <1>2, <3>1 DEF TcpFetch
      <4>2. Tail(mbox) \in Seq(Messages)
        BY <3>1 DEF PoolInv
      <4>3. Cardinality(Packets(mbox)) = Cardinality(Packets(Tail(mbox))) +
              (IF Head(mbox) = "packet" THEN 1 ELSE 0)
        BY <3>1, PacketsTail DEF PoolInv
      <4> QED
        BY <4>1, <4>2, <4>3 DEF MsgCount
    <3>2. CASE mbox = <<>>
      <4>1. msg' = "timer" /\ mbox' = mbox
        BY <1>2, <3>2 DEF TcpFetch
      <4> QED
        BY <4>1, CountTypes DEF MsgCount, PoolInv
    <3> QED
      BY <3>1, <3>2
  <2>4. PbufsConserved'
    <3>1. pbufs' + netbufs' + (Cardinality(Packets(mbox')) + MsgCount') + InHand' = Pool
      BY <1>1, <2>1, <2>2, <2>3, CountTypes DEF PoolInv
    <3> QED
      BY <3>1, ConservedAfter
  <2> QED
    BY <2>1, <2>3, <2>4 DEF PoolInv
<1>3. CASE TcpSend
  <2>1. UNCHANGED <<pbufs, netbufs, mbox, msg>> /\ tcp = "send" /\ tcp' \in {"send", "done"}
    BY <1>3 DEF TcpSend
  <2> QED
    BY <1>1, <2>1, PoolKept DEF MsgCount
<1>4. CASE TcpDone
  <2>1. UNCHANGED mbox /\ msg' = "none"
    BY <1>4 DEF TcpDone
  <2>2. MsgCount' = 0
    BY <2>1 DEF MsgCount
  <2>3. /\ pbufs' \in Int /\ netbufs' \in Int
        /\ pbufs' + netbufs' = pbufs + netbufs + MsgCount
    BY <1>4 DEF TcpDone, PoolInv, MsgCount
  <2>4. PbufsConserved'
    <3>1. pbufs' + netbufs' + (Cardinality(Packets(mbox')) + MsgCount') + InHand' = Pool
      BY <1>1, <2>1, <2>2, <2>3, CountTypes DEF PoolInv
    <3> QED
      BY <3>1, ConservedAfter
  <2> QED
    BY <2>1, <2>3, <2>4 DEF PoolInv
<1> QED
  BY <1>2, <1>3, <1>4 DEF TcpStep

LEMMA PoolApp ==
  ASSUME PoolInv, AppStep
  PROVE  PoolInv'
<1>1. UNCHANGED <<lw, tcp, msg>> /\ InHand' = InHand /\ MsgCount' = MsgCount
  BY DEF AppStep, AppBorn, AppCall, AppPosted, AppRecv, lwip, stack, InHand, MsgCount
<1>2. CASE UNCHANGED <<pbufs, netbufs, mbox>>
  BY <1>1, <1>2, PoolKept DEF PoolInv
<1>3. CASE TryPost("api") /\ UNCHANGED <<pbufs, netbufs>>
  <2>1. /\ mbox' \in Seq(Messages)
        /\ Cardinality(Packets(mbox')) = Cardinality(Packets(mbox))
    BY <1>3, PostKeeps DEF Messages
  <2>2. PbufsConserved'
    BY <1>1, <1>3, <2>1, CountTypes, ConservedAfter
  <2> QED
    BY <1>1, <1>3, <2>1, <2>2 DEF PoolInv
<1>4. CASE netbufs' = netbufs - 1 /\ pbufs' = pbufs + 1 /\ UNCHANGED mbox
  <2>1. PbufsConserved'
    BY <1>1, <1>4, CountTypes, ConservedAfter DEF PoolInv
  <2> QED
    BY <1>1, <1>4, <2>1 DEF PoolInv
<1> QED
  BY <1>2, <1>3, <1>4 DEF AppStep, AppBorn, AppCall, AppPosted, AppRecv, stack

\* The buffers are counted, and the messages have their types (tcpip.c).
LEMMA PoolInvariant == Spec => []PoolInv
<1>1. Init => PoolInv
  <2> SUFFICES ASSUME Init PROVE PoolInv
    OBVIOUS
  <2>p. Pool \in Nat
    BY LwipAssumption DEF LwipAssumption
  <2>2. pbufs = Pool /\ netbufs = 0 /\ mbox = <<>> /\ msg = "none" /\ lw = "start"
    BY DEF Init
  <2>3. Cardinality(Packets(mbox)) = 0
    <3>1. Packets(mbox) = {}
      BY <2>2 DEF Packets
    <3> QED
      BY <3>1, FS_EmptySet
  <2>4. MsgCount = 0 /\ InHand = 0
    BY <2>2 DEF MsgCount, InHand
  <2>5. PbufsConserved
    BY <2>2, <2>p, <2>3, <2>4, Conserved
  <2> QED
    BY <2>2, <2>p, <2>5 DEF PoolInv
<1>2. PoolInv /\ [Next]_vars => PoolInv'
  <2>1. SUFFICES ASSUME PoolInv, [Next]_vars PROVE PoolInv'
    OBVIOUS
  <2>2. CASE UNCHANGED vars
    <3>1. UNCHANGED <<pbufs, netbufs, mbox, lw, tcp, msg>>
      BY <2>2 DEF vars, lwip, stack
    <3> QED
      BY <2>1, <3>1, PoolKept DEF PoolInv, MsgCount, InHand
  <2> QED
    BY <2>1, <2>2, PoolHardware, PoolLoop, PoolCompare, PoolAlloc, PoolInput, PoolTcp, PoolApp
       DEF Next, LwStep
<1> QED
  BY <1>1, <1>2, PTL DEF Spec

\* No buffer is lost or made on the way through the stack, for any number of
\* buffers and any mailbox (low_level_input, tcpip_input, netbuf_delete).
THEOREM BuffersConserved == Spec => []PbufsConserved
<1>1. PoolInv => PbufsConserved
  BY DEF PoolInv
<1> QED
  BY <1>1, PoolInvariant, PTL

-----------------------------------------------------------------------------
\* The times of the senders: no time leaves the range of systime_t, a thread
\* goes to sleep only with time left, and while it sleeps what its timer has
\* left and what it measured are its time-out.  A time-out that has wrapped to
\* TIME_INFINITE arms no timer.

Timed(d) ==
  /\ d.timeout \in 0..TimeMod-1 /\ d.timer \in 0..TimeMod-1 /\ d.elapsed \in 0..TimeMod-1
  /\ d.pc = "enqueue" => d.timeout > 0
  /\ d.pc = "asleep" =>
       /\ d.timer = INFINITE <=> d.timeout = INFINITE
       /\ d.timer # INFINITE => d.timer > 0 /\ d.timer + d.elapsed = d.timeout

TimesHold ==
  /\ tdqueue \in Seq(Senders)
  /\ \A s \in Senders : Timed(snd[s])

LEMMA Ticks ==
  ASSUME MacAssumption
  PROVE  /\ TimeMod \in Int /\ SendTimeout \in Int /\ INFINITE = TimeMod - 1
         /\ SendTimeout > 0 /\ SendTimeout < TimeMod - 1
  BY DEF MacAssumption, INFINITE

LEMMA TimesKept ==
  ASSUME TimesHold, UNCHANGED senders
  PROVE  TimesHold'
  BY DEF TimesHold, Timed, senders

\* A step of one sender.
LEMMA TimesSender ==
  ASSUME SndInv, TimesHold, NEW s \in Senders, NEW d, Timed(d), snd' = [snd EXCEPT ![s] = d],
         tdqueue' \in Seq(Senders)
  PROVE  TimesHold'
<1>1. \A t \in Senders : snd'[t] = IF t = s THEN d ELSE snd[t]
  BY DEF SndInv
<1>2. \A t \in Senders : Timed(snd'[t])
  BY <1>1 DEF TimesHold
<1>3. \A t \in Senders : Timed(snd[t])'
  BY <1>2 DEF Timed
<1> QED
  BY <1>3 DEF TimesHold

LEMMA IdlingTimed ==
  ASSUME MacAssumption
  PROVE  Timed(Idling)
  BY Ticks DEF Timed, Idling

LEMMA GetTimed ==
  ASSUME MacAssumption, NEW a \in 0..TimeMod-1
  PROVE  Timed([Idling EXCEPT !.pc = "get", !.timeout = a])
  BY Ticks DEF Timed, Idling

LEMMA TimesStart ==
  ASSUME MacAssumption, SndInv, TimesHold, NEW s \in Senders, StartSend(s)
  PROVE  TimesHold'
<1> DEFINE d == [Idling EXCEPT !.pc = "get", !.timeout = SendTimeout]
<1>1. Timed(d)
  <2>1. SendTimeout \in 0..TimeMod-1
    BY Ticks
  <2> QED
    BY <2>1, GetTimed
<1>2. snd' = [snd EXCEPT ![s] = d] /\ tdqueue' = tdqueue
  BY DEF StartSend
<1> HIDE DEF d
<1> QED
  BY <1>1, <1>2, TimesSender DEF TimesHold

LEMMA TimesStep ==
  ASSUME MacAssumption, SndInv, TimesHold, NEW s \in Senders, SenderStep(s)
  PROVE  TimesHold'
<1> DEFINE c == snd[s]
<1>1. c \in Sends /\ Timed(c)
  BY DEF SndInv, TimesHold
<1>2. CASE GetTransmitDescriptor(s)
  <2>1. tdqueue' = tdqueue
    BY <1>2 DEF GetTransmitDescriptor
  <2>2. CASE TxAvailable
    <3> DEFINE d == [c EXCEPT !.pc = "fill", !.desc = txptr]
    <3>1. Timed(d)
      BY <1>1 DEF Timed, Sends
    <3>2. snd' = [snd EXCEPT ![s] = d]
      BY <1>2, <2>2 DEF GetTransmitDescriptor, SndInv
    <3> HIDE DEF d
    <3> QED
      BY <2>1, <3>1, <3>2, TimesSender DEF TimesHold
  <2>3. CASE ~TxAvailable /\ c.timeout > 0
    <3> DEFINE d == [c EXCEPT !.pc = "enqueue"]
    <3>1. Timed(d)
      BY <1>1, <2>3 DEF Timed, Sends
    <3>2. snd' = [snd EXCEPT ![s] = d]
      BY <1>2, <2>3 DEF GetTransmitDescriptor, Goto, SndInv
    <3> HIDE DEF d
    <3> QED
      BY <2>1, <3>1, <3>2, TimesSender DEF TimesHold
  <2>4. CASE ~TxAvailable /\ ~(c.timeout > 0)
    BY <1>2, <2>1, <2>4, IdlingTimed, TimesSender DEF GetTransmitDescriptor, EndSend, TimesHold
  <2> QED
    BY <2>2, <2>3, <2>4
<1>3. CASE EnqueueSender(s)
  <2> DEFINE d == [c EXCEPT !.pc = "asleep", !.timer = c.timeout, !.elapsed = 0]
  <2>1. c.pc = "enqueue"
    BY <1>3 DEF EnqueueSender, At
  <2>2. Timed(d)
    <3>1. d.pc = "asleep" /\ d.timer = c.timeout /\ d.elapsed = 0 /\ d.timeout = c.timeout
      BY <1>1 DEF Sends
    <3>2. c.timeout > 0 /\ c.timeout \in 0..TimeMod-1
      BY <1>1, <2>1 DEF Timed
    <3>3. 0 \in 0..TimeMod-1
      BY Ticks
    <3> HIDE DEF d, c
    <3> QED
      BY <3>1, <3>2, <3>3 DEF Timed
  <2>3. snd' = [snd EXCEPT ![s] = d] /\ tdqueue' = Append(tdqueue, s)
    BY <1>3 DEF EnqueueSender
  <2> HIDE DEF d
  <2>4. tdqueue' \in Seq(Senders)
    BY <2>3 DEF TimesHold
  <2> QED
    BY <2>2, <2>3, <2>4, TimesSender
<1>4. CASE ResumeSender(s)
  <2>1. tdqueue' = tdqueue
    BY <1>4 DEF ResumeSender
  <2>2. CASE At(s, "expired")
    BY <1>4, <2>1, <2>2, IdlingTimed, TimesSender DEF ResumeSender, EndSend, TimesHold
  <2>3. CASE ~At(s, "expired")
    <3> DEFINE a == Remaining(c.timeout, c.elapsed)
               d == [Idling EXCEPT !.pc = "get", !.timeout = a]
    <3>1. a \in 0..TimeMod-1
      <4>1. c.timeout \in Int /\ c.elapsed \in Int
        BY <1>1 DEF Sends
      <4> QED
        BY <4>1, RemainingRange
    <3>2. snd' = [snd EXCEPT ![s] = d]
      BY <1>4, <2>3 DEF ResumeSender
    <3> HIDE DEF a
    <3>3. Timed(d)
      BY <3>1, GetTimed
    <3> HIDE DEF d
    <3> QED
      BY <2>1, <3>2, <3>3, TimesSender DEF TimesHold
  <2> QED
    BY <2>2, <2>3
<1>5. CASE ReleaseTransmitDescriptor(s)
  BY <1>5, IdlingTimed, TimesSender DEF ReleaseTransmitDescriptor, EndSend, TimesHold
<1> QED
  BY <1>2, <1>3, <1>4, <1>5 DEF SenderStep

LEMMA TimesIsr ==
  ASSUME SndInv, TimesHold, MacIsr
  PROVE  TimesHold'
<1>1. CASE "TS" \in status
  <2>1. /\ tdqueue' = <<>>
        /\ snd' = [s \in Senders |-> IF s \in ToSet(tdqueue)
                                       THEN [snd[s] EXCEPT !.pc = "woken"] ELSE snd[s]]
    BY <1>1 DEF MacIsr
  <2>2. ASSUME NEW s \in Senders PROVE Timed([snd[s] EXCEPT !.pc = "woken"]) /\ Timed(snd[s])
    <3> DEFINE c == snd[s]
    <3>1. c \in Sends /\ Timed(c)
      BY DEF SndInv, TimesHold
    <3> HIDE DEF c
    <3>2. Timed([c EXCEPT !.pc = "woken"])
      BY <3>1 DEF Timed, Sends
    <3> QED
      BY <3>1, <3>2 DEF c
  <2>3. \A s \in Senders : Timed(snd'[s])
    BY <2>1, <2>2
  <2>4. \A s \in Senders : Timed(snd[s])'
    BY <2>3 DEF Timed
  <2>5. tdqueue' \in Seq(Senders)
    BY <2>1
  <2> QED
    BY <2>4, <2>5 DEF TimesHold
<1>2. CASE "TS" \notin status
  BY <1>2, TimesKept DEF MacIsr
<1> QED
  BY <1>1, <1>2

LEMMA TimesTick ==
  ASSUME MacAssumption, SndInv, TimesHold, Tick
  PROVE  TimesHold'
<1>1. ASSUME NEW s \in Timing PROVE Timed(Ticked(snd[s]))
  <2> DEFINE d == snd[s]
             a == IF d.pc = "asleep" /\ d.timer # INFINITE THEN d.timer - 1 ELSE d.timer
             p == IF d.pc = "asleep" /\ a = 0 THEN "expired" ELSE d.pc
             b == (d.elapsed + 1) % TimeMod
             e == Ticked(d)
  <2>1. d \in Sends /\ Timed(d) /\ d.pc \in {"asleep", "woken", "expired"}
    BY DEF SndInv, TimesHold, Tick, Timing
  <2>2. Ticked(d) = [d EXCEPT !.timer = a, !.elapsed = b, !.pc = p]
    BY DEF Ticked
  <2> SUFFICES Timed(e)
    OBVIOUS
  <2> HIDE DEF e
  <2>3. e.timeout = d.timeout /\ e.timer = a /\ e.elapsed = b /\ e.pc = p
    <3> HIDE DEF a, b, p, d
    <3> QED
      BY <2>1, <2>2 DEF Sends, e
  <2> HIDE DEF d
  <2>4. d.timeout \in 0..TimeMod-1 /\ d.timer \in 0..TimeMod-1 /\ d.elapsed \in 0..TimeMod-1
        /\ (d.pc = "asleep" => /\ d.timer = INFINITE <=> d.timeout = INFINITE
                               /\ d.timer # INFINITE => d.timer > 0 /\ d.timer + d.elapsed = d.timeout)
    BY <2>1 DEF Timed
  <2>5. b \in 0..TimeMod-1 /\ (d.elapsed + 1 < TimeMod => b = d.elapsed + 1)
    <3>1. TimeMod \in Nat \ {0} /\ d.elapsed \in Nat
      BY <2>4 DEF MacAssumption
    <3> QED
      BY <3>1
  <2> HIDE DEF b
  <2>6. CASE d.pc = "asleep" /\ d.timer # INFINITE
    <3>1. a = d.timer - 1
      BY <2>6
    <3>2. a \in 0..TimeMod-1 /\ a # INFINITE /\ d.timeout # INFINITE /\ a + (d.elapsed + 1) = d.timeout
      BY <2>4, <2>6, <3>1, Ticks
    <3>3. b = d.elapsed + 1
      BY <2>4, <2>5, <3>2, Ticks
    <3>4. p # "enqueue" /\ (p = "asleep" => a > 0)
      <4> HIDE DEF a
      <4>1. a # 0 => a > 0
        BY <3>2, Ticks
      <4> QED
        BY <2>6, <4>1
    <3> HIDE DEF a, p
    <3> QED
      BY <2>3, <2>4, <2>5, <3>2, <3>3, <3>4 DEF Timed
  <2>7. CASE d.pc = "asleep" /\ d.timer = INFINITE
    <3>1. a = INFINITE /\ d.timeout = INFINITE
      BY <2>4, <2>7
    <3>2. INFINITE # 0
      BY Ticks
    <3>3. p = "asleep"
      BY <2>7, <3>1, <3>2
    <3> HIDE DEF a, p
    <3> QED
      BY <2>3, <2>4, <2>5, <2>7, <3>1, <3>3 DEF Timed
  <2>8. CASE d.pc # "asleep"
    <3>1. a = d.timer /\ p = d.pc
      BY <2>8
    <3> HIDE DEF a, p
    <3> QED
      BY <2>1, <2>3, <2>4, <2>5, <2>8, <3>1 DEF Timed
  <2> QED
    BY <2>6, <2>7, <2>8
<1>2. snd' = [s \in Senders |-> IF s \in Timing THEN Ticked(snd[s]) ELSE snd[s]]
  BY DEF Tick
<1>3. \A s \in Senders : Timed(snd'[s])
  BY <1>1, <1>2 DEF TimesHold
<1>4. \A s \in Senders : Timed(snd[s])'
  BY <1>3 DEF Timed
<1>5. tdqueue' \in Seq(Senders)
  BY StillInType DEF Tick, TimesHold
<1> QED
  BY <1>4, <1>5 DEF TimesHold

-----------------------------------------------------------------------------
\* The types, part by part: the driver's flags, the thread, and the stack with
\* the application.

FlagsHold ==
  /\ active \in BOOLEAN /\ phy \in BOOLEAN /\ linkUp \in BOOLEAN
  /\ status \subseteq {"RS", "TS"}

EventIds == {PERIODIC_TIMER_ID, FRAME_RECEIVED_ID}

ThreadHolds ==
  /\ lw \in {"start", "arp", "timer", "register", "add", "wait", "poll", "compare",
             "frames", "alloc", "input"}
  /\ pending \subseteq EventIds /\ events \subseteq EventIds /\ registered \subseteq EventIds
  /\ netUp \in BOOLEAN /\ starved \in BOOLEAN

StackHolds ==
  /\ Len(mbox) <= MBox
  /\ tcp \in {"fetch", "send", "done"}
  /\ msg \in {"none", "packet", "up", "down", "api", "timer"}
  /\ app \in {"unborn", "run", "post", "waitop", "recv"}
  /\ unacked \in 0..SndBuf
  /\ pbufs >= 0 /\ netbufs >= 0

LEMMA FlagsInterrupts ==
  ASSUME FlagsHold, Hardware \/ Interrupts
  PROVE  FlagsHold'
<1>1. CASE Hardware
  <2>1. ASSUME NEW kind, RxFrame(kind) PROVE FlagsHold'
    BY <2>1 DEF RxFrame, FlagsHold
  <2>2. CASE TxDone
    BY <2>2 DEF TxDone, FlagsHold
  <2>3. CASE LinkChanges
    BY <2>3 DEF LinkChanges, FlagsHold
  <2> QED
    BY <1>1, <2>1, <2>2, <2>3 DEF Hardware
<1>2. CASE Interrupts
  BY <1>2 DEF Interrupts, EthIrq, MacIsr, LinkTimer, ClockTick, Tick, mac, FlagsHold
<1> QED
  BY <1>1, <1>2

LEMMA FlagsThreads ==
  ASSUME LwipAssumption, FlagsHold, LwStep \/ TcpStep \/ AppStep
  PROVE  FlagsHold'
<1>0. "lwip" \in Senders /\ "tcpip" \in Senders
  BY DEF LwipAssumption
<1>1. ASSUME NEW s \in Senders, StartSend(s) \/ SenderStep(s) PROVE FlagsHold'
  BY <1>1, SenderStepRings DEF StartSend, FlagsHold
<1>2. CASE UNCHANGED mac
  BY <1>2 DEF mac, FlagsHold
<1>3. CASE MacStart \/ PollLinkStatus
  BY <1>3 DEF MacStart, PollLinkStatus, FlagsHold
<1>4. CASE GetReceiveDescriptor
  BY <1>4 DEF GetReceiveDescriptor, FlagsHold
<1>5. ASSUME NEW i, ReleaseReceiveDescriptor(i) PROVE FlagsHold'
  BY <1>5 DEF ReleaseReceiveDescriptor, FlagsHold
<1>6. CASE LwStep
  <2>1. CASE LwLoop
    BY <1>0, <1>1, <1>2, <1>3, <2>1
       DEF LwLoop, LwStart, LwArpSent, LwRegister, LwAddEvents, LwWaitAny, LwPoll
  <2>2. CASE LwCompare \/ LwInput
    BY <1>2, <2>2 DEF LwCompare, LwInput
  <2>3. CASE LwGetFrame
    BY <1>4, <2>3 DEF LwGetFrame
  <2>4. CASE LwAlloc
    BY <1>5, <2>4 DEF LwAlloc
  <2> QED
    BY <1>6, <2>1, <2>2, <2>3, <2>4 DEF LwStep
<1>7. CASE TcpStep
  BY <1>0, <1>1, <1>2, <1>7 DEF TcpStep, TcpFetch, TcpSend, TcpDone
<1>8. CASE AppStep
  BY <1>2, <1>8 DEF AppStep, AppBorn, AppCall, AppPosted, AppRecv
<1> QED
  BY <1>6, <1>7, <1>8

LEMMA ThreadTypes ==
  ASSUME ThreadHolds, Next
  PROVE  ThreadHolds'
<1>1. CASE UNCHANGED lwip
  BY <1>1 DEF lwip, ThreadHolds
<1>2. CASE Interrupts
  <2>1. CASE EthIrq
    BY <2>1 DEF EthIrq, Broadcast, ThreadHolds, EventIds
  <2>2. CASE LinkTimer
    BY <2>2 DEF LinkTimer, Broadcast, ThreadHolds, EventIds
  <2> QED
    BY <1>1, <1>2, <2>1, <2>2 DEF Interrupts, ClockTick
<1>3. CASE LwLoop
  <2>1. CASE LwStart
    BY <2>1 DEF LwStart, ThreadHolds
  <2>2. CASE LwArpSent \/ LwPoll
    BY <2>2 DEF LwArpSent, LwPoll, ThreadHolds
  <2>3. CASE LwRegister \/ LwAddEvents
    BY <2>3 DEF LwRegister, LwAddEvents, ThreadHolds, EventIds
  <2>4. CASE LwWaitAny
    BY <2>4 DEF LwWaitAny, Frames, ThreadHolds
  <2> QED
    BY <1>1, <1>3, <2>1, <2>2, <2>3, <2>4 DEF LwLoop
<1>4. CASE LwCompare
  BY <1>4 DEF LwCompare, Frames, ThreadHolds
<1>5. CASE LwGetFrame \/ LwInput
  BY <1>5 DEF LwGetFrame, LwInput, ThreadHolds
<1>6. CASE LwAlloc
  BY <1>6 DEF LwAlloc, ThreadHolds
<1>7. CASE TcpStep
  <2>1. ASSUME NEW m PROVE NetUpAfter(m) \in BOOLEAN
    BY DEF NetUpAfter
  <2>2. CASE TcpFetch
    BY <2>1, <2>2 DEF TcpFetch, ThreadHolds
  <2> QED
    BY <1>1, <1>7, <2>2 DEF TcpStep, TcpSend, TcpDone
<1>8. CASE Hardware \/ AppStep
  BY <1>1, <1>8 DEF Hardware, AppStep, AppBorn, AppCall, AppPosted, AppRecv
<1> QED
  BY <1>2, <1>3, <1>4, <1>5, <1>6, <1>7, <1>8 DEF Next, LwStep

LEMMA PostFits ==
  ASSUME LwipAssumption, mbox \in Seq(Messages), Len(mbox) <= MBox, NEW m, TryPost(m)
  PROVE  Len(mbox') <= MBox
<1>1. MBox \in Int /\ Len(mbox) \in Int
  BY DEF LwipAssumption
<1>2. CASE Len(mbox) < MBox
  <2>1. Len(mbox') = Len(mbox) + 1
    BY <1>2 DEF TryPost
  <2> QED
    BY <1>1, <1>2, <2>1
<1>3. CASE ~(Len(mbox) < MBox)
  BY <1>3 DEF TryPost
<1> QED
  BY <1>2, <1>3

LEMMA StackTypes ==
  ASSUME LwipAssumption, PoolInv, StackHolds, Next
  PROVE  StackHolds'
<1>0. mbox \in Seq(Messages) /\ Len(mbox) <= MBox /\ pbufs \in Int /\ netbufs \in Int /\ SndBuf \in Int
  BY DEF PoolInv, StackHolds, LwipAssumption
<1>1. CASE UNCHANGED <<stack, appl, pbufs>>
  BY <1>1 DEF stack, appl, StackHolds
<1>2. CASE LwCompare
  <2>1. Len(mbox') <= MBox
    BY <1>0, <1>2, PostFits DEF LwCompare
  <2> QED
    BY <1>2, <2>1 DEF LwCompare, appl, StackHolds
<1>3. CASE LwAlloc
  BY <1>0, <1>3 DEF LwAlloc, stack, appl, StackHolds
<1>4. CASE LwInput
  <2>1. Len(mbox') <= MBox
    BY <1>0, <1>4, PostFits DEF LwInput
  <2>2. pbufs' >= 0
    BY <1>0, <1>4 DEF LwInput, Refused, StackHolds
  <2> QED
    BY <1>4, <2>1, <2>2 DEF LwInput, appl, StackHolds
<1>5. CASE TcpFetch
  <2>1. CASE mbox # <<>>
    <3>1. msg' = Head(mbox) /\ mbox' = Tail(mbox)
      BY <1>5, <2>1 DEF TcpFetch
    <3>2. Head(mbox) \in Messages /\ Len(Tail(mbox)) = Len(mbox) - 1 /\ Len(mbox) \in Int
      BY <1>0, <2>1
    <3>3. MBox \in Int
      BY DEF LwipAssumption
    <3>4. Len(mbox') <= MBox
      BY <1>0, <3>1, <3>2, <3>3
    <3> QED
      BY <1>5, <3>1, <3>2, <3>4 DEF TcpFetch, appl, StackHolds, Messages
  <2>2. CASE mbox = <<>>
    BY <1>5, <2>2 DEF TcpFetch, appl, StackHolds
  <2> QED
    BY <2>1, <2>2
<1>6. CASE TcpSend
  BY <1>6 DEF TcpSend, appl, StackHolds
<1>7. CASE TcpDone
  BY <1>0, <1>7 DEF TcpDone, StackHolds
<1>8. CASE AppStep
  <2>1. CASE AppBorn
    BY <2>1 DEF AppBorn, stack, StackHolds
  <2>2. CASE AppCall
    <3>1. Len(mbox') <= MBox
      BY <1>0, <2>2, PostFits DEF AppCall
    <3>2. unacked' \in 0..SndBuf
      BY <1>0, <2>2 DEF AppCall, StackHolds
    <3> QED
      BY <2>2, <3>1, <3>2 DEF AppCall, StackHolds
  <2>3. CASE AppPosted
    <3>1. Len(mbox') <= MBox
      BY <1>0, <2>3, PostFits DEF AppPosted
    <3> QED
      BY <2>3, <3>1 DEF AppPosted, StackHolds
  <2>4. CASE AppRecv
    <3>1. 0 \in 0..SndBuf
      BY <1>0 DEF StackHolds
    <3> QED
      BY <1>0, <2>4, <3>1 DEF AppRecv, stack, StackHolds
  <2> QED
    BY <1>8, <2>1, <2>2, <2>3, <2>4 DEF AppStep
<1> QED
  BY <1>1, <1>2, <1>3, <1>4, <1>5, <1>6, <1>7, <1>8
     DEF Next, Hardware, Interrupts, EthIrq, LinkTimer, ClockTick, LwStep, LwLoop, LwGetFrame, TcpStep

LEMMA TimesNext ==
  ASSUME MacAssumption, LwipAssumption, SndInv, TimesHold, Next
  PROVE  TimesHold'
<1>0. "lwip" \in Senders /\ "tcpip" \in Senders
  BY DEF LwipAssumption
<1>1. ASSUME NEW s \in Senders, StartSend(s) \/ SenderStep(s) PROVE TimesHold'
  BY <1>1, TimesStart, TimesStep
<1>2. CASE UNCHANGED mac
  BY <1>2, TimesKept DEF mac
<1>3. CASE MacStart \/ PollLinkStatus
  BY <1>3, TimesKept DEF MacStart, PollLinkStatus
<1>4. CASE Hardware
  BY <1>4, TimesKept DEF Hardware, RxFrame, TxDone, LinkChanges
<1>5. CASE Interrupts
  BY <1>2, <1>5, TimesIsr, TimesTick DEF Interrupts, EthIrq, LinkTimer, ClockTick
<1>6. CASE LwStep
  <2>1. CASE LwLoop
    BY <1>0, <1>1, <1>2, <1>3, <2>1
       DEF LwLoop, LwStart, LwArpSent, LwRegister, LwAddEvents, LwWaitAny, LwPoll
  <2>2. CASE LwCompare \/ LwInput
    BY <1>2, <2>2 DEF LwCompare, LwInput
  <2>3. CASE LwGetFrame
    BY <2>3, TimesKept DEF LwGetFrame, GetReceiveDescriptor
  <2>4. CASE LwAlloc
    BY <2>4, TimesKept DEF LwAlloc, ReleaseReceiveDescriptor
  <2> QED
    BY <1>6, <2>1, <2>2, <2>3, <2>4 DEF LwStep
<1>7. CASE TcpStep
  BY <1>0, <1>1, <1>2, <1>7 DEF TcpStep, TcpFetch, TcpSend, TcpDone
<1>8. CASE AppStep
  BY <1>2, <1>8 DEF AppStep, AppBorn, AppCall, AppPosted, AppRecv
<1> QED
  BY <1>4, <1>5, <1>6, <1>7, <1>8 DEF Next

\* Every variable keeps its type: no mailbox, pool or count leaves its bounds,
\* the times of a sender stay in the range of systime_t, and one that sleeps
\* has a timer that runs out with its time-out, unless the time-out has become
\* TIME_INFINITE (lwip_thread, macWaitTransmitDescriptor).
THEOREM LwTypeCorrect == Spec => []LwTypeOK
<1> DEFINE Types == TimesHold /\ FlagsHold /\ ThreadHolds /\ StackHolds
<1>1. Init => Types
  <2> SUFFICES ASSUME Init PROVE Types
    OBVIOUS
  <2>1. TimesHold
    <3>1. Timed(Idling)
      BY MacAssumption, IdlingTimed
    <3> QED
      BY <3>1 DEF Init, MacInit, TimesHold
  <2>2. FlagsHold
    BY DEF Init, MacInit, FlagsHold
  <2>3. ThreadHolds
    BY DEF Init, ThreadHolds
  <2>4. StackHolds
    BY LwipAssumption DEF Init, StackHolds, LwipAssumption
  <2> QED
    BY <2>1, <2>2, <2>3, <2>4
<1>2. Types /\ ThreadInv /\ PoolInv /\ [Next]_vars => Types'
  <2> SUFFICES ASSUME Types, ThreadInv, PoolInv, [Next]_vars PROVE Types'
    OBVIOUS
  <2>1. CASE UNCHANGED vars
    <3>1. TimesHold'
      BY <2>1, TimesKept DEF vars, mac
    <3>2. FlagsHold' /\ ThreadHolds'
      BY <2>1 DEF vars, mac, lwip, FlagsHold, ThreadHolds
    <3>3. StackHolds'
      BY <2>1 DEF vars, stack, appl, StackHolds
    <3> QED
      BY <3>1, <3>2, <3>3
  <2>2. CASE Next
    <3>1. TimesHold'
      BY <2>2, MacAssumption, LwipAssumption, TimesNext DEF ThreadInv, MacInv
    <3>2. FlagsHold'
      BY <2>2, LwipAssumption, FlagsInterrupts, FlagsThreads DEF Next
    <3>3. ThreadHolds' /\ StackHolds'
      BY <2>2, LwipAssumption, ThreadTypes, StackTypes
    <3> QED
      BY <3>1, <3>2, <3>3
  <2> QED
    BY <2>1, <2>2
<1>3. Types /\ ThreadInv /\ PoolInv => LwTypeOK
  <2> SUFFICES ASSUME Types, ThreadInv, PoolInv PROVE LwTypeOK
    OBVIOUS
  <2>1. MacTypeOK
    <3>1. snd \in [Senders -> [pc : Pcs, timeout : 0..TimeMod-1, timer : 0..TimeMod-1,
                               elapsed : 0..TimeMod-1, desc : 0..TXN-1]]
      <4>1. ASSUME NEW d \in Sends, Timed(d)
            PROVE  d \in [pc : Pcs, timeout : 0..TimeMod-1, timer : 0..TimeMod-1,
                          elapsed : 0..TimeMod-1, desc : 0..TXN-1]
        BY <4>1 DEF Timed, Sends
      <4> QED
        BY <4>1 DEF ThreadInv, MacInv, SndInv, TimesHold
    <3>2. rx \in [0..RXN-1 -> {"DMA", "FRAME", "BAD"}] /\ {rxptr, rxdma} \subseteq 0..RXN-1 /\ held \subseteq 0..RXN-1
      BY DEF ThreadInv, MacInv, RxInv
    <3>3. tx \in [0..TXN-1 -> {"FREE", "LOCKED", "DMA"}] /\ {txptr, txdma} \subseteq 0..TXN-1
      BY DEF ThreadInv, MacInv, TxInv
    <3>4. \A s \in Senders : At(s, "asleep") =>
            /\ snd[s].timer = INFINITE <=> snd[s].timeout = INFINITE
            /\ snd[s].timer # INFINITE =>
                 snd[s].timer > 0 /\ snd[s].timer + snd[s].elapsed = snd[s].timeout
      BY DEF TimesHold, Timed, At
    <3> QED
      BY <3>1, <3>2, <3>3, <3>4 DEF MacTypeOK, TimesHold, FlagsHold, Pcs
  <2>2. pbufs \in 0..Pool /\ netbufs \in 0..Pool
    <3>1. /\ Cardinality(Packets(mbox)) \in Nat /\ MsgCount \in {0, 1} /\ InHand \in {0, 1}
          /\ pbufs + netbufs + (Cardinality(Packets(mbox)) + MsgCount) + InHand = Pool
      BY CountTypes
    <3>2. pbufs \in Int /\ netbufs \in Int /\ pbufs >= 0 /\ netbufs >= 0 /\ Pool \in Int
      BY LwipAssumption DEF PoolInv, StackHolds, LwipAssumption
    <3> DEFINE c == Cardinality(Packets(mbox))
    <3> HIDE DEF c
    <3>3. c >= 0 /\ c \in Int /\ MsgCount \in Int /\ MsgCount >= 0 /\ InHand \in Int /\ InHand >= 0
      BY <3>1 DEF c
    <3>4. pbufs + netbufs + (c + MsgCount) + InHand = Pool
      BY <3>1 DEF c
    <3>5. pbufs <= Pool /\ netbufs <= Pool
      BY <3>2, <3>3, <3>4
    <3> QED
      BY <3>2, <3>5
  <2>3. {pending, events, registered} \subseteq SUBSET {PERIODIC_TIMER_ID, FRAME_RECEIVED_ID}
    BY DEF ThreadHolds, EventIds
  <2> QED
    BY <2>1, <2>2, <2>3 DEF LwTypeOK, PoolInv, Messages, ThreadHolds, StackHolds
<1>4. Spec => []Types
  <2> HIDE DEF Types
  <2> QED
    BY <1>1, <1>2, ThreadInvariant, PoolInvariant, PTL DEF Spec
<1> QED
  <2> HIDE DEF Types
  <2> QED
    BY <1>3, <1>4, ThreadInvariant, PoolInvariant, PTL

=============================================================================
