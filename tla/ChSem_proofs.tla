---------------------------- MODULE ChSem_proofs ----------------------------
(***************************************************************************)
(* What holds of ChSem for any number of threads and semaphores and any    *)
(* bounds, and of the mailboxes of ChMboxes, which are built on two of     *)
(* them, for any number of slots and messages, as long as no mailbox is    *)
(* reset while a call that was granted has not finished.                   *)
(***************************************************************************)
EXTENDS ChMboxes, Queues_proofs

-----------------------------------------------------------------------------
(***************************************************************************)
(* The inductive invariant.  The parts are parameterised by the values     *)
(* they are about, so that the lemmas can speak of the states a call goes  *)
(* through inside its critical section.                                    *)
(***************************************************************************)
States     == {"READY", "CURRENT", "WTSEM"}
Waiting(s) == {t \in Threads : s[t] = "WTSEM"}

\* Thread c, and no other, is the running one.
OneCurrent(s, c) ==
  /\ s \in [Threads -> States]
  /\ c \in Threads
  /\ \A t \in Threads : s[t] = "CURRENT" <=> t = c

MostUrgent(s, c) == \A t \in Ready(s) : prio[t] <= prio[c]

\* The queues hold the threads of W, each where its union says.
QueuesHold(q, W, u) ==
  /\ q \in [Sems -> Seq(Threads)]
  /\ \A s \in Sems :
       /\ IsInjective(q[s])
       /\ \A t \in Threads : t \in ToSet(q[s]) <=> (t \in W /\ u[t] = s)

CountersHold(n, q) ==
  /\ n \in [Sems -> Int]
  /\ \A s \in Sems : Len(q[s]) = IF n[s] < 0 THEN 0 - n[s] ELSE 0

\* A handler interrupts thread code only, never the end of a kernel call, and
\* a timer fires inside a handler.
IsrContext ==
  /\ isr => ~slept[currp]
  /\ \A t \in Threads : vt[t] = "firing" => isr

WaitersSleep ==
  \A t \in Threads : state[t] = "WTSEM" => slept[t] /\ pu[t] \in Sems

IInv ==
  /\ TypeOK
  /\ OneCurrent(state, currp)
  /\ QueuesHold(queue, Waiting(state), pu)
  /\ CountersHold(cnt, queue)
  /\ TimerBelongsToWait
  /\ WaitersSleep
  /\ IsrContext
  /\ ~isr => MostUrgent(state, currp)
-----------------------------------------------------------------------------
\* The scheduler primitives.  Readying waiting threads keeps the running one.
LEMMA ReadyKeepsCurrent ==
  ASSUME NEW s, NEW c, OneCurrent(s, c), NEW W \in SUBSET Waiting(s)
  PROVE  /\ OneCurrent(ReadyI(s, W), c)
         /\ Waiting(ReadyI(s, W)) = Waiting(s) \ W
  BY DEF OneCurrent, ReadyI, Waiting, States

\* Whatever was readied, a reschedule leaves the most urgent thread running.
LEMMA RescheduleRestores ==
  ASSUME NEW s, OneCurrent(s, currp), prio \in [Threads -> Nat], RescheduleS(s, prio)
  PROVE  /\ OneCurrent(state', currp')
         /\ Waiting(state') = Waiting(s)
         /\ \A t \in Ready(state') : prio[t] <= prio[currp']
<1>1. CASE \E t \in Ready(s) : prio[t] > prio[currp]
  <2>1. PICK t \in Highest(s, prio) : SwitchTo(s, t, "READY")
    BY <1>1 DEF RescheduleS
  <2>2. t \in Threads /\ s[t] = "READY" /\ t # currp
    BY <2>1 DEF Highest, Ready, OneCurrent
  <2>3. /\ currp' = t
        /\ state' = [s EXCEPT ![currp] = "READY", ![t] = "CURRENT"]
    BY <2>1 DEF SwitchTo
  <2>4. OneCurrent(state', currp') /\ Waiting(state') = Waiting(s)
    BY <2>2, <2>3 DEF OneCurrent, Waiting, States
  <2>5. ASSUME NEW w \in Ready(state') PROVE prio[w] <= prio[t]
    <3>1. w = currp \/ w \in Ready(s)
      BY <2>2, <2>3 DEF Ready, OneCurrent
    <3>2. \A x \in Ready(s) : prio[x] <= prio[t]
      BY <2>1 DEF Highest
    <3>3. prio[currp] <= prio[t]
      BY <1>1, <3>2, <2>2 DEF Ready, OneCurrent
    <3> QED
      BY <3>1, <3>2, <3>3
  <2> QED
    BY <2>3, <2>4, <2>5
<1>2. CASE ~\E t \in Ready(s) : prio[t] > prio[currp]
  <2>1. state' = s /\ currp' = currp
    BY <1>2 DEF RescheduleS
  <2>2. \A t \in Ready(s) : prio[t] <= prio[currp]
    BY <1>2 DEF Ready, OneCurrent
  <2> QED
    BY <2>1, <2>2
<1> QED
  BY <1>1, <1>2

\* chSchWakeupS compares with the running thread only: enough, because that
\* one was the most urgent before.
LEMMA WakeupRestores ==
  ASSUME NEW t \in Waiting(state), OneCurrent(state, currp), MostUrgent(state, currp),
         prio \in [Threads -> Nat], WakeupS(state, prio, t)
  PROVE  /\ OneCurrent(state', currp')
         /\ Waiting(state') = Waiting(state) \ {t}
         /\ \A w \in Ready(state') : prio[w] <= prio[currp']
<1>1. t \in Threads /\ state[t] = "WTSEM" /\ t # currp /\ currp \in Threads
  BY DEF Waiting, OneCurrent
<1>2. CASE prio[t] <= prio[currp]
  <2>1. state' = ReadyI(state, {t}) /\ currp' = currp
    BY <1>2 DEF WakeupS
  <2>2. Ready(state') = Ready(state) \cup {t}
    BY <2>1, <1>1 DEF Ready, ReadyI, OneCurrent
  <2> QED
    BY <1>1, <1>2, <2>1, <2>2, ReadyKeepsCurrent DEF MostUrgent
<1>3. CASE ~(prio[t] <= prio[currp])
  <2>1. /\ currp' = t
        /\ state' = [state EXCEPT ![currp] = "READY", ![t] = "CURRENT"]
    BY <1>3 DEF WakeupS, SwitchTo
  <2>2. OneCurrent(state', currp') /\ Waiting(state') = Waiting(state) \ {t}
    BY <1>1, <2>1 DEF OneCurrent, Waiting, States
  <2>3. \A w \in Ready(state') : w = currp \/ w \in Ready(state)
    BY <1>1, <2>1 DEF Ready, OneCurrent
  <2>4. \A w \in Ready(state) : w \in Threads
    BY DEF Ready
  <2>5. ASSUME NEW w \in Ready(state') PROVE prio[w] <= prio[t]
    <3>1. prio[currp] \in Nat /\ prio[t] \in Nat /\ prio[currp] <= prio[t]
      BY <1>1, <1>3
    <3>2. CASE w = currp
      BY <3>1, <3>2
    <3>3. CASE w \in Ready(state)
      <4>1. prio[w] \in Nat /\ prio[w] <= prio[currp]
        BY <3>3, <2>4 DEF MostUrgent
      <4> QED
        BY <3>1, <4>1
    <3> QED
      BY <2>3, <3>2, <3>3
  <2> QED
    BY <2>1, <2>2, <2>5
<1> QED
  BY <1>2, <1>3

\* A thread that goes to sleep hands the processor to the most urgent one.
LEMMA SleepSwitches ==
  ASSUME NEW s, NEW time, OneCurrent(s, currp), prio \in [Threads -> Nat],
         GoSleepTimeoutS(s, prio, "WTSEM", time)
  PROVE  /\ OneCurrent(state', currp')
         /\ currp \notin Waiting(s)
         /\ Waiting(state') = Waiting(s) \cup {currp}
         /\ \A w \in Ready(state') : prio[w] <= prio[currp']
<1>1. PICK t \in Highest(s, prio) : SwitchTo(s, t, "WTSEM")
  BY DEF GoSleepTimeoutS
<1>2. t \in Threads /\ s[t] = "READY" /\ t # currp
  BY <1>1 DEF Highest, Ready, OneCurrent
<1>3. /\ currp' = t
      /\ state' = [s EXCEPT ![currp] = "WTSEM", ![t] = "CURRENT"]
  BY <1>1 DEF SwitchTo
<1>4. Ready(state') \subseteq Ready(s)
  BY <1>2, <1>3 DEF Ready, OneCurrent
<1>5. \A x \in Ready(s) : prio[x] <= prio[t]
  BY <1>1 DEF Highest
<1>6. OneCurrent(state', currp') /\ currp \notin Waiting(s)
      /\ Waiting(state') = Waiting(s) \cup {currp}
  BY <1>2, <1>3 DEF OneCurrent, Waiting, States
<1> QED
  BY <1>3, <1>4, <1>5, <1>6
-----------------------------------------------------------------------------
\* The queue and counter of a semaphore move together.

LEMMA DueBounds ==
  ASSUME NEW s \in Sems, NEW n \in Nat, CountersHold(cnt, queue),
         queue \in [Sems -> Seq(Threads)]
  PROVE  /\ Due(s, n) \in 0..Len(queue[s])
         /\ Due(s, n) <= n
         /\ n >= 0 - cnt[s] => Due(s, n) = Len(queue[s])
         /\ n <= 0 - cnt[s] => Due(s, n) = n
<1>1. cnt[s] \in Int /\ Len(queue[s]) = IF cnt[s] < 0 THEN 0 - cnt[s] ELSE 0
  BY DEF CountersHold
<1> QED
  BY <1>1 DEF Due, Minimum

\* n increments: the first waiters leave, the others keep their places.
LEMMA ServeQueue ==
  ASSUME QueuesHold(queue, Waiting(state), pu), CountersHold(cnt, queue),
         pu \in [Threads -> Msgs \cup Sems],
         NEW s \in Sems, NEW n \in Nat, NEW m \in Msgs
  PROVE  /\ Served(s, n) \in SUBSET Waiting(state)
         /\ QueuesHold(QueueAfter(s, n), Waiting(state) \ Served(s, n),
                       Deliver(pu, Served(s, n), m))
         /\ CountersHold([cnt EXCEPT ![s] = @ + n], QueueAfter(s, n))
<1> DEFINE k == Due(s, n)
           W == Served(s, n)
           r == SubSeq(queue[s], k + 1, Len(queue[s]))
           q2 == QueueAfter(s, n)
           u2 == Deliver(pu, W, m)
<1>1. queue \in [Sems -> Seq(Threads)] /\ queue[s] \in Seq(Threads)
  BY DEF QueuesHold
<1>2. k \in 0..Len(queue[s])
  BY <1>1, DueBounds
<1>3. W = {queue[s][i] : i \in 1..k}
  BY DEF Served
<1>4. /\ r \in Seq(Threads)
      /\ Len(r) = Len(queue[s]) - k
      /\ IsInjective(r)
      /\ ToSet(r) = ToSet(queue[s]) \ W
  BY <1>1, <1>2, <1>3, DropFirst DEF QueuesHold
<1>5. W \in SUBSET Waiting(state) /\ \A t \in W : pu[t] = s
  <2>1. W \subseteq ToSet(queue[s]) /\ W \subseteq Threads
    BY <1>1, <1>2, <1>3 DEF ToSet
  <2> QED
    BY <2>1 DEF QueuesHold
<1>6. q2 = [queue EXCEPT ![s] = r]
  BY DEF QueueAfter
<1>7. QueuesHold(q2, Waiting(state) \ W, u2)
  <2> HIDE DEF k, W, r, q2
  <2>1. q2 \in [Sems -> Seq(Threads)]
    BY <1>1, <1>4, <1>6
  <2>2. ASSUME NEW x \in Sems
        PROVE  /\ IsInjective(q2[x])
               /\ \A t \in Threads :
                    t \in ToSet(q2[x]) <=> (t \in Waiting(state) \ W /\ u2[t] = x)
    <3>1. \A t \in Threads : u2[t] = IF t \in W THEN m ELSE pu[t]
      BY DEF Deliver
    <3>2. CASE x = s
      <4>1. q2[x] = r
        BY <1>1, <1>6, <3>2
      <4> QED
        BY <1>4, <1>5, <3>1, <3>2, <4>1 DEF QueuesHold
    <3>3. CASE x # s
      <4>1. q2[x] = queue[x]
        BY <1>1, <1>6, <3>3
      <4> QED
        BY <1>5, <3>1, <3>3, <4>1 DEF QueuesHold
    <3> QED
      BY <3>2, <3>3
  <2> QED
    BY <2>1, <2>2 DEF QueuesHold
<1>8. CountersHold([cnt EXCEPT ![s] = @ + n], q2)
  <2>1. cnt[s] \in Int /\ cnt \in [Sems -> Int]
    BY DEF CountersHold
  <2>2. Len(r) = IF cnt[s] + n < 0 THEN 0 - (cnt[s] + n) ELSE 0
    <3>1. Len(queue[s]) = IF cnt[s] < 0 THEN 0 - cnt[s] ELSE 0
      BY DEF CountersHold
    <3>2. k = IF cnt[s] < 0 THEN Minimum(n, 0 - cnt[s]) ELSE 0
      BY DEF Due
    <3> HIDE DEF k, r
    <3> QED
      BY <1>4, <2>1, <3>1, <3>2 DEF Minimum
  <2> HIDE DEF k, W, r, q2
  <2> QED
    BY <1>1, <1>6, <2>1, <2>2 DEF CountersHold
<1> QED
  BY <1>5, <1>7, <1>8
\* A reset empties the queue: as many threads leave as the counter owes.
LEMMA LateAll ==
  ASSUME QueuesHold(queue, Waiting(state), pu), CountersHold(cnt, queue), NEW s \in Sems
  PROVE  /\ SubSeq(queue[s], 1, Len(queue[s]) - Due(s, 0 - cnt[s])) = <<>>
         /\ Late(s) = ToSet(queue[s])
         /\ Late(s) \in SUBSET Waiting(state)
         /\ \A t \in Threads : t \in Late(s) <=> t \in Waiting(state) /\ pu[t] = s
<1> DEFINE k == Due(s, 0 - cnt[s])
<1>1. queue[s] \in Seq(Threads)
  BY DEF QueuesHold
<1>2. k = Len(queue[s])
  <2>1. cnt[s] \in Int /\ Len(queue[s]) = IF cnt[s] < 0 THEN 0 - cnt[s] ELSE 0
    BY DEF CountersHold
  <2> QED
    BY <2>1 DEF Due, Minimum
<1> HIDE DEF k
<1>3. SubSeq(queue[s], 1, Len(queue[s]) - k) = <<>>
  BY <1>1, <1>2
<1>4. Late(s) = ToSet(queue[s])
  <2>1. Len(queue[s]) - k + 1 .. Len(queue[s]) = DOMAIN queue[s]
    BY <1>1, <1>2
  <2> QED
    BY <2>1 DEF Late, ToSet, k
<1>5. ToSet(queue[s]) \subseteq Threads
  BY <1>1 DEF ToSet
<1> QED
  BY <1>3, <1>4, <1>5 DEF QueuesHold, k

LEMMA ResetQueue ==
  ASSUME QueuesHold(queue, Waiting(state), pu), CountersHold(cnt, queue),
         pu \in [Threads -> Msgs \cup Sems],
         NEW s \in Sems, NEW n \in Nat, ResetI(s, n)
  PROVE  /\ Late(s) \in SUBSET Waiting(state)
         /\ QueuesHold(queue', Waiting(state) \ Late(s), pu')
         /\ CountersHold(cnt', queue')
         /\ pu' = Deliver(pu, Late(s), MSG_RESET)
<1> DEFINE k == Due(s, 0 - cnt[s])
           W == Late(s)
           r == SubSeq(queue[s], 1, Len(queue[s]) - k)
<1>1. queue \in [Sems -> Seq(Threads)] /\ queue[s] \in Seq(Threads)
  BY DEF QueuesHold
<1>2. r = <<>> /\ W \in SUBSET Waiting(state)
      /\ \A t \in Threads : t \in W <=> t \in Waiting(state) /\ pu[t] = s
  BY LateAll
<1>3. queue' = [queue EXCEPT ![s] = r] /\ cnt' = [cnt EXCEPT ![s] = n]
      /\ pu' = Deliver(pu, W, MSG_RESET)
  BY DEF ResetI
<1> HIDE DEF W, r, k
<1>4. \A t \in Threads : pu'[t] = IF t \in W THEN MSG_RESET ELSE pu[t]
  BY <1>3 DEF Deliver
<1>5. QueuesHold(queue', Waiting(state) \ W, pu')
  <2>1. queue' \in [Sems -> Seq(Threads)]
    BY <1>1, <1>2, <1>3
  <2>2. ASSUME NEW x \in Sems
        PROVE  /\ IsInjective(queue'[x])
               /\ \A t \in Threads :
                    t \in ToSet(queue'[x]) <=> (t \in Waiting(state) \ W /\ pu'[t] = x)
    <3>1. CASE x = s
      <4>1. queue'[x] = <<>>
        BY <1>1, <1>2, <1>3, <3>1
      <4>2. IsInjective(<<>>) /\ ToSet(<<>>) = {}
        BY DEF IsInjective, ToSet
      <4> QED
        BY <1>2, <1>4, <3>1, <4>1, <4>2
    <3>2. CASE x # s
      <4>1. queue'[x] = queue[x]
        BY <1>1, <1>3, <3>2
      <4> QED
        BY <1>2, <1>4, <3>2, <4>1 DEF QueuesHold
    <3> QED
      BY <3>1, <3>2
  <2> QED
    BY <2>1, <2>2 DEF QueuesHold
<1>6. CountersHold(cnt', queue')
  BY <1>1, <1>2, <1>3 DEF CountersHold
<1> QED
  BY <1>3, <1>2, <1>5, <1>6 DEF W

\* A wait that finds no token: one more thread in the queue, one less in cnt.
LEMMA EnqueueQueue ==
  ASSUME NEW q, NEW W \in SUBSET Threads, NEW u \in [Threads -> Msgs \cup Sems], NEW n,
         QueuesHold(q, W, u), CountersHold(n, q),
         NEW s \in Sems, n[s] - 1 < 0, NEW t \in Threads, t \notin W
  PROVE  /\ QueuesHold([q EXCEPT ![s] = Append(@, t)], W \cup {t}, [u EXCEPT ![t] = s])
         /\ CountersHold([n EXCEPT ![s] = @ - 1], [q EXCEPT ![s] = Append(@, t)])
<1> DEFINE r == Append(q[s], t)
           q2 == [q EXCEPT ![s] = r]
           u2 == [u EXCEPT ![t] = s]
<1>1. q \in [Sems -> Seq(Threads)] /\ q[s] \in Seq(Threads) /\ t \notin ToSet(q[s])
  BY DEF QueuesHold
<1>2. /\ r \in Seq(Threads) /\ Len(r) = Len(q[s]) + 1
      /\ IsInjective(r) /\ ToSet(r) = ToSet(q[s]) \cup {t}
  BY <1>1, AppendNew DEF QueuesHold
<1> HIDE DEF r
<1>3. QueuesHold(q2, W \cup {t}, u2)
  <2>1. q2 \in [Sems -> Seq(Threads)]
    BY <1>1, <1>2
  <2>2. ASSUME NEW x \in Sems
        PROVE  /\ IsInjective(q2[x])
               /\ \A w \in Threads :
                    w \in ToSet(q2[x]) <=> (w \in W \cup {t} /\ u2[w] = x)
    <3>1. \A w \in Threads : u2[w] = IF w = t THEN s ELSE u[w]
      OBVIOUS
    <3>2. q2[x] = IF x = s THEN r ELSE q[x]
      BY <1>1
    <3> HIDE DEF q2, u2
    <3>3. CASE x = s
      BY <1>2, <3>1, <3>2, <3>3 DEF QueuesHold
    <3>4. CASE x # s
      BY <1>2, <3>1, <3>2, <3>4 DEF QueuesHold
    <3> QED
      BY <3>3, <3>4
  <2> HIDE DEF q2, u2
  <2> QED
    BY <2>1, <2>2 DEF QueuesHold
<1>4. CountersHold([n EXCEPT ![s] = @ - 1], q2)
  BY <1>1, <1>2 DEF CountersHold
<1> QED
  BY <1>3, <1>4 DEF r

\* A wait that times out: the thread leaves its place and gives back its one.
LEMMA DequeueQueue ==
  ASSUME QueuesHold(queue, Waiting(state), pu), CountersHold(cnt, queue),
         pu \in [Threads -> Msgs \cup Sems],
         NEW t \in Waiting(state), pu[t] \in Sems, NEW m \in Msgs
  PROVE  LET q2 == [queue EXCEPT ![pu[t]] = Dequeue(@, t)] IN
         /\ QueuesHold(q2, Waiting(state) \ {t}, Deliver(pu, {t}, m))
         /\ CountersHold(FastSignalI(pu[t]), q2)
<1> DEFINE s == pu[t]
           r == Dequeue(queue[s], t)
           q2 == [queue EXCEPT ![s] = r]
           u2 == Deliver(pu, {t}, m)
<1>1. queue \in [Sems -> Seq(Threads)] /\ queue[s] \in Seq(Threads) /\ t \in ToSet(queue[s])
      /\ t \in Threads
  BY DEF QueuesHold, Waiting
<1>2. /\ r \in Seq(Threads) /\ Len(r) = Len(queue[s]) - 1
      /\ IsInjective(r) /\ ToSet(r) = ToSet(queue[s]) \ {t}
  BY <1>1, DequeueOne DEF QueuesHold
<1>3. \A w \in Threads : u2[w] = IF w = t THEN m ELSE pu[w]
  BY DEF Deliver
<1> HIDE DEF r, u2
<1>4. QueuesHold(q2, Waiting(state) \ {t}, u2)
  <2>1. q2 \in [Sems -> Seq(Threads)]
    BY <1>1, <1>2
  <2>2. ASSUME NEW x \in Sems
        PROVE  /\ IsInjective(q2[x])
               /\ \A w \in Threads :
                    w \in ToSet(q2[x]) <=> (w \in Waiting(state) \ {t} /\ u2[w] = x)
    <3>1. q2[x] = IF x = s THEN r ELSE queue[x]
      BY <1>1
    <3> HIDE DEF q2
    <3>2. CASE x = s
      BY <1>2, <1>3, <3>1, <3>2 DEF QueuesHold
    <3>3. CASE x # s
      BY <1>1, <1>3, <3>1, <3>3 DEF QueuesHold
    <3> QED
      BY <3>2, <3>3
  <2> HIDE DEF q2
  <2> QED
    BY <2>1, <2>2 DEF QueuesHold
<1>5. CountersHold(FastSignalI(s), q2)
  <2>1. cnt[s] \in Int /\ Len(queue[s]) = IF cnt[s] < 0 THEN 0 - cnt[s] ELSE 0
    BY DEF CountersHold
  <2>2. Len(queue[s]) \in Nat /\ Len(queue[s]) # 0
    <3>1. Len(queue[s]) \in Nat
      BY <1>1
    <3>2. PICK i \in 1..Len(queue[s]) : queue[s][i] = t
      BY <1>1 DEF ToSet
    <3> QED
      BY <3>1, <3>2
  <2> QED
    BY <1>1, <1>2, <2>1, <2>2 DEF CountersHold, FastSignalI
<1> QED
  BY <1>4, <1>5 DEF r, u2
-----------------------------------------------------------------------------
\* The initial states satisfy the invariant, whatever the counters start from.
LEMMA StartInv ==
  ASSUME CoreInit, cnt \in [Sems -> Nat], queue = [s \in Sems |-> <<>>],
         ret = [t \in Threads |-> MSG_OK], call = [t \in Threads |-> None], halted = FALSE
  PROVE  IInv
<1> USE DEF CoreInit
<1>1. PICK t \in Users :
        /\ \A w \in Users : BasePrio[w] <= BasePrio[t]
        /\ currp = t
        /\ state = [w \in Threads |-> IF w = t THEN "CURRENT" ELSE "READY"]
  OBVIOUS
<1>2. OneCurrent(state, currp) /\ Waiting(state) = {}
  BY <1>1 DEF OneCurrent, Waiting, States, Users
<1>3. TypeOK
  <2>1. cnt \in [Sems -> Int]
    BY SemAssumption
  <2>2. queue \in [Sems -> Seq(Threads)]
    OBVIOUS
  <2> QED
    BY <1>2, <2>1, <2>2 DEF TypeOK, OneCurrent, States, Msgs, MSG_OK
<1>4. QueuesHold(queue, Waiting(state), pu)
  <2>1. \A s \in Sems : queue[s] = <<>> /\ IsInjective(<<>>) /\ ToSet(<<>>) = {}
    BY DEF IsInjective, ToSet
  <2> QED
    BY <1>2, <1>3, <2>1 DEF QueuesHold, TypeOK
<1>5. CountersHold(cnt, queue)
  BY SemAssumption, <1>3 DEF CountersHold, TypeOK
<1>6. MostUrgent(state, currp)
  <2> SUFFICES ASSUME NEW w \in Threads PROVE BasePrio[w] <= BasePrio[currp]
    BY DEF MostUrgent, Ready
  <2>1. CASE w = Idle
    BY <1>1, <2>1, CoreAssumption DEF Users
  <2>2. CASE w # Idle
    BY <1>1, <2>2 DEF Users
  <2> QED
    BY <2>1, <2>2
<1>7. TimerBelongsToWait /\ WaitersSleep /\ IsrContext
  BY <1>1, <1>2, <1>3 DEF TimerBelongsToWait, WaitersSleep, IsrContext, TypeOK, Users, Waiting
<1> QED
  BY <1>2, <1>3, <1>4, <1>5, <1>6, <1>7 DEF IInv

LEMMA InitInv == Init => IInv
<1> SUFFICES ASSUME Init PROVE IInv
  OBVIOUS
<1>1. cnt \in [Sems -> Nat]
  BY SemAssumption DEF Init
<1> QED
  BY <1>1, StartInv DEF Init

\* A thread goes to sleep in the queue of s, after a call that has already
\* released the threads of W, and left the values st, q, u and n.
LEMMA SleptInv ==
  ASSUME IInv, ~isr, ~slept[currp],
         NEW W \in SUBSET Waiting(state), NEW m \in Msgs,
         NEW st, OneCurrent(st, currp), Waiting(st) = Waiting(state) \ W,
         NEW u \in [Threads -> Msgs \cup Sems],
         \A t \in Threads : u[t] = IF t \in W THEN m ELSE pu[t],
         NEW q, QueuesHold(q, Waiting(st), u),
         NEW n, CountersHold(n, q),
         NEW s \in Sems, n[s] - 1 < 0,
         cnt' = [n EXCEPT ![s] = @ - 1],
         queue' = [q EXCEPT ![s] = Append(@, currp)],
         pu' = [u EXCEPT ![currp] = s],
         NEW time, GoSleepTimeoutS(st, prio, "WTSEM", time),
         UNCHANGED <<prio, isr, ret, halted>>,
         call' = call \/ call' = [call EXCEPT ![currp] = None]
  PROVE  IInv'
<1>1. /\ vt' = [vt EXCEPT ![currp] = IF time = "INFINITE" THEN "off" ELSE "armed"]
      /\ slept' = [slept EXCEPT ![currp] = TRUE]
  BY DEF GoSleepTimeoutS
<1>2. prio \in [Threads -> Nat] /\ currp \in Threads
  BY CoreAssumption DEF IInv, TypeOK
<1>3. /\ OneCurrent(state', currp')
      /\ currp \notin Waiting(st)
      /\ Waiting(state') = Waiting(st) \cup {currp}
      /\ \A w \in Ready(state') : prio[w] <= prio[currp']
  BY <1>2, SleepSwitches
<1>4. QueuesHold(queue', Waiting(state'), pu') /\ CountersHold(cnt', queue')
  <2>1. Waiting(st) \in SUBSET Threads
    BY DEF Waiting
  <2>2. /\ QueuesHold(queue', Waiting(st) \cup {currp}, pu')
        /\ CountersHold(cnt', queue')
    BY <1>2, <1>3, <2>1, EnqueueQueue
  <2> QED
    BY <1>3, <2>2
<1>5. MostUrgent(state, currp)'
  BY <1>3 DEF MostUrgent
<1>6. TypeOK'
  <2>1. pu' \in [Threads -> Msgs \cup Sems]
    BY <1>2
  <2>2. vt' \in [Threads -> {"off", "armed", "firing"}] /\ slept' \in [Threads -> BOOLEAN]
    BY <1>1 DEF IInv, TypeOK
  <2>3. call' \in [Threads -> {None} \cup
          [s : Sems, w : Sems \cup {None}, n : Int \cup {None}, left : Seq(Sems)]]
    BY <1>2 DEF IInv, TypeOK
  <2>4. /\ prio' = BasePrio /\ isr' \in BOOLEAN /\ ret' \in [Threads -> Msgs]
        /\ halted' \in BOOLEAN
    BY DEF IInv, TypeOK
  <2>5. /\ currp' \in Threads /\ state' \in [Threads -> {"READY", "CURRENT", "WTSEM"}]
        /\ cnt' \in [Sems -> Int] /\ queue' \in [Sems -> Seq(Threads)]
    BY <1>3, <1>4 DEF OneCurrent, States, QueuesHold, CountersHold
  <2> QED
    BY <2>1, <2>2, <2>3, <2>4, <2>5 DEF TypeOK
<1>7. TimerBelongsToWait' /\ WaitersSleep' /\ IsrContext'
  <2>1. ASSUME NEW t \in Threads
        PROVE  /\ state'[t] = "WTSEM" <=> ((state[t] = "WTSEM" /\ t \notin W) \/ t = currp)
               /\ slept'[t] <=> (slept[t] \/ t = currp)
               /\ pu'[t] = IF t = currp THEN s ELSE IF t \in W THEN m ELSE pu[t]
               /\ vt'[t] # "off" => vt[t] # "off" \/ t = currp
               /\ vt'[t] = "firing" => vt[t] = "firing"
    <3>1. state'[t] = "WTSEM" <=> ((state[t] = "WTSEM" /\ t \notin W) \/ t = currp)
      BY <1>3 DEF Waiting
    <3>2. pu'[t] = IF t = currp THEN s ELSE IF t \in W THEN m ELSE pu[t]
      BY <1>2
    <3> QED
      BY <1>1, <1>2, <3>1, <3>2 DEF IInv, TypeOK
  <2> QED
    BY <2>1 DEF TimerBelongsToWait, WaitersSleep, IsrContext, IInv
<1> QED
  BY <1>3, <1>4, <1>5, <1>6, <1>7 DEF IInv

\* A thread calls chSemWait or chSemWaitTimeout.
LEMMA WaitInv ==
  ASSUME IInv, NEW s \in Sems, NEW time \in Timeouts, Wait(s, time)
  PROVE  IInv'
<1>1. /\ ~halted /\ ~isr /\ ~slept[currp] /\ halted' = halted /\ call' = call
      /\ cnt[s] \in Int /\ cnt \in [Sems -> Int] /\ currp \in Threads
  BY DEF Wait, MayCall, Running, IInv, TypeOK
<1>2. CASE cnt[s] - 1 < 0 /\ time # "IMMEDIATE"
  <2>1. /\ cnt' = [cnt EXCEPT ![s] = @ - 1]
        /\ queue' = [queue EXCEPT ![s] = Append(@, currp)]
        /\ pu' = [pu EXCEPT ![currp] = s]
        /\ GoSleepTimeoutS(state, prio, "WTSEM", time)
        /\ UNCHANGED <<prio, isr, ret, halted>>
    BY <1>1, <1>2 DEF Wait
  <2>2. /\ {} \in SUBSET Waiting(state) /\ Waiting(state) = Waiting(state) \ {}
        /\ pu \in [Threads -> Msgs \cup Sems] /\ MSG_OK \in Msgs
        /\ \A t \in Threads : pu[t] = IF t \in {} THEN MSG_OK ELSE pu[t]
        /\ QueuesHold(queue, Waiting(state), pu) /\ CountersHold(cnt, queue)
        /\ OneCurrent(state, currp)
    BY DEF IInv, TypeOK, Msgs
  <2> QED
    BY <1>1, <1>2, <2>1, <2>2, SleptInv
<1>3. CASE ~(cnt[s] - 1 < 0) \/ time = "IMMEDIATE"
  <2>1. UNCHANGED <<core, queue>> /\ ret' \in [Threads -> Msgs]
    BY <1>1, <1>3 DEF Wait, IInv, TypeOK, Msgs, MSG_OK, MSG_TIMEOUT
  <2>2. cnt' = cnt \/ (cnt[s] > 0 /\ cnt' = [cnt EXCEPT ![s] = @ - 1])
    BY <1>1, <1>3 DEF Wait
  <2>3. CountersHold(cnt', queue')
    BY <1>1, <2>1, <2>2 DEF IInv, CountersHold
  <2>4. TypeOK'
    BY <1>1, <2>1, <2>3 DEF IInv, TypeOK, core, CountersHold
  <2> QED
    BY <2>1, <2>3, <2>4
       DEF IInv, core, TimerBelongsToWait, WaitersSleep, IsrContext, MostUrgent
<1> QED
  BY <1>2, <1>3
\* A thread that was readied completes its call and returns its message.
LEMMA ResumeInv == IInv /\ Resume => IInv'
<1> SUFFICES ASSUME IInv, Resume PROVE IInv'
  OBVIOUS
<1>1. /\ ~isr /\ slept[currp] /\ currp \in Threads
      /\ slept' = [slept EXCEPT ![currp] = FALSE]
      /\ vt' = [vt EXCEPT ![currp] = "off"]
      /\ ret' = [ret EXCEPT ![currp] = pu[currp]]
      /\ UNCHANGED <<currp, state, prio, pu, isr, cnt, queue, call, halted>>
  BY DEF Resume, Resuming, EndSleep, IInv, TypeOK
<1>2. state[currp] # "WTSEM"
  BY <1>1 DEF IInv, OneCurrent
<1>3. pu[currp] \in Msgs
  BY <1>1, <1>2 DEF IInv, TimerBelongsToWait
<1>4. TypeOK'
  BY <1>1, <1>3 DEF IInv, TypeOK
<1>5. ASSUME NEW t \in Threads
      PROVE  /\ slept'[t] <=> slept[t] /\ t # currp
             /\ vt'[t] = IF t = currp THEN "off" ELSE vt[t]
  BY <1>1 DEF IInv, TypeOK
<1>6. TimerBelongsToWait' /\ WaitersSleep' /\ IsrContext'
  BY <1>1, <1>2, <1>5 DEF IInv, TimerBelongsToWait, WaitersSleep, IsrContext
<1> QED
  BY <1>1, <1>4, <1>6 DEF IInv, MostUrgent

\* The threads of W leave a queue with message m: what the signals, the
\* resets and the time-outs have in common.  The running thread may at the
\* same time come to the end of a call that slept.
LEMMA WokenInv ==
  ASSUME IInv, NEW W \in SUBSET Waiting(state), NEW m \in Msgs,
         OneCurrent(state', currp'),
         Waiting(state') = Waiting(state) \ W,
         pu' = Deliver(pu, W, m),
         QueuesHold(queue', Waiting(state'), pu'),
         CountersHold(cnt', queue'),
         ~isr' => \A t \in Ready(state') : prio[t] <= prio[currp'],
         UNCHANGED <<prio, halted>>, UNCHANGED <<vt, slept>> \/ EndSleep,
         ret' \in [Threads -> Msgs], isr' \in BOOLEAN, IsrContext',
         call' = call \/ call' = [call EXCEPT ![currp] = None]
  PROVE  IInv'
<1>1. \A t \in Threads : pu'[t] = IF t \in W THEN m ELSE pu[t]
  BY DEF Deliver
<1>2. pu' \in [Threads -> Msgs \cup Sems]
  BY DEF Deliver, IInv, TypeOK
<1>3. \A t \in Threads : state'[t] = "WTSEM" <=> state[t] = "WTSEM" /\ t \notin W
  BY DEF Waiting
<1>4. ASSUME NEW t \in Threads
      PROVE  /\ slept'[t] => slept[t]
             /\ state[t] = "WTSEM" => slept'[t] = slept[t]
             /\ vt'[t] # "off" => vt[t] # "off" /\ slept'[t] = slept[t]
  BY DEF EndSleep, IInv, TypeOK, OneCurrent
<1>5. vt' \in [Threads -> {"off", "armed", "firing"}] /\ slept' \in [Threads -> BOOLEAN]
  BY DEF EndSleep, IInv, TypeOK
<1>6. TimerBelongsToWait' /\ WaitersSleep'
  BY <1>1, <1>3, <1>4 DEF IInv, TimerBelongsToWait, WaitersSleep
<1>7. TypeOK'
  BY <1>2, <1>5 DEF IInv, TypeOK, OneCurrent, States, QueuesHold, CountersHold
<1>8. (~isr => MostUrgent(state, currp))'
  BY DEF MostUrgent
<1> QED
  BY <1>6, <1>7, <1>8 DEF IInv

\* chSemReset from a thread.
LEMMA ResetInv ==
  ASSUME IInv, NEW s \in Sems, NEW n \in 0..MaxReset, Reset(s, n)
  PROVE  IInv'
<1>1. /\ ~isr /\ ~slept[currp] /\ ResetI(s, n)
      /\ RescheduleS(ReadyI(state, Late(s)), prio)
      /\ UNCHANGED <<prio, vt, slept, isr, ret, call, halted>>
  BY DEF Reset, MayCall, Running
<1>2. /\ Late(s) \in SUBSET Waiting(state)
      /\ QueuesHold(queue', Waiting(state) \ Late(s), pu')
      /\ CountersHold(cnt', queue')
      /\ pu' = Deliver(pu, Late(s), MSG_RESET)
  <2>1. /\ QueuesHold(queue, Waiting(state), pu) /\ CountersHold(cnt, queue)
        /\ pu \in [Threads -> Msgs \cup Sems] /\ n \in Nat
    BY SemAssumption DEF IInv, TypeOK
  <2> QED
    BY <1>1, <2>1, ResetQueue
<1>3. /\ OneCurrent(ReadyI(state, Late(s)), currp)
      /\ Waiting(ReadyI(state, Late(s))) = Waiting(state) \ Late(s)
  BY <1>2, ReadyKeepsCurrent DEF IInv
<1>4. prio \in [Threads -> Nat]
  BY CoreAssumption DEF IInv, TypeOK
<1>5. /\ OneCurrent(state', currp')
      /\ Waiting(state') = Waiting(state) \ Late(s)
      /\ \A t \in Ready(state') : prio[t] <= prio[currp']
  BY <1>1, <1>3, <1>4, RescheduleRestores
<1>6. IsrContext' /\ isr' \in BOOLEAN /\ ret' \in [Threads -> Msgs] /\ MSG_RESET \in Msgs
  BY <1>1 DEF IInv, IsrContext, TypeOK, Msgs
<1> QED
  BY <1>1, <1>2, <1>5, <1>6, WokenInv

\* The two signal calls before they take the lock.
LEMMA UnlockedInv ==
  ASSUME IInv,
         \/ \E s \in Sems, w \in Sems \cup {None} : StartSignal(s, w)
         \/ AssertReadsCnt
         \/ AssertReadsQueue
  PROVE  IInv'
<1> DEFINE Calls == {None} \cup [s : Sems, w : Sems \cup {None},
                                 n : Int \cup {None}, left : Seq(Sems)]
<1>1. currp \in Threads /\ call \in [Threads -> Calls]
  BY DEF IInv, TypeOK
<1>2. /\ UNCHANGED <<core, cnt, queue, ret>>
      /\ halted' \in BOOLEAN
      /\ call' \in [Threads -> Calls]
  <2>1. CASE \E s \in Sems, w \in Sems \cup {None} : StartSignal(s, w)
    <3>1. PICK s \in Sems, w \in Sems \cup {None} : StartSignal(s, w)
      BY <2>1
    <3> DEFINE l == IF ~DbgAsserts THEN <<>> ELSE IF w = None THEN <<s>> ELSE <<s, w>>
    <3>2. call' = [call EXCEPT ![currp] = [s |-> s, w |-> w, n |-> None, left |-> l]]
      BY <3>1 DEF StartSignal
    <3>5. l \in Seq(Sems)
      OBVIOUS
    <3> HIDE DEF l
    <3>3. [s |-> s, w |-> w, n |-> None, left |-> l] \in Calls
      BY <3>5
    <3>4. UNCHANGED <<core, cnt, queue, ret, halted>>
      BY <3>1 DEF StartSignal
    <3> QED
      BY <1>1, <3>2, <3>3, <3>4 DEF IInv, TypeOK
  <2>2. CASE AssertReadsCnt
    <3>1. /\ call[currp] # None /\ call[currp].left # <<>>
          /\ call' = [call EXCEPT ![currp].n = cnt[Head(call[currp].left)]]
          /\ UNCHANGED <<core, cnt, queue, ret, halted>>
      BY <2>2 DEF AssertReadsCnt, InCall
    <3>2. call[currp] \in Calls \ {None}
      BY <1>1, <3>1
    <3>3. cnt[Head(call[currp].left)] \in Int
      <4>1. Head(call[currp].left) \in Sems
        BY <3>1, <3>2
      <4> QED
        BY <4>1 DEF IInv, TypeOK
    <3>4. [call[currp] EXCEPT !.n = cnt[Head(call[currp].left)]] \in Calls
      BY <3>2, <3>3
    <3> QED
      BY <1>1, <3>1, <3>4 DEF IInv, TypeOK
  <2>3. CASE AssertReadsQueue
    <3>1. /\ call[currp] # None /\ call[currp].left # <<>>
          /\ \/ /\ call' = [call EXCEPT ![currp] =
                     [s |-> @.s, w |-> @.w, n |-> None, left |-> Tail(@.left)]]
                /\ halted' = halted
             \/ call' = call /\ halted' = TRUE
          /\ UNCHANGED <<core, cnt, queue, ret>>
      BY <2>3 DEF AssertReadsQueue, InCall
    <3>2. call[currp] \in Calls \ {None}
      BY <1>1, <3>1
    <3>3. [s |-> call[currp].s, w |-> call[currp].w, n |-> None,
           left |-> Tail(call[currp].left)] \in Calls
      BY <3>1, <3>2
    <3> QED
      BY <1>1, <3>1, <3>3 DEF IInv, TypeOK
  <2> QED
    BY <2>1, <2>2, <2>3
<1> QED
  BY <1>2 DEF IInv, TypeOK, core, OneCurrent, TimerBelongsToWait, WaitersSleep, IsrContext,
              MostUrgent
\* The locked part of chSemSignal.
LEMMA SignalInv == IInv /\ Signal => IInv'
<1> SUFFICES ASSUME IInv, Signal PROVE IInv'
  OBVIOUS
<1> DEFINE s == call[currp].s
           W == Served(s, 1)
<1>1. /\ ~isr /\ s \in Sems /\ currp \in Threads
      /\ cnt' = [cnt EXCEPT ![s] = @ + 1]
      /\ queue' = QueueAfter(s, 1)
      /\ pu' = Deliver(pu, W, MSG_OK)
      /\ IF Due(s, 1) = 1
           THEN WakeupS(state, prio, Head(queue[s]))
           ELSE UNCHANGED <<state, currp>>
      /\ call' = [call EXCEPT ![currp] = None]
      /\ UNCHANGED <<prio, vt, slept, isr, ret, halted>>
  BY DEF Signal, InCall, Running, IInv, TypeOK
<1> HIDE DEF s
<1>2. /\ W \in SUBSET Waiting(state)
      /\ QueuesHold(queue', Waiting(state) \ W, pu')
      /\ CountersHold(cnt', queue')
  <2>1. /\ QueuesHold(queue, Waiting(state), pu) /\ CountersHold(cnt, queue)
        /\ pu \in [Threads -> Msgs \cup Sems] /\ MSG_OK \in Msgs
    BY DEF IInv, TypeOK, Msgs
  <2> QED
    BY <1>1, <2>1, ServeQueue
<1>3. prio \in [Threads -> Nat] /\ MostUrgent(state, currp) /\ OneCurrent(state, currp)
  BY <1>1, CoreAssumption DEF IInv, TypeOK
<1>4. Due(s, 1) \in 0..Len(queue[s]) /\ Due(s, 1) <= 1 /\ queue[s] \in Seq(Threads)
  BY <1>1, DueBounds DEF IInv, TypeOK
<1>5. /\ OneCurrent(state', currp')
      /\ Waiting(state') = Waiting(state) \ W
      /\ \A t \in Ready(state') : prio[t] <= prio[currp']
  <2>1. CASE Due(s, 1) = 1
    <3>1. W = {Head(queue[s])}
      BY <1>4, <2>1 DEF Served
    <3> QED
      BY <1>1, <1>2, <1>3, <2>1, <3>1, WakeupRestores
  <2>2. CASE Due(s, 1) = 0
    <3>1. W = {}
      BY <2>2 DEF Served
    <3> QED
      BY <1>1, <1>3, <2>2, <3>1 DEF MostUrgent
  <2> QED
    BY <1>4, <2>1, <2>2
<1>6. IsrContext' /\ isr' \in BOOLEAN /\ ret' \in [Threads -> Msgs] /\ MSG_OK \in Msgs
  BY <1>1 DEF IInv, IsrContext, TypeOK, Msgs
<1> HIDE DEF W
<1> QED
  BY <1>1, <1>2, <1>5, <1>6, WokenInv
\* The locked part of chSemSignalWait, through the state it leaves between
\* the signal and the wait.
LEMMA SignalWaitInv == IInv /\ SignalWait => IInv'
<1> SUFFICES ASSUME IInv, SignalWait PROVE IInv'
  OBVIOUS
<1> DEFINE s == call[currp].s
           w == call[currp].w
           W == Served(s, 1)
           cntS == [cnt EXCEPT ![s] = @ + 1]
           queueS == QueueAfter(s, 1)
           stateS == ReadyI(state, W)
           puS == Deliver(pu, W, MSG_OK)
<1>1. /\ ~isr /\ ~slept[currp] /\ s \in Sems /\ w \in Sems /\ currp \in Threads
      /\ cnt' = [cntS EXCEPT ![w] = @ - 1]
      /\ call' = [call EXCEPT ![currp] = None]
      /\ UNCHANGED <<prio, isr, halted>>
  BY DEF SignalWait, InCall, Running, IInv, TypeOK
<1>2. IF cntS[w] - 1 < 0
        THEN /\ queue' = [queueS EXCEPT ![w] = Append(@, currp)]
             /\ pu' = [puS EXCEPT ![currp] = w]
             /\ GoSleepTimeoutS(stateS, prio, "WTSEM", "INFINITE")
             /\ UNCHANGED ret
        ELSE /\ queue' = queueS
             /\ pu' = puS
             /\ RescheduleS(stateS, prio)
             /\ ret' = [ret EXCEPT ![currp] = MSG_OK]
             /\ UNCHANGED <<vt, slept>>
  BY DEF SignalWait
<1> HIDE DEF s, w
<1>3. /\ W \in SUBSET Waiting(state)
      /\ QueuesHold(queueS, Waiting(state) \ W, puS)
      /\ CountersHold(cntS, queueS)
  <2>1. /\ QueuesHold(queue, Waiting(state), pu) /\ CountersHold(cnt, queue)
        /\ pu \in [Threads -> Msgs \cup Sems] /\ MSG_OK \in Msgs
    BY DEF IInv, TypeOK, Msgs
  <2> QED
    BY <1>1, <2>1, ServeQueue
<1>4. /\ OneCurrent(stateS, currp) /\ Waiting(stateS) = Waiting(state) \ W
      /\ prio \in [Threads -> Nat]
  BY <1>3, ReadyKeepsCurrent, CoreAssumption DEF IInv, TypeOK
<1>5. /\ puS \in [Threads -> Msgs \cup Sems] /\ MSG_OK \in Msgs
      /\ \A t \in Threads : puS[t] = IF t \in W THEN MSG_OK ELSE pu[t]
  BY DEF Deliver, IInv, TypeOK, Msgs
<1> HIDE DEF W, cntS, queueS, stateS, puS
<1>6. CASE cntS[w] - 1 < 0
  <2>1. /\ queue' = [queueS EXCEPT ![w] = Append(@, currp)]
        /\ pu' = [puS EXCEPT ![currp] = w]
        /\ GoSleepTimeoutS(stateS, prio, "WTSEM", "INFINITE")
        /\ UNCHANGED <<prio, isr, ret, halted>>
    BY <1>1, <1>2, <1>6
  <2>2. /\ QueuesHold(queueS, Waiting(stateS), puS)
        /\ CountersHold(cntS, queueS)
    BY <1>3, <1>4
  <2>3. /\ W \in SUBSET Waiting(state) /\ MSG_OK \in Msgs
        /\ OneCurrent(stateS, currp) /\ Waiting(stateS) = Waiting(state) \ W
        /\ puS \in [Threads -> Msgs \cup Sems]
        /\ \A t \in Threads : puS[t] = IF t \in W THEN MSG_OK ELSE pu[t]
        /\ ~isr /\ ~slept[currp] /\ w \in Sems /\ cntS[w] - 1 < 0
        /\ cnt' = [cntS EXCEPT ![w] = @ - 1]
        /\ call' = [call EXCEPT ![currp] = None]
    BY <1>1, <1>3, <1>4, <1>5, <1>6
  <2> QED
    BY <2>1, <2>2, <2>3, SleptInv, ZenonT(30)
<1>7. CASE ~(cntS[w] - 1 < 0)
  <2>1. /\ OneCurrent(state', currp')
        /\ Waiting(state') = Waiting(state) \ W
        /\ \A t \in Ready(state') : prio[t] <= prio[currp']
    BY <1>2, <1>4, <1>7, RescheduleRestores
  <2>2. CountersHold(cnt', queue')
    BY <1>1, <1>2, <1>3, <1>7 DEF CountersHold
  <2>3. QueuesHold(queue', Waiting(state'), pu')
    BY <1>2, <1>3, <1>7, <2>1
  <2>4. IsrContext' /\ isr' \in BOOLEAN /\ ret' \in [Threads -> Msgs]
    BY <1>1, <1>2, <1>5, <1>7 DEF IInv, IsrContext, TypeOK
  <2> QED
    BY <1>1, <1>2, <1>3, <1>5, <1>7, <2>1, <2>2, <2>3, <2>4, WokenInv DEF puS
<1> QED
  BY <1>6, <1>7
-----------------------------------------------------------------------------
\* Handlers ready threads and leave the switch to the epilogue.
LEMMA IsrAddCounterInv ==
  ASSUME IInv, NEW s \in Sems, NEW n \in 1..MaxAdd, IsrAddCounterI(s, n)
  PROVE  IInv'
<1> DEFINE W == Served(s, n)
<1>1. /\ Interruptible /\ isr' = TRUE
      /\ cnt' = [cnt EXCEPT ![s] = @ + n]
      /\ queue' = QueueAfter(s, n)
      /\ pu' = Deliver(pu, W, MSG_OK)
      /\ state' = ReadyI(state, W)
      /\ UNCHANGED <<currp, prio, vt, slept, ret, call, halted>>
  BY DEF IsrAddCounterI
<1>2. /\ W \in SUBSET Waiting(state)
      /\ QueuesHold(queue', Waiting(state) \ W, pu')
      /\ CountersHold(cnt', queue')
  <2>1. /\ QueuesHold(queue, Waiting(state), pu) /\ CountersHold(cnt, queue)
        /\ pu \in [Threads -> Msgs \cup Sems] /\ MSG_OK \in Msgs /\ n \in Nat
    BY SemAssumption DEF IInv, TypeOK, Msgs
  <2> QED
    BY <1>1, <2>1, ServeQueue
<1>3. OneCurrent(state', currp') /\ Waiting(state') = Waiting(state) \ W
  BY <1>1, <1>2, ReadyKeepsCurrent DEF IInv
<1>4. IsrContext' /\ isr' \in BOOLEAN /\ ret' \in [Threads -> Msgs] /\ MSG_OK \in Msgs
  BY <1>1 DEF IInv, IsrContext, Interruptible, TypeOK, Msgs
<1> HIDE DEF W
<1> QED
  BY <1>1, <1>2, <1>3, <1>4, WokenInv

LEMMA IsrResetInv ==
  ASSUME IInv, NEW s \in Sems, NEW n \in 0..MaxReset, IsrResetI(s, n)
  PROVE  IInv'
<1>1. /\ Interruptible /\ isr' = TRUE /\ ResetI(s, n)
      /\ state' = ReadyI(state, Late(s))
      /\ UNCHANGED <<currp, prio, vt, slept, ret, call, halted>>
  BY DEF IsrResetI
<1>2. /\ Late(s) \in SUBSET Waiting(state)
      /\ QueuesHold(queue', Waiting(state) \ Late(s), pu')
      /\ CountersHold(cnt', queue')
      /\ pu' = Deliver(pu, Late(s), MSG_RESET)
  <2>1. /\ QueuesHold(queue, Waiting(state), pu) /\ CountersHold(cnt, queue)
        /\ pu \in [Threads -> Msgs \cup Sems] /\ n \in Nat
    BY SemAssumption DEF IInv, TypeOK
  <2> QED
    BY <1>1, <2>1, ResetQueue
<1>3. OneCurrent(state', currp') /\ Waiting(state') = Waiting(state) \ Late(s)
  BY <1>1, <1>2, ReadyKeepsCurrent DEF IInv
<1>4. IsrContext' /\ isr' \in BOOLEAN /\ ret' \in [Threads -> Msgs] /\ MSG_RESET \in Msgs
  BY <1>1 DEF IInv, IsrContext, Interruptible, TypeOK, Msgs
<1> QED
  BY <1>1, <1>2, <1>3, <1>4, WokenInv

LEMMA ExpireInv ==
  ASSUME IInv, NEW t \in Threads, Expire(t)
  PROVE  IInv'
<1>1. /\ Interruptible /\ vt[t] = "armed" /\ isr' = TRUE
      /\ vt' = [vt EXCEPT ![t] = "firing"]
      /\ UNCHANGED <<currp, state, prio, pu, slept, cnt, queue, ret, call, halted>>
  BY DEF Expire, TimerExpires
<1>2. TypeOK'
  BY <1>1 DEF IInv, TypeOK
<1>3. IsrContext'
  BY <1>1 DEF IInv, IsrContext, Interruptible
<1>4. TimerBelongsToWait' /\ WaitersSleep'
  <2>1. \A w \in Threads : vt'[w] # "off" => vt[w] # "off"
    BY <1>1 DEF IInv, TypeOK
  <2> QED
    BY <1>1, <2>1 DEF IInv, TimerBelongsToWait, WaitersSleep
<1> QED
  BY <1>1, <1>2, <1>3, <1>4 DEF IInv

\* wakeup(): the thread still waits, or was readied by someone else before.
LEMMA TimerWakeupInv ==
  ASSUME IInv, NEW t \in Threads, Wakeup(t)
  PROVE  IInv'
<1>1. /\ vt[t] = "firing" /\ isr /\ slept[t] /\ ~slept[currp]
      /\ vt' = [vt EXCEPT ![t] = "off"]
      /\ UNCHANGED <<currp, prio, slept, isr, ret, call, halted>>
  BY DEF Wakeup, TimerWakeup, IInv, IsrContext, TimerBelongsToWait
<1>2. state[t] = "READY" \/ state[t] = "WTSEM"
  BY <1>1 DEF IInv, OneCurrent, States
<1>3. \A w \in Threads : vt'[w] # "off" => vt[w] # "off" /\ vt'[w] = vt[w]
  BY <1>1 DEF IInv, TypeOK
<1>4. /\ vt' \in [Threads -> {"off", "armed", "firing"}] /\ slept' \in [Threads -> BOOLEAN]
      /\ prio' = BasePrio /\ isr' \in BOOLEAN /\ ret' \in [Threads -> Msgs]
      /\ halted' \in BOOLEAN /\ currp' \in Threads
      /\ call' \in [Threads -> {None} \cup
           [s : Sems, w : Sems \cup {None}, n : Int \cup {None}, left : Seq(Sems)]]
  BY <1>1 DEF IInv, TypeOK
<1>5. CASE state[t] = "READY"
  <2>1. UNCHANGED <<state, pu, cnt, queue>>
    BY <1>5 DEF Wakeup, TimerWakeup
  <2>2. TypeOK'
    BY <1>1, <1>4, <2>1 DEF IInv, TypeOK
  <2> QED
    BY <1>1, <1>3, <2>1, <2>2
       DEF IInv, TimerBelongsToWait, WaitersSleep, IsrContext
<1>6. CASE state[t] = "WTSEM"
  <2>1. /\ state' = ReadyI(state, {t})
        /\ pu' = Deliver(pu, {t}, MSG_TIMEOUT)
        /\ cnt' = FastSignalI(pu[t])
        /\ queue' = [queue EXCEPT ![pu[t]] = Dequeue(@, t)]
    BY <1>6 DEF Wakeup, TimerWakeup
  <2>2. t \in Waiting(state) /\ pu[t] \in Sems /\ MSG_TIMEOUT \in Msgs
    BY <1>6 DEF Waiting, IInv, WaitersSleep, Msgs
  <2>3. /\ OneCurrent(state', currp') /\ Waiting(state') = Waiting(state) \ {t}
    BY <1>1, <2>1, <2>2, ReadyKeepsCurrent DEF IInv
  <2>4. QueuesHold(queue', Waiting(state'), pu') /\ CountersHold(cnt', queue')
    <3>1. /\ QueuesHold(queue, Waiting(state), pu) /\ CountersHold(cnt, queue)
          /\ pu \in [Threads -> Msgs \cup Sems]
      BY DEF IInv, TypeOK
    <3> QED
      BY <2>1, <2>2, <2>3, <3>1, DequeueQueue
  <2>5. \A w \in Threads : pu'[w] = IF w = t THEN MSG_TIMEOUT ELSE pu[w]
    BY <2>1 DEF Deliver
  <2>6. pu' \in [Threads -> Msgs \cup Sems]
    BY <2>1, <2>2 DEF Deliver, IInv, TypeOK
  <2>7. TypeOK'
    BY <1>4, <2>3, <2>4, <2>6
       DEF TypeOK, OneCurrent, States, QueuesHold, CountersHold
  <2>8. \A w \in Threads : state'[w] = "WTSEM" <=> state[w] = "WTSEM" /\ w # t
    BY <2>3 DEF Waiting
  <2>9. TimerBelongsToWait' /\ WaitersSleep' /\ IsrContext'
    BY <1>1, <1>3, <2>2, <2>5, <2>8 DEF IInv, TimerBelongsToWait, WaitersSleep, IsrContext
  <2> QED
    BY <1>1, <2>3, <2>4, <2>7, <2>9 DEF IInv
<1> QED
  BY <1>2, <1>5, <1>6

\* The epilogue switches to the most urgent thread.
LEMMA EndIsrInv == IInv /\ EndIsr => IInv'
<1> SUFFICES ASSUME IInv, EndIsr PROVE IInv'
  OBVIOUS
<1>1. /\ \A t \in Threads : vt[t] # "firing"
      /\ isr' = FALSE
      /\ RescheduleS(state, prio)
      /\ UNCHANGED <<prio, pu, vt, slept, cnt, queue, ret, call, halted>>
  BY DEF EndIsr, IsrExit
<1>2. prio \in [Threads -> Nat] /\ OneCurrent(state, currp)
  BY CoreAssumption DEF IInv, TypeOK
<1>3. /\ OneCurrent(state', currp')
      /\ Waiting(state') = Waiting(state)
      /\ \A t \in Ready(state') : prio[t] <= prio[currp']
  BY <1>1, <1>2, RescheduleRestores
<1>4. \A w \in Threads : state'[w] = "WTSEM" <=> state[w] = "WTSEM"
  BY <1>3 DEF Waiting
<1>5. TypeOK'
  BY <1>1, <1>3 DEF IInv, TypeOK, OneCurrent, States
<1>6. TimerBelongsToWait' /\ WaitersSleep' /\ IsrContext'
  BY <1>1, <1>4 DEF IInv, TimerBelongsToWait, WaitersSleep, IsrContext
<1>7. MostUrgent(state, currp)'
  BY <1>1, <1>3 DEF MostUrgent
<1> QED
  BY <1>1, <1>3, <1>5, <1>6, <1>7 DEF IInv

-----------------------------------------------------------------------------
LEMMA NextInv == IInv /\ [Next]_vars => IInv'
<1> SUFFICES ASSUME IInv, [Next]_vars PROVE IInv'
  OBVIOUS
<1>1. ASSUME NEW s \in Sems, NEW time \in Timeouts, Wait(s, time) PROVE IInv'
  BY <1>1, WaitInv
<1>2. ASSUME NEW s \in Sems, NEW n \in 0..MaxReset, Reset(s, n) PROVE IInv'
  BY <1>2, ResetInv
<1>3. ASSUME \/ \E s \in Sems, w \in Sems \cup {None} : StartSignal(s, w)
             \/ AssertReadsCnt
             \/ AssertReadsQueue
      PROVE  IInv'
  BY <1>3, UnlockedInv
<1>4. CASE Signal \/ SignalWait \/ Resume
  BY <1>4, SignalInv, SignalWaitInv, ResumeInv
<1>5. ASSUME NEW s \in Sems, NEW n \in 1..MaxAdd, IsrAddCounterI(s, n) PROVE IInv'
  BY <1>5, IsrAddCounterInv
<1>6. ASSUME NEW s \in Sems, NEW n \in 0..MaxReset, IsrResetI(s, n) PROVE IInv'
  BY <1>6, IsrResetInv
<1>7. ASSUME NEW t \in Threads, Expire(t) \/ Wakeup(t) PROVE IInv'
  BY <1>7, ExpireInv, TimerWakeupInv
<1>8. CASE EndIsr
  BY <1>8, EndIsrInv
<1>9. CASE UNCHANGED vars
  BY <1>9 DEF vars, core, IInv, TypeOK, OneCurrent, TimerBelongsToWait, WaitersSleep,
              IsrContext, MostUrgent
<1> QED
  BY <1>1, <1>2, <1>3, <1>4, <1>5, <1>6, <1>7, <1>8, <1>9 DEF Next, ThreadStep, IsrStep

\* The inductive invariant holds in every state ChSem can reach.
THEOREM Invariance == Spec => []IInv
<1>1. Init => IInv
  BY InitInv
<1>2. IInv /\ [Next]_vars => IInv'
  BY NextInv
<1> QED
  BY <1>1, <1>2, PTL DEF Spec

\* Type correctness of the kernel state and of every semaphore.
THEOREM TypeCorrect == Spec => []TypeOK
<1>1. IInv => TypeOK
  BY DEF IInv
<1> QED
  BY <1>1, Invariance, PTL

\* queue_dequeue(tp) in wakeup() always finds tp in the queue of the
\* semaphore named in its union, however signals, resets and time-outs of any
\* number of threads interleave.
THEOREM QueuesAreConsistent == Spec => []QueuesMatchStates
<1>1. IInv => QueuesMatchStates
  BY DEF IInv, QueuesHold, QueuesMatchStates, Waiting
<1> QED
  BY <1>1, Invariance, PTL

\* A negative s_cnt is the exact number of threads in s_queue.
THEOREM CountersAreConsistent == Spec => []CounterMatchesQueue
<1>1. IInv => CounterMatchesQueue
  BY DEF IInv, CountersHold, CounterMatchesQueue
<1> QED
  BY <1>1, Invariance, PTL

\* Thread code runs with nothing more urgent ready: chSysUnlock's assertion.
THEOREM NoPriorityViolation == Spec => []PriorityOrder
<1>1. IInv => PriorityOrder
  BY DEF IInv, MostUrgent, PriorityOrder
<1> QED
  BY <1>1, Invariance, PTL

\* No timer outlives its wait, and every ended wait has its message.
THEOREM TimersAreConsistent == Spec => []TimerBelongsToWait
<1>1. IInv => TimerBelongsToWait
  BY DEF IInv
<1> QED
  BY <1>1, Invariance, PTL

-----------------------------------------------------------------------------
(***************************************************************************)
(* The kernel's semaphores implement Semaphore, for any number of threads  *)
(* and semaphores and any bounds: the token pool and the line of waiting   *)
(* threads see no scheduler, no negative counter and no handler.           *)
(***************************************************************************)

\* What a step does to the outcomes.

\* The threads of W are told m; the call of nobody else begins or ends.
LEMMA OutcomeWoken ==
  ASSUME IInv, NEW W \in SUBSET Waiting(state), NEW m \in Msgs,
         Waiting(state') = Waiting(state) \ W,
         pu' = Deliver(pu, W, m), UNCHANGED <<slept, ret>>
  PROVE  Outcome' = [t \in Threads |-> IF t \in W THEN m ELSE Outcome[t]]
<1>1. \A t \in Threads :
        /\ pu'[t] = IF t \in W THEN m ELSE pu[t]
        /\ state'[t] = "WTSEM" <=> state[t] = "WTSEM" /\ t \notin W
        /\ t \in W => slept[t]
        /\ t \in W => state[t] = "WTSEM"
  BY DEF Deliver, Waiting, IInv, WaitersSleep
<1> QED
  BY <1>1 DEF Outcome

\* Nobody is told anything.
LEMMA OutcomeKept ==
  ASSUME IInv, Waiting(state') = Waiting(state), UNCHANGED <<pu, slept, ret>>
  PROVE  Outcome' = Outcome
<1>1. \A t \in Threads : state'[t] = "WTSEM" <=> state[t] = "WTSEM"
  BY DEF Waiting
<1> QED
  BY <1>1 DEF Outcome

\* The same, and the running thread is told k without sleeping.
LEMMA OutcomeTold ==
  ASSUME IInv, ~slept[currp], NEW W \in SUBSET Waiting(state), NEW m \in Msgs,
         Waiting(state') = Waiting(state) \ W,
         pu' = Deliver(pu, W, m), slept' = slept,
         NEW k \in Msgs, ret' = [ret EXCEPT ![currp] = k]
  PROVE  Outcome' = [[t \in Threads |-> IF t \in W THEN m ELSE Outcome[t]]
                       EXCEPT ![currp] = k]
<1>1. currp \in Threads /\ ret \in [Threads -> Msgs]
  BY DEF IInv, TypeOK
<1>2. \A t \in Threads :
        /\ pu'[t] = IF t \in W THEN m ELSE pu[t]
        /\ state'[t] = "WTSEM" <=> state[t] = "WTSEM" /\ t \notin W
        /\ t \in W => slept[t]
        /\ t \in W => state[t] = "WTSEM"
        /\ ret'[t] = IF t = currp THEN k ELSE ret[t]
  BY <1>1 DEF Deliver, Waiting, IInv, WaitersSleep
<1> QED
  BY <1>1, <1>2 DEF Outcome

\* The running thread goes to sleep, after a call that told m to those of W.
LEMMA OutcomeSlept ==
  ASSUME IInv, ~slept[currp],
         NEW W \in SUBSET Waiting(state), NEW m \in Msgs,
         Waiting(state') = (Waiting(state) \ W) \cup {currp},
         \A t \in Threads \ {currp} : pu'[t] = IF t \in W THEN m ELSE pu[t],
         slept' = [slept EXCEPT ![currp] = TRUE], ret' = ret
  PROVE  Outcome' = [[t \in Threads |-> IF t \in W THEN m ELSE Outcome[t]]
                       EXCEPT ![currp] = "WAITING"]
<1>1. currp \in Threads /\ slept \in [Threads -> BOOLEAN]
  BY DEF IInv, TypeOK
<1>2. \A t \in Threads :
        /\ state'[t] = "WTSEM" <=> (state[t] = "WTSEM" /\ t \notin W) \/ t = currp
        /\ t \in W => slept[t] /\ t # currp
        /\ slept'[t] <=> slept[t] \/ t = currp
  BY <1>1 DEF Waiting, IInv, WaitersSleep
<1> QED
  BY <1>1, <1>2 DEF Outcome

\* A running thread outside of a call is not waiting.
LEMMA CallerNotWaiting ==
  ASSUME IInv, ~slept[currp]
  PROVE  currp \in Threads /\ Outcome[currp] # "WAITING"
<1>1. currp \in Threads /\ ret[currp] \in Msgs
  BY DEF IInv, TypeOK
<1> QED
  BY <1>1 DEF Outcome, Msgs, MSG_OK, MSG_TIMEOUT, MSG_RESET

\* Tokens are left only where nobody waits.
LEMMA TokensOrLine ==
  ASSUME IInv, NEW s \in Sems
  PROVE  /\ cnt[s] \in Int /\ cnt \in [Sems -> Int]
         /\ queue[s] \in Seq(Threads) /\ queue \in [Sems -> Seq(Threads)]
         /\ Tokens[s] = IF cnt[s] > 0 THEN cnt[s] ELSE 0
         /\ Len(queue[s]) = IF cnt[s] < 0 THEN 0 - cnt[s] ELSE 0
  BY DEF IInv, TypeOK, CountersHold, Tokens

-----------------------------------------------------------------------------
\* The operations on tokens and lines.

\* n increments give n tokens: first to the line, the rest to the pool.
LEMMA GiveTokens ==
  ASSUME IInv, NEW s \in Sems, NEW n \in Nat,
         cnt' = [cnt EXCEPT ![s] = @ + n],
         queue' = QueueAfter(s, n),
         Outcome' = [t \in Threads |-> IF t \in Served(s, n) THEN MSG_OK ELSE Outcome[t]]
  PROVE  Abstract!Give(s, n)
<1> DEFINE k == Abstract!Minimum(n, Len(queue[s]))
<1>1. /\ cnt[s] \in Int /\ cnt \in [Sems -> Int]
      /\ queue[s] \in Seq(Threads)
      /\ Tokens[s] = IF cnt[s] > 0 THEN cnt[s] ELSE 0
      /\ Len(queue[s]) = IF cnt[s] < 0 THEN 0 - cnt[s] ELSE 0
  BY TokensOrLine
<1>2. /\ Due(s, n) = k /\ k \in Nat
      /\ k = IF n < Len(queue[s]) THEN n ELSE Len(queue[s])
  BY <1>1 DEF Due, Minimum, Abstract!Minimum
<1> HIDE DEF k
<1>3. queue' = [queue EXCEPT ![s] = SubSeq(@, k + 1, Len(@))]
  BY <1>2 DEF QueueAfter
<1>4. Tokens' = [Tokens EXCEPT ![s] = @ + n - k]
  <2>1. \A x \in Sems : cnt'[x] = IF x = s THEN cnt[s] + n ELSE cnt[x]
    BY <1>1
  <2>2. (IF cnt'[s] > 0 THEN cnt'[s] ELSE 0) = (IF cnt[s] > 0 THEN cnt[s] ELSE 0) + n - k
    BY <1>1, <1>2, <2>1
  <2> QED
    BY <2>1, <2>2 DEF Tokens
<1>5. \A t \in Threads : t \in Served(s, n) <=> \E i \in 1..k : queue[s][i] = t
  BY <1>2 DEF Served
<1>6. Outcome' = [t \in Threads |->
                    IF \E i \in 1..k : queue[s][i] = t THEN "MSG_OK" ELSE Outcome[t]]
  BY <1>5 DEF MSG_OK
<1> QED
  BY <1>3, <1>4, <1>6 DEF Abstract!Give, k

\* A reset leaves n tokens and nobody in the line.
LEMMA RestartTokens ==
  ASSUME IInv, NEW s \in Sems, NEW n \in Nat, ResetI(s, n),
         Outcome' = [t \in Threads |-> IF t \in Late(s) THEN MSG_RESET ELSE Outcome[t]]
  PROVE  Abstract!Restart(s, n)
<1>1. /\ cnt[s] \in Int /\ cnt \in [Sems -> Int]
      /\ queue[s] \in Seq(Threads)
      /\ Len(queue[s]) = IF cnt[s] < 0 THEN 0 - cnt[s] ELSE 0
  BY TokensOrLine
<1>2. Due(s, 0 - cnt[s]) = Len(queue[s])
  BY <1>1 DEF Due, Minimum
<1>3. SubSeq(queue[s], 1, Len(queue[s]) - Due(s, 0 - cnt[s])) = <<>>
  BY <1>1, <1>2
<1>4. queue' = [queue EXCEPT ![s] = <<>>] /\ cnt' = [cnt EXCEPT ![s] = n]
  BY <1>3 DEF ResetI
<1>5. Tokens' = [Tokens EXCEPT ![s] = n]
  <2>1. \A x \in Sems : cnt'[x] = IF x = s THEN n ELSE cnt[x]
    BY <1>1, <1>4
  <2>2. (IF cnt'[s] > 0 THEN cnt'[s] ELSE 0) = n
    BY <2>1
  <2> QED
    BY <2>1, <2>2 DEF Tokens
<1>6. \A t \in Threads : t \in Late(s) <=> \E i \in DOMAIN queue[s] : queue[s][i] = t
  <2>1. Len(queue[s]) - Due(s, 0 - cnt[s]) + 1 .. Len(queue[s]) = DOMAIN queue[s]
    BY <1>1, <1>2
  <2> QED
    BY <2>1 DEF Late
<1>7. Outcome' = [t \in Threads |->
                    IF \E i \in DOMAIN queue[s] : queue[s][i] = t
                      THEN "MSG_RESET" ELSE Outcome[t]]
  BY <1>6 DEF MSG_RESET
<1> QED
  BY <1>4, <1>5, <1>7 DEF Abstract!Restart

\* A step that touches neither counters nor queues nor outcomes.
LEMMA Stutters ==
  ASSUME UNCHANGED <<cnt, queue>>, Outcome' = Outcome
  PROVE  UNCHANGED Abstract!absVars
  BY DEF Abstract!absVars, Tokens

-----------------------------------------------------------------------------
\* The initial states, and each operation.

LEMMA InitMaps == Init => Abstract!AbsInit
<1> SUFFICES ASSUME Init PROVE Abstract!AbsInit
  OBVIOUS
<1>1. Tokens \in [Sems -> 0..MaxReset] /\ queue = [s \in Sems |-> <<>>]
  BY SemAssumption DEF Init, Tokens
<1>2. Outcome = [t \in Threads |-> "MSG_OK"]
  BY DEF Init, CoreInit, Outcome, MSG_OK
<1> QED
  BY <1>1, <1>2 DEF Abstract!AbsInit

\* A wait takes a token, is refused, or joins the line.
LEMMA WaitMaps ==
  ASSUME IInv, NEW s \in Sems, NEW time \in Timeouts, Wait(s, time)
  PROVE  Abstract!AbsNext
<1>1. /\ ~slept[currp] /\ ~isr /\ currp \in Threads /\ Outcome[currp] # "WAITING"
      /\ cnt[s] \in Int /\ cnt \in [Sems -> Int] /\ prio \in [Threads -> Nat]
      /\ OneCurrent(state, currp) /\ pu \in [Threads -> Msgs \cup Sems]
      /\ Tokens[s] = IF cnt[s] > 0 THEN cnt[s] ELSE 0
      /\ MSG_OK \in Msgs /\ MSG_TIMEOUT \in Msgs
  BY CallerNotWaiting, TokensOrLine, CoreAssumption
     DEF Wait, MayCall, Running, IInv, TypeOK, Msgs
<1>2. SUFFICES Abstract!Take(currp, s) \/ Abstract!Refuse(currp, s) \/ Abstract!Queue(currp, s)
  BY <1>1 DEF Abstract!AbsNext
<1>3. ASSUME NEW k \in Msgs, UNCHANGED <<core, queue>>, ret' = [ret EXCEPT ![currp] = k]
      PROVE  Outcome' = [Outcome EXCEPT ![currp] = k]
  <2>1. /\ {} \in SUBSET Waiting(state) /\ Waiting(state') = Waiting(state) \ {}
        /\ pu' = Deliver(pu, {}, MSG_OK) /\ slept' = slept
    BY <1>1, <1>3 DEF Deliver, core
  <2>2. Outcome' = [[t \in Threads |-> IF t \in {} THEN MSG_OK ELSE Outcome[t]]
                      EXCEPT ![currp] = k]
    BY <1>1, <1>3, <2>1, OutcomeTold
  <2> QED
    BY <2>2 DEF Outcome
<1>4. CASE cnt[s] - 1 < 0 /\ time = "IMMEDIATE"
  <2>1. /\ ret' = [ret EXCEPT ![currp] = MSG_TIMEOUT]
        /\ UNCHANGED <<core, cnt, queue>>
    BY <1>4 DEF Wait
  <2>2. Outcome' = [Outcome EXCEPT ![currp] = "MSG_TIMEOUT"]
    BY <1>1, <1>3, <2>1 DEF MSG_TIMEOUT
  <2> QED
    BY <1>1, <1>4, <2>1, <2>2 DEF Abstract!Refuse, Tokens
<1>5. CASE cnt[s] - 1 < 0 /\ time # "IMMEDIATE"
  <2>1. /\ cnt' = [cnt EXCEPT ![s] = @ - 1]
        /\ queue' = [queue EXCEPT ![s] = Append(@, currp)]
        /\ pu' = [pu EXCEPT ![currp] = s]
        /\ GoSleepTimeoutS(state, prio, "WTSEM", time)
        /\ ret' = ret
    BY <1>5 DEF Wait
  <2>2. slept' = [slept EXCEPT ![currp] = TRUE]
    BY <2>1 DEF GoSleepTimeoutS
  <2>3. Waiting(state') = Waiting(state) \cup {currp}
    BY <1>1, <2>1, SleepSwitches
  <2>4. /\ {} \in SUBSET Waiting(state)
        /\ Waiting(state') = (Waiting(state) \ {}) \cup {currp}
        /\ \A t \in Threads \ {currp} : pu'[t] = IF t \in {} THEN MSG_OK ELSE pu[t]
    BY <1>1, <2>1, <2>3
  <2>5. Outcome' = [[t \in Threads |-> IF t \in {} THEN MSG_OK ELSE Outcome[t]]
                      EXCEPT ![currp] = "WAITING"]
    BY <1>1, <2>1, <2>2, <2>4, OutcomeSlept
  <2>6. Outcome' = [Outcome EXCEPT ![currp] = "WAITING"]
    BY <2>5 DEF Outcome
  <2>7. Tokens' = Tokens
    <3>1. \A x \in Sems : (IF cnt'[x] > 0 THEN cnt'[x] ELSE 0) = IF cnt[x] > 0 THEN cnt[x] ELSE 0
      BY <1>1, <1>5, <2>1
    <3> QED
      BY <3>1 DEF Tokens
  <2> QED
    BY <1>1, <1>5, <2>1, <2>6, <2>7 DEF Abstract!Queue
<1>6. CASE ~(cnt[s] - 1 < 0)
  <2>1. /\ cnt' = [cnt EXCEPT ![s] = @ - 1]
        /\ ret' = [ret EXCEPT ![currp] = MSG_OK]
        /\ UNCHANGED <<core, queue>>
    BY <1>6 DEF Wait
  <2>2. Outcome' = [Outcome EXCEPT ![currp] = "MSG_OK"]
    BY <1>1, <1>3, <2>1 DEF MSG_OK
  <2>3. Tokens' = [Tokens EXCEPT ![s] = @ - 1]
    <3>1. \A x \in Sems : cnt'[x] = IF x = s THEN cnt[s] - 1 ELSE cnt[x]
      BY <1>1, <2>1
    <3>2. (IF cnt'[s] > 0 THEN cnt'[s] ELSE 0) = Tokens[s] - 1
      BY <1>1, <1>6, <3>1
    <3> QED
      BY <3>1, <3>2 DEF Tokens
  <2> QED
    BY <1>1, <1>6, <2>1, <2>2, <2>3 DEF Abstract!Take
<1> QED
  BY <1>4, <1>5, <1>6

\* The locked part of chSemSignal gives one token.
LEMMA SignalMaps ==
  ASSUME IInv, Signal
  PROVE  Abstract!AbsNext
<1> DEFINE s == call[currp].s
           W == Served(s, 1)
<1>1. /\ ~isr /\ s \in Sems /\ currp \in Threads
      /\ cnt' = [cnt EXCEPT ![s] = @ + 1]
      /\ queue' = QueueAfter(s, 1)
      /\ pu' = Deliver(pu, W, MSG_OK)
      /\ IF Due(s, 1) = 1
           THEN WakeupS(state, prio, Head(queue[s]))
           ELSE UNCHANGED <<state, currp>>
      /\ UNCHANGED <<slept, ret>>
  BY DEF Signal, InCall, Running, IInv, TypeOK
<1> HIDE DEF s
<1>2. W \in SUBSET Waiting(state)
  <2>1. /\ QueuesHold(queue, Waiting(state), pu) /\ CountersHold(cnt, queue)
        /\ pu \in [Threads -> Msgs \cup Sems] /\ MSG_OK \in Msgs
    BY DEF IInv, TypeOK, Msgs
  <2> QED
    BY <1>1, <2>1, ServeQueue
<1>3. /\ prio \in [Threads -> Nat] /\ MostUrgent(state, currp) /\ OneCurrent(state, currp)
      /\ queue[s] \in Seq(Threads) /\ Due(s, 1) \in 0..Len(queue[s]) /\ Due(s, 1) <= 1
  BY <1>1, DueBounds, CoreAssumption DEF IInv, TypeOK
<1>4. Waiting(state') = Waiting(state) \ W
  <2>1. CASE Due(s, 1) = 1
    <3>1. W = {Head(queue[s])}
      BY <1>3, <2>1 DEF Served
    <3> QED
      BY <1>1, <1>2, <1>3, <2>1, <3>1, WakeupRestores
  <2>2. CASE Due(s, 1) = 0
    <3>1. W = {}
      BY <2>2 DEF Served
    <3> QED
      BY <1>1, <2>2, <3>1
  <2> QED
    BY <1>3, <2>1, <2>2
<1>5. Outcome' = [t \in Threads |-> IF t \in W THEN MSG_OK ELSE Outcome[t]]
  BY <1>1, <1>2, <1>4, OutcomeWoken DEF Msgs
<1>6. Abstract!Give(s, 1)
  BY <1>1, <1>5, GiveTokens
<1> QED
  BY <1>1, <1>6, SemAssumption DEF Abstract!AbsNext

LEMMA AddCounterMaps ==
  ASSUME IInv, NEW s \in Sems, NEW n \in 1..MaxAdd, IsrAddCounterI(s, n)
  PROVE  Abstract!AbsNext
<1> DEFINE W == Served(s, n)
<1>1. /\ cnt' = [cnt EXCEPT ![s] = @ + n]
      /\ queue' = QueueAfter(s, n)
      /\ pu' = Deliver(pu, W, MSG_OK)
      /\ state' = ReadyI(state, W)
      /\ UNCHANGED <<slept, ret>>
      /\ n \in Nat /\ OneCurrent(state, currp)
  BY SemAssumption DEF IsrAddCounterI, IInv
<1>2. W \in SUBSET Waiting(state)
  <2>1. /\ QueuesHold(queue, Waiting(state), pu) /\ CountersHold(cnt, queue)
        /\ pu \in [Threads -> Msgs \cup Sems] /\ MSG_OK \in Msgs
    BY DEF IInv, TypeOK, Msgs
  <2> QED
    BY <1>1, <2>1, ServeQueue
<1>3. Waiting(state') = Waiting(state) \ W
  BY <1>1, <1>2, ReadyKeepsCurrent
<1>4. Outcome' = [t \in Threads |-> IF t \in W THEN MSG_OK ELSE Outcome[t]]
  BY <1>1, <1>2, <1>3, OutcomeWoken DEF Msgs
<1>5. Abstract!Give(s, n)
  BY <1>1, <1>4, GiveTokens
<1> QED
  BY <1>5 DEF Abstract!AbsNext

\* chSemReset and chSemResetI.
LEMMA ResetMaps ==
  ASSUME IInv, NEW s \in Sems, NEW n \in 0..MaxReset,
         Reset(s, n) \/ IsrResetI(s, n)
  PROVE  Abstract!AbsNext
<1>1. /\ ResetI(s, n) /\ UNCHANGED <<slept, ret>> /\ n \in Nat
      /\ \/ RescheduleS(ReadyI(state, Late(s)), prio)
         \/ state' = ReadyI(state, Late(s))
  BY SemAssumption DEF Reset, IsrResetI
<1>2. /\ Late(s) \in SUBSET Waiting(state)
      /\ pu' = Deliver(pu, Late(s), MSG_RESET)
  <2>1. /\ QueuesHold(queue, Waiting(state), pu) /\ CountersHold(cnt, queue)
        /\ pu \in [Threads -> Msgs \cup Sems]
    BY DEF IInv, TypeOK
  <2> QED
    BY <1>1, <2>1, ResetQueue
<1>3. /\ OneCurrent(ReadyI(state, Late(s)), currp)
      /\ Waiting(ReadyI(state, Late(s))) = Waiting(state) \ Late(s)
      /\ prio \in [Threads -> Nat]
  BY <1>2, ReadyKeepsCurrent, CoreAssumption DEF IInv, TypeOK
<1>4. Waiting(state') = Waiting(state) \ Late(s)
  BY <1>1, <1>3, RescheduleRestores
<1>5. Outcome' = [t \in Threads |-> IF t \in Late(s) THEN MSG_RESET ELSE Outcome[t]]
  BY <1>1, <1>2, <1>4, OutcomeWoken DEF Msgs
<1>6. Abstract!Restart(s, n)
  BY <1>1, <1>5, RestartTokens
<1> QED
  BY <1>6 DEF Abstract!AbsNext

\* wakeup() of a thread that still waits takes it out of its line.
LEMMA WakeupMaps ==
  ASSUME IInv, NEW t \in Threads, Wakeup(t)
  PROVE  Abstract!AbsNext \/ UNCHANGED Abstract!absVars
<1>1. /\ slept[t] /\ UNCHANGED <<slept, ret>> /\ OneCurrent(state, currp)
      /\ pu \in [Threads -> Msgs \cup Sems] /\ ~slept[currp]
  BY DEF Wakeup, TimerWakeup, IInv, TypeOK, TimerBelongsToWait, IsrContext
<1>2. CASE state[t] = "READY"
  <2>1. UNCHANGED <<state, pu, cnt, queue>>
    BY <1>2 DEF Wakeup, TimerWakeup
  <2> QED
    BY <1>1, <2>1, OutcomeKept, Stutters
<1>3. CASE state[t] # "READY"
  <2>1. state[t] = "WTSEM" /\ pu[t] \in Sems /\ t \in Waiting(state)
    BY <1>1, <1>3 DEF OneCurrent, States, IInv, WaitersSleep, Waiting
  <2>2. /\ state' = ReadyI(state, {t})
        /\ pu' = Deliver(pu, {t}, MSG_TIMEOUT)
        /\ cnt' = FastSignalI(pu[t])
        /\ queue' = [queue EXCEPT ![pu[t]] = Dequeue(@, t)]
    BY <2>1 DEF Wakeup, TimerWakeup
  <2> DEFINE s == pu[t]
             i == CHOOSE j \in DOMAIN queue[s] : queue[s][j] = t
  <2>3. Waiting(state') = Waiting(state) \ {t}
    BY <1>1, <2>1, <2>2, ReadyKeepsCurrent
  <2>4. Outcome' = [x \in Threads |-> IF x \in {t} THEN MSG_TIMEOUT ELSE Outcome[x]]
    BY <1>1, <2>1, <2>2, <2>3, OutcomeWoken DEF Msgs
  <2>5. Outcome' = [Outcome EXCEPT ![t] = "MSG_TIMEOUT"] /\ Outcome[t] = "WAITING"
    BY <1>1, <2>1, <2>4 DEF Outcome, MSG_TIMEOUT
  <2>6. t \in ToSet(queue[s])
    BY <2>1 DEF IInv, QueuesHold
  <2>7. i \in DOMAIN queue[s] /\ queue[s][i] = t
    BY <2>6 DEF ToSet
  <2>8. Dequeue(queue[s], t) = SubSeq(queue[s], 1, i - 1) \o SubSeq(queue[s], i + 1, Len(queue[s]))
    BY Zenon DEF Dequeue, RemoveAt
  <2> HIDE DEF i
  <2>9. queue' = [queue EXCEPT ![s] = SubSeq(@, 1, i - 1) \o SubSeq(@, i + 1, Len(@))]
    BY <2>2, <2>8
  <2>10. Tokens' = Tokens
    <3>1. /\ cnt[s] \in Int /\ cnt \in [Sems -> Int]
          /\ queue[s] \in Seq(Threads)
          /\ Len(queue[s]) = IF cnt[s] < 0 THEN 0 - cnt[s] ELSE 0
      BY <2>1, TokensOrLine
    <3>2. cnt[s] < 0
      BY <3>1, <2>7
    <3>3. \A x \in Sems : cnt'[x] = IF x = s THEN cnt[s] + 1 ELSE cnt[x]
      BY <2>1, <2>2, <3>1 DEF FastSignalI
    <3>4. \A x \in Sems : (IF cnt'[x] > 0 THEN cnt'[x] ELSE 0) = IF cnt[x] > 0 THEN cnt[x] ELSE 0
      BY <3>1, <3>2, <3>3
    <3> QED
      BY <3>4 DEF Tokens
  <2>11. Abstract!GiveUp(t, s)
    BY <2>5, <2>7, <2>9, <2>10 DEF Abstract!GiveUp
  <2> QED
    BY <2>1, <2>11 DEF Abstract!AbsNext
<1> QED
  BY <1>2, <1>3

\* Steps that only move the processor, end a call, or belong to no operation.
LEMMA QuietMaps ==
  ASSUME IInv,
         \/ \E s \in Sems, w \in Sems \cup {None} : StartSignal(s, w)
         \/ AssertReadsCnt \/ AssertReadsQueue \/ Resume
         \/ \E t \in Threads : Expire(t)
         \/ EndIsr
  PROVE  UNCHANGED Abstract!absVars
<1>1. CASE \/ \E s \in Sems, w \in Sems \cup {None} : StartSignal(s, w)
           \/ AssertReadsCnt \/ AssertReadsQueue
           \/ \E t \in Threads : Expire(t)
  <2>1. UNCHANGED <<state, pu, slept, cnt, queue, ret>>
    BY <1>1 DEF StartSignal, AssertReadsCnt, AssertReadsQueue, Expire, TimerExpires, core
  <2> QED
    BY <2>1, Stutters DEF Outcome
<1>2. CASE Resume
  <2>1. /\ slept[currp] /\ UNCHANGED <<state, pu, cnt, queue>>
        /\ slept' = [slept EXCEPT ![currp] = FALSE]
        /\ ret' = [ret EXCEPT ![currp] = pu[currp]]
        /\ currp \in Threads /\ slept \in [Threads -> BOOLEAN] /\ ret \in [Threads -> Msgs]
        /\ state[currp] # "WTSEM"
    BY <1>2 DEF Resume, Resuming, EndSleep, IInv, TypeOK, OneCurrent
  <2>2. Outcome' = Outcome
    BY <2>1 DEF Outcome
  <2> QED
    BY <2>1, <2>2, Stutters
<1>3. CASE EndIsr
  <2>1. RescheduleS(state, prio) /\ UNCHANGED <<pu, slept, cnt, queue, ret>>
    BY <1>3 DEF EndIsr, IsrExit
  <2>2. prio \in [Threads -> Nat] /\ OneCurrent(state, currp)
    BY CoreAssumption DEF IInv, TypeOK
  <2>3. Waiting(state') = Waiting(state)
    BY <2>1, <2>2, RescheduleRestores
  <2> QED
    BY <2>1, <2>3, OutcomeKept, Stutters
<1> QED
  BY <1>1, <1>2, <1>3

\* The locked part of chSemSignalWait is one exchange: whoever the signal wakes
\* comes before the caller in the line of a semaphore given and taken at once.
LEMMA SignalWaitMaps ==
  ASSUME IInv, SignalWait
  PROVE  Abstract!AbsNext
<1> DEFINE s == call[currp].s
           w == call[currp].w
           W == Served(s, 1)
           cntS == [cnt EXCEPT ![s] = @ + 1]
           queueS == QueueAfter(s, 1)
           stateS == ReadyI(state, W)
           puS == Deliver(pu, W, MSG_OK)
           served == {u \in Threads : queue[s] # <<>> /\ u = Head(queue[s])}
           left == [queue EXCEPT ![s] = IF @ = <<>> THEN @ ELSE Tail(@)]
           pool == [Tokens EXCEPT ![s] = IF queue[s] = <<>> THEN @ + 1 ELSE @]
           told == [u \in Threads |-> IF u \in served THEN "MSG_OK" ELSE Outcome[u]]
<1>1. /\ ~isr /\ ~slept[currp] /\ s \in Sems /\ w \in Sems
      /\ cnt' = [cntS EXCEPT ![w] = @ - 1]
      /\ currp \in Threads /\ Outcome[currp] # "WAITING"
  BY CallerNotWaiting DEF SignalWait, InCall, Running, IInv, TypeOK
<1>2. IF cntS[w] - 1 < 0
        THEN /\ queue' = [queueS EXCEPT ![w] = Append(@, currp)]
             /\ pu' = [puS EXCEPT ![currp] = w]
             /\ GoSleepTimeoutS(stateS, prio, "WTSEM", "INFINITE")
             /\ UNCHANGED ret
        ELSE /\ queue' = queueS
             /\ pu' = puS
             /\ RescheduleS(stateS, prio)
             /\ ret' = [ret EXCEPT ![currp] = MSG_OK]
             /\ UNCHANGED <<vt, slept>>
  BY DEF SignalWait
<1> HIDE DEF s, w
<1>3. /\ cnt[s] \in Int /\ cnt \in [Sems -> Int]
      /\ queue[s] \in Seq(Threads) /\ queue \in [Sems -> Seq(Threads)]
      /\ Tokens[s] = IF cnt[s] > 0 THEN cnt[s] ELSE 0
      /\ Len(queue[s]) = IF cnt[s] < 0 THEN 0 - cnt[s] ELSE 0
  BY <1>1, TokensOrLine
<1>4. Due(s, 1) = IF queue[s] = <<>> THEN 0 ELSE 1
  <2>1. queue[s] = <<>> <=> Len(queue[s]) = 0
    BY <1>3
  <2> QED
    BY <1>3, <2>1 DEF Due, Minimum
<1>5. W = served
  BY <1>3, <1>4 DEF Served
<1>6. queueS = left
  <2>1. SubSeq(queue[s], Due(s, 1) + 1, Len(queue[s]))
          = IF queue[s] = <<>> THEN queue[s] ELSE Tail(queue[s])
    <3>1. CASE queue[s] = <<>>
      BY <1>3, <1>4, <3>1
    <3>2. CASE queue[s] # <<>>
      BY <1>3, <1>4, <3>2
    <3> QED
      BY <3>1, <3>2
  <2> QED
    BY <1>3, <2>1 DEF QueueAfter
<1>7. pool = [x \in Sems |-> IF cntS[x] > 0 THEN cntS[x] ELSE 0]
  <2>1. queue[s] = <<>> <=> cnt[s] >= 0
    BY <1>3
  <2>2. \A x \in Sems : cntS[x] = IF x = s THEN cnt[s] + 1 ELSE cnt[x]
    BY <1>3
  <2>3. (IF cntS[s] > 0 THEN cntS[s] ELSE 0)
          = IF queue[s] = <<>> THEN Tokens[s] + 1 ELSE Tokens[s]
    BY <1>1, <1>3, <2>1, <2>2
  <2> HIDE DEF cntS
  <2> QED
    BY <2>2, <2>3 DEF Tokens
<1>8. told = [u \in Threads |-> IF u \in W THEN MSG_OK ELSE Outcome[u]]
  BY <1>5 DEF MSG_OK
<1>9. W \in SUBSET Waiting(state)
  <2>1. /\ QueuesHold(queue, Waiting(state), pu) /\ CountersHold(cnt, queue)
        /\ pu \in [Threads -> Msgs \cup Sems] /\ MSG_OK \in Msgs
    BY DEF IInv, TypeOK, Msgs
  <2> QED
    BY <1>1, <2>1, ServeQueue
<1>10. /\ OneCurrent(stateS, currp) /\ Waiting(stateS) = Waiting(state) \ W
       /\ prio \in [Threads -> Nat] /\ pu \in [Threads -> Msgs \cup Sems]
       /\ puS \in [Threads -> Msgs \cup Sems] /\ MSG_OK \in Msgs
       /\ \A t \in Threads : puS[t] = IF t \in W THEN MSG_OK ELSE pu[t]
  BY <1>9, ReadyKeepsCurrent, CoreAssumption DEF IInv, TypeOK, Deliver, Msgs
<1>11. cntS \in [Sems -> Int] /\ cntS[w] \in Int /\ pool[w] = IF cntS[w] > 0 THEN cntS[w] ELSE 0
  BY <1>1, <1>3, <1>7
<1> SUFFICES IF pool[w] > 0
               THEN /\ Tokens' = [pool EXCEPT ![w] = @ - 1]
                    /\ queue' = left
                    /\ Outcome' = [told EXCEPT ![currp] = "MSG_OK"]
               ELSE /\ Tokens' = pool
                    /\ queue' = [left EXCEPT ![w] = Append(@, currp)]
                    /\ Outcome' = [told EXCEPT ![currp] = "WAITING"]
  <2>1. Abstract!Exchange(currp, s, w) => Abstract!AbsNext
    BY <1>1 DEF Abstract!AbsNext
  <2> QED
    BY <2>1, Zenon DEF Abstract!Exchange
<1> HIDE DEF W, cntS, queueS, stateS, puS, served, left, pool, told
<1>12. CASE cntS[w] - 1 < 0
  <2>1. /\ queue' = [left EXCEPT ![w] = Append(@, currp)]
        /\ pu' = [puS EXCEPT ![currp] = w]
        /\ GoSleepTimeoutS(stateS, prio, "WTSEM", "INFINITE")
        /\ ret' = ret
    BY <1>2, <1>6, <1>12
  <2>2. slept' = [slept EXCEPT ![currp] = TRUE]
    BY <2>1 DEF GoSleepTimeoutS
  <2>3. Waiting(state') = (Waiting(state) \ W) \cup {currp}
    BY <1>10, <2>1, SleepSwitches
  <2>4. \A t \in Threads \ {currp} : pu'[t] = IF t \in W THEN MSG_OK ELSE pu[t]
    BY <1>10, <2>1
  <2>5. Outcome' = [told EXCEPT ![currp] = "WAITING"]
    BY <1>1, <1>8, <1>9, <1>10, <2>1, <2>2, <2>3, <2>4, OutcomeSlept
  <2>6. Tokens' = pool
    <3>1. \A x \in Sems : (IF cnt'[x] > 0 THEN cnt'[x] ELSE 0) = IF cntS[x] > 0 THEN cntS[x] ELSE 0
      BY <1>1, <1>11, <1>12
    <3> QED
      BY <1>7, <3>1 DEF Tokens
  <2> QED
    BY <1>11, <1>12, <2>1, <2>5, <2>6
<1>13. CASE ~(cntS[w] - 1 < 0)
  <2>1. /\ queue' = left /\ pu' = puS /\ RescheduleS(stateS, prio)
        /\ ret' = [ret EXCEPT ![currp] = MSG_OK] /\ slept' = slept
    BY <1>2, <1>6, <1>13
  <2>2. Waiting(state') = Waiting(state) \ W
    BY <1>10, <2>1, RescheduleRestores
  <2>3. Outcome' = [told EXCEPT ![currp] = "MSG_OK"]
    <3>1. pu' = Deliver(pu, W, MSG_OK)
      BY <2>1 DEF puS
    <3>2. Outcome' = [told EXCEPT ![currp] = MSG_OK]
      BY <1>1, <1>8, <1>9, <1>10, <2>1, <2>2, <3>1, OutcomeTold
    <3> QED
      BY <3>2 DEF MSG_OK
  <2>4. Tokens' = [pool EXCEPT ![w] = @ - 1]
    <3>1. \A x \in Sems : cnt'[x] = IF x = w THEN cntS[w] - 1 ELSE cntS[x]
      BY <1>1, <1>11
    <3>2. (IF cnt'[w] > 0 THEN cnt'[w] ELSE 0) = pool[w] - 1
      BY <1>1, <1>11, <1>13, <3>1
    <3> QED
      BY <1>7, <3>1, <3>2 DEF Tokens
  <2> QED
    BY <1>11, <1>13, <2>1, <2>3, <2>4
<1> QED
  BY <1>12, <1>13

-----------------------------------------------------------------------------
LEMMA StepMaps == IInv /\ [Next]_vars => [Abstract!AbsNext]_(Abstract!absVars)
<1> SUFFICES ASSUME IInv, [Next]_vars
             PROVE  Abstract!AbsNext \/ UNCHANGED Abstract!absVars
  OBVIOUS
<1>1. ASSUME NEW s \in Sems, NEW time \in Timeouts, Wait(s, time) PROVE Abstract!AbsNext
  BY <1>1, WaitMaps
<1>2. ASSUME NEW s \in Sems, NEW n \in 0..MaxReset, Reset(s, n) \/ IsrResetI(s, n)
      PROVE  Abstract!AbsNext
  BY <1>2, ResetMaps
<1>3. CASE Signal
  BY <1>3, SignalMaps
<1>4. CASE SignalWait
  BY <1>4, SignalWaitMaps
<1>5. ASSUME NEW s \in Sems, NEW n \in 1..MaxAdd, IsrAddCounterI(s, n) PROVE Abstract!AbsNext
  BY <1>5, AddCounterMaps
<1>6. ASSUME NEW t \in Threads, Wakeup(t)
      PROVE  Abstract!AbsNext \/ UNCHANGED Abstract!absVars
  BY <1>6, WakeupMaps
<1>7. CASE \/ \E s \in Sems, w \in Sems \cup {None} : StartSignal(s, w)
           \/ AssertReadsCnt \/ AssertReadsQueue \/ Resume
           \/ \E t \in Threads : Expire(t)
           \/ EndIsr
  BY <1>7, QuietMaps
<1>8. CASE UNCHANGED vars
  BY <1>8, Stutters DEF vars, core, Outcome
<1> QED
  BY <1>1, <1>2, <1>3, <1>4, <1>5, <1>6, <1>7, <1>8 DEF Next, ThreadStep, IsrStep

\* The kernel's counting semaphores (chsem.c) behave as a pool of tokens with a
\* first-come first-served line, whatever threads, handlers and timers do.
THEOREM Implements == Spec => ImplementsSemaphore
<1>1. Init => Abstract!AbsInit
  BY InitMaps
<1>2. IInv /\ [Next]_vars => [Abstract!AbsNext]_(Abstract!absVars)
  BY StepMaps
<1> QED
  BY <1>1, <1>2, Invariance, PTL DEF Spec, ImplementsSemaphore, Abstract!AbsSpec

-----------------------------------------------------------------------------
(***************************************************************************)
(* Mailboxes: the invariant of the two semaphores, the calls that          *)
(* threads sleep in, and the slots each counter and each granted call      *)
(* stands for.                                                             *)
(***************************************************************************)

\* The threads that were granted a token of s and have not used it yet.
Takers(s, o, u) == {t \in Threads : o[t] # None /\ Needs(o[t]) = s /\ u[t] = MSG_OK}

\* The slots that semaphore s stands for: n are free to take, the others taken.
Have(s, n, o, u) == Positive(n) + Cardinality(Takers(s, o, u))

CallsHold ==
  /\ op \in [Threads -> Ops \cup {None}]
  /\ \A t \in Threads :
       /\ slept[t] <=> op[t] # None
       /\ state[t] = "WTSEM" => pu[t] = Needs(op[t])

Filled == Have("full", cnt["full"], op, pu)

RingHolds ==
  /\ buf \in [0..Slots - 1 -> Payloads]
  /\ rd \in 0..Slots - 1
  /\ wr \in 0..Slots - 1
  /\ got \in Payloads \cup {None}
  /\ \A s \in Sems : IsFiniteSet(Takers(s, op, pu))
  /\ Have("empty", cnt["empty"], op, pu) + Filled = Slots
  /\ wr = (rd + Filled) % Slots

MBInv == IInv /\ CallsHold /\ RingHolds

-----------------------------------------------------------------------------
\* Operations.

LEMMA OpKinds ==
  ASSUME NEW o \in Ops
  PROVE  /\ Needs(o) \in Sems /\ Gives(o) \in Sems
         /\ Gives(o) = IF Needs(o) = "full" THEN "empty" ELSE "full"
         /\ o # None
         /\ o.do \in {"post", "ahead", "fetch"}
         /\ o.do = "fetch" <=> Needs(o) = "full"
         /\ o.do # "fetch" => o.msg \in Payloads
<1>1. o = Fetch \/ \E m \in Payloads : o = Post(m) \/ o = Ahead(m)
  BY DEF Ops
<1>2. o # None
  BY OpsAssumption
<1> QED
  BY <1>1, <1>2, MboxAssumption DEF Fetch, Post, Ahead, Needs, Gives

LEMMA TakersAreGranted ==
  ASSUME op \in [Threads -> Ops \cup {None}]
  PROVE  /\ Takers("full", op, pu) = Granted({"fetch"})
         /\ Takers("empty", op, pu) = Granted({"post", "ahead"})
<1>1. ASSUME NEW t \in Threads, op[t] # None
      PROVE  /\ Needs(op[t]) = "full" <=> op[t].do = "fetch"
             /\ Needs(op[t]) = "empty" <=> op[t].do \in {"post", "ahead"}
  <2>1. op[t] \in Ops
    BY <1>1
  <2> QED
    BY <2>1, OpKinds, MboxAssumption DEF Needs
<1> QED
  BY <1>1 DEF Takers, Granted

\* Sets of threads grow and shrink by one.
LEMMA OneMore ==
  ASSUME NEW A, IsFiniteSet(A), NEW t, t \notin A
  PROVE  /\ IsFiniteSet(A \cup {t}) /\ Cardinality(A \cup {t}) = Cardinality(A) + 1
         /\ Cardinality(A) \in Nat
  BY FS_AddElement, FS_CardinalityType

LEMMA OneLess ==
  ASSUME NEW A, IsFiniteSet(A), NEW t \in A
  PROVE  /\ IsFiniteSet(A \ {t}) /\ Cardinality(A \ {t}) = Cardinality(A) - 1
         /\ Cardinality(A) \in Nat /\ Cardinality(A) >= 1
<1>1. /\ IsFiniteSet(A \ {t}) /\ Cardinality(A \ {t}) = Cardinality(A) - 1
  BY FS_RemoveElement
<1>2. Cardinality(A) \in Nat /\ Cardinality(A \ {t}) \in Nat
  BY <1>1, FS_CardinalityType
<1> QED
  BY <1>1, <1>2

-----------------------------------------------------------------------------
\* A signal either leaves a token or grants it to the first waiter: in both
\* cases its semaphore stands for one slot more, and the other for no less.
LEMMA SignalHave ==
  ASSUME IInv, CallsHold, NEW g \in Sems, IsFiniteSet(Takers(g, op, pu)),
         NEW u, u = Deliver(pu, Served(g, 1), MSG_OK)
  PROVE  /\ IsFiniteSet(Takers(g, op, u))
         /\ Have(g, cnt[g] + 1, op, u) = Have(g, cnt[g], op, pu) + 1
         /\ \A s \in Sems \ {g} : Takers(s, op, u) = Takers(s, op, pu)
<1> DEFINE W == Served(g, 1)
<1>1. /\ QueuesHold(queue, Waiting(state), pu) /\ CountersHold(cnt, queue)
      /\ pu \in [Threads -> Msgs \cup Sems] /\ queue \in [Sems -> Seq(Threads)]
      /\ cnt[g] \in Int
  BY DEF IInv, TypeOK
<1>2. W \in SUBSET Waiting(state)
  BY <1>1, ServeQueue DEF Msgs
<1>3. \A t \in Waiting(state) : t \in Threads /\ op[t] # None /\ Needs(op[t]) = pu[t] /\ pu[t] # MSG_OK
  BY SemAssumption DEF IInv, WaitersSleep, CallsHold, Waiting, Msgs
<1>4. \A t \in Threads : u[t] = IF t \in W THEN MSG_OK ELSE pu[t]
  BY DEF Deliver
<1>5. W = {queue[g][i] : i \in 1..Due(g, 1)}
  BY DEF Served
<1>6. \A t \in W : pu[t] = g
  <2>1. Due(g, 1) \in 0..Len(queue[g])
    BY <1>1, DueBounds
  <2>2. W \subseteq ToSet(queue[g])
    BY <1>1, <1>5, <2>1 DEF ToSet
  <2> QED
    BY <1>1, <1>2, <2>2 DEF QueuesHold, Waiting
<1> HIDE DEF W
<1>7. \A s \in Sems \ {g} : Takers(s, op, u) = Takers(s, op, pu)
  BY <1>2, <1>3, <1>4, <1>6 DEF Takers
<1>8. CASE cnt[g] < 0
  <2>1. Due(g, 1) = 1
    BY <1>1, <1>8 DEF Due, Minimum
  <2>2. PICK t : W = {t}
    <3>1. 1..1 = {1}
      OBVIOUS
    <3>2. W = {queue[g][1]}
      BY <1>5, <2>1, <3>1
    <3> QED
      BY <3>2
  <2>3. t \in Waiting(state) /\ pu[t] = g
    BY <1>2, <1>6, <2>2
  <2>4. t \notin Takers(g, op, pu) /\ Takers(g, op, u) = Takers(g, op, pu) \cup {t}
    BY <1>3, <1>4, <2>2, <2>3 DEF Takers
  <2>5. Positive(cnt[g]) = 0 /\ Positive(cnt[g] + 1) = 0
    BY <1>1, <1>8 DEF Positive
  <2> QED
    BY <1>7, <2>4, <2>5, OneMore DEF Have
<1>9. CASE ~(cnt[g] < 0)
  <2>1. Due(g, 1) = 0
    BY <1>9 DEF Due
  <2>2. W = {}
    <3>1. 1..0 = {}
      OBVIOUS
    <3> QED
      BY <1>5, <2>1, <3>1
  <2>3. Takers(g, op, u) = Takers(g, op, pu)
    BY <1>4, <2>2 DEF Takers
  <2>4. Positive(cnt[g] + 1) = Positive(cnt[g]) + 1 /\ Positive(cnt[g]) \in Nat
    BY <1>1, <1>9 DEF Positive
  <2> QED
    BY <1>7, <2>3, <2>4, FS_CardinalityType DEF Have
<1> QED
  BY <1>8, <1>9

-----------------------------------------------------------------------------
\* The ring.

\* The messages between the read and the write place, in order.
Content(b, r, n) == [i \in 1..n |-> b[(r + i - 1) % Slots]]

LEMMA NextPlace ==
  ASSUME NEW i \in 0..Slots - 1
  PROVE  /\ Next1(i) = (i + 1) % Slots /\ Next1(i) \in 0..Slots - 1
         /\ Before(i) \in 0..Slots - 1 /\ i = (Before(i) + 1) % Slots
  BY MboxAssumption DEF Next1, Before

\* An operation moves one message and keeps the write place behind the last.
LEMMA MoveKeeps ==
  ASSUME NEW o \in Ops, NEW n \in 0..Slots, Move(o),
         buf \in [0..Slots - 1 -> Payloads], rd \in 0..Slots - 1, wr \in 0..Slots - 1,
         got \in Payloads \cup {None},
         wr = (rd + n) % Slots,
         NEW m \in 0..Slots, m = IF o.do = "fetch" THEN n - 1 ELSE n + 1
  PROVE  /\ buf' \in [0..Slots - 1 -> Payloads] /\ rd' \in 0..Slots - 1
         /\ wr' \in 0..Slots - 1 /\ got' \in Payloads \cup {None}
         /\ wr' = (rd' + m) % Slots
<1>1. CASE o.do = "post"
  <2>1. buf' = [buf EXCEPT ![wr] = o.msg] /\ wr' = Next1(wr) /\ rd' = rd /\ got' = got
    BY <1>1 DEF Move
  <2>2. wr' = (wr + 1) % Slots /\ wr' \in 0..Slots - 1
    BY <2>1, NextPlace
  <2>3. (((rd + n) % Slots) + 1) % Slots = (rd + (n + 1)) % Slots
    BY <1>1, MboxAssumption, Onward
  <2> QED
    BY <1>1, <2>1, <2>2, <2>3, OpKinds
<1>2. CASE o.do = "ahead"
  <2>1. buf' = [buf EXCEPT ![Before(rd)] = o.msg] /\ rd' = Before(rd) /\ wr' = wr /\ got' = got
    BY <1>2 DEF Move
  <2>2. rd' \in 0..Slots - 1 /\ rd = (rd' + 1) % Slots
    BY <2>1, NextPlace
  <2>3. (((rd' + 1) % Slots) + n) % Slots = (rd' + (1 + n)) % Slots
    BY <1>2, <2>2, MboxAssumption, Onward
  <2>4. m = 1 + n
    BY <1>2
  <2> QED
    BY <1>2, <2>1, <2>2, <2>3, <2>4, OpKinds
<1>3. CASE o.do = "fetch"
  <2>1. got' = buf[rd] /\ rd' = Next1(rd) /\ wr' = wr /\ buf' = buf
    BY <1>3 DEF Move
  <2>2. rd' = (rd + 1) % Slots /\ rd' \in 0..Slots - 1
    BY <2>1, NextPlace
  <2>3. (((rd + 1) % Slots) + m) % Slots = (rd + (1 + m)) % Slots
    BY <1>3, MboxAssumption, Onward
  <2>4. 1 + m = n
    BY <1>3
  <2> QED
    BY <1>3, <2>1, <2>2, <2>3, <2>4
<1> QED
  BY <1>1, <1>2, <1>3, OpKinds

-----------------------------------------------------------------------------
(***************************************************************************)
(* The two semaphores keep their invariant.                                *)
(***************************************************************************)

\* The token of one semaphore is used, if it was not before, and the other is
\* signalled.
LEMMA SignalSems ==
  ASSUME IInv, NEW o \in Ops, NEW c, SignalOther(o, c),
         c = cnt \/ (cnt[Needs(o)] > 0 /\ c = [cnt EXCEPT ![Needs(o)] = @ - 1])
  PROVE  LET W == Served(Gives(o), 1) IN
         /\ W \in SUBSET Waiting(state)
         /\ QueuesHold(queue', Waiting(state) \ W, pu')
         /\ CountersHold(cnt', queue')
         /\ pu' = Deliver(pu, W, MSG_OK)
         /\ OneCurrent(Woken(o), currp)
         /\ Waiting(Woken(o)) = Waiting(state) \ W
<1> DEFINE g == Gives(o)
           W == Served(g, 1)
<1>1. /\ QueuesHold(queue, Waiting(state), pu) /\ CountersHold(cnt, queue)
      /\ pu \in [Threads -> Msgs \cup Sems] /\ OneCurrent(state, currp)
  BY DEF IInv, TypeOK
<1>2. g \in Sems /\ Needs(o) \in Sems /\ g # Needs(o)
  BY OpKinds, MboxAssumption
<1>3. /\ cnt' = [c EXCEPT ![g] = @ + 1]
      /\ queue' = QueueAfter(g, 1)
      /\ pu' = Deliver(pu, W, MSG_OK)
  BY DEF SignalOther
<1>4. /\ W \in SUBSET Waiting(state)
      /\ QueuesHold(queue', Waiting(state) \ W, pu')
      /\ CountersHold([cnt EXCEPT ![g] = @ + 1], queue')
  BY <1>1, <1>2, <1>3, ServeQueue DEF Msgs
<1>5. CountersHold(cnt', queue')
  <2> HIDE DEF g
  <2>1. CASE c = cnt
    BY <1>3, <1>4, <2>1
  <2>2. CASE cnt[Needs(o)] > 0 /\ c = [cnt EXCEPT ![Needs(o)] = @ - 1]
    BY <1>1, <1>2, <1>3, <1>4, <2>2 DEF CountersHold
  <2> QED
    BY <2>1, <2>2
<1>6. OneCurrent(Woken(o), currp) /\ Waiting(Woken(o)) = Waiting(state) \ W
  BY <1>1, <1>4, ReadyKeepsCurrent DEF Woken
<1> QED
  BY <1>3, <1>4, <1>5, <1>6

LEMMA BeginSems ==
  ASSUME IInv, NEW o \in Ops, NEW time \in Timeouts, Begin(o, time)
  PROVE  IInv'
<1>1. /\ ~isr /\ ~slept[currp] /\ currp \in Threads /\ UNCHANGED <<prio, isr, ret, call, halted>>
      /\ cnt \in [Sems -> Int] /\ Needs(o) \in Sems /\ prio \in [Threads -> Nat]
  BY CoreAssumption, OpKinds DEF Begin, Running, noSemCall, IInv, TypeOK
<1>2. CASE cnt[Needs(o)] > 0
  <2>1. /\ SignalOther(o, [cnt EXCEPT ![Needs(o)] = @ - 1])
        /\ RescheduleS(Woken(o), prio)
        /\ UNCHANGED <<vt, slept>>
    BY <1>2 DEF Begin
  <2>2. PICK W \in SUBSET Waiting(state) :
          /\ QueuesHold(queue', Waiting(state) \ W, pu')
          /\ CountersHold(cnt', queue')
          /\ pu' = Deliver(pu, W, MSG_OK)
          /\ OneCurrent(Woken(o), currp)
          /\ Waiting(Woken(o)) = Waiting(state) \ W
    BY <1>2, <2>1, SignalSems
  <2>3. /\ OneCurrent(state', currp') /\ Waiting(state') = Waiting(state) \ W
        /\ \A t \in Ready(state') : prio[t] <= prio[currp']
    BY <1>1, <2>1, <2>2, RescheduleRestores
  <2>4. IsrContext' /\ ret' \in [Threads -> Msgs] /\ isr' \in BOOLEAN
    BY <1>1, <2>1 DEF IInv, IsrContext, TypeOK
  <2> QED
    BY <1>1, <2>1, <2>2, <2>3, <2>4, WokenInv DEF Msgs
<1>3. CASE ~(cnt[Needs(o)] > 0)
  <2>1. /\ cnt' = [cnt EXCEPT ![Needs(o)] = @ - 1]
        /\ queue' = [queue EXCEPT ![Needs(o)] = Append(@, currp)]
        /\ pu' = [pu EXCEPT ![currp] = Needs(o)]
        /\ GoSleepTimeoutS(state, prio, "WTSEM", time)
    BY <1>3 DEF Begin
  <2>2. /\ {} \in SUBSET Waiting(state) /\ Waiting(state) = Waiting(state) \ {}
        /\ pu \in [Threads -> Msgs \cup Sems] /\ MSG_OK \in Msgs
        /\ \A t \in Threads : pu[t] = IF t \in {} THEN MSG_OK ELSE pu[t]
        /\ QueuesHold(queue, Waiting(state), pu) /\ CountersHold(cnt, queue)
        /\ OneCurrent(state, currp)
    BY DEF IInv, TypeOK, Msgs
  <2>3. cnt[Needs(o)] - 1 < 0
    BY <1>1, <1>3
  <2> QED
    BY <1>1, <2>1, <2>2, <2>3, SleptInv
<1> QED
  BY <1>2, <1>3

\* A thread that was readied ends its call, with or without a message moved.
LEMMA FinishSems ==
  ASSUME IInv, op[currp] \in Ops, Finish
  PROVE  IInv'
<1> DEFINE o == op[currp]
<1>1. /\ ~isr /\ slept[currp] /\ currp \in Threads /\ UNCHANGED <<prio, isr, ret, call, halted>>
      /\ prio \in [Threads -> Nat] /\ EndSleep
  BY CoreAssumption DEF Finish, Resuming, noSemCall, IInv, TypeOK
<1>2. IsrContext' /\ ret' \in [Threads -> Msgs] /\ isr' \in BOOLEAN
  <2>1. ~isr' /\ \A t \in Threads : vt'[t] = "firing" => vt[t] = "firing"
    BY <1>1 DEF EndSleep, IInv, TypeOK
  <2> QED
    BY <1>1, <2>1 DEF IInv, IsrContext, TypeOK
<1>3. CASE pu[currp] = MSG_OK
  <2>1. SignalOther(o, cnt) /\ RescheduleS(Woken(o), prio)
    BY <1>3 DEF Finish
  <2>2. PICK W \in SUBSET Waiting(state) :
          /\ QueuesHold(queue', Waiting(state) \ W, pu')
          /\ CountersHold(cnt', queue')
          /\ pu' = Deliver(pu, W, MSG_OK)
          /\ OneCurrent(Woken(o), currp)
          /\ Waiting(Woken(o)) = Waiting(state) \ W
    BY <2>1, SignalSems
  <2>3. /\ OneCurrent(state', currp') /\ Waiting(state') = Waiting(state) \ W
        /\ \A t \in Ready(state') : prio[t] <= prio[currp']
    BY <1>1, <2>1, <2>2, RescheduleRestores
  <2> QED
    BY <1>1, <1>2, <2>2, <2>3, WokenInv DEF Msgs
<1>4. CASE pu[currp] # MSG_OK
  <2>1. UNCHANGED <<currp, state, pu, cnt, queue>>
    BY <1>4 DEF Finish
  <2>2. Waiting(state') = Waiting(state) \ {} /\ {} \in SUBSET Waiting(state)
    BY <2>1
  <2>3. pu' = Deliver(pu, {}, MSG_OK)
    BY <2>1 DEF Deliver, IInv, TypeOK
  <2>4. /\ OneCurrent(state', currp') /\ QueuesHold(queue', Waiting(state'), pu')
        /\ CountersHold(cnt', queue')
        /\ \A t \in Ready(state') : prio[t] <= prio[currp']
    BY <1>1, <2>1 DEF IInv, MostUrgent
  <2> QED
    BY <1>1, <1>2, <2>2, <2>3, <2>4, WokenInv DEF Msgs
<1> QED
  BY <1>3, <1>4

LEMMA HandlerSems ==
  ASSUME IInv, NEW o \in Ops, HandlerOp(o)
  PROVE  IInv'
<1>1. /\ UNCHANGED <<currp, prio, vt, slept, ret, call, halted>> /\ isr' = TRUE
      /\ cnt[Needs(o)] > 0 /\ Interruptible /\ state' = Woken(o)
      /\ SignalOther(o, [cnt EXCEPT ![Needs(o)] = @ - 1])
  BY DEF HandlerOp, noSemCall
<1>2. PICK W \in SUBSET Waiting(state) :
        /\ QueuesHold(queue', Waiting(state) \ W, pu')
        /\ CountersHold(cnt', queue')
        /\ pu' = Deliver(pu, W, MSG_OK)
        /\ OneCurrent(Woken(o), currp)
        /\ Waiting(Woken(o)) = Waiting(state) \ W
  BY <1>1, SignalSems
<1>3. IsrContext' /\ ret' \in [Threads -> Msgs] /\ isr' \in BOOLEAN
  BY <1>1 DEF IInv, IsrContext, TypeOK, Interruptible
<1> QED
  BY <1>1, <1>2, <1>3, WokenInv DEF Msgs

\* chMBResetI empties both queues.
LEMMA ResetSems ==
  ASSUME IInv, MBResetI, MboxAssumption
  PROVE  LET W == Late("empty") \cup Late("full") IN
         /\ W = Waiting(state)
         /\ QueuesHold(queue', {}, pu')
         /\ CountersHold(cnt', queue')
         /\ pu' = Deliver(pu, W, MSG_RESET)
         /\ OneCurrent(ReadyI(state, W), currp)
         /\ Waiting(ReadyI(state, W)) = {}
<1> DEFINE W == Late("empty") \cup Late("full")
<1>1. /\ QueuesHold(queue, Waiting(state), pu) /\ CountersHold(cnt, queue)
      /\ pu \in [Threads -> Msgs \cup Sems] /\ OneCurrent(state, currp)
      /\ "empty" \in Sems /\ "full" \in Sems /\ Slots \in Nat
  BY MboxAssumption DEF IInv, TypeOK
<1>2. \A s \in Sems :
        /\ SubSeq(queue[s], 1, Len(queue[s]) - Due(s, 0 - cnt[s])) = <<>>
        /\ Late(s) \in SUBSET Waiting(state)
        /\ \A t \in Threads : t \in Late(s) <=> t \in Waiting(state) /\ pu[t] = s
  BY <1>1, LateAll
<1>3. W = Waiting(state)
  <2>1. \A t \in Waiting(state) : t \in Threads /\ pu[t] \in {"empty", "full"}
    BY MboxAssumption DEF IInv, WaitersSleep, Waiting
  <2> QED
    BY <1>1, <1>2, <2>1
<1>4. queue' = [s \in Sems |-> <<>>] /\ pu' = Deliver(pu, W, MSG_RESET)
      /\ cnt' = [s \in Sems |-> IF s = "empty" THEN Slots ELSE 0]
  BY <1>2 DEF MBResetI
<1>5. QueuesHold(queue', {}, pu')
  <2>1. IsInjective(<<>>) /\ ToSet(<<>>) = {}
    BY DEF IsInjective, ToSet
  <2> QED
    BY <1>4, <2>1 DEF QueuesHold
<1>6. CountersHold(cnt', queue')
  BY <1>1, <1>4 DEF CountersHold
<1>7. OneCurrent(ReadyI(state, W), currp) /\ Waiting(ReadyI(state, W)) = {}
  BY <1>1, <1>3, ReadyKeepsCurrent
<1> QED
  BY <1>3, <1>4, <1>5, <1>6, <1>7

LEMMA ResetsKeepSems ==
  ASSUME IInv, MBReset \/ IsrMBResetI
  PROVE  IInv'
<1> DEFINE W == Late("empty") \cup Late("full")
           s == ReadyI(state, W)
<1>1. MBResetI /\ UNCHANGED <<prio, vt, slept, ret, call, halted>> /\ prio \in [Threads -> Nat]
  BY CoreAssumption DEF MBReset, IsrMBResetI, noSemCall, IInv, TypeOK
<1>2. /\ W = Waiting(state)
      /\ QueuesHold(queue', {}, pu') /\ CountersHold(cnt', queue')
      /\ pu' = Deliver(pu, W, MSG_RESET)
      /\ OneCurrent(s, currp) /\ Waiting(s) = {}
  BY <1>1, MboxAssumption, ResetSems
<1> HIDE DEF W, s
<1>3. /\ OneCurrent(state', currp') /\ Waiting(state') = {}
      /\ ~isr' => \A t \in Ready(state') : prio[t] <= prio[currp']
      /\ isr' \in BOOLEAN /\ IsrContext'
  <2>1. CASE MBReset
    <3>1. RescheduleS(s, prio) /\ isr' = isr /\ ~isr
      BY <2>1 DEF MBReset, Running, W, s
    <3>2. /\ OneCurrent(state', currp') /\ Waiting(state') = {}
          /\ \A t \in Ready(state') : prio[t] <= prio[currp']
      BY <1>1, <1>2, <3>1, RescheduleRestores
    <3> QED
      BY <1>1, <3>1, <3>2 DEF IInv, IsrContext, TypeOK
  <2>2. CASE IsrMBResetI
    <3>1. state' = s /\ currp' = currp /\ isr' = TRUE /\ Interruptible
      BY <2>2 DEF IsrMBResetI, W, s
    <3> QED
      BY <1>1, <1>2, <3>1 DEF IInv, IsrContext, TypeOK, Interruptible
  <2> QED
    BY <2>1, <2>2
<1>4. Waiting(state') = Waiting(state) \ W /\ W \in SUBSET Waiting(state)
      /\ ret' \in [Threads -> Msgs]
  BY <1>1, <1>2, <1>3 DEF IInv, TypeOK
<1> QED
  BY <1>1, <1>2, <1>3, <1>4, WokenInv DEF Msgs

-----------------------------------------------------------------------------
(***************************************************************************)
(* The calls in progress and the slots.                                    *)
(***************************************************************************)

LEMMA HaveNat ==
  ASSUME RingHolds, IInv, NEW s \in Sems
  PROVE  /\ Positive(cnt[s]) \in Nat /\ Cardinality(Takers(s, op, pu)) \in Nat
         /\ Have(s, cnt[s], op, pu) \in 0..Slots
         /\ Filled \in 0..Slots
<1>1. ASSUME NEW x \in Sems
      PROVE  Positive(cnt[x]) \in Nat /\ Cardinality(Takers(x, op, pu)) \in Nat
  <2>1. cnt[x] \in Int
    BY DEF IInv, TypeOK
  <2> QED
    BY <2>1, FS_CardinalityType DEF RingHolds, Positive
<1>2. "empty" \in Sems /\ "full" \in Sems /\ s \in {"empty", "full"} /\ Slots \in Nat
  BY MboxAssumption
<1>3. Have("empty", cnt["empty"], op, pu) \in Nat /\ Have("full", cnt["full"], op, pu) \in Nat
  BY <1>1, <1>2 DEF Have
<1>4. Have("empty", cnt["empty"], op, pu) + Have("full", cnt["full"], op, pu) = Slots
  BY DEF RingHolds, Filled
<1> QED
  BY <1>1, <1>2, <1>3, <1>4 DEF Filled

\* An operation moves its message: a slot passes from one semaphore to the
\* other.  It has taken its token at once, or was granted it before it slept on.
LEMMA OperationKeeps ==
  ASSUME IInv, CallsHold, RingHolds, NEW o \in Ops, NEW c, Move(o), SignalOther(o, c),
         \/ cnt[Needs(o)] > 0 /\ c = [cnt EXCEPT ![Needs(o)] = @ - 1] /\ op' = op
         \/ /\ op[currp] = o /\ pu[currp] = MSG_OK /\ c = cnt
            /\ op' = [op EXCEPT ![currp] = None]
  PROVE  /\ RingHolds'
         /\ Filled' \in 0..Slots
         /\ Filled' = IF o.do = "fetch" THEN Filled - 1 ELSE Filled + 1
<1> DEFINE g == Gives(o)
           n == Needs(o)
<1>1. /\ g \in Sems /\ n \in Sems /\ g # n /\ {g, n} = Sems /\ Slots \in Nat
      /\ (o.do = "fetch" <=> n = "full") /\ (o.do = "fetch" <=> g # "full")
      /\ "full" \in Sems /\ "empty" \in Sems
  BY OpKinds, MboxAssumption
<1> HIDE DEF g, n
<1>2. /\ cnt' = [c EXCEPT ![g] = @ + 1] /\ cnt \in [Sems -> Int]
      /\ pu' = Deliver(pu, Served(g, 1), MSG_OK)
      /\ op \in [Threads -> Ops \cup {None}] /\ currp \in Threads
  BY DEF SignalOther, IInv, TypeOK, CallsHold, g
<1>3. /\ IsFiniteSet(Takers(g, op, pu'))
      /\ Have(g, cnt[g] + 1, op, pu') = Have(g, cnt[g], op, pu) + 1
      /\ Takers(n, op, pu') = Takers(n, op, pu)
      /\ IsFiniteSet(Takers(n, op, pu))
  BY <1>1, <1>2, SignalHave DEF RingHolds
<1>4. /\ Have(n, cnt[n], op, pu) \in 0..Slots /\ Have(g, cnt[g], op, pu) \in 0..Slots
      /\ Positive(cnt[n]) \in Nat /\ Cardinality(Takers(n, op, pu)) \in Nat
      /\ Filled \in 0..Slots
  BY <1>1, HaveNat
<1>5. /\ IsFiniteSet(Takers(g, op', pu')) /\ IsFiniteSet(Takers(n, op', pu'))
      /\ Have(g, cnt'[g], op', pu') = Have(g, cnt[g], op, pu) + 1
      /\ Have(n, cnt'[n], op', pu') = Have(n, cnt[n], op, pu) - 1
  <2>1. CASE cnt[n] > 0 /\ c = [cnt EXCEPT ![n] = @ - 1] /\ op' = op
    <3>1. cnt'[g] = cnt[g] + 1 /\ cnt'[n] = cnt[n] - 1 /\ cnt[n] \in Int
      BY <1>1, <1>2, <2>1
    <3>2. Positive(cnt[n] - 1) = Positive(cnt[n]) - 1
      BY <2>1, <3>1 DEF Positive
    <3> QED
      BY <1>3, <1>4, <2>1, <3>1, <3>2 DEF Have
  <2>2. CASE /\ op[currp] = o /\ pu[currp] = MSG_OK /\ c = cnt
             /\ op' = [op EXCEPT ![currp] = None]
    <3>1. cnt'[g] = cnt[g] + 1 /\ cnt'[n] = cnt[n]
      BY <1>1, <1>2, <2>2
    <3>2. \A t \in Threads : op'[t] = IF t = currp THEN None ELSE op[t]
      BY <1>2, <2>2
    <3>3. Takers(g, op', pu') = Takers(g, op, pu')
      BY <1>1, <1>2, <2>2, <3>2 DEF Takers, n
    <3>4. /\ currp \in Takers(n, op, pu)
          /\ Takers(n, op', pu') = Takers(n, op, pu') \ {currp}
      BY <1>2, <2>2, <3>2, OpKinds DEF Takers, n
    <3>5. /\ IsFiniteSet(Takers(n, op', pu'))
          /\ Cardinality(Takers(n, op', pu')) = Cardinality(Takers(n, op, pu)) - 1
      BY <1>3, <3>4, OneLess
    <3> QED
      BY <1>3, <1>4, <3>1, <3>3, <3>5 DEF Have
  <2> QED
    BY <2>1, <2>2 DEF n
<1>6. Have("empty", cnt["empty"], op, pu) + Have("full", cnt["full"], op, pu) = Slots
  BY DEF RingHolds, Filled
<1>7. /\ Have("empty", cnt'["empty"], op', pu') + Have("full", cnt'["full"], op', pu') = Slots
      /\ Have("full", cnt'["full"], op', pu') \in 0..Slots
      /\ Have("full", cnt'["full"], op', pu') =
           IF o.do = "fetch" THEN Filled - 1 ELSE Filled + 1
  <2> DEFINE e  == Have("empty", cnt["empty"], op, pu)
             f  == Have("full", cnt["full"], op, pu)
             ee == Have("empty", cnt'["empty"], op', pu')
             ff == Have("full", cnt'["full"], op', pu')
  <2>1. e \in 0..Slots /\ f \in 0..Slots /\ e + f = Slots /\ Filled = f
    BY <1>1, <1>6, HaveNat DEF Filled
  <2>2. CASE n = "full"
    <3>1. g = "empty"
      BY <1>1, <2>2, MboxAssumption
    <3>2. ee = e + 1 /\ ff = f - 1 /\ o.do = "fetch" /\ ff + 1 \in 0..Slots
      BY <1>1, <1>4, <1>5, <2>2, <3>1
    <3>3. f - 1 >= 0
      <4>1. Have(n, cnt'[n], op', pu') >= 0
        <5>1. cnt'[n] \in Int /\ Cardinality(Takers(n, op', pu')) \in Nat
          BY <1>1, <1>2, <1>5, FS_CardinalityType
        <5> QED
          BY <5>1 DEF Have, Positive
      <4> QED
        BY <1>5, <2>2, <4>1
    <3> HIDE DEF e, f, ee, ff
    <3>4. ee + ff = Slots /\ ff \in 0..Slots
          /\ ff = IF o.do = "fetch" THEN Filled - 1 ELSE Filled + 1
      BY <1>1, <2>1, <3>2, <3>3
    <3> QED
      BY <3>4 DEF ee, ff
  <2>3. CASE n # "full"
    <3>1. g = "full" /\ n = "empty"
      BY <1>1, <2>3, MboxAssumption
    <3>2. ff = f + 1 /\ ee = e - 1 /\ o.do # "fetch"
      BY <1>1, <1>4, <1>5, <2>3, <3>1
    <3>3. e - 1 >= 0
      <4>1. Have(n, cnt'[n], op', pu') >= 0
        <5>1. cnt'[n] \in Int /\ Cardinality(Takers(n, op', pu')) \in Nat
          BY <1>1, <1>2, <1>5, FS_CardinalityType
        <5> QED
          BY <5>1 DEF Have, Positive
      <4> QED
        BY <1>5, <3>1, <4>1
    <3> HIDE DEF e, f, ee, ff
    <3>4. ee + ff = Slots /\ ff \in 0..Slots
          /\ ff = IF o.do = "fetch" THEN Filled - 1 ELSE Filled + 1
      BY <1>1, <2>1, <3>2, <3>3
    <3> QED
      BY <3>4 DEF ee, ff
  <2> QED
    BY <2>2, <2>3
<1>8. \A s \in Sems : IsFiniteSet(Takers(s, op', pu'))
  BY <1>1, <1>5
<1>9. /\ buf' \in [0..Slots - 1 -> Payloads] /\ rd' \in 0..Slots - 1
      /\ wr' \in 0..Slots - 1 /\ got' \in Payloads \cup {None}
      /\ wr' = (rd' + Have("full", cnt'["full"], op', pu')) % Slots
  BY <1>4, <1>7, MoveKeeps DEF RingHolds
<1> QED
  BY <1>7, <1>8, <1>9 DEF RingHolds, Filled

\* Steps that move nothing: no counter passes zero, nobody is granted anything.
LEMMA QuietKeeps ==
  ASSUME RingHolds, UNCHANGED <<ring, got>>,
         \A s \in Sems : Positive(cnt'[s]) = Positive(cnt[s]),
         \A t \in Threads : /\ op'[t] # None /\ pu'[t] = MSG_OK <=> op[t] # None /\ pu[t] = MSG_OK
                            /\ op[t] # None /\ pu[t] = MSG_OK => op'[t] = op[t]
  PROVE  RingHolds' /\ Filled' = Filled
<1>1. ASSUME NEW s \in Sems
      PROVE  Takers(s, op', pu') = Takers(s, op, pu)
  BY DEF Takers
<1>2. ASSUME NEW s \in Sems
      PROVE  Have(s, cnt'[s], op', pu') = Have(s, cnt[s], op, pu)
  BY <1>1 DEF Have
<1>3. "empty" \in Sems /\ "full" \in Sems
  BY MboxAssumption
<1> QED
  BY <1>1, <1>2, <1>3 DEF RingHolds, Filled, ring

\* Steps in which threads are woken or nothing happens to them.
LEMMA CallsFrame ==
  ASSUME CallsHold, op' = op, slept' = slept,
         \A t \in Threads : state'[t] = "WTSEM" => state[t] = "WTSEM" /\ pu'[t] = pu[t]
  PROVE  CallsHold'
  BY DEF CallsHold

\* Waking threads, or leaving them alone, keeps the calls of the others; the
\* running thread may come to the end of its own.
LEMMA WakingKeepsCalls ==
  ASSUME IInv, CallsHold, NEW W \in SUBSET Waiting(state), NEW m,
         pu' = Deliver(pu, W, m), Waiting(state') = Waiting(state) \ W,
         \/ slept' = slept /\ op' = op
         \/ EndSleep /\ op' = [op EXCEPT ![currp] = None]
  PROVE  CallsHold'
<1>1. /\ \A t \in Threads : state'[t] = "WTSEM" => state[t] = "WTSEM" /\ pu'[t] = pu[t]
      /\ state[currp] = "CURRENT" /\ currp \in Threads /\ slept \in [Threads -> BOOLEAN]
  BY DEF Waiting, Deliver, IInv, OneCurrent, TypeOK
<1>2. CASE slept' = slept /\ op' = op
  BY <1>1, <1>2, CallsFrame
<1>3. CASE EndSleep /\ op' = [op EXCEPT ![currp] = None]
  <2>1. /\ \A t \in Threads : /\ op'[t] = IF t = currp THEN None ELSE op[t]
                              /\ slept'[t] = IF t = currp THEN FALSE ELSE slept[t]
        /\ op' \in [Threads -> Ops \cup {None}]
    BY <1>1, <1>3 DEF EndSleep, CallsHold
  <2> QED
    BY <1>1, <2>1 DEF CallsHold
<1> QED
  BY <1>2, <1>3

LEMMA WhoWaits ==
  ASSUME IInv, CallsHold
  PROVE  /\ \A t \in Waiting(state) : t \in Threads /\ pu[t] \in Sems /\ pu[t] \notin Msgs /\ op[t] # None
         /\ currp \in Threads /\ currp \notin Waiting(state)
         /\ slept[currp] <=> op[currp] # None
  BY SemAssumption DEF IInv, WaitersSleep, CallsHold, Waiting, OneCurrent, TypeOK

\* Operation o moves its message.
Moved(o) ==
  /\ Move(o)
  /\ Filled' \in 0..Slots
  /\ Filled' = IF o.do = "fetch" THEN Filled - 1 ELSE Filled + 1

LEMMA BeginKeeps ==
  ASSUME MBInv, NEW o \in Ops, NEW time \in Timeouts, Begin(o, time)
  PROVE  /\ MBInv'
         /\ cnt[Needs(o)] > 0 => Moved(o)
         /\ ~(cnt[Needs(o)] > 0) => UNCHANGED <<ring, got>> /\ Filled' = Filled
<1>1. IInv /\ CallsHold /\ RingHolds /\ IInv' /\ ~slept[currp] /\ op[currp] = None /\ currp \in Threads
  BY BeginSems, WhoWaits DEF MBInv, Begin, Running
<1>2. CASE cnt[Needs(o)] > 0
  <2>1. /\ Move(o) /\ SignalOther(o, [cnt EXCEPT ![Needs(o)] = @ - 1])
        /\ RescheduleS(Woken(o), prio) /\ slept' = slept /\ op' = op
    BY <1>2 DEF Begin
  <2>2. RingHolds' /\ Moved(o)
    BY <1>1, <1>2, <2>1, OperationKeeps DEF Moved
  <2>3. PICK W \in SUBSET Waiting(state) :
          /\ pu' = Deliver(pu, W, MSG_OK)
          /\ OneCurrent(Woken(o), currp) /\ Waiting(Woken(o)) = Waiting(state) \ W
    BY <1>1, <1>2, <2>1, SignalSems
  <2>4. Waiting(state') = Waiting(state) \ W
    <3>1. prio \in [Threads -> Nat]
      BY <1>1, CoreAssumption DEF IInv, TypeOK
    <3> QED
      BY <2>1, <2>3, <3>1, RescheduleRestores
  <2>5. CallsHold'
    BY <1>1, <2>1, <2>3, <2>4, WakingKeepsCalls
  <2> QED
    BY <1>1, <1>2, <2>1, <2>2, <2>5 DEF MBInv
<1>3. CASE ~(cnt[Needs(o)] > 0)
  <2>1. /\ cnt' = [cnt EXCEPT ![Needs(o)] = @ - 1]
        /\ pu' = [pu EXCEPT ![currp] = Needs(o)]
        /\ GoSleepTimeoutS(state, prio, "WTSEM", time)
        /\ op' = [op EXCEPT ![currp] = o] /\ UNCHANGED <<ring, got>>
        /\ slept' = [slept EXCEPT ![currp] = TRUE]
    BY <1>3 DEF Begin, GoSleepTimeoutS
  <2>2. /\ Needs(o) \in Sems /\ Needs(o) \notin Msgs /\ o # None /\ MSG_OK \in Msgs
        /\ cnt \in [Sems -> Int] /\ slept \in [Threads -> BOOLEAN]
        /\ pu \in [Threads -> Msgs \cup Sems] /\ op \in [Threads -> Ops \cup {None}]
    BY <1>1, OpKinds, SemAssumption DEF IInv, TypeOK, CallsHold, Msgs
  <2>3. \A t \in Threads : /\ op'[t] = IF t = currp THEN o ELSE op[t]
                           /\ pu'[t] = IF t = currp THEN Needs(o) ELSE pu[t]
                           /\ slept'[t] = IF t = currp THEN TRUE ELSE slept[t]
    BY <2>1, <2>2
  <2>4. Waiting(state') = Waiting(state) \cup {currp}
    <3>1. prio \in [Threads -> Nat] /\ OneCurrent(state, currp)
      BY <1>1, CoreAssumption DEF IInv, TypeOK
    <3> QED
      BY <2>1, <3>1, SleepSwitches
  <2>5. CallsHold'
    <3>1. op' \in [Threads -> Ops \cup {None}]
      BY <2>1, <2>2
    <3>2. \A t \in Threads : state'[t] = "WTSEM" => state[t] = "WTSEM" \/ t = currp
      BY <2>4 DEF Waiting
    <3> QED
      BY <1>1, <2>2, <2>3, <3>1, <3>2 DEF CallsHold
  <2>6. \A s \in Sems : Positive(cnt'[s]) = Positive(cnt[s])
    BY <1>3, <2>1, <2>2 DEF Positive
  <2>7. RingHolds' /\ Filled' = Filled
    BY <1>1, <2>1, <2>2, <2>3, <2>6, QuietKeeps
  <2> QED
    BY <1>1, <1>3, <2>1, <2>5, <2>7 DEF MBInv
<1> QED
  BY <1>2, <1>3

LEMMA FinishKeeps ==
  ASSUME MBInv, Finish
  PROVE  /\ MBInv'
         /\ op[currp] \in Ops
         /\ pu[currp] = MSG_OK => Moved(op[currp])
         /\ pu[currp] # MSG_OK => UNCHANGED <<ring, got>> /\ Filled' = Filled
<1> DEFINE o == op[currp]
<1>1. /\ IInv /\ CallsHold /\ RingHolds /\ slept[currp] /\ op[currp] # None /\ currp \in Threads
      /\ EndSleep /\ op' = [op EXCEPT ![currp] = None]
  BY WhoWaits DEF MBInv, Finish, Resuming
<1>2. o \in Ops
  BY <1>1 DEF CallsHold
<1>3. IInv'
  BY <1>1, <1>2, FinishSems
<1>4. CASE pu[currp] = MSG_OK
  <2>1. Move(o) /\ SignalOther(o, cnt) /\ RescheduleS(Woken(o), prio)
    BY <1>4 DEF Finish
  <2>2. RingHolds' /\ Moved(o)
    <3> HIDE DEF o
    <3>1. op[currp] = o
      BY DEF o
    <3> QED
      BY <1>1, <1>2, <1>4, <2>1, <3>1, OperationKeeps DEF Moved
  <2>3. PICK W \in SUBSET Waiting(state) :
          /\ pu' = Deliver(pu, W, MSG_OK)
          /\ OneCurrent(Woken(o), currp) /\ Waiting(Woken(o)) = Waiting(state) \ W
    BY <1>1, <1>2, <2>1, SignalSems
  <2>4. Waiting(state') = Waiting(state) \ W
    <3>1. prio \in [Threads -> Nat]
      BY <1>1, CoreAssumption DEF IInv, TypeOK
    <3> QED
      BY <2>1, <2>3, <3>1, RescheduleRestores
  <2>5. CallsHold'
    BY <1>1, <2>3, <2>4, WakingKeepsCalls
  <2> QED
    BY <1>2, <1>3, <1>4, <2>1, <2>2, <2>5 DEF MBInv
<1>5. CASE pu[currp] # MSG_OK
  <2>1. UNCHANGED <<state, pu, cnt, ring, got>>
    BY <1>5 DEF Finish
  <2>2. pu' = Deliver(pu, {}, MSG_OK) /\ Waiting(state') = Waiting(state) \ {}
    BY <1>1, <2>1 DEF Deliver, IInv, TypeOK
  <2>3. CallsHold'
    BY <1>1, <2>2, WakingKeepsCalls
  <2>4. \A t \in Threads : op'[t] = IF t = currp THEN None ELSE op[t]
    BY <1>1 DEF CallsHold
  <2>5. RingHolds' /\ Filled' = Filled
    BY <1>1, <1>5, <2>1, <2>4, QuietKeeps
  <2> QED
    BY <1>2, <1>3, <1>5, <2>1, <2>3, <2>5 DEF MBInv
<1> QED
  BY <1>4, <1>5

LEMMA HandlerKeeps ==
  ASSUME MBInv, NEW o \in Ops, HandlerOp(o)
  PROVE  /\ MBInv'
         /\ Moved(o)
<1>1. /\ IInv /\ CallsHold /\ RingHolds /\ IInv'
      /\ Move(o) /\ SignalOther(o, [cnt EXCEPT ![Needs(o)] = @ - 1]) /\ cnt[Needs(o)] > 0
      /\ state' = Woken(o) /\ slept' = slept /\ op' = op
  BY HandlerSems DEF MBInv, HandlerOp
<1>2. RingHolds' /\ Moved(o)
  BY <1>1, OperationKeeps DEF Moved
<1>3. PICK W \in SUBSET Waiting(state) :
        pu' = Deliver(pu, W, MSG_OK) /\ Waiting(Woken(o)) = Waiting(state) \ W
  BY <1>1, SignalSems
<1>4. CallsHold'
  BY <1>1, <1>3, WakingKeepsCalls
<1> QED
  BY <1>1, <1>2, <1>4 DEF MBInv

\* Nobody was granted anything, and whoever waits is told of the reset.
LEMMA ResetKeeps ==
  ASSUME ~ResetAnyTime, MBInv, MBReset \/ IsrMBResetI
  PROVE  MBInv' /\ Filled' = 0 /\ got' = got
<1> DEFINE W == Late("empty") \cup Late("full")
<1>1. IInv /\ CallsHold /\ RingHolds /\ IInv'
  BY ResetsKeepSems DEF MBInv
<1>2. MBResetI /\ MayReset /\ slept' = slept
  BY DEF MBReset, IsrMBResetI
<1>3. /\ W = Waiting(state) /\ pu' = Deliver(pu, W, MSG_RESET)
      /\ OneCurrent(ReadyI(state, W), currp) /\ Waiting(ReadyI(state, W)) = {}
  BY <1>1, <1>2, MboxAssumption, ResetSems
<1>4. Waiting(state') = {}
  <2> HIDE DEF W
  <2>1. CASE MBReset
    <3>1. RescheduleS(ReadyI(state, W), prio)
      BY <2>1 DEF MBReset, W
    <3>2. prio \in [Threads -> Nat]
      BY <1>1, CoreAssumption DEF IInv, TypeOK
    <3> QED
      BY <1>3, <3>1, <3>2, RescheduleRestores
  <2>2. CASE IsrMBResetI
    <3>1. state' = ReadyI(state, W)
      BY <2>2 DEF IsrMBResetI, W
    <3> QED
      BY <1>3, <3>1
  <2> QED
    BY <2>1, <2>2
<1> HIDE DEF W
<1>5. /\ wr' = 0 /\ rd' = 0 /\ buf' = buf /\ op' = op /\ got' = got
      /\ cnt' = [s \in Sems |-> IF s = "empty" THEN Slots ELSE 0]
      /\ "empty" \in Sems /\ "full" \in Sems /\ Slots \in Nat \ {0}
  BY <1>2, MboxAssumption DEF MBResetI
<1>6. CallsHold'
  BY <1>1, <1>2, <1>3, <1>4, <1>5, WakingKeepsCalls
<1>7. ASSUME NEW s \in Sems PROVE Takers(s, op', pu') = {}
  <2>1. ASSUME NEW t \in Threads, op[t] # None, pu[t] = MSG_OK PROVE FALSE
    <3>1. op[t] \in Ops
      BY <1>1, <2>1 DEF CallsHold
    <3>2. t \in Granted({"post", "ahead", "fetch"})
      BY <2>1, <3>1, OpKinds DEF Granted
    <3> QED
      BY <1>2, <3>2 DEF MayReset
  <2>2. \A t \in Threads : pu'[t] = IF t \in W THEN MSG_RESET ELSE pu[t]
    BY <1>3 DEF Deliver
  <2> QED
    BY <1>5, <2>1, <2>2 DEF Takers, MSG_OK, MSG_RESET
<1>8. /\ Have("empty", cnt'["empty"], op', pu') = Slots
      /\ Have("full", cnt'["full"], op', pu') = 0
      /\ \A s \in Sems : IsFiniteSet(Takers(s, op', pu'))
  <2>1. cnt'["empty"] = Slots /\ cnt'["full"] = 0
    BY <1>5
  <2> QED
    BY <1>5, <1>7, <2>1, FS_EmptySet DEF Have, Positive
<1>9. RingHolds' /\ Filled' = 0
  <2>1. (0 + 0) % Slots = 0 /\ 0 \in 0..Slots - 1
    BY <1>5
  <2> QED
    BY <1>1, <1>5, <1>8, <2>1 DEF RingHolds, Filled
<1> QED
  BY <1>1, <1>5, <1>6, <1>9 DEF MBInv

\* Timers and the ends of handlers.
LEMMA TimeKeeps ==
  ASSUME MBInv, UNCHANGED <<ring, op, got>>,
         (\E t \in Threads : Expire(t) \/ Wakeup(t)) \/ EndIsr
  PROVE  MBInv' /\ Filled' = Filled
<1>1. IInv /\ CallsHold /\ RingHolds /\ IInv'
  BY ExpireInv, TimerWakeupInv, EndIsrInv DEF MBInv
<1>2. CASE (\E t \in Threads : Expire(t)) \/ EndIsr
  <2>1. UNCHANGED <<pu, cnt, slept>>
    BY <1>2 DEF Expire, TimerExpires, EndIsr, IsrExit
  <2>2. Waiting(state') = Waiting(state)
    <3>1. CASE \E t \in Threads : Expire(t)
      BY <3>1 DEF Expire, TimerExpires
    <3>2. CASE EndIsr
      <4>1. RescheduleS(state, prio) /\ prio \in [Threads -> Nat] /\ OneCurrent(state, currp)
        BY <1>1, <3>2, CoreAssumption DEF EndIsr, IsrExit, IInv, TypeOK
      <4> QED
        BY <4>1, RescheduleRestores
    <3> QED
      BY <1>2, <3>1, <3>2
  <2>3. CallsHold'
    BY <1>1, <2>1, <2>2, CallsFrame DEF Waiting
  <2>4. RingHolds' /\ Filled' = Filled
    BY <1>1, <2>1, QuietKeeps
  <2> QED
    BY <1>1, <2>3, <2>4 DEF MBInv
<1>3. ASSUME NEW t \in Threads, Wakeup(t) PROVE MBInv' /\ Filled' = Filled
  <2>1. /\ vt[t] = "firing" /\ slept' = slept /\ state[t] \in {"READY", "WTSEM"}
    BY <1>1, <1>3 DEF Wakeup, TimerWakeup, IInv, IsrContext, TimerBelongsToWait, OneCurrent, States
  <2>2. CASE state[t] = "READY"
    <3>1. UNCHANGED <<state, pu, cnt>>
      BY <1>3, <2>2 DEF Wakeup, TimerWakeup
    <3>2. CallsHold'
      BY <1>1, <2>1, <3>1, CallsFrame
    <3>3. RingHolds' /\ Filled' = Filled
      BY <1>1, <3>1, QuietKeeps
    <3> QED
      BY <1>1, <3>2, <3>3 DEF MBInv
  <2>3. CASE state[t] = "WTSEM"
    <3>1. /\ state' = ReadyI(state, {t}) /\ pu' = Deliver(pu, {t}, MSG_TIMEOUT)
          /\ cnt' = FastSignalI(pu[t])
      BY <1>3, <2>3 DEF Wakeup, TimerWakeup
    <3>2. t \in Waiting(state) /\ Waiting(state') = Waiting(state) \ {t}
      BY <2>3, <3>1 DEF Waiting, ReadyI
    <3>3. CallsHold'
      BY <1>1, <2>1, <3>1, <3>2, WakingKeepsCalls
    <3>4. pu[t] \in Sems /\ pu[t] \notin Msgs /\ t \in ToSet(queue[pu[t]])
      BY <1>1, <3>2, WhoWaits DEF IInv, QueuesHold
    <3>5. cnt \in [Sems -> Int] /\ cnt[pu[t]] < 0
      <4>1. queue[pu[t]] # <<>>
        BY <3>4 DEF ToSet
      <4>2. queue[pu[t]] \in Seq(Threads) /\ cnt \in [Sems -> Int]
        BY <1>1, <3>4 DEF IInv, TypeOK
      <4>3. Len(queue[pu[t]]) # 0
        BY <4>1, <4>2
      <4> QED
        BY <1>1, <3>4, <4>2, <4>3 DEF IInv, CountersHold
    <3>6. \A s \in Sems : Positive(cnt'[s]) = Positive(cnt[s])
      BY <3>1, <3>4, <3>5 DEF FastSignalI, Positive
    <3>7. \A w \in Threads : pu'[w] = IF w = t THEN MSG_TIMEOUT ELSE pu[w]
      BY <3>1 DEF Deliver
    <3>8. MSG_TIMEOUT # MSG_OK /\ pu[t] # MSG_OK
      BY <3>4 DEF Msgs, MSG_TIMEOUT, MSG_OK
    <3>9. RingHolds' /\ Filled' = Filled
      BY <1>1, <3>6, <3>7, <3>8, QuietKeeps
    <3> QED
      BY <1>1, <3>3, <3>9 DEF MBInv
  <2> QED
    BY <2>1, <2>2, <2>3
<1> QED
  BY <1>2, <1>3

-----------------------------------------------------------------------------
(***************************************************************************)
(* The theorems.                                                           *)
(***************************************************************************)

LEMMA InitKeeps == MBInit => MBInv /\ Filled = 0
<1> SUFFICES ASSUME MBInit PROVE MBInv /\ Filled = 0
  OBVIOUS
<1>1. /\ cnt = [s \in Sems |-> IF s = "empty" THEN Slots ELSE 0]
      /\ op = [t \in Threads |-> None] /\ rd = 0 /\ wr = 0 /\ got = None
      /\ buf \in [0..Slots - 1 -> Payloads] /\ CoreInit
      /\ "empty" \in Sems /\ "full" \in Sems /\ Slots \in Nat \ {0}
  BY MboxAssumption DEF MBInit
<1>2. IInv
  BY <1>1, StartInv DEF MBInit
<1>3. CallsHold
  <2>1. \A t \in Threads : ~slept[t] /\ state[t] # "WTSEM"
    BY <1>1 DEF CoreInit
  <2> QED
    BY <1>1, <2>1 DEF CallsHold
<1>4. \A s \in Sems : Takers(s, op, pu) = {}
  BY <1>1 DEF Takers
<1>5. /\ Have("empty", cnt["empty"], op, pu) = Slots
      /\ Have("full", cnt["full"], op, pu) = 0
      /\ \A s \in Sems : IsFiniteSet(Takers(s, op, pu))
  <2>1. cnt["empty"] = Slots /\ cnt["full"] = 0
    BY <1>1
  <2>2. IsFiniteSet({}) /\ Cardinality({}) = 0
    BY FS_EmptySet
  <2>3. Positive(Slots) = Slots /\ Positive(0) = 0 /\ Slots + 0 = Slots
    BY <1>1 DEF Positive
  <2>4. Takers("empty", op, pu) = {} /\ Takers("full", op, pu) = {}
    BY <1>1, <1>4
  <2>5. Positive(cnt["empty"]) = Slots /\ Cardinality(Takers("empty", op, pu)) = 0
    BY <2>1, <2>2, <2>3, <2>4
  <2>6. Positive(cnt["full"]) = 0 /\ Cardinality(Takers("full", op, pu)) = 0
    BY <2>1, <2>2, <2>3, <2>4
  <2>7. Have("empty", cnt["empty"], op, pu) = Slots + 0
    BY <2>5 DEF Have
  <2>8. Have("full", cnt["full"], op, pu) = 0 + 0
    BY <2>6 DEF Have
  <2> QED
    BY <1>4, <2>2, <2>3, <2>7, <2>8
<1>6. (0 + 0) % Slots = 0 /\ 0 \in 0..Slots - 1
  BY <1>1
<1> QED
  BY <1>1, <1>2, <1>3, <1>5, <1>6 DEF MBInv, RingHolds, Filled

LEMMA NextKeeps ==
  ASSUME ~ResetAnyTime, MBInv, [MBNext]_mbVars
  PROVE  MBInv'
<1>1. CASE MBNext
  BY <1>1, BeginKeeps, FinishKeeps, HandlerKeeps, ResetKeeps, TimeKeeps DEF MBNext
<1>2. CASE UNCHANGED mbVars
  <2>1. UNCHANGED vars /\ UNCHANGED <<ring, op, got>>
    BY <1>2 DEF mbVars
  <2>2. IInv /\ [Next]_vars
    BY <2>1 DEF MBInv
  <2>3. IInv'
    BY <2>2, NextInv
  <2>4. UNCHANGED <<state, pu, cnt, slept>>
    BY <2>1 DEF vars, core
  <2>5. CallsHold'
    BY <2>1, <2>4, CallsFrame DEF MBInv
  <2>6. RingHolds'
    BY <2>1, <2>4, QuietKeeps DEF MBInv
  <2> QED
    BY <2>3, <2>5, <2>6 DEF MBInv
<1> QED
  BY <1>1, <1>2

\* The invariant holds of every mailbox that is not reset while a granted call
\* has not finished.
THEOREM MBInvariance == ~ResetAnyTime => (MBSpec => []MBInv)
<1> SUFFICES ASSUME ~ResetAnyTime PROVE MBSpec => []MBInv
  OBVIOUS
<1>1. MBInit => MBInv
  BY InitKeeps
<1>2. MBInv /\ [MBNext]_mbVars => MBInv'
  BY NextKeeps
<1> QED
  BY <1>1, <1>2, PTL DEF MBSpec

\* The state of the kernel, the ring and the calls keeps its type; the places
\* stay inside the ring.
THEOREM MBTypeCorrect == ~ResetAnyTime => (MBSpec => []MBTypeOK)
<1> SUFFICES ASSUME ~ResetAnyTime PROVE MBSpec => []MBTypeOK
  OBVIOUS
<1>1. MBInv => MBTypeOK
  BY DEF MBInv, IInv, TypeOK, CallsHold, RingHolds, MBTypeOK
<1> QED
  BY <1>1, MBInvariance, PTL

LEMMA FilledIsStored ==
  ASSUME MBInv
  PROVE  Filled = Stored
  BY TakersAreGranted DEF MBInv, CallsHold, Filled, Have, Stored

\* chMBPost and chMBFetch: every slot is free, promised to a poster, filled or
\* promised to a fetcher, and the write place is where the messages end.
THEOREM SlotsAreBalanced == ~ResetAnyTime => (MBSpec => []SlotsBalance)
<1> SUFFICES ASSUME ~ResetAnyTime PROVE MBSpec => []SlotsBalance
  OBVIOUS
<1>1. MBInv => SlotsBalance
  <2> SUFFICES ASSUME MBInv PROVE SlotsBalance
    OBVIOUS
  <2>1. Have("empty", cnt["empty"], op, pu)
          = Positive(cnt["empty"]) + Cardinality(Granted({"post", "ahead"}))
    BY TakersAreGranted DEF MBInv, CallsHold, Have
  <2>2. Filled = Stored
    BY FilledIsStored
  <2> QED
    BY <2>1, <2>2 DEF MBInv, RingHolds, SlotsBalance
<1> QED
  BY <1>1, MBInvariance, PTL

-----------------------------------------------------------------------------
(***************************************************************************)
(* The mailbox implements the bounded channel.                             *)
(***************************************************************************)

\* The rings of messages.
Rings == [0..Slots - 1 -> Payloads]

\* The place of the i-th message from place r.
Spot(r, i) == (r + (i - 1)) % Slots

LEMMA ContentType ==
  ASSUME NEW b, NEW r, NEW n, NEW c,
         b \in Rings, r \in 0..Slots - 1, n \in 0..Slots,
         c = Content(b, r, n)
  PROVE  /\ c \in Seq(Payloads) /\ Len(c) = n /\ DOMAIN c = 1..n
         /\ \A i \in 1..n : c[i] = b[Spot(r, i)]
<1>1. ASSUME NEW i \in 1..n
      PROVE  (r + (i - 1)) % Slots \in 0..Slots - 1 /\ r + i - 1 = r + (i - 1)
  <2>1. i - 1 \in 0..Slots
    BY MboxAssumption
  <2> QED
    BY <2>1, MboxAssumption, Place
<1>2. c = [i \in 1..n |-> b[(r + i - 1) % Slots]]
  BY DEF Content
<1>3. c \in [1..n -> Payloads] /\ \A i \in 1..n : c[i] = b[Spot(r, i)]
  BY <1>1, <1>2 DEF Spot, Rings
<1>4. n \in Nat
  BY MboxAssumption
<1> QED
  BY <1>3, <1>4

\* A message put goes behind the others.
LEMMA PutContent ==
  ASSUME NEW b, b \in Rings, NEW r \in 0..Slots - 1, NEW n \in 0..Slots - 1,
         NEW m \in Payloads
  PROVE  Content([b EXCEPT ![(r + n) % Slots] = m], r, n + 1) = Append(Content(b, r, n), m)
<1> DEFINE w == (r + n) % Slots
           b2 == [b EXCEPT ![w] = m]
           c == Content(b, r, n)
           d == Content(b2, r, n + 1)
<1>0. Slots \in Nat \ {0}
  BY MboxAssumption
<1>1. w \in 0..Slots - 1
  BY MboxAssumption, Place
<1>2. b2 \in Rings /\ n \in 0..Slots /\ n + 1 \in 0..Slots
  BY MboxAssumption DEF Rings
<1>3. /\ c \in Seq(Payloads) /\ Len(c) = n /\ DOMAIN c = 1..n
      /\ \A i \in 1..n : c[i] = b[Spot(r, i)]
  <2>1. c = Content(b, r, n)
    OBVIOUS
  <2> HIDE DEF c
  <2> QED
    BY <1>2, <2>1, ContentType
<1>4. /\ d \in Seq(Payloads) /\ Len(d) = n + 1 /\ DOMAIN d = 1..n + 1
      /\ \A i \in 1..n + 1 : d[i] = b2[Spot(r, i)]
  <2>1. d = Content(b2, r, n + 1)
    OBVIOUS
  <2> HIDE DEF b2, d
  <2> QED
    BY <1>2, <2>1, ContentType
<1>5. ASSUME NEW i \in 1..n PROVE d[i] = c[i]
  <2>1. i - 1 \in 0..Slots - 1 /\ n \in 0..Slots - 1 /\ i - 1 # n /\ i \in 1..n + 1
    BY <1>0
  <2>2. (r + (i - 1)) % Slots # w
    BY <2>1, Apart, MboxAssumption
  <2>3. (r + (i - 1)) % Slots \in 0..Slots - 1
    BY <2>1, MboxAssumption, Place
  <2>4. d[i] = b2[Spot(r, i)]
    BY <1>4, <2>1
  <2> QED
    BY <1>3, <2>2, <2>3, <2>4 DEF Spot, Rings
<1>6. d[n + 1] = m
  <2>1. n + 1 \in 1..n + 1 /\ (r + ((n + 1) - 1)) % Slots = w
    OBVIOUS
  <2>2. d[n + 1] = b2[Spot(r, n + 1)]
    BY <1>4, <2>1
  <2> QED
    BY <1>1, <2>1, <2>2 DEF Spot, Rings
<1> HIDE DEF c, d
<1>7. /\ Append(c, m) \in Seq(Payloads) /\ Len(Append(c, m)) = n + 1
      /\ \A i \in 1..n : Append(c, m)[i] = c[i]
      /\ Append(c, m)[n + 1] = m
  BY <1>3
<1>8. \A i \in 1..n + 1 : i \in 1..n \/ i = n + 1
  OBVIOUS
<1>9. d = Append(c, m)
  BY <1>4, <1>5, <1>6, <1>7, <1>8
<1> QED
  BY <1>9 DEF c, d

\* A message put ahead goes in front.
LEMMA AheadContent ==
  ASSUME NEW b, b \in Rings, NEW r \in 0..Slots - 1, NEW n \in 0..Slots - 1,
         NEW m \in Payloads
  PROVE  Content([b EXCEPT ![Before(r)] = m], Before(r), n + 1) = <<m>> \o Content(b, r, n)
<1> DEFINE p == Before(r)
           b2 == [b EXCEPT ![p] = m]
           c == Content(b, r, n)
           d == Content(b2, p, n + 1)
<1>0. Slots \in Nat \ {0}
  BY MboxAssumption
<1>1. p \in 0..Slots - 1 /\ r = (p + 1) % Slots
  BY NextPlace
<1> HIDE DEF p
<1>2. b2 \in Rings /\ n \in 0..Slots /\ n + 1 \in 0..Slots
  BY <1>0, <1>1 DEF Rings
<1>3. /\ c \in Seq(Payloads) /\ Len(c) = n /\ DOMAIN c = 1..n
      /\ \A i \in 1..n : c[i] = b[Spot(r, i)]
  <2>1. c = Content(b, r, n)
    OBVIOUS
  <2> HIDE DEF c
  <2> QED
    BY <1>2, <2>1, ContentType
<1>4. /\ d \in Seq(Payloads) /\ Len(d) = n + 1 /\ DOMAIN d = 1..n + 1
      /\ \A i \in 1..n + 1 : d[i] = b2[Spot(p, i)]
  <2>1. d = Content(b2, p, n + 1)
    OBVIOUS
  <2> HIDE DEF b2, d
  <2> QED
    BY <1>1, <1>2, <2>1, ContentType
<1>5. (p + 0) % Slots = p
  BY <1>1, MboxAssumption
<1>6. ASSUME NEW i \in 2..n + 1 PROVE d[i] = c[i - 1]
  <2>1. i - 1 \in 1..n /\ i - 2 \in 0..Slots /\ (i - 1) - 1 = i - 2 /\ i \in 1..n + 1
        /\ 1 + (i - 2) = i - 1 /\ i - 1 \in 0..Slots - 1 /\ 0 \in 0..Slots - 1
        /\ i - 1 \in 0..Slots
    BY <1>0
  <2>2. (((p + 1) % Slots) + (i - 2)) % Slots = (p + (1 + (i - 2))) % Slots
    BY <1>1, <2>1, Onward, MboxAssumption
  <2>3. (p + (i - 1)) % Slots # p
    <3>1. ASSUME (p + (i - 1)) % Slots = (p + 0) % Slots PROVE FALSE
      <4>1. i - 1 = 0
        BY <1>1, <2>1, <3>1, Apart, MboxAssumption
      <4> QED
        BY <4>1, <2>1
    <3> QED
      BY <1>5, <3>1
  <2>4. (p + (i - 1)) % Slots \in 0..Slots - 1
    BY <1>1, <2>1, MboxAssumption, Place
  <2>5. d[i] = b2[Spot(p, i)] /\ c[i - 1] = b[Spot(r, i - 1)]
    BY <1>3, <1>4, <2>1
  <2> QED
    BY <1>1, <2>1, <2>2, <2>3, <2>4, <2>5 DEF Spot, Rings
<1>7. d[1] = m
  <2>1. 1 \in 1..n + 1 /\ 1 - 1 = 0
    OBVIOUS
  <2>2. d[1] = b2[Spot(p, 1)]
    BY <1>4, <2>1
  <2> QED
    BY <1>1, <1>5, <2>1, <2>2 DEF Spot, Rings
<1> HIDE DEF c, d
<1>8. /\ <<m>> \o c \in Seq(Payloads) /\ Len(<<m>> \o c) = n + 1 /\ (<<m>> \o c)[1] = m
      /\ \A i \in 2..n + 1 : (<<m>> \o c)[i] = c[i - 1]
  BY <1>3
<1>9. \A i \in 1..n + 1 : i = 1 \/ i \in 2..n + 1
  OBVIOUS
<1>10. d = <<m>> \o c
  BY <1>4, <1>6, <1>7, <1>8, <1>9
<1> QED
  BY <1>10 DEF c, d, p

\* A message taken is the first.
LEMMA TakeContent ==
  ASSUME NEW b, NEW r, NEW n, NEW k, NEW p, NEW c, NEW d,
         b \in Rings, r \in 0..Slots - 1, n \in 1..Slots, k = n - 1,
         p = Next1(r), c = Content(b, r, n), d = Content(b, p, k)
  PROVE  c # <<>> /\ Head(c) = b[r] /\ d = Tail(c)
<1>0. Slots \in Nat \ {0}
  BY MboxAssumption
<1>1. p \in 0..Slots - 1 /\ p = (r + 1) % Slots
  BY NextPlace
<1>2. n \in 0..Slots /\ k \in 0..Slots
  BY <1>0
<1>3. /\ c \in Seq(Payloads) /\ Len(c) = n /\ DOMAIN c = 1..n
      /\ \A i \in 1..n : c[i] = b[Spot(r, i)]
  BY <1>2, ContentType
<1>4. /\ d \in Seq(Payloads) /\ Len(d) = k /\ DOMAIN d = 1..k
      /\ \A i \in 1..k : d[i] = b[Spot(p, i)]
  BY <1>1, <1>2, ContentType
<1>5. ASSUME NEW i \in 1..k PROVE d[i] = c[i + 1]
  <2>1. i + 1 \in 1..n /\ (i + 1) - 1 = i /\ 1 + (i - 1) = i /\ i - 1 \in 0..Slots /\ 1 \in 0..Slots
    BY <1>0
  <2>2. ASSUME NEW j \in 0..Slots
        PROVE  (((r + 1) % Slots) + j) % Slots = (r + (1 + j)) % Slots
    BY <1>0, <2>1, Onward
  <2>3. c[i + 1] = b[Spot(r, i + 1)]
    BY <1>3, <2>1
  <2> QED
    BY <1>1, <1>4, <2>1, <2>2, <2>3 DEF Spot
<1>6. c[1] = b[r]
  <2>1. (r + 0) % Slots = r /\ 1 - 1 = 0 /\ 1 \in 1..n
    BY <1>0
  <2> QED
    BY <1>3, <2>1 DEF Spot
<1>7. c # <<>> /\ Head(c) = b[r]
  BY <1>2, <1>3, <1>6
<1>8. /\ Tail(c) \in Seq(Payloads) /\ Len(Tail(c)) = k
      /\ \A i \in 1..k : Tail(c)[i] = c[i + 1]
  BY <1>2, <1>3, <1>7
<1>9. d = Tail(c)
  BY <1>4, <1>5, <1>8
<1> QED
  BY <1>7, <1>9

\* The content of the abstract channel.
Abs == Content(buf, rd, Filled)

LEMMA MoveMaps ==
  ASSUME MBInv, NEW o \in Ops, Moved(o)
  PROVE  \/ o.msg \in Payloads /\ Len(Abs) < Slots /\ Abs' = Append(Abs, o.msg) /\ got' = got
         \/ o.msg \in Payloads /\ Len(Abs) < Slots /\ Abs' = <<o.msg>> \o Abs /\ got' = got
         \/ Abs # <<>> /\ got' = Head(Abs) /\ Abs' = Tail(Abs)
<1>1. /\ buf \in Rings /\ rd \in 0..Slots - 1 /\ Filled \in 0..Slots
      /\ wr = (rd + Filled) % Slots /\ Len(Abs) = Filled
  <2>1. /\ buf \in Rings /\ rd \in 0..Slots - 1 /\ Filled \in 0..Slots
        /\ wr = (rd + Filled) % Slots
    BY HaveNat, MboxAssumption DEF MBInv, RingHolds, Rings
  <2> QED
    BY <2>1, ContentType DEF Abs
<1>2. /\ Move(o) /\ Filled' \in 0..Slots /\ Slots \in Nat
      /\ Filled' = IF o.do = "fetch" THEN Filled - 1 ELSE Filled + 1
  BY MboxAssumption DEF Moved
<1>3. CASE o.do = "post"
  <2>1. buf' = [buf EXCEPT ![wr] = o.msg] /\ rd' = rd /\ got' = got
    BY <1>2, <1>3 DEF Move
  <2>2. Filled' = Filled + 1 /\ Filled \in 0..Slots - 1 /\ o.msg \in Payloads
    BY <1>1, <1>2, <1>3, OpKinds
  <2>3. Abs' = Append(Abs, o.msg)
    BY <1>1, <2>1, <2>2, PutContent DEF Abs
  <2> QED
    BY <1>1, <1>2, <2>1, <2>2, <2>3
<1>4. CASE o.do = "ahead"
  <2>1. buf' = [buf EXCEPT ![Before(rd)] = o.msg] /\ rd' = Before(rd) /\ got' = got
    BY <1>2, <1>4 DEF Move
  <2>2. Filled' = Filled + 1 /\ Filled \in 0..Slots - 1 /\ o.msg \in Payloads
    BY <1>1, <1>2, <1>4, OpKinds
  <2>3. Abs' = <<o.msg>> \o Abs
    BY <1>1, <2>1, <2>2, AheadContent DEF Abs
  <2> QED
    BY <1>1, <1>2, <2>1, <2>2, <2>3
<1>5. CASE o.do = "fetch"
  <2>1. got' = buf[rd] /\ rd' = Next1(rd) /\ buf' = buf
    BY <1>2, <1>5 DEF Move
  <2>2. Filled' = Filled - 1 /\ Filled \in 1..Slots
    BY <1>1, <1>2, <1>5
  <2>3. /\ Abs = Content(buf, rd, Filled) /\ Abs' = Content(buf, rd', Filled')
    BY <2>1 DEF Abs
  <2>4. Abs # <<>> /\ Head(Abs) = buf[rd] /\ Abs' = Tail(Abs)
    BY <1>1, <2>1, <2>2, <2>3, TakeContent
  <2> QED
    BY <2>1, <2>4
<1> QED
  BY <1>3, <1>4, <1>5, OpKinds


LEMMA MessagesAreAbs == MBInv => Messages = Abs
  BY FilledIsStored DEF Abs, Content, Messages

\* A step of the mailbox is a step of the channel, or leaves it alone.
LEMMA StepMapsToChannel ==
  ASSUME ~ResetAnyTime, MBInv, [MBNext]_mbVars
  PROVE  [Chan!AbsNext]_(Chan!absVars)
<1>1. MBInv'
  BY NextKeeps
<1>2. Messages = Abs
  BY MessagesAreAbs
<1>3. (Messages = Abs)'
  BY <1>1, MessagesAreAbs, PTL
<1>4. ASSUME NEW o \in Ops, Moved(o) PROVE Chan!AbsNext
  BY <1>2, <1>3, <1>4, MoveMaps DEF Chan!AbsNext, Chan!Put, Chan!PutAhead, Chan!Take
<1>5. ASSUME UNCHANGED <<ring, got>>, Filled' = Filled PROVE UNCHANGED Chan!absVars
  BY <1>2, <1>3, <1>5 DEF Abs, Content, ring, Chan!absVars
<1>6. ASSUME NEW o \in Ops, NEW time \in Timeouts, Begin(o, time)
      PROVE  [Chan!AbsNext]_(Chan!absVars)
  BY <1>4, <1>5, <1>6, BeginKeeps
<1>7. CASE Finish
  BY <1>4, <1>5, <1>7, FinishKeeps
<1>8. ASSUME NEW o \in Ops, HandlerOp(o) PROVE Chan!AbsNext
  BY <1>4, <1>8, HandlerKeeps
<1>9. CASE MBReset \/ IsrMBResetI
  <2>1. Filled' = 0 /\ got' = got
    BY <1>9, ResetKeeps
  <2>2. Abs' = <<>>
    BY <2>1 DEF Abs, Content
  <2> QED
    BY <1>3, <2>1, <2>2 DEF Chan!AbsNext, Chan!Clear
<1>10. CASE \/ \E t \in Threads : (Expire(t) \/ Wakeup(t)) /\ UNCHANGED <<ring, op, got>>
            \/ EndIsr /\ UNCHANGED <<ring, op, got>>
  BY <1>5, <1>10, TimeKeeps
<1>11. CASE UNCHANGED mbVars
  <2>1. UNCHANGED <<ring, got, cnt, op, pu>>
    BY <1>11 DEF mbVars, vars, core
  <2>2. Filled' = Filled
    BY <2>1 DEF Filled, Have, Takers
  <2> QED
    BY <1>5, <2>1, <2>2
<1> QED
  BY <1>6, <1>7, <1>8, <1>9, <1>10, <1>11 DEF MBNext

\* The ring, its two semaphores and the calls in flight (chmboxes.c) behave as
\* a channel of Slots messages: none is lost, repeated, overwritten or passed
\* by another, whatever threads, handlers and timers do.
THEOREM MailboxIsAChannel == ~ResetAnyTime => (MBSpec => ImplementsChannel)
<1> SUFFICES ASSUME ~ResetAnyTime PROVE MBSpec => ImplementsChannel
  OBVIOUS
<1>1. MBInit => Chan!AbsInit
  <2> SUFFICES ASSUME MBInit PROVE Chan!AbsInit
    OBVIOUS
  <2>1. MBInv /\ got = None
    BY InitKeeps DEF MBInit
  <2>2. Filled = 0
    BY InitKeeps
  <2>3. Messages = <<>>
    BY <2>1, <2>2, MessagesAreAbs DEF Abs, Content
  <2> QED
    BY <2>1, <2>3 DEF Chan!AbsInit
<1>2. MBInv /\ [MBNext]_mbVars => [Chan!AbsNext]_(Chan!absVars)
  BY StepMapsToChannel
<1> QED
  BY <1>1, <1>2, MBInvariance, PTL DEF MBSpec, ImplementsChannel, Chan!AbsSpec

=============================================================================
