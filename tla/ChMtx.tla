------------------------------- MODULE ChMtx --------------------------------
(***************************************************************************)
(* Mutexes with priority inheritance (chmtx.c, not recursive), condition   *)
(* variables (chcond.c), chThdSetPriority and chThdSleep (chthreads.c).    *)
(*                                                                         *)
(* The wait queues of mutexes and condition variables are kept in          *)
(* decreasing priority; a boosted thread is moved in the queue it is in.   *)
(***************************************************************************)
EXTENDS ChCore, Queues

CONSTANTS
  Mutexes,     \* the mutexes
  Conds,       \* the condition variables
  Levels,      \* priorities that each thread gives to chThdSetPriority
  OwnersMay,   \* threads that own a mutex call chThdSetPriority, too
  Rank         \* order in which threads nest mutexes (equal ranks: any order)

ASSUME MtxAssumption ==
  /\ Levels \in [Threads -> SUBSET Nat]
  /\ OwnersMay \in BOOLEAN
  /\ Rank \in [Mutexes -> Nat]
  /\ None \notin Threads

VARIABLES
  owner,       \* m_owner
  mlist,       \* p_mtxlist, last locked first
  mqueue,      \* m_queue, most urgent first
  cqueue,      \* c_queue, most urgent first
  realprio,    \* p_realprio
  call         \* the kernel call each thread sleeps in

mtx  == <<owner, mlist, mqueue>>
vars == <<core, mtx, cqueue, realprio, call>>

NoCall        == [op |-> "none", m |-> None]
SleepCall     == [op |-> "sleep", m |-> None]
LockCall(m)   == [op |-> "lock", m |-> m]
WaitCall(m)   == [op |-> "wait", m |-> m]

-----------------------------------------------------------------------------
\* Who keeps t waiting, if t waits on a mutex.
Blocker(t) == IF t # None /\ state[t] = "WTMTX" THEN owner[pu[t]] ELSE None

\* Mutation: only the direct owner inherits.
BoostedDirect(m) == {t \in Threads : t = owner[m] /\ prio[t] < prio[currp]}

\* Mutation: no inheritance.
BoostedNone(m) == {}

Lower(t) == t # None /\ prio[t] < prio[currp]

\* B holds with a thread the less urgent one that blocks it.
Closed(B) == \A t \in B : Lower(Blocker(t)) => Blocker(t) \in B

\* The threads that the inheritance loop boosts to currp's priority: it
\* follows the owners, from m's, while they are less urgent than currp.
Boosted(m) ==
  {t \in Threads : \A B \in SUBSET Threads :
     (Lower(owner[m]) => owner[m] \in B) /\ Closed(B) => t \in B}

BoostedPrio(m) ==
  [t \in Threads |-> IF t \in Boosted(m) THEN prio[currp] ELSE prio[t]]

\* Mutation: a boosted waiter keeps its place.
ReorderNot(q, B, p) == q

\* The boosted thread that is in q, if there is one, moves to its new place.
Reorder(q, B, p) ==
  IF B \cap ToSet(q) = {} THEN q
  ELSE LET t == CHOOSE w \in B \cap ToSet(q) : TRUE
       IN PrioInsert(Dequeue(q, t), t, p)

-----------------------------------------------------------------------------
\* m becomes owned by t.
Take(m, t) ==
  /\ owner' = [owner EXCEPT ![m] = t]
  /\ mlist' = [mlist EXCEPT ![t] = <<m>> \o @]

\* chMtxLockS on an owned mutex: boost, queue, sleep.
LockSleep(m) ==
  LET p == BoostedPrio(m) IN
  /\ prio' = p
  /\ mqueue' = [k \in Mutexes |->
       LET q == Reorder(mqueue[k], Boosted(m), p)
       IN IF k = m THEN PrioInsert(q, currp, p) ELSE q]
  /\ cqueue' = [c \in Conds |-> Reorder(cqueue[c], Boosted(m), p)]
  /\ pu' = [pu EXCEPT ![currp] = m]
  /\ GoSleepTimeoutS(state, p, "WTMTX", "INFINITE")
  /\ call' = [call EXCEPT ![currp] = LockCall(m)]
  /\ UNCHANGED <<owner, mlist, isr, realprio>>

\* Program discipline: never a mutex already held, never one of lower rank.
MayLock(t, m) == \A k \in ToSet(mlist[t]) : k # m /\ Rank[k] <= Rank[m]

Lock(m) ==
  /\ Running
  /\ MayLock(currp, m)
  /\ IF owner[m] # None
       THEN LockSleep(m)
       ELSE Take(m, currp) /\ UNCHANGED <<core, mqueue, cqueue, realprio, call>>

\* chMtxTryLock fails without waiting.
TryLock(m) ==
  /\ Running
  /\ MayLock(currp, m)
  /\ owner[m] = None
  /\ Take(m, currp)
  /\ UNCHANGED <<core, mqueue, cqueue, realprio, call>>

-----------------------------------------------------------------------------
\* Mutation: the scan does not start from p_realprio.
PrioWithoutReal(m) ==
  LET waiters == {Head(mqueue[k]) : k \in {l \in ToSet(Tail(mlist[currp])) : mqueue[l] # <<>>}}
  IN CHOOSE p \in {0} \cup {prio[w] : w \in waiters} : \A w \in waiters : p >= prio[w]

\* The priority left to currp when it has given back its last mutex: its own,
\* or that of the most urgent waiter of the mutexes it still owns.
PrioWithout(m) ==
  LET waiters == {Head(mqueue[k]) : k \in {l \in ToSet(Tail(mlist[currp])) : mqueue[l] # <<>>}}
  IN CHOOSE p \in {realprio[currp]} \cup {prio[w] : w \in waiters} :
       p >= realprio[currp] /\ \A w \in waiters : p >= prio[w]

PrioAfterUnlock(m) ==
  IF mqueue[m] = <<>> THEN prio ELSE [prio EXCEPT ![currp] = PrioWithout(m)]

\* Mutation: the mutex goes to the far end of the new owner's list.
HandOverLast(m) ==
  IF mqueue[m] # <<>>
    THEN LET t == Head(mqueue[m]) IN
         /\ owner' = [owner EXCEPT ![m] = t]
         /\ mlist' = [mlist EXCEPT ![currp] = Tail(@), ![t] = Append(@, m)]
         /\ mqueue' = [mqueue EXCEPT ![m] = Tail(@)]
    ELSE /\ owner' = [owner EXCEPT ![m] = None]
         /\ mlist' = [mlist EXCEPT ![currp] = Tail(@)]
         /\ UNCHANGED mqueue

\* m leaves currp's list and goes to its most urgent waiter, if any.
HandOver(m) ==
  IF mqueue[m] # <<>>
    THEN LET t == Head(mqueue[m]) IN
         /\ owner' = [owner EXCEPT ![m] = t]
         /\ mlist' = [mlist EXCEPT ![currp] = Tail(@), ![t] = <<m>> \o @]
         /\ mqueue' = [mqueue EXCEPT ![m] = Tail(@)]
    ELSE /\ owner' = [owner EXCEPT ![m] = None]
         /\ mlist' = [mlist EXCEPT ![currp] = Tail(@)]
         /\ UNCHANGED mqueue

\* chMtxUnlock
Unlock(m) ==
  /\ Running
  /\ mlist[currp] # <<>> /\ Head(mlist[currp]) = m
  /\ HandOver(m)
  /\ prio' = PrioAfterUnlock(m)
  /\ IF mqueue[m] # <<>>
       THEN /\ pu' = [pu EXCEPT ![Head(mqueue[m])] = MSG_OK]
            /\ WakeupS(state, PrioAfterUnlock(m), Head(mqueue[m]))
       ELSE UNCHANGED <<pu, currp, state>>
  /\ UNCHANGED <<vt, slept, isr, cqueue, realprio, call>>

\* chMtxUnlockAll
UnlockAll ==
  /\ Running
  /\ mlist[currp] # <<>>
  /\ LET mine == ToSet(mlist[currp])
         next == [m \in mine |-> IF mqueue[m] = <<>> THEN None ELSE Head(mqueue[m])]
         heirs == {next[m] : m \in mine} \ {None}
         p == [prio EXCEPT ![currp] = realprio[currp]]
     IN /\ owner' = [m \in Mutexes |-> IF m \in mine THEN next[m] ELSE owner[m]]
        /\ mlist' = [t \in Threads |->
             IF t = currp THEN <<>>
             ELSE IF t \in heirs THEN <<CHOOSE m \in mine : next[m] = t>> \o mlist[t]
             ELSE mlist[t]]
        /\ mqueue' = [m \in Mutexes |->
             IF m \in mine /\ mqueue[m] # <<>> THEN Tail(mqueue[m]) ELSE mqueue[m]]
        /\ prio' = p
        /\ RescheduleS(ReadyI(state, heirs), p)
  /\ UNCHANGED <<pu, vt, slept, isr, cqueue, realprio, call>>

\* chThdSetPriority
SetPriority(n) ==
  /\ Running
  /\ OwnersMay \/ mlist[currp] = <<>>
  /\ LET p == IF prio[currp] = realprio[currp] \/ n > prio[currp]
                THEN [prio EXCEPT ![currp] = n] ELSE prio
     IN prio' = p /\ RescheduleS(state, p)
  /\ realprio' = [realprio EXCEPT ![currp] = n]
  /\ UNCHANGED <<pu, vt, slept, isr, mtx, cqueue, call>>

\* chThdSleep
Sleep ==
  /\ Running
  /\ GoSleepTimeoutS(state, prio, "SLEEPING", "FINITE")
  /\ call' = [call EXCEPT ![currp] = SleepCall]
  /\ UNCHANGED <<prio, pu, isr, mtx, cqueue, realprio>>

-----------------------------------------------------------------------------
\* chCondWaitS and chCondWaitTimeoutS: chMtxUnlockS on the last mutex locked,
\* whose new owner is readied without a message, then the wait.
CondWait(c, time) ==
  /\ Running
  /\ mlist[currp] # <<>>
  /\ LET m == Head(mlist[currp])
         p == PrioAfterUnlock(m)
         heir == {t \in Threads : mqueue[m] # <<>> /\ t = Head(mqueue[m])}
     IN /\ HandOver(m)
        /\ prio' = p
        /\ cqueue' = [cqueue EXCEPT ![c] = PrioInsert(@, currp, p)]
        /\ GoSleepTimeoutS(ReadyI(state, heir), p, "WTCOND", time)
        /\ call' = [call EXCEPT ![currp] = WaitCall(m)]
  /\ pu' = [pu EXCEPT ![currp] = c]
  /\ UNCHANGED <<isr, realprio>>

\* chCondSignal
CondSignal(c) ==
  /\ Running
  /\ cqueue[c] # <<>>
  /\ cqueue' = [cqueue EXCEPT ![c] = Tail(@)]
  /\ pu' = [pu EXCEPT ![Head(cqueue[c])] = MSG_OK]
  /\ WakeupS(state, prio, Head(cqueue[c]))
  /\ UNCHANGED <<prio, vt, slept, isr, mtx, realprio, call>>

\* Mutation: chCondBroadcast does not reschedule.
CondBroadcastStay(c) ==
  /\ Running
  /\ cqueue' = [cqueue EXCEPT ![c] = <<>>]
  /\ pu' = Deliver(pu, ToSet(cqueue[c]), MSG_RESET)
  /\ state' = ReadyI(state, ToSet(cqueue[c]))
  /\ UNCHANGED <<currp, prio, vt, slept, isr, mtx, realprio, call>>

\* chCondBroadcast
CondBroadcast(c) ==
  /\ Running
  /\ cqueue' = [cqueue EXCEPT ![c] = <<>>]
  /\ pu' = Deliver(pu, ToSet(cqueue[c]), MSG_RESET)
  /\ RescheduleS(ReadyI(state, ToSet(cqueue[c])), prio)
  /\ UNCHANGED <<prio, vt, slept, isr, mtx, realprio, call>>

-----------------------------------------------------------------------------
\* The end of a call that slept.  After a condition wait that did not time
\* out the mutex is locked again, which may sleep once more.
ResumeSimple ==
  /\ Resuming
  /\ \/ call[currp].op \in {"lock", "sleep"}
     \/ call[currp].op = "wait" /\ pu[currp] = MSG_TIMEOUT
  /\ EndSleep
  /\ call' = [call EXCEPT ![currp] = NoCall]
  /\ UNCHANGED <<currp, state, prio, pu, isr, mtx, cqueue, realprio>>

ResumeRelock ==
  /\ Resuming
  /\ call[currp].op = "wait" /\ pu[currp] # MSG_TIMEOUT
  /\ LET m == call[currp].m IN
       IF owner[m] # None
         THEN LockSleep(m)
         ELSE /\ Take(m, currp)
              /\ EndSleep
              /\ call' = [call EXCEPT ![currp] = NoCall]
              /\ UNCHANGED <<currp, state, prio, pu, isr, mqueue, cqueue, realprio>>

-----------------------------------------------------------------------------
\* chCondSignalI and chCondBroadcastI from an interrupt handler.
IsrCondSignalI(c) ==
  /\ Interruptible
  /\ isr' = TRUE
  /\ cqueue[c] # <<>>
  /\ cqueue' = [cqueue EXCEPT ![c] = Tail(@)]
  /\ pu' = [pu EXCEPT ![Head(cqueue[c])] = MSG_OK]
  /\ state' = ReadyI(state, {Head(cqueue[c])})
  /\ UNCHANGED <<currp, prio, vt, slept, mtx, realprio, call>>

IsrCondBroadcastI(c) ==
  /\ Interruptible
  /\ isr' = TRUE
  /\ cqueue' = [cqueue EXCEPT ![c] = <<>>]
  /\ pu' = Deliver(pu, ToSet(cqueue[c]), MSG_RESET)
  /\ state' = ReadyI(state, ToSet(cqueue[c]))
  /\ UNCHANGED <<currp, prio, vt, slept, mtx, realprio, call>>

Expire(t) == TimerExpires(t) /\ UNCHANGED <<mtx, cqueue, realprio, call>>

\* wakeup(): a thread on a condition variable leaves its queue.
Wakeup(t) ==
  /\ TimerWakeup(t)
  /\ cqueue' = IF state[t] = "WTCOND"
                 THEN [cqueue EXCEPT ![pu[t]] = Dequeue(@, t)] ELSE cqueue
  /\ UNCHANGED <<mtx, realprio, call>>

EndIsr == IsrExit /\ UNCHANGED <<mtx, cqueue, realprio, call>>

-----------------------------------------------------------------------------
Init ==
  /\ CoreInit
  /\ owner = [m \in Mutexes |-> None]
  /\ mlist = [t \in Threads |-> <<>>]
  /\ mqueue = [m \in Mutexes |-> <<>>]
  /\ cqueue = [c \in Conds |-> <<>>]
  /\ realprio = BasePrio
  /\ call = [t \in Threads |-> NoCall]

Next ==
  \/ \E m \in Mutexes : Lock(m) \/ TryLock(m) \/ Unlock(m)
  \/ UnlockAll
  \/ \E n \in Levels[currp] : SetPriority(n)
  \/ Sleep
  \/ \E c \in Conds, time \in {"INFINITE", "FINITE"} : CondWait(c, time)
  \/ \E c \in Conds : CondSignal(c) \/ CondBroadcast(c)
  \/ ResumeSimple
  \/ ResumeRelock
  \/ \E c \in Conds : IsrCondSignalI(c) \/ IsrCondBroadcastI(c)
  \/ \E t \in Threads : Expire(t) \/ Wakeup(t)
  \/ EndIsr

Spec == Init /\ [][Next]_vars

\* Interrupts end, timers expire, conditions get signalled by a device, and
\* a thread that owns a mutex and runs again and again gives it back.
Fairness ==
  /\ WF_vars(ResumeSimple \/ ResumeRelock)
  /\ SF_vars(EndIsr)
  /\ \A t \in Threads : SF_vars(Expire(t)) /\ WF_vars(Wakeup(t))
  /\ \A c \in Conds : SF_vars(IsrCondSignalI(c))
  /\ \A t \in Threads, m \in Mutexes : SF_vars(currp = t /\ Unlock(m))

FairSpec == Spec /\ Fairness

-----------------------------------------------------------------------------
Priorities == {BasePrio[t] : t \in Threads} \cup UNION {Levels[t] : t \in Threads}

TypeOK ==
  /\ currp \in Threads
  /\ state \in [Threads -> {"READY", "CURRENT", "WTMTX", "WTCOND", "SLEEPING"}]
  /\ prio \in [Threads -> Priorities]
  /\ realprio \in [Threads -> Priorities]
  /\ pu \in [Threads -> Msgs \cup Mutexes \cup Conds]
  /\ vt \in [Threads -> {"off", "armed", "firing"}]
  /\ slept \in [Threads -> BOOLEAN]
  /\ isr \in BOOLEAN
  /\ owner \in [Mutexes -> Threads \cup {None}]
  /\ mlist \in [Threads -> Seq(Mutexes)]
  /\ mqueue \in [Mutexes -> Seq(Threads)]
  /\ cqueue \in [Conds -> Seq(Threads)]
  /\ call \in [Threads -> [op : {"none", "lock", "wait", "sleep"}, m : Mutexes \cup {None}]]

\* Mutual exclusion as the kernel keeps it: a mutex is on the list of the
\* thread named as its owner, once, and on no other list; a free mutex has no
\* waiter that an unlock forgot; and a thread that returns from chMtxLock
\* after sleeping was handed the mutex, whoever ran meanwhile (the "not owner"
\* and "not owned" assertions of chMtxLockS).
OwnershipConsistent ==
  /\ \A m \in Mutexes : owner[m] = None => mqueue[m] = <<>>
  /\ \A t \in Threads : IsInjective(mlist[t])
  /\ \A m \in Mutexes, t \in Threads : m \in ToSet(mlist[t]) <=> owner[m] = t
  /\ \A t \in Threads : call[t].op = "lock" /\ state[t] # "WTMTX" =>
       owner[call[t].m] = t /\ Head(mlist[t]) = call[t].m

\* Each queue holds exactly the threads that wait on its object, once, and
\* in decreasing priority, also after boosts of waiting threads.
QueueOf(t, st, obj, q) == t \in ToSet(q) <=> (state[t] = st /\ pu[t] = obj)
QueuesExact ==
  /\ \A m \in Mutexes : IsInjective(mqueue[m]) /\ Descending(mqueue[m], prio)
  /\ \A c \in Conds : IsInjective(cqueue[c]) /\ Descending(cqueue[c], prio)
  /\ \A t \in Threads, m \in Mutexes : QueueOf(t, "WTMTX", m, mqueue[m])
  /\ \A t \in Threads, c \in Conds : QueueOf(t, "WTCOND", c, cqueue[c])

\* Priority inheritance is exact: a thread runs at its own priority or at
\* that of the most urgent thread waiting for a mutex it owns, whichever is
\* higher, in every state and through nested mutexes.
WaitersOn(t) == {w \in Threads : Blocker(w) = t}
InheritanceExact ==
  \A t \in Threads :
    /\ prio[t] >= realprio[t]
    /\ \A w \in WaitersOn(t) : prio[t] >= prio[w]
    /\ prio[t] = realprio[t] \/ \E w \in WaitersOn(t) : prio[t] = prio[w]

\* "Any thread, directly or indirectly, holding the mutex gains the same
\* priority of the waiting thread": no holder is less urgent than a waiter.
HoldersInherit ==
  \A m \in Mutexes, w \in Threads :
    state[w] = "WTMTX" /\ pu[w] = m => prio[owner[m]] >= prio[w]

\* chSysUnlock's assertion: thread code never runs while a thread of higher
\* priority is ready.
PriorityOrder ==
  ~isr /\ ~slept[currp] => \A t \in Ready(state) : prio[t] <= prio[currp]

\* Bounded inversion: the most urgent thread gets every mutex it waits for,
\* whatever less urgent threads that never sleep do meanwhile.
UrgentGetsMutex ==
  \A t \in Users : (\A w \in Users \ {t} : BasePrio[w] < BasePrio[t]) =>
    \A m \in Mutexes : state[t] = "WTMTX" /\ pu[t] = m ~> owner[m] = t

=============================================================================
