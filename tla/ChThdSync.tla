----------------------------- MODULE ChThdSync ------------------------------
(***************************************************************************)
(* Thread references (suspend and resume) and thread queues of             *)
(* chthreads.c, used by threads and interrupt handlers, with time-outs.    *)
(***************************************************************************)
EXTENDS ChCore, Queues

CONSTANTS
  Refs,        \* thread references
  TQueues,     \* thread queues
  Results      \* the answers given to threads that are resumed

ASSUME SyncAssumption ==
  /\ None \notin Threads
  /\ Msgs \cap Refs = {}
  /\ Results \subseteq Msgs

VARIABLES
  ref,         \* thread references: the suspended thread, or None for NULL
  tqueue       \* thread queues, first out first

objs == <<ref, tqueue>>

\* chThdSuspendS and chThdSuspendTimeoutS; TIME_IMMEDIATE returns at once.
Suspend(r, time) ==
  /\ Running
  /\ ref[r] = None
  /\ ref' = [ref EXCEPT ![r] = currp]
  /\ pu' = [pu EXCEPT ![currp] = r]
  /\ GoSleepTimeoutS(state, prio, "SUSPENDED", time)
  /\ UNCHANGED <<prio, isr, tqueue>>

\* What chThdResumeI and chThdResumeS have in common.
Release(r, m) ==
  /\ pu' = [pu EXCEPT ![ref[r]] = m]
  /\ ref' = [ref EXCEPT ![r] = None]

\* chThdResume and chThdResumeS
Resume(r, m) ==
  /\ Running
  /\ ref[r] # None
  /\ Release(r, m)
  /\ WakeupS(state, prio, ref[r])
  /\ UNCHANGED <<prio, vt, slept, isr, tqueue>>

IsrResumeI(r, m) ==
  /\ Interruptible
  /\ ref[r] # None
  /\ isr' = TRUE
  /\ Release(r, m)
  /\ state' = ReadyI(state, {ref[r]})
  /\ UNCHANGED <<currp, prio, vt, slept, tqueue>>

-----------------------------------------------------------------------------
\* chThdEnqueueTimeoutS
Enqueue(q, time) ==
  /\ Running
  /\ tqueue' = [tqueue EXCEPT ![q] = Append(@, currp)]
  /\ GoSleepTimeoutS(state, prio, "QUEUED", time)
  /\ UNCHANGED <<prio, pu, isr, ref>>

First(q, n) == ToSet(SubSeq(tqueue[q], 1, n))

\* chThdDequeueNextI (n = 1) and chThdDequeueAllI on the first n threads.
DequeueI(q, n, m) ==
  /\ tqueue' = [tqueue EXCEPT ![q] = SubSeq(@, n + 1, Len(@))]
  /\ pu' = Deliver(pu, First(q, n), m)

\* The I-class functions in a thread's critical section that ends with a
\* reschedule.
DequeueS(q, n, m) ==
  /\ Running
  /\ DequeueI(q, n, m)
  /\ RescheduleS(ReadyI(state, First(q, n)), prio)
  /\ UNCHANGED <<prio, vt, slept, isr, ref>>

IsrDequeueI(q, n, m) ==
  /\ Interruptible
  /\ isr' = TRUE
  /\ DequeueI(q, n, m)
  /\ state' = ReadyI(state, First(q, n))
  /\ UNCHANGED <<currp, prio, vt, slept, ref>>

\* chThdSleep, chThdSleepUntil and chThdSleepUntilWindowed when they sleep.
Sleep ==
  /\ Running
  /\ GoSleepTimeoutS(state, prio, "SLEEPING", "FINITE")
  /\ UNCHANGED <<prio, pu, isr, objs>>

\* The thread runs again and returns p_u.rdymsg.
EndCall ==
  /\ Resuming
  /\ EndSleep
  /\ UNCHANGED <<currp, state, prio, pu, isr, objs>>

-----------------------------------------------------------------------------
Expire(t) == TimerExpires(t) /\ UNCHANGED objs

\* Mutation: case CH_STATE_QUEUED is missing.
WakeupQueued(t) ==
  /\ TimerWakeup(t)
  /\ ref' = IF state[t] = "SUSPENDED" THEN [ref EXCEPT ![pu[t]] = None] ELSE ref
  /\ UNCHANGED tqueue

\* wakeup(): a suspended thread clears its reference, a queued one leaves its
\* queue.
Wakeup(t) ==
  /\ TimerWakeup(t)
  /\ ref' = IF state[t] = "SUSPENDED" THEN [ref EXCEPT ![pu[t]] = None] ELSE ref
  /\ tqueue' = IF state[t] = "QUEUED"
                 THEN [q \in TQueues |->
                         IF t \in ToSet(tqueue[q]) THEN Dequeue(tqueue[q], t) ELSE tqueue[q]]
                 ELSE tqueue

EndIsr == IsrExit /\ UNCHANGED objs

-----------------------------------------------------------------------------
SyncInit ==
  /\ ref = [r \in Refs |-> None]
  /\ tqueue = [q \in TQueues |-> <<>>]

Times   == {"INFINITE", "FINITE"}

ThreadStep ==
  \/ \E r \in Refs : (\E time \in Times : Suspend(r, time)) \/ (\E m \in Results : Resume(r, m))
  \/ \E q \in TQueues, time \in Times : Enqueue(q, time)
  \/ \E q \in TQueues : \E n \in {1, Len(tqueue[q])} : tqueue[q] # <<>> /\ \E m \in Results : DequeueS(q, n, m)
  \/ Sleep

IsrStep ==
  \/ \E r \in Refs, m \in Results : IsrResumeI(r, m)
  \/ \E q \in TQueues : \E n \in {1, Len(tqueue[q])} : tqueue[q] # <<>> /\ \E m \in Results : IsrDequeueI(q, n, m)
  \/ \E t \in Threads : Expire(t) \/ Wakeup(t)
  \/ EndIsr

-----------------------------------------------------------------------------
\* A reference points to a thread exactly while that thread is suspended on
\* it, and a thread is in one queue, once, exactly while it is QUEUED,
\* whichever of a thread, a handler and the time-out ends the wait: what
\* chThdResumeI and chThdDoDequeueNextI assert of the threads they find.
WaitersExact ==
  /\ \A r \in Refs, t \in Threads :
       ref[r] = t <=> (state[t] = "SUSPENDED" /\ pu[t] = r)
  /\ \A q \in TQueues : IsInjective(tqueue[q])
  /\ \A t \in Threads :
       Cardinality({q \in TQueues : t \in ToSet(tqueue[q])})
         = IF state[t] = "QUEUED" THEN 1 ELSE 0

=============================================================================
