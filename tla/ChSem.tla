------------------------------- MODULE ChSem --------------------------------
(***************************************************************************)
(* Counting semaphores (chsem.c): threads wait, with or without a timeout, *)
(* signal and reset; interrupt handlers signal, add and reset; the timer   *)
(* wakes up whoever waited too long.                                       *)
(*                                                                         *)
(* chSemSignal and chSemSignalWait evaluate a debug assertion BEFORE they  *)
(* take the kernel lock.  Its two reads, of the counter and of the queue,  *)
(* are two steps here, and handlers and other threads run in between.      *)
(***************************************************************************)
EXTENDS ChCore, Queues

CONSTANTS
  Sems,        \* the semaphores
  MaxReset,    \* largest initial or reset value of a counter
  MaxAdd,      \* largest argument of chSemAddCounterI
  MaxCnt,      \* bound on the counters
  DbgAsserts   \* CH_DBG_ENABLE_ASSERTS

ASSUME SemAssumption ==
  /\ MaxReset \in Nat
  /\ MaxAdd \in Nat \ {0}
  /\ MaxCnt \in Nat
  /\ MaxReset <= MaxCnt
  /\ DbgAsserts \in BOOLEAN
  /\ None \notin Sems
  /\ Msgs \cap Sems = {}

VARIABLES
  cnt,      \* s_cnt
  queue,    \* s_queue, first out first
  ret,      \* what the last wait of each thread returned
  call,     \* a signal call that has not taken the lock yet
  halted    \* chSysHalt was called

vars == <<core, cnt, queue, ret, call, halted>>

Minimum(a, b) == IF a < b THEN a ELSE b

\* The test of the "inconsistent semaphore" assertions.
Consistent(n, q) == (n >= 0 /\ q = <<>>) \/ (n < 0 /\ q # <<>>)

\* Mutation: while (++cnt < 0), the last waiter is forgotten.
DueOneLess(s, n) == IF cnt[s] < 0 THEN Minimum(n, 0 - cnt[s] - 1) ELSE 0

\* How many threads n increments of s_cnt ready: while (++cnt <= 0).
Due(s, n)     == IF cnt[s] < 0 THEN Minimum(n, 0 - cnt[s]) ELSE 0
Served(s, n)  == {queue[s][i] : i \in 1..Due(s, n)}
QueueAfter(s, n) == [queue EXCEPT ![s] = SubSeq(@, Due(s, n) + 1, Len(@))]

-----------------------------------------------------------------------------
\* Threads start a call when they run and have none half done.
MayCall == ~halted /\ Running /\ call[currp] = None

\* chSemWait and chSemWaitTimeout.
Wait(s, time) ==
  /\ MayCall
  /\ IF cnt[s] - 1 < 0
       THEN IF time = "IMMEDIATE"
              THEN /\ ret' = [ret EXCEPT ![currp] = MSG_TIMEOUT]
                   /\ UNCHANGED <<core, cnt, queue>>
              ELSE /\ cnt' = [cnt EXCEPT ![s] = @ - 1]
                   /\ queue' = [queue EXCEPT ![s] = Append(@, currp)]
                   /\ pu' = [pu EXCEPT ![currp] = s]
                   /\ GoSleepTimeoutS(state, prio, "WTSEM", time)
                   /\ UNCHANGED <<prio, isr, ret>>
       ELSE /\ cnt' = [cnt EXCEPT ![s] = @ - 1]
            /\ ret' = [ret EXCEPT ![currp] = MSG_OK]
            /\ UNCHANGED <<core, queue>>
  /\ UNCHANGED <<call, halted>>

\* The thread runs again and returns p_u.rdymsg.
Resume ==
  /\ ~halted
  /\ Resuming
  /\ EndSleep
  /\ ret' = [ret EXCEPT ![currp] = pu[currp]]
  /\ UNCHANGED <<currp, state, prio, pu, isr, cnt, queue, call, halted>>

\* chSemReset: chSemResetI and a reschedule.  It is -cnt threads, taken from
\* the tail, that are readied.
Late(s) == {queue[s][i] : i \in Len(queue[s]) - Due(s, 0 - cnt[s]) + 1 .. Len(queue[s])}

ResetI(s, n) ==
  /\ cnt' = [cnt EXCEPT ![s] = n]
  /\ queue' = [queue EXCEPT ![s] = SubSeq(@, 1, Len(@) - Due(s, 0 - cnt[s]))]
  /\ pu' = Deliver(pu, Late(s), MSG_RESET)

Reset(s, n) ==
  /\ MayCall
  /\ ResetI(s, n)
  /\ RescheduleS(ReadyI(state, Late(s)), prio)
  /\ UNCHANGED <<prio, vt, slept, isr, ret, call, halted>>

-----------------------------------------------------------------------------
\* chSemSignal(s) (w = None) and chSemSignalWait(s, w) begin.
StartSignal(s, w) ==
  /\ MayCall
  /\ call' = [call EXCEPT ![currp] =
       [s |-> s, w |-> w, n |-> None,
        left |-> IF ~DbgAsserts THEN <<>> ELSE IF w = None THEN <<s>> ELSE <<s, w>>]]
  /\ UNCHANGED <<core, cnt, queue, ret, halted>>

InCall == ~halted /\ Running /\ call[currp] # None

\* The assertion reads s_cnt.
AssertReadsCnt ==
  /\ InCall
  /\ call[currp].left # <<>>
  /\ call[currp].n = None
  /\ call' = [call EXCEPT ![currp].n = cnt[Head(call[currp].left)]]
  /\ UNCHANGED <<core, cnt, queue, ret, halted>>

\* The assertion reads s_queue, and halts the system if it does not match.
AssertReadsQueue ==
  /\ InCall
  /\ call[currp].left # <<>>
  /\ call[currp].n # None
  /\ IF Consistent(call[currp].n, queue[Head(call[currp].left)])
       THEN /\ call' = [call EXCEPT ![currp] =
              [s |-> @.s, w |-> @.w, n |-> None, left |-> Tail(@.left)]]
            /\ UNCHANGED halted
       ELSE halted' = TRUE /\ UNCHANGED call
  /\ UNCHANGED <<core, cnt, queue, ret>>

\* The locked part of chSemSignal.
Signal ==
  /\ InCall
  /\ call[currp].left = <<>>
  /\ call[currp].w = None
  /\ LET s == call[currp].s IN
       /\ cnt[s] < MaxCnt
       /\ cnt' = [cnt EXCEPT ![s] = @ + 1]
       /\ queue' = QueueAfter(s, 1)
       /\ pu' = Deliver(pu, Served(s, 1), MSG_OK)
       /\ IF Due(s, 1) = 1
            THEN WakeupS(state, prio, Head(queue[s]))
            ELSE UNCHANGED <<state, currp>>
  /\ call' = [call EXCEPT ![currp] = None]
  /\ UNCHANGED <<prio, vt, slept, isr, ret, halted>>

\* The locked part of chSemSignalWait: signal one semaphore, wait on another.
SignalWait ==
  /\ InCall
  /\ call[currp].left = <<>>
  /\ call[currp].w # None
  /\ LET s == call[currp].s
         w == call[currp].w
         cntS == [cnt EXCEPT ![s] = @ + 1]
         queueS == QueueAfter(s, 1)
         stateS == ReadyI(state, Served(s, 1))
         puS == Deliver(pu, Served(s, 1), MSG_OK)
     IN /\ cnt[s] < MaxCnt
        /\ cnt' = [cntS EXCEPT ![w] = @ - 1]
        /\ IF cntS[w] - 1 < 0
             THEN /\ queue' = [queueS EXCEPT ![w] = Append(@, currp)]
                  /\ pu' = [puS EXCEPT ![currp] = w]
                  /\ GoSleepTimeoutS(stateS, prio, "WTSEM", "INFINITE")
                  /\ UNCHANGED ret
             ELSE /\ queue' = queueS
                  /\ pu' = puS
                  /\ RescheduleS(stateS, prio)
                  /\ ret' = [ret EXCEPT ![currp] = MSG_OK]
                  /\ UNCHANGED <<vt, slept>>
  /\ call' = [call EXCEPT ![currp] = None]
  /\ UNCHANGED <<prio, isr, halted>>

-----------------------------------------------------------------------------
\* Calls made by interrupt handlers.
\* chSemAddCounterI(s, n); chSemSignalI(s) is n = 1.
IsrAddCounterI(s, n) ==
  /\ ~halted
  /\ Interruptible
  /\ cnt[s] + n <= MaxCnt
  /\ isr' = TRUE
  /\ cnt' = [cnt EXCEPT ![s] = @ + n]
  /\ queue' = QueueAfter(s, n)
  /\ pu' = Deliver(pu, Served(s, n), MSG_OK)
  /\ state' = ReadyI(state, Served(s, n))
  /\ UNCHANGED <<currp, prio, vt, slept, ret, call, halted>>

IsrResetI(s, n) ==
  /\ ~halted
  /\ Interruptible
  /\ isr' = TRUE
  /\ ResetI(s, n)
  /\ state' = ReadyI(state, Late(s))
  /\ UNCHANGED <<currp, prio, vt, slept, ret, call, halted>>

Expire(t) ==
  /\ ~halted
  /\ TimerExpires(t)
  /\ UNCHANGED <<cnt, queue, ret, call, halted>>

\* Mutation: a timed out wait keeps its decrement.
NoFastSignalI(s) == cnt

\* chSemFastSignalI
FastSignalI(s) == [cnt EXCEPT ![s] = @ + 1]

\* wakeup(): a waiting thread gives its decrement back and leaves the queue.
Wakeup(t) ==
  /\ ~halted
  /\ TimerWakeup(t)
  /\ IF state[t] = "WTSEM"
       THEN /\ cnt' = FastSignalI(pu[t])
            /\ queue' = [queue EXCEPT ![pu[t]] = Dequeue(@, t)]
       ELSE UNCHANGED <<cnt, queue>>
  /\ UNCHANGED <<ret, call, halted>>

EndIsr ==
  /\ ~halted
  /\ IsrExit
  /\ UNCHANGED <<cnt, queue, ret, call, halted>>

-----------------------------------------------------------------------------
Init ==
  /\ CoreInit
  /\ cnt \in [Sems -> 0..MaxReset]
  /\ queue = [s \in Sems |-> <<>>]
  /\ ret = [t \in Threads |-> MSG_OK]
  /\ call = [t \in Threads |-> None]
  /\ halted = FALSE

ThreadStep ==
  \/ \E s \in Sems, time \in Timeouts : Wait(s, time)
  \/ \E s \in Sems, n \in 0..MaxReset : Reset(s, n)
  \/ \E s \in Sems, w \in Sems \cup {None} : StartSignal(s, w)
  \/ AssertReadsCnt
  \/ AssertReadsQueue
  \/ Signal
  \/ SignalWait
  \/ Resume

IsrStep ==
  \/ \E s \in Sems, n \in 1..MaxAdd : IsrAddCounterI(s, n)
  \/ \E s \in Sems, n \in 0..MaxReset : IsrResetI(s, n)
  \/ \E t \in Threads : Expire(t) \/ Wakeup(t)
  \/ EndIsr

Next == ThreadStep \/ IsrStep

Spec == Init /\ [][Next]_vars

-----------------------------------------------------------------------------
TypeOK ==
  /\ currp \in Threads
  /\ state \in [Threads -> {"READY", "CURRENT", "WTSEM"}]
  /\ prio = BasePrio
  /\ pu \in [Threads -> Msgs \cup Sems]
  /\ vt \in [Threads -> {"off", "armed", "firing"}]
  /\ slept \in [Threads -> BOOLEAN]
  /\ isr \in BOOLEAN
  /\ cnt \in [Sems -> Int]
  /\ queue \in [Sems -> Seq(Threads)]
  /\ ret \in [Threads -> Msgs]
  /\ halted \in BOOLEAN
  /\ call \in [Threads -> {None} \cup
                [s : Sems, w : Sems \cup {None}, n : Int \cup {None}, left : Seq(Sems)]]

\* Each waiting thread is in the queue of the semaphore its union names, once,
\* and nobody else is in a queue: what wakeup() dequeues is where it thinks.
QueuesMatchStates ==
  /\ \A s \in Sems : IsInjective(queue[s])
  /\ \A s \in Sems, t \in Threads :
       t \in ToSet(queue[s]) <=> (state[t] = "WTSEM" /\ pu[t] = s)

\* The kernel's "inconsistent semaphore" test, sharpened: a negative counter
\* is the exact number of queued threads, through signals, timeouts, resets.
CounterMatchesQueue ==
  \A s \in Sems : Len(queue[s]) = IF cnt[s] < 0 THEN 0 - cnt[s] ELSE 0

\* chSysUnlock's assertion: thread code never runs while a thread of higher
\* priority is ready.
PriorityOrder ==
  ~isr /\ ~slept[currp] => \A t \in Ready(state) : prio[t] <= prio[currp]

\* A timer armed for a wait never outlives that wait, so no later wait of the
\* same thread can be ended by it; and a wait that is over has its message in
\* the union when the thread comes to return it, never still the semaphore.
TimerBelongsToWait ==
  \A t \in Threads :
    /\ vt[t] # "off" => slept[t]
    /\ slept[t] => (state[t] = "WTSEM" \/ pu[t] \in Msgs)

\* The assertion of chSemSignal and chSemSignalWait never fires.
NoSpuriousHalt == ~halted

\* What the users see of a semaphore: the tokens left, and how the last wait
\* of each thread ended.
Tokens  == [s \in Sems |-> IF cnt[s] > 0 THEN cnt[s] ELSE 0]
Outcome == [t \in Threads |->
              IF ~slept[t] THEN ret[t]
              ELSE IF state[t] = "WTSEM" THEN "WAITING" ELSE pu[t]]

\* The semaphore behaves as its users were promised (chSemWait and the others:
\* first come first served, each token taken once, each wait ended once).
Abstract == INSTANCE Semaphore WITH tokens <- Tokens, line <- queue, outcome <- Outcome

ImplementsSemaphore == Abstract!AbsSpec

=============================================================================
