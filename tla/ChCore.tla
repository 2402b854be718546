------------------------------- MODULE ChCore -------------------------------
(***************************************************************************)
(* What every kernel object of ChibiOS/RT is built on: the running thread, *)
(* thread states and priorities, the sleep and wake-up primitives of       *)
(* chschd.c, the timeout armed around a sleep, and the interrupt context.  *)
(*                                                                         *)
(* One processor: currp alone executes.  A kernel call is one atomic step  *)
(* (it runs between chSysLock and chSysUnlock); a call that sleeps is      *)
(* split at chSchGoSleepS, and the code after it runs, still locked, when  *)
(* the thread is switched in again (slept[t] says that it still has to).   *)
(*                                                                         *)
(* The ready list is the set of threads in state READY: which of several   *)
(* threads of the same highest priority is dispatched is left open here.   *)
(***************************************************************************)
EXTENDS Integers, Sequences, FiniteSets, SequencesExt

CONSTANTS
  Threads,    \* every thread of the system, the idle thread included
  Idle,       \* the idle thread, created by chSysInit, never blocks
  BasePrio,   \* priority given to each thread when it is created
  None        \* "no value"

ASSUME CoreAssumption ==
  /\ Idle \in Threads
  /\ BasePrio \in [Threads -> Nat]
  /\ \A t \in Threads \ {Idle} : BasePrio[t] > BasePrio[Idle]

VARIABLES
  currp,      \* the running thread
  state,      \* p_state of each thread
  prio,       \* p_prio of each thread
  pu,         \* the union p_u: the object waited for, or the wake-up message
  vt,         \* the virtual timer of a timed sleep: off, armed or firing
  slept,      \* the code after chSchGoSleepS is still to be run
  isr         \* an interrupt handler is active

core == <<currp, state, prio, pu, vt, slept, isr>>

MSG_OK      == "MSG_OK"
MSG_TIMEOUT == "MSG_TIMEOUT"
MSG_RESET   == "MSG_RESET"
Msgs        == {MSG_OK, MSG_TIMEOUT, MSG_RESET}

\* Ways to bound a wait: TIME_INFINITE, TIME_IMMEDIATE, or some ticks.
Timeouts == {"INFINITE", "FINITE", "IMMEDIATE"}

Ready(s)   == {t \in Threads : s[t] = "READY"}
Users      == Threads \ {Idle}

\* Candidates of queue_fifo_remove(&ch.rlist.r_queue) for states s, priorities p.
Highest(s, p) == {t \in Ready(s) : \A w \in Ready(s) : p[w] <= p[t]}

-----------------------------------------------------------------------------
\* Thread code runs: no interrupt is active, no kernel call is half done.
Running == ~isr /\ ~slept[currp] /\ currp # Idle

\* currp was switched in and completes the kernel call it slept in.
Resuming == ~isr /\ slept[currp]

\* Interrupts are enabled: not inside a kernel call of a thread.
Interruptible == isr \/ ~slept[currp]

-----------------------------------------------------------------------------
\* chSchReadyI on every thread of W.
ReadyI(s, W) == [t \in Threads |-> IF t \in W THEN "READY" ELSE s[t]]

\* p_u.rdymsg = m in every thread of W.
Deliver(u, W, m) == [t \in Threads |-> IF t \in W THEN m ELSE u[t]]

\* Mutation: the state of the thread that leaves is not set.
SwitchToKeeps(s, t, old) ==
  /\ currp' = t
  /\ state' = [s EXCEPT ![t] = "CURRENT"]

\* The running thread leaves in state old, t runs.
SwitchTo(s, t, old) ==
  /\ currp' = t
  /\ state' = [s EXCEPT ![currp] = old, ![t] = "CURRENT"]

\* chSchGoSleepS / chSchGoSleepTimeoutS: the rest of the call runs later.
GoSleepTimeoutS(s, p, new, time) ==
  /\ \E t \in Highest(s, p) : SwitchTo(s, t, new)
  /\ slept' = [slept EXCEPT ![currp] = TRUE]
  /\ vt' = [vt EXCEPT ![currp] = IF time = "INFINITE" THEN "off" ELSE "armed"]

\* Mutation: the reschedule at the end of a call or handler is forgotten.
NoReschedule(s, p) == state' = s /\ currp' = currp

\* chSchDoReschedule* once a switch is due; the choice among peers is open.
RescheduleS(s, p) ==
  IF \E t \in Ready(s) : p[t] > p[currp]
    THEN \E t \in Highest(s, p) : SwitchTo(s, t, "READY")
    ELSE state' = s /\ currp' = currp

\* chSchWakeupS, after its message has been stored.
WakeupS(s, p, t) ==
  IF p[t] <= p[currp]
    THEN state' = ReadyI(s, {t}) /\ currp' = currp
    ELSE SwitchTo(s, t, "READY")

\* Mutation: the timer is left armed when its thread was woken otherwise.
EndSleepTimerArmed ==
  /\ slept' = [slept EXCEPT ![currp] = FALSE]
  /\ UNCHANGED vt

\* The end of a call that slept: chSchGoSleepTimeoutS disarms its timer.
EndSleep ==
  /\ slept' = [slept EXCEPT ![currp] = FALSE]
  /\ vt' = [vt EXCEPT ![currp] = "off"]

-----------------------------------------------------------------------------
\* The tick handler finds t's timer expired, disarms it and, with the lock
\* released, calls wakeup(): other handlers may run in between.
TimerExpires(t) ==
  /\ Interruptible
  /\ vt[t] = "armed"
  /\ \A w \in Threads : vt[w] # "firing"
  /\ vt' = [vt EXCEPT ![t] = "firing"]
  /\ isr' = TRUE
  /\ UNCHANGED <<currp, state, prio, pu, slept>>

\* Mutation: wakeup() does not return early for a thread already readied.
TimerWakeupAlways(t) ==
  /\ vt[t] = "firing"
  /\ vt' = [vt EXCEPT ![t] = "off"]
  /\ state' = ReadyI(state, {t})
  /\ pu' = Deliver(pu, {t}, MSG_TIMEOUT)
  /\ UNCHANGED <<currp, prio, slept, isr>>

\* Mutation: wakeup() readies the thread without storing MSG_TIMEOUT.
TimerWakeupSilent(t) ==
  /\ vt[t] = "firing"
  /\ vt' = [vt EXCEPT ![t] = "off"]
  /\ state' = ReadyI(state, {t})
  /\ UNCHANGED <<currp, prio, slept, isr, pu>>

\* wakeup(), common part: nothing if the thread was readied meanwhile, else
\* it becomes ready with MSG_TIMEOUT.  What the waiting state requires first
\* (dequeuing, counters) is added by the module that owns that state.
TimerWakeup(t) ==
  /\ vt[t] = "firing"
  /\ vt' = [vt EXCEPT ![t] = "off"]
  /\ IF state[t] = "READY"
       THEN UNCHANGED <<state, pu>>
       ELSE state' = ReadyI(state, {t}) /\ pu' = Deliver(pu, {t}, MSG_TIMEOUT)
  /\ UNCHANGED <<currp, prio, slept, isr>>

\* The epilogue of the outermost handler: preempt if a higher priority
\* thread is ready.
IsrExit ==
  /\ isr
  /\ \A t \in Threads : vt[t] # "firing"
  /\ isr' = FALSE
  /\ RescheduleS(state, prio)
  /\ UNCHANGED <<prio, pu, vt, slept>>

-----------------------------------------------------------------------------
CoreInit ==
  /\ prio = BasePrio
  /\ \E t \in Users :
       /\ \A w \in Users : BasePrio[w] <= BasePrio[t]
       /\ currp = t
       /\ state = [w \in Threads |-> IF w = t THEN "CURRENT" ELSE "READY"]
  /\ pu = [t \in Threads |-> MSG_OK]
  /\ vt = [t \in Threads |-> "off"]
  /\ slept = [t \in Threads |-> FALSE]
  /\ isr = FALSE

=============================================================================
