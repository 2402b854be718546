------------------------------ MODULE ChEvents ------------------------------
(***************************************************************************)
(* Event sources and listeners (chevents.c): pending events and waits of   *)
(* each thread, flags that a source leaves with its listeners.  Masks are  *)
(* sets of event identifiers, flags sets of names.  A listener belongs to  *)
(* one source here and registers with the same arguments every time.       *)
(***************************************************************************)
EXTENDS ChCore, FiniteSetsExt

CONSTANTS
  Waiters,     \* threads that wait for events
  Events,      \* event identifiers
  Flags,       \* flags that a source emits
  Listeners,   \* listener objects, on one source
  Owner,       \* the thread that registers each listener
  ElEvents,    \* the events each listener ORs to its thread, at least one
  ElWanted,    \* the flags each listener is interested in
  WaitMasks,   \* the masks the threads wait for
  Emitted      \* the flags of each broadcast

ASSUME EventsAssumption ==
  /\ Waiters \subseteq Users
  /\ Events \subseteq Nat
  /\ Owner \in [Listeners -> Waiters]
  /\ ElEvents \in [Listeners -> (SUBSET Events) \ {{}}]
  /\ ElWanted \in [Listeners -> SUBSET Flags]
  /\ WaitMasks \subseteq (SUBSET Events) \ {{}}
  /\ Emitted \subseteq SUBSET Flags

\* What a thread that waits for events remembers: which of the three waits it
\* is in, and for what.
Awaited == [kind : {"one", "any", "all"}, mask : WaitMasks]

ASSUME AwaitedAssumption == None \notin Awaited

VARIABLES
  epending,    \* p_epending
  waits,       \* the mask and kind of the wait a thread sleeps in, or None
  listening,   \* the listeners linked from es_next
  elflags,     \* el_flags
  taken        \* listeners whose events were taken since their flags were read

evtobjs == <<epending, waits, listening, elflags, taken>>

Lowest(m) == IF m = {} THEN {} ELSE {Min(m)}

\* Of the pending events in mask, those a wait of this kind returns.
Served(kind, mask, pending) ==
  LET m == pending \cap mask IN
  IF kind = "one" THEN Lowest(m) ELSE m

\* The condition under which a wait goes on.
Met(kind, mask, pending) ==
  IF kind = "all" THEN mask \subseteq pending ELSE mask \cap pending # {}

\* The running thread clears events m from its pending ones.
Clear(m) ==
  /\ epending' = [epending EXCEPT ![currp] = @ \ m]
  /\ taken' = taken \cup {l \in Listeners : Owner[l] = currp /\ ElEvents[l] \cap m # {}}

\* Mutation: only the wait for any event is looked at.
SignalledOr(pending) ==
  {t \in Waiters : state[t] = "WTOREVT" /\ Met("any", waits[t].mask, pending[t])}

\* The threads that chEvtSignalI readies when pending are their events.
Signalled(pending) ==
  {t \in Waiters :
     \/ state[t] = "WTOREVT" /\ Met("any", waits[t].mask, pending[t])
     \/ state[t] = "WTANDEVT" /\ Met("all", waits[t].mask, pending[t])}

\* chEvtSignalI on each thread that gets events.
SignalI(pending) ==
  /\ epending' = pending
  /\ pu' = Deliver(pu, Signalled(pending), MSG_OK)

\* chEvtBroadcastFlagsI: the listeners it signals, given their new flags.
Notified(flags, new) ==
  {l \in listening : flags = {} \/ new[l] \cap ElWanted[l] # {}}

BroadcastI(flags) ==
  LET new == [l \in Listeners |->
                IF l \in listening THEN elflags[l] \cup flags ELSE elflags[l]]
      on(t) == {l \in Notified(flags, new) : Owner[l] = t}
  IN
  /\ elflags' = new
  /\ SignalI([t \in Waiters |-> epending[t] \cup UNION {ElEvents[l] : l \in on(t)}])
  /\ UNCHANGED <<waits, listening, taken>>

\* chEvtSignalI(t, m)
SignalOne(t, m) ==
  /\ SignalI([epending EXCEPT ![t] = @ \cup m])
  /\ UNCHANGED <<waits, listening, elflags, taken>>

-----------------------------------------------------------------------------
\* chEvtBroadcastFlags and chEvtSignal, by a thread: they end in a reschedule.
BySource ==
  /\ Running
  /\ \/ \E flags \in Emitted : BroadcastI(flags)
     \/ \E t \in Waiters, e \in Events : SignalOne(t, {e})
  /\ RescheduleS(ReadyI(state, Signalled(epending')), prio)
  /\ UNCHANGED <<prio, vt, slept, isr>>

\* The I-class functions in a handler.
IsrBySource ==
  /\ Interruptible
  /\ isr' = TRUE
  /\ \/ \E flags \in Emitted : BroadcastI(flags)
     \/ \E t \in Waiters, e \in Events : SignalOne(t, {e})
  /\ state' = ReadyI(state, Signalled(epending'))
  /\ UNCHANGED <<currp, prio, vt, slept>>

Uses == Running /\ currp \in Waiters

\* chEvtRegisterMaskWithFlags
Register(l) ==
  /\ Uses
  /\ Owner[l] = currp
  /\ l \notin listening
  /\ listening' = listening \cup {l}
  /\ elflags' = [elflags EXCEPT ![l] = {}]
  /\ taken' = taken \ {l}
  /\ UNCHANGED <<core, epending, waits>>

\* chEvtUnregister
Unregister(l) ==
  /\ Uses
  /\ Owner[l] = currp
  /\ l \in listening
  /\ listening' = listening \ {l}
  /\ UNCHANGED <<core, epending, waits, elflags, taken>>

\* chEvtGetAndClearEvents
GetAndClearEvents(m) ==
  /\ Uses
  /\ Clear(m)
  /\ UNCHANGED <<core, waits, listening, elflags>>

\* chEvtAddEvents
AddEvents(m) ==
  /\ Uses
  /\ epending' = [epending EXCEPT ![currp] = @ \cup m]
  /\ UNCHANGED <<core, waits, listening, elflags, taken>>

\* chEvtGetAndClearFlags, by the owner of the listener.
GetAndClearFlags(l) ==
  /\ Uses
  /\ Owner[l] = currp
  /\ elflags' = [elflags EXCEPT ![l] = {}]
  /\ taken' = taken \ {l}
  /\ UNCHANGED <<core, epending, waits, listening>>

\* chEvtWaitOne, chEvtWaitAny and chEvtWaitAll with and without time-out;
\* TIME_IMMEDIATE on a condition that is not met changes nothing.
WaitEvents(kind, mask, time) ==
  /\ Uses
  /\ IF Met(kind, mask, epending[currp])
       THEN /\ Clear(Served(kind, mask, epending[currp]))
            /\ UNCHANGED <<core, waits>>
       ELSE /\ waits' = [waits EXCEPT ![currp] = [kind |-> kind, mask |-> mask]]
            /\ GoSleepTimeoutS(state, prio, IF kind = "all" THEN "WTANDEVT" ELSE "WTOREVT", time)
            /\ UNCHANGED <<prio, pu, isr, epending, taken>>
  /\ UNCHANGED <<listening, elflags>>

\* Mutation: the events are cleared although the wait has timed out.
EndWaitEventsAlways ==
  /\ Resuming
  /\ currp \in Waiters
  /\ waits[currp] # None
  /\ EndSleep
  /\ epending' = [epending EXCEPT ![currp] = @ \ waits[currp].mask]
  /\ waits' = [waits EXCEPT ![currp] = None]
  /\ UNCHANGED <<currp, state, prio, pu, isr, listening, elflags, taken>>

\* The rest of the wait after its sleep; a time-out leaves the events alone.
EndWaitEvents ==
  /\ Resuming
  /\ currp \in Waiters
  /\ waits[currp] # None
  /\ EndSleep
  /\ IF pu[currp] = MSG_OK
       THEN Clear(Served(waits[currp].kind, waits[currp].mask, epending[currp]))
       ELSE UNCHANGED <<epending, taken>>
  /\ waits' = [waits EXCEPT ![currp] = None]
  /\ UNCHANGED <<currp, state, prio, pu, isr, listening, elflags>>

EvtInit ==
  /\ epending = [t \in Waiters |-> {}]
  /\ waits = [t \in Waiters |-> None]
  /\ listening = {}
  /\ elflags = [l \in Listeners |-> {}]
  /\ taken = {}

EvtStep ==
  \/ BySource
  \/ IsrBySource
  \/ \E l \in Listeners : Register(l) \/ Unregister(l) \/ GetAndClearFlags(l)
  \/ \E e \in Events : GetAndClearEvents({e}) \/ AddEvents({e})
  \/ \E kind \in {"one", "any", "all"}, mask \in WaitMasks, time \in {"INFINITE", "FINITE"} :
       WaitEvents(kind, mask, time)
  \/ EndWaitEvents

-----------------------------------------------------------------------------
\* No event is lost.  A thread never sleeps on a condition that is met; one
\* that was woken for an event still finds it; and flags a listener wants are
\* announced by a pending event of its thread, or by one the thread has taken
\* without having read the flags since.
EventsNotLost ==
  /\ \A t \in Waiters : waits[t] # None =>
       LET met == Met(waits[t].kind, waits[t].mask, epending[t]) IN
       IF state[t] \in {"WTOREVT", "WTANDEVT"} THEN ~met ELSE pu[t] = MSG_OK => met
  /\ \A l \in listening :
       elflags[l] \cap ElWanted[l] # {} =>
         l \in taken \/ ElEvents[l] \cap epending[Owner[l]] # {}

=============================================================================
