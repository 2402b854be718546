------------------------------ MODULE ChWaits -------------------------------
(***************************************************************************)
(* The composition of the ways in which threads wait for each other and    *)
(* for handlers: references and queues (ChThdSync), messages (ChMsg) and   *)
(* events (ChEvents).  A thread may use all of them one after the other;   *)
(* its union p_u, its timer and the scheduler are what they share.         *)
(***************************************************************************)
EXTENDS ChThdSync, ChMsg, ChEvents

vars == <<core, objs, msgobjs, evtobjs>>

Init == CoreInit /\ SyncInit /\ MsgInit /\ EvtInit

\* The end of a call that only returns p_u.rdymsg.
Return ==
  /\ currp \notin receiving
  /\ currp \in Waiters => waits[currp] = None
  /\ EndCall

Next ==
  \/ (ThreadStep \/ IsrStep \/ Return) /\ UNCHANGED <<msgobjs, evtobjs>>
  \/ MsgStep /\ UNCHANGED <<objs, evtobjs>>
  \/ EvtStep /\ UNCHANGED <<objs, msgobjs>>

Spec == Init /\ [][Next]_vars

-----------------------------------------------------------------------------
\* Types, and that the one CURRENT thread is currp.
TypeOK ==
  /\ currp \in Threads
  /\ state \in [Threads -> {"READY", "CURRENT", "SLEEPING", "SUSPENDED", "QUEUED",
                            "SNDMSGQ", "SNDMSG", "WTMSG", "WTOREVT", "WTANDEVT"}]
  /\ \A t \in Threads : state[t] = "CURRENT" <=> t = currp
  /\ prio = BasePrio
  /\ pu \in [Threads -> Msgs \cup Refs \cup Servers]
  /\ vt \in [Threads -> {"off", "armed", "firing"}]
  /\ slept \in [Threads -> BOOLEAN]
  /\ isr \in BOOLEAN
  /\ ref \in [Refs -> Threads \cup {None}]
  /\ tqueue \in [TQueues -> Seq(Threads)]
  /\ msgqueue \in [Servers -> Seq(Threads)]
  /\ receiving \subseteq Servers
  /\ held \in [Servers -> SUBSET Threads]
  /\ epending \in [Waiters -> SUBSET Events]
  /\ waits \in [Waiters -> {None} \cup Awaited]
  /\ listening \subseteq Listeners
  /\ elflags \in [Listeners -> SUBSET Flags]
  /\ taken \subseteq Listeners

\* A waiting thread is given its answer before it goes on, once: while its
\* call is not finished a message that has been stored is not overwritten,
\* whichever object it waited on and whoever else may end the wait.
OneAnswer ==
  [][\A t \in Threads : slept[t] /\ state[t] \in {"READY", "CURRENT"} => pu'[t] = pu[t]]_vars

=============================================================================
