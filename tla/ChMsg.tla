------------------------------- MODULE ChMsg --------------------------------
(***************************************************************************)
(* Synchronous messages (chmsg.c): a sender sleeps in the queue of the     *)
(* server's thread, then in no queue at all until the server answers it.   *)
(* The message itself is data and left out; the answer is.                 *)
(***************************************************************************)
EXTENDS ChCore

CONSTANTS
  Servers,     \* threads that receive messages
  Answers      \* what they answer

ASSUME MsgAssumption ==
  /\ Servers \subseteq Users
  /\ Answers \subseteq Msgs
  /\ Msgs \cap Servers = {}

VARIABLES
  msgqueue,    \* p_msgqueue of each server, first out first
  receiving,   \* the servers that sleep in chMsgWait or have just woken
  held         \* the senders each server has received and not yet released

msgobjs == <<msgqueue, receiving, held>>

\* Mutation: the server is readied only by the first message of its queue.
MsgSendAlone(s) ==
  /\ Running
  /\ s # currp
  /\ pu' = [pu EXCEPT ![currp] = s]
  /\ msgqueue' = [msgqueue EXCEPT ![s] = Append(@, currp)]
  /\ GoSleepTimeoutS(state, prio, "SNDMSGQ", "INFINITE")
  /\ UNCHANGED <<prio, isr, receiving, held>>

\* chMsgSend: the sender is queued, a waiting server is readied.
MsgSend(s) ==
  /\ Running
  /\ s # currp
  /\ pu' = [pu EXCEPT ![currp] = s]
  /\ msgqueue' = [msgqueue EXCEPT ![s] = Append(@, currp)]
  /\ GoSleepTimeoutS(IF state[s] = "WTMSG" THEN ReadyI(state, {s}) ELSE state,
                     prio, "SNDMSGQ", "INFINITE")
  /\ UNCHANGED <<prio, isr, receiving, held>>

\* queue_fifo_remove and p_state = CH_STATE_SNDMSG, in chMsgWait.
Receive(s) ==
  LET t == Head(msgqueue[s]) IN
  /\ msgqueue' = [msgqueue EXCEPT ![s] = Tail(@)]
  /\ state' = [state EXCEPT ![t] = "SNDMSG"]
  /\ held' = [held EXCEPT ![s] = @ \cup {t}]

\* chMsgWait: a pending message is taken at once, else the server sleeps.
MsgWait ==
  /\ Running
  /\ currp \in Servers
  /\ IF msgqueue[currp] # <<>>
       THEN Receive(currp) /\ UNCHANGED <<currp, vt, slept, receiving>>
       ELSE /\ GoSleepTimeoutS(state, prio, "WTMSG", "INFINITE")
            /\ receiving' = receiving \cup {currp}
            /\ UNCHANGED <<msgqueue, held>>
  /\ UNCHANGED <<prio, pu, isr>>

\* chMsgWait after its sleep.
EndMsgWait ==
  /\ Resuming
  /\ currp \in receiving
  /\ EndSleep
  /\ Receive(currp)
  /\ receiving' = receiving \ {currp}
  /\ UNCHANGED <<currp, prio, pu, isr>>

\* chMsgRelease by the server that received the message.
MsgRelease(t, m) ==
  /\ Running
  /\ currp \in Servers
  /\ t \in held[currp]
  /\ held' = [held EXCEPT ![currp] = @ \ {t}]
  /\ pu' = [pu EXCEPT ![t] = m]
  /\ WakeupS(state, prio, t)
  /\ UNCHANGED <<prio, vt, slept, isr, msgqueue, receiving>>

MsgInit ==
  /\ msgqueue = [s \in Servers |-> <<>>]
  /\ receiving = {}
  /\ held = [s \in Servers |-> {}]

MsgStep ==
  \/ \E s \in Servers : MsgSend(s)
  \/ MsgWait
  \/ EndMsgWait
  \/ \E t \in Threads, m \in Answers : MsgRelease(t, m)

-----------------------------------------------------------------------------
\* No message is lost and no server sleeps over one: a sender is in the queue
\* of the one server it sent to, or held by that server alone, for as long as
\* it sleeps; a server that waits has an empty queue, and one that has been
\* woken finds a sender in it, which chMsgWait takes without looking.
MessagesExact ==
  /\ \A s \in Servers :
       /\ IsInjective(msgqueue[s])
       /\ \A t \in Threads :
            /\ t \in ToSet(msgqueue[s]) <=> (state[t] = "SNDMSGQ" /\ pu[t] = s)
            /\ t \in held[s] <=> (state[t] = "SNDMSG" /\ pu[t] = s)
       /\ state[s] = "WTMSG" => msgqueue[s] = <<>>
       /\ s \in receiving /\ state[s] # "WTMSG" => msgqueue[s] # <<>>
  /\ \A t \in Threads : state[t] \in {"SNDMSG", "SNDMSGQ"} => pu[t] \in Servers

=============================================================================
