----------------------------- MODULE LwipThread -----------------------------
(***************************************************************************)
(* The network side of the application: the lwIP thread of                 *)
(* lwip_bindings/lwipthread.c between the Ethernet driver (MacDriver) and  *)
(* the stack's thread tcpip_thread, and an application thread that calls   *)
(* the stack.  The stack (src/ChibiOS/ext/lwip) is modelled by its thread: *)
(* its mailbox, the messages that go through it, its buffers, and that any *)
(* message may make it transmit.                                           *)
(*                                                                         *)
(* One processor and fixed priorities: a thread runs only while no more    *)
(* urgent one is ready, the application first (88), then tcpip_thread      *)
(* (NORMALPRIO+1), then the lwIP thread (LOWPRIO after its start).         *)
(***************************************************************************)
EXTENDS MacDriver

CONSTANTS
  MBox,          \* TCPIP_MBOX_SIZE
  Pool,          \* PBUF_POOL_SIZE
  SndBuf         \* calls the application can make without hearing its peer

ASSUME LwipAssumption ==
  /\ Senders = {"lwip", "tcpip"}
  /\ {MBox, Pool, SndBuf} \subseteq Nat \ {0}

VARIABLES
  lw,            \* where the lwIP thread is
  pending,       \* its pending events
  events,        \* the events of this turn of its loop, not handled yet
  registered,    \* its listeners that are registered
  netUp,         \* NETIF_FLAG_LINK_UP
  mbox,          \* mailbox of tcpip_thread
  tcp,           \* where tcpip_thread is
  msg,           \* the message it handles
  app,           \* where the application thread is
  unacked,       \* its calls since it last heard its peer
  pbufs,         \* free buffers of the pool
  netbufs,       \* buffers queued for the application
  starved        \* frames were left in the ring because no buffer was free

lwip  == <<lw, pending, events, registered, netUp, starved>>
stack == <<mbox, tcp, msg, netbufs>>
appl  == <<app, unacked>>
vars  == <<mac, lwip, stack, appl, pbufs>>

PERIODIC_TIMER_ID == "timer"
FRAME_RECEIVED_ID == "frame"

Init ==
  /\ MacInit
  /\ lw = "start" /\ pending = {} /\ events = {} /\ registered = {}
  /\ netUp = FALSE /\ starved = FALSE
  /\ mbox = <<>> /\ tcp = "fetch" /\ msg = "none" /\ netbufs = 0
  /\ app = "unborn" /\ unacked = 0
  /\ pbufs = Pool

-----------------------------------------------------------------------------
(* Who may run. *)

Sleeping(s) == At(s, "asleep")

AppReady == app = "run" \/ (app = "post" /\ Len(mbox) < MBox) \/ (app = "recv" /\ netbufs > 0)

TcpReady == IF tcp = "fetch" THEN mbox # <<>> ELSE ~Sleeping("tcpip")

LwReady  == IF lw = "wait" THEN pending # {} ELSE ~Sleeping("lwip")

Starting == lw \in {"start", "arp", "timer", "register", "add"}

\* A raised interrupt is served before any thread goes on.
NoIrq   == status = {}
TcpRuns == NoIrq /\ ~AppReady /\ (tcp = "fetch" \/ ~Sleeping("tcpip"))
LwRuns  == NoIrq /\ ~AppReady /\ (~TcpReady \/ Starting) /\ LwReady

-----------------------------------------------------------------------------
(* Interrupts. *)

\* chEvtBroadcastI for one listener: nothing before it is registered.
Broadcast(e) == pending' = IF e \in registered THEN pending \cup {e} ELSE pending

\* ETH_IRQHandler, with the broadcast of rdevent
EthIrq ==
  /\ MacIsr
  /\ IF "RS" \in status
       THEN Broadcast(FRAME_RECEIVED_ID) /\ starved' = FALSE
       ELSE UNCHANGED <<pending, starved>>
  /\ UNCHANGED <<lw, events, registered, netUp, stack, appl, pbufs>>

\* tmrcb of the event timer, which re-arms itself
LinkTimer ==
  /\ PERIODIC_TIMER_ID \in registered
  /\ Broadcast(PERIODIC_TIMER_ID)
  /\ UNCHANGED <<mac, lw, events, registered, netUp, starved, stack, appl, pbufs>>

Hardware ==
  /\ (\E kind \in {"FRAME", "BAD"} : RxFrame(kind)) \/ TxDone \/ LinkChanges
  /\ UNCHANGED <<lwip, stack, appl, pbufs>>

ClockTick == Tick /\ UNCHANGED <<lwip, stack, appl, pbufs>>

-----------------------------------------------------------------------------
(* The lwIP thread. *)

\* macStart and netif_add; netif_set_up then announces the address.
LwStart ==
  /\ lw = "start"
  /\ IF ~active THEN MacStart /\ UNCHANGED lw ELSE StartSend("lwip") /\ lw' = "arp"
  /\ netUp' = TRUE
  /\ UNCHANGED <<pending, events, registered, starved>>

LwArpSent ==
  /\ lw = "arp" /\ At("lwip", "idle")
  /\ lw' = "timer"
  /\ UNCHANGED <<mac, pending, events, registered, netUp, starved>>

\* evtStart; the two chEvtRegisterMask
LwRegister ==
  /\ \/ lw = "timer" /\ lw' = "register" /\ registered' = registered \cup {PERIODIC_TIMER_ID}
     \/ lw = "register" /\ lw' = "add" /\ registered' = registered \cup {FRAME_RECEIVED_ID}
  /\ UNCHANGED <<mac, pending, events, netUp, starved>>

\* Mutation: the thread does not give itself the first events.
LwAddEventsNone ==
  /\ lw = "add" /\ lw' = "wait"
  /\ UNCHANGED <<mac, pending, events, registered, netUp, starved>>

\* chEvtAddEvents, then chThdSetPriority
LwAddEvents ==
  /\ lw = "add" /\ lw' = "wait"
  /\ pending' = pending \cup {PERIODIC_TIMER_ID, FRAME_RECEIVED_ID}
  /\ UNCHANGED <<mac, events, registered, netUp, starved>>

\* Where the loop goes when the timer event has been handled.
Frames(ev) == IF FRAME_RECEIVED_ID \in ev THEN "frames" ELSE "wait"

\* chEvtWaitAny(ALL_EVENTS)
LwWaitAny ==
  /\ lw = "wait"
  /\ events' = (IF PERIODIC_TIMER_ID \in pending THEN pending ELSE {}) /\ pending' = {}
  /\ lw' = IF PERIODIC_TIMER_ID \in pending THEN "poll" ELSE Frames(pending)
  /\ UNCHANGED <<mac, registered, netUp, starved>>

\* macPollLinkStatus
LwPoll ==
  /\ lw = "poll" /\ lw' = "compare"
  /\ PollLinkStatus
  /\ UNCHANGED <<pending, events, registered, netUp, starved>>

LwLoop ==
  /\ LwRuns
  /\ \/ LwStart \/ LwArpSent \/ LwRegister \/ LwAddEvents
     \/ LwWaitAny \/ LwPoll
     \/ lw = "arp" /\ SenderStep("lwip") /\ UNCHANGED lwip
  /\ UNCHANGED <<stack, appl, pbufs>>

\* Mutation: the message goes into a full mailbox.
TryPostBlind(m) == mbox' = Append(mbox, m)

\* sys_mbox_trypost
TryPost(m) == mbox' = IF Len(mbox) < MBox THEN Append(mbox, m) ELSE mbox

\* current_link_status, read by the poll, against netif_is_link_up; a change
\* is given to the stack by tcpip_callback_with_block, which gives up when the
\* mailbox is full.
LwCompare ==
  /\ LwRuns
  /\ lw = "compare" /\ lw' = Frames(events) /\ events' = {}
  /\ IF linkUp # netUp THEN TryPost(IF linkUp THEN "up" ELSE "down") ELSE UNCHANGED mbox
  /\ UNCHANGED <<mac, pending, registered, netUp, starved, tcp, msg, netbufs, appl, pbufs>>

\* low_level_input: a frame, or the end of the loop
LwGetFrame ==
  /\ LwRuns
  /\ lw = "frames"
  /\ GetReceiveDescriptor
  /\ lw' = IF held' # {} THEN "alloc" ELSE "wait"
  /\ UNCHANGED <<pending, events, registered, netUp, starved, stack, appl, pbufs>>

\* pbuf_alloc and the copy, then the descriptor is released.  Without a buffer the frame is dropped and low_level_input
\* returns NULL, which ends the loop of the thread with frames in the ring.
LwAlloc ==
  /\ LwRuns
  /\ lw = "alloc"
  /\ \E i \in held : ReleaseReceiveDescriptor(i)
  /\ IF pbufs > 0
       THEN pbufs' = pbufs - 1 /\ lw' = "input" /\ UNCHANGED starved
       ELSE lw' = "wait" /\ starved' = TRUE /\ UNCHANGED pbufs
  /\ UNCHANGED <<pending, events, registered, netUp, stack, appl>>

\* Packets the stack holds, in its mailbox or in its thread.
InStack == Cardinality({i \in DOMAIN mbox : mbox[i] = "packet"})
             + (IF msg = "packet" THEN 1 ELSE 0)

\* Mutation: a frame the stack refuses is not freed.
RefusedLost == UNCHANGED pbufs

Refused == pbufs' = pbufs + 1

\* tcpip_input for an IP or ARP frame; the buffer of a frame it refuses, or
\* of another type, is freed.  A packet being handled still holds its message.
LwInput ==
  /\ LwRuns
  /\ lw = "input" /\ lw' = "frames"
  /\ \/ InStack < MBox /\ Len(mbox) < MBox /\ TryPost("packet") /\ UNCHANGED pbufs
     \/ Refused /\ UNCHANGED mbox
  /\ UNCHANGED <<mac, pending, events, registered, netUp, starved, tcp, msg, netbufs, appl>>

LwStep == LwLoop \/ LwCompare \/ LwGetFrame \/ LwAlloc \/ LwInput

-----------------------------------------------------------------------------
(* tcpip_thread. *)

\* Mutation: netif_set_link_down leaves the flag.
NetUpAfterSticky(m) == netUp \/ m = "up"

\* netif_set_link_up, netif_set_link_down
NetUpAfter(m) == m = "up" \/ (netUp /\ m # "down")

\* Handling a message may end in low_level_output: a gratuitous ARP when the
\* interface comes up, an answer, a segment.
MaySend(m) == IF m = "up" THEN {~netUp} ELSE IF m = "down" THEN {FALSE} ELSE BOOLEAN

\* sys_timeouts_mbox_fetch gives a message or runs out into a timer of the
\* stack; the thread starts to handle it.
TcpFetch ==
  /\ TcpRuns
  /\ tcp = "fetch"
  /\ IF mbox # <<>> THEN msg' = Head(mbox) /\ mbox' = Tail(mbox)
                    ELSE msg' = "timer" /\ UNCHANGED mbox
  /\ netUp' = NetUpAfter(msg')
  /\ \E sends \in MaySend(msg') : IF sends THEN tcp' = "send" /\ StartSend("tcpip")
                                            ELSE tcp' = "done" /\ UNCHANGED mac
  /\ UNCHANGED <<lw, pending, events, registered, starved, netbufs, appl, pbufs>>

TcpSend ==
  /\ TcpRuns
  /\ tcp = "send"
  /\ \/ SenderStep("tcpip") /\ UNCHANGED tcp
     \/ At("tcpip", "idle") /\ tcp' = "done" /\ UNCHANGED mac
  /\ UNCHANGED <<lwip, mbox, msg, netbufs, appl, pbufs>>

\* The buffer of a packet is freed or queued for the application; a call of
\* the application is completed.
TcpDone ==
  /\ TcpRuns
  /\ tcp = "done" /\ tcp' = "fetch" /\ msg' = "none"
  /\ \/ msg = "packet" /\ pbufs' = pbufs + 1 /\ UNCHANGED netbufs
     \/ msg = "packet" /\ netbufs < MBox /\ netbufs' = netbufs + 1 /\ UNCHANGED pbufs
     \/ msg # "packet" /\ UNCHANGED <<pbufs, netbufs>>
  /\ app' = IF msg = "api" THEN "run" ELSE app
  /\ UNCHANGED <<mac, lwip, mbox, unacked>>

TcpStep == TcpFetch \/ TcpSend \/ TcpDone

-----------------------------------------------------------------------------
(* The application thread. *)

\* main creates it when the more urgent lwIP thread first sleeps.
AppBorn ==
  /\ app = "unborn" /\ lw # "start" /\ ~LwReady /\ ~TcpReady
  /\ app' = "run"
  /\ UNCHANGED <<mac, lwip, stack, unacked, pbufs>>

\* tcpip_apimsg: sys_mbox_post blocks while the mailbox is full, then the
\* thread waits for op_completed.
AppCall ==
  /\ app = "run" /\ unacked < SndBuf
  /\ unacked' = unacked + 1
  /\ IF Len(mbox) < MBox THEN TryPost("api") /\ app' = "waitop"
                         ELSE app' = "post" /\ UNCHANGED mbox
  /\ UNCHANGED <<mac, lwip, tcp, msg, netbufs, pbufs>>

AppPosted ==
  /\ app = "post" /\ Len(mbox) < MBox
  /\ TryPost("api") /\ app' = "waitop"
  /\ UNCHANGED <<mac, lwip, tcp, msg, netbufs, unacked, pbufs>>

\* The application waits for data, and frees the buffer it came in; its next
\* call comes after it has heard its peer.
AppRecv ==
  \/ /\ app = "run" /\ app' = "recv" /\ unacked' = 0
     /\ UNCHANGED <<mac, lwip, stack, pbufs>>
  \/ /\ app = "recv" /\ netbufs > 0
     /\ app' = "run" /\ UNCHANGED unacked
     /\ netbufs' = netbufs - 1 /\ pbufs' = pbufs + 1
     /\ UNCHANGED <<mac, lwip, mbox, tcp, msg>>

AppStep == NoIrq /\ (AppBorn \/ AppCall \/ AppPosted \/ AppRecv)

Interrupts == EthIrq \/ LinkTimer \/ ClockTick

Next == Hardware \/ Interrupts \/ LwStep \/ TcpStep \/ AppStep

\* Interrupts are taken, timers run, and each thread gets the processor: the
\* more urgent ones sleep now and then, and the lwIP thread runs in between.
Fairness ==
  /\ WF_vars(EthIrq) /\ WF_vars(LinkTimer) /\ WF_vars(ClockTick)
  /\ WF_vars(AppStep) /\ WF_vars(TcpReady /\ TcpStep) /\ SF_vars(LwStep)

Spec == Init /\ [][Next]_vars /\ Fairness

-----------------------------------------------------------------------------
\* Types.
LwTypeOK ==
  /\ MacTypeOK
  /\ lw \in {"start", "arp", "timer", "register", "add", "wait", "poll", "compare",
             "frames", "alloc", "input"}
  /\ {pending, events, registered} \subseteq SUBSET {PERIODIC_TIMER_ID, FRAME_RECEIVED_ID}
  /\ netUp \in BOOLEAN /\ starved \in BOOLEAN
  /\ mbox \in Seq({"packet", "up", "down", "api"}) /\ Len(mbox) <= MBox
  /\ tcp \in {"fetch", "send", "done"}
  /\ msg \in {"none", "packet", "up", "down", "api", "timer"}
  /\ app \in {"unborn", "run", "post", "waitop", "recv"}
  /\ unacked \in 0..SndBuf
  /\ pbufs \in 0..Pool /\ netbufs \in 0..Pool

Draining == lw \in {"frames", "alloc", "input"}

\* A frame waiting in the ring is not forgotten: an interrupt or an event that
\* makes the thread take it is on its way, or the thread is at it, whether the
\* frame came before the listener was registered, between two events, or while
\* the thread took earlier ones.  The exception is in the code: when no buffer
\* is free the frames behind stay until the next one arrives.
FrameNotForgotten ==
  active /\ rx[rxptr] # "DMA" =>
    \/ "RS" \in status
    \/ FRAME_RECEIVED_ID \in pending
    \/ FRAME_RECEIVED_ID \in events /\ lw \in {"poll", "compare"}
    \/ Draining \/ Starting
    \/ starved

\* No buffer is lost on the way from the driver through the stack to the
\* application, refused and dropped frames included.
PbufsConserved ==
  pbufs + netbufs + InStack + (IF lw = "input" THEN 1 ELSE 0) = Pool

\* The interface follows the cable: if the link stays as it is, the flag of
\* the interface ends up like it, although the poll compares with a flag that
\* a callback still in the mailbox is about to change.  Two exceptions are in
\* the code: the mailbox is full infinitely often when a change is to be
\* posted, and from some time on the thread never leaves its loop over frames.
LinkFollowed ==
  \A b \in BOOLEAN :
    <>[](phy = b) => \/ <>[](netUp = b)
                      \/ []<>(lw = "compare" /\ Len(mbox) = MBox)
                      \/ <>[]Draining

\* A call of the stack returns, even if every transmit descriptor stays with
\* the DMA, or the link is down: the stack's thread waits for the time-out of
\* the driver at most.
CallsReturn == app \in {"post", "waitop"} ~> app = "run"
=============================================================================
