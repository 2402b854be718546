----------------------------- MODULE MacDriver ------------------------------
(***************************************************************************)
(* The Ethernet driver: hal/src/mac.c over the STM32 mac_lld.c.  Two rings *)
(* of descriptors shared with the DMA of the peripheral, the interrupt     *)
(* handler, the queue of threads waiting for a transmit descriptor.        *)
(*                                                                         *)
(* Each section between osalSysLock and osalSysUnlock is one action; the   *)
(* DMA, the handler and other threads act between two of them.  The DMA,   *)
(* the status bits it raises and the cable are the hardware as the code    *)
(* uses it.                                                                *)
(***************************************************************************)
EXTENDS FiniteSets, Queues

CONSTANTS
  Senders,       \* threads that call macWaitTransmitDescriptor
  RXN, TXN,      \* STM32_MAC_RECEIVE_BUFFERS, STM32_MAC_TRANSMIT_BUFFERS
  SendTimeout,   \* LWIP_SEND_TIMEOUT, in ticks
  TimeMod,       \* systime_t counts modulo TimeMod; TIME_INFINITE is TimeMod-1
  MaxDelay       \* ticks a sender may run after the end of its time-out

ASSUME MacAssumption ==
  /\ {RXN, TXN, SendTimeout} \subseteq Nat \ {0}
  /\ MaxDelay \in Nat
  /\ TimeMod \in Nat /\ SendTimeout < TimeMod - 1

VARIABLES
  active,        \* macp->state is MAC_ACTIVE and the DMA runs
  rx,            \* receive descriptors: the DMA's, or holding a frame
  rxptr,         \* macp->rxptr
  rxdma,         \* the descriptor the DMA fills next
  held,          \* receive descriptors handed out and not released
  tx,            \* transmit descriptors: free, locked by a thread, the DMA's
  txptr,         \* macp->txptr
  txdma,         \* the descriptor the DMA sends next
  status,        \* DMASR: receive (RS) and transmit (TS) status bits
  phy,           \* the link, as the PHY sees it
  linkUp,        \* macp->link_up
  tdqueue,       \* macp->tdqueue
  snd            \* each sender's progress through low_level_output

rxring  == <<rx, rxptr, rxdma, held>>
txring  == <<tx, txptr, txdma>>
senders == <<tdqueue, snd>>
mac     == <<active, rxring, txring, status, phy, linkUp, senders>>

INFINITE == TimeMod - 1
NextRx(i) == (i + 1) % RXN
NextTx(i) == (i + 1) % TXN

\* A call of low_level_output: the variable timeout of
\* macWaitTransmitDescriptor, the timer armed for the sleep (0: none), the
\* ticks since `now' was read, and the descriptor obtained.
Idling == [pc |-> "idle", timeout |-> 0, timer |-> 0, elapsed |-> 0, desc |-> 0]

MacInit ==
  /\ active = FALSE
  /\ rx = [i \in 0..RXN-1 |-> "DMA"] /\ rxptr = 0 /\ rxdma = 0 /\ held = {}
  /\ tx = [i \in 0..TXN-1 |-> "FREE"] /\ txptr = 0 /\ txdma = 0
  /\ status = {}
  /\ phy \in BOOLEAN /\ linkUp = FALSE
  /\ tdqueue = <<>>
  /\ snd = [s \in Senders |-> Idling]

-----------------------------------------------------------------------------
(* The hardware. *)

\* A frame arrives, with or without an error, and a descriptor takes it.
RxFrame(kind) ==
  /\ active /\ phy
  /\ rx[rxdma] = "DMA"
  /\ rx' = [rx EXCEPT ![rxdma] = kind]
  /\ rxdma' = NextRx(rxdma)
  /\ status' = status \cup {"RS"}
  /\ UNCHANGED <<active, rxptr, held, txring, phy, linkUp, senders>>

TxDone ==
  /\ active
  /\ tx[txdma] = "DMA"
  /\ tx' = [tx EXCEPT ![txdma] = "FREE"]
  /\ txdma' = NextTx(txdma)
  /\ status' = status \cup {"TS"}
  /\ UNCHANGED <<active, rxring, txptr, phy, linkUp, senders>>

LinkChanges ==
  /\ phy' = ~phy
  /\ UNCHANGED <<active, rxring, txring, status, linkUp, senders>>

-----------------------------------------------------------------------------
\* macStart: the rings are as in MacInit, the DMA is started.
MacStart ==
  /\ active' = TRUE
  /\ UNCHANGED <<rxring, txring, status, phy, linkUp, senders>>

\* ETH_IRQHandler: the status bits are cleared, a transmission wakes every
\* sender of tdqueue.  The broadcast of rdevent is added by the listener.
MacIsr ==
  /\ status # {}
  /\ status' = {}
  /\ IF "TS" \in status
       THEN /\ tdqueue' = <<>>
            /\ snd' = [s \in Senders |-> IF s \in ToSet(tdqueue)
                                          THEN [snd[s] EXCEPT !.pc = "woken"] ELSE snd[s]]
       ELSE UNCHANGED senders
  /\ UNCHANGED <<active, rxring, txring, phy, linkUp>>

\* macPollLinkStatus
PollLinkStatus ==
  /\ linkUp' = phy
  /\ UNCHANGED <<active, rxring, txring, status, phy, senders>>

-----------------------------------------------------------------------------
(* low_level_output, in sender s. *)

At(s, pc) == snd[s].pc = pc
Goto(s, pc) == snd' = [snd EXCEPT ![s].pc = pc]

\* low_level_output returns, with ERR_OK or ERR_TIMEOUT.
EndSend(s) == snd' = [snd EXCEPT ![s] = Idling]

StartSend(s) ==
  /\ At(s, "idle")
  /\ snd' = [snd EXCEPT ![s] = [Idling EXCEPT !.pc = "get", !.timeout = SendTimeout]]
  /\ UNCHANGED <<active, rxring, txring, status, phy, linkUp, tdqueue>>

TxAvailable == linkUp /\ tx[txptr] = "FREE"

\* mac_lld_get_transmit_descriptor and the test of the loop around it
GetTransmitDescriptor(s) ==
  /\ At(s, "get")
  /\ IF TxAvailable
       THEN /\ tx' = [tx EXCEPT ![txptr] = "LOCKED"]
            /\ txptr' = NextTx(txptr)
            /\ snd' = [snd EXCEPT ![s].pc = "fill", ![s].desc = txptr]
       ELSE /\ IF snd[s].timeout > 0 THEN Goto(s, "enqueue") ELSE EndSend(s)
            /\ UNCHANGED <<tx, txptr>>
  /\ UNCHANGED <<active, rxring, txdma, status, phy, linkUp, tdqueue>>

\* Mutation: the sleep has no time-out.
EnqueueSenderForever(s) ==
  /\ At(s, "enqueue")
  /\ tdqueue' = Append(tdqueue, s)
  /\ snd' = [snd EXCEPT ![s] = [snd[s] EXCEPT !.pc = "asleep", !.timer = INFINITE, !.elapsed = 0]]
  /\ UNCHANGED <<active, rxring, txring, status, phy, linkUp>>

\* osalThreadEnqueueTimeoutS: the thread sleeps.
EnqueueSender(s) ==
  /\ At(s, "enqueue")
  /\ tdqueue' = Append(tdqueue, s)
  /\ snd' = [snd EXCEPT ![s] = [snd[s] EXCEPT !.pc = "asleep", !.timer = snd[s].timeout, !.elapsed = 0]]
  /\ UNCHANGED <<active, rxring, txring, status, phy, linkUp>>

\* What is left of a time-out after the ticks a thread waited; `timeout' is
\* unsigned, and TIME_INFINITE stays what it is.
Remaining(timeout, elapsed) ==
  IF timeout = INFINITE THEN INFINITE ELSE (timeout - elapsed) % TimeMod

\* The thread runs again: it gives up if its timer woke it, else it takes the
\* time it waited off the time-out and tries again.
ResumeSender(s) ==
  /\ snd[s].pc \in {"woken", "expired"}
  /\ IF At(s, "expired")
       THEN EndSend(s)
       ELSE snd' = [snd EXCEPT ![s] = [Idling EXCEPT !.pc = "get",
                                  !.timeout = Remaining(snd[s].timeout, snd[s].elapsed)]]
  /\ UNCHANGED <<active, rxring, txring, status, phy, linkUp, tdqueue>>

\* The frame is copied; macReleaseTransmitDescriptor gives it to the DMA.
ReleaseTransmitDescriptor(s) ==
  /\ At(s, "fill")
  /\ tx' = [tx EXCEPT ![snd[s].desc] = "DMA"]
  /\ EndSend(s)
  /\ UNCHANGED <<active, rxring, txptr, txdma, status, phy, linkUp, tdqueue>>

SenderStep(s) ==
  \/ GetTransmitDescriptor(s)
  \/ EnqueueSender(s)
  \/ ResumeSender(s)
  \/ ReleaseTransmitDescriptor(s)

\* One tick, counted while a sender measures time.  A timer that runs out
\* takes its thread out of tdqueue with MSG_TIMEOUT (chVTDoTickI, wakeup); a
\* thread that sleeps for TIME_INFINITE has none.  Time does not wait for a
\* sleeping thread, but one that is to run does so at most MaxDelay ticks
\* after its time-out.
Timing == {s \in Senders : snd[s].pc \in {"asleep", "woken", "expired"}}

Ticked(d) ==
  LET timer == IF d.pc = "asleep" /\ d.timer # INFINITE THEN d.timer - 1 ELSE d.timer
  IN  [d EXCEPT !.timer = timer, !.elapsed = (@ + 1) % TimeMod,
                !.pc = IF d.pc = "asleep" /\ timer = 0 THEN "expired" ELSE @]

Tick ==
  /\ Timing # {}
  /\ \A s \in Timing : ~At(s, "asleep") => snd[s].elapsed < snd[s].timeout + MaxDelay
  /\ snd' = [s \in Senders |-> IF s \in Timing THEN Ticked(snd[s]) ELSE snd[s]]
  /\ tdqueue' = StillIn(tdqueue, {s \in Senders : snd'[s].pc = "asleep"})
  /\ UNCHANGED <<active, rxring, txring, status, phy, linkUp>>

-----------------------------------------------------------------------------
(* The receive side, called by one thread. *)

\* Frames from rxptr on that mac_lld_get_receive_descriptor discards: as many
\* as are invalid, one after the other.
Purged ==
  {(rxptr + k) % RXN : k \in {k \in 0..RXN-1 : \A j \in 0..k : rx[(rxptr + j) % RXN] = "BAD"}}

\* Mutation: an invalid frame ends the search.
FoundAtOnce == rxptr

\* The descriptor the search ends at.
Found == (rxptr + Cardinality(Purged)) % RXN

\* mac_lld_get_receive_descriptor; the frame found, if any, is rx'[Found].
GetReceiveDescriptor ==
  /\ rx' = [i \in 0..RXN-1 |-> IF i \in Purged THEN "DMA" ELSE rx[i]]
  /\ IF rx'[Found] = "FRAME"
       THEN held' = held \cup {Found} /\ rxptr' = NextRx(Found)
       ELSE rxptr' = Found /\ UNCHANGED held
  /\ UNCHANGED <<active, rxdma, txring, status, phy, linkUp, senders>>

\* macReleaseReceiveDescriptor
ReleaseReceiveDescriptor(i) ==
  /\ rx' = [rx EXCEPT ![i] = "DMA"]
  /\ held' = held \ {i}
  /\ UNCHANGED <<active, rxptr, rxdma, txring, status, phy, linkUp, senders>>

-----------------------------------------------------------------------------
\* Every variable has its type.  A sender sleeps with a timer that runs out
\* when its time-out has passed, or with none if it waits for TIME_INFINITE.
MacTypeOK ==
  /\ active \in BOOLEAN
  /\ rx \in [0..RXN-1 -> {"DMA", "FRAME", "BAD"}]
  /\ {rxptr, rxdma} \subseteq 0..RXN-1
  /\ held \subseteq 0..RXN-1
  /\ tx \in [0..TXN-1 -> {"FREE", "LOCKED", "DMA"}]
  /\ {txptr, txdma} \subseteq 0..TXN-1
  /\ status \subseteq {"RS", "TS"}
  /\ phy \in BOOLEAN /\ linkUp \in BOOLEAN
  /\ tdqueue \in Seq(Senders)
  /\ snd \in [Senders -> [pc : {"idle", "get", "enqueue", "asleep", "woken", "expired",
                                "fill"},
                          timeout : 0..TimeMod-1, timer : 0..TimeMod-1,
                          elapsed : 0..TimeMod-1, desc : 0..TXN-1]]
  /\ \A s \in Senders : At(s, "asleep") =>
       /\ snd[s].timer = INFINITE <=> snd[s].timeout = INFINITE
       /\ snd[s].timer # INFINITE =>
            snd[s].timer > 0 /\ snd[s].timer + snd[s].elapsed = snd[s].timeout

\* The n descriptors of a ring of size N that start at i.
Run(i, n, N) == {(i + k) % N : k \in 0..n-1}

\* The driver and the DMA agree on both rings.  The filled receive
\* descriptors not handed out are those from rxptr up to the one the DMA
\* fills next, and the busy transmit descriptors are those from the one the
\* DMA sends next up to txptr: neither side ever waits at a descriptor while
\* the other's work lies further on, however frames arrive, are discarded
\* and are released.
RingsAgree ==
  /\ \E n \in 0..RXN : /\ (rxptr + n) % RXN = rxdma
                       /\ {i \in 0..RXN-1 : rx[i] # "DMA"} \ held = Run(rxptr, n, RXN)
  /\ \E n \in 0..TXN : /\ (txdma + n) % TXN = txptr
                       /\ {i \in 0..TXN-1 : tx[i] # "FREE"} = Run(txdma, n, TXN)

\* A thread that waits to transmit is woken within the time it was given: its
\* timer is never armed for longer than the time-out, whatever the wake-ups
\* and however late the thread runs after one (`timeout' is unsigned and wraps
\* when more time has passed than was left).
SendersWakeInTime == \A s \in Senders : At(s, "asleep") => snd[s].timer <= SendTimeout
=============================================================================
