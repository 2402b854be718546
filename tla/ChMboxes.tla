----------------------------- MODULE ChMboxes -------------------------------
(***************************************************************************)
(* Mailboxes (chmboxes.c): a ring of messages and two semaphores, one that *)
(* counts free slots and one that counts messages.  A thread that waited   *)
(* for a slot or a message is granted it first and moves its message later, *)
(* when it runs again: other threads and handlers use the ring in between. *)
(***************************************************************************)
EXTENDS ChSem

CONSTANTS
  Payloads,      \* messages
  Slots,         \* size of the ring
  ResetAnyTime   \* resets also when a granted call has not finished

ASSUME MboxAssumption ==
  /\ Sems = {"empty", "full"}
  /\ Slots \in Nat \ {0}
  /\ None \notin Payloads

VARIABLES
  buf,      \* mb_buffer
  rd, wr,   \* mb_rdptr and mb_wrptr, as places in the ring
  op,       \* the mailbox call each thread sleeps in
  got       \* the last message fetched

ring   == <<buf, rd, wr>>
mbVars == <<vars, ring, op, got>>
\* Calls of the semaphores by themselves are not made here.
noSemCall == <<ret, call, halted>>

Post(m)  == [do |-> "post", msg |-> m]
Ahead(m) == [do |-> "ahead", msg |-> m]
Fetch    == [do |-> "fetch", msg |-> None]
Ops      == {Post(m) : m \in Payloads} \cup {Ahead(m) : m \in Payloads} \cup {Fetch}

ASSUME OpsAssumption == None \notin Ops

\* The semaphore an operation waits on, and the one it signals at its end.
Needs(o) == IF o.do = "fetch" THEN "full" ELSE "empty"
Gives(o) == IF o.do = "fetch" THEN "empty" ELSE "full"

\* Mutations: a place of the ring does not wrap.
Next1NoWrap(i)  == i + 1
BeforeNoWrap(i) == IF i = 0 THEN 0 ELSE i - 1

\* The place after and the place before i in the ring.
Next1(i)  == IF i + 1 = Slots THEN 0 ELSE i + 1
Before(i) == IF i = 0 THEN Slots - 1 ELSE i - 1

\* The message of operation o goes into or out of the ring.
Move(o) ==
  CASE o.do = "post" ->
         /\ buf' = [buf EXCEPT ![wr] = o.msg]
         /\ wr' = Next1(wr)
         /\ UNCHANGED <<rd, got>>
    [] o.do = "ahead" ->
         /\ buf' = [buf EXCEPT ![Before(rd)] = o.msg]
         /\ rd' = Before(rd)
         /\ UNCHANGED <<wr, got>>
    [] o.do = "fetch" ->
         /\ got' = buf[rd]
         /\ rd' = Next1(rd)
         /\ UNCHANGED <<buf, wr>>

\* chSemSignalI on the other semaphore, c being the counters so far.
SignalOther(o, c) ==
  /\ cnt' = [c EXCEPT ![Gives(o)] = @ + 1]
  /\ queue' = QueueAfter(Gives(o), 1)
  /\ pu' = Deliver(pu, Served(Gives(o), 1), MSG_OK)

Woken(o) == ReadyI(state, Served(Gives(o), 1))

-----------------------------------------------------------------------------
\* chMBPost, chMBPostAhead, chMBFetch: chSemWaitTimeoutS, and if that does
\* not wait, the rest of the call; with TIME_IMMEDIATE nothing changes.
Begin(o, time) ==
  /\ Running
  /\ IF cnt[Needs(o)] > 0
       THEN /\ Move(o)
            /\ SignalOther(o, [cnt EXCEPT ![Needs(o)] = @ - 1])
            /\ RescheduleS(Woken(o), prio)
            /\ UNCHANGED <<vt, slept, op>>
       ELSE /\ time # "IMMEDIATE"
            /\ cnt' = [cnt EXCEPT ![Needs(o)] = @ - 1]
            /\ queue' = [queue EXCEPT ![Needs(o)] = Append(@, currp)]
            /\ pu' = [pu EXCEPT ![currp] = Needs(o)]
            /\ GoSleepTimeoutS(state, prio, "WTSEM", time)
            /\ op' = [op EXCEPT ![currp] = o]
            /\ UNCHANGED <<ring, got>>
  /\ UNCHANGED <<prio, isr, noSemCall>>

\* The thread runs again and, if it was granted what it waited for, moves its
\* message and signals the other side.
Finish ==
  LET o == op[currp] IN
  /\ Resuming
  /\ EndSleep
  /\ op' = [op EXCEPT ![currp] = None]
  /\ IF pu[currp] = MSG_OK
       THEN /\ Move(o)
            /\ SignalOther(o, cnt)
            /\ RescheduleS(Woken(o), prio)
       ELSE UNCHANGED <<currp, state, pu, cnt, queue, ring, got>>
  /\ UNCHANGED <<prio, isr, noSemCall>>

\* Mutation: the counter is not looked at.
HandlerOpBlind(o) ==
  /\ Interruptible
  /\ isr' = TRUE
  /\ Move(o)
  /\ SignalOther(o, [cnt EXCEPT ![Needs(o)] = @ - 1])
  /\ state' = Woken(o)
  /\ UNCHANGED <<currp, prio, vt, slept, op, noSemCall>>

\* chMBPostI, chMBPostAheadI, chMBFetchI by a handler, when they succeed; when
\* they return MSG_TIMEOUT nothing changes.
HandlerOp(o) ==
  /\ Interruptible
  /\ cnt[Needs(o)] > 0
  /\ isr' = TRUE
  /\ Move(o)
  /\ SignalOther(o, [cnt EXCEPT ![Needs(o)] = @ - 1])
  /\ state' = Woken(o)
  /\ UNCHANGED <<currp, prio, vt, slept, op, noSemCall>>

-----------------------------------------------------------------------------
\* Calls that were granted a slot or a message and have not finished.
Granted(d) == {t \in Threads : op[t] # None /\ op[t].do \in d /\ pu[t] = MSG_OK}

MayReset == ResetAnyTime \/ Granted({"post", "ahead", "fetch"}) = {}

\* chMBResetI: empty ring, and chSemResetI on both semaphores.
MBResetI ==
  /\ wr' = 0
  /\ rd' = 0
  /\ cnt' = [s \in Sems |-> IF s = "empty" THEN Slots ELSE 0]
  /\ queue' = [s \in Sems |-> SubSeq(queue[s], 1, Len(queue[s]) - Due(s, 0 - cnt[s]))]
  /\ pu' = Deliver(pu, Late("empty") \cup Late("full"), MSG_RESET)
  /\ UNCHANGED <<buf, op, got>>

MBReset ==
  /\ Running
  /\ MayReset
  /\ MBResetI
  /\ RescheduleS(ReadyI(state, Late("empty") \cup Late("full")), prio)
  /\ UNCHANGED <<prio, vt, slept, isr, noSemCall>>

IsrMBResetI ==
  /\ Interruptible
  /\ MayReset
  /\ isr' = TRUE
  /\ MBResetI
  /\ state' = ReadyI(state, Late("empty") \cup Late("full"))
  /\ UNCHANGED <<currp, prio, vt, slept, noSemCall>>

-----------------------------------------------------------------------------
MBInit ==
  /\ CoreInit
  /\ cnt = [s \in Sems |-> IF s = "empty" THEN Slots ELSE 0]
  /\ queue = [s \in Sems |-> <<>>]
  /\ ret = [t \in Threads |-> MSG_OK]
  /\ call = [t \in Threads |-> None]
  /\ halted = FALSE
  /\ buf \in [0..Slots - 1 -> Payloads]
  /\ rd = 0
  /\ wr = 0
  /\ op = [t \in Threads |-> None]
  /\ got = None

MBNext ==
  \/ \E o \in Ops, time \in Timeouts : Begin(o, time)
  \/ Finish
  \/ \E o \in Ops : HandlerOp(o)
  \/ MBReset
  \/ IsrMBResetI
  \/ \E t \in Threads : (Expire(t) \/ Wakeup(t)) /\ UNCHANGED <<ring, op, got>>
  \/ EndIsr /\ UNCHANGED <<ring, op, got>>

MBSpec == MBInit /\ [][MBNext]_mbVars

\* Handlers end and timers expire; a granted call goes on when its thread
\* runs; and the device on the other side, which the scheduler does not hold
\* up, posts or fetches again and again while threads wait for it to.
MBFairness ==
  /\ WF_mbVars(Finish)
  /\ SF_mbVars(EndIsr /\ UNCHANGED <<ring, op, got>>)
  /\ \A t \in Threads :
       /\ SF_mbVars(Expire(t) /\ UNCHANGED <<ring, op, got>>)
       /\ WF_mbVars(Wakeup(t) /\ UNCHANGED <<ring, op, got>>)
  /\ \A s \in Sems :
       SF_mbVars(queue[s] # <<>> /\ \E o \in Ops : Gives(o) = s /\ HandlerOp(o))

MBFairSpec == MBSpec /\ MBFairness

-----------------------------------------------------------------------------
\* Types; the ring's places stay inside it.
MBTypeOK ==
  /\ state \in [Threads -> {"READY", "CURRENT", "WTSEM"}]
  /\ pu \in [Threads -> Msgs \cup Sems]
  /\ cnt \in [Sems -> Int]
  /\ queue \in [Sems -> Seq(Threads)]
  /\ buf \in [0..Slots - 1 -> Payloads]
  /\ rd \in 0..Slots - 1
  /\ wr \in 0..Slots - 1
  /\ op \in [Threads -> Ops \cup {None}]
  /\ got \in Payloads \cup {None}

Positive(n) == IF n > 0 THEN n ELSE 0
Stored == Positive(cnt["full"]) + Cardinality(Granted({"fetch"}))

\* Every slot is accounted for once: free, promised to a poster that has not
\* run yet, filled, or promised to a fetcher; and the write place is where
\* the messages end.  This is what a granted call relies on when it runs.
SlotsBalance ==
  /\ Positive(cnt["empty"]) + Cardinality(Granted({"post", "ahead"})) + Stored = Slots
  /\ wr = (rd + Stored) % Slots

\* Nobody is forgotten: with such a device every thread that waits for a slot
\* or a message is granted one, whatever the other threads do.
NoWaiterStarves ==
  \A t \in Threads : state[t] = "WTSEM" ~> state[t] # "WTSEM"

\* What is in the ring, next message first.
Messages == [i \in 1..Stored |-> buf[(rd + i - 1) % Slots]]

Chan == INSTANCE Channel WITH
  Capacity <- Slots,
  Nothing  <- None,
  content  <- Messages,
  got      <- got

\* chMBPost, chMBPostAhead, chMBFetch, chMBReset: the mailbox is a bounded
\* channel, whoever runs first on either side.
ImplementsChannel == Chan!AbsSpec

=============================================================================
