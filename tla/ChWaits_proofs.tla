--------------------------- MODULE ChWaits_proofs ---------------------------
(***************************************************************************)
(* What holds of references, thread queues, messages and events used       *)
(* together, for any number of threads and of each kind of object.         *)
(***************************************************************************)
EXTENDS ChWaits, Queues_proofs

-----------------------------------------------------------------------------
(***************************************************************************)
(* The inductive invariant.                                                *)
(***************************************************************************)
Awake  == {"READY", "CURRENT"}
Asleep == {"SLEEPING", "SUSPENDED", "QUEUED", "SNDMSGQ", "SNDMSG", "WTMSG", "WTOREVT", "WTANDEVT"}
States == Awake \cup Asleep

\* The waits that have no time-out.
Untimed == {"SNDMSGQ", "SNDMSG", "WTMSG"}

OneCurrent(s, c) ==
  /\ s \in [Threads -> States]
  /\ c \in Threads
  /\ \A t \in Threads : s[t] = "CURRENT" <=> t = c

\* What p_u holds is told by the state of its thread.
UnionOf(s) ==
  IF s = "SUSPENDED" THEN Refs ELSE IF s \in {"SNDMSGQ", "SNDMSG"} THEN Servers ELSE Msgs

\* A thread is in a kernel call from its sleep until it runs again, and its
\* timer is armed in between, if at all.
Fits(t) ==
  /\ pu[t] \in UnionOf(state[t])
  /\ state[t] \in Asleep => slept[t]
  /\ vt[t] # "off" => slept[t] /\ state[t] \notin Untimed
  /\ vt[t] = "firing" => isr

KernelHolds ==
  /\ OneCurrent(state, currp)
  /\ prio = BasePrio
  /\ pu \in [Threads -> Msgs \cup Refs \cup Servers]
  /\ vt \in [Threads -> {"off", "armed", "firing"}]
  /\ slept \in [Threads -> BOOLEAN]
  /\ isr \in BOOLEAN
  /\ isr => ~slept[currp]
  /\ \A t \in Threads : Fits(t)

RefsHold ==
  /\ ref \in [Refs -> Threads \cup {None}]
  /\ \A r \in Refs, t \in Threads : ref[r] = t <=> (state[t] = "SUSPENDED" /\ pu[t] = r)

TQueuesHold ==
  /\ tqueue \in [TQueues -> Seq(Threads)]
  /\ \A q \in TQueues : IsInjective(tqueue[q])
  /\ \A t \in Threads :
       /\ state[t] = "QUEUED" => \E q \in TQueues : t \in ToSet(tqueue[q])
       /\ \A q \in TQueues : t \in ToSet(tqueue[q]) => state[t] = "QUEUED"
       /\ \A q, r \in TQueues : t \in ToSet(tqueue[q]) /\ t \in ToSet(tqueue[r]) => q = r

\* A server is in chMsgWait while it sleeps there and until it has received.
Inbox(s) ==
  /\ IsInjective(msgqueue[s])
  /\ \A t \in Threads :
       /\ t \in ToSet(msgqueue[s]) <=> (state[t] = "SNDMSGQ" /\ pu[t] = s)
       /\ t \in held[s] <=> (state[t] = "SNDMSG" /\ pu[t] = s)
  /\ state[s] = "WTMSG" => msgqueue[s] = <<>>
  /\ s \in receiving => slept[s] /\ state[s] \in Awake \cup {"WTMSG"}
  /\ s \in receiving /\ state[s] # "WTMSG" => msgqueue[s] # <<>>

MsgsHold ==
  /\ msgqueue \in [Servers -> Seq(Threads)]
  /\ held \in [Servers -> SUBSET Threads]
  /\ receiving \subseteq Servers
  /\ \A s \in Servers : Inbox(s)
  /\ \A t \in Threads : state[t] = "WTMSG" => t \in receiving

\* A thread that waits for events, or was answered and has not run since.
WaitHolds(t) ==
  waits[t] # None =>
    LET met == Met(waits[t].kind, waits[t].mask, epending[t]) IN
    /\ slept[t]
    /\ state[t] \in Awake \cup {IF waits[t].kind = "all" THEN "WTANDEVT" ELSE "WTOREVT"}
    /\ IF state[t] \in Awake THEN pu[t] = MSG_OK => met ELSE ~met

Announced(l) ==
  l \in listening /\ elflags[l] \cap ElWanted[l] # {} =>
    l \in taken \/ ElEvents[l] \cap epending[Owner[l]] # {}

EventsHold ==
  /\ epending \in [Waiters -> SUBSET Events]
  /\ waits \in [Waiters -> {None} \cup Awaited]
  /\ listening \subseteq Listeners
  /\ elflags \in [Listeners -> SUBSET Flags]
  /\ taken \subseteq Listeners
  /\ \A t \in Threads : state[t] \in {"WTOREVT", "WTANDEVT"} => t \in Waiters /\ waits[t] # None
  /\ \A t \in Waiters : WaitHolds(t)
  /\ \A l \in Listeners : Announced(l)

PartsHold == KernelHolds /\ RefsHold /\ TQueuesHold /\ MsgsHold /\ EventsHold

\* A thread is in one call at a time.
OneCall == \A t \in receiving \cap Waiters : waits[t] = None

WaitsInv == PartsHold /\ OneCall

\* One answer, as a formula about a step.
Once == \A t \in Threads : slept[t] /\ state[t] \in Awake => pu'[t] = pu[t]

-----------------------------------------------------------------------------
\* The scheduler.

\* At most the processor changes hands.
Still(a, b) == a = b \/ (a \in Awake /\ b \in Awake)

LEMMA Switched ==
  ASSUME NEW s, OneCurrent(s, currp), NEW t \in Threads, s[t] = "READY",
         NEW old \in States, old # "CURRENT", SwitchTo(s, t, old)
  PROVE  /\ OneCurrent(state', currp') /\ currp' = t /\ t # currp
         /\ \A x \in Threads :
              state'[x] = IF x = t THEN "CURRENT" ELSE IF x = currp THEN old ELSE s[x]
<1>1. /\ currp' = t /\ t # currp
      /\ state' = [s EXCEPT ![currp] = old, ![t] = "CURRENT"]
      /\ s \in [Threads -> States] /\ currp \in Threads /\ "CURRENT" \in States
  BY DEF SwitchTo, OneCurrent, States, Awake
<1>2. state' \in [Threads -> States]
  BY <1>1
<1>3. \A x \in Threads :
        state'[x] = IF x = t THEN "CURRENT" ELSE IF x = currp THEN old ELSE s[x]
  BY <1>1
<1> QED
  BY <1>1, <1>2, <1>3 DEF OneCurrent

LEMMA ReadyIs ==
  ASSUME NEW s \in [Threads -> States], NEW W
  PROVE  /\ ReadyI(s, W) \in [Threads -> States]
         /\ \A x \in Threads : ReadyI(s, W)[x] = IF x \in W THEN "READY" ELSE s[x]
  BY DEF ReadyI, States, Awake

\* Readying threads that wait keeps the running one.
LEMMA ReadyKeeps ==
  ASSUME OneCurrent(state, currp), NEW W \in SUBSET Threads, \A t \in W : state[t] \in Asleep
  PROVE  OneCurrent(ReadyI(state, W), currp)
<1>1. /\ ReadyI(state, W) \in [Threads -> States]
      /\ \A x \in Threads : ReadyI(state, W)[x] = IF x \in W THEN "READY" ELSE state[x]
  BY ReadyIs DEF OneCurrent
<1> QED
  BY <1>1 DEF OneCurrent, Asleep

\* The most urgent ready thread runs, the other one waits.
LEMMA SleepIs ==
  ASSUME NEW s, OneCurrent(s, currp), NEW p, NEW new \in Asleep, NEW time,
         GoSleepTimeoutS(s, p, new, time)
  PROVE  /\ OneCurrent(state', currp')
         /\ state'[currp] = new
         /\ \A x \in Threads \ {currp} : Still(s[x], state'[x])
<1>1. PICK t \in Highest(s, p) : SwitchTo(s, t, new)
  BY DEF GoSleepTimeoutS
<1>2. t \in Threads /\ s[t] = "READY" /\ new \in States /\ new # "CURRENT" /\ currp \in Threads
  BY <1>1 DEF Highest, Ready, States, Asleep, OneCurrent
<1>3. /\ OneCurrent(state', currp') /\ t # currp
      /\ \A x \in Threads :
           state'[x] = IF x = t THEN "CURRENT" ELSE IF x = currp THEN new ELSE s[x]
  BY <1>1, <1>2, Switched
<1> QED
  BY <1>2, <1>3 DEF Still, Awake

LEMMA RescheduleIs ==
  ASSUME NEW s, OneCurrent(s, currp), NEW p, RescheduleS(s, p)
  PROVE  /\ OneCurrent(state', currp')
         /\ \A x \in Threads : Still(s[x], state'[x])
<1>1. CASE \E t \in Ready(s) : p[t] > p[currp]
  <2>1. PICK t \in Highest(s, p) : SwitchTo(s, t, "READY")
    BY <1>1 DEF RescheduleS
  <2>2. t \in Threads /\ s[t] = "READY" /\ "READY" \in States
    BY <2>1 DEF Highest, Ready, States, Awake
  <2>3. /\ OneCurrent(state', currp') /\ t # currp
        /\ \A x \in Threads :
             state'[x] = IF x = t THEN "CURRENT" ELSE IF x = currp THEN "READY" ELSE s[x]
    BY <2>1, <2>2, Switched
  <2>4. s[currp] = "CURRENT"
    BY DEF OneCurrent
  <2> QED
    BY <2>2, <2>3, <2>4 DEF Still, Awake
<1>2. CASE ~\E t \in Ready(s) : p[t] > p[currp]
  BY <1>2 DEF RescheduleS, Still
<1> QED
  BY <1>1, <1>2

\* chSchWakeupS: t, which waits, is readied or runs at once.
LEMMA WakeupIs ==
  ASSUME OneCurrent(state, currp), NEW t \in Threads, state[t] \in Asleep, NEW p,
         WakeupS(state, p, t)
  PROVE  /\ OneCurrent(state', currp')
         /\ \A x \in Threads : Still(ReadyI(state, {t})[x], state'[x])
<1> DEFINE s == ReadyI(state, {t})
<1>1. /\ OneCurrent(s, currp)
      /\ \A x \in Threads : s[x] = IF x = t THEN "READY" ELSE state[x]
  BY ReadyKeeps, ReadyIs DEF OneCurrent
<1>2. CASE p[t] <= p[currp]
  BY <1>1, <1>2 DEF WakeupS, Still
<1>3. CASE ~(p[t] <= p[currp])
  <2>1. SwitchTo(state, t, "READY")
    BY <1>3 DEF WakeupS
  <2>2. /\ currp' = t
        /\ state' = [state EXCEPT ![currp] = "READY", ![t] = "CURRENT"]
        /\ state \in [Threads -> States] /\ currp \in Threads /\ t # currp
    BY <2>1 DEF SwitchTo, OneCurrent, Asleep
  <2>3. \A x \in Threads :
          state'[x] = IF x = t THEN "CURRENT" ELSE IF x = currp THEN "READY" ELSE state[x]
    BY <2>2
  <2>4. state' \in [Threads -> States]
    BY <2>2 DEF States, Awake
  <2>5. state[currp] = "CURRENT" /\ state[t] # "CURRENT"
    BY <2>2 DEF OneCurrent
  <2>6. \A x \in Threads : Still(IF x = t THEN "READY" ELSE state[x], state'[x])
    BY <2>2, <2>3, <2>5 DEF Still, Awake
  <2>7. OneCurrent(state', currp')
    BY <2>2, <2>3, <2>4 DEF OneCurrent
  <2> QED
    BY <1>1, <2>6, <2>7
<1> QED
  BY <1>2, <1>3

-----------------------------------------------------------------------------
\* What a step does to the threads it is not about: at most they trade the
\* processor.  W is the set of those it is about.

Others(W) ==
  \A t \in Threads \ W :
    Still(state[t], state'[t]) /\ pu'[t] = pu[t] /\ slept'[t] = slept[t]

KernelTypes ==
  /\ OneCurrent(state', currp')
  /\ prio' = prio
  /\ pu' \in [Threads -> Msgs \cup Refs \cup Servers]
  /\ vt' \in [Threads -> {"off", "armed", "firing"}]
  /\ slept' \in [Threads -> BOOLEAN]
  /\ isr' \in BOOLEAN
  /\ isr' => ~slept'[currp']

LEMMA StillSame ==
  ASSUME NEW a, NEW b, Still(a, b)
  PROVE  /\ UnionOf(b) = UnionOf(a)
         /\ \A d \in Asleep : b = d <=> a = d
         /\ a \in Awake <=> b \in Awake
  BY DEF Still, UnionOf, Awake, Asleep

LEMMA KernelFrame ==
  ASSUME KernelHolds, KernelTypes, NEW W, Others(W),
         \A t \in Threads \ W : vt'[t] = vt[t] /\ (vt[t] = "firing" => isr'),
         \A t \in Threads : t \in W => Fits(t)'
  PROVE  KernelHolds'
<1>1. ASSUME NEW t \in Threads PROVE Fits(t)'
  <2>1. CASE t \in W
    BY <2>1
  <2>2. CASE t \notin W
    <3>1. /\ Still(state[t], state'[t]) /\ pu'[t] = pu[t] /\ slept'[t] = slept[t]
          /\ vt'[t] = vt[t] /\ (vt[t] = "firing" => isr')
      BY <2>2 DEF Others
    <3>2. Fits(t)
      BY DEF KernelHolds
    <3>3. /\ UnionOf(state'[t]) = UnionOf(state[t])
          /\ \A d \in Asleep : state'[t] = d <=> state[t] = d
      BY <3>1, StillSame
    <3>4. Untimed \subseteq Asleep
      BY DEF Untimed, Asleep
    <3>5. (state'[t] \in Asleep <=> state[t] \in Asleep) /\ (state'[t] \in Untimed <=> state[t] \in Untimed)
      BY <3>3, <3>4
    <3> QED
      BY <3>1, <3>2, <3>3, <3>5 DEF Fits
  <2> QED
    BY <2>1, <2>2
<1> QED
  BY <1>1 DEF KernelHolds, KernelTypes

LEMMA OnceFrame ==
  ASSUME NEW W, Others(W), \A t \in W : slept[t] => state[t] \notin Awake
  PROVE  Once
  BY DEF Others, Once

LEMMA RefsFrame ==
  ASSUME RefsHold, ref' = ref, NEW W, Others(W),
         \A t \in Threads : t \in W => state[t] # "SUSPENDED" /\ state'[t] # "SUSPENDED"
  PROVE  RefsHold'
<1>1. ASSUME NEW t \in Threads
      PROVE  /\ state'[t] = "SUSPENDED" <=> state[t] = "SUSPENDED"
             /\ state[t] = "SUSPENDED" => pu'[t] = pu[t]
  <2>1. CASE t \in W
    BY <2>1
  <2>2. CASE t \notin W
    <3>1. Still(state[t], state'[t]) /\ pu'[t] = pu[t] /\ "SUSPENDED" \in Asleep
      BY <2>2 DEF Others, Asleep
    <3> QED
      BY <3>1, StillSame
  <2> QED
    BY <2>1, <2>2
<1> QED
  BY <1>1 DEF RefsHold

LEMMA TQueuesFrame ==
  ASSUME TQueuesHold, tqueue' = tqueue, NEW W, Others(W),
         \A t \in Threads : t \in W => state[t] # "QUEUED" /\ state'[t] # "QUEUED"
  PROVE  TQueuesHold'
<1>1. ASSUME NEW t \in Threads
      PROVE  state'[t] = "QUEUED" <=> state[t] = "QUEUED"
  <2>1. CASE t \in W
    BY <2>1
  <2>2. CASE t \notin W
    <3>1. Still(state[t], state'[t]) /\ "QUEUED" \in Asleep
      BY <2>2 DEF Others, Asleep
    <3> QED
      BY <3>1, StillSame
  <2> QED
    BY <2>1, <2>2
<1> QED
  BY <1>1 DEF TQueuesHold

LEMMA MsgsFrame ==
  ASSUME MsgsHold, UNCHANGED msgobjs, NEW W, Others(W),
         \A t \in Threads : t \in W =>
           t \notin receiving /\ state[t] \notin Untimed /\ state'[t] \notin Untimed,
         Servers \subseteq Threads
  PROVE  MsgsHold'
<1>1. ASSUME NEW t \in Threads, t \notin W
      PROVE  /\ \A d \in Untimed : state'[t] = d <=> state[t] = d
             /\ state[t] \in Awake <=> state'[t] \in Awake
             /\ pu'[t] = pu[t] /\ slept'[t] = slept[t]
  <2>1. Still(state[t], state'[t]) /\ Untimed \subseteq Asleep
    BY <1>1 DEF Others, Asleep, Untimed
  <2> QED
    BY <1>1, <2>1, StillSame DEF Others
<1>2. ASSUME NEW t \in Threads
      PROVE  /\ \A d \in Untimed : state'[t] = d <=> state[t] = d
             /\ state[t] \in Untimed => pu'[t] = pu[t]
             /\ t \in receiving => slept'[t] = slept[t] /\ (state[t] \in Awake <=> state'[t] \in Awake)
  BY <1>1
<1>3. UNCHANGED <<msgqueue, receiving, held>>
  BY DEF msgobjs
<1>4. ASSUME NEW s \in Servers PROVE Inbox(s)'
  <2>1. s \in Threads /\ Inbox(s)
    BY DEF MsgsHold
  <2>2. \A t \in Threads :
           /\ t \in ToSet(msgqueue[s]) <=> (state'[t] = "SNDMSGQ" /\ pu'[t] = s)
           /\ t \in held[s] <=> (state'[t] = "SNDMSG" /\ pu'[t] = s)
    BY <1>2, <2>1 DEF Inbox, Untimed
  <2>3. state'[s] = "WTMSG" <=> state[s] = "WTMSG"
    BY <1>2, <2>1 DEF Untimed
  <2> QED
    BY <1>2, <1>3, <2>1, <2>2, <2>3 DEF Inbox
<1>5. \A t \in Threads : state'[t] = "WTMSG" <=> state[t] = "WTMSG"
  BY <1>2 DEF Untimed
<1> QED
  BY <1>3, <1>4, <1>5 DEF MsgsHold

LEMMA EventsFrame ==
  ASSUME EventsHold, UNCHANGED evtobjs, NEW W, Others(W),
         \A t \in Threads : t \in W =>
           /\ t \in Waiters => waits[t] = None
           /\ state[t] \notin {"WTOREVT", "WTANDEVT"} /\ state'[t] \notin {"WTOREVT", "WTANDEVT"},
         Waiters \subseteq Threads
  PROVE  EventsHold'
<1>1. UNCHANGED <<epending, waits, listening, elflags, taken>>
  BY DEF evtobjs
<1>2. ASSUME NEW t \in Threads, t \notin W
      PROVE  /\ \A d \in Asleep : state'[t] = d <=> state[t] = d
             /\ state[t] \in Awake <=> state'[t] \in Awake
             /\ pu'[t] = pu[t] /\ slept'[t] = slept[t]
  BY <1>2, StillSame DEF Others
<1>3. {"WTOREVT", "WTANDEVT"} \subseteq Asleep
  BY DEF Asleep
<1>4. ASSUME NEW t \in Waiters PROVE WaitHolds(t)'
  <2>1. t \in Threads /\ WaitHolds(t)
    BY DEF EventsHold
  <2>2. CASE waits[t] = None
    BY <1>1, <2>2 DEF WaitHolds
  <2>3. CASE waits[t] # None
    <3>1. /\ \A d \in {"WTOREVT", "WTANDEVT"} : state'[t] = d <=> state[t] = d
          /\ state[t] \in Awake <=> state'[t] \in Awake
          /\ pu'[t] = pu[t] /\ slept'[t] = slept[t]
      BY <1>2, <1>3, <2>1, <2>3
    <3>2. Met(waits[t].kind, waits[t].mask, epending[t])' = Met(waits[t].kind, waits[t].mask, epending[t])
      BY <1>1 DEF Met
    <3> QED
      BY <1>1, <2>1, <2>3, <3>1, <3>2 DEF WaitHolds
  <2> QED
    BY <2>2, <2>3
<1>5. \A t \in Threads : state'[t] \in {"WTOREVT", "WTANDEVT"} => t \in Waiters /\ waits[t] # None
  BY <1>2, <1>3 DEF EventsHold
<1>6. \A l \in Listeners : Announced(l)'
  BY <1>1 DEF EventsHold, Announced
<1> QED
  BY <1>1, <1>4, <1>5, <1>6 DEF EventsHold

\* A thread that runs outside of calls, or sleeps for something else, has
\* nothing of chMsgWait or of a wait for events left to do.
LEMMA Uninvolved ==
  ASSUME MsgsHold, EventsHold, NEW t \in Threads,
         ~slept[t] \/ state[t] \in Asleep
  PROVE  /\ state[t] # "WTMSG" => t \notin receiving
         /\ state[t] \notin {"WTOREVT", "WTANDEVT"} => (t \in Waiters => waits[t] = None)
<1>1. t \in receiving => t \in Servers /\ Inbox(t)
  BY DEF MsgsHold
<1>2. t \in Waiters => WaitHolds(t)
  BY DEF EventsHold
<1>3. state[t] \in Asleep => state[t] \notin Awake
  BY DEF Awake, Asleep
<1>4. state[t] # "WTMSG" => t \notin receiving
  BY <1>1, <1>3 DEF Inbox
<1>5. ASSUME state[t] \notin {"WTOREVT", "WTANDEVT"}, t \in Waiters PROVE waits[t] = None
  BY <1>2, <1>3, <1>5 DEF WaitHolds
<1> QED
  BY <1>4, <1>5

-----------------------------------------------------------------------------
\* The two things that calls do to threads: the running one goes to sleep, or
\* sleeping ones are given a message and readied.

LEMMA Caller ==
  ASSUME KernelHolds
  PROVE  currp \in Threads /\ state[currp] = "CURRENT" /\ state \in [Threads -> States]
         /\ \A t \in Threads : state[t] \in Asleep => slept[t] /\ t # currp
  BY DEF KernelHolds, OneCurrent, Fits, Asleep

LEMMA SleepFrame ==
  ASSUME KernelHolds, Running, NEW new \in Asleep, NEW time, GoSleepTimeoutS(state, prio, new, time),
         UNCHANGED <<prio, isr>>, pu' \in [Threads -> Msgs \cup Refs \cup Servers],
         pu'[currp] \in UnionOf(new), \A t \in Threads \ {currp} : pu'[t] = pu[t],
         new \in Untimed => time = "INFINITE"
  PROVE  /\ KernelHolds' /\ Others({currp}) /\ Once
         /\ currp \in Threads /\ state[currp] = "CURRENT" /\ ~slept[currp]
         /\ state'[currp] = new /\ slept'[currp]
<1>1. /\ OneCurrent(state, currp) /\ currp \in Threads /\ state[currp] = "CURRENT"
      /\ slept \in [Threads -> BOOLEAN] /\ vt \in [Threads -> {"off", "armed", "firing"}]
      /\ isr \in BOOLEAN
  BY Caller DEF KernelHolds
<1>2. ~isr /\ ~slept[currp]
  BY DEF Running
<1>3. /\ OneCurrent(state', currp') /\ state'[currp] = new
      /\ \A x \in Threads \ {currp} : Still(state[x], state'[x])
  BY <1>1, SleepIs
<1>4. /\ slept' = [slept EXCEPT ![currp] = TRUE]
      /\ vt' = [vt EXCEPT ![currp] = IF time = "INFINITE" THEN "off" ELSE "armed"]
  BY DEF GoSleepTimeoutS
<1>5. /\ slept' \in [Threads -> BOOLEAN] /\ vt' \in [Threads -> {"off", "armed", "firing"}]
      /\ slept'[currp] /\ vt'[currp] \in {"off", "armed"}
      /\ time = "INFINITE" => vt'[currp] = "off"
      /\ \A t \in Threads \ {currp} : slept'[t] = slept[t] /\ vt'[t] = vt[t]
  BY <1>1, <1>4
<1>6. Others({currp})
  BY <1>3, <1>5 DEF Others
<1>7. KernelTypes
  BY <1>1, <1>2, <1>3, <1>5 DEF KernelTypes
<1>8. ASSUME NEW t \in Threads, t \in {currp} PROVE Fits(t)'
  <2>1. state'[t] = new /\ pu'[t] \in UnionOf(new) /\ slept'[t]
        /\ vt'[t] # "firing" /\ (vt'[t] # "off" => new \notin Untimed)
    BY <1>3, <1>5, <1>8
  <2> QED
    BY <2>1 DEF Fits
<1>9. \A t \in Threads \ {currp} : vt'[t] = vt[t] /\ (vt[t] = "firing" => isr')
  BY <1>5 DEF KernelHolds, Fits
<1>10. KernelHolds'
  BY <1>6, <1>7, <1>8, <1>9, KernelFrame
<1>11. Once
  BY <1>2, <1>6, OnceFrame
<1> QED
  BY <1>1, <1>2, <1>3, <1>5, <1>6, <1>10, <1>11

\* The context of a step that a thread or a handler takes.
Context ==
  \/ ~isr /\ isr' = isr
  \/ isr' = TRUE /\ currp' = currp /\ ~slept[currp]

LEMMA WakeFrame ==
  ASSUME KernelHolds, Context, UNCHANGED <<prio, vt, slept>>,
         NEW W \in SUBSET Threads, \A t \in W : state[t] \in Asleep, NEW m \in Msgs,
         pu' \in [Threads -> Msgs \cup Refs \cup Servers],
         \A t \in Threads : pu'[t] = IF t \in W THEN m ELSE pu[t],
         OneCurrent(state', currp'),
         \A x \in Threads : Still(ReadyI(state, W)[x], state'[x])
  PROVE  KernelHolds' /\ Others(W) /\ Once /\ \A t \in W : state'[t] \in Awake
<1>1. \A x \in Threads : ReadyI(state, W)[x] = IF x \in W THEN "READY" ELSE state[x]
  BY ReadyIs DEF KernelHolds, OneCurrent
<1>2. \A t \in W : state'[t] \in Awake
  BY <1>1 DEF Still, Awake
<1>3. Others(W)
  BY <1>1 DEF Others
<1>4. /\ slept' \in [Threads -> BOOLEAN] /\ vt' \in [Threads -> {"off", "armed", "firing"}]
      /\ isr' \in BOOLEAN /\ (isr' => ~slept'[currp']) /\ (isr => isr')
  <2>1. slept' = slept /\ vt' = vt
    OBVIOUS
  <2>2. CASE ~isr /\ isr' = isr
    BY <2>1, <2>2 DEF KernelHolds
  <2>3. CASE isr' = TRUE /\ currp' = currp /\ ~slept[currp]
    BY <2>1, <2>3 DEF KernelHolds
  <2> QED
    BY <2>2, <2>3 DEF Context
<1>5. KernelTypes
  BY <1>4 DEF KernelTypes
<1>6. ASSUME NEW t \in Threads, t \in W PROVE Fits(t)'
  <2>1. UnionOf(state'[t]) = Msgs /\ state'[t] \notin Asleep
    BY <1>2, <1>6 DEF UnionOf, Awake, Asleep
  <2>2. pu'[t] = m /\ slept[t] /\ state'[t] \notin Untimed
    BY <1>6, <2>1, Caller DEF Untimed, Asleep
  <2>3. vt[t] = "firing" => isr
    BY DEF KernelHolds, Fits
  <2> QED
    BY <1>4, <2>1, <2>2, <2>3 DEF Fits
<1>7. \A t \in Threads : vt'[t] = vt[t] /\ (vt[t] = "firing" => isr')
  BY <1>4 DEF KernelHolds, Fits
<1>8. KernelHolds'
  BY <1>3, <1>5, <1>6, <1>7, KernelFrame
<1>9. Once
  <2>1. \A t \in W : state[t] \notin Awake
    BY DEF Awake, Asleep
  <2> QED
    BY <1>3, <2>1, OnceFrame
<1> QED
  BY <1>2, <1>3, <1>8, <1>9

\* The three ways to ready them: with and without a switch, from a handler.
LEMMA WakeByWakeup ==
  ASSUME KernelHolds, Running, NEW t \in Threads, state[t] \in Asleep, WakeupS(state, prio, t), isr' = isr
  PROVE  /\ Context /\ OneCurrent(state', currp')
         /\ \A x \in Threads : Still(ReadyI(state, {t})[x], state'[x])
  BY WakeupIs DEF Context, Running, KernelHolds

LEMMA WakeByReschedule ==
  ASSUME KernelHolds, Running, NEW W \in SUBSET Threads, \A t \in W : state[t] \in Asleep,
         RescheduleS(ReadyI(state, W), prio), isr' = isr
  PROVE  /\ Context /\ OneCurrent(state', currp')
         /\ \A x \in Threads : Still(ReadyI(state, W)[x], state'[x])
<1>1. OneCurrent(ReadyI(state, W), currp)
  BY ReadyKeeps DEF KernelHolds
<1> QED
  BY <1>1, RescheduleIs DEF Context, Running

LEMMA WakeByHandler ==
  ASSUME KernelHolds, Interruptible, NEW W \in SUBSET Threads, \A t \in W : state[t] \in Asleep,
         state' = ReadyI(state, W), currp' = currp, isr' = TRUE
  PROVE  /\ Context /\ OneCurrent(state', currp')
         /\ \A x \in Threads : Still(ReadyI(state, W)[x], state'[x])
<1>1. OneCurrent(ReadyI(state, W), currp)
  BY ReadyKeeps DEF KernelHolds
<1>2. ~slept[currp]
  BY DEF Interruptible, KernelHolds
<1> QED
  BY <1>1, <1>2 DEF Context, Still

-----------------------------------------------------------------------------
\* References and thread queues.

EventStates == {"WTOREVT", "WTANDEVT"}

LEMMA Members ==
  /\ Servers \subseteq Threads /\ Waiters \subseteq Threads /\ None \notin Threads
  /\ Results \subseteq Msgs /\ Answers \subseteq Msgs /\ MSG_OK \in Msgs /\ MSG_TIMEOUT \in Msgs
  BY SyncAssumption, MsgAssumption, EventsAssumption DEF Users, Msgs

LEMMA RestKept ==
  ASSUME PartsHold, UNCHANGED <<msgobjs, evtobjs>>, NEW W, Others(W),
         \A t \in Threads : t \in W =>
           /\ ~slept[t] \/ state[t] \in Asleep
           /\ state[t] \notin Untimed \cup EventStates
           /\ state'[t] \notin Untimed \cup EventStates
  PROVE  MsgsHold' /\ EventsHold'
<1>1. ASSUME NEW t \in Threads, t \in W
      PROVE  t \notin receiving /\ (t \in Waiters => waits[t] = None)
  BY <1>1, Uninvolved DEF PartsHold, Untimed, EventStates
<1>2. MsgsHold'
  BY <1>1, MsgsFrame, Members DEF PartsHold
<1>3. EventsHold'
  BY <1>1, EventsFrame, Members DEF PartsHold, EventStates
<1> QED
  BY <1>2, <1>3

\* The states a thread sleeps in here.
SyncStates == {"SLEEPING", "SUSPENDED", "QUEUED"}

LEMMA SyncStatesAre ==
  /\ SyncStates \subseteq Asleep
  /\ \A d \in SyncStates \cup Awake : d \notin Untimed \cup EventStates
  /\ \A d \in Awake : d \notin Asleep
  /\ "CURRENT" \in Awake /\ "READY" \in Awake
  BY DEF SyncStates, Asleep, Awake, Untimed, EventStates

LEMMA SuspendKeeps ==
  ASSUME PartsHold, NEW r \in Refs, NEW time \in Times, Suspend(r, time),
         UNCHANGED <<msgobjs, evtobjs>>
  PROVE  PartsHold' /\ Once
<1>1. /\ Running /\ ref[r] = None /\ ref' = [ref EXCEPT ![r] = currp]
      /\ pu' = [pu EXCEPT ![currp] = r]
      /\ GoSleepTimeoutS(state, prio, "SUSPENDED", time)
      /\ UNCHANGED <<prio, isr>> /\ tqueue' = tqueue
  BY DEF Suspend
<1>2. /\ pu' \in [Threads -> Msgs \cup Refs \cup Servers]
      /\ pu'[currp] = r /\ \A t \in Threads \ {currp} : pu'[t] = pu[t]
  BY <1>1, Caller DEF KernelHolds, PartsHold
<1>3. "SUSPENDED" \in Asleep /\ "SUSPENDED" \notin Untimed /\ UnionOf("SUSPENDED") = Refs
  BY DEF Asleep, Untimed, UnionOf
<1>4. /\ KernelHolds' /\ Others({currp}) /\ Once
      /\ currp \in Threads /\ state[currp] = "CURRENT" /\ ~slept[currp]
      /\ state'[currp] = "SUSPENDED"
  BY <1>1, <1>2, <1>3, SleepFrame DEF PartsHold
<1>5. MsgsHold' /\ EventsHold'
  BY <1>4, RestKept, SyncStatesAre DEF SyncStates
<1>6. TQueuesHold'
  BY <1>1, <1>4, TQueuesFrame DEF PartsHold
<1>7. RefsHold'
  <2>1. ref' \in [Refs -> Threads \cup {None}] /\ \A x \in Refs : ref'[x] = IF x = r THEN currp ELSE ref[x]
    BY <1>1, <1>4 DEF PartsHold, RefsHold
  <2>2. ASSUME NEW x \in Refs, NEW t \in Threads
        PROVE  ref'[x] = t <=> (state'[t] = "SUSPENDED" /\ pu'[t] = x)
    <3>1. CASE t = currp
      <4>1. ref[x] # t
        BY <1>4, <3>1 DEF PartsHold, RefsHold
      <4> QED
        BY <1>2, <1>4, <2>1, <3>1, <4>1
    <3>2. CASE t # currp
      <4>1. /\ state'[t] = "SUSPENDED" <=> state[t] = "SUSPENDED"
            /\ pu'[t] = pu[t]
        BY <1>3, <1>4, <3>2, StillSame DEF Others
      <4>2. ref[x] = t <=> (state[t] = "SUSPENDED" /\ pu[t] = x)
        BY DEF PartsHold, RefsHold
      <4> QED
        BY <1>1, <2>1, <3>2, <4>1, <4>2, Members
    <3> QED
      BY <3>1, <3>2
  <2> QED
    BY <2>1, <2>2 DEF RefsHold
<1> QED
  BY <1>4, <1>5, <1>6, <1>7 DEF PartsHold

\* A suspended thread is readied and its reference cleared, whoever does it.
LEMMA ReleaseRefs ==
  ASSUME RefsHold, NEW t \in Threads, state[t] = "SUSPENDED", NEW r \in Refs, pu[t] = r,
         ref' = [ref EXCEPT ![r] = None], Others({t}), state'[t] \in Awake
  PROVE  RefsHold'
<1>1. ref' \in [Refs -> Threads \cup {None}] /\ \A x \in Refs : ref'[x] = IF x = r THEN None ELSE ref[x]
  BY DEF RefsHold
<1>2. ref[r] = t
  BY DEF RefsHold
<1>3. ASSUME NEW x \in Refs, NEW w \in Threads
      PROVE  ref'[x] = w <=> (state'[w] = "SUSPENDED" /\ pu'[w] = x)
  <2>1. ref[x] = w <=> (state[w] = "SUSPENDED" /\ pu[w] = x)
    BY DEF RefsHold
  <2>2. CASE w = t
    BY <1>1, <2>1, <2>2, Members DEF Awake
  <2>3. CASE w # t
    <3>1. (state'[w] = "SUSPENDED" <=> state[w] = "SUSPENDED") /\ pu'[w] = pu[w]
      BY <2>3, StillSame DEF Others, Asleep
    <3> QED
      BY <1>1, <1>2, <2>1, <2>3, <3>1, Members
  <2> QED
    BY <2>2, <2>3
<1> QED
  BY <1>1, <1>3 DEF RefsHold

LEMMA ResumeKeeps ==
  ASSUME PartsHold, NEW r \in Refs, NEW m \in Results, ref[r] # None, Release(r, m),
         UNCHANGED <<prio, vt, slept, tqueue>>, UNCHANGED <<msgobjs, evtobjs>>,
         \/ Running /\ WakeupS(state, prio, ref[r]) /\ isr' = isr
         \/ Interruptible /\ state' = ReadyI(state, {ref[r]}) /\ currp' = currp /\ isr' = TRUE
  PROVE  PartsHold' /\ Once
<1>1. PICK t \in Threads : t = ref[r]
  BY DEF PartsHold, RefsHold
<1>2. state[t] = "SUSPENDED" /\ pu[t] = r /\ state[t] \in Asleep
  BY <1>1 DEF PartsHold, RefsHold, Asleep
<1>3. pu' = [pu EXCEPT ![t] = m] /\ ref' = [ref EXCEPT ![r] = None] /\ m \in Msgs
  BY <1>1, Members DEF Release
<1>4. /\ pu' \in [Threads -> Msgs \cup Refs \cup Servers]
      /\ \A w \in Threads : pu'[w] = IF w \in {t} THEN m ELSE pu[w]
  BY <1>3 DEF PartsHold, KernelHolds
<1>5. /\ Context /\ OneCurrent(state', currp')
      /\ \A x \in Threads : Still(ReadyI(state, {t})[x], state'[x])
  <2>1. CASE Running /\ WakeupS(state, prio, t) /\ isr' = isr
    BY <1>2, <2>1, WakeByWakeup DEF PartsHold
  <2>2. CASE Interruptible /\ state' = ReadyI(state, {t}) /\ currp' = currp /\ isr' = TRUE
    BY <1>2, <2>2, WakeByHandler DEF PartsHold
  <2> QED
    BY <1>1, <2>1, <2>2
<1>6. KernelHolds' /\ Others({t}) /\ Once /\ state'[t] \in Awake
  BY <1>2, <1>3, <1>4, <1>5, WakeFrame DEF PartsHold
<1>7. state[t] \in SyncStates /\ state'[t] # "QUEUED"
  BY <1>2, <1>6 DEF SyncStates, Awake
<1>8. MsgsHold' /\ EventsHold'
  BY <1>2, <1>6, <1>7, RestKept, SyncStatesAre
<1>9. TQueuesHold'
  BY <1>2, <1>6, <1>7, TQueuesFrame DEF PartsHold
<1>10. RefsHold'
  BY <1>2, <1>3, <1>6, ReleaseRefs DEF PartsHold
<1> QED
  BY <1>6, <1>8, <1>9, <1>10 DEF PartsHold

\* t, which no queue holds, is put at the end of one.
LEMMA EnqueueTQueue ==
  ASSUME TQueuesHold, NEW q \in TQueues, NEW t \in Threads, state[t] # "QUEUED",
         tqueue' = [tqueue EXCEPT ![q] = Append(@, t)], Others({t}), state'[t] = "QUEUED"
  PROVE  TQueuesHold'
<1> DEFINE r == Append(tqueue[q], t)
<1>1. tqueue \in [TQueues -> Seq(Threads)] /\ tqueue[q] \in Seq(Threads)
      /\ IsInjective(tqueue[q]) /\ \A x \in TQueues : t \notin ToSet(tqueue[x])
  BY DEF TQueuesHold
<1>2. r \in Seq(Threads) /\ IsInjective(r) /\ ToSet(r) = ToSet(tqueue[q]) \cup {t}
  BY <1>1, AppendNew
<1>3. tqueue' = [tqueue EXCEPT ![q] = r]
  OBVIOUS
<1> HIDE DEF r
<1>4. tqueue' \in [TQueues -> Seq(Threads)]
      /\ \A x \in TQueues : tqueue'[x] = IF x = q THEN r ELSE tqueue[x]
  BY <1>1, <1>2, <1>3
<1>5. \A x \in TQueues, w \in Threads :
        w \in ToSet(tqueue'[x]) <=> w \in ToSet(tqueue[x]) \/ (x = q /\ w = t)
  BY <1>2, <1>4
<1>6. \A w \in Threads : w # t => (state'[w] = "QUEUED" <=> state[w] = "QUEUED")
  BY StillSame DEF Others, Asleep
<1>7. \A x \in TQueues : IsInjective(tqueue'[x])
  BY <1>2, <1>4 DEF TQueuesHold
<1>8. ASSUME NEW w \in Threads
      PROVE  /\ state'[w] = "QUEUED" => \E x \in TQueues : w \in ToSet(tqueue'[x])
             /\ \A x \in TQueues : w \in ToSet(tqueue'[x]) => state'[w] = "QUEUED"
             /\ \A x, y \in TQueues : w \in ToSet(tqueue'[x]) /\ w \in ToSet(tqueue'[y]) => x = y
  <2>1. CASE w = t
    BY <1>1, <1>5, <2>1
  <2>2. CASE w # t
    BY <1>5, <1>6, <2>2 DEF TQueuesHold
  <2> QED
    BY <2>1, <2>2
<1> QED
  BY <1>4, <1>7, <1>8 DEF TQueuesHold

\* The threads of W leave the queues they are in, and sleep no more.
LEMMA LeaveTQueues ==
  ASSUME TQueuesHold, NEW W \in SUBSET Threads, Others(W), \A t \in W : state'[t] # "QUEUED",
         tqueue' \in [TQueues -> Seq(Threads)],
         \A q \in TQueues : IsInjective(tqueue'[q]) /\ ToSet(tqueue'[q]) = ToSet(tqueue[q]) \ W
  PROVE  TQueuesHold'
<1>1. \A w \in Threads : w \notin W => (state'[w] = "QUEUED" <=> state[w] = "QUEUED")
  BY StillSame DEF Others, Asleep
<1>2. ASSUME NEW w \in Threads
      PROVE  /\ state'[w] = "QUEUED" => \E x \in TQueues : w \in ToSet(tqueue'[x])
             /\ \A x \in TQueues : w \in ToSet(tqueue'[x]) => state'[w] = "QUEUED"
             /\ \A x, y \in TQueues : w \in ToSet(tqueue'[x]) /\ w \in ToSet(tqueue'[y]) => x = y
  BY <1>1 DEF TQueuesHold
<1> QED
  BY <1>2 DEF TQueuesHold

LEMMA EnqueueKeeps ==
  ASSUME PartsHold, NEW q \in TQueues, NEW time \in Times, Enqueue(q, time),
         UNCHANGED <<msgobjs, evtobjs>>
  PROVE  PartsHold' /\ Once
<1>1. /\ Running /\ tqueue' = [tqueue EXCEPT ![q] = Append(@, currp)]
      /\ GoSleepTimeoutS(state, prio, "QUEUED", time)
      /\ UNCHANGED <<prio, isr>> /\ pu' = pu /\ ref' = ref
  BY DEF Enqueue
<1>2. "QUEUED" \in Asleep /\ "QUEUED" \notin Untimed /\ UnionOf("QUEUED") = Msgs /\ UnionOf("CURRENT") = Msgs
  BY DEF Asleep, Untimed, UnionOf
<1>3. /\ pu' \in [Threads -> Msgs \cup Refs \cup Servers]
      /\ pu'[currp] \in Msgs /\ \A t \in Threads \ {currp} : pu'[t] = pu[t]
  BY <1>1, <1>2, Caller DEF KernelHolds, PartsHold, Fits
<1>4. /\ KernelHolds' /\ Others({currp}) /\ Once
      /\ currp \in Threads /\ state[currp] = "CURRENT" /\ ~slept[currp]
      /\ state'[currp] = "QUEUED"
  BY <1>1, <1>2, <1>3, SleepFrame DEF PartsHold
<1>5. MsgsHold' /\ EventsHold'
  BY <1>4, RestKept, SyncStatesAre DEF SyncStates
<1>6. RefsHold'
  BY <1>1, <1>4, RefsFrame DEF PartsHold
<1>7. TQueuesHold'
  BY <1>1, <1>4, EnqueueTQueue DEF PartsHold
<1> QED
  BY <1>4, <1>5, <1>6, <1>7 DEF PartsHold

LEMMA SleepKeeps ==
  ASSUME PartsHold, Sleep, UNCHANGED <<msgobjs, evtobjs>>
  PROVE  PartsHold' /\ Once
<1>1. /\ Running /\ GoSleepTimeoutS(state, prio, "SLEEPING", "FINITE")
      /\ UNCHANGED <<prio, isr>> /\ pu' = pu /\ ref' = ref /\ tqueue' = tqueue
  BY DEF Sleep, objs
<1>2. "SLEEPING" \in Asleep /\ "SLEEPING" \notin Untimed /\ UnionOf("SLEEPING") = Msgs /\ UnionOf("CURRENT") = Msgs
  BY DEF Asleep, Untimed, UnionOf
<1>3. /\ pu' \in [Threads -> Msgs \cup Refs \cup Servers]
      /\ pu'[currp] \in Msgs /\ \A t \in Threads \ {currp} : pu'[t] = pu[t]
  BY <1>1, <1>2, Caller DEF KernelHolds, PartsHold, Fits
<1>4. /\ KernelHolds' /\ Others({currp}) /\ Once
      /\ currp \in Threads /\ state[currp] = "CURRENT" /\ ~slept[currp]
      /\ state'[currp] = "SLEEPING"
  BY <1>1, <1>2, <1>3, SleepFrame DEF PartsHold
<1>5. MsgsHold' /\ EventsHold'
  BY <1>4, RestKept, SyncStatesAre DEF SyncStates
<1>6. RefsHold' /\ TQueuesHold'
  BY <1>1, <1>4, RefsFrame, TQueuesFrame DEF PartsHold
<1> QED
  BY <1>4, <1>5, <1>6 DEF PartsHold

\* The first n threads of a queue.
LEMMA FirstIs ==
  ASSUME PartsHold, NEW q \in TQueues, NEW n \in {1, Len(tqueue[q])}, tqueue[q] # <<>>
  PROVE  LET r == SubSeq(tqueue[q], n + 1, Len(tqueue[q])) IN
         /\ r \in Seq(Threads) /\ IsInjective(r) /\ ToSet(r) = ToSet(tqueue[q]) \ First(q, n)
         /\ First(q, n) \in SUBSET Threads
         /\ \A t \in First(q, n) : state[t] = "QUEUED" /\ t \in ToSet(tqueue[q])
<1> DEFINE s == tqueue[q]
           r == SubSeq(s, n + 1, Len(s))
<1>1. s \in Seq(Threads) /\ IsInjective(s) /\ s # <<>>
  BY DEF PartsHold, TQueuesHold
<1>2. \A t \in Threads : t \in ToSet(s) => state[t] = "QUEUED"
  BY DEF PartsHold, TQueuesHold
<1> HIDE DEF s
<1>3. n \in {1, Len(s)}
  BY DEF s
<1>4. Len(s) \in Nat /\ Len(s) >= 1 /\ n \in 1..Len(s) /\ n \in 0..Len(s)
  BY <1>1, <1>3
<1>5. First(q, n) = ToSet(SubSeq(s, 1, n))
  BY DEF First, s
<1>6. Len(SubSeq(s, 1, n)) = n /\ \A i \in 1..n : SubSeq(s, 1, n)[i] = s[i]
  BY <1>1, <1>4
<1>7. SubSeq(s, 1, n) \in Seq(Threads)
  BY <1>1, <1>4
<1>8. DOMAIN SubSeq(s, 1, n) = 1..n
  BY <1>6, <1>7
<1>9. First(q, n) = {s[i] : i \in 1..n}
  BY <1>5, <1>6, <1>8 DEF ToSet
<1>10. First(q, n) \subseteq ToSet(s) /\ ToSet(s) \subseteq Threads
  BY <1>1, <1>4, <1>9 DEF ToSet
<1>11. r \in Seq(Threads) /\ IsInjective(r) /\ ToSet(r) = ToSet(s) \ {s[i] : i \in 1..n}
  BY <1>1, <1>4, DropFirst
<1> QED
  BY <1>2, <1>9, <1>10, <1>11 DEF s

LEMMA DequeueKeeps ==
  ASSUME PartsHold, NEW q \in TQueues, NEW n \in {1, Len(tqueue[q])}, NEW m \in Results,
         tqueue[q] # <<>>, DequeueI(q, n, m),
         UNCHANGED <<prio, vt, slept, ref>>, UNCHANGED <<msgobjs, evtobjs>>,
         \/ Running /\ RescheduleS(ReadyI(state, First(q, n)), prio) /\ isr' = isr
         \/ Interruptible /\ state' = ReadyI(state, First(q, n)) /\ currp' = currp /\ isr' = TRUE
  PROVE  PartsHold' /\ Once
<1>1. PICK W \in SUBSET Threads : W = First(q, n)
  BY FirstIs
<1>2. PICK r \in Seq(Threads) : r = SubSeq(tqueue[q], n + 1, Len(tqueue[q]))
  BY FirstIs
<1>3. /\ IsInjective(r) /\ ToSet(r) = ToSet(tqueue[q]) \ W
      /\ \A t \in W : state[t] = "QUEUED" /\ t \in ToSet(tqueue[q])
  BY <1>1, <1>2, FirstIs
<1>4. tqueue' = [tqueue EXCEPT ![q] = r] /\ pu' = Deliver(pu, W, m) /\ m \in Msgs
  BY <1>1, <1>2, Members DEF DequeueI
<1>5. \A t \in W : state[t] \in Asleep
  BY <1>3 DEF Asleep
<1>6. /\ pu' \in [Threads -> Msgs \cup Refs \cup Servers]
      /\ \A w \in Threads : pu'[w] = IF w \in W THEN m ELSE pu[w]
  BY <1>4 DEF PartsHold, KernelHolds, Deliver
<1>7. /\ Context /\ OneCurrent(state', currp')
      /\ \A x \in Threads : Still(ReadyI(state, W)[x], state'[x])
  <2>1. CASE Running /\ RescheduleS(ReadyI(state, W), prio) /\ isr' = isr
    BY <1>5, <2>1, WakeByReschedule DEF PartsHold
  <2>2. CASE Interruptible /\ state' = ReadyI(state, W) /\ currp' = currp /\ isr' = TRUE
    BY <1>5, <2>2, WakeByHandler DEF PartsHold
  <2> QED
    BY <1>1, <2>1, <2>2
<1>8. KernelHolds' /\ Others(W) /\ Once /\ \A t \in W : state'[t] \in Awake
  BY <1>4, <1>5, <1>6, <1>7, WakeFrame DEF PartsHold
<1>9. \A t \in W : state[t] \in SyncStates /\ state'[t] \notin {"QUEUED", "SUSPENDED"}
  BY <1>3, <1>8 DEF SyncStates, Awake
<1>10. MsgsHold' /\ EventsHold'
  BY <1>5, <1>8, <1>9, RestKept, SyncStatesAre
<1>11. RefsHold'
  BY <1>3, <1>8, <1>9, RefsFrame DEF PartsHold
<1>12. TQueuesHold'
  <2>1. /\ tqueue \in [TQueues -> Seq(Threads)]
        /\ \A x \in TQueues : IsInjective(tqueue[x])
        /\ \A t \in W, x \in TQueues : t \in ToSet(tqueue[x]) => x = q
    BY <1>3 DEF PartsHold, TQueuesHold
  <2>2. /\ tqueue' \in [TQueues -> Seq(Threads)]
        /\ \A x \in TQueues : tqueue'[x] = IF x = q THEN r ELSE tqueue[x]
    BY <1>4, <2>1
  <2>3. \A x \in TQueues : IsInjective(tqueue'[x]) /\ ToSet(tqueue'[x]) = ToSet(tqueue[x]) \ W
    BY <1>3, <2>1, <2>2
  <2> QED
    BY <1>8, <1>9, <2>2, <2>3, LeaveTQueues DEF PartsHold
<1> QED
  BY <1>8, <1>10, <1>11, <1>12 DEF PartsHold

\* The running thread finishes the call it slept in: its timer is off again.
LEMMA EndSleepIs ==
  ASSUME KernelHolds, Resuming, EndSleep, isr' = isr
  PROVE  /\ currp \in Threads /\ ~isr /\ ~isr' /\ slept[currp]
         /\ slept' \in [Threads -> BOOLEAN] /\ vt' \in [Threads -> {"off", "armed", "firing"}]
         /\ ~slept'[currp] /\ vt'[currp] = "off"
         /\ \A t \in Threads \ {currp} : slept'[t] = slept[t] /\ vt'[t] = vt[t]
  BY Caller DEF KernelHolds, Resuming, EndSleep

LEMMA EndSleepFrame ==
  ASSUME KernelHolds, Resuming, EndSleep, UNCHANGED <<currp, state, prio, pu, isr>>
  PROVE  KernelHolds' /\ Others({currp}) /\ Once
<1>1. /\ currp \in Threads /\ ~isr /\ ~isr' /\ slept[currp]
      /\ slept' \in [Threads -> BOOLEAN] /\ vt' \in [Threads -> {"off", "armed", "firing"}]
      /\ ~slept'[currp] /\ vt'[currp] = "off"
      /\ \A t \in Threads \ {currp} : slept'[t] = slept[t] /\ vt'[t] = vt[t]
  BY EndSleepIs
<1>2. Others({currp})
  BY <1>1 DEF Others, Still
<1>3. KernelTypes
  BY <1>1 DEF KernelTypes, KernelHolds
<1>4. ASSUME NEW t \in Threads, t \in {currp} PROVE Fits(t)'
  <2>1. t = currp /\ state[t] \notin Asleep /\ pu[t] \in UnionOf(state[t])
    BY <1>1, <1>4, Caller DEF KernelHolds, Fits
  <2>2. vt'[t] = "off"
    BY <1>1, <2>1
  <2> QED
    BY <2>1, <2>2 DEF Fits
<1>5. \A t \in Threads \ {currp} : vt'[t] = vt[t] /\ (vt[t] = "firing" => isr')
  BY <1>1 DEF KernelHolds, Fits
<1>6. KernelHolds'
  BY <1>2, <1>3, <1>4, <1>5, KernelFrame
<1> QED
  BY <1>2, <1>6 DEF Once

LEMMA ReturnKeeps ==
  ASSUME PartsHold, Return, UNCHANGED <<msgobjs, evtobjs>>
  PROVE  PartsHold' /\ Once
<1>1. /\ Resuming /\ EndSleep /\ UNCHANGED <<currp, state, prio, pu, isr>>
      /\ ref' = ref /\ tqueue' = tqueue
      /\ currp \notin receiving /\ (currp \in Waiters => waits[currp] = None)
  BY DEF Return, EndCall, objs
<1>2. KernelHolds' /\ Others({currp}) /\ Once
  BY <1>1, EndSleepFrame DEF PartsHold
<1>3. /\ currp \in Threads /\ state[currp] = "CURRENT" /\ state'[currp] = "CURRENT"
      /\ "CURRENT" \notin Untimed
  BY <1>1, Caller DEF PartsHold, Untimed
<1>4. RefsHold' /\ TQueuesHold'
  BY <1>1, <1>2, <1>3, RefsFrame, TQueuesFrame DEF PartsHold
<1>5. MsgsHold'
  BY <1>1, <1>2, <1>3, MsgsFrame, Members DEF PartsHold
<1>6. EventsHold'
  BY <1>1, <1>2, <1>3, EventsFrame, Members DEF PartsHold
<1> QED
  BY <1>2, <1>4, <1>5, <1>6 DEF PartsHold

\* Steps that are about no thread's wait.
LEMMA PartsKept ==
  ASSUME PartsHold, Others({}), UNCHANGED <<objs, msgobjs, evtobjs>>
  PROVE  RefsHold' /\ TQueuesHold' /\ MsgsHold' /\ EventsHold'
<1>1. ref' = ref /\ tqueue' = tqueue /\ UNCHANGED msgobjs /\ UNCHANGED evtobjs
  BY DEF objs
<1> QED
  BY <1>1, RefsFrame, TQueuesFrame, MsgsFrame, EventsFrame, Members DEF PartsHold

LEMMA ExpireKeeps ==
  ASSUME PartsHold, NEW t \in Threads, Expire(t), UNCHANGED <<msgobjs, evtobjs>>
  PROVE  PartsHold' /\ Once
<1>1. /\ Interruptible /\ vt[t] = "armed" /\ vt' = [vt EXCEPT ![t] = "firing"] /\ isr' = TRUE
      /\ UNCHANGED <<currp, state, prio, pu, slept>> /\ UNCHANGED objs
  BY DEF Expire, TimerExpires
<1>2. Others({})
  BY <1>1 DEF Others, Still
<1>3. KernelHolds'
  <2>1. vt' \in [Threads -> {"off", "armed", "firing"}]
        /\ \A x \in Threads : vt'[x] = IF x = t THEN "firing" ELSE vt[x]
    BY <1>1 DEF PartsHold, KernelHolds
  <2>2. ~slept[currp]
    BY <1>1 DEF PartsHold, KernelHolds, Interruptible
  <2>3. ASSUME NEW x \in Threads PROVE Fits(x)'
    <3>1. Fits(x) /\ vt'[x] = IF x = t THEN "firing" ELSE vt[x]
      BY <2>1 DEF PartsHold, KernelHolds
    <3> QED
      BY <1>1, <3>1 DEF Fits
  <2> QED
    BY <1>1, <2>1, <2>2, <2>3 DEF PartsHold, KernelHolds
<1>4. Once
  BY <1>1 DEF Once
<1> QED
  BY <1>1, <1>2, <1>3, <1>4, PartsKept DEF PartsHold

LEMMA EndIsrKeeps ==
  ASSUME PartsHold, EndIsr, UNCHANGED <<msgobjs, evtobjs>>
  PROVE  PartsHold' /\ Once
<1>1. /\ isr /\ isr' = FALSE /\ RescheduleS(state, prio) /\ UNCHANGED <<prio, pu, vt, slept>>
      /\ UNCHANGED objs /\ \A t \in Threads : vt[t] # "firing"
  BY DEF EndIsr, IsrExit
<1>2. OneCurrent(state', currp') /\ \A x \in Threads : Still(state[x], state'[x])
  BY <1>1, RescheduleIs DEF PartsHold, KernelHolds
<1>3. Others({})
  BY <1>1, <1>2 DEF Others
<1>4. KernelTypes
  BY <1>1, <1>2 DEF KernelTypes, PartsHold, KernelHolds
<1>5. KernelHolds'
  BY <1>1, <1>3, <1>4, KernelFrame DEF PartsHold
<1>6. Once
  BY <1>1 DEF Once
<1> QED
  BY <1>1, <1>3, <1>5, <1>6, PartsKept DEF PartsHold

\* A time-out of a wait for events leaves the events alone.
LEMMA EventsTimeout ==
  ASSUME EventsHold, UNCHANGED evtobjs, NEW t \in Threads, Others({t}), state[t] \in EventStates,
         state'[t] \in Awake, slept'[t] = slept[t], pu'[t] = MSG_TIMEOUT
  PROVE  EventsHold'
<1>1. UNCHANGED <<epending, waits, listening, elflags, taken>>
  BY DEF evtobjs
<1>2. ASSUME NEW w \in Waiters PROVE WaitHolds(w)'
  <2>0. WaitHolds(w) /\ w \in Threads
    BY Members DEF EventsHold
  <2>1. CASE waits[w] = None
    BY <1>1, <2>1 DEF WaitHolds
  <2>2. CASE waits[w] # None /\ w = t
    <3>1. pu'[w] # MSG_OK
      BY <2>2 DEF MSG_OK, MSG_TIMEOUT
    <3>2. slept'[w] /\ state'[w] \in Awake
      BY <2>0, <2>2 DEF WaitHolds
    <3> QED
      BY <1>1, <3>1, <3>2 DEF WaitHolds
  <2>3. CASE waits[w] # None /\ w # t
    <3>1. Still(state[w], state'[w]) /\ pu'[w] = pu[w] /\ slept'[w] = slept[w]
      BY <2>0, <2>3 DEF Others
    <3>2. /\ \A d \in Asleep : state'[w] = d <=> state[w] = d
          /\ state[w] \in Awake <=> state'[w] \in Awake
      BY <3>1, StillSame
    <3>3. "WTANDEVT" \in Asleep /\ "WTOREVT" \in Asleep
      BY DEF Asleep
    <3>4. Met(waits[w].kind, waits[w].mask, epending[w])' = Met(waits[w].kind, waits[w].mask, epending[w])
      BY <1>1 DEF Met
    <3> QED
      BY <1>1, <2>0, <2>3, <3>1, <3>2, <3>3, <3>4 DEF WaitHolds
  <2> QED
    BY <2>1, <2>2, <2>3
<1>3. ASSUME NEW w \in Threads, state'[w] \in {"WTOREVT", "WTANDEVT"}
      PROVE  w \in Waiters /\ waits'[w] # None
  <2>1. w # t
    BY <1>3 DEF Awake
  <2>2. state[w] \in {"WTOREVT", "WTANDEVT"}
    BY <1>3, <2>1, StillSame DEF Others, Asleep
  <2> QED
    BY <1>1, <2>2 DEF EventsHold
<1>4. \A l \in Listeners : Announced(l)'
  BY <1>1 DEF EventsHold, Announced
<1> QED
  BY <1>1, <1>2, <1>3, <1>4 DEF EventsHold

LEMMA WakeupLate ==
  ASSUME PartsHold, NEW t \in Threads, Wakeup(t), state[t] = "READY", UNCHANGED <<msgobjs, evtobjs>>
  PROVE  PartsHold' /\ Once
<1>1. /\ vt' = [vt EXCEPT ![t] = "off"]
      /\ UNCHANGED <<state, pu, currp, prio, slept, isr>> /\ UNCHANGED objs
  BY DEF Wakeup, TimerWakeup, objs
<1>2. Others({})
  BY <1>1 DEF Others, Still
<1>3. KernelHolds'
  <2>1. vt' \in [Threads -> {"off", "armed", "firing"}]
        /\ \A x \in Threads : vt'[x] = IF x = t THEN "off" ELSE vt[x]
    BY <1>1 DEF PartsHold, KernelHolds
  <2>2. ASSUME NEW x \in Threads PROVE Fits(x)'
    <3>1. Fits(x) /\ vt'[x] = IF x = t THEN "off" ELSE vt[x]
      BY <2>1 DEF PartsHold, KernelHolds
    <3> QED
      BY <1>1, <3>1 DEF Fits
  <2> QED
    BY <1>1, <2>1, <2>2 DEF PartsHold, KernelHolds
<1>4. Once
  BY <1>1 DEF Once
<1> QED
  BY <1>1, <1>2, <1>3, <1>4, PartsKept DEF PartsHold

\* The wait ends with its time-out, whatever it was for.
LEMMA WakeupInTime ==
  ASSUME PartsHold, NEW t \in Threads, Wakeup(t), state[t] # "READY", UNCHANGED <<msgobjs, evtobjs>>
  PROVE  PartsHold' /\ Once
<1>1. /\ vt[t] = "firing" /\ vt' = [vt EXCEPT ![t] = "off"]
      /\ state' = ReadyI(state, {t}) /\ pu' = Deliver(pu, {t}, MSG_TIMEOUT)
      /\ UNCHANGED <<currp, prio, slept, isr>>
  BY DEF Wakeup, TimerWakeup
<1>2. /\ Fits(t) /\ isr /\ ~slept[currp] /\ slept[t] /\ t # currp
      /\ state \in [Threads -> States] /\ state[t] # "CURRENT"
  BY <1>1 DEF PartsHold, KernelHolds, Fits, OneCurrent
<1>3. state[t] \in Asleep /\ state[t] \notin Untimed
  <2>1. state[t] \in Awake \cup Asleep
    BY <1>2 DEF States
  <2> QED
    BY <1>1, <1>2, <2>1 DEF Awake, Fits
<1>4. /\ OneCurrent(state', currp')
      /\ \A x \in Threads : state'[x] = IF x = t THEN "READY" ELSE state[x]
  BY <1>1, <1>3, ReadyKeeps, ReadyIs DEF PartsHold, KernelHolds, OneCurrent
<1>5. /\ pu' \in [Threads -> Msgs \cup Refs \cup Servers]
      /\ \A x \in Threads : pu'[x] = IF x = t THEN MSG_TIMEOUT ELSE pu[x]
  BY <1>1, Members DEF PartsHold, KernelHolds, Deliver
<1>6. /\ vt' \in [Threads -> {"off", "armed", "firing"}]
      /\ \A x \in Threads : vt'[x] = IF x = t THEN "off" ELSE vt[x]
  BY <1>1 DEF PartsHold, KernelHolds
<1>7. Others({t}) /\ state'[t] \in Awake /\ slept'[t] = slept[t] /\ pu'[t] = MSG_TIMEOUT
  BY <1>1, <1>4, <1>5 DEF Others, Still, Awake
<1>8. KernelHolds'
  <2>1. KernelTypes
    BY <1>1, <1>2, <1>4, <1>5, <1>6 DEF KernelTypes, PartsHold, KernelHolds
  <2>2. ASSUME NEW x \in Threads, x \in {t} PROVE Fits(x)'
    <3>1. x = t /\ vt'[x] = "off" /\ state'[x] = "READY" /\ pu'[x] \in Msgs
      BY <1>4, <1>5, <1>6, <2>2, Members
    <3>2. UnionOf("READY") = Msgs /\ "READY" \notin Asleep
      BY DEF UnionOf, Asleep
    <3> QED
      BY <3>1, <3>2 DEF Fits
  <2>3. \A x \in Threads \ {t} : vt'[x] = vt[x] /\ (vt[x] = "firing" => isr')
    BY <1>1, <1>2, <1>6
  <2> QED
    BY <1>7, <2>1, <2>2, <2>3, KernelFrame DEF PartsHold
<1>9. Once
  <2>1. state[t] \notin Awake
    BY <1>3, SyncStatesAre
  <2> QED
    BY <1>7, <2>1, OnceFrame
<1>10. RefsHold'
  <2>1. CASE state[t] = "SUSPENDED"
    <3>1. PICK r \in Refs : r = pu[t]
      BY <1>2, <2>1 DEF Fits, UnionOf
    <3>2. ref' = [ref EXCEPT ![r] = None]
      BY <2>1, <3>1 DEF Wakeup
    <3> QED
      BY <1>7, <2>1, <3>1, <3>2, ReleaseRefs DEF PartsHold
  <2>2. CASE state[t] # "SUSPENDED"
    <3>1. ref' = ref /\ state'[t] # "SUSPENDED"
      BY <1>7, <2>2 DEF Wakeup, Awake
    <3> QED
      BY <1>7, <2>2, <3>1, RefsFrame DEF PartsHold
  <2> QED
    BY <2>1, <2>2
<1>11. TQueuesHold'
  <2>1. CASE state[t] = "QUEUED"
    <3>1. tqueue' = [q \in TQueues |->
                       IF t \in ToSet(tqueue[q]) THEN Dequeue(tqueue[q], t) ELSE tqueue[q]]
      BY <2>1 DEF Wakeup
    <3>2. ASSUME NEW q \in TQueues
          PROVE  /\ tqueue'[q] \in Seq(Threads) /\ IsInjective(tqueue'[q])
                 /\ ToSet(tqueue'[q]) = ToSet(tqueue[q]) \ {t}
      <4>1. tqueue[q] \in Seq(Threads) /\ IsInjective(tqueue[q])
        BY DEF PartsHold, TQueuesHold
      <4>2. CASE t \in ToSet(tqueue[q])
        <5>1. tqueue'[q] = Dequeue(tqueue[q], t)
          BY <3>1, <4>2
        <5> QED
          BY <4>1, <4>2, <5>1, DequeueOne
      <4>3. CASE t \notin ToSet(tqueue[q])
        BY <3>1, <4>1, <4>3
      <4> QED
        BY <4>2, <4>3
    <3>3. tqueue' \in [TQueues -> Seq(Threads)]
      BY <3>1, <3>2
    <3> QED
      BY <1>4, <1>7, <3>2, <3>3, LeaveTQueues DEF PartsHold
  <2>2. CASE state[t] # "QUEUED"
    <3>1. tqueue' = tqueue /\ state'[t] # "QUEUED"
      BY <1>7, <2>2 DEF Wakeup, Awake
    <3> QED
      BY <1>7, <2>2, <3>1, TQueuesFrame DEF PartsHold
  <2> QED
    BY <2>1, <2>2
<1>12. MsgsHold'
  <2>1. t \notin receiving /\ state'[t] \notin Untimed
    BY <1>3, <1>7, Uninvolved, SyncStatesAre DEF PartsHold, Untimed
  <2> QED
    BY <1>3, <1>7, <2>1, MsgsFrame, Members DEF PartsHold
<1>13. EventsHold'
  <2>1. CASE state[t] \in EventStates
    BY <1>7, <2>1, EventsTimeout DEF PartsHold
  <2>2. CASE state[t] \notin EventStates
    <3>1. (t \in Waiters => waits[t] = None) /\ state'[t] \notin EventStates
      BY <1>3, <1>7, <2>2, Uninvolved, SyncStatesAre DEF PartsHold, EventStates
    <3> QED
      BY <1>7, <2>2, <3>1, EventsFrame, Members DEF PartsHold, EventStates
  <2> QED
    BY <2>1, <2>2
<1> QED
  BY <1>8, <1>9, <1>10, <1>11, <1>12, <1>13 DEF PartsHold

-----------------------------------------------------------------------------
\* Messages.

\* Steps of messages and events leave references and thread queues alone.
LEMMA ObjsKept ==
  ASSUME PartsHold, UNCHANGED objs, NEW W, Others(W),
         \A t \in Threads : t \in W =>
           /\ state[t] \notin {"SUSPENDED", "QUEUED"}
           /\ state'[t] \notin {"SUSPENDED", "QUEUED"}
  PROVE  RefsHold' /\ TQueuesHold'
<1>1. ref' = ref /\ tqueue' = tqueue
  BY DEF objs
<1> QED
  BY <1>1, RefsFrame, TQueuesFrame DEF PartsHold

\* A thread that the step is not about is where it was.
LEMMA SameWait ==
  ASSUME NEW W, Others(W), NEW t \in Threads, t \notin W
  PROVE  /\ \A d \in Asleep : state'[t] = d <=> state[t] = d
         /\ state[t] \in Awake <=> state'[t] \in Awake
         /\ pu'[t] = pu[t] /\ slept'[t] = slept[t]
  BY StillSame DEF Others

LEMMA MsgStatesAre ==
  /\ {"SNDMSGQ", "SNDMSG", "WTMSG"} \subseteq Asleep /\ "WTMSG" \notin Awake
  /\ "SNDMSGQ" \notin Awake /\ "SNDMSG" \notin Awake /\ "CURRENT" \in Awake
  /\ Untimed \cap {"SUSPENDED", "QUEUED", "WTOREVT", "WTANDEVT"} = {}
  /\ Awake \cap {"SUSPENDED", "QUEUED", "WTOREVT", "WTANDEVT"} = {}
  /\ \A d \in Awake : UnionOf(d) = Msgs /\ d \notin Asleep /\ d \notin Untimed
  /\ UnionOf("WTMSG") = Msgs /\ UnionOf("SNDMSG") = Servers /\ UnionOf("SNDMSGQ") = Servers
  BY DEF Asleep, Awake, Untimed, UnionOf

\* What happens to threads when one sends: it sleeps, the server is readied.
LEMMA SendFrame ==
  ASSUME PartsHold, NEW s \in Servers, MsgSend(s),
         NEW W, W = {currp} \cup {x \in {s} : state[x] = "WTMSG"}
  PROVE  /\ KernelHolds' /\ Others(W) /\ Once
         /\ currp \in Threads /\ state[currp] = "CURRENT" /\ ~slept[currp]
         /\ state'[currp] = "SNDMSGQ" /\ pu'[currp] = s
         /\ \A x \in W : x # currp =>
              state'[x] \in Awake /\ pu'[x] = pu[x] /\ slept'[x] = slept[x]
<1>1. /\ Running /\ s # currp /\ pu' = [pu EXCEPT ![currp] = s]
      /\ GoSleepTimeoutS(IF state[s] = "WTMSG" THEN ReadyI(state, {s}) ELSE state,
                         prio, "SNDMSGQ", "INFINITE")
      /\ UNCHANGED <<prio, isr>>
  BY DEF MsgSend
<1>2. /\ OneCurrent(state, currp) /\ currp \in Threads /\ state[currp] = "CURRENT"
      /\ slept \in [Threads -> BOOLEAN] /\ vt \in [Threads -> {"off", "armed", "firing"}]
      /\ isr \in BOOLEAN /\ ~isr /\ ~slept[currp] /\ s \in Threads
  BY <1>1, Caller, Members DEF PartsHold, KernelHolds, Running
<1>3. PICK S : S = IF state[s] = "WTMSG" THEN ReadyI(state, {s}) ELSE state
  OBVIOUS
<1>4. OneCurrent(S, currp) /\ \A x \in Threads : S[x] = IF x \in W /\ x # currp THEN "READY" ELSE state[x]
  <2>1. CASE state[s] = "WTMSG"
    <3>1. S = ReadyI(state, {s}) /\ state[s] \in Asleep
      BY <1>3, <2>1, MsgStatesAre
    <3>2. OneCurrent(S, currp)
      BY <1>2, <3>1, ReadyKeeps
    <3>3. \A x \in Threads : S[x] = IF x \in {s} THEN "READY" ELSE state[x]
      BY <1>2, <3>1, ReadyIs DEF OneCurrent
    <3> QED
      BY <1>1, <2>1, <3>2, <3>3
  <2>2. CASE state[s] # "WTMSG"
    BY <1>1, <1>2, <1>3, <2>2
  <2> QED
    BY <2>1, <2>2
<1>5. /\ OneCurrent(state', currp') /\ state'[currp] = "SNDMSGQ"
      /\ \A x \in Threads \ {currp} : Still(S[x], state'[x])
  <2>1. GoSleepTimeoutS(S, prio, "SNDMSGQ", "INFINITE") /\ "SNDMSGQ" \in Asleep
    BY <1>1, <1>3, MsgStatesAre
  <2> QED
    BY <1>4, <2>1, SleepIs
<1>6. /\ slept' = [slept EXCEPT ![currp] = TRUE] /\ vt' = [vt EXCEPT ![currp] = "off"]
  BY <1>1 DEF GoSleepTimeoutS
<1>7. /\ slept' \in [Threads -> BOOLEAN] /\ vt' \in [Threads -> {"off", "armed", "firing"}]
      /\ slept'[currp] /\ vt'[currp] = "off"
      /\ \A t \in Threads \ {currp} : slept'[t] = slept[t] /\ vt'[t] = vt[t]
      /\ pu' \in [Threads -> Msgs \cup Refs \cup Servers]
      /\ pu'[currp] = s /\ \A t \in Threads \ {currp} : pu'[t] = pu[t]
  BY <1>1, <1>2, <1>6 DEF PartsHold, KernelHolds
<1>8. Others(W)
  BY <1>4, <1>5, <1>7 DEF Others
<1>9. KernelTypes
  BY <1>1, <1>2, <1>5, <1>7 DEF KernelTypes
<1>10. \A x \in W : x # currp =>
          x = s /\ state[x] = "WTMSG" /\ state'[x] \in Awake /\ pu'[x] = pu[x] /\ slept'[x] = slept[x]
  BY <1>1, <1>2, <1>4, <1>5, <1>7 DEF Still, Awake
<1>11. ASSUME NEW t \in Threads, t \in W PROVE Fits(t)'
  <2>1. CASE t = currp
    <3>1. state'[t] = "SNDMSGQ" /\ pu'[t] \in Servers /\ slept'[t] /\ vt'[t] = "off"
      BY <1>5, <1>7, <2>1
    <3> QED
      BY <3>1, MsgStatesAre DEF Fits
  <2>2. CASE t # currp
    <3>1. state[t] = "WTMSG" /\ state'[t] \in Awake /\ pu'[t] = pu[t] /\ vt'[t] = vt[t] /\ Fits(t)
      BY <1>7, <1>10, <1>11, <2>2 DEF PartsHold, KernelHolds
    <3>2. vt[t] = "off" /\ pu[t] \in Msgs
      BY <3>1, MsgStatesAre DEF Fits, Untimed
    <3> QED
      BY <3>1, <3>2, MsgStatesAre DEF Fits
  <2> QED
    BY <2>1, <2>2
<1>12. \A t \in Threads \ W : vt'[t] = vt[t] /\ (vt[t] = "firing" => isr')
  <2>1. \A t \in Threads : vt[t] # "firing"
    BY <1>2 DEF PartsHold, KernelHolds, Fits
  <2> QED
    BY <1>7, <2>1
<1>13. KernelHolds'
  BY <1>8, <1>9, <1>11, <1>12, KernelFrame DEF PartsHold
<1>14. Once
  BY <1>2, <1>8, <1>10, OnceFrame, MsgStatesAre
<1> QED
  BY <1>2, <1>5, <1>7, <1>8, <1>10, <1>13, <1>14

LEMMA MsgSendKeeps ==
  ASSUME PartsHold, NEW s \in Servers, MsgSend(s), UNCHANGED <<objs, evtobjs>>
  PROVE  PartsHold' /\ Once
<1>1. PICK W : W = {currp} \cup {x \in {s} : state[x] = "WTMSG"}
  OBVIOUS
<1>2. /\ KernelHolds' /\ Others(W) /\ Once
      /\ currp \in Threads /\ state[currp] = "CURRENT" /\ ~slept[currp]
      /\ state'[currp] = "SNDMSGQ" /\ pu'[currp] = s
      /\ \A x \in W : x # currp =>
           state'[x] \in Awake /\ pu'[x] = pu[x] /\ slept'[x] = slept[x]
  BY <1>1, SendFrame
<1>3. /\ s # currp /\ msgqueue' = [msgqueue EXCEPT ![s] = Append(@, currp)]
      /\ receiving' = receiving /\ held' = held /\ s \in Threads
  BY Members DEF MsgSend
<1>4. \A t \in W : (t = currp \/ (t = s /\ state[t] = "WTMSG")) /\ (~slept[t] \/ state[t] \in Asleep)
  BY <1>1, <1>2, MsgStatesAre
<1>5. RefsHold' /\ TQueuesHold'
  BY <1>2, <1>4, ObjsKept, MsgStatesAre DEF Untimed
<1>6. EventsHold'
  <2>1. \A t \in Threads : t \in W => (t \in Waiters => waits[t] = None)
    BY <1>2, <1>4, Uninvolved DEF PartsHold
  <2>2. \A t \in W : state[t] \notin {"WTOREVT", "WTANDEVT"} /\ state'[t] \notin {"WTOREVT", "WTANDEVT"}
    BY <1>2, <1>4, MsgStatesAre
  <2> QED
    BY <1>2, <2>1, <2>2, EventsFrame, Members DEF PartsHold
<1>7. PICK r \in Seq(Threads) : r = Append(msgqueue[s], currp)
  <2>1. msgqueue[s] \in Seq(Threads)
    BY DEF PartsHold, MsgsHold
  <2>2. Append(msgqueue[s], currp) \in Seq(Threads)
    BY <1>2, <2>1
  <2> QED
    BY <2>2
<1>8. IsInjective(r) /\ ToSet(r) = ToSet(msgqueue[s]) \cup {currp} /\ r # <<>>
  <2>1. msgqueue[s] \in Seq(Threads) /\ IsInjective(msgqueue[s]) /\ currp \notin ToSet(msgqueue[s])
    BY <1>2 DEF PartsHold, MsgsHold, Inbox
  <2>2. Len(r) = Len(msgqueue[s]) + 1 /\ Len(msgqueue[s]) \in Nat
    BY <1>2, <1>7, <2>1
  <2>3. r # <<>>
    BY <2>2
  <2> QED
    BY <1>2, <1>7, <2>1, <2>3, AppendNew
<1>9. /\ msgqueue' \in [Servers -> Seq(Threads)]
      /\ \A x \in Servers : msgqueue'[x] = IF x = s THEN r ELSE msgqueue[x]
  BY <1>3, <1>7 DEF PartsHold, MsgsHold
<1>10. ASSUME NEW t \in Threads, t # currp
       PROVE  /\ \A d \in {"SNDMSGQ", "SNDMSG"} : state'[t] = d <=> state[t] = d
              /\ state'[t] = "WTMSG" => state[t] = "WTMSG" /\ t # s
              /\ state[t] = "WTMSG" => t = s \/ state'[t] = "WTMSG"
              /\ state[t] \in Awake \cup {"WTMSG"} => state'[t] \in Awake \cup {"WTMSG"}
              /\ pu'[t] = pu[t] /\ slept'[t] = slept[t]
  <2>1. CASE t \in W
    BY <1>2, <1>4, <1>10, <2>1, MsgStatesAre
  <2>2. CASE t \notin W
    BY <1>1, <1>2, <2>2, SameWait, MsgStatesAre
  <2> QED
    BY <2>1, <2>2
<1>11. ASSUME NEW x \in Servers PROVE Inbox(x)'
  <2>1. Inbox(x) /\ x \in Threads
    BY Members DEF PartsHold, MsgsHold
  <2>2. IsInjective(msgqueue'[x])
    BY <1>8, <1>9, <2>1 DEF Inbox
  <2>3. ASSUME NEW t \in Threads
        PROVE  /\ t \in ToSet(msgqueue'[x]) <=> (state'[t] = "SNDMSGQ" /\ pu'[t] = x)
               /\ t \in held'[x] <=> (state'[t] = "SNDMSG" /\ pu'[t] = x)
    <3>1. /\ t \in ToSet(msgqueue[x]) <=> (state[t] = "SNDMSGQ" /\ pu[t] = x)
          /\ t \in held[x] <=> (state[t] = "SNDMSG" /\ pu[t] = x)
      BY <2>1 DEF Inbox
    <3>2. t \in ToSet(msgqueue'[x]) <=> t \in ToSet(msgqueue[x]) \/ (x = s /\ t = currp)
      BY <1>8, <1>9
    <3>3. CASE t = currp
      BY <1>2, <1>3, <3>1, <3>2, <3>3
    <3>4. CASE t # currp
      BY <1>3, <1>10, <3>1, <3>2, <3>4
    <3> QED
      BY <3>3, <3>4
  <2>4. state'[x] = "WTMSG" => msgqueue'[x] = <<>>
    BY <1>2, <1>9, <1>10, <2>1 DEF Inbox
  <2>5. x \in receiving => x # currp
    BY <1>2, <2>1 DEF Inbox
  <2>6. x \in receiving' => slept'[x] /\ state'[x] \in Awake \cup {"WTMSG"}
    BY <1>3, <1>10, <2>1, <2>5 DEF Inbox
  <2>7. x \in receiving' /\ state'[x] # "WTMSG" => msgqueue'[x] # <<>>
    BY <1>3, <1>8, <1>9, <1>10, <2>1, <2>5 DEF Inbox
  <2> QED
    BY <2>2, <2>3, <2>4, <2>6, <2>7 DEF Inbox
<1>12. \A t \in Threads : state'[t] = "WTMSG" => t \in receiving'
  BY <1>2, <1>3, <1>10 DEF PartsHold, MsgsHold
<1>13. MsgsHold'
  BY <1>3, <1>9, <1>11, <1>12 DEF PartsHold, MsgsHold
<1> QED
  BY <1>2, <1>5, <1>6, <1>13 DEF PartsHold

\* A server takes the first sender of its queue.
LEMMA ReceiveIs ==
  ASSUME KernelHolds, MsgsHold, NEW s \in Servers, msgqueue[s] # <<>>, Receive(s)
  PROVE  \E h \in Threads :
           /\ h = Head(msgqueue[s]) /\ state[h] = "SNDMSGQ" /\ pu[h] = s /\ h # currp
           /\ OneCurrent(state', currp)
           /\ \A t \in Threads : state'[t] = IF t = h THEN "SNDMSG" ELSE state[t]
           /\ msgqueue' \in [Servers -> Seq(Threads)] /\ held' \in [Servers -> SUBSET Threads]
           /\ \A x \in Servers : IsInjective(msgqueue'[x])
           /\ \A x \in Servers, t \in Threads :
                /\ t \in ToSet(msgqueue'[x]) <=> t \in ToSet(msgqueue[x]) /\ t # h
                /\ t \in held'[x] <=> t \in held[x] \/ (t = h /\ x = s)
           /\ \A x \in Servers : x # s => msgqueue'[x] = msgqueue[x]
<1>1. msgqueue[s] \in Seq(Threads) /\ IsInjective(msgqueue[s])
      /\ msgqueue \in [Servers -> Seq(Threads)] /\ held \in [Servers -> SUBSET Threads]
  BY DEF MsgsHold, Inbox
<1>2. PICK h : h = Head(msgqueue[s])
  OBVIOUS
<1>3. PICK r : r = Tail(msgqueue[s])
  OBVIOUS
<1>4. /\ h \in Threads /\ h \in ToSet(msgqueue[s]) /\ r \in Seq(Threads) /\ IsInjective(r)
      /\ ToSet(r) = ToSet(msgqueue[s]) \ {h}
  BY <1>1, <1>2, <1>3, TailQueue
<1>5. state[h] = "SNDMSGQ" /\ pu[h] = s
  BY <1>4 DEF MsgsHold, Inbox
<1>6. /\ msgqueue' = [msgqueue EXCEPT ![s] = r] /\ state' = [state EXCEPT ![h] = "SNDMSG"]
      /\ held' = [held EXCEPT ![s] = @ \cup {h}]
  BY <1>2, <1>3 DEF Receive
<1>7. /\ state \in [Threads -> States] /\ state[currp] = "CURRENT" /\ currp \in Threads
      /\ h # currp /\ "SNDMSG" \in States
  BY <1>5, Caller DEF States, Asleep
<1>8. state' \in [Threads -> States] /\ \A t \in Threads : state'[t] = IF t = h THEN "SNDMSG" ELSE state[t]
  BY <1>6, <1>7
<1>9. OneCurrent(state', currp)
  BY <1>7, <1>8 DEF KernelHolds, OneCurrent
<1>10. /\ msgqueue' \in [Servers -> Seq(Threads)]
       /\ \A x \in Servers : msgqueue'[x] = IF x = s THEN r ELSE msgqueue[x]
  BY <1>1, <1>4, <1>6
<1>11. /\ held' \in [Servers -> SUBSET Threads]
       /\ \A x \in Servers : held'[x] = IF x = s THEN held[s] \cup {h} ELSE held[x]
  BY <1>1, <1>4, <1>6
<1>12. \A x \in Servers, t \in Threads :
         /\ t \in ToSet(msgqueue'[x]) <=> t \in ToSet(msgqueue[x]) /\ t # h
         /\ t \in held'[x] <=> t \in held[x] \/ (t = h /\ x = s)
  <2>1. \A x \in Servers : h \in ToSet(msgqueue[x]) => x = s
    BY <1>4, <1>5 DEF MsgsHold, Inbox
  <2> QED
    BY <1>4, <1>10, <1>11, <2>1
<1>13. \A x \in Servers : IsInjective(msgqueue'[x])
  BY <1>4, <1>10 DEF MsgsHold, Inbox
<1> QED
  BY <1>2, <1>4, <1>5, <1>7, <1>8, <1>9, <1>10, <1>11, <1>12, <1>13

LEMMA ReceiveKeeps ==
  ASSUME PartsHold, NEW s \in Servers, s = currp, msgqueue[s] # <<>>, Receive(s),
         receiving' = receiving \ {s}, pu' = pu,
         slept' \in [Threads -> BOOLEAN], \A t \in Threads \ {s} : slept'[t] = slept[t]
  PROVE  /\ MsgsHold'
         /\ OneCurrent(state', currp)
         /\ \E h \in Threads :
              /\ state[h] = "SNDMSGQ" /\ state'[h] = "SNDMSG" /\ pu[h] = s /\ h # s /\ state[s] = "CURRENT"
              /\ \A t \in Threads : t # h => state'[t] = state[t]
<1>1. PICK h \in Threads :
           /\ h = Head(msgqueue[s]) /\ state[h] = "SNDMSGQ" /\ pu[h] = s /\ h # currp
           /\ OneCurrent(state', currp)
           /\ \A t \in Threads : state'[t] = IF t = h THEN "SNDMSG" ELSE state[t]
           /\ msgqueue' \in [Servers -> Seq(Threads)] /\ held' \in [Servers -> SUBSET Threads]
           /\ \A x \in Servers : IsInjective(msgqueue'[x])
           /\ \A x \in Servers, t \in Threads :
                /\ t \in ToSet(msgqueue'[x]) <=> t \in ToSet(msgqueue[x]) /\ t # h
                /\ t \in held'[x] <=> t \in held[x] \/ (t = h /\ x = s)
           /\ \A x \in Servers : x # s => msgqueue'[x] = msgqueue[x]
  BY ReceiveIs DEF PartsHold
<1>2. state[s] = "CURRENT" /\ s \in Threads
  BY Caller DEF PartsHold
<1>3. ASSUME NEW x \in Servers PROVE Inbox(x)'
  <2>1. Inbox(x) /\ x \in Threads
    BY Members DEF PartsHold, MsgsHold
  <2>2. ASSUME NEW t \in Threads
        PROVE  /\ t \in ToSet(msgqueue'[x]) <=> (state'[t] = "SNDMSGQ" /\ pu'[t] = x)
               /\ t \in held'[x] <=> (state'[t] = "SNDMSG" /\ pu'[t] = x)
    <3>1. /\ t \in ToSet(msgqueue[x]) <=> (state[t] = "SNDMSGQ" /\ pu[t] = x)
          /\ t \in held[x] <=> (state[t] = "SNDMSG" /\ pu[t] = x)
      BY <2>1 DEF Inbox
    <3>2. /\ t \in ToSet(msgqueue'[x]) <=> t \in ToSet(msgqueue[x]) /\ t # h
          /\ t \in held'[x] <=> t \in held[x] \/ (t = h /\ x = s)
          /\ state'[t] = IF t = h THEN "SNDMSG" ELSE state[t]
      BY <1>1
    <3> QED
      BY <1>1, <3>1, <3>2
  <2>3. CASE x = s
    <3>1. x \notin receiving' /\ state'[x] # "WTMSG"
      BY <1>1, <1>2, <2>3
    <3> QED
      BY <1>1, <2>2, <3>1 DEF Inbox
  <2>4. CASE x # s
    <3>1. (x \in receiving' <=> x \in receiving) /\ slept'[x] = slept[x] /\ msgqueue'[x] = msgqueue[x]
      BY <1>1, <2>1, <2>4
    <3>2. x \in receiving => x # h
      BY <1>1, <2>1, MsgStatesAre DEF Inbox
    <3>3. state'[x] = IF x = h THEN "SNDMSG" ELSE state[x]
      BY <1>1, <2>1
    <3> QED
      BY <1>1, <2>1, <2>2, <3>1, <3>2, <3>3 DEF Inbox
  <2> QED
    BY <2>3, <2>4
<1>4. \A t \in Threads : state'[t] = "WTMSG" => t \in receiving'
  BY <1>1, <1>2 DEF PartsHold, MsgsHold
<1>5. MsgsHold'
  BY <1>1, <1>3, <1>4 DEF PartsHold, MsgsHold
<1> QED
  BY <1>1, <1>2, <1>5

LEMMA MsgTakeKeeps ==
  ASSUME PartsHold, Running, currp \in Servers, msgqueue[currp] # <<>>, Receive(currp),
         UNCHANGED <<currp, vt, slept, receiving, prio, pu, isr>>, UNCHANGED <<objs, evtobjs>>
  PROVE  PartsHold' /\ Once
<1>1. PICK s \in Servers : s = currp
  OBVIOUS
<1>2. s \in Threads /\ ~slept[s] /\ ~isr
  BY <1>1, Members DEF Running
<1>3. s \notin receiving
  BY <1>2 DEF PartsHold, MsgsHold, Inbox
<1>4. /\ MsgsHold' /\ OneCurrent(state', currp)
      /\ \E h \in Threads :
           /\ state[h] = "SNDMSGQ" /\ state'[h] = "SNDMSG" /\ pu[h] = s /\ h # s /\ state[s] = "CURRENT"
           /\ \A t \in Threads : t # h => state'[t] = state[t]
  <2>1. /\ Receive(s) /\ receiving' = receiving \ {s} /\ pu' = pu /\ msgqueue[s] # <<>>
        /\ slept' \in [Threads -> BOOLEAN] /\ \A t \in Threads \ {s} : slept'[t] = slept[t]
    BY <1>1, <1>3 DEF PartsHold, KernelHolds
  <2> QED
    BY <1>1, <2>1, ReceiveKeeps
<1>5. PICK h \in Threads :
           /\ state[h] = "SNDMSGQ" /\ state'[h] = "SNDMSG" /\ pu[h] = s /\ h # s
           /\ \A t \in Threads : t # h => state'[t] = state[t]
  BY <1>4
<1>6. Others({h})
  BY <1>5 DEF Others, Still
<1>7. KernelHolds'
  <2>1. KernelTypes
    BY <1>4 DEF KernelTypes, PartsHold, KernelHolds
  <2>2. ASSUME NEW t \in Threads, t \in {h} PROVE Fits(t)'
    <3>1. Fits(t) /\ t = h /\ slept'[t] = slept[t] /\ vt'[t] = vt[t] /\ pu'[t] = pu[t] /\ isr' = isr
      BY <2>2 DEF PartsHold, KernelHolds
    <3> QED
      BY <1>5, <3>1, MsgStatesAre DEF Fits, Untimed
  <2>3. \A t \in Threads : vt'[t] = vt[t] /\ (vt[t] = "firing" => isr')
    BY DEF PartsHold, KernelHolds, Fits
  <2> QED
    BY <1>6, <2>1, <2>2, <2>3, KernelFrame DEF PartsHold
<1>8. RefsHold' /\ TQueuesHold'
  BY <1>5, <1>6, ObjsKept
<1>9. EventsHold'
  <2>1. h \in Waiters => waits[h] = None
    BY <1>5, Uninvolved, MsgStatesAre DEF PartsHold
  <2> QED
    BY <1>5, <1>6, <2>1, EventsFrame, Members DEF PartsHold
<1> QED
  BY <1>4, <1>7, <1>8, <1>9 DEF PartsHold, Once

LEMMA MsgSleepKeeps ==
  ASSUME PartsHold, Running, currp \in Servers, msgqueue[currp] = <<>>,
         GoSleepTimeoutS(state, prio, "WTMSG", "INFINITE"), receiving' = receiving \cup {currp},
         UNCHANGED <<msgqueue, held, prio, pu, isr>>, UNCHANGED <<objs, evtobjs>>
  PROVE  PartsHold' /\ Once
<1>1. PICK s \in Servers : s = currp
  OBVIOUS
<1>2. /\ pu' \in [Threads -> Msgs \cup Refs \cup Servers]
      /\ pu'[currp] \in Msgs /\ \A t \in Threads \ {currp} : pu'[t] = pu[t]
  BY Caller, MsgStatesAre DEF KernelHolds, PartsHold, Fits
<1>3. /\ KernelHolds' /\ Others({s}) /\ Once
      /\ s \in Threads /\ state[s] = "CURRENT" /\ ~slept[s]
      /\ state'[s] = "WTMSG" /\ slept'[s]
  <2>1. "WTMSG" \in Asleep /\ UnionOf("WTMSG") = Msgs
    BY MsgStatesAre
  <2> QED
    BY <1>1, <1>2, <2>1, SleepFrame DEF PartsHold
<1>4. RefsHold' /\ TQueuesHold'
  BY <1>3, ObjsKept
<1>5. EventsHold'
  BY <1>3, Uninvolved, EventsFrame, Members DEF PartsHold
<1>6. s \notin receiving
  BY <1>3 DEF PartsHold, MsgsHold, Inbox
<1>7. ASSUME NEW x \in Servers PROVE Inbox(x)'
  <2>1. Inbox(x) /\ x \in Threads
    BY Members DEF PartsHold, MsgsHold
  <2>2. \A t \in Threads :
          /\ t \in ToSet(msgqueue'[x]) <=> (state'[t] = "SNDMSGQ" /\ pu'[t] = x)
          /\ t \in held'[x] <=> (state'[t] = "SNDMSG" /\ pu'[t] = x)
    BY <1>3, <2>1, SameWait, MsgStatesAre DEF Inbox
  <2>3. CASE x = s
    BY <1>1, <1>3, <2>1, <2>2, <2>3 DEF Inbox
  <2>4. CASE x # s
    <3>1. /\ state'[x] = "WTMSG" <=> state[x] = "WTMSG"
          /\ state'[x] \in Awake <=> state[x] \in Awake
          /\ slept'[x] = slept[x]
      BY <1>3, <2>1, <2>4, SameWait, MsgStatesAre
    <3>2. x \in receiving' <=> x \in receiving
      BY <1>1, <2>4
    <3> QED
      BY <2>1, <2>2, <3>1, <3>2 DEF Inbox
  <2> QED
    BY <2>3, <2>4
<1>8. ASSUME NEW t \in Threads, state'[t] = "WTMSG" PROVE t \in receiving'
  <2>1. t = s \/ state[t] = "WTMSG"
    BY <1>3, <1>8, SameWait, MsgStatesAre
  <2> QED
    BY <1>1, <2>1 DEF PartsHold, MsgsHold
<1>9. MsgsHold'
  BY <1>1, <1>7, <1>8 DEF PartsHold, MsgsHold
<1> QED
  BY <1>3, <1>4, <1>5, <1>9 DEF PartsHold

LEMMA MsgWaitKeeps ==
  ASSUME PartsHold, MsgWait, UNCHANGED <<objs, evtobjs>>
  PROVE  PartsHold' /\ Once
<1>1. CASE msgqueue[currp] # <<>>
  BY <1>1, MsgTakeKeeps DEF MsgWait
<1>2. CASE msgqueue[currp] = <<>>
  BY <1>2, MsgSleepKeeps DEF MsgWait
<1> QED
  BY <1>1, <1>2

LEMMA EndMsgWaitKeeps ==
  ASSUME PartsHold, OneCall, EndMsgWait, UNCHANGED <<objs, evtobjs>>
  PROVE  PartsHold' /\ Once
<1>0. /\ Resuming /\ currp \in receiving /\ EndSleep /\ Receive(currp)
      /\ receiving' = receiving \ {currp} /\ UNCHANGED <<currp, prio, pu, isr>>
  BY DEF EndMsgWait
<1>1. PICK s \in Servers : s = currp
  BY <1>0 DEF PartsHold, MsgsHold
<1>2. /\ s \in Threads /\ ~isr /\ ~isr' /\ slept[s] /\ state[s] = "CURRENT"
      /\ slept' \in [Threads -> BOOLEAN] /\ vt' \in [Threads -> {"off", "armed", "firing"}]
      /\ ~slept'[s] /\ vt'[s] = "off"
      /\ \A t \in Threads \ {s} : slept'[t] = slept[t] /\ vt'[t] = vt[t]
  BY <1>0, <1>1, EndSleepIs, Caller DEF PartsHold
<1>3. msgqueue[s] # <<>>
  BY <1>0, <1>1, <1>2 DEF PartsHold, MsgsHold, Inbox
<1>4. /\ MsgsHold' /\ OneCurrent(state', currp)
      /\ \E h \in Threads :
           /\ state[h] = "SNDMSGQ" /\ state'[h] = "SNDMSG" /\ pu[h] = s /\ h # s /\ state[s] = "CURRENT"
           /\ \A t \in Threads : t # h => state'[t] = state[t]
  <2>1. Receive(s) /\ receiving' = receiving \ {s} /\ pu' = pu
    BY <1>0, <1>1
  <2> QED
    BY <1>1, <1>2, <1>3, <2>1, ReceiveKeeps
<1>5. PICK h \in Threads :
           /\ state[h] = "SNDMSGQ" /\ state'[h] = "SNDMSG" /\ pu[h] = s /\ h # s
           /\ \A t \in Threads : t # h => state'[t] = state[t]
  BY <1>4
<1>6. Others({s, h})
  BY <1>0, <1>2, <1>5 DEF Others, Still
<1>7. state'[s] = "CURRENT"
  BY <1>2, <1>5
<1>8. KernelHolds'
  <2>1. KernelTypes
    <3>1. ~slept'[currp']
      BY <1>0, <1>1, <1>2
    <3> QED
      BY <1>0, <1>2, <1>4, <3>1 DEF KernelTypes, PartsHold, KernelHolds
  <2>2. ASSUME NEW t \in Threads, t \in {s, h} PROVE Fits(t)'
    <3>0. Fits(t) /\ pu'[t] = pu[t] /\ isr' = isr
      BY <1>0 DEF PartsHold, KernelHolds
    <3>1. CASE t = h
      BY <1>2, <1>5, <3>0, <3>1, MsgStatesAre DEF Fits, Untimed
    <3>2. CASE t = s
      BY <1>2, <1>7, <3>0, <3>2, MsgStatesAre DEF Fits
    <3> QED
      BY <2>2, <3>1, <3>2
  <2>3. \A t \in Threads \ {s, h} : vt'[t] = vt[t] /\ (vt[t] = "firing" => isr')
    BY <1>2 DEF PartsHold, KernelHolds, Fits
  <2> QED
    BY <1>6, <2>1, <2>2, <2>3, KernelFrame DEF PartsHold
<1>9. RefsHold' /\ TQueuesHold'
  BY <1>2, <1>5, <1>6, <1>7, ObjsKept
<1>10. EventsHold'
  <2>1. h \in Waiters => waits[h] = None
    BY <1>5, Uninvolved, MsgStatesAre DEF PartsHold
  <2>2. s \in Waiters => waits[s] = None
    BY <1>0, <1>1 DEF OneCall
  <2> QED
    BY <1>2, <1>5, <1>6, <1>7, <2>1, <2>2, EventsFrame, Members DEF PartsHold
<1>11. Once
  BY <1>0 DEF Once
<1> QED
  BY <1>4, <1>8, <1>9, <1>10, <1>11 DEF PartsHold

LEMMA MsgReleaseKeeps ==
  ASSUME PartsHold, NEW t \in Threads, NEW m \in Answers, MsgRelease(t, m),
         UNCHANGED <<objs, evtobjs>>
  PROVE  PartsHold' /\ Once
<1>1. PICK s \in Servers : s = currp
  BY DEF MsgRelease
<1>2. /\ Running /\ t \in held[s] /\ held' = [held EXCEPT ![s] = @ \ {t}]
      /\ pu' = [pu EXCEPT ![t] = m] /\ WakeupS(state, prio, t)
      /\ UNCHANGED <<prio, vt, slept, isr>> /\ msgqueue' = msgqueue /\ receiving' = receiving
      /\ m \in Msgs
  BY <1>1, Members DEF MsgRelease
<1>3. state[t] = "SNDMSG" /\ pu[t] = s
  BY <1>2 DEF PartsHold, MsgsHold, Inbox
<1>4. /\ pu' \in [Threads -> Msgs \cup Refs \cup Servers]
      /\ \A x \in Threads : pu'[x] = IF x \in {t} THEN m ELSE pu[x]
  BY <1>2 DEF PartsHold, KernelHolds
<1>5. KernelHolds' /\ Others({t}) /\ Once /\ state'[t] \in Awake
  <2>1. state[t] \in Asleep
    BY <1>3, MsgStatesAre
  <2>2. /\ Context /\ OneCurrent(state', currp')
        /\ \A x \in Threads : Still(ReadyI(state, {t})[x], state'[x])
    BY <1>2, <2>1, WakeByWakeup DEF PartsHold
  <2> QED
    BY <1>2, <1>4, <2>1, <2>2, WakeFrame DEF PartsHold
<1>6. RefsHold' /\ TQueuesHold'
  BY <1>3, <1>5, ObjsKept, MsgStatesAre
<1>7. EventsHold'
  <2>1. t \in Waiters => waits[t] = None
    BY <1>3, Uninvolved, MsgStatesAre DEF PartsHold
  <2> QED
    BY <1>3, <1>5, <2>1, EventsFrame, Members, MsgStatesAre DEF PartsHold
<1>8. /\ held' \in [Servers -> SUBSET Threads]
      /\ \A x \in Servers : held'[x] = IF x = s THEN held[s] \ {t} ELSE held[x]
  BY <1>2 DEF PartsHold, MsgsHold
<1>9. t \notin receiving
  BY <1>3, Uninvolved, MsgStatesAre DEF PartsHold
<1>10. ASSUME NEW x \in Servers PROVE Inbox(x)'
  <2>1. Inbox(x) /\ x \in Threads
    BY Members DEF PartsHold, MsgsHold
  <2>2. ASSUME NEW w \in Threads
        PROVE  /\ w \in ToSet(msgqueue'[x]) <=> (state'[w] = "SNDMSGQ" /\ pu'[w] = x)
               /\ w \in held'[x] <=> (state'[w] = "SNDMSG" /\ pu'[w] = x)
    <3>1. /\ w \in ToSet(msgqueue[x]) <=> (state[w] = "SNDMSGQ" /\ pu[w] = x)
          /\ w \in held[x] <=> (state[w] = "SNDMSG" /\ pu[w] = x)
      BY <2>1 DEF Inbox
    <3>2. CASE w = t
      BY <1>2, <1>3, <1>5, <1>8, <3>1, <3>2, MsgStatesAre
    <3>3. CASE w # t
      BY <1>2, <1>5, <1>8, <3>1, <3>3, SameWait, MsgStatesAre
    <3> QED
      BY <3>2, <3>3
  <2>3. /\ state'[x] = "WTMSG" <=> state[x] = "WTMSG"
        /\ x \in receiving => (state'[x] \in Awake <=> state[x] \in Awake)
        /\ slept'[x] = slept[x]
    <3>1. CASE x = t
      BY <1>2, <1>3, <1>5, <1>9, <3>1, MsgStatesAre
    <3>2. CASE x # t
      BY <1>5, <2>1, <3>2, SameWait, MsgStatesAre
    <3> QED
      BY <3>1, <3>2
  <2> QED
    BY <1>2, <2>1, <2>2, <2>3 DEF Inbox
<1>11. \A w \in Threads : state'[w] = "WTMSG" => w \in receiving'
  BY <1>2, <1>5, SameWait, MsgStatesAre DEF PartsHold, MsgsHold
<1>12. MsgsHold'
  BY <1>2, <1>8, <1>10, <1>11 DEF PartsHold, MsgsHold
<1> QED
  BY <1>5, <1>6, <1>7, <1>12 DEF PartsHold

-----------------------------------------------------------------------------
\* Events.

LEMMA MoreMet ==
  ASSUME NEW kind, NEW mask, NEW p, NEW p2, p \subseteq p2, Met(kind, mask, p)
  PROVE  Met(kind, mask, p2)
  BY DEF Met

\* What is signalled is a thread that waits for one of the events it now has,
\* or for all of them.
LEMMA SignalledAre ==
  ASSUME PartsHold, NEW p
  PROVE  /\ Signalled(p) \in SUBSET Threads
         /\ \A t \in Signalled(p) : state[t] \in EventStates /\ state[t] \in Asleep
         /\ \A t \in Waiters : waits[t] # None /\ state[t] \in EventStates =>
              (t \in Signalled(p) <=> Met(waits[t].kind, waits[t].mask, p[t]))
<1>1. EventStates \subseteq Asleep /\ \A d \in EventStates : d \notin Awake
  BY DEF EventStates, Asleep, Awake
<1>2. Signalled(p) \in SUBSET Threads
  BY Members DEF Signalled
<1>3. \A t \in Signalled(p) : state[t] \in EventStates
  BY DEF Signalled, EventStates
<1>4. ASSUME NEW t \in Waiters, waits[t] # None, state[t] \in EventStates
      PROVE  t \in Signalled(p) <=> Met(waits[t].kind, waits[t].mask, p[t])
  <2>1. state[t] = IF waits[t].kind = "all" THEN "WTANDEVT" ELSE "WTOREVT"
    BY <1>1, <1>4 DEF PartsHold, EventsHold, WaitHolds
  <2>2. CASE waits[t].kind = "all"
    BY <2>1, <2>2 DEF Signalled
  <2>3. CASE waits[t].kind # "all"
    BY <2>1, <2>3 DEF Signalled, Met
  <2> QED
    BY <2>2, <2>3
<1> QED
  BY <1>1, <1>2, <1>3, <1>4

LEMMA SignalKeeps ==
  ASSUME PartsHold, UNCHANGED <<objs, msgobjs>>, UNCHANGED <<prio, vt, slept>>,
         NEW p \in [Waiters -> SUBSET Events], epending' = p, \A t \in Waiters : epending[t] \subseteq p[t],
         pu' = Deliver(pu, Signalled(p), MSG_OK),
         UNCHANGED <<waits, listening, taken>>, elflags' \in [Listeners -> SUBSET Flags],
         \A l \in Listeners : Announced(l)',
         \/ Running /\ RescheduleS(ReadyI(state, Signalled(p)), prio) /\ isr' = isr
         \/ Interruptible /\ state' = ReadyI(state, Signalled(p)) /\ currp' = currp /\ isr' = TRUE
  PROVE  PartsHold' /\ Once
<1>1. PICK W \in SUBSET Threads : W = Signalled(p)
  BY SignalledAre
<1>2. /\ \A t \in W : state[t] \in EventStates /\ state[t] \in Asleep
      /\ \A t \in Waiters : waits[t] # None /\ state[t] \in EventStates =>
           (t \in W <=> Met(waits[t].kind, waits[t].mask, p[t]))
  BY <1>1, SignalledAre
<1>3. /\ pu' \in [Threads -> Msgs \cup Refs \cup Servers]
      /\ \A t \in Threads : pu'[t] = IF t \in W THEN MSG_OK ELSE pu[t]
  BY <1>1, Members DEF PartsHold, KernelHolds, Deliver
<1>4. /\ Context /\ OneCurrent(state', currp')
      /\ \A x \in Threads : Still(ReadyI(state, W)[x], state'[x])
  <2>1. CASE Running /\ RescheduleS(ReadyI(state, W), prio) /\ isr' = isr
    BY <1>2, <2>1, WakeByReschedule DEF PartsHold
  <2>2. CASE Interruptible /\ state' = ReadyI(state, W) /\ currp' = currp /\ isr' = TRUE
    BY <1>2, <2>2, WakeByHandler DEF PartsHold
  <2> QED
    BY <1>1, <2>1, <2>2
<1>5. KernelHolds' /\ Others(W) /\ Once /\ \A t \in W : state'[t] \in Awake
  BY <1>2, <1>3, <1>4, WakeFrame, Members DEF PartsHold
<1>6. RefsHold' /\ TQueuesHold'
  BY <1>2, <1>5, ObjsKept, MsgStatesAre DEF EventStates
<1>7. MsgsHold'
  <2>1. \A t \in W : t \notin receiving /\ state[t] \notin Untimed /\ state'[t] \notin Untimed
    BY <1>2, <1>5, Uninvolved, MsgStatesAre DEF PartsHold, EventStates, Untimed
  <2> QED
    BY <1>5, <2>1, MsgsFrame, Members DEF PartsHold
<1>8. ASSUME NEW w \in Waiters PROVE WaitHolds(w)'
  <2>0. WaitHolds(w) /\ w \in Threads /\ waits'[w] = waits[w] /\ epending'[w] = p[w]
    BY Members DEF PartsHold, EventsHold
  <2>1. CASE waits[w] = None
    BY <2>0, <2>1 DEF WaitHolds
  <2>2. CASE waits[w] # None /\ w \in W
    <3>1. Met(waits[w].kind, waits[w].mask, p[w]) /\ state'[w] \in Awake /\ slept'[w]
      BY <1>2, <1>5, <2>0, <2>2 DEF WaitHolds
    <3> QED
      BY <2>0, <3>1 DEF WaitHolds
  <2>3. CASE waits[w] # None /\ w \notin W
    <3>1. /\ \A d \in EventStates : state'[w] = d <=> state[w] = d
          /\ state'[w] \in Awake <=> state[w] \in Awake
          /\ pu'[w] = pu[w] /\ slept'[w] = slept[w]
      BY <1>5, <2>0, <2>3, SameWait DEF EventStates, Asleep
    <3>2. CASE state[w] \in Awake
      <4>1. Met(waits[w].kind, waits[w].mask, epending[w]) => Met(waits[w].kind, waits[w].mask, p[w])
        BY MoreMet
      <4> QED
        BY <2>0, <2>3, <3>1, <3>2, <4>1 DEF WaitHolds
    <3>3. CASE state[w] \notin Awake
      <4>1. state[w] \in EventStates /\ state[w] = IF waits[w].kind = "all" THEN "WTANDEVT" ELSE "WTOREVT"
        BY <2>0, <2>3, <3>3 DEF WaitHolds, EventStates
      <4>2. ~Met(waits[w].kind, waits[w].mask, p[w])
        BY <1>2, <2>3, <4>1
      <4> QED
        BY <2>0, <2>3, <3>1, <3>3, <4>1, <4>2 DEF WaitHolds
    <3> QED
      BY <3>2, <3>3
  <2> QED
    BY <2>1, <2>2, <2>3
<1>9. ASSUME NEW w \in Threads, state'[w] \in EventStates
      PROVE  w \in Waiters /\ waits'[w] # None
  <2>1. w \notin W
    BY <1>5, <1>9, MsgStatesAre DEF EventStates
  <2>2. state[w] \in EventStates
    BY <1>5, <1>9, <2>1, SameWait DEF EventStates, Asleep
  <2> QED
    BY <2>2 DEF PartsHold, EventsHold, EventStates
<1>10. EventsHold'
  BY <1>8, <1>9 DEF PartsHold, EventsHold, EventStates
<1> QED
  BY <1>5, <1>6, <1>7, <1>10 DEF PartsHold

\* Whatever flags come, a listener that wants one of them is notified.
LEMMA BroadcastIs ==
  ASSUME PartsHold, NEW flags \in Emitted, BroadcastI(flags)
  PROVE  /\ epending' \in [Waiters -> SUBSET Events] /\ \A t \in Waiters : epending[t] \subseteq epending'[t]
         /\ pu' = Deliver(pu, Signalled(epending'), MSG_OK)
         /\ UNCHANGED <<waits, listening, taken>> /\ elflags' \in [Listeners -> SUBSET Flags]
         /\ \A l \in Listeners : Announced(l)'
<1> DEFINE new == [l \in Listeners |->
                     IF l \in listening THEN elflags[l] \cup flags ELSE elflags[l]]
           on(t) == {l \in Notified(flags, new) : Owner[l] = t}
           p == [t \in Waiters |-> epending[t] \cup UNION {ElEvents[l] : l \in on(t)}]
<1>1. /\ elflags' = new /\ epending' = p /\ pu' = Deliver(pu, Signalled(p), MSG_OK)
      /\ UNCHANGED <<waits, listening, taken>>
  BY DEF BroadcastI, SignalI
<1>2. /\ epending \in [Waiters -> SUBSET Events] /\ listening \subseteq Listeners
      /\ elflags \in [Listeners -> SUBSET Flags] /\ flags \subseteq Flags
      /\ Owner \in [Listeners -> Waiters] /\ ElEvents \in [Listeners -> (SUBSET Events) \ {{}}]
  BY EventsAssumption DEF PartsHold, EventsHold
<1>3. Notified(flags, new) \subseteq Listeners
  BY <1>2 DEF Notified
<1>4. p \in [Waiters -> SUBSET Events]
  <2>1. \A l \in Listeners : ElEvents[l] \subseteq Events
    BY <1>2
  <2>2. \A t \in Waiters : on(t) \subseteq Listeners
    BY <1>3
  <2>3. \A t \in Waiters : UNION {ElEvents[l] : l \in on(t)} \subseteq Events
    BY <2>1, <2>2
  <2> HIDE DEF on
  <2> QED
    BY <1>2, <2>3
<1>5. \A t \in Waiters : epending[t] \subseteq p[t]
  OBVIOUS
<1>6. new \in [Listeners -> SUBSET Flags]
  BY <1>2
<1>7. ASSUME NEW l \in Listeners PROVE Announced(l)'
  <2> SUFFICES ASSUME l \in listening, new[l] \cap ElWanted[l] # {}
               PROVE  ElEvents[l] \cap p[Owner[l]] # {}
    BY <1>1 DEF Announced
  <2>1. l \in Notified(flags, new)
    BY DEF Notified
  <2>2. l \in on(Owner[l]) /\ Owner[l] \in Waiters
    BY <1>2, <2>1
  <2>3. p[Owner[l]] = epending[Owner[l]] \cup UNION {ElEvents[x] : x \in on(Owner[l])}
    BY <2>2
  <2>4. ElEvents[l] \subseteq p[Owner[l]]
    <3> HIDE DEF on, p, new
    <3> QED
      BY <2>2, <2>3
  <2>5. ElEvents[l] # {}
    BY <1>2
  <2> QED
    BY <2>4, <2>5
<1> QED
  BY <1>1, <1>4, <1>5, <1>6, <1>7

LEMMA SignalOneIs ==
  ASSUME PartsHold, NEW t \in Waiters, NEW e \in Events, SignalOne(t, {e})
  PROVE  /\ epending' \in [Waiters -> SUBSET Events] /\ \A w \in Waiters : epending[w] \subseteq epending'[w]
         /\ pu' = Deliver(pu, Signalled(epending'), MSG_OK)
         /\ UNCHANGED <<waits, listening, taken>> /\ elflags' \in [Listeners -> SUBSET Flags]
         /\ \A l \in Listeners : Announced(l)'
<1>1. /\ epending' = [epending EXCEPT ![t] = @ \cup {e}]
      /\ pu' = Deliver(pu, Signalled(epending'), MSG_OK)
      /\ waits' = waits /\ listening' = listening /\ elflags' = elflags /\ taken' = taken
  BY DEF SignalOne, SignalI
<1>2. /\ epending \in [Waiters -> SUBSET Events] /\ Owner \in [Listeners -> Waiters]
      /\ elflags \in [Listeners -> SUBSET Flags]
  BY EventsAssumption DEF PartsHold, EventsHold
<1>3. epending' \in [Waiters -> SUBSET Events] /\ \A w \in Waiters : epending[w] \subseteq epending'[w]
  BY <1>1, <1>2
<1>4. ASSUME NEW l \in Listeners PROVE Announced(l)'
  <2>1. Announced(l) /\ Owner[l] \in Waiters
    BY <1>2 DEF PartsHold, EventsHold
  <2> QED
    BY <1>1, <1>3, <2>1 DEF Announced
<1> QED
  BY <1>1, <1>2, <1>3, <1>4

LEMMA BySourceKeeps ==
  ASSUME PartsHold, BySource \/ IsrBySource, UNCHANGED <<objs, msgobjs>>
  PROVE  PartsHold' /\ Once
<1>1. /\ UNCHANGED <<prio, vt, slept>>
      /\ \/ Running /\ RescheduleS(ReadyI(state, Signalled(epending')), prio) /\ isr' = isr
         \/ Interruptible /\ state' = ReadyI(state, Signalled(epending')) /\ currp' = currp /\ isr' = TRUE
      /\ \/ \E flags \in Emitted : BroadcastI(flags)
         \/ \E t \in Waiters, e \in Events : SignalOne(t, {e})
  BY DEF BySource, IsrBySource
<1>2. /\ epending' \in [Waiters -> SUBSET Events] /\ \A t \in Waiters : epending[t] \subseteq epending'[t]
      /\ pu' = Deliver(pu, Signalled(epending'), MSG_OK)
      /\ UNCHANGED <<waits, listening, taken>> /\ elflags' \in [Listeners -> SUBSET Flags]
      /\ \A l \in Listeners : Announced(l)'
  BY <1>1, BroadcastIs, SignalOneIs
<1>3. PICK p : p = epending'
  OBVIOUS
<1> QED
  BY <1>1, <1>2, <1>3, SignalKeeps

\* What the running thread does to its own events and listeners, in a step in
\* which nobody sleeps or wakes.
LEMMA LocalKeeps ==
  ASSUME PartsHold, Uses, UNCHANGED <<core, objs, msgobjs>>, waits' = waits,
         epending' \in [Waiters -> SUBSET Events],
         \A t \in Waiters \ {currp} : epending'[t] = epending[t],
         listening' \subseteq Listeners, elflags' \in [Listeners -> SUBSET Flags],
         taken' \subseteq Listeners, \A l \in Listeners : Announced(l)'
  PROVE  PartsHold' /\ Once
<1>1. UNCHANGED <<currp, state, prio, pu, vt, slept, isr>> /\ UNCHANGED objs /\ UNCHANGED msgobjs
  BY DEF core
<1>2. KernelHolds'
  BY <1>1 DEF PartsHold, KernelHolds, OneCurrent, Fits
<1>3. Others({})
  BY <1>1 DEF Others, Still
<1>4. RefsHold' /\ TQueuesHold' /\ MsgsHold'
  BY <1>1, <1>3, ObjsKept, MsgsFrame, Members DEF PartsHold
<1>5. ~slept[currp] /\ currp \in Waiters /\ currp \in Threads
  BY Members DEF Uses, Running
<1>6. ASSUME NEW t \in Waiters PROVE WaitHolds(t)'
  <2>1. WaitHolds(t)
    BY DEF PartsHold, EventsHold
  <2>2. CASE t = currp
    BY <1>5, <2>1, <2>2 DEF WaitHolds
  <2>3. CASE t # currp
    BY <1>1, <2>1, <2>3 DEF WaitHolds
  <2> QED
    BY <2>2, <2>3
<1>7. EventsHold'
  BY <1>1, <1>6 DEF PartsHold, EventsHold
<1> QED
  BY <1>1, <1>2, <1>4, <1>7 DEF PartsHold, Once

LEMMA EventTypes ==
  ASSUME EventsHold
  PROVE  /\ epending \in [Waiters -> SUBSET Events] /\ waits \in [Waiters -> {None} \cup Awaited]
         /\ listening \subseteq Listeners /\ elflags \in [Listeners -> SUBSET Flags]
         /\ taken \subseteq Listeners /\ Owner \in [Listeners -> Waiters]
         /\ \A l \in Listeners : Announced(l)
  BY EventsAssumption DEF EventsHold

\* Whoever takes an event has taken it from its listeners.
LEMMA ClearIs ==
  ASSUME EventsHold, currp \in Waiters, NEW m, Clear(m), UNCHANGED <<listening, elflags>>
  PROVE  /\ epending' \in [Waiters -> SUBSET Events]
         /\ \A t \in Waiters \ {currp} : epending'[t] = epending[t]
         /\ listening' \subseteq Listeners /\ elflags' \in [Listeners -> SUBSET Flags]
         /\ taken' \subseteq Listeners /\ \A l \in Listeners : Announced(l)'
<1>1. /\ epending \in [Waiters -> SUBSET Events]
      /\ listening \subseteq Listeners /\ elflags \in [Listeners -> SUBSET Flags]
      /\ taken \subseteq Listeners /\ Owner \in [Listeners -> Waiters]
  BY EventTypes
<1>2. /\ epending' = [epending EXCEPT ![currp] = @ \ m]
      /\ taken' = taken \cup {l \in Listeners : Owner[l] = currp /\ ElEvents[l] \cap m # {}}
  BY DEF Clear
<1>3. /\ epending' \in [Waiters -> SUBSET Events]
      /\ \A t \in Waiters : epending'[t] = IF t = currp THEN epending[t] \ m ELSE epending[t]
  BY <1>1, <1>2
<1>4. ASSUME NEW l \in Listeners PROVE Announced(l)'
  <2> SUFFICES ASSUME l \in listening, elflags[l] \cap ElWanted[l] # {}, l \notin taken'
               PROVE  ElEvents[l] \cap epending'[Owner[l]] # {}
    BY DEF Announced
  <2>1. ElEvents[l] \cap epending[Owner[l]] # {} /\ Owner[l] \in Waiters
    BY <1>1, <1>2, EventTypes DEF Announced
  <2>2. Owner[l] # currp \/ ElEvents[l] \cap m = {}
    BY <1>2
  <2>3. CASE Owner[l] # currp
    BY <1>3, <2>1, <2>3
  <2>4. CASE Owner[l] = currp
    <3>1. epending'[Owner[l]] = epending[Owner[l]] \ m
      BY <1>3, <2>1, <2>4
    <3> QED
      BY <2>1, <2>2, <2>4, <3>1
  <2> QED
    BY <2>3, <2>4
<1> QED
  BY <1>1, <1>2, <1>3, <1>4

LEMMA ListenerKeeps ==
  ASSUME PartsHold, NEW l \in Listeners, Register(l) \/ Unregister(l) \/ GetAndClearFlags(l),
         UNCHANGED <<objs, msgobjs>>
  PROVE  PartsHold' /\ Once
<1>1. /\ Uses /\ UNCHANGED <<core, epending, waits>>
      /\ \/ /\ listening' = listening \cup {l} \/ listening' = listening
            /\ elflags' = [elflags EXCEPT ![l] = {}] /\ taken' = taken \ {l}
         \/ listening' = listening \ {l} /\ elflags' = elflags /\ taken' = taken
  BY DEF Register, Unregister, GetAndClearFlags
<1>2. /\ epending \in [Waiters -> SUBSET Events] /\ listening \subseteq Listeners
      /\ elflags \in [Listeners -> SUBSET Flags] /\ taken \subseteq Listeners
      /\ \A x \in Listeners : Announced(x)
  BY EventTypes DEF PartsHold
<1>3. /\ listening' \subseteq Listeners /\ elflags' \in [Listeners -> SUBSET Flags] /\ taken' \subseteq Listeners
      /\ \A x \in Listeners : x # l =>
           elflags'[x] = elflags[x] /\ (x \in taken' <=> x \in taken) /\ (x \in listening' <=> x \in listening)
      /\ elflags'[l] = {} \/ l \notin listening'
  <2>1. CASE elflags' = [elflags EXCEPT ![l] = {}] /\ taken' = taken \ {l}
    <3>1. elflags' \in [Listeners -> SUBSET Flags] /\ \A x \in Listeners : elflags'[x] = IF x = l THEN {} ELSE elflags[x]
      BY <1>2, <2>1
    <3>2. listening' = listening \cup {l} \/ listening' = listening \/ listening' = listening \ {l}
      BY <1>1
    <3> QED
      BY <1>2, <2>1, <3>1, <3>2
  <2>2. CASE listening' = listening \ {l} /\ elflags' = elflags /\ taken' = taken
    BY <1>2, <2>2
  <2> QED
    BY <1>1, <2>1, <2>2
<1>4. ASSUME NEW x \in Listeners PROVE Announced(x)'
  <2>1. Announced(x)
    BY <1>2
  <2>2. CASE x = l
    BY <1>3, <2>2 DEF Announced
  <2>3. CASE x # l
    BY <1>1, <1>3, <2>1, <2>3 DEF Announced
  <2> QED
    BY <2>2, <2>3
<1> QED
  BY <1>1, <1>2, <1>3, <1>4, LocalKeeps

LEMMA GetAndClearEventsKeeps ==
  ASSUME PartsHold, NEW e \in Events, GetAndClearEvents({e}), UNCHANGED <<objs, msgobjs>>
  PROVE  PartsHold' /\ Once
<1>1. Uses /\ currp \in Waiters /\ Clear({e}) /\ UNCHANGED <<core, waits, listening, elflags>>
  BY DEF GetAndClearEvents, Uses
<1>2. /\ epending' \in [Waiters -> SUBSET Events]
      /\ \A t \in Waiters \ {currp} : epending'[t] = epending[t]
      /\ listening' \subseteq Listeners /\ elflags' \in [Listeners -> SUBSET Flags]
      /\ taken' \subseteq Listeners /\ \A l \in Listeners : Announced(l)'
  BY <1>1, ClearIs DEF PartsHold
<1> QED
  BY <1>1, <1>2, LocalKeeps

LEMMA AddEventsKeeps ==
  ASSUME PartsHold, NEW e \in Events, AddEvents({e}), UNCHANGED <<objs, msgobjs>>
  PROVE  PartsHold' /\ Once
<1>1. /\ Uses /\ currp \in Waiters /\ epending' = [epending EXCEPT ![currp] = @ \cup {e}]
      /\ UNCHANGED <<core, waits, listening, elflags, taken>>
  BY DEF AddEvents, Uses
<1>2. /\ epending \in [Waiters -> SUBSET Events] /\ listening \subseteq Listeners
      /\ elflags \in [Listeners -> SUBSET Flags] /\ taken \subseteq Listeners
      /\ Owner \in [Listeners -> Waiters] /\ \A x \in Listeners : Announced(x)
  BY EventTypes DEF PartsHold
<1>3. /\ epending' \in [Waiters -> SUBSET Events]
      /\ \A t \in Waiters \ {currp} : epending'[t] = epending[t]
      /\ \A t \in Waiters : epending[t] \subseteq epending'[t]
  BY <1>1, <1>2
<1>4. ASSUME NEW x \in Listeners PROVE Announced(x)'
  <2>1. Announced(x) /\ Owner[x] \in Waiters
    BY <1>2
  <2> QED
    BY <1>1, <1>3, <2>1 DEF Announced
<1> QED
  BY <1>1, <1>2, <1>3, <1>4, LocalKeeps

LEMMA WaitEventsKeeps ==
  ASSUME PartsHold, NEW kind \in {"one", "any", "all"}, NEW mask \in WaitMasks,
         NEW time \in {"INFINITE", "FINITE"}, WaitEvents(kind, mask, time), UNCHANGED <<objs, msgobjs>>
  PROVE  PartsHold' /\ Once
<1>1. CASE Met(kind, mask, epending[currp])
  <2>1. PICK m : m = Served(kind, mask, epending[currp])
    OBVIOUS
  <2>2. Uses /\ currp \in Waiters /\ Clear(m) /\ UNCHANGED <<core, waits, listening, elflags>>
    BY <1>1, <2>1 DEF WaitEvents, Uses
  <2>3. /\ epending' \in [Waiters -> SUBSET Events]
        /\ \A t \in Waiters \ {currp} : epending'[t] = epending[t]
        /\ listening' \subseteq Listeners /\ elflags' \in [Listeners -> SUBSET Flags]
        /\ taken' \subseteq Listeners /\ \A l \in Listeners : Announced(l)'
    BY <2>2, ClearIs DEF PartsHold
  <2> QED
    BY <2>2, <2>3, LocalKeeps
<1>2. CASE ~Met(kind, mask, epending[currp])
  <2>1. PICK c \in Waiters : c = currp
    BY DEF WaitEvents, Uses
  <2>2. PICK new \in EventStates : new = IF kind = "all" THEN "WTANDEVT" ELSE "WTOREVT"
    BY DEF EventStates
  <2>3. PICK a \in Awaited : a = [kind |-> kind, mask |-> mask]
    BY DEF Awaited
  <2>4. /\ Running /\ waits' = [waits EXCEPT ![c] = a]
        /\ GoSleepTimeoutS(state, prio, new, time)
        /\ UNCHANGED <<prio, pu, isr, epending, taken, listening, elflags>>
    BY <1>2, <2>1, <2>2, <2>3 DEF WaitEvents, Uses
  <2>5. new \in Asleep /\ new \notin Untimed /\ UnionOf(new) = Msgs /\ new \notin {"SUSPENDED", "QUEUED"}
        /\ new \notin Awake
    BY DEF EventStates, Asleep, Untimed, UnionOf, Awake
  <2>6. /\ pu' \in [Threads -> Msgs \cup Refs \cup Servers]
        /\ pu'[currp] \in Msgs /\ \A t \in Threads \ {currp} : pu'[t] = pu[t]
    BY <2>4, Caller, MsgStatesAre DEF KernelHolds, PartsHold, Fits
  <2>7. /\ KernelHolds' /\ Others({c}) /\ Once
        /\ c \in Threads /\ state[c] = "CURRENT" /\ ~slept[c]
        /\ state'[c] = new /\ slept'[c]
    BY <2>1, <2>4, <2>5, <2>6, SleepFrame DEF PartsHold
  <2>8. RefsHold' /\ TQueuesHold'
    BY <2>5, <2>7, ObjsKept
  <2>9. MsgsHold'
    <3>1. c \notin receiving /\ "CURRENT" \notin Untimed
      BY <2>7, Uninvolved DEF PartsHold, Untimed
    <3> QED
      BY <2>5, <2>7, <3>1, MsgsFrame, Members DEF PartsHold
  <2>10. /\ waits' \in [Waiters -> {None} \cup Awaited]
         /\ \A t \in Waiters : waits'[t] = IF t = c THEN a ELSE waits[t]
    BY <2>4, EventTypes DEF PartsHold
  <2>11. ASSUME NEW t \in Waiters PROVE WaitHolds(t)'
    <3>1. CASE t = c
      <4>1. waits'[t] = a /\ a.kind = kind /\ a.mask = mask /\ epending'[t] = epending[t]
        BY <2>3, <2>4, <2>10, <3>1
      <4>2. state'[t] = IF a.kind = "all" THEN "WTANDEVT" ELSE "WTOREVT"
        BY <2>2, <2>7, <3>1, <4>1
      <4>3. state'[t] \notin Awake /\ slept'[t]
        BY <2>5, <2>7, <3>1
      <4>4. ~Met(a.kind, a.mask, epending'[t])
        BY <1>2, <2>1, <3>1, <4>1
      <4> QED
        BY <4>1, <4>2, <4>3, <4>4 DEF WaitHolds
    <3>2. CASE t # c
      <4>1. WaitHolds(t) /\ t \in Threads
        BY Members DEF PartsHold, EventsHold
      <4>2. /\ \A d \in EventStates : state'[t] = d <=> state[t] = d
            /\ state'[t] \in Awake <=> state[t] \in Awake
            /\ pu'[t] = pu[t] /\ slept'[t] = slept[t]
        BY <2>7, <3>2, <4>1, SameWait DEF EventStates, Asleep
      <4>3. waits'[t] = waits[t] /\ epending'[t] = epending[t]
        BY <2>4, <2>10, <3>2
      <4> QED
        BY <4>1, <4>2, <4>3 DEF WaitHolds, EventStates
    <3> QED
      BY <3>1, <3>2
  <2>12. ASSUME NEW t \in Threads, state'[t] \in EventStates
         PROVE  t \in Waiters /\ waits'[t] # None
    <3>1. CASE t = c
      BY <2>10, <3>1, AwaitedAssumption
    <3>2. CASE t # c
      <4>1. state[t] \in EventStates
        BY <2>7, <2>12, <3>2, SameWait DEF EventStates, Asleep
      <4>2. t \in Waiters /\ waits[t] # None
        BY <4>1 DEF PartsHold, EventsHold, EventStates
      <4> QED
        BY <2>10, <3>2, <4>2
    <3> QED
      BY <3>1, <3>2
  <2>13. EventsHold'
    <3>1. \A l \in Listeners : Announced(l)'
      BY <2>4 DEF PartsHold, EventsHold, Announced
    <3> QED
      BY <2>4, <2>10, <2>11, <2>12, <3>1 DEF PartsHold, EventsHold, EventStates
  <2> QED
    BY <2>7, <2>8, <2>9, <2>13 DEF PartsHold
<1> QED
  BY <1>1, <1>2

LEMMA EndWaitEventsKeeps ==
  ASSUME PartsHold, OneCall, EndWaitEvents, UNCHANGED <<objs, msgobjs>>
  PROVE  PartsHold' /\ Once
<1>1. PICK c \in Waiters : c = currp
  BY DEF EndWaitEvents
<1>2. /\ Resuming /\ waits[c] # None /\ EndSleep
      /\ waits' = [waits EXCEPT ![c] = None]
      /\ UNCHANGED <<currp, state, prio, pu, isr, listening, elflags>>
  BY <1>1 DEF EndWaitEvents
<1>3. KernelHolds' /\ Others({c}) /\ Once
  BY <1>1, <1>2, EndSleepFrame DEF PartsHold
<1>4. /\ c \in Threads /\ state[c] = "CURRENT" /\ state'[c] = "CURRENT"
      /\ "CURRENT" \notin Untimed
  BY <1>1, <1>2, Caller DEF PartsHold, Untimed
<1>5. RefsHold' /\ TQueuesHold'
  BY <1>3, <1>4, ObjsKept
<1>6. MsgsHold'
  <2>1. c \notin receiving
    BY <1>2 DEF OneCall
  <2> QED
    BY <1>3, <1>4, <2>1, MsgsFrame, Members DEF PartsHold
<1>7. /\ epending' \in [Waiters -> SUBSET Events]
      /\ \A t \in Waiters \ {c} : epending'[t] = epending[t]
      /\ listening' \subseteq Listeners /\ elflags' \in [Listeners -> SUBSET Flags]
      /\ taken' \subseteq Listeners /\ \A l \in Listeners : Announced(l)'
  <2>1. CASE pu[c] = MSG_OK
    <3>1. PICK m : m = Served(waits[c].kind, waits[c].mask, epending[c])
      OBVIOUS
    <3>2. Clear(m)
      BY <1>1, <2>1, <3>1 DEF EndWaitEvents
    <3> QED
      BY <1>1, <1>2, <3>2, ClearIs DEF PartsHold
  <2>2. CASE pu[c] # MSG_OK
    <3>1. epending' = epending /\ taken' = taken
      BY <1>1, <2>2 DEF EndWaitEvents
    <3>2. \A l \in Listeners : Announced(l)'
      BY <1>2, <3>1 DEF PartsHold, EventsHold, Announced
    <3> QED
      BY <1>2, <3>1, <3>2, EventTypes DEF PartsHold
  <2> QED
    BY <2>1, <2>2
<1>8. /\ waits' \in [Waiters -> {None} \cup Awaited]
      /\ \A t \in Waiters : waits'[t] = IF t = c THEN None ELSE waits[t]
  BY <1>2, EventTypes DEF PartsHold
<1>9. ASSUME NEW t \in Waiters PROVE WaitHolds(t)'
  <2>1. CASE t = c
    BY <1>8, <2>1 DEF WaitHolds
  <2>2. CASE t # c
    <3>1. WaitHolds(t) /\ t \in Threads
      BY Members DEF PartsHold, EventsHold
    <3>2. /\ waits'[t] = waits[t] /\ epending'[t] = epending[t] /\ state'[t] = state[t]
          /\ pu'[t] = pu[t] /\ slept'[t] = slept[t]
      BY <1>2, <1>3, <1>7, <1>8, <2>2, <3>1, SameWait
    <3> QED
      BY <3>1, <3>2 DEF WaitHolds
  <2> QED
    BY <2>1, <2>2
<1>10. ASSUME NEW t \in Threads, state'[t] \in EventStates
       PROVE  t \in Waiters /\ waits'[t] # None
  <2>1. t # c
    BY <1>4, <1>10 DEF EventStates
  <2>2. t \in Waiters /\ waits[t] # None
    BY <1>2, <1>10 DEF PartsHold, EventsHold, EventStates
  <2> QED
    BY <1>8, <2>1, <2>2
<1>11. EventsHold'
  BY <1>7, <1>8, <1>9, <1>10 DEF EventsHold, EventStates
<1> QED
  BY <1>3, <1>5, <1>6, <1>11 DEF PartsHold

-----------------------------------------------------------------------------
(***************************************************************************)
(* The invariant holds, and every answer is given once.                    *)
(***************************************************************************)

LEMMA OneCallKept ==
  ASSUME PartsHold, OneCall, Next
  PROVE  OneCall'
<1> SUFFICES ASSUME NEW t \in Waiters, t \in receiving', waits'[t] # None PROVE FALSE
  BY DEF OneCall
<1>1. ~(t \in receiving /\ waits[t] # None)
  BY DEF OneCall
<1>2. ~slept[t] => t \notin receiving /\ waits[t] = None
  <2>1. t \in receiving => slept[t]
    BY DEF PartsHold, MsgsHold, Inbox
  <2>2. WaitHolds(t)
    BY DEF PartsHold, EventsHold
  <2> QED
    BY <2>1, <2>2 DEF WaitHolds
<1>3. waits \in [Waiters -> {None} \cup Awaited]
  BY EventTypes DEF PartsHold
<1>4. CASE UNCHANGED msgobjs /\ UNCHANGED evtobjs
  BY <1>1, <1>4 DEF msgobjs, evtobjs
<1>5. CASE MsgStep /\ UNCHANGED evtobjs
  <2>1. waits' = waits
    BY <1>5 DEF evtobjs
  <2>2. t \in receiving \/ (t = currp /\ ~slept[currp])
    <3>1. receiving' = receiving \/ receiving' = receiving \ {currp}
          \/ (receiving' = receiving \cup {currp} /\ ~slept[currp])
      BY <1>5 DEF MsgStep, MsgSend, MsgWait, EndMsgWait, MsgRelease, Running
    <3> QED
      BY <3>1
  <2> QED
    BY <1>1, <1>2, <2>1, <2>2
<1>6. CASE EvtStep /\ UNCHANGED msgobjs
  <2>1. receiving' = receiving
    BY <1>6 DEF msgobjs
  <2>2. waits' = waits \/ waits' = [waits EXCEPT ![currp] = None]
        \/ (~slept[currp] /\ \E a : waits' = [waits EXCEPT ![currp] = a])
    BY <1>6 DEF EvtStep, BySource, IsrBySource, BroadcastI, SignalOne, Register, Unregister,
       GetAndClearFlags, GetAndClearEvents, AddEvents, WaitEvents, EndWaitEvents, Uses, Running
  <2>3. waits[t] # None \/ (t = currp /\ ~slept[currp])
    BY <1>3, <2>2
  <2> QED
    BY <1>1, <1>2, <2>1, <2>3
<1> QED
  BY <1>4, <1>5, <1>6 DEF Next

LEMMA InitHolds == Init => WaitsInv
<1> SUFFICES ASSUME Init PROVE WaitsInv
  OBVIOUS
<1>1. /\ prio = BasePrio /\ currp \in Threads
      /\ state = [w \in Threads |-> IF w = currp THEN "CURRENT" ELSE "READY"]
      /\ pu = [t \in Threads |-> MSG_OK] /\ vt = [t \in Threads |-> "off"]
      /\ slept = [t \in Threads |-> FALSE] /\ isr = FALSE
  BY DEF Init, CoreInit, Users
<1>2. /\ ref = [r \in Refs |-> None] /\ tqueue = [q \in TQueues |-> <<>>]
      /\ msgqueue = [s \in Servers |-> <<>>] /\ receiving = {} /\ held = [s \in Servers |-> {}]
  BY DEF Init, SyncInit, MsgInit
<1>3. /\ epending = [t \in Waiters |-> {}] /\ waits = [t \in Waiters |-> None]
      /\ listening = {} /\ elflags = [l \in Listeners |-> {}] /\ taken = {}
  BY DEF Init, EvtInit
<1>4. \A t \in Threads : state[t] \in Awake /\ (state[t] = "CURRENT" <=> t = currp)
  BY <1>1 DEF Awake
<1>5. KernelHolds
  <2>1. OneCurrent(state, currp)
    <3>1. state \in [Threads -> States]
      BY <1>1 DEF States, Awake
    <3> QED
      BY <1>1, <1>4, <3>1 DEF OneCurrent
  <2>2. ASSUME NEW t \in Threads PROVE Fits(t)
    BY <1>1, <1>4, Members, MsgStatesAre DEF Fits
  <2> QED
    BY <1>1, <2>1, <2>2, Members DEF KernelHolds
<1>6. RefsHold
  BY <1>2, <1>4, Members DEF RefsHold, Awake
<1>7. IsInjective(<<>>) /\ ToSet(<<>>) = {} /\ <<>> \in Seq(Threads)
  BY DEF IsInjective, ToSet
<1>8. TQueuesHold
  <2>1. \A q \in TQueues : tqueue[q] = <<>>
    BY <1>2
  <2>2. tqueue \in [TQueues -> Seq(Threads)]
    BY <1>2, <1>7
  <2> QED
    BY <1>4, <1>7, <2>1, <2>2 DEF TQueuesHold, Awake
<1>9. MsgsHold
  <2>1. \A s \in Servers : msgqueue[s] = <<>> /\ held[s] = {}
    BY <1>2
  <2>2. msgqueue \in [Servers -> Seq(Threads)] /\ held \in [Servers -> SUBSET Threads]
    BY <1>2, <1>7
  <2>3. \A t \in Threads : state[t] \notin {"SNDMSGQ", "SNDMSG", "WTMSG"}
    BY <1>4, MsgStatesAre
  <2> QED
    BY <1>2, <1>7, <2>1, <2>2, <2>3, Members DEF MsgsHold, Inbox
<1>10. EventsHold
  <2>1. /\ epending \in [Waiters -> SUBSET Events] /\ waits \in [Waiters -> {None} \cup Awaited]
        /\ elflags \in [Listeners -> SUBSET Flags]
    BY <1>3
  <2>2. \A t \in Waiters : waits[t] = None
    BY <1>3
  <2>3. \A t \in Threads : state[t] \notin {"WTOREVT", "WTANDEVT"}
    BY <1>4, MsgStatesAre
  <2> QED
    BY <1>3, <2>1, <2>2, <2>3 DEF EventsHold, WaitHolds, Announced
<1> QED
  BY <1>2, <1>5, <1>6, <1>8, <1>9, <1>10 DEF WaitsInv, PartsHold, OneCall

LEMMA SyncStepKeeps ==
  ASSUME PartsHold, ThreadStep \/ IsrStep \/ Return, UNCHANGED <<msgobjs, evtobjs>>
  PROVE  PartsHold' /\ Once
<1>1. ASSUME NEW r \in Refs, NEW time \in Times, Suspend(r, time) PROVE PartsHold' /\ Once
  BY <1>1, SuspendKeeps
<1>2. ASSUME NEW r \in Refs, NEW m \in Results, Resume(r, m) \/ IsrResumeI(r, m)
      PROVE  PartsHold' /\ Once
  <2>1. ref[r] # None /\ Release(r, m) /\ UNCHANGED <<prio, vt, slept, tqueue>>
    BY <1>2 DEF Resume, IsrResumeI
  <2>2. \/ Running /\ WakeupS(state, prio, ref[r]) /\ isr' = isr
        \/ Interruptible /\ state' = ReadyI(state, {ref[r]}) /\ currp' = currp /\ isr' = TRUE
    BY <1>2 DEF Resume, IsrResumeI
  <2> QED
    BY <2>1, <2>2, ResumeKeeps
<1>3. ASSUME NEW q \in TQueues, NEW time \in Times, Enqueue(q, time) PROVE PartsHold' /\ Once
  BY <1>3, EnqueueKeeps
<1>4. ASSUME NEW q \in TQueues, NEW n \in {1, Len(tqueue[q])}, NEW m \in Results, tqueue[q] # <<>>,
             DequeueS(q, n, m) \/ IsrDequeueI(q, n, m)
      PROVE  PartsHold' /\ Once
  <2>1. DequeueI(q, n, m) /\ UNCHANGED <<prio, vt, slept, ref>>
    BY <1>4 DEF DequeueS, IsrDequeueI
  <2>2. \/ Running /\ RescheduleS(ReadyI(state, First(q, n)), prio) /\ isr' = isr
        \/ Interruptible /\ state' = ReadyI(state, First(q, n)) /\ currp' = currp /\ isr' = TRUE
    BY <1>4 DEF DequeueS, IsrDequeueI
  <2> QED
    BY <1>4, <2>1, <2>2, DequeueKeeps
<1>5. CASE Sleep
  BY <1>5, SleepKeeps
<1>6. ASSUME NEW t \in Threads, Expire(t) PROVE PartsHold' /\ Once
  BY <1>6, ExpireKeeps
<1>7. ASSUME NEW t \in Threads, Wakeup(t) PROVE PartsHold' /\ Once
  BY <1>7, WakeupLate, WakeupInTime
<1>8. CASE EndIsr
  BY <1>8, EndIsrKeeps
<1>9. CASE Return
  BY <1>9, ReturnKeeps
<1>10. CASE ThreadStep
  BY <1>1, <1>2, <1>3, <1>4, <1>5, <1>10 DEF ThreadStep
<1>11. CASE IsrStep
  BY <1>2, <1>4, <1>6, <1>7, <1>8, <1>11 DEF IsrStep
<1> QED
  BY <1>9, <1>10, <1>11

LEMMA NextKeeps ==
  ASSUME WaitsInv, Next
  PROVE  WaitsInv' /\ Once
<1>1. PartsHold /\ OneCall
  BY DEF WaitsInv
<1>2. OneCall'
  BY <1>1, OneCallKept
<1>3. PartsHold' /\ Once
  <2>1. CASE (ThreadStep \/ IsrStep \/ Return) /\ UNCHANGED <<msgobjs, evtobjs>>
    BY <1>1, <2>1, SyncStepKeeps
  <2>2. CASE MsgStep /\ UNCHANGED <<objs, evtobjs>>
    <3>1. CASE \E s \in Servers : MsgSend(s)
      BY <1>1, <2>2, <3>1, MsgSendKeeps
    <3>2. CASE MsgWait
      BY <1>1, <2>2, <3>2, MsgWaitKeeps
    <3>3. CASE EndMsgWait
      BY <1>1, <2>2, <3>3, EndMsgWaitKeeps
    <3>4. CASE \E t \in Threads, m \in Answers : MsgRelease(t, m)
      BY <1>1, <2>2, <3>4, MsgReleaseKeeps
    <3> QED
      BY <2>2, <3>1, <3>2, <3>3, <3>4 DEF MsgStep
  <2>3. CASE EvtStep /\ UNCHANGED <<objs, msgobjs>>
    <3>1. CASE BySource \/ IsrBySource
      BY <1>1, <2>3, <3>1, BySourceKeeps
    <3>2. CASE \E l \in Listeners : Register(l) \/ Unregister(l) \/ GetAndClearFlags(l)
      BY <1>1, <2>3, <3>2, ListenerKeeps
    <3>3. CASE \E e \in Events : GetAndClearEvents({e}) \/ AddEvents({e})
      BY <1>1, <2>3, <3>3, GetAndClearEventsKeeps, AddEventsKeeps
    <3>4. CASE \E kind \in {"one", "any", "all"}, mask \in WaitMasks, time \in {"INFINITE", "FINITE"} :
                 WaitEvents(kind, mask, time)
      BY <1>1, <2>3, <3>4, WaitEventsKeeps
    <3>5. CASE EndWaitEvents
      BY <1>1, <2>3, <3>5, EndWaitEventsKeeps
    <3> QED
      BY <2>3, <3>1, <3>2, <3>3, <3>4, <3>5 DEF EvtStep
  <2> QED
    BY <2>1, <2>2, <2>3 DEF Next
<1> QED
  BY <1>2, <1>3 DEF WaitsInv

LEMMA StutterKeeps ==
  ASSUME WaitsInv, UNCHANGED vars
  PROVE  WaitsInv' /\ Once
<1>1. /\ UNCHANGED <<currp, state, prio, pu, vt, slept, isr>> /\ UNCHANGED <<ref, tqueue>>
      /\ UNCHANGED <<msgqueue, receiving, held>>
      /\ UNCHANGED <<epending, waits, listening, elflags, taken>>
      /\ UNCHANGED objs /\ UNCHANGED msgobjs /\ UNCHANGED evtobjs
  BY DEF vars, core, objs, msgobjs, evtobjs
<1>2. KernelHolds'
  BY <1>1 DEF WaitsInv, PartsHold, KernelHolds, OneCurrent, Fits
<1>3. Others({})
  BY <1>1 DEF Others, Still
<1>4. RefsHold' /\ TQueuesHold' /\ MsgsHold' /\ EventsHold'
  BY <1>1, <1>3, PartsKept DEF WaitsInv
<1> QED
  BY <1>1, <1>2, <1>4 DEF WaitsInv, PartsHold, OneCall, Once

\* The inductive invariant holds of every behaviour.
THEOREM Invariance == Spec => []WaitsInv
<1>1. Init => WaitsInv
  BY InitHolds
<1>2. WaitsInv /\ [Next]_vars => WaitsInv'
  BY NextKeeps, StutterKeeps
<1> QED
  BY <1>1, <1>2, PTL DEF Spec

\* The state of every thread and of every object keeps its type, whichever
\* calls threads and handlers make (chthreads.c, chmsg.c, chevents.c).
THEOREM TypeCorrect == Spec => []TypeOK
<1>1. WaitsInv => TypeOK
  <2> SUFFICES ASSUME WaitsInv PROVE TypeOK
    OBVIOUS
  <2>1. States = {"READY", "CURRENT", "SLEEPING", "SUSPENDED", "QUEUED",
                  "SNDMSGQ", "SNDMSG", "WTMSG", "WTOREVT", "WTANDEVT"}
    BY DEF States, Awake, Asleep
  <2> QED
    BY <2>1 DEF WaitsInv, PartsHold, KernelHolds, OneCurrent, RefsHold, TQueuesHold, MsgsHold,
       EventsHold, TypeOK
<1> QED
  BY <1>1, Invariance, PTL

\* A reference points to a thread exactly while that thread is suspended on
\* it, and a thread is in one queue, once, exactly while it is QUEUED, although
\* threads, handlers and the time-out (wakeup() in chschd.c) all end waits.
THEOREM WaitersAreExact == Spec => []WaitersExact
<1>1. WaitsInv => WaitersExact
  <2> SUFFICES ASSUME RefsHold, TQueuesHold PROVE WaitersExact
    BY DEF WaitsInv, PartsHold
  <2>1. ASSUME NEW t \in Threads
        PROVE  Cardinality({q \in TQueues : t \in ToSet(tqueue[q])})
                 = IF state[t] = "QUEUED" THEN 1 ELSE 0
    <3> DEFINE Q == {q \in TQueues : t \in ToSet(tqueue[q])}
    <3>1. CASE state[t] = "QUEUED"
      <4>1. PICK q \in TQueues : t \in ToSet(tqueue[q])
        BY <3>1 DEF TQueuesHold
      <4>2. Q = {q}
        BY <4>1 DEF TQueuesHold
      <4> QED
        BY <3>1, <4>2, FS_Singleton
    <3>2. CASE state[t] # "QUEUED"
      <4>1. Q = {}
        BY <3>2 DEF TQueuesHold
      <4> QED
        BY <3>2, <4>1, FS_EmptySet
    <3> QED
      BY <3>1, <3>2
  <2> QED
    BY <2>1 DEF WaitersExact, RefsHold, TQueuesHold
<1> QED
  BY <1>1, Invariance, PTL

\* A sender is in its server's queue or held by it for as long as it sleeps;
\* no server sleeps over a message, and a woken one finds a sender, which
\* chMsgWait takes without looking.
THEOREM MessagesAreExact == Spec => []MessagesExact
<1>1. WaitsInv => MessagesExact
  <2> SUFFICES ASSUME KernelHolds, MsgsHold PROVE MessagesExact
    BY DEF WaitsInv, PartsHold
  <2>1. \A t \in Threads : state[t] \in {"SNDMSG", "SNDMSGQ"} => pu[t] \in Servers
    BY MsgStatesAre DEF KernelHolds, Fits
  <2> QED
    BY <2>1 DEF MessagesExact, MsgsHold, Inbox
<1> QED
  BY <1>1, Invariance, PTL

\* Nobody sleeps on events it has, whoever was woken for events finds them,
\* and flags that a listener wants are announced to its thread (chevents.c).
THEOREM EventsAreKept == Spec => []EventsNotLost
<1>1. WaitsInv => EventsNotLost
  <2> SUFFICES ASSUME EventsHold PROVE EventsNotLost
    BY DEF WaitsInv, PartsHold
  <2>1. ASSUME NEW t \in Waiters, waits[t] # None
        PROVE  IF state[t] \in {"WTOREVT", "WTANDEVT"}
                 THEN ~Met(waits[t].kind, waits[t].mask, epending[t])
                 ELSE pu[t] = MSG_OK => Met(waits[t].kind, waits[t].mask, epending[t])
    <3>1. WaitHolds(t)
      BY DEF EventsHold
    <3> QED
      BY <2>1, <3>1, MsgStatesAre DEF WaitHolds
  <2>2. \A l \in listening : Announced(l)
    BY DEF EventsHold
  <2> QED
    BY <2>1, <2>2 DEF EventsNotLost, Announced
<1> QED
  BY <1>1, Invariance, PTL

\* Between the answer and the end of the call that waited for it, nobody
\* writes p_u again: an answer is never overwritten by a second one.
THEOREM AnswersAreKept == Spec => OneAnswer
<1>1. WaitsInv /\ [Next]_vars =>
        [\A t \in Threads : slept[t] /\ state[t] \in {"READY", "CURRENT"} => pu'[t] = pu[t]]_vars
  BY NextKeeps, StutterKeeps DEF Once, Awake
<1> QED
  BY <1>1, Invariance, PTL DEF Spec, OneAnswer

=============================================================================
