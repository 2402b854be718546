---------------------------- MODULE ChMtx_proofs ----------------------------
(***************************************************************************)
(* What holds of mutexes, condition variables and priority inheritance for *)
(* any number of threads, mutexes and condition variables, and any         *)
(* priorities.                                                             *)
(***************************************************************************)
EXTENDS ChMtx, Queues_proofs

-----------------------------------------------------------------------------
(***************************************************************************)
(* The parts of the first invariant, parameterised by the values they are  *)
(* about: chCondWaitS goes through states in which a mutex is given back   *)
(* and the wait not begun.                                                 *)
(***************************************************************************)
States == {"READY", "CURRENT", "WTMTX", "WTCOND", "SLEEPING"}

\* Thread c, and no other, is the running one.
OneCurrent(s, c) ==
  /\ s \in [Threads -> States]
  /\ c \in Threads
  /\ \A t \in Threads : s[t] = "CURRENT" <=> t = c

MostUrgent(s, c, p) == \A t \in Ready(s) : p[t] <= p[c]

\* The same threads wait, for the same.
SameWaits(s1, s2) ==
  \A t \in Threads :
    s2[t] = s1[t] \/ (s1[t] \in {"READY", "CURRENT"} /\ s2[t] \in {"READY", "CURRENT"})

\* Queue q[o] holds, once each, the threads that wait in state w for o.
Lines(O, q, w, s, u) ==
  /\ q \in [O -> Seq(Threads)]
  /\ \A o \in O :
       /\ IsInjective(q[o])
       /\ \A t \in Threads : t \in ToSet(q[o]) <=> (s[t] = w /\ u[t] = o)

\* Owners and lists agree, and a mutex without owner has no waiters.
Owned(ow, ml) ==
  /\ ow \in [Mutexes -> Threads \cup {None}]
  /\ ml \in [Threads -> Seq(Mutexes)]
  /\ \A t \in Threads : IsInjective(ml[t])
  /\ \A m \in Mutexes, t \in Threads : m \in ToSet(ml[t]) <=> ow[m] = t

Free(ow, mq) == \A m \in Mutexes : ow[m] = None => mq[m] = <<>>

\* What the call of a sleeping thread says about its state.
CallOf(t, cl, s, u, ow, ml) ==
  /\ s[t] = "WTMTX" => cl[t].op = "lock" /\ u[t] = cl[t].m
  /\ s[t] = "WTCOND" => cl[t].op = "wait" /\ u[t] \in Conds
  /\ cl[t].op = "lock" =>
       /\ cl[t].m \in Mutexes
       /\ s[t] # "WTMTX" => ow[cl[t].m] = t /\ Head(ml[t]) = cl[t].m
  /\ cl[t].op = "wait" => cl[t].m \in Mutexes /\ ow[cl[t].m] # t

CallsHold(cl, s, u, ow, ml) == \A t \in Threads : CallOf(t, cl, s, u, ow, ml)

SleepersCall(cl, sl) == \A t \in Threads : cl[t].op # "none" => sl[t]

\* A timer bounds a sleep that is not the wait for a mutex; it fires in a
\* handler, and handlers interrupt thread code only, not the end of a call.
TimersHold ==
  /\ isr => ~slept[currp]
  /\ \A t \in Threads :
       /\ vt[t] = "firing" => isr
       /\ vt[t] # "off" => slept[t] /\ state[t] # "WTMTX"

MtxInv ==
  /\ TypeOK
  /\ OneCurrent(state, currp)
  /\ Lines(Mutexes, mqueue, "WTMTX", state, pu)
  /\ Lines(Conds, cqueue, "WTCOND", state, pu)
  /\ Owned(owner, mlist)
  /\ Free(owner, mqueue)
  /\ CallsHold(call, state, pu, owner, mlist)
  /\ SleepersCall(call, slept)
  /\ TimersHold

LEMMA PrioritiesNat ==
  ASSUME CoreAssumption, MtxAssumption
  PROVE  Priorities \subseteq Nat
  BY DEF CoreAssumption, MtxAssumption, Priorities

-----------------------------------------------------------------------------
\* The scheduler.

LEMMA ReadyKeepsCurrent ==
  ASSUME NEW s, NEW c, OneCurrent(s, c), NEW W, c \notin W
  PROVE  OneCurrent(ReadyI(s, W), c)
  BY DEF OneCurrent, ReadyI, States

LEMMA RescheduleRestores ==
  ASSUME NEW s, NEW p \in [Threads -> Nat], OneCurrent(s, currp), RescheduleS(s, p)
  PROVE  /\ OneCurrent(state', currp')
         /\ SameWaits(s, state')
         /\ MostUrgent(state', currp', p)
<1>1. CASE \E t \in Ready(s) : p[t] > p[currp]
  <2>1. PICK t \in Highest(s, p) : SwitchTo(s, t, "READY")
    BY <1>1 DEF RescheduleS
  <2>2. t \in Threads /\ s[t] = "READY" /\ t # currp
    BY <2>1 DEF Highest, Ready, OneCurrent
  <2>3. /\ currp' = t
        /\ state' = [s EXCEPT ![currp] = "READY", ![t] = "CURRENT"]
    BY <2>1 DEF SwitchTo
  <2>4. OneCurrent(state', currp') /\ SameWaits(s, state')
    BY <2>2, <2>3 DEF OneCurrent, SameWaits, States
  <2>5. ASSUME NEW w \in Ready(state') PROVE p[w] <= p[t]
    <3>1. w = currp \/ w \in Ready(s)
      BY <2>2, <2>3 DEF Ready, OneCurrent
    <3>2. \A x \in Ready(s) : p[x] <= p[t]
      BY <2>1 DEF Highest
    <3>3. p[currp] <= p[t]
      BY <1>1, <3>2, <2>2 DEF Ready, OneCurrent
    <3> QED
      BY <3>1, <3>2, <3>3
  <2> QED
    BY <2>3, <2>4, <2>5 DEF MostUrgent
<1>2. CASE ~\E t \in Ready(s) : p[t] > p[currp]
  <2>1. state' = s /\ currp' = currp
    BY <1>2 DEF RescheduleS
  <2>2. \A t \in Ready(s) : p[t] <= p[currp]
    BY <1>2 DEF Ready, OneCurrent
  <2> QED
    BY <2>1, <2>2 DEF MostUrgent, SameWaits
<1> QED
  BY <1>1, <1>2

\* chSchWakeupS compares the woken thread with the running one only.
LEMMA WakeupSwitches ==
  ASSUME NEW t \in Threads, NEW p \in [Threads -> Nat], OneCurrent(state, currp), t # currp,
         WakeupS(state, p, t)
  PROVE  /\ OneCurrent(state', currp')
         /\ SameWaits(ReadyI(state, {t}), state')
         /\ currp' = IF p[t] <= p[currp] THEN currp ELSE t
         /\ Ready(state') \subseteq Ready(state) \cup {t, currp}
<1>1. CASE p[t] <= p[currp]
  BY <1>1 DEF WakeupS, OneCurrent, SameWaits, ReadyI, Ready, States
<1>2. CASE ~(p[t] <= p[currp])
  BY <1>2 DEF WakeupS, SwitchTo, OneCurrent, SameWaits, ReadyI, Ready, States
<1> QED
  BY <1>1, <1>2

\* That is enough if whoever was ready is no more urgent than one of them.
LEMMA WakeupRestores ==
  ASSUME NEW t \in Threads, NEW p \in [Threads -> Nat], OneCurrent(state, currp), t # currp,
         WakeupS(state, p, t),
         \A w \in Ready(state) : p[w] <= p[currp] \/ p[w] <= p[t]
  PROVE  MostUrgent(state', currp', p)
<1>1. /\ currp' = IF p[t] <= p[currp] THEN currp ELSE t
      /\ Ready(state') \subseteq Ready(state) \cup {t, currp}
  BY WakeupSwitches
<1>2. \A w \in Ready(state) : w \in Threads
  BY DEF Ready
<1>3. p[t] \in Nat /\ p[currp] \in Nat /\ \A w \in Ready(state) : p[w] \in Nat
  BY <1>2 DEF OneCurrent
<1>4. ASSUME NEW w \in Ready(state) \cup {t, currp}
      PROVE  p[w] <= (IF p[t] <= p[currp] THEN p[currp] ELSE p[t])
  BY <1>3
<1> QED
  BY <1>1, <1>4 DEF MostUrgent

\* A thread that goes to sleep hands the processor to the most urgent one.
LEMMA SleepSwitches ==
  ASSUME NEW s, NEW p \in [Threads -> Nat], NEW new \in {"WTMTX", "WTCOND", "SLEEPING"},
         NEW time, OneCurrent(s, currp), GoSleepTimeoutS(s, p, new, time)
  PROVE  /\ OneCurrent(state', currp')
         /\ currp' # currp
         /\ SameWaits([s EXCEPT ![currp] = new], state')
         /\ MostUrgent(state', currp', p)
<1>1. PICK t \in Highest(s, p) : SwitchTo(s, t, new)
  BY DEF GoSleepTimeoutS
<1>2. t \in Threads /\ s[t] = "READY" /\ t # currp
  BY <1>1 DEF Highest, Ready, OneCurrent
<1>3. /\ currp' = t
      /\ state' = [s EXCEPT ![currp] = new, ![t] = "CURRENT"]
  BY <1>1 DEF SwitchTo
<1>4. Ready(state') \subseteq Ready(s)
  BY <1>2, <1>3 DEF Ready, OneCurrent
<1>5. \A x \in Ready(s) : p[x] <= p[t]
  BY <1>1 DEF Highest
<1>6. OneCurrent(state', currp')
  BY <1>2, <1>3 DEF OneCurrent, States
<1>7. SameWaits([s EXCEPT ![currp] = new], state')
  BY <1>2, <1>3 DEF OneCurrent, SameWaits
<1> QED
  BY <1>2, <1>3, <1>4, <1>5, <1>6, <1>7 DEF MostUrgent

-----------------------------------------------------------------------------
\* The queues.

LEMMA LinesSame ==
  ASSUME NEW O, NEW q, NEW w, NEW s, NEW u, NEW s2, NEW u2, Lines(O, q, w, s, u),
         \A t \in Threads : (s2[t] = w <=> s[t] = w) /\ (s[t] = w => u2[t] = u[t])
  PROVE  Lines(O, q, w, s2, u2)
  BY DEF Lines

\* The threads of W leave.
Shed(O, q, q2, W) ==
  /\ q2 \in [O -> Seq(Threads)]
  /\ \A o \in O : IsInjective(q2[o]) /\ ToSet(q2[o]) = ToSet(q[o]) \ W

LEMMA LinesLeave ==
  ASSUME NEW O, NEW q, NEW w, NEW s, NEW u, NEW q2, NEW s2, NEW u2, NEW W,
         Lines(O, q, w, s, u), Shed(O, q, q2, W),
         \A t \in Threads : (s2[t] = w <=> s[t] = w /\ t \notin W)
                            /\ (s2[t] = w => u2[t] = u[t])
  PROVE  Lines(O, q2, w, s2, u2)
<1>1. ASSUME NEW o \in O, NEW t \in Threads
      PROVE  t \in ToSet(q2[o]) <=> (s2[t] = w /\ u2[t] = o)
  <2>1. t \in ToSet(q2[o]) <=> t \in ToSet(q[o]) /\ t \notin W
    BY DEF Shed
  <2>2. t \in ToSet(q[o]) <=> (s[t] = w /\ u[t] = o)
    BY DEF Lines
  <2> QED
    BY <2>1, <2>2
<1> QED
  BY <1>1 DEF Lines, Shed

\* Thread c joins the queue of x.
Joined(O, q, q2, c, x) ==
  /\ q2 \in [O -> Seq(Threads)]
  /\ \A o \in O : IsInjective(q2[o])
                  /\ ToSet(q2[o]) = ToSet(q[o]) \cup (IF o = x THEN {c} ELSE {})

LEMMA LinesJoin ==
  ASSUME NEW O, NEW q, NEW w, NEW s, NEW u, NEW q2, NEW s2, NEW u2,
         NEW c \in Threads, NEW x \in O,
         Lines(O, q, w, s, u), Joined(O, q, q2, c, x),
         s[c] # w, s2[c] = w, u2[c] = x,
         \A t \in Threads \ {c} : (s2[t] = w <=> s[t] = w) /\ u2[t] = u[t]
  PROVE  Lines(O, q2, w, s2, u2)
<1>1. ASSUME NEW o \in O, NEW t \in Threads
      PROVE  t \in ToSet(q2[o]) <=> (s2[t] = w /\ u2[t] = o)
  <2>1. t \in ToSet(q2[o]) <=> t \in ToSet(q[o]) \/ (o = x /\ t = c)
    BY DEF Joined
  <2>2. t \in ToSet(q[o]) <=> (s[t] = w /\ u[t] = o)
    BY DEF Lines
  <2>3. CASE t = c
    BY <2>1, <2>2, <2>3
  <2>4. CASE t # c
    BY <2>1, <2>2, <2>4
  <2> QED
    BY <2>3, <2>4
<1> QED
  BY <1>1 DEF Lines, Joined

LEMMA InQueue ==
  ASSUME NEW S, NEW q \in Seq(S)
  PROVE  ToSet(q) \subseteq S
<1>1. \A i \in DOMAIN q : q[i] \in S
  OBVIOUS
<1> QED
  BY <1>1 DEF ToSet

\* Priorities do not matter to who is where.
LEMMA ReorderKeeps ==
  ASSUME NEW q \in Seq(Threads), IsInjective(q), NEW B, NEW p \in [Threads -> Nat]
  PROVE  /\ Reorder(q, B, p) \in Seq(Threads)
         /\ IsInjective(Reorder(q, B, p))
         /\ ToSet(Reorder(q, B, p)) = ToSet(q)
<1>1. CASE B \cap ToSet(q) = {}
  BY <1>1 DEF Reorder
<1>2. CASE B \cap ToSet(q) # {}
  <2> DEFINE t == CHOOSE w \in B \cap ToSet(q) : TRUE
             d == Dequeue(q, t)
  <2>1. t \in ToSet(q)
    BY <1>2
  <2>3. Reorder(q, B, p) = PrioInsert(d, t, p)
    BY <1>2 DEF Reorder
  <2> HIDE DEF t
  <2>2. t \in Threads
    BY <2>1, InQueue
  <2>4. d \in Seq(Threads) /\ IsInjective(d) /\ ToSet(d) = ToSet(q) \ {t}
    BY <2>1, DequeueOne
  <2> HIDE DEF d
  <2>5. /\ PrioInsert(d, t, p) \in Seq(Threads)
        /\ IsInjective(PrioInsert(d, t, p))
        /\ ToSet(PrioInsert(d, t, p)) = ToSet(d) \cup {t}
    BY <2>2, <2>4, PrioInsertNew
  <2> QED
    BY <2>1, <2>3, <2>4, <2>5
<1> QED
  BY <1>1, <1>2

-----------------------------------------------------------------------------
\* Owners.

LEMMA TakeOwned ==
  ASSUME MtxAssumption, Owned(owner, mlist), Free(owner, mqueue),
         NEW m \in Mutexes, owner[m] = None, NEW t \in Threads, Take(m, t)
  PROVE  Owned(owner', mlist') /\ Free(owner', mqueue)
<1>1. owner' = [owner EXCEPT ![m] = t] /\ mlist' = [mlist EXCEPT ![t] = <<m>> \o mlist[t]]
  BY DEF Take
<1>2. t # None /\ m \notin ToSet(mlist[t]) /\ mlist[t] \in Seq(Mutexes) /\ IsInjective(mlist[t])
  BY DEF MtxAssumption, Owned
<1> DEFINE l == <<m>> \o mlist[t]
<1>3. l \in Seq(Mutexes) /\ IsInjective(l) /\ ToSet(l) = ToSet(mlist[t]) \cup {m}
  BY <1>2, PushFront
<1> HIDE DEF l
<1>4. mlist' = [mlist EXCEPT ![t] = l]
  BY <1>1 DEF l
<1>5. owner' \in [Mutexes -> Threads \cup {None}] /\ mlist' \in [Threads -> Seq(Mutexes)]
  BY <1>1, <1>3, <1>4 DEF Owned
<1>6. ASSUME NEW x \in Threads PROVE IsInjective(mlist'[x])
  BY <1>3, <1>4 DEF Owned
<1>7. ASSUME NEW k \in Mutexes, NEW x \in Threads
      PROVE  k \in ToSet(mlist'[x]) <=> owner'[k] = x
  <2>1. k \in ToSet(mlist[x]) <=> owner[k] = x
    BY DEF Owned
  <2>2. owner'[k] = IF k = m THEN t ELSE owner[k]
    BY <1>1 DEF Owned
  <2>3. mlist'[x] = IF x = t THEN l ELSE mlist[x]
    BY <1>4 DEF Owned
  <2>4. owner[m] # x
    BY DEF MtxAssumption
  <2> QED
    BY <1>3, <2>1, <2>2, <2>3, <2>4
<1>8. Free(owner', mqueue)
  BY <1>1, <1>2 DEF Free, Owned
<1> QED
  BY <1>5, <1>6, <1>7, <1>8 DEF Owned

LEMMA TakeCalls ==
  ASSUME MtxAssumption, Owned(owner, mlist), NEW cl, CallsHold(cl, state, pu, owner, mlist),
         NEW m \in Mutexes, owner[m] = None, NEW t \in Threads, Take(m, t),
         cl[t].op \notin {"lock", "wait"}
  PROVE  CallsHold(cl, state, pu, owner', mlist')
<1>1. owner' = [owner EXCEPT ![m] = t] /\ mlist' = [mlist EXCEPT ![t] = <<m>> \o mlist[t]]
  BY DEF Take
<1>2. ASSUME NEW x \in Threads PROVE CallOf(x, cl, state, pu, owner', mlist')
  <2>0. CallOf(x, cl, state, pu, owner, mlist)
    BY DEF CallsHold
  <2>1. CASE x = t
    BY <2>0, <2>1 DEF CallOf
  <2>2. CASE x # t
    <3>1. mlist'[x] = mlist[x]
      BY <1>1, <2>2 DEF Owned
    <3>2. \A k \in Mutexes : owner'[k] = IF k = m THEN t ELSE owner[k]
      BY <1>1 DEF Owned
    <3>3. owner[m] # x
      BY DEF MtxAssumption
    <3> QED
      BY <2>0, <2>2, <3>1, <3>2, <3>3 DEF CallOf
  <2> QED
    BY <2>1, <2>2
<1> QED
  BY <1>2 DEF CallsHold

\* Who waits for a mutex is found in its queue, and the other way round.
LEMMA HeadWaits ==
  ASSUME MtxInv, NEW m \in Mutexes, mqueue[m] # <<>>
  PROVE  LET t == Head(mqueue[m]) IN
         /\ t \in Threads /\ t # currp
         /\ state[t] = "WTMTX" /\ pu[t] = m
         /\ call[t].op = "lock" /\ call[t].m = m
<1> DEFINE t == Head(mqueue[m])
<1>1. mqueue[m] \in Seq(Threads) /\ IsInjective(mqueue[m])
  BY DEF MtxInv, Lines
<1>2. t \in Threads /\ t \in ToSet(mqueue[m])
  BY <1>1, TailQueue
<1> HIDE DEF t
<1>3. state[t] = "WTMTX" /\ pu[t] = m
  BY <1>2 DEF MtxInv, Lines
<1>4. t # currp
  BY <1>2, <1>3 DEF MtxInv, OneCurrent
<1>5. CallOf(t, call, state, pu, owner, mlist)
  BY <1>2 DEF MtxInv, CallsHold
<1> QED
  BY <1>2, <1>3, <1>4, <1>5 DEF CallOf, t

Heir(m) == {t \in Threads : mqueue[m] # <<>> /\ t = Head(mqueue[m])}

LEMMA RunnerCallsNot ==
  ASSUME MtxInv, Running
  PROVE  /\ call[currp].op = "none"
         /\ currp \in Threads /\ state[currp] = "CURRENT" /\ ~isr /\ ~slept[currp]
  BY DEF MtxInv, Running, SleepersCall, OneCurrent

\* The mutex last locked goes to its heir, or is free: owners and lists.
LEMMA HandOverOwned ==
  ASSUME MtxAssumption, MtxInv, NEW m \in Mutexes,
         mlist[currp] # <<>>, Head(mlist[currp]) = m, HandOver(m)
  PROVE  Owned(owner', mlist') /\ Free(owner', mqueue')
<1>1. currp \in Threads /\ mlist[currp] \in Seq(Mutexes) /\ IsInjective(mlist[currp])
  BY DEF MtxInv, OneCurrent, Owned
<1> DEFINE l == Tail(mlist[currp])
<1>2. l \in Seq(Mutexes) /\ IsInjective(l) /\ ToSet(l) = ToSet(mlist[currp]) \ {m}
      /\ m \in ToSet(mlist[currp])
  BY <1>1, TailQueue
<1> HIDE DEF l
<1>3. Owned(owner, mlist) /\ Free(owner, mqueue) /\ owner[m] = currp
  BY <1>1, <1>2 DEF MtxInv, Owned
<1>3a. /\ mlist \in [Threads -> Seq(Mutexes)] /\ owner \in [Mutexes -> Threads \cup {None}]
       /\ mqueue \in [Mutexes -> Seq(Threads)]
  BY DEF MtxInv, Owned, Lines
<1>4. CASE mqueue[m] # <<>>
  <2> DEFINE t == Head(mqueue[m])
             h == <<m>> \o mlist[t]
  <2>1. t \in Threads /\ t # currp
    BY <1>4, HeadWaits
  <2>2. /\ owner' = [owner EXCEPT ![m] = t]
        /\ mlist' = [mlist EXCEPT ![currp] = l, ![t] = h]
        /\ mqueue' = [mqueue EXCEPT ![m] = Tail(mqueue[m])]
    BY <1>1, <1>4, <2>1, <1>3a DEF HandOver, l
  <2> HIDE DEF t
  <2>3. mlist[t] \in Seq(Mutexes) /\ IsInjective(mlist[t]) /\ m \notin ToSet(mlist[t])
    BY <1>3, <2>1 DEF Owned
  <2>4. h \in Seq(Mutexes) /\ IsInjective(h) /\ ToSet(h) = ToSet(mlist[t]) \cup {m}
    BY <2>3, PushFront
  <2> HIDE DEF h
  <2>5. owner' \in [Mutexes -> Threads \cup {None}] /\ mlist' \in [Threads -> Seq(Mutexes)]
    BY <1>2, <1>3a, <2>1, <2>2, <2>4
  <2>6. \A x \in Threads : mlist'[x] = IF x = t THEN h ELSE IF x = currp THEN l ELSE mlist[x]
    BY <1>3a, <2>1, <2>2
  <2>7. \A k \in Mutexes : owner'[k] = IF k = m THEN t ELSE owner[k]
    BY <1>3a, <2>2
  <2>8. ASSUME NEW x \in Threads PROVE IsInjective(mlist'[x])
    BY <1>2, <1>3, <2>4, <2>6 DEF Owned
  <2>9. ASSUME NEW k \in Mutexes, NEW x \in Threads
        PROVE  k \in ToSet(mlist'[x]) <=> owner'[k] = x
    <3>1. k \in ToSet(mlist[x]) <=> owner[k] = x
      BY <1>3 DEF Owned
    <3> QED
      BY <1>2, <1>3, <2>1, <2>4, <2>6, <2>7, <3>1
  <2>10. Free(owner', mqueue')
    <3>1. t # None
      BY <2>1 DEF MtxAssumption
    <3> QED
      BY <1>3, <1>3a, <2>2, <2>7, <3>1 DEF Free
  <2> QED
    BY <2>5, <2>8, <2>9, <2>10 DEF Owned
<1>5. CASE mqueue[m] = <<>>
  <2>2. /\ owner' = [owner EXCEPT ![m] = None]
        /\ mlist' = [mlist EXCEPT ![currp] = l]
        /\ mqueue' = mqueue
    BY <1>5 DEF HandOver, l
  <2>5. owner' \in [Mutexes -> Threads \cup {None}] /\ mlist' \in [Threads -> Seq(Mutexes)]
    BY <1>2, <1>3a, <2>2
  <2>6. \A x \in Threads : mlist'[x] = IF x = currp THEN l ELSE mlist[x]
    BY <1>3a, <2>2
  <2>7. \A k \in Mutexes : owner'[k] = IF k = m THEN None ELSE owner[k]
    BY <1>3a, <2>2
  <2>8. ASSUME NEW x \in Threads PROVE IsInjective(mlist'[x])
    BY <1>2, <1>3, <2>6 DEF Owned
  <2>9. ASSUME NEW k \in Mutexes, NEW x \in Threads
        PROVE  k \in ToSet(mlist'[x]) <=> owner'[k] = x
    <3>1. k \in ToSet(mlist[x]) <=> owner[k] = x
      BY <1>3 DEF Owned
    <3>2. x # None
      BY DEF MtxAssumption
    <3> QED
      BY <1>2, <1>3, <2>6, <2>7, <3>1, <3>2
  <2>10. Free(owner', mqueue')
    BY <1>3, <1>5, <2>2, <2>7 DEF Free
  <2> QED
    BY <2>5, <2>8, <2>9, <2>10 DEF Owned
<1> QED
  BY <1>4, <1>5

\* Once the heir is ready, whatever its union says.
LEMMA HandOverLines ==
  ASSUME MtxInv, NEW m \in Mutexes, HandOver(m), NEW u2,
         \A t \in Threads \ Heir(m) : u2[t] = pu[t]
  PROVE  /\ Lines(Mutexes, mqueue', "WTMTX", ReadyI(state, Heir(m)), u2)
         /\ Lines(Conds, cqueue, "WTCOND", ReadyI(state, Heir(m)), u2)
<1> DEFINE s2 == ReadyI(state, Heir(m))
<1>1. \A t \in Threads : s2[t] = IF t \in Heir(m) THEN "READY" ELSE state[t]
  BY DEF ReadyI
<1>2. Lines(Mutexes, mqueue, "WTMTX", state, pu) /\ Lines(Conds, cqueue, "WTCOND", state, pu)
  BY DEF MtxInv
<1>3. mqueue \in [Mutexes -> Seq(Threads)]
  BY <1>2 DEF Lines
<1>4. ASSUME NEW t \in Heir(m) PROVE state[t] = "WTMTX" /\ pu[t] = m
  BY HeadWaits DEF Heir
<1> HIDE DEF s2
<1>5. mqueue' \in [Mutexes -> Seq(Threads)]
      /\ \A k \in Mutexes : IsInjective(mqueue'[k]) /\ ToSet(mqueue'[k]) = ToSet(mqueue[k]) \ Heir(m)
  <2>0. \A k \in Mutexes : mqueue[k] \in Seq(Threads) /\ IsInjective(mqueue[k])
    BY <1>2, <1>3 DEF Lines
  <2>1. CASE mqueue[m] = <<>>
    <3>1. Heir(m) = {} /\ mqueue' = mqueue
      BY <2>1 DEF Heir, HandOver
    <3> QED
      BY <1>3, <2>0, <3>1
  <2>2. CASE mqueue[m] # <<>>
    <3>1. /\ Tail(mqueue[m]) \in Seq(Threads) /\ IsInjective(Tail(mqueue[m]))
          /\ ToSet(Tail(mqueue[m])) = ToSet(mqueue[m]) \ {Head(mqueue[m])}
          /\ Head(mqueue[m]) \in Threads
      BY <2>0, <2>2, TailQueue
    <3>2. mqueue' = [mqueue EXCEPT ![m] = Tail(mqueue[m])]
      BY <2>2 DEF HandOver
    <3>3. Heir(m) = {Head(mqueue[m])}
      BY <2>2, <3>1 DEF Heir
    <3>4. \A k \in Mutexes : mqueue'[k] = IF k = m THEN Tail(mqueue[m]) ELSE mqueue[k]
      BY <1>3, <3>2
    <3>5. ASSUME NEW k \in Mutexes, k # m PROVE Head(mqueue[m]) \notin ToSet(mqueue[k])
      <4>1. pu[Head(mqueue[m])] = m
        BY <1>4, <3>3
      <4> QED
        BY <1>2, <3>1, <3>5, <4>1 DEF Lines
    <3> QED
      BY <1>3, <2>0, <3>1, <3>2, <3>3, <3>4, <3>5
  <2> QED
    BY <2>1, <2>2
<1>6. \A t \in Threads : (s2[t] = "WTMTX" <=> state[t] = "WTMTX" /\ t \notin Heir(m))
                         /\ (s2[t] = "WTMTX" => u2[t] = pu[t])
  BY <1>1
<1>7. Lines(Mutexes, mqueue', "WTMTX", s2, u2)
  <2>1. Shed(Mutexes, mqueue, mqueue', Heir(m))
    BY <1>5 DEF Shed
  <2> QED
    BY <1>2, <1>6, <2>1, LinesLeave
<1>8. \A t \in Threads : (s2[t] = "WTCOND" <=> state[t] = "WTCOND")
                         /\ (state[t] = "WTCOND" => u2[t] = pu[t])
  BY <1>1, <1>4
<1>9. Lines(Conds, cqueue, "WTCOND", s2, u2)
  BY <1>2, <1>8, LinesSame
<1> QED
  BY <1>7, <1>9 DEF s2

LEMMA HandOverCalls ==
  ASSUME MtxAssumption, MtxInv, Running, NEW m \in Mutexes,
         mlist[currp] # <<>>, Head(mlist[currp]) = m, HandOver(m),
         NEW u2, \A t \in Threads \ Heir(m) : u2[t] = pu[t]
  PROVE  CallsHold(call, ReadyI(state, Heir(m)), u2, owner', mlist')
<1>0. /\ mlist \in [Threads -> Seq(Mutexes)] /\ owner \in [Mutexes -> Threads \cup {None}]
      /\ currp \in Threads /\ call[currp].op = "none"
  BY RunnerCallsNot DEF MtxInv, Owned
<1>1. owner[m] = currp
  <2>1. m \in ToSet(mlist[currp])
    BY <1>0, TailQueue DEF MtxInv, Owned
  <2> QED
    BY <1>0, <2>1 DEF MtxInv, Owned
<1> SUFFICES ASSUME NEW x \in Threads
             PROVE  CallOf(x, call, ReadyI(state, Heir(m)), u2, owner', mlist')
  BY DEF CallsHold
<1>2. CallOf(x, call, state, pu, owner, mlist)
  BY DEF MtxInv, CallsHold
<1>3. ReadyI(state, Heir(m))[x] = IF x \in Heir(m) THEN "READY" ELSE state[x]
  BY DEF ReadyI
<1>4. CASE x \in Heir(m)
  <2>1. mqueue[m] # <<>> /\ x = Head(mqueue[m])
    BY <1>4 DEF Heir
  <2>2. x # currp /\ call[x].op = "lock" /\ call[x].m = m
    BY <2>1, HeadWaits
  <2>3. owner'[m] = x /\ mlist'[x] = <<m>> \o mlist[x]
    BY <1>0, <2>1, <2>2 DEF HandOver
  <2>4. Head(<<m>> \o mlist[x]) = m
    BY <1>0
  <2> QED
    BY <1>3, <1>4, <2>2, <2>3, <2>4 DEF CallOf
<1>5. CASE x \notin Heir(m) /\ x # currp
  <2>1. mlist'[x] = mlist[x]
    BY <1>0, <1>5 DEF HandOver, Heir
  <2>2. \A k \in Mutexes : k # m => owner'[k] = owner[k]
    BY <1>0 DEF HandOver
  <2>3. owner'[m] # x
    BY <1>0, <1>5 DEF HandOver, Heir, MtxAssumption
  <2> QED
    BY <1>1, <1>2, <1>3, <1>5, <2>1, <2>2, <2>3 DEF CallOf
<1>6. CASE x \notin Heir(m) /\ x = currp
  <2>1. state[x] = "CURRENT"
    BY <1>6, RunnerCallsNot
  <2> QED
    BY <1>0, <1>3, <1>6, <2>1 DEF CallOf
<1> QED
  BY <1>4, <1>5, <1>6

-----------------------------------------------------------------------------
\* Putting the parts together, and what a reschedule leaves alone.

Rest ==
  /\ prio \in [Threads -> Priorities]
  /\ realprio \in [Threads -> Priorities]
  /\ pu \in [Threads -> Msgs \cup Mutexes \cup Conds]
  /\ vt \in [Threads -> {"off", "armed", "firing"}]
  /\ slept \in [Threads -> BOOLEAN]
  /\ isr \in BOOLEAN
  /\ call \in [Threads -> [op : {"none", "lock", "wait", "sleep"}, m : Mutexes \cup {None}]]

LEMMA Assemble ==
  ASSUME Rest', OneCurrent(state', currp'),
         Lines(Mutexes, mqueue', "WTMTX", state', pu'),
         Lines(Conds, cqueue', "WTCOND", state', pu'),
         Owned(owner', mlist'), Free(owner', mqueue'),
         CallsHold(call', state', pu', owner', mlist'), SleepersCall(call', slept'), TimersHold'
  PROVE  MtxInv'
  BY DEF MtxInv, TypeOK, Rest, OneCurrent, States, Lines, Owned

LEMMA Parts ==
  ASSUME MtxInv
  PROVE  /\ Rest
         /\ owner \in [Mutexes -> Threads \cup {None}]
         /\ mlist \in [Threads -> Seq(Mutexes)]
         /\ mqueue \in [Mutexes -> Seq(Threads)]
         /\ cqueue \in [Conds -> Seq(Threads)]
         /\ currp \in Threads
         /\ state \in [Threads -> States]
         /\ state[currp] = "CURRENT"
  BY DEF MtxInv, TypeOK, Rest, OneCurrent, States

LEMMA LinesResume ==
  ASSUME NEW O, NEW q, NEW w \in {"WTMTX", "WTCOND"}, NEW s, NEW u, NEW s2,
         Lines(O, q, w, s, u), SameWaits(s, s2)
  PROVE  Lines(O, q, w, s2, u)
<1>1. \A t \in Threads : (s2[t] = w <=> s[t] = w) /\ (s[t] = w => u[t] = u[t])
  BY DEF SameWaits
<1> QED
  BY <1>1, LinesSame

LEMMA CallsResume ==
  ASSUME NEW cl, NEW s, NEW u, NEW ow, NEW ml, NEW s2,
         CallsHold(cl, s, u, ow, ml), SameWaits(s, s2)
  PROVE  CallsHold(cl, s2, u, ow, ml)
<1>1. \A t \in Threads : s2[t] = "WTMTX" <=> s[t] = "WTMTX"
  BY DEF SameWaits
<1>2. \A t \in Threads : s2[t] = "WTCOND" <=> s[t] = "WTCOND"
  BY DEF SameWaits
<1> QED
  BY <1>1, <1>2 DEF CallsHold, CallOf

LEMMA BoostedPrioType ==
  ASSUME MtxInv, CoreAssumption, MtxAssumption, NEW m
  PROVE  /\ BoostedPrio(m) \in [Threads -> Priorities]
         /\ BoostedPrio(m) \in [Threads -> Nat]
         /\ prio \in [Threads -> Nat]
<1>1. prio \in [Threads -> Priorities] /\ currp \in Threads
  BY Parts DEF Rest
<1> QED
  BY <1>1, PrioritiesNat DEF BoostedPrio

-----------------------------------------------------------------------------
\* One lemma per operation.

LEMMA TakeKeeps ==
  ASSUME MtxAssumption, MtxInv, NEW m \in Mutexes, owner[m] = None,
         Running, Take(m, currp), UNCHANGED <<core, mqueue, cqueue, realprio, call>>
  PROVE  MtxInv'
<1>1. UNCHANGED <<currp, state, prio, pu, vt, slept, isr, mqueue, cqueue, realprio, call>>
  BY DEF core
<1>2. currp \in Threads /\ call[currp].op \notin {"lock", "wait"}
  BY RunnerCallsNot
<1>3. Owned(owner', mlist') /\ Free(owner', mqueue)
  BY <1>2, TakeOwned DEF MtxInv
<1>4. CallsHold(call, state, pu, owner', mlist')
  BY <1>2, TakeCalls DEF MtxInv
<1>5. /\ Owned(owner', mlist') /\ Free(owner', mqueue')
      /\ CallsHold(call', state', pu', owner', mlist')
  BY <1>1, <1>3, <1>4
<1>6. Rest'
  BY <1>1, Parts DEF Rest
<1>7. /\ OneCurrent(state', currp')
      /\ Lines(Mutexes, mqueue', "WTMTX", state', pu')
      /\ Lines(Conds, cqueue', "WTCOND", state', pu')
      /\ SleepersCall(call', slept')
      /\ TimersHold'
  BY <1>1 DEF MtxInv, TimersHold
<1> QED
  BY <1>5, <1>6, <1>7, Assemble

LEMMA BoostedLines ==
  ASSUME MtxInv, CoreAssumption, MtxAssumption, NEW m \in Mutexes, LockSleep(m)
  PROVE  /\ Joined(Mutexes, mqueue, mqueue', currp, m)
         /\ Shed(Conds, cqueue, cqueue', {})
<1> DEFINE p == BoostedPrio(m)
           B == Boosted(m)
           q(k) == Reorder(mqueue[k], B, p)
           r(c) == Reorder(cqueue[c], B, p)
<1>1. /\ p \in [Threads -> Nat] /\ currp \in Threads
      /\ \A k \in Mutexes : mqueue[k] \in Seq(Threads) /\ IsInjective(mqueue[k])
      /\ \A c \in Conds : cqueue[c] \in Seq(Threads) /\ IsInjective(cqueue[c])
  BY BoostedPrioType, Parts DEF MtxInv, Lines
<1>2. /\ mqueue' = [k \in Mutexes |-> IF k = m THEN PrioInsert(q(k), currp, p) ELSE q(k)]
      /\ cqueue' = [c \in Conds |-> r(c)]
  BY DEF LockSleep
<1> HIDE DEF p, B
<1>3. \A k \in Mutexes : q(k) \in Seq(Threads) /\ IsInjective(q(k)) /\ ToSet(q(k)) = ToSet(mqueue[k])
  BY <1>1, ReorderKeeps
<1>4. \A c \in Conds : r(c) \in Seq(Threads) /\ IsInjective(r(c)) /\ ToSet(r(c)) = ToSet(cqueue[c])
  BY <1>1, ReorderKeeps
<1>5. currp \notin ToSet(mqueue[m])
  BY <1>1 DEF MtxInv, Lines, OneCurrent
<1> HIDE DEF q, r
<1>6. /\ PrioInsert(q(m), currp, p) \in Seq(Threads)
      /\ IsInjective(PrioInsert(q(m), currp, p))
      /\ ToSet(PrioInsert(q(m), currp, p)) = ToSet(q(m)) \cup {currp}
  BY <1>1, <1>3, <1>5, PrioInsertNew
<1>7. Joined(Mutexes, mqueue, mqueue', currp, m)
  BY <1>2, <1>3, <1>6 DEF Joined
<1>8. Shed(Conds, cqueue, cqueue', {})
  BY <1>2, <1>4 DEF Shed
<1> QED
  BY <1>7, <1>8

LEMMA LockSleepKeeps ==
  ASSUME CoreAssumption, MtxAssumption, MtxInv, NEW m \in Mutexes, owner[m] # None,
         ~isr, call[currp].op \in {"none", "wait"}, LockSleep(m)
  PROVE  MtxInv'
<1> DEFINE p == BoostedPrio(m)
           s2 == [state EXCEPT ![currp] = "WTMTX"]
<1>1. /\ prio' = p
      /\ pu' = [pu EXCEPT ![currp] = m]
      /\ GoSleepTimeoutS(state, p, "WTMTX", "INFINITE")
      /\ call' = [call EXCEPT ![currp] = LockCall(m)]
      /\ UNCHANGED <<owner, mlist, isr, realprio>>
  BY DEF LockSleep
<1>2. /\ slept' = [slept EXCEPT ![currp] = TRUE]
      /\ vt' = [vt EXCEPT ![currp] = "off"]
  BY <1>1 DEF GoSleepTimeoutS
<1>3. p \in [Threads -> Priorities] /\ p \in [Threads -> Nat]
  BY BoostedPrioType
<1> HIDE DEF p
<1>4. OneCurrent(state, currp) /\ currp \in Threads /\ state \in [Threads -> States]
  BY Parts DEF MtxInv
<1>5. /\ OneCurrent(state', currp')
      /\ currp' # currp
      /\ SameWaits(s2, state')
  BY <1>1, <1>3, <1>4, SleepSwitches
<1>6. \A t \in Threads : s2[t] = IF t = currp THEN "WTMTX" ELSE state[t]
  BY <1>4
<1> HIDE DEF s2
<1>7. /\ pu \in [Threads -> Msgs \cup Mutexes \cup Conds]
      /\ call \in [Threads -> [op : {"none", "lock", "wait", "sleep"}, m : Mutexes \cup {None}]]
      /\ slept \in [Threads -> BOOLEAN]
      /\ vt \in [Threads -> {"off", "armed", "firing"}]
  BY Parts DEF Rest
<1>8. /\ \A t \in Threads : pu'[t] = IF t = currp THEN m ELSE pu[t]
      /\ \A t \in Threads : call'[t] = IF t = currp THEN LockCall(m) ELSE call[t]
      /\ \A t \in Threads : slept'[t] = IF t = currp THEN TRUE ELSE slept[t]
      /\ \A t \in Threads : vt'[t] = IF t = currp THEN "off" ELSE vt[t]
  BY <1>1, <1>2, <1>4, <1>7
<1>9. LockCall(m).op = "lock" /\ LockCall(m).m = m
  BY DEF LockCall
<1>10. Rest'
  <2>1. prio' \in [Threads -> Priorities] /\ realprio' \in [Threads -> Priorities] /\ isr' \in BOOLEAN
    BY <1>1, <1>3, Parts DEF Rest
  <2>2. /\ pu' \in [Threads -> Msgs \cup Mutexes \cup Conds]
        /\ slept' \in [Threads -> BOOLEAN]
        /\ vt' \in [Threads -> {"off", "armed", "firing"}]
    BY <1>1, <1>2, <1>4, <1>7
  <2>3. call' \in [Threads -> [op : {"none", "lock", "wait", "sleep"}, m : Mutexes \cup {None}]]
    <3>1. LockCall(m) \in [op : {"none", "lock", "wait", "sleep"}, m : Mutexes \cup {None}]
      BY DEF LockCall
    <3> QED
      BY <1>1, <1>7, <3>1
  <2> QED
    BY <2>1, <2>2, <2>3 DEF Rest
<1>11. Lines(Mutexes, mqueue', "WTMTX", s2, pu') /\ Lines(Conds, cqueue', "WTCOND", s2, pu')
  <2>1. Joined(Mutexes, mqueue, mqueue', currp, m) /\ Shed(Conds, cqueue, cqueue', {})
    BY BoostedLines
  <2>2. Lines(Mutexes, mqueue, "WTMTX", state, pu) /\ Lines(Conds, cqueue, "WTCOND", state, pu)
    BY DEF MtxInv
  <2>3. state[currp] # "WTMTX" /\ state[currp] # "WTCOND"
    BY Parts
  <2>4. s2[currp] = "WTMTX" /\ pu'[currp] = m
    BY <1>4, <1>6, <1>8
  <2>5. \A t \in Threads \ {currp} : (s2[t] = "WTMTX" <=> state[t] = "WTMTX") /\ pu'[t] = pu[t]
    BY <1>6, <1>8
  <2>6. Lines(Mutexes, mqueue', "WTMTX", s2, pu')
    BY <1>4, <2>1, <2>2, <2>3, <2>4, <2>5, LinesJoin
  <2>7. \A t \in Threads : (s2[t] = "WTCOND" <=> state[t] = "WTCOND" /\ t \notin {})
                           /\ (s2[t] = "WTCOND" => pu'[t] = pu[t])
    BY <1>6, <1>8, <2>3
  <2>8. Lines(Conds, cqueue', "WTCOND", s2, pu')
    BY <2>1, <2>2, <2>7, LinesLeave
  <2> QED
    BY <2>6, <2>8
<1>12. CallsHold(call', s2, pu', owner, mlist)
  <2> SUFFICES ASSUME NEW t \in Threads PROVE CallOf(t, call', s2, pu', owner, mlist)
    BY DEF CallsHold
  <2>1. CallOf(t, call, state, pu, owner, mlist)
    BY DEF MtxInv, CallsHold
  <2>2. CASE t = currp
    BY <1>6, <1>8, <1>9, <2>2 DEF CallOf
  <2>3. CASE t # currp
    BY <1>6, <1>8, <2>1, <2>3 DEF CallOf
  <2> QED
    BY <2>2, <2>3
<1>13. Owned(owner', mlist')
  BY <1>1 DEF MtxInv
<1>14. Free(owner', mqueue')
  <2> SUFFICES ASSUME NEW k \in Mutexes, owner[k] = None PROVE mqueue'[k] = <<>>
    BY <1>1 DEF Free
  <2>1. mqueue[k] = <<>>
    BY DEF MtxInv, Free
  <2>2. mqueue'[k] = Reorder(mqueue[k], Boosted(m), BoostedPrio(m))
    BY DEF LockSleep
  <2>3. ToSet(<<>>) = {}
    BY DEF ToSet
  <2> QED
    BY <2>1, <2>2, <2>3 DEF Reorder
<1>15. SleepersCall(call', slept')
  BY <1>8 DEF SleepersCall, MtxInv
<1>16. TimersHold'
  <2>1. \A t \in Threads : t # currp => (state'[t] = "WTMTX" <=> state[t] = "WTMTX")
    BY <1>5, <1>6 DEF SameWaits
  <2>2. ~isr'
    BY <1>1
  <2> QED
    BY <1>8, <2>1, <2>2 DEF TimersHold, MtxInv
<1>17. /\ Lines(Mutexes, mqueue', "WTMTX", state', pu')
       /\ Lines(Conds, cqueue', "WTCOND", state', pu')
       /\ CallsHold(call', state', pu', owner', mlist')
  BY <1>1, <1>5, <1>11, <1>12, LinesResume, CallsResume
<1> QED
  BY <1>5, <1>10, <1>13, <1>14, <1>15, <1>16, <1>17, Assemble

-----------------------------------------------------------------------------
\* The priority left to the thread that unlocks m.

Heads == {Head(mqueue[k]) : k \in {l \in ToSet(Tail(mlist[currp])) : mqueue[l] # <<>>}}

LEMMA PrioWithoutIs ==
  ASSUME CoreAssumption, MtxAssumption, MtxInv, NEW m, mlist[currp] # <<>>
  PROVE  /\ PrioWithout(m) \in {realprio[currp]} \cup {prio[w] : w \in Heads}
         /\ PrioWithout(m) >= realprio[currp]
         /\ \A w \in Heads : PrioWithout(m) >= prio[w]
         /\ Heads \subseteq Threads
<1> DEFINE l == Tail(mlist[currp])
           n == Len(l)
           g == [i \in 1..n+1 |-> IF i = n + 1 THEN realprio[currp]
                                  ELSE IF mqueue[l[i]] = <<>> THEN realprio[currp]
                                  ELSE prio[Head(mqueue[l[i]])]]
           S == {realprio[currp]} \cup {prio[w] : w \in Heads}
<1>1. l \in Seq(Mutexes)
  BY Parts, TailQueue DEF MtxInv, Owned
<1>2. realprio[currp] \in Nat /\ \A t \in Threads : prio[t] \in Nat
  BY Parts, PrioritiesNat DEF Rest
<1>3. n \in Nat /\ DOMAIN l = 1..n /\ \A i \in 1..n : l[i] \in Mutexes
  BY <1>1
<1>4. Heads = {Head(mqueue[k]) : k \in {x \in ToSet(l) : mqueue[x] # <<>>}}
  BY DEF Heads
<1> HIDE DEF l, n
<1>5. \A k \in Mutexes : mqueue[k] # <<>> => Head(mqueue[k]) \in Threads
  BY HeadWaits
<1>6. Heads \subseteq Threads
  BY <1>3, <1>4, <1>5 DEF ToSet
<1>7. g \in [1..n+1 -> Nat]
  BY <1>2, <1>3, <1>5
<1>8. n + 1 \in Nat \ {0}
  BY <1>3
<1>9. PICK i \in 1..n+1 : \A j \in 1..n+1 : g[j] <= g[i]
  BY <1>7, <1>8, Greatest
<1>10. g[i] \in S
  BY <1>3, <1>4 DEF ToSet
<1>11. g[i] >= realprio[currp]
  <2>1. n + 1 \in 1..n+1 /\ g[n + 1] = realprio[currp]
    BY <1>3
  <2> QED
    BY <1>2, <1>7, <1>9, <2>1
<1>12. ASSUME NEW w \in Heads PROVE g[i] >= prio[w]
  <2>1. PICK k \in ToSet(l) : mqueue[k] # <<>> /\ w = Head(mqueue[k])
    BY <1>4
  <2>2. PICK j \in 1..n : k = l[j]
    BY <1>3 DEF ToSet
  <2>3. j \in 1..n+1 /\ j # n + 1
    BY <1>3
  <2>4. g[j] = prio[w]
    BY <2>1, <2>2, <2>3
  <2> QED
    BY <1>7, <1>9, <2>3, <2>4
<1> HIDE DEF g
<1>13. PrioWithout(m) = CHOOSE p \in S : p >= realprio[currp] /\ \A w \in Heads : p >= prio[w]
  BY DEF PrioWithout, Heads
<1>14. \E p \in S : p >= realprio[currp] /\ \A w \in Heads : p >= prio[w]
  BY <1>10, <1>11, <1>12
<1> QED
  BY <1>6, <1>13, <1>14

LEMMA PrioAfterUnlockType ==
  ASSUME CoreAssumption, MtxAssumption, MtxInv, NEW m, mlist[currp] # <<>>
  PROVE  /\ PrioAfterUnlock(m) \in [Threads -> Priorities]
         /\ PrioAfterUnlock(m) \in [Threads -> Nat]
<1>1. prio \in [Threads -> Priorities] /\ realprio[currp] \in Priorities
  BY Parts DEF Rest
<1>2. PrioWithout(m) \in Priorities
  BY <1>1, PrioWithoutIs
<1> QED
  BY <1>1, <1>2, PrioritiesNat DEF PrioAfterUnlock

LEMMA LastLocked ==
  ASSUME MtxInv, mlist[currp] # <<>>
  PROVE  Head(mlist[currp]) \in Mutexes /\ Head(mlist[currp]) \in ToSet(mlist[currp])
         /\ owner[Head(mlist[currp])] = currp
<1>1. Head(mlist[currp]) \in Mutexes /\ Head(mlist[currp]) \in ToSet(mlist[currp])
  BY Parts, TailQueue DEF MtxInv, Owned
<1> QED
  BY <1>1, Parts DEF MtxInv, Owned

LEMMA UnlockKeeps ==
  ASSUME CoreAssumption, MtxAssumption, MtxInv, NEW m \in Mutexes, Unlock(m)
  PROVE  MtxInv'
<1> DEFINE p == PrioAfterUnlock(m)
           H == Heir(m)
<1>1. /\ Running /\ mlist[currp] # <<>> /\ Head(mlist[currp]) = m
      /\ HandOver(m)
      /\ prio' = p
      /\ UNCHANGED <<vt, slept, isr, cqueue, realprio, call>>
  BY DEF Unlock
<1>2. p \in [Threads -> Priorities] /\ p \in [Threads -> Nat]
  BY <1>1, PrioAfterUnlockType
<1>3. OneCurrent(state, currp)
  BY DEF MtxInv
<1>4. /\ OneCurrent(state', currp')
      /\ SameWaits(ReadyI(state, H), state')
      /\ \A t \in Threads \ H : pu'[t] = pu[t]
      /\ pu' \in [Threads -> Msgs \cup Mutexes \cup Conds]
  <2>1. CASE mqueue[m] = <<>>
    <3>1. H = {}
      BY <2>1 DEF Heir
    <3>2. UNCHANGED <<pu, currp, state>>
      BY <2>1 DEF Unlock
    <3>3. SameWaits(ReadyI(state, {}), state)
      BY DEF SameWaits, ReadyI
    <3> QED
      BY <1>3, <3>1, <3>2, <3>3, Parts DEF Rest
  <2>2. CASE mqueue[m] # <<>>
    <3> DEFINE t == Head(mqueue[m])
    <3>1. t \in Threads /\ t # currp
      BY <2>2, HeadWaits
    <3>2. H = {t}
      BY <2>2, <3>1 DEF Heir
    <3>3. pu' = [pu EXCEPT ![t] = MSG_OK] /\ WakeupS(state, p, t)
      BY <2>2 DEF Unlock
    <3>4. pu \in [Threads -> Msgs \cup Mutexes \cup Conds] /\ MSG_OK \in Msgs
      BY Parts DEF Rest, Msgs
    <3> HIDE DEF t, p, H
    <3>5. OneCurrent(state', currp') /\ SameWaits(ReadyI(state, {t}), state')
      BY <1>2, <1>3, <3>1, <3>3, WakeupSwitches
    <3> QED
      BY <3>2, <3>3, <3>4, <3>5
  <2> QED
    BY <2>1, <2>2
<1> HIDE DEF p
<1>5. Owned(owner', mlist') /\ Free(owner', mqueue')
  BY <1>1, HandOverOwned
<1>6. /\ Lines(Mutexes, mqueue', "WTMTX", ReadyI(state, H), pu')
      /\ Lines(Conds, cqueue, "WTCOND", ReadyI(state, H), pu')
  BY <1>1, <1>4, HandOverLines
<1>7. CallsHold(call, ReadyI(state, H), pu', owner', mlist')
  BY <1>1, <1>4, HandOverCalls
<1>8. /\ Lines(Mutexes, mqueue', "WTMTX", state', pu')
      /\ Lines(Conds, cqueue', "WTCOND", state', pu')
      /\ CallsHold(call', state', pu', owner', mlist')
  BY <1>1, <1>4, <1>6, <1>7, LinesResume, CallsResume
<1>9. Rest'
  BY <1>1, <1>2, <1>4, Parts DEF Rest
<1>10. TimersHold' /\ SleepersCall(call', slept')
  <2>1. ~isr' /\ \A t \in Threads : state'[t] = "WTMTX" => state[t] = "WTMTX"
    BY <1>1, <1>4, RunnerCallsNot DEF SameWaits, ReadyI
  <2> QED
    BY <1>1, <2>1 DEF TimersHold, MtxInv, SleepersCall
<1> QED
  BY <1>4, <1>5, <1>8, <1>9, <1>10, Assemble

\* chMtxUnlockAll: the most urgent waiter of every mutex of currp.
Mine  == ToSet(mlist[currp])
Heirs == {t \in Threads : \E m \in Mine : mqueue[m] # <<>> /\ t = Head(mqueue[m])}

LEMMA HeirsAre ==
  ASSUME MtxAssumption, MtxInv
  PROVE  /\ Mine \subseteq Mutexes
         /\ \A m \in Mutexes : m \in Mine <=> owner[m] = currp
         /\ \A m \in Mine : mqueue[m] # <<>> => Head(mqueue[m]) \in Heirs
         /\ \A t \in Heirs : /\ t # currp /\ t # None /\ state[t] = "WTMTX"
                             /\ pu[t] \in Mine /\ mqueue[pu[t]] # <<>>
                             /\ t = Head(mqueue[pu[t]])
                             /\ call[t].op = "lock" /\ call[t].m = pu[t]
<1>1. Mine \subseteq Mutexes
  BY InQueue, Parts DEF Mine
<1>2. \A m \in Mutexes : m \in Mine <=> owner[m] = currp
  BY Parts DEF Mine, MtxInv, Owned
<1>3. \A m \in Mine : mqueue[m] # <<>> => Head(mqueue[m]) \in Heirs
  BY <1>1, HeadWaits DEF Heirs
<1>4. ASSUME NEW t \in Heirs
      PROVE  /\ t # currp /\ t # None /\ state[t] = "WTMTX"
             /\ pu[t] \in Mine /\ mqueue[pu[t]] # <<>>
             /\ t = Head(mqueue[pu[t]])
             /\ call[t].op = "lock" /\ call[t].m = pu[t]
  <2>1. PICK m \in Mine : mqueue[m] # <<>> /\ t = Head(mqueue[m])
    BY DEF Heirs
  <2>2. t # currp /\ state[t] = "WTMTX" /\ pu[t] = m /\ call[t].op = "lock" /\ call[t].m = m
    BY <1>1, <2>1, HeadWaits
  <2>3. t # None
    BY DEF Heirs, MtxAssumption
  <2> QED
    BY <2>1, <2>2, <2>3
<1> QED
  BY <1>1, <1>2, <1>3, <1>4

LEMMA UnlockAllDoes ==
  ASSUME MtxAssumption, MtxInv, UnlockAll
  PROVE  /\ owner' = [m \in Mutexes |-> IF m \in Mine
                                          THEN IF mqueue[m] = <<>> THEN None ELSE Head(mqueue[m])
                                          ELSE owner[m]]
         /\ mlist' = [t \in Threads |-> IF t = currp THEN <<>>
                                        ELSE IF t \in Heirs THEN <<pu[t]>> \o mlist[t] ELSE mlist[t]]
         /\ mqueue' = [m \in Mutexes |-> IF m \in Mine /\ mqueue[m] # <<>>
                                           THEN Tail(mqueue[m]) ELSE mqueue[m]]
         /\ prio' = [prio EXCEPT ![currp] = realprio[currp]]
         /\ RescheduleS(ReadyI(state, Heirs), prio')
         /\ UNCHANGED <<pu, vt, slept, isr, cqueue, realprio, call>>
<1> DEFINE next == [m \in Mine |-> IF mqueue[m] = <<>> THEN None ELSE Head(mqueue[m])]
           heirs == {next[m] : m \in Mine} \ {None}
<1>1. /\ owner' = [m \in Mutexes |-> IF m \in Mine THEN next[m] ELSE owner[m]]
      /\ mlist' = [t \in Threads |->
             IF t = currp THEN <<>>
             ELSE IF t \in heirs THEN <<CHOOSE m \in Mine : next[m] = t>> \o mlist[t]
             ELSE mlist[t]]
      /\ mqueue' = [m \in Mutexes |->
             IF m \in Mine /\ mqueue[m] # <<>> THEN Tail(mqueue[m]) ELSE mqueue[m]]
      /\ prio' = [prio EXCEPT ![currp] = realprio[currp]]
      /\ RescheduleS(ReadyI(state, heirs), [prio EXCEPT ![currp] = realprio[currp]])
      /\ UNCHANGED <<pu, vt, slept, isr, cqueue, realprio, call>>
  BY DEF UnlockAll, Mine
<1>2. \A m \in Mine : next[m] = IF mqueue[m] = <<>> THEN None ELSE Head(mqueue[m])
  OBVIOUS
<1>3. heirs = Heirs
  <2>1. ASSUME NEW t \in heirs PROVE t \in Heirs
    BY HeirsAre
  <2>2. ASSUME NEW t \in Heirs PROVE t \in heirs
    <3>1. pu[t] \in Mine /\ next[pu[t]] = t /\ t # None
      BY HeirsAre
    <3> QED
      BY <3>1
  <2> QED
    BY <2>1, <2>2
<1> HIDE DEF next, heirs
<1>4. ASSUME NEW t \in Heirs PROVE (CHOOSE m \in Mine : next[m] = t) = pu[t]
  <2>1. /\ t # None /\ t # currp
        /\ pu[t] \in Mine /\ mqueue[pu[t]] # <<>> /\ t = Head(mqueue[pu[t]])
    BY HeirsAre
  <2>2. next[pu[t]] = t
    BY <1>2, <2>1
  <2>3. ASSUME NEW m \in Mine, next[m] = t PROVE m = pu[t]
    <3>1. mqueue[m] # <<>> /\ t = Head(mqueue[m])
      BY <1>2, <2>1, <2>3
    <3>2. m \in Mutexes
      BY HeirsAre
    <3> QED
      BY <3>1, <3>2, HeadWaits
  <2> QED
    BY <2>1, <2>2, <2>3
<1>5. owner' = [m \in Mutexes |-> IF m \in Mine
                                    THEN IF mqueue[m] = <<>> THEN None ELSE Head(mqueue[m])
                                    ELSE owner[m]]
  BY <1>1, <1>2
<1>6. mlist' = [t \in Threads |-> IF t = currp THEN <<>>
                                  ELSE IF t \in Heirs THEN <<pu[t]>> \o mlist[t] ELSE mlist[t]]
  <2> DEFINE got(t) == <<CHOOSE m \in Mine : next[m] = t>> \o mlist[t]
             e1(t) == IF t = currp THEN <<>> ELSE IF t \in heirs THEN got(t) ELSE mlist[t]
             e2(t) == IF t = currp THEN <<>>
                      ELSE IF t \in Heirs THEN <<pu[t]>> \o mlist[t] ELSE mlist[t]
  <2>1. mlist' = [t \in Threads |-> e1(t)]
    BY <1>1
  <2>2. ASSUME NEW t \in Heirs PROVE got(t) = <<pu[t]>> \o mlist[t]
    BY <1>4
  <2> HIDE DEF got
  <2>3. ASSUME NEW t \in Threads PROVE e1(t) = e2(t)
    BY <1>3, <2>2
  <2> HIDE DEF e1
  <2>4. mlist' = [t \in Threads |-> e2(t)]
    <3> HIDE DEF e2
    <3> QED
      BY <2>1, <2>3
  <2> QED
    BY <2>4
<1> QED
  BY <1>1, <1>3, <1>5, <1>6

LEMMA UnlockAllOwned ==
  ASSUME MtxAssumption, MtxInv, UnlockAll
  PROVE  Owned(owner', mlist') /\ Free(owner', mqueue')
<1>1. /\ owner \in [Mutexes -> Threads \cup {None}] /\ mlist \in [Threads -> Seq(Mutexes)]
      /\ currp \in Threads /\ \A t \in Threads : IsInjective(mlist[t]) /\ t # None
      /\ \A m \in Mutexes, t \in Threads : m \in ToSet(mlist[t]) <=> owner[m] = t
  BY Parts DEF MtxInv, Owned, MtxAssumption
<1>2. \A m \in Mutexes : owner'[m] = IF m \in Mine
                           THEN IF mqueue[m] = <<>> THEN None ELSE Head(mqueue[m])
                           ELSE owner[m]
  BY UnlockAllDoes
<1>3. \A t \in Threads : mlist'[t] = IF t = currp THEN <<>>
                           ELSE IF t \in Heirs THEN <<pu[t]>> \o mlist[t] ELSE mlist[t]
  BY UnlockAllDoes
<1>4. \A t \in Heirs : t \in Threads
  BY DEF Heirs
<1>5. ASSUME NEW t \in Heirs
      PROVE  /\ <<pu[t]>> \o mlist[t] \in Seq(Mutexes)
             /\ IsInjective(<<pu[t]>> \o mlist[t])
             /\ ToSet(<<pu[t]>> \o mlist[t]) = ToSet(mlist[t]) \cup {pu[t]}
  <2>1. pu[t] \in Mutexes /\ pu[t] \notin ToSet(mlist[t])
    BY <1>1, <1>4, HeirsAre
  <2> QED
    BY <1>1, <1>4, <2>1, PushFront
<1>6. <<>> \in Seq(Mutexes) /\ IsInjective(<<>>) /\ ToSet(<<>>) = {}
  BY DEF IsInjective, ToSet
<1>7. owner' \in [Mutexes -> Threads \cup {None}]
  <2>1. \A m \in Mine : mqueue[m] # <<>> => Head(mqueue[m]) \in Threads
    BY <1>4, HeirsAre
  <2>2. owner' = [m \in Mutexes |-> owner'[m]]
    BY UnlockAllDoes
  <2>3. ASSUME NEW m \in Mutexes PROVE owner'[m] \in Threads \cup {None}
    <3>1. CASE m \in Mine /\ mqueue[m] = <<>>
      BY <1>2, <3>1
    <3>2. CASE m \in Mine /\ mqueue[m] # <<>>
      <4>1. owner'[m] = Head(mqueue[m])
        BY <1>2, <3>2
      <4> QED
        BY <2>1, <3>2, <4>1
    <3>3. CASE m \notin Mine
      <4>1. owner'[m] = owner[m] /\ owner[m] \in Threads \cup {None}
        BY <1>1, <1>2, <3>3
      <4> QED
        BY <4>1
    <3> QED
      BY <3>1, <3>2, <3>3
  <2> QED
    BY <2>2, <2>3
<1>7a. ASSUME NEW t \in Threads PROVE mlist'[t] \in Seq(Mutexes) /\ IsInjective(mlist'[t])
  <2>1. CASE t = currp
    BY <1>3, <1>6, <2>1
  <2>2. CASE t # currp /\ t \in Heirs
    <3>1. mlist'[t] = <<pu[t]>> \o mlist[t]
      BY <1>3, <2>2
    <3> QED
      BY <1>5, <2>2, <3>1
  <2>3. CASE t # currp /\ t \notin Heirs
    <3>1. mlist'[t] = mlist[t]
      BY <1>3, <2>3
    <3> QED
      BY <1>1, <3>1
  <2> QED
    BY <2>1, <2>2, <2>3
<1>8. mlist' \in [Threads -> Seq(Mutexes)]
  <2>1. mlist' = [t \in Threads |-> mlist'[t]]
    BY UnlockAllDoes
  <2> QED
    BY <1>7a, <2>1
<1>9. \A t \in Threads : IsInjective(mlist'[t])
  BY <1>7a
<1>10. ASSUME NEW k \in Mutexes, NEW x \in Threads
       PROVE  k \in ToSet(mlist'[x]) <=> owner'[k] = x
  <2>1. k \in Mine <=> owner[k] = currp
    BY HeirsAre
  <2>2. k \in Mine /\ mqueue[k] # <<>> => /\ Head(mqueue[k]) \in Heirs
                                         /\ pu[Head(mqueue[k])] = k /\ Head(mqueue[k]) # currp
    BY HeirsAre, HeadWaits
  <2>3. CASE x = currp
    <3>1. ToSet(mlist'[x]) = {}
      BY <1>3, <1>6, <2>3
    <3>2. owner'[k] # x
      BY <1>1, <1>2, <2>1, <2>2, <2>3
    <3> QED
      BY <3>1, <3>2
  <2>4. CASE x # currp /\ x \in Heirs
    <3>1. pu[x] \in Mine /\ mqueue[pu[x]] # <<>> /\ x = Head(mqueue[pu[x]])
      BY <2>4, HeirsAre
    <3>2. ToSet(mlist'[x]) = ToSet(mlist[x]) \cup {pu[x]}
      BY <1>3, <1>5, <2>4
    <3> QED
      BY <1>1, <1>2, <2>1, <2>2, <2>4, <3>1, <3>2
  <2>5. CASE x # currp /\ x \notin Heirs
    BY <1>1, <1>2, <1>3, <2>1, <2>2, <2>5
  <2> QED
    BY <2>3, <2>4, <2>5
<1>11. Free(owner', mqueue')
  <2> SUFFICES ASSUME NEW k \in Mutexes, owner'[k] = None PROVE mqueue'[k] = <<>>
    BY DEF Free
  <2>1. mqueue'[k] = IF k \in Mine /\ mqueue[k] # <<>> THEN Tail(mqueue[k]) ELSE mqueue[k]
    BY UnlockAllDoes
  <2>2. k \in Mine => mqueue[k] = <<>>
    BY <1>1, <1>2, HeirsAre
  <2>3. k \notin Mine => mqueue[k] = <<>>
    BY <1>2 DEF MtxInv, Free
  <2> QED
    BY <2>1, <2>2, <2>3
<1> QED
  BY <1>7, <1>8, <1>9, <1>10, <1>11 DEF Owned

LEMMA UnlockAllLines ==
  ASSUME MtxAssumption, MtxInv, UnlockAll
  PROVE  /\ Lines(Mutexes, mqueue', "WTMTX", ReadyI(state, Heirs), pu)
         /\ Lines(Conds, cqueue, "WTCOND", ReadyI(state, Heirs), pu)
<1> DEFINE s2 == ReadyI(state, Heirs)
<1>1. \A t \in Threads : s2[t] = IF t \in Heirs THEN "READY" ELSE state[t]
  BY DEF ReadyI
<1> HIDE DEF s2
<1>2. Lines(Mutexes, mqueue, "WTMTX", state, pu) /\ Lines(Conds, cqueue, "WTCOND", state, pu)
  BY DEF MtxInv
<1>3. Shed(Mutexes, mqueue, mqueue', Heirs)
  <2>1. \A k \in Mutexes : mqueue'[k] = IF k \in Mine /\ mqueue[k] # <<>>
                                          THEN Tail(mqueue[k]) ELSE mqueue[k]
    BY UnlockAllDoes
  <2>2. \A k \in Mutexes : /\ mqueue[k] \in Seq(Threads) /\ IsInjective(mqueue[k])
                           /\ ToSet(mqueue[k]) \subseteq Threads
    BY <1>2, InQueue DEF Lines
  <2>3. ASSUME NEW k \in Mutexes
        PROVE  /\ mqueue'[k] \in Seq(Threads) /\ IsInjective(mqueue'[k])
               /\ ToSet(mqueue'[k]) = ToSet(mqueue[k]) \ Heirs
    <3>1. \A t \in ToSet(mqueue[k]) : pu[t] = k
      BY <1>2, <2>2 DEF Lines
    <3>2. CASE k \in Mine /\ mqueue[k] # <<>>
      <4>1. /\ Tail(mqueue[k]) \in Seq(Threads) /\ IsInjective(Tail(mqueue[k]))
            /\ ToSet(Tail(mqueue[k])) = ToSet(mqueue[k]) \ {Head(mqueue[k])}
        BY <2>2, <3>2, TailQueue
      <4>2. \A t \in ToSet(mqueue[k]) : t \in Heirs <=> t = Head(mqueue[k])
        BY <3>1, <3>2, HeirsAre
      <4> QED
        BY <2>1, <3>2, <4>1, <4>2
    <3>3. CASE k \in Mine /\ mqueue[k] = <<>>
      BY <2>1, <2>2, <3>3 DEF ToSet
    <3>4. CASE k \notin Mine
      <4>1. \A t \in ToSet(mqueue[k]) : t \notin Heirs
        BY <3>1, <3>4, HeirsAre
      <4> QED
        BY <2>1, <2>2, <3>4, <4>1
    <3> QED
      BY <3>2, <3>3, <3>4
  <2>4. mqueue' = [k \in Mutexes |-> mqueue'[k]]
    BY UnlockAllDoes
  <2> QED
    BY <2>3, <2>4 DEF Shed
<1>4. \A t \in Threads : (s2[t] = "WTMTX" <=> state[t] = "WTMTX" /\ t \notin Heirs)
                         /\ (s2[t] = "WTMTX" => pu[t] = pu[t])
  BY <1>1
<1>5. \A t \in Threads : (s2[t] = "WTCOND" <=> state[t] = "WTCOND")
                         /\ (state[t] = "WTCOND" => pu[t] = pu[t])
  BY <1>1, HeirsAre
<1>6. Lines(Mutexes, mqueue', "WTMTX", s2, pu)
  BY <1>2, <1>3, <1>4, LinesLeave
<1>7. Lines(Conds, cqueue, "WTCOND", s2, pu)
  BY <1>2, <1>5, LinesSame
<1> QED
  BY <1>6, <1>7 DEF s2

LEMMA UnlockAllKeeps ==
  ASSUME CoreAssumption, MtxAssumption, MtxInv, UnlockAll
  PROVE  MtxInv'
<1> DEFINE s2 == ReadyI(state, Heirs)
<1>1. /\ prio' = [prio EXCEPT ![currp] = realprio[currp]]
      /\ RescheduleS(s2, prio')
      /\ UNCHANGED <<pu, vt, slept, isr, cqueue, realprio, call>>
  BY UnlockAllDoes
<1>2. Running /\ currp \in Threads /\ call[currp].op = "none"
  BY RunnerCallsNot DEF UnlockAll
<1>3. \A t \in Threads : s2[t] = IF t \in Heirs THEN "READY" ELSE state[t]
  BY DEF ReadyI
<1>4. OneCurrent(s2, currp)
  <2>1. currp \notin Heirs /\ OneCurrent(state, currp)
    BY HeirsAre DEF MtxInv
  <2> QED
    BY <2>1, ReadyKeepsCurrent
<1> HIDE DEF s2
<1>5. prio' \in [Threads -> Priorities] /\ prio' \in [Threads -> Nat]
  BY <1>1, <1>2, Parts, PrioritiesNat DEF Rest
<1>6. OneCurrent(state', currp') /\ SameWaits(s2, state')
  <2> DEFINE p == prio'
  <2>1. p \in [Threads -> Nat] /\ RescheduleS(s2, p)
    BY <1>1, <1>5
  <2> HIDE DEF p
  <2> QED
    BY <1>4, <2>1, RescheduleRestores
<1>7. CallsHold(call, s2, pu, owner', mlist')
  <2> SUFFICES ASSUME NEW x \in Threads PROVE CallOf(x, call, s2, pu, owner', mlist')
    BY DEF CallsHold
  <2>1. CallOf(x, call, state, pu, owner, mlist)
    BY DEF MtxInv, CallsHold
  <2>2. \A m \in Mutexes : owner'[m] = IF m \in Mine
                             THEN IF mqueue[m] = <<>> THEN None ELSE Head(mqueue[m])
                             ELSE owner[m]
    BY UnlockAllDoes
  <2>3. mlist'[x] = IF x = currp THEN <<>>
                    ELSE IF x \in Heirs THEN <<pu[x]>> \o mlist[x] ELSE mlist[x]
    BY UnlockAllDoes
  <2>4. CASE x \in Heirs
    <3>1. /\ x # currp /\ pu[x] \in Mine /\ mqueue[pu[x]] # <<>> /\ x = Head(mqueue[pu[x]])
          /\ call[x].op = "lock" /\ call[x].m = pu[x] /\ pu[x] \in Mutexes
      BY <2>4, HeirsAre
    <3>2. Head(<<pu[x]>> \o mlist[x]) = pu[x]
      BY Parts
    <3> QED
      BY <1>3, <2>2, <2>3, <2>4, <3>1, <3>2 DEF CallOf
  <2>5. CASE x \notin Heirs /\ x # currp
    <3>1. \A m \in Mutexes : owner[m] = x => owner'[m] = x
      BY <2>2, <2>5, HeirsAre
    <3>2. \A m \in Mutexes : owner[m] # x => owner'[m] # x
      <4>1. x # None
        BY DEF MtxAssumption
      <4> QED
        BY <2>2, <2>5, <4>1, HeirsAre
    <3> QED
      BY <1>3, <2>1, <2>3, <2>5, <3>1, <3>2 DEF CallOf
  <2>6. CASE x \notin Heirs /\ x = currp
    <3>1. state[x] = "CURRENT"
      BY <2>6, Parts
    <3> QED
      BY <1>2, <1>3, <2>6, <3>1 DEF CallOf
  <2> QED
    BY <2>4, <2>5, <2>6
<1>8. Lines(Mutexes, mqueue', "WTMTX", s2, pu) /\ Lines(Conds, cqueue, "WTCOND", s2, pu)
  BY UnlockAllLines DEF s2
<1>9. /\ Lines(Mutexes, mqueue', "WTMTX", state', pu')
      /\ Lines(Conds, cqueue', "WTCOND", state', pu')
      /\ CallsHold(call', state', pu', owner', mlist')
  BY <1>1, <1>6, <1>7, <1>8, LinesResume, CallsResume
<1>10. Rest'
  BY <1>1, <1>5, Parts DEF Rest
<1>11. TimersHold' /\ SleepersCall(call', slept')
  <2>1. ~isr' /\ \A t \in Threads : state'[t] = "WTMTX" => state[t] = "WTMTX"
    BY <1>1, <1>2, <1>3, <1>6, RunnerCallsNot DEF SameWaits
  <2> QED
    BY <1>1, <2>1 DEF TimersHold, MtxInv, SleepersCall
<1> QED
  BY <1>6, <1>9, <1>10, <1>11, UnlockAllOwned, Assemble

-----------------------------------------------------------------------------
\* What is left to show of a call that changes no owner.
LEMMA Finish ==
  ASSUME MtxInv, UNCHANGED mtx, NEW s2,
         OneCurrent(state', currp'), SameWaits(s2, state'),
         Lines(Mutexes, mqueue, "WTMTX", s2, pu'), Lines(Conds, cqueue', "WTCOND", s2, pu'),
         CallsHold(call', s2, pu', owner, mlist),
         Rest', SleepersCall(call', slept'), TimersHold'
  PROVE  MtxInv'
<1>1. owner' = owner /\ mlist' = mlist /\ mqueue' = mqueue
  BY DEF mtx
<1>2. /\ Lines(Mutexes, mqueue', "WTMTX", state', pu')
      /\ Lines(Conds, cqueue', "WTCOND", state', pu')
      /\ CallsHold(call', state', pu', owner', mlist')
  BY <1>1, LinesResume, CallsResume
<1>3. Owned(owner', mlist') /\ Free(owner', mqueue')
  BY <1>1 DEF MtxInv
<1> QED
  BY <1>2, <1>3, Assemble

\* Timers of a call that neither sleeps nor wakes itself.
LEMMA TimersSame ==
  ASSUME MtxInv, ~isr, UNCHANGED <<vt, slept, isr, call>>,
         \A t \in Threads : state'[t] = "WTMTX" => state[t] = "WTMTX"
  PROVE  TimersHold' /\ SleepersCall(call', slept')
  BY DEF MtxInv, TimersHold, SleepersCall

LEMMA SetPriorityKeeps ==
  ASSUME CoreAssumption, MtxAssumption, MtxInv, NEW n \in Levels[currp], SetPriority(n)
  PROVE  MtxInv'
<1>1. /\ prio' = prio \/ prio' = [prio EXCEPT ![currp] = n]
      /\ RescheduleS(state, prio')
      /\ realprio' = [realprio EXCEPT ![currp] = n]
      /\ UNCHANGED <<pu, vt, slept, isr, cqueue, call>> /\ UNCHANGED mtx
  BY DEF SetPriority, mtx
<1>2. ~isr /\ currp \in Threads
  BY RunnerCallsNot DEF SetPriority
<1>3. n \in Priorities
  BY <1>2 DEF Priorities
<1>4. prio' \in [Threads -> Priorities] /\ prio' \in [Threads -> Nat]
  <2>1. prio \in [Threads -> Priorities]
    BY Parts DEF Rest
  <2>2. prio' \in [Threads -> Priorities]
    BY <1>1, <1>2, <1>3, <2>1
  <2> QED
    BY <2>2, PrioritiesNat
<1>5. OneCurrent(state', currp') /\ SameWaits(state, state')
  <2> DEFINE p == prio'
  <2>1. p \in [Threads -> Nat] /\ RescheduleS(state, p) /\ OneCurrent(state, currp)
    BY <1>1, <1>4 DEF MtxInv
  <2> HIDE DEF p
  <2> QED
    BY <2>1, RescheduleRestores
<1>6. Rest'
  BY <1>1, <1>2, <1>3, <1>4, Parts DEF Rest
<1>7. TimersHold' /\ SleepersCall(call', slept')
  <2>1. \A t \in Threads : state'[t] = "WTMTX" => state[t] = "WTMTX"
    BY <1>5 DEF SameWaits
  <2> QED
    BY <1>1, <1>2, <2>1, TimersSame
<1>8. /\ Lines(Mutexes, mqueue, "WTMTX", state, pu') /\ Lines(Conds, cqueue', "WTCOND", state, pu')
      /\ CallsHold(call', state, pu', owner, mlist)
  BY <1>1 DEF MtxInv
<1> QED
  BY <1>1, <1>5, <1>6, <1>7, <1>8, Finish

\* A sleep with a timeout, on nothing or on a condition variable.
LEMMA SleepTimers ==
  ASSUME MtxInv, ~isr, isr' = isr, currp \in Threads, NEW s, NEW p, NEW new, NEW time, NEW cl,
         GoSleepTimeoutS(s, p, new, time), call' = [call EXCEPT ![currp] = cl],
         state'[currp] # "WTMTX",
         \A t \in Threads : state'[t] = "WTMTX" => state[t] = "WTMTX"
  PROVE  /\ TimersHold' /\ SleepersCall(call', slept')
         /\ slept' \in [Threads -> BOOLEAN]
         /\ vt' \in [Threads -> {"off", "armed", "firing"}]
<1>1. /\ slept' = [slept EXCEPT ![currp] = TRUE]
      /\ vt' = [vt EXCEPT ![currp] = IF time = "INFINITE" THEN "off" ELSE "armed"]
  BY DEF GoSleepTimeoutS
<1>2. /\ call \in [Threads -> [op : {"none", "lock", "wait", "sleep"}, m : Mutexes \cup {None}]]
      /\ slept \in [Threads -> BOOLEAN]
      /\ vt \in [Threads -> {"off", "armed", "firing"}]
  BY Parts DEF Rest
<1>3. SleepersCall(call', slept')
  BY <1>1, <1>2 DEF MtxInv, SleepersCall
<1>4. ASSUME NEW t \in Threads
      PROVE  /\ vt'[t] = "firing" => isr'
             /\ vt'[t] # "off" => slept'[t] /\ state'[t] # "WTMTX"
  BY <1>1, <1>2 DEF MtxInv, TimersHold
<1>5. TimersHold'
  BY <1>4 DEF TimersHold
<1>6. slept' \in [Threads -> BOOLEAN] /\ vt' \in [Threads -> {"off", "armed", "firing"}]
  BY <1>1, <1>2
<1> QED
  BY <1>3, <1>5, <1>6

LEMMA SleepKeeps ==
  ASSUME CoreAssumption, MtxAssumption, MtxInv, Sleep
  PROVE  MtxInv'
<1>1. /\ GoSleepTimeoutS(state, prio, "SLEEPING", "FINITE")
      /\ call' = [call EXCEPT ![currp] = SleepCall]
      /\ UNCHANGED <<prio, pu, isr, cqueue, realprio>> /\ UNCHANGED mtx
  BY DEF Sleep
<1>2. currp \in Threads /\ ~isr /\ state \in [Threads -> States] /\ state[currp] = "CURRENT"
  BY RunnerCallsNot, Parts DEF Sleep
<1>3. prio \in [Threads -> Nat]
  BY Parts, PrioritiesNat DEF Rest
<1> DEFINE s2 == [state EXCEPT ![currp] = "SLEEPING"]
<1>4. OneCurrent(state', currp') /\ SameWaits(s2, state')
  <2>1. OneCurrent(state, currp)
    BY DEF MtxInv
  <2> QED
    BY <1>1, <1>3, <2>1, SleepSwitches
<1>5. \A t \in Threads : s2[t] = IF t = currp THEN "SLEEPING" ELSE state[t]
  BY <1>2
<1> HIDE DEF s2
<1>6. state'[currp] # "WTMTX" /\ \A t \in Threads : state'[t] = "WTMTX" => state[t] = "WTMTX"
  BY <1>2, <1>4, <1>5 DEF SameWaits
<1>7. /\ TimersHold' /\ SleepersCall(call', slept')
      /\ slept' \in [Threads -> BOOLEAN]
      /\ vt' \in [Threads -> {"off", "armed", "firing"}]
  BY <1>1, <1>2, <1>6, SleepTimers
<1>8. SleepCall \in [op : {"none", "lock", "wait", "sleep"}, m : Mutexes \cup {None}]
      /\ SleepCall.op = "sleep"
  BY DEF SleepCall
<1>9. call \in [Threads -> [op : {"none", "lock", "wait", "sleep"}, m : Mutexes \cup {None}]]
  BY Parts DEF Rest
<1> HIDE DEF s2
<1>10. call' \in [Threads -> [op : {"none", "lock", "wait", "sleep"}, m : Mutexes \cup {None}]]
  BY <1>1, <1>8, <1>9
<1>11. Rest'
  BY <1>1, <1>7, <1>10, Parts DEF Rest
<1>12. Lines(Mutexes, mqueue, "WTMTX", s2, pu') /\ Lines(Conds, cqueue', "WTCOND", s2, pu')
  <2>1. Lines(Mutexes, mqueue, "WTMTX", state, pu) /\ Lines(Conds, cqueue, "WTCOND", state, pu)
    BY DEF MtxInv
  <2>2. \A t \in Threads : (s2[t] = "WTMTX" <=> state[t] = "WTMTX")
                           /\ (state[t] = "WTMTX" => pu[t] = pu[t])
    BY <1>2, <1>5
  <2>3. \A t \in Threads : (s2[t] = "WTCOND" <=> state[t] = "WTCOND")
                           /\ (state[t] = "WTCOND" => pu[t] = pu[t])
    BY <1>2, <1>5
  <2>4. Lines(Mutexes, mqueue, "WTMTX", s2, pu)
    BY <2>1, <2>2, LinesSame
  <2>5. Lines(Conds, cqueue, "WTCOND", s2, pu)
    BY <2>1, <2>3, LinesSame
  <2> QED
    BY <1>1, <2>4, <2>5
<1>13. CallsHold(call', s2, pu', owner, mlist)
  <2> SUFFICES ASSUME NEW t \in Threads PROVE CallOf(t, call', s2, pu', owner, mlist)
    BY DEF CallsHold
  <2>1. CallOf(t, call, state, pu, owner, mlist)
    BY DEF MtxInv, CallsHold
  <2>2. call'[t] = IF t = currp THEN SleepCall ELSE call[t]
    BY <1>1, <1>9
  <2>3. CASE t = currp
    BY <1>5, <1>8, <2>2, <2>3 DEF CallOf
  <2>4. CASE t # currp
    BY <1>1, <1>5, <2>1, <2>2, <2>4 DEF CallOf
  <2> QED
    BY <2>3, <2>4
<1> QED
  BY <1>1, <1>4, <1>7, <1>11, <1>12, <1>13, Finish

\* chCondWaitS: m is given back, its heir is ready, currp waits on c.
LEMMA CondWaitKeeps ==
  ASSUME CoreAssumption, MtxAssumption, MtxInv, NEW c \in Conds,
         NEW time \in {"INFINITE", "FINITE"}, CondWait(c, time)
  PROVE  MtxInv'
<1> DEFINE m  == Head(mlist[currp])
           p  == PrioAfterUnlock(m)
           H  == Heir(m)
           s2 == ReadyI(state, H)
           s3 == [s2 EXCEPT ![currp] = "WTCOND"]
           T  == [op : {"none", "lock", "wait", "sleep"}, m : Mutexes \cup {None}]
<1>1. /\ Running /\ mlist[currp] # <<>>
      /\ HandOver(m)
      /\ prio' = p
      /\ cqueue' = [cqueue EXCEPT ![c] = PrioInsert(cqueue[c], currp, p)]
      /\ GoSleepTimeoutS(s2, p, "WTCOND", time)
      /\ call' = [call EXCEPT ![currp] = WaitCall(m)]
      /\ pu' = [pu EXCEPT ![currp] = c]
      /\ UNCHANGED <<isr, realprio>>
  BY DEF CondWait, Heir
<1>2. /\ currp \in Threads /\ ~isr /\ call[currp].op = "none"
      /\ state \in [Threads -> States] /\ state[currp] = "CURRENT"
  BY <1>1, RunnerCallsNot, Parts
<1>3. m \in Mutexes /\ owner[m] = currp
  BY <1>1, LastLocked
<1>4. p \in [Threads -> Priorities] /\ p \in [Threads -> Nat]
  BY <1>1, PrioAfterUnlockType
<1>5. \A t \in H : t # currp /\ state[t] = "WTMTX"
  BY <1>3, HeadWaits DEF Heir
<1>6. OneCurrent(s2, currp)
  <2>1. OneCurrent(state, currp)
    BY DEF MtxInv
  <2> QED
    BY <1>5, <2>1, ReadyKeepsCurrent
<1>7. Owned(owner', mlist') /\ Free(owner', mqueue')
  BY <1>1, <1>3, HandOverOwned
<1>8. Lines(Mutexes, mqueue', "WTMTX", s2, pu) /\ Lines(Conds, cqueue, "WTCOND", s2, pu)
  BY <1>1, <1>3, HandOverLines
<1>9. CallsHold(call, s2, pu, owner', mlist')
  BY <1>1, <1>3, HandOverCalls
<1>10. owner'[m] # currp
  <2>1. owner'[m] = IF mqueue[m] # <<>> THEN Head(mqueue[m]) ELSE None
    BY <1>1, <1>3, Parts DEF HandOver
  <2>2. mqueue[m] # <<>> => Head(mqueue[m]) # currp
    BY <1>3, HeadWaits
  <2>3. None # currp
    BY <1>2 DEF MtxAssumption
  <2> QED
    BY <2>1, <2>2, <2>3
<1>11. \A t \in Threads : s2[t] = IF t \in H THEN "READY" ELSE state[t]
  BY DEF ReadyI
<1> HIDE DEF p, H, s2
<1>12. /\ OneCurrent(state', currp')
       /\ SameWaits(s3, state')
  BY <1>1, <1>4, <1>6, SleepSwitches
<1>13. \A t \in Threads : s3[t] = IF t = currp THEN "WTCOND" ELSE s2[t]
  BY <1>6 DEF OneCurrent
<1> HIDE DEF s3
<1>14. state'[currp] # "WTMTX" /\ \A t \in Threads : state'[t] = "WTMTX" => state[t] = "WTMTX"
  BY <1>2, <1>11, <1>12, <1>13 DEF SameWaits
<1>15. /\ TimersHold' /\ SleepersCall(call', slept')
       /\ slept' \in [Threads -> BOOLEAN]
       /\ vt' \in [Threads -> {"off", "armed", "firing"}]
  BY <1>1, <1>2, <1>14, SleepTimers
<1>16. WaitCall(m) \in T /\ WaitCall(m).op = "wait" /\ WaitCall(m).m = m
  BY <1>3 DEF WaitCall
<1>17. /\ call \in [Threads -> T]
       /\ pu \in [Threads -> Msgs \cup Mutexes \cup Conds]
       /\ realprio \in [Threads -> Priorities] /\ isr \in BOOLEAN
       /\ cqueue \in [Conds -> Seq(Threads)]
  BY Parts DEF Rest
<1> HIDE DEF m
<1>18. Rest'
  <2>1. call' \in [Threads -> T]
    BY <1>1, <1>16, <1>17
  <2>2. pu' \in [Threads -> Msgs \cup Mutexes \cup Conds]
    BY <1>1, <1>17
  <2> QED
    BY <1>1, <1>4, <1>15, <1>17, <2>1, <2>2 DEF Rest
<1>19. /\ \A t \in Threads : call'[t] = IF t = currp THEN WaitCall(m) ELSE call[t]
       /\ \A t \in Threads : pu'[t] = IF t = currp THEN c ELSE pu[t]
  BY <1>1, <1>17
<1>20. Lines(Mutexes, mqueue', "WTMTX", s3, pu')
  <2>1. \A t \in Threads : (s3[t] = "WTMTX" <=> s2[t] = "WTMTX") /\ (s2[t] = "WTMTX" => pu'[t] = pu[t])
    BY <1>2, <1>5, <1>11, <1>13, <1>19
  <2> QED
    BY <1>8, <2>1, LinesSame
<1>21. Lines(Conds, cqueue', "WTCOND", s3, pu')
  <2>1. s2[currp] # "WTCOND" /\ s3[currp] = "WTCOND" /\ pu'[currp] = c
    BY <1>2, <1>5, <1>11, <1>13, <1>19
  <2>2. \A t \in Threads \ {currp} : (s3[t] = "WTCOND" <=> s2[t] = "WTCOND") /\ pu'[t] = pu[t]
    BY <1>13, <1>19
  <2>3. \A d \in Conds : cqueue[d] \in Seq(Threads) /\ IsInjective(cqueue[d])
    BY <1>8 DEF Lines
  <2>4. currp \notin ToSet(cqueue[c])
    BY <1>2, <1>8, <2>1 DEF Lines
  <2> DEFINE r == PrioInsert(cqueue[c], currp, p)
  <2>5. r \in Seq(Threads) /\ IsInjective(r) /\ ToSet(r) = ToSet(cqueue[c]) \cup {currp}
    BY <1>2, <1>4, <2>3, <2>4, PrioInsertNew
  <2> HIDE DEF r
  <2>6. cqueue' = [cqueue EXCEPT ![c] = r]
    BY <1>1 DEF r
  <2>7. Joined(Conds, cqueue, cqueue', currp, c)
    BY <1>17, <2>3, <2>5, <2>6 DEF Joined
  <2> QED
    BY <1>2, <1>8, <2>1, <2>2, <2>7, LinesJoin
<1>22. CallsHold(call', s3, pu', owner', mlist')
  <2> SUFFICES ASSUME NEW t \in Threads PROVE CallOf(t, call', s3, pu', owner', mlist')
    BY DEF CallsHold
  <2>1. CallOf(t, call, s2, pu, owner', mlist')
    BY <1>9 DEF CallsHold
  <2>2. CASE t = currp
    BY <1>3, <1>10, <1>13, <1>16, <1>19, <2>2 DEF CallOf, m
  <2>3. CASE t # currp
    BY <1>13, <1>19, <2>1, <2>3 DEF CallOf
  <2> QED
    BY <2>2, <2>3
<1>23. /\ Lines(Mutexes, mqueue', "WTMTX", state', pu')
       /\ Lines(Conds, cqueue', "WTCOND", state', pu')
       /\ CallsHold(call', state', pu', owner', mlist')
  BY <1>12, <1>20, <1>21, <1>22, LinesResume, CallsResume
<1> QED
  BY <1>7, <1>12, <1>15, <1>18, <1>23, Assemble

-----------------------------------------------------------------------------
\* Threads W, of the queue of c or asleep on nothing, are made ready.
LEMMA CondShed ==
  ASSUME MtxInv, NEW c \in Conds, NEW r \in Seq(Threads), IsInjective(r), NEW W, NEW q2, NEW u2,
         W \subseteq ToSet(cqueue[c]), ToSet(r) = ToSet(cqueue[c]) \ W,
         q2 = [cqueue EXCEPT ![c] = r],
         \A t \in Threads \ W : u2[t] = pu[t]
  PROVE  /\ OneCurrent(ReadyI(state, W), currp)
         /\ Lines(Mutexes, mqueue, "WTMTX", ReadyI(state, W), u2)
         /\ Lines(Conds, q2, "WTCOND", ReadyI(state, W), u2)
         /\ CallsHold(call, ReadyI(state, W), u2, owner, mlist)
<1> DEFINE s2 == ReadyI(state, W)
<1>1. Lines(Mutexes, mqueue, "WTMTX", state, pu) /\ Lines(Conds, cqueue, "WTCOND", state, pu)
      /\ OneCurrent(state, currp)
  BY DEF MtxInv
<1>2. \A t \in W : t \in Threads /\ state[t] = "WTCOND" /\ pu[t] = c
  <2>1. ToSet(cqueue[c]) \subseteq Threads
    BY Parts, InQueue
  <2> QED
    BY <1>1, <2>1 DEF Lines
<1>3. \A t \in Threads : s2[t] = IF t \in W THEN "READY" ELSE state[t]
  BY DEF ReadyI
<1>4. OneCurrent(s2, currp)
  <2>1. currp \notin W
    BY <1>2, Parts
  <2> QED
    BY <1>1, <2>1, ReadyKeepsCurrent
<1> HIDE DEF s2
<1>5. Lines(Mutexes, mqueue, "WTMTX", s2, u2)
  <2>1. \A t \in Threads : (s2[t] = "WTMTX" <=> state[t] = "WTMTX") /\ (state[t] = "WTMTX" => u2[t] = pu[t])
    BY <1>2, <1>3
  <2> QED
    BY <1>1, <2>1, LinesSame
<1>6. Lines(Conds, q2, "WTCOND", s2, u2)
  <2>1. \A t \in Threads : (s2[t] = "WTCOND" <=> state[t] = "WTCOND" /\ t \notin W)
                           /\ (s2[t] = "WTCOND" => u2[t] = pu[t])
    BY <1>2, <1>3
  <2>2. \A d \in Conds : q2[d] = IF d = c THEN r ELSE cqueue[d]
    BY Parts
  <2>3. \A d \in Conds : cqueue[d] \in Seq(Threads) /\ IsInjective(cqueue[d])
    BY <1>1 DEF Lines
  <2>4. \A d \in Conds : d # c => ToSet(cqueue[d]) = ToSet(cqueue[d]) \ W
    <3> SUFFICES ASSUME NEW d \in Conds, d # c, NEW t \in W PROVE t \notin ToSet(cqueue[d])
      OBVIOUS
    <3> QED
      BY <1>1, <1>2 DEF Lines
  <2>5. q2 \in [Conds -> Seq(Threads)]
    BY Parts
  <2>6. Shed(Conds, cqueue, q2, W)
    BY <2>2, <2>3, <2>4, <2>5 DEF Shed
  <2> QED
    BY <1>1, <2>1, <2>6, LinesLeave
<1>7. CallsHold(call, s2, u2, owner, mlist)
  <2> SUFFICES ASSUME NEW t \in Threads PROVE CallOf(t, call, s2, u2, owner, mlist)
    BY DEF CallsHold
  <2>1. CallOf(t, call, state, pu, owner, mlist)
    BY DEF MtxInv, CallsHold
  <2>2. CASE t \in W
    BY <1>2, <1>3, <2>1, <2>2 DEF CallOf
  <2>3. CASE t \notin W
    BY <1>3, <2>1, <2>3 DEF CallOf
  <2> QED
    BY <2>2, <2>3
<1> QED
  BY <1>4, <1>5, <1>6, <1>7 DEF s2

LEMMA ShedTypes ==
  ASSUME MtxInv, UNCHANGED <<prio, realprio, vt, slept, call>>, isr' \in BOOLEAN,
         pu' \in [Threads -> Msgs \cup Mutexes \cup Conds]
  PROVE  Rest'
  BY Parts DEF Rest

LEMMA CondSignalKeeps ==
  ASSUME CoreAssumption, MtxAssumption, MtxInv, NEW c \in Conds, CondSignal(c)
  PROVE  MtxInv'
<1> DEFINE t == Head(cqueue[c])
<1>1. /\ Running /\ cqueue[c] # <<>>
      /\ cqueue' = [cqueue EXCEPT ![c] = Tail(cqueue[c])]
      /\ pu' = [pu EXCEPT ![t] = MSG_OK]
      /\ WakeupS(state, prio, t)
      /\ UNCHANGED <<prio, vt, slept, isr, realprio, call>> /\ UNCHANGED mtx
  BY DEF CondSignal
<1>2. /\ t \in Threads /\ t \in ToSet(cqueue[c])
      /\ Tail(cqueue[c]) \in Seq(Threads) /\ IsInjective(Tail(cqueue[c]))
      /\ ToSet(Tail(cqueue[c])) = ToSet(cqueue[c]) \ {t}
  <2>1. cqueue[c] \in Seq(Threads) /\ IsInjective(cqueue[c])
    BY DEF MtxInv, Lines
  <2> QED
    BY <1>1, <2>1, TailQueue
<1>3. t # currp /\ OneCurrent(state, currp)
  <2>1. state[t] = "WTCOND"
    BY <1>2 DEF MtxInv, Lines
  <2> QED
    BY <2>1, Parts DEF MtxInv
<1>4. prio \in [Threads -> Nat] /\ pu \in [Threads -> Msgs \cup Mutexes \cup Conds] /\ isr \in BOOLEAN
  BY Parts, PrioritiesNat DEF Rest
<1>5. \A w \in Threads \ {t} : pu'[w] = pu[w]
  BY <1>1, <1>4
<1>6. pu' \in [Threads -> Msgs \cup Mutexes \cup Conds]
  BY <1>1, <1>4 DEF Msgs
<1> DEFINE s2 == ReadyI(state, {t})
<1>7. /\ OneCurrent(s2, currp)
      /\ Lines(Mutexes, mqueue, "WTMTX", s2, pu')
      /\ Lines(Conds, cqueue', "WTCOND", s2, pu')
      /\ CallsHold(call, s2, pu', owner, mlist)
  BY <1>1, <1>2, <1>5, CondShed
<1>8. OneCurrent(state', currp') /\ SameWaits(s2, state')
  BY <1>1, <1>2, <1>3, <1>4, WakeupSwitches
<1>9. TimersHold' /\ SleepersCall(call', slept')
  <2>1. \A w \in Threads : state'[w] = "WTMTX" => state[w] = "WTMTX"
    BY <1>8 DEF SameWaits, ReadyI
  <2>2. ~isr
    BY <1>1 DEF Running
  <2> QED
    BY <1>1, <2>1, <2>2, TimersSame
<1> HIDE DEF t, s2
<1>10. Rest'
  BY <1>1, <1>4, <1>6, ShedTypes
<1>11. CallsHold(call', s2, pu', owner, mlist)
  BY <1>1, <1>7
<1> QED
  BY <1>1, <1>7, <1>8, <1>9, <1>10, <1>11, Finish

\* Everyone leaves the queue of c.
LEMMA AllShed ==
  ASSUME MtxInv, NEW c \in Conds, cqueue' = [cqueue EXCEPT ![c] = <<>>],
         pu' = Deliver(pu, ToSet(cqueue[c]), MSG_RESET)
  PROVE  LET s2 == ReadyI(state, ToSet(cqueue[c])) IN
         /\ OneCurrent(s2, currp)
         /\ Lines(Mutexes, mqueue, "WTMTX", s2, pu')
         /\ Lines(Conds, cqueue', "WTCOND", s2, pu')
         /\ CallsHold(call, s2, pu', owner, mlist)
         /\ pu' \in [Threads -> Msgs \cup Mutexes \cup Conds]
<1> DEFINE W == ToSet(cqueue[c])
           e == <<>>
<1>1. e \in Seq(Threads) /\ IsInjective(e) /\ ToSet(e) = {}
  BY DEF IsInjective, ToSet
<1>2. \A w \in Threads \ W : pu'[w] = pu[w]
  BY DEF Deliver
<1>3. pu' \in [Threads -> Msgs \cup Mutexes \cup Conds]
  BY Parts DEF Deliver, Rest, Msgs
<1>4. cqueue' = [cqueue EXCEPT ![c] = e] /\ ToSet(e) = W \ W
  BY <1>1
<1> HIDE DEF e
<1> QED
  BY <1>1, <1>2, <1>3, <1>4, CondShed

LEMMA CondBroadcastKeeps ==
  ASSUME CoreAssumption, MtxAssumption, MtxInv, NEW c \in Conds, CondBroadcast(c)
  PROVE  MtxInv'
<1> DEFINE s2 == ReadyI(state, ToSet(cqueue[c]))
<1>1. /\ ~isr
      /\ cqueue' = [cqueue EXCEPT ![c] = <<>>]
      /\ pu' = Deliver(pu, ToSet(cqueue[c]), MSG_RESET)
      /\ RescheduleS(s2, prio)
      /\ UNCHANGED <<prio, vt, slept, isr, realprio, call>> /\ UNCHANGED mtx
  BY DEF CondBroadcast, Running
<1>2. prio \in [Threads -> Nat] /\ isr \in BOOLEAN
  BY Parts, PrioritiesNat DEF Rest
<1>3. /\ OneCurrent(s2, currp)
      /\ Lines(Mutexes, mqueue, "WTMTX", s2, pu')
      /\ Lines(Conds, cqueue', "WTCOND", s2, pu')
      /\ CallsHold(call, s2, pu', owner, mlist)
      /\ pu' \in [Threads -> Msgs \cup Mutexes \cup Conds]
  BY <1>1, AllShed
<1>4. OneCurrent(state', currp') /\ SameWaits(s2, state')
  <2> HIDE DEF s2
  <2> QED
    BY <1>1, <1>2, <1>3, RescheduleRestores
<1>5. TimersHold' /\ SleepersCall(call', slept')
  <2>1. \A w \in Threads : state'[w] = "WTMTX" => state[w] = "WTMTX"
    BY <1>4 DEF SameWaits, ReadyI
  <2> QED
    BY <1>1, <2>1, TimersSame
<1> HIDE DEF s2
<1>6. Rest'
  BY <1>1, <1>2, <1>3, ShedTypes
<1>7. CallsHold(call', s2, pu', owner, mlist)
  BY <1>1, <1>3
<1> QED
  BY <1>1, <1>3, <1>4, <1>5, <1>6, <1>7, Finish

\* In a handler nothing is switched.
LEMMA IsrTimers ==
  ASSUME MtxInv, Interruptible, isr' = TRUE, UNCHANGED <<currp, vt, slept, call>>,
         \A t \in Threads : state'[t] = "WTMTX" => state[t] = "WTMTX"
  PROVE  TimersHold' /\ SleepersCall(call', slept')
  BY DEF MtxInv, TimersHold, SleepersCall, Interruptible

LEMMA IsrCondSignalIKeeps ==
  ASSUME CoreAssumption, MtxAssumption, MtxInv, NEW c \in Conds, IsrCondSignalI(c)
  PROVE  MtxInv'
<1> DEFINE t == Head(cqueue[c])
           s2 == ReadyI(state, {t})
<1>1. /\ Interruptible /\ isr' = TRUE /\ cqueue[c] # <<>>
      /\ cqueue' = [cqueue EXCEPT ![c] = Tail(cqueue[c])]
      /\ pu' = [pu EXCEPT ![t] = MSG_OK]
      /\ state' = s2
      /\ UNCHANGED <<currp, prio, vt, slept, realprio, call>> /\ UNCHANGED mtx
  BY DEF IsrCondSignalI
<1>2. /\ t \in Threads /\ t \in ToSet(cqueue[c])
      /\ Tail(cqueue[c]) \in Seq(Threads) /\ IsInjective(Tail(cqueue[c]))
      /\ ToSet(Tail(cqueue[c])) = ToSet(cqueue[c]) \ {t}
  <2>1. cqueue[c] \in Seq(Threads) /\ IsInjective(cqueue[c])
    BY DEF MtxInv, Lines
  <2> QED
    BY <1>1, <2>1, TailQueue
<1>3. pu \in [Threads -> Msgs \cup Mutexes \cup Conds]
  BY Parts DEF Rest
<1>4. \A w \in Threads \ {t} : pu'[w] = pu[w]
  BY <1>1, <1>3
<1>5. pu' \in [Threads -> Msgs \cup Mutexes \cup Conds] /\ isr' \in BOOLEAN
  BY <1>1, <1>3 DEF Msgs
<1>6. /\ OneCurrent(s2, currp)
      /\ Lines(Mutexes, mqueue, "WTMTX", s2, pu')
      /\ Lines(Conds, cqueue', "WTCOND", s2, pu')
      /\ CallsHold(call, s2, pu', owner, mlist)
  BY <1>1, <1>2, <1>4, CondShed
<1>7. TimersHold' /\ SleepersCall(call', slept')
  <2>1. \A w \in Threads : state'[w] = "WTMTX" => state[w] = "WTMTX"
    BY <1>1 DEF ReadyI
  <2> QED
    BY <1>1, <2>1, IsrTimers
<1> HIDE DEF t, s2
<1>8. Rest'
  BY <1>1, <1>5, ShedTypes
<1>9. /\ OneCurrent(state', currp') /\ SameWaits(s2, state')
      /\ CallsHold(call', s2, pu', owner, mlist)
  BY <1>1, <1>6 DEF SameWaits
<1> QED
  BY <1>1, <1>6, <1>7, <1>8, <1>9, Finish

LEMMA IsrCondBroadcastIKeeps ==
  ASSUME CoreAssumption, MtxAssumption, MtxInv, NEW c \in Conds, IsrCondBroadcastI(c)
  PROVE  MtxInv'
<1> DEFINE s2 == ReadyI(state, ToSet(cqueue[c]))
<1>1. /\ Interruptible /\ isr' = TRUE
      /\ cqueue' = [cqueue EXCEPT ![c] = <<>>]
      /\ pu' = Deliver(pu, ToSet(cqueue[c]), MSG_RESET)
      /\ state' = s2
      /\ UNCHANGED <<currp, prio, vt, slept, realprio, call>> /\ UNCHANGED mtx
  BY DEF IsrCondBroadcastI
<1>2. /\ OneCurrent(s2, currp)
      /\ Lines(Mutexes, mqueue, "WTMTX", s2, pu')
      /\ Lines(Conds, cqueue', "WTCOND", s2, pu')
      /\ CallsHold(call, s2, pu', owner, mlist)
      /\ pu' \in [Threads -> Msgs \cup Mutexes \cup Conds]
  BY <1>1, AllShed
<1>3. TimersHold' /\ SleepersCall(call', slept')
  <2>1. \A w \in Threads : state'[w] = "WTMTX" => state[w] = "WTMTX"
    BY <1>1 DEF ReadyI
  <2> QED
    BY <1>1, <2>1, IsrTimers
<1> HIDE DEF s2
<1>4. isr' \in BOOLEAN
  BY <1>1
<1>5. Rest'
  BY <1>1, <1>2, <1>4, ShedTypes
<1>6. /\ OneCurrent(state', currp') /\ SameWaits(s2, state')
      /\ CallsHold(call', s2, pu', owner, mlist)
  BY <1>1, <1>2 DEF SameWaits
<1> QED
  BY <1>1, <1>2, <1>3, <1>5, <1>6, Finish

-----------------------------------------------------------------------------
\* The end of a call that slept.

LEMMA NoCallHolds ==
  ASSUME MtxInv, call' = [call EXCEPT ![currp] = NoCall], EndSleep, UNCHANGED <<currp, state, isr>>
  PROVE  /\ CallsHold(call', state, pu, owner, mlist)
         /\ SleepersCall(call', slept') /\ (~isr => TimersHold')
         /\ call'[currp].op = "none"
         /\ call' \in [Threads -> [op : {"none", "lock", "wait", "sleep"}, m : Mutexes \cup {None}]]
         /\ slept' \in [Threads -> BOOLEAN]
         /\ vt' \in [Threads -> {"off", "armed", "firing"}]
<1>1. /\ slept' = [slept EXCEPT ![currp] = FALSE]
      /\ vt' = [vt EXCEPT ![currp] = "off"]
  BY DEF EndSleep
<1>2. /\ call \in [Threads -> [op : {"none", "lock", "wait", "sleep"}, m : Mutexes \cup {None}]]
      /\ slept \in [Threads -> BOOLEAN] /\ vt \in [Threads -> {"off", "armed", "firing"}]
      /\ currp \in Threads /\ state[currp] = "CURRENT"
  BY Parts DEF Rest
<1>3. NoCall.op = "none" /\ NoCall \in [op : {"none", "lock", "wait", "sleep"}, m : Mutexes \cup {None}]
  BY DEF NoCall
<1>4. \A t \in Threads : call'[t] = IF t = currp THEN NoCall ELSE call[t]
  BY <1>2
<1>5. CallsHold(call', state, pu, owner, mlist)
  <2> SUFFICES ASSUME NEW t \in Threads PROVE CallOf(t, call', state, pu, owner, mlist)
    BY DEF CallsHold
  <2>1. CallOf(t, call, state, pu, owner, mlist)
    BY DEF MtxInv, CallsHold
  <2>2. CASE t = currp
    BY <1>2, <1>3, <1>4, <2>2 DEF CallOf
  <2>3. CASE t # currp
    BY <1>4, <2>1, <2>3 DEF CallOf
  <2> QED
    BY <2>2, <2>3
<1>6. SleepersCall(call', slept')
  BY <1>1, <1>2, <1>3, <1>4 DEF SleepersCall, MtxInv
<1>7. ~isr => TimersHold'
  BY <1>1, <1>2 DEF TimersHold, MtxInv
<1>8. /\ call' \in [Threads -> [op : {"none", "lock", "wait", "sleep"}, m : Mutexes \cup {None}]]
      /\ slept' \in [Threads -> BOOLEAN] /\ vt' \in [Threads -> {"off", "armed", "firing"}]
  BY <1>1, <1>2, <1>3
<1> QED
  BY <1>2, <1>3, <1>4, <1>5, <1>6, <1>7, <1>8

LEMMA ResumeSimpleKeeps ==
  ASSUME MtxInv, ResumeSimple
  PROVE  MtxInv'
<1>1. /\ ~isr /\ EndSleep
      /\ call' = [call EXCEPT ![currp] = NoCall]
      /\ UNCHANGED <<currp, state, prio, pu, isr, cqueue, realprio>> /\ UNCHANGED mtx
  BY DEF ResumeSimple, Resuming
<1>2. /\ CallsHold(call', state, pu, owner, mlist)
      /\ SleepersCall(call', slept') /\ TimersHold'
      /\ call' \in [Threads -> [op : {"none", "lock", "wait", "sleep"}, m : Mutexes \cup {None}]]
      /\ slept' \in [Threads -> BOOLEAN] /\ vt' \in [Threads -> {"off", "armed", "firing"}]
  BY <1>1, NoCallHolds
<1>3. Rest'
  BY <1>1, <1>2, Parts DEF Rest
<1>4. /\ OneCurrent(state', currp') /\ SameWaits(state, state')
      /\ Lines(Mutexes, mqueue, "WTMTX", state, pu') /\ Lines(Conds, cqueue', "WTCOND", state, pu')
      /\ CallsHold(call', state, pu', owner, mlist)
  BY <1>1, <1>2 DEF MtxInv, SameWaits
<1> QED
  BY <1>1, <1>2, <1>3, <1>4, Finish

\* chCondWait locks its mutex again, like any other caller.
LEMMA ResumeRelockKeeps ==
  ASSUME CoreAssumption, MtxAssumption, MtxInv, ResumeRelock
  PROVE  MtxInv'
<1> DEFINE m == call[currp].m
<1>1. ~isr /\ call[currp].op = "wait"
  BY DEF ResumeRelock, Resuming
<1>2. m \in Mutexes
  BY <1>1, Parts DEF MtxInv, CallsHold, CallOf
<1>3. CASE owner[m] # None
  <2>1. LockSleep(m)
    BY <1>3 DEF ResumeRelock
  <2> QED
    BY <1>1, <1>2, <1>3, <2>1, LockSleepKeeps
<1>4. CASE owner[m] = None
  <2>1. /\ Take(m, currp) /\ EndSleep
        /\ call' = [call EXCEPT ![currp] = NoCall]
        /\ UNCHANGED <<currp, state, prio, pu, isr, mqueue, cqueue, realprio>>
    BY <1>4 DEF ResumeRelock
  <2>2. /\ CallsHold(call', state, pu, owner, mlist)
        /\ SleepersCall(call', slept') /\ TimersHold'
        /\ call'[currp].op = "none"
        /\ call' \in [Threads -> [op : {"none", "lock", "wait", "sleep"}, m : Mutexes \cup {None}]]
        /\ slept' \in [Threads -> BOOLEAN] /\ vt' \in [Threads -> {"off", "armed", "firing"}]
    BY <1>1, <2>1, NoCallHolds
  <2>3. Owned(owner', mlist') /\ Free(owner', mqueue)
    BY <1>2, <1>4, <2>1, Parts, TakeOwned DEF MtxInv
  <2> HIDE DEF m
  <2>4. CallsHold(call', state, pu, owner', mlist')
    <3>1. Owned(owner, mlist) /\ currp \in Threads
      BY Parts DEF MtxInv
    <3> QED
      BY <1>2, <1>4, <2>1, <2>2, <3>1, TakeCalls
  <2>5. Rest'
    BY <2>1, <2>2, Parts DEF Rest
  <2>6. /\ OneCurrent(state', currp')
        /\ Lines(Mutexes, mqueue', "WTMTX", state', pu') /\ Lines(Conds, cqueue', "WTCOND", state', pu')
        /\ Free(owner', mqueue') /\ CallsHold(call', state', pu', owner', mlist')
    BY <2>1, <2>3, <2>4 DEF MtxInv
  <2> QED
    BY <2>2, <2>3, <2>5, <2>6, Assemble
<1> QED
  BY <1>3, <1>4

-----------------------------------------------------------------------------
\* Timers and the end of a handler.

LEMMA ExpireKeeps ==
  ASSUME MtxInv, NEW t \in Threads, Expire(t)
  PROVE  MtxInv'
<1>1. /\ Interruptible /\ vt[t] = "armed" /\ isr' = TRUE
      /\ vt' = [vt EXCEPT ![t] = "firing"]
      /\ UNCHANGED <<currp, state, prio, pu, slept, cqueue, realprio, call>> /\ UNCHANGED mtx
  BY DEF Expire, TimerExpires
<1>2. vt \in [Threads -> {"off", "armed", "firing"}]
  BY Parts DEF Rest
<1>3. \A w \in Threads : vt'[w] = IF w = t THEN "firing" ELSE vt[w]
  BY <1>1, <1>2
<1>4. TimersHold'
  BY <1>1, <1>3 DEF TimersHold, MtxInv, Interruptible
<1>5. Rest'
  <2>1. vt' \in [Threads -> {"off", "armed", "firing"}]
    BY <1>1, <1>2
  <2> QED
    BY <1>1, <2>1, Parts DEF Rest
<1>6. /\ OneCurrent(state', currp') /\ SameWaits(state, state')
      /\ Lines(Mutexes, mqueue, "WTMTX", state, pu') /\ Lines(Conds, cqueue', "WTCOND", state, pu')
      /\ CallsHold(call', state, pu', owner, mlist) /\ SleepersCall(call', slept')
  BY <1>1 DEF MtxInv, SameWaits
<1> QED
  BY <1>1, <1>4, <1>5, <1>6, Finish

\* A thread that the tick finds asleep sleeps with a timeout: it is not the
\* running one and does not wait for a mutex.
LEMMA WakeupKeeps ==
  ASSUME MtxInv, NEW t \in Threads, Wakeup(t)
  PROVE  MtxInv'
<1>1. /\ vt[t] = "firing"
      /\ vt' = [vt EXCEPT ![t] = "off"]
      /\ UNCHANGED <<currp, prio, slept, isr, realprio, call>> /\ UNCHANGED mtx
      /\ cqueue' = IF state[t] = "WTCOND"
                     THEN [cqueue EXCEPT ![pu[t]] = Dequeue(cqueue[pu[t]], t)] ELSE cqueue
  BY DEF Wakeup, TimerWakeup
<1>2. isr /\ ~slept[currp] /\ slept[t] /\ state[t] # "WTMTX" /\ t # currp
  BY <1>1 DEF MtxInv, TimersHold
<1>3. state[t] \in {"READY", "WTCOND", "SLEEPING"}
  BY <1>2, Parts DEF States, MtxInv, OneCurrent
<1> DEFINE s2 == ReadyI(state, {t})
<1>4. /\ state' = s2
      /\ \A w \in Threads \ {t} : pu'[w] = pu[w]
      /\ pu' \in [Threads -> Msgs \cup Mutexes \cup Conds]
  <2>0. pu \in [Threads -> Msgs \cup Mutexes \cup Conds] /\ state \in [Threads -> States]
    BY Parts DEF Rest
  <2>1. CASE state[t] = "READY"
    <3>1. state' = state /\ pu' = pu
      BY <2>1 DEF Wakeup, TimerWakeup
    <3>2. \A w \in Threads : s2[w] = state[w]
      BY <2>1 DEF ReadyI
    <3>3. s2 = state
      BY <2>0, <3>2 DEF ReadyI
    <3> QED
      BY <2>0, <3>1, <3>3
  <2>2. CASE state[t] # "READY"
    <3>1. state' = s2 /\ pu' = Deliver(pu, {t}, MSG_TIMEOUT)
      BY <2>2 DEF Wakeup, TimerWakeup
    <3> QED
      BY <2>0, <3>1 DEF Deliver, Msgs
  <2> QED
    BY <2>1, <2>2
<1>5. OneCurrent(s2, currp)
  <2>1. OneCurrent(state, currp) /\ currp \notin {t}
    BY <1>2 DEF MtxInv
  <2> QED
    BY <2>1, ReadyKeepsCurrent
<1>6. /\ Lines(Mutexes, mqueue, "WTMTX", s2, pu')
      /\ Lines(Conds, cqueue', "WTCOND", s2, pu')
      /\ CallsHold(call, s2, pu', owner, mlist)
  <2>1. CASE state[t] = "WTCOND"
    <3> DEFINE c == pu[t]
               r == Dequeue(cqueue[c], t)
    <3>1. c \in Conds
      BY <2>1 DEF MtxInv, CallsHold, CallOf
    <3>2. cqueue[c] \in Seq(Threads) /\ IsInjective(cqueue[c]) /\ t \in ToSet(cqueue[c])
      BY <2>1, <3>1 DEF MtxInv, Lines
    <3>3. r \in Seq(Threads) /\ IsInjective(r) /\ ToSet(r) = ToSet(cqueue[c]) \ {t}
      BY <3>2, DequeueOne
    <3> HIDE DEF c
    <3>4. cqueue' = [cqueue EXCEPT ![c] = r]
      BY <1>1, <2>1 DEF c
    <3> HIDE DEF r
    <3>5. {t} \subseteq ToSet(cqueue[c])
      BY <3>2
    <3> QED
      BY <1>4, <3>1, <3>3, <3>4, <3>5, CondShed
  <2>2. CASE state[t] # "WTCOND"
    <3>1. cqueue' = cqueue
      BY <1>1, <2>2
    <3>2. \A w \in Threads : s2[w] = IF w = t THEN "READY" ELSE state[w]
      BY DEF ReadyI
    <3> HIDE DEF s2
    <3>3. \A w \in Threads : (s2[w] = "WTMTX" <=> state[w] = "WTMTX")
                             /\ (state[w] = "WTMTX" => pu'[w] = pu[w])
      BY <1>2, <1>4, <3>2
    <3>4. \A w \in Threads : (s2[w] = "WTCOND" <=> state[w] = "WTCOND")
                             /\ (state[w] = "WTCOND" => pu'[w] = pu[w])
      BY <1>4, <2>2, <3>2
    <3>5. Lines(Mutexes, mqueue, "WTMTX", state, pu) /\ Lines(Conds, cqueue, "WTCOND", state, pu)
      BY DEF MtxInv
    <3>6. Lines(Mutexes, mqueue, "WTMTX", s2, pu')
      BY <3>3, <3>5, LinesSame
    <3>7. Lines(Conds, cqueue, "WTCOND", s2, pu')
      BY <3>4, <3>5, LinesSame
    <3>8. CallsHold(call, s2, pu', owner, mlist)
      BY <3>3, <3>4 DEF CallsHold, CallOf, MtxInv
    <3> QED
      BY <3>1, <3>6, <3>7, <3>8
  <2> QED
    BY <2>1, <2>2
<1>7. vt \in [Threads -> {"off", "armed", "firing"}]
  BY Parts DEF Rest
<1>8. TimersHold' /\ SleepersCall(call', slept')
  <2>1. \A w \in Threads : state'[w] = "WTMTX" => state[w] = "WTMTX"
    BY <1>4 DEF ReadyI
  <2> QED
    BY <1>1, <1>7, <2>1 DEF TimersHold, SleepersCall, MtxInv
<1>9. Rest'
  <2>1. vt' \in [Threads -> {"off", "armed", "firing"}]
    BY <1>1, <1>7
  <2> QED
    BY <1>1, <1>4, <2>1, Parts DEF Rest
<1> HIDE DEF s2
<1>10. /\ OneCurrent(state', currp') /\ SameWaits(s2, state')
       /\ CallsHold(call', s2, pu', owner, mlist)
  BY <1>1, <1>4, <1>5, <1>6 DEF SameWaits
<1> QED
  BY <1>1, <1>6, <1>8, <1>9, <1>10, Finish

LEMMA EndIsrKeeps ==
  ASSUME CoreAssumption, MtxAssumption, MtxInv, EndIsr
  PROVE  MtxInv'
<1>1. /\ isr' = FALSE /\ \A t \in Threads : vt[t] # "firing"
      /\ RescheduleS(state, prio)
      /\ UNCHANGED <<prio, pu, vt, slept, cqueue, realprio, call>> /\ UNCHANGED mtx
  BY DEF EndIsr, IsrExit
<1>2. prio \in [Threads -> Nat] /\ OneCurrent(state, currp)
  BY Parts, PrioritiesNat DEF Rest, MtxInv
<1>3. OneCurrent(state', currp') /\ SameWaits(state, state')
  BY <1>1, <1>2, RescheduleRestores
<1>4. TimersHold' /\ SleepersCall(call', slept')
  <2>1. \A w \in Threads : state'[w] = "WTMTX" => state[w] = "WTMTX"
    BY <1>3 DEF SameWaits
  <2> QED
    BY <1>1, <2>1 DEF TimersHold, SleepersCall, MtxInv
<1>5. Rest'
  BY <1>1, Parts DEF Rest
<1>6. /\ Lines(Mutexes, mqueue, "WTMTX", state, pu') /\ Lines(Conds, cqueue', "WTCOND", state, pu')
      /\ CallsHold(call', state, pu', owner, mlist)
  BY <1>1 DEF MtxInv
<1> QED
  BY <1>1, <1>3, <1>4, <1>5, <1>6, Finish

-----------------------------------------------------------------------------
LEMMA InitHolds ==
  ASSUME CoreAssumption, MtxAssumption, Init
  PROVE  MtxInv
<1>1. /\ prio = BasePrio /\ realprio = BasePrio
      /\ pu = [t \in Threads |-> MSG_OK] /\ vt = [t \in Threads |-> "off"]
      /\ slept = [t \in Threads |-> FALSE] /\ isr = FALSE
      /\ owner = [m \in Mutexes |-> None]
      /\ mlist = [t \in Threads |-> <<>>]
      /\ mqueue = [m \in Mutexes |-> <<>>]
      /\ cqueue = [c \in Conds |-> <<>>]
      /\ call = [t \in Threads |-> NoCall]
  BY DEF Init, CoreInit
<1>2. PICK c \in Users : /\ currp = c
                         /\ state = [w \in Threads |-> IF w = c THEN "CURRENT" ELSE "READY"]
  BY DEF Init, CoreInit
<1>3. OneCurrent(state, currp)
  BY <1>2 DEF OneCurrent, Users, States
<1>4. BasePrio \in [Threads -> Priorities]
  BY DEF CoreAssumption, Priorities
<1>5. NoCall.op = "none" /\ NoCall \in [op : {"none", "lock", "wait", "sleep"}, m : Mutexes \cup {None}]
  BY DEF NoCall
<1>6. Rest
  BY <1>1, <1>4, <1>5 DEF Rest, Msgs
<1>7. ToSet(<<>>) = {} /\ IsInjective(<<>>)
  BY DEF ToSet, IsInjective
<1>8. Lines(Mutexes, mqueue, "WTMTX", state, pu) /\ Lines(Conds, cqueue, "WTCOND", state, pu)
  BY <1>1, <1>2, <1>7 DEF Lines
<1>9. Owned(owner, mlist) /\ Free(owner, mqueue)
  BY <1>1, <1>7 DEF Owned, Free, MtxAssumption
<1>10. CallsHold(call, state, pu, owner, mlist)
  BY <1>1, <1>2, <1>5 DEF CallsHold, CallOf
<1>11. SleepersCall(call, slept) /\ TimersHold
  BY <1>1, <1>5 DEF SleepersCall, TimersHold
<1>12. TypeOK
  BY <1>3, <1>6, <1>8, <1>9 DEF TypeOK, Rest, OneCurrent, States, Lines, Owned
<1> QED
  BY <1>3, <1>8, <1>9, <1>10, <1>11, <1>12 DEF MtxInv

LEMMA LockKeeps ==
  ASSUME CoreAssumption, MtxAssumption, MtxInv, NEW m \in Mutexes, Lock(m) \/ TryLock(m)
  PROVE  MtxInv'
<1>1. Running /\ call[currp].op = "none" /\ ~isr
  BY RunnerCallsNot DEF Lock, TryLock
<1>2. CASE owner[m] # None /\ LockSleep(m)
  BY <1>1, <1>2, LockSleepKeeps
<1>3. CASE owner[m] = None /\ Take(m, currp) /\ UNCHANGED <<core, mqueue, cqueue, realprio, call>>
  BY <1>1, <1>3, TakeKeeps
<1> QED
  BY <1>2, <1>3 DEF Lock, TryLock

LEMMA NextKeeps ==
  ASSUME CoreAssumption, MtxAssumption, MtxInv, Next
  PROVE  MtxInv'
<1>1. ASSUME NEW m \in Mutexes, Lock(m) \/ TryLock(m) \/ Unlock(m) PROVE MtxInv'
  BY <1>1, LockKeeps, UnlockKeeps
<1>2. ASSUME NEW n \in Levels[currp], SetPriority(n) PROVE MtxInv'
  BY <1>2, SetPriorityKeeps
<1>3. ASSUME NEW c \in Conds, NEW time \in {"INFINITE", "FINITE"}, CondWait(c, time) PROVE MtxInv'
  BY <1>3, CondWaitKeeps
<1>4. ASSUME NEW c \in Conds, CondSignal(c) \/ CondBroadcast(c) PROVE MtxInv'
  BY <1>4, CondSignalKeeps, CondBroadcastKeeps
<1>5. ASSUME NEW c \in Conds, IsrCondSignalI(c) \/ IsrCondBroadcastI(c) PROVE MtxInv'
  BY <1>5, IsrCondSignalIKeeps, IsrCondBroadcastIKeeps
<1>6. ASSUME NEW t \in Threads, Expire(t) \/ Wakeup(t) PROVE MtxInv'
  BY <1>6, ExpireKeeps, WakeupKeeps
<1>7. CASE UnlockAll \/ Sleep \/ ResumeSimple \/ ResumeRelock \/ EndIsr
  BY <1>7, UnlockAllKeeps, SleepKeeps, ResumeSimpleKeeps, ResumeRelockKeeps, EndIsrKeeps
<1> QED
  BY <1>1, <1>2, <1>3, <1>4, <1>5, <1>6, <1>7 DEF Next

LEMMA StutterKeeps ==
  ASSUME MtxInv, UNCHANGED vars
  PROVE  MtxInv'
<1>1. /\ UNCHANGED <<currp, state, prio, pu, vt, slept, isr, cqueue, realprio, call>>
      /\ UNCHANGED <<owner, mlist, mqueue>>
  BY DEF vars, core, mtx
<1> QED
  BY <1>1 DEF MtxInv, TypeOK, TimersHold

\* Everything above holds in every state of the system.
THEOREM Invariance == Spec => []MtxInv
<1>1. Init => MtxInv
  BY CoreAssumption, MtxAssumption, InitHolds
<1>2. MtxInv /\ [Next]_vars => MtxInv'
  BY CoreAssumption, MtxAssumption, NextKeeps, StutterKeeps
<1> QED
  BY <1>1, <1>2, PTL DEF Spec

\* Every variable keeps its type: in particular chMtxUnlock finds a priority
\* that is some thread's, and no queue or list holds anything else.
THEOREM TypeCorrect == Spec => []TypeOK
<1>1. MtxInv => TypeOK
  BY DEF MtxInv
<1> QED
  BY <1>1, Invariance, PTL

\* The kernel's books on who owns what agree (m_owner, p_mtxlist, m_queue), and
\* a thread whose chMtxLock slept owns the mutex when it runs again.
THEOREM OwnershipIsConsistent == Spec => []OwnershipConsistent
<1>1. MtxInv => OwnershipConsistent
  <2> SUFFICES ASSUME MtxInv PROVE OwnershipConsistent
    OBVIOUS
  <2>1. \A m \in Mutexes : owner[m] = None => mqueue[m] = <<>>
    BY DEF MtxInv, Free
  <2>2. /\ \A t \in Threads : IsInjective(mlist[t])
        /\ \A m \in Mutexes, t \in Threads : m \in ToSet(mlist[t]) <=> owner[m] = t
    BY DEF MtxInv, Owned
  <2>3. \A t \in Threads : call[t].op = "lock" /\ state[t] # "WTMTX" =>
          owner[call[t].m] = t /\ Head(mlist[t]) = call[t].m
    BY DEF MtxInv, CallsHold, CallOf
  <2> QED
    BY <2>1, <2>2, <2>3 DEF OwnershipConsistent
<1> QED
  BY <1>1, Invariance, PTL

-----------------------------------------------------------------------------
(***************************************************************************)
(* Order: the mutex queues stay sorted while waiters are boosted, and, as  *)
(* long as no owner changes its own priority, priority inheritance is      *)
(* exact and the most urgent ready thread runs.                            *)
(*                                                                         *)
(* The first needs that mutexes are nested in an order: then the loop of   *)
(* chMtxLockS passes each queue once.                                      *)
(***************************************************************************)

\* The program nests mutexes in one order.
StrictRank == \A k, m \in Mutexes : k # m => Rank[k] # Rank[m]

\* A thread holds mutexes in the order it locked them, and whoever waits for
\* one, or is to lock one again, holds only lower ones.
Nests ==
  /\ \A t \in Threads : Descending(mlist[t], Rank)
  /\ \A k, j \in Mutexes : owner[j] \in ToSet(mqueue[k]) => Rank[j] < Rank[k]
  /\ \A t \in Threads, j \in Mutexes :
       call[t].op = "wait" /\ owner[j] = t => Rank[j] < Rank[call[t].m]

-----------------------------------------------------------------------------
\* chMtxUnlock, chMtxUnlockAll and chCondWait: the mutexes of M pass from
\* currp to the first in their queues.
HeirsOf(M) == {t \in Threads : \E m \in M : mqueue[m] # <<>> /\ t = Head(mqueue[m])}

Passes(M) ==
  /\ M \subseteq Mutexes
  /\ \A m \in M : owner[m] = currp
  /\ \A k \in Mutexes :
       /\ owner'[k] = IF k \in M THEN (IF mqueue[k] = <<>> THEN None ELSE Head(mqueue[k]))
                                 ELSE owner[k]
       /\ mqueue'[k] = IF k \in M /\ mqueue[k] # <<>> THEN Tail(mqueue[k]) ELSE mqueue[k]
  /\ \A t \in Threads \ {currp} :
       mlist'[t] = IF t \in HeirsOf(M) THEN <<pu[t]>> \o mlist[t] ELSE mlist[t]

LEMMA HeirsOfAre ==
  ASSUME MtxAssumption, MtxInv, NEW M, M \subseteq Mutexes
  PROVE  \A t \in HeirsOf(M) :
           /\ t \in Threads /\ t # currp /\ t # None /\ pu[t] \in M
           /\ mqueue[pu[t]] # <<>> /\ t = Head(mqueue[pu[t]]) /\ t \in ToSet(mqueue[pu[t]])
           /\ call[t].op = "lock"
           /\ \A k \in Mutexes : t \in ToSet(mqueue[k]) => k = pu[t]
<1> SUFFICES ASSUME NEW t \in HeirsOf(M)
    PROVE  /\ t \in Threads /\ t # currp /\ t # None /\ pu[t] \in M
           /\ mqueue[pu[t]] # <<>> /\ t = Head(mqueue[pu[t]]) /\ t \in ToSet(mqueue[pu[t]])
           /\ call[t].op = "lock"
           /\ \A k \in Mutexes : t \in ToSet(mqueue[k]) => k = pu[t]
  OBVIOUS
<1>1. PICK m \in M : mqueue[m] # <<>> /\ t = Head(mqueue[m])
  BY DEF HeirsOf
<1>2. t \in Threads /\ t # currp /\ state[t] = "WTMTX" /\ pu[t] = m /\ call[t].op = "lock"
  BY <1>1, HeadWaits
<1>3. t # None
  BY <1>2 DEF MtxAssumption
<1>4. \A k \in Mutexes : t \in ToSet(mqueue[k]) <=> pu[t] = k
  BY <1>2 DEF MtxInv, Lines
<1>5. t \in ToSet(mqueue[m])
  BY <1>2, <1>4
<1> QED
  BY <1>1, <1>2, <1>3, <1>4, <1>5

LEMMA HandOverPasses ==
  ASSUME MtxAssumption, MtxInv, NEW m \in Mutexes,
         mlist[currp] # <<>>, Head(mlist[currp]) = m, HandOver(m)
  PROVE  Passes({m}) /\ mlist'[currp] = Tail(mlist[currp])
<1>1. /\ owner \in [Mutexes -> Threads \cup {None}] /\ mlist \in [Threads -> Seq(Mutexes)]
      /\ mqueue \in [Mutexes -> Seq(Threads)] /\ currp \in Threads
      /\ owner[m] = currp
  BY Parts, LastLocked
<1>2. CASE mqueue[m] = <<>>
  <2>1. /\ owner' = [owner EXCEPT ![m] = None]
        /\ mlist' = [mlist EXCEPT ![currp] = Tail(mlist[currp])]
        /\ mqueue' = mqueue
    BY <1>2 DEF HandOver
  <2>2. HeirsOf({m}) = {}
    BY <1>2 DEF HeirsOf
  <2> QED
    BY <1>1, <1>2, <2>1, <2>2 DEF Passes
<1>3. CASE mqueue[m] # <<>>
  <2> DEFINE t == Head(mqueue[m])
  <2>1. t \in Threads /\ t # currp /\ pu[t] = m
    BY <1>3, HeadWaits
  <2>2. /\ owner' = [owner EXCEPT ![m] = t]
        /\ mlist' = [mlist EXCEPT ![currp] = Tail(mlist[currp]), ![t] = <<m>> \o mlist[t]]
        /\ mqueue' = [mqueue EXCEPT ![m] = Tail(mqueue[m])]
    BY <1>1, <1>3, <2>1 DEF HandOver
  <2>3. HeirsOf({m}) = {t}
    BY <1>3, <2>1 DEF HeirsOf
  <2>4. \A x \in Threads \ {currp} : mlist'[x] = IF x \in HeirsOf({m}) THEN <<pu[x]>> \o mlist[x] ELSE mlist[x]
    <3> HIDE DEF t
    <3> QED
      BY <1>1, <2>1, <2>2, <2>3
  <2>5. mlist'[currp] = Tail(mlist[currp])
    <3> HIDE DEF t
    <3> QED
      BY <1>1, <2>1, <2>2
  <2>6. \A k \in Mutexes :
          /\ owner'[k] = IF k \in {m} THEN (IF mqueue[k] = <<>> THEN None ELSE Head(mqueue[k]))
                                      ELSE owner[k]
          /\ mqueue'[k] = IF k \in {m} /\ mqueue[k] # <<>> THEN Tail(mqueue[k]) ELSE mqueue[k]
    BY <1>1, <1>3, <2>2
  <2> QED
    BY <1>1, <2>4, <2>5, <2>6 DEF Passes
<1> QED
  BY <1>2, <1>3

LEMMA UnlockAllPasses ==
  ASSUME MtxAssumption, MtxInv, UnlockAll
  PROVE  Passes(Mine) /\ mlist'[currp] = <<>>
<1>1. Heirs = HeirsOf(Mine)
  BY DEF Heirs, HeirsOf
<1>2. currp \in Threads
  BY Parts
<1>3. \A t \in Threads : mlist'[t] = IF t = currp THEN <<>>
                           ELSE IF t \in HeirsOf(Mine) THEN <<pu[t]>> \o mlist[t] ELSE mlist[t]
  BY <1>1, UnlockAllDoes
<1>4. \A k \in Mutexes :
        /\ owner'[k] = IF k \in Mine THEN (IF mqueue[k] = <<>> THEN None ELSE Head(mqueue[k]))
                                     ELSE owner[k]
        /\ mqueue'[k] = IF k \in Mine /\ mqueue[k] # <<>> THEN Tail(mqueue[k]) ELSE mqueue[k]
  BY UnlockAllDoes
<1>5. Mine \subseteq Mutexes /\ \A m \in Mine : owner[m] = currp
  BY HeirsAre
<1> QED
  BY <1>2, <1>3, <1>4, <1>5 DEF Passes

\* What leaves a queue is its heir.
LEMMA PassedQueues ==
  ASSUME MtxAssumption, MtxInv, NEW M, Passes(M), NEW k \in Mutexes
  PROVE  /\ ToSet(mqueue'[k]) = ToSet(mqueue[k]) \ HeirsOf(M)
         /\ mqueue[k] \in Seq(Threads) /\ ToSet(mqueue[k]) \subseteq Threads
         /\ mqueue[k] # <<>> => Head(mqueue[k]) \in ToSet(mqueue[k])
<1>1. mqueue[k] \in Seq(Threads) /\ IsInjective(mqueue[k]) /\ ToSet(mqueue[k]) \subseteq Threads
  BY Parts, InQueue DEF MtxInv, Lines
<1>2. M \subseteq Mutexes
  BY DEF Passes
<1>3. mqueue'[k] = IF k \in M /\ mqueue[k] # <<>> THEN Tail(mqueue[k]) ELSE mqueue[k]
  BY DEF Passes
<1>4. mqueue[k] # <<>> => /\ Head(mqueue[k]) \in ToSet(mqueue[k])
                          /\ ToSet(Tail(mqueue[k])) = ToSet(mqueue[k]) \ {Head(mqueue[k])}
  BY <1>1, TailQueue
<1>5. CASE k \in M /\ mqueue[k] # <<>>
  <2>1. Head(mqueue[k]) \in HeirsOf(M)
    BY <1>1, <1>4, <1>5 DEF HeirsOf
  <2>2. \A t \in ToSet(mqueue[k]) : t \in HeirsOf(M) => t = Head(mqueue[k])
    BY <1>2, HeirsOfAre
  <2> QED
    BY <1>1, <1>3, <1>4, <1>5, <2>1, <2>2
<1>6. CASE ~(k \in M /\ mqueue[k] # <<>>)
  <2>1. \A t \in HeirsOf(M) : t \notin ToSet(mqueue[k])
    BY <1>2, <1>6, HeirsOfAre
  <2> QED
    BY <1>1, <1>3, <1>4, <1>6, <2>1
<1> QED
  BY <1>5, <1>6

-----------------------------------------------------------------------------
\* Nesting.

LEMMA RanksNat ==
  ASSUME MtxAssumption
  PROVE  Rank \in [Mutexes -> Nat]
  BY DEF MtxAssumption

LEMMA NestsSame ==
  ASSUME Nests, UNCHANGED mtx,
         \A t \in Threads : call'[t].op = "wait" => call[t].op = "wait" /\ call'[t].m = call[t].m
  PROVE  Nests'
  BY DEF Nests, mtx

LEMMA TakeNests ==
  ASSUME MtxAssumption, MtxInv, Nests, NEW m \in Mutexes, owner[m] = None, Take(m, currp),
         \A j \in Mutexes : owner[j] = currp => Rank[j] <= Rank[m],
         mqueue' = mqueue, call'[currp].op # "wait",
         \A t \in Threads \ {currp} : call'[t] = call[t]
  PROVE  Nests'
<1>1. /\ owner \in [Mutexes -> Threads \cup {None}] /\ mlist \in [Threads -> Seq(Mutexes)]
      /\ currp \in Threads /\ state[currp] = "CURRENT"
  BY Parts
<1>2. owner' = [owner EXCEPT ![m] = currp] /\ mlist' = [mlist EXCEPT ![currp] = <<m>> \o mlist[currp]]
  BY DEF Take
<1>3. Rank \in [Mutexes -> Nat]
  BY RanksNat
<1>4. Descending(<<m>> \o mlist[currp], Rank)
  <2>1. \A j \in ToSet(mlist[currp]) : Rank[j] <= Rank[m]
    BY <1>1, InQueue DEF MtxInv, Owned
  <2>2. Descending(mlist[currp], Rank)
    BY <1>1 DEF Nests
  <2> QED
    BY <1>1, <1>3, <2>1, <2>2, DescendingPush
<1>5. ASSUME NEW t \in Threads PROVE Descending(mlist'[t], Rank)
  BY <1>1, <1>2, <1>4 DEF Nests
<1>6. \A k \in Mutexes : owner'[k] = IF k = m THEN currp ELSE owner[k]
  BY <1>1, <1>2
<1>7. \A k \in Mutexes : currp \notin ToSet(mqueue[k])
  BY <1>1 DEF MtxInv, Lines
<1>8. \A k, j \in Mutexes : owner'[j] \in ToSet(mqueue'[k]) => Rank[j] < Rank[k]
  BY <1>6, <1>7 DEF Nests
<1>9. ASSUME NEW t \in Threads, NEW j \in Mutexes, call'[t].op = "wait", owner'[j] = t
      PROVE  Rank[j] < Rank[call'[t].m]
  <2>1. t # currp /\ call'[t] = call[t] /\ owner[j] = t
    BY <1>6, <1>9
  <2> QED
    BY <1>9, <2>1 DEF Nests
<1> QED
  BY <1>5, <1>8, <1>9 DEF Nests

\* currp joins the queue of m; boosts change places in queues, not queues.
LEMMA LockSleepNests ==
  ASSUME CoreAssumption, MtxAssumption, MtxInv, Nests, NEW m \in Mutexes, LockSleep(m),
         \A j \in Mutexes : owner[j] = currp => Rank[j] < Rank[m]
  PROVE  Nests'
<1>1. owner' = owner /\ mlist' = mlist /\ call' = [call EXCEPT ![currp] = LockCall(m)]
  BY DEF LockSleep
<1>2. \A k \in Mutexes : ToSet(mqueue'[k]) = ToSet(mqueue[k]) \cup (IF k = m THEN {currp} ELSE {})
  BY BoostedLines DEF Joined
<1>3. ASSUME NEW k \in Mutexes, NEW j \in Mutexes, owner'[j] \in ToSet(mqueue'[k])
      PROVE  Rank[j] < Rank[k]
  <2>1. owner[j] \in ToSet(mqueue[k]) \/ (k = m /\ owner[j] = currp)
    BY <1>1, <1>2, <1>3
  <2> QED
    BY <2>1 DEF Nests
<1>4. ASSUME NEW t \in Threads, NEW j \in Mutexes, call'[t].op = "wait", owner'[j] = t
      PROVE  Rank[j] < Rank[call'[t].m]
  <2>1. LockCall(m).op = "lock"
    BY DEF LockCall
  <2>2. call \in [Threads -> [op : {"none", "lock", "wait", "sleep"}, m : Mutexes \cup {None}]]
    BY Parts DEF Rest
  <2>3. t # currp /\ call'[t] = call[t]
    BY <1>1, <1>4, <2>1, <2>2
  <2> QED
    BY <1>1, <1>4, <2>3 DEF Nests
<1> QED
  BY <1>1, <1>3, <1>4 DEF Nests

\* An heir holds only mutexes below the one it gets.
LEMMA PassesNests ==
  ASSUME MtxAssumption, MtxInv, Nests, NEW M, Passes(M), Descending(mlist'[currp], Rank),
         \A t \in Threads \ {currp} : call'[t] = call[t],
         call'[currp].op = "wait" =>
           \A j \in Mutexes : owner'[j] = currp => Rank[j] < Rank[call'[currp].m]
  PROVE  Nests'
<1>0. M \subseteq Mutexes /\ currp \in Threads /\ mlist \in [Threads -> Seq(Mutexes)]
  BY Parts DEF Passes
<1>1. \A t \in HeirsOf(M) :
        /\ t \in Threads /\ t # currp /\ t # None /\ pu[t] \in Mutexes
        /\ t = Head(mqueue[pu[t]]) /\ t \in ToSet(mqueue[pu[t]]) /\ call[t].op = "lock"
  BY <1>0, HeirsOfAre
<1>2. ASSUME NEW t \in Threads PROVE Descending(mlist'[t], Rank)
  <2>1. CASE t = currp
    BY <2>1
  <2>2. CASE t # currp /\ t \notin HeirsOf(M)
    BY <2>2 DEF Passes, Nests
  <2>3. CASE t # currp /\ t \in HeirsOf(M)
    <3>1. mlist'[t] = <<pu[t]>> \o mlist[t]
      BY <2>3 DEF Passes
    <3>2. \A j \in ToSet(mlist[t]) : j \in Mutexes /\ owner[j] = t
      BY <1>0, InQueue DEF MtxInv, Owned
    <3>3. \A j \in ToSet(mlist[t]) : Rank[j] < Rank[pu[t]]
      BY <1>1, <2>3, <3>2 DEF Nests
    <3>4. Descending(mlist[t], Rank) /\ Rank \in [Mutexes -> Nat] /\ pu[t] \in Mutexes
      BY <1>1, <2>3, RanksNat DEF Nests
    <3>5. \A j \in ToSet(mlist[t]) : Rank[j] <= Rank[pu[t]]
      BY <3>2, <3>3, <3>4
    <3>6. Descending(<<pu[t]>> \o mlist[t], Rank)
      <4>1. mlist[t] \in Seq(Mutexes)
        BY <1>0
      <4> QED
        BY <3>4, <3>5, <4>1, DescendingPush
    <3> QED
      BY <3>1, <3>6
  <2> QED
    BY <2>1, <2>2, <2>3
<1>3. ASSUME NEW j \in Mutexes
      PROVE  owner'[j] = owner[j] \/ owner'[j] \in HeirsOf(M) \/ owner'[j] = None
  <2>1. owner'[j] = IF j \in M THEN (IF mqueue[j] = <<>> THEN None ELSE Head(mqueue[j])) ELSE owner[j]
    BY DEF Passes
  <2>2. j \in M /\ mqueue[j] # <<>> => Head(mqueue[j]) \in HeirsOf(M)
    BY HeadWaits DEF HeirsOf
  <2> QED
    BY <2>1, <2>2
<1>4. ASSUME NEW k \in Mutexes, NEW j \in Mutexes, owner'[j] \in ToSet(mqueue'[k])
      PROVE  Rank[j] < Rank[k]
  <2>1. ToSet(mqueue'[k]) = ToSet(mqueue[k]) \ HeirsOf(M) /\ ToSet(mqueue[k]) \subseteq Threads
    BY PassedQueues
  <2>2. owner'[j] # None
    BY <1>4, <2>1 DEF MtxAssumption
  <2>3. owner'[j] = owner[j]
    BY <1>3, <1>4, <2>1, <2>2
  <2> QED
    BY <1>4, <2>1, <2>3 DEF Nests
<1>5. ASSUME NEW t \in Threads, NEW j \in Mutexes, call'[t].op = "wait", owner'[j] = t
      PROVE  Rank[j] < Rank[call'[t].m]
  <2>1. CASE t = currp
    BY <1>5, <2>1
  <2>2. CASE t # currp
    <3>1. call'[t] = call[t] /\ t # None
      BY <2>2 DEF MtxAssumption
    <3>2. t \notin HeirsOf(M)
      BY <1>1, <1>5, <3>1
    <3>3. owner[j] = t
      BY <1>3, <1>5, <3>1, <3>2
    <3> QED
      BY <1>5, <3>1, <3>3 DEF Nests
  <2> QED
    BY <2>1, <2>2
<1> QED
  BY <1>2, <1>4, <1>5 DEF Nests

LEMMA HeldAre ==
  ASSUME MtxInv, Nests
  PROVE  /\ currp \in Threads
         /\ \A j \in Mutexes : owner[j] = currp <=> j \in ToSet(mlist[currp])
         /\ ToSet(mlist[currp]) \subseteq Mutexes
         /\ mlist[currp] \in Seq(Mutexes) /\ IsInjective(mlist[currp])
         /\ Descending(mlist[currp], Rank)
  BY Parts, InQueue DEF MtxInv, Owned, Nests

LEMMA LockNests ==
  ASSUME CoreAssumption, MtxAssumption, StrictRank, MtxInv, Nests,
         NEW m \in Mutexes, Lock(m) \/ TryLock(m)
  PROVE  Nests'
<1>1. call[currp].op = "none"
  BY RunnerCallsNot DEF Lock, TryLock
<1>2. \A j \in Mutexes : owner[j] = currp => j # m /\ Rank[j] <= Rank[m]
  BY HeldAre DEF Lock, TryLock, MayLock
<1>3. CASE owner[m] # None /\ LockSleep(m)
  <2>1. \A j \in Mutexes : owner[j] = currp => Rank[j] < Rank[m]
    <3>1. \A j \in Mutexes : Rank[j] \in Nat
      BY RanksNat
    <3> QED
      BY <1>2, <3>1 DEF StrictRank
  <2> QED
    BY <1>3, <2>1, LockSleepNests
<1>4. CASE owner[m] = None /\ Take(m, currp) /\ UNCHANGED <<core, mqueue, cqueue, realprio, call>>
  BY <1>1, <1>2, <1>4, TakeNests
<1> QED
  BY <1>3, <1>4 DEF Lock, TryLock

LEMMA UnlockNests ==
  ASSUME MtxAssumption, MtxInv, Nests, NEW m \in Mutexes, Unlock(m)
  PROVE  Nests'
<1>1. /\ mlist[currp] # <<>> /\ Head(mlist[currp]) = m /\ HandOver(m)
      /\ call' = call /\ call[currp].op = "none"
  BY RunnerCallsNot DEF Unlock
<1>2. Passes({m}) /\ mlist'[currp] = Tail(mlist[currp])
  BY <1>1, HandOverPasses
<1>3. Descending(mlist'[currp], Rank)
  <2>1. mlist[currp] \in Seq(Mutexes) /\ Descending(mlist[currp], Rank)
    BY HeldAre
  <2>2. Descending(Tail(mlist[currp]), Rank)
    BY <1>1, <2>1, DescendingTail
  <2> QED
    BY <1>2, <2>2
<1> QED
  BY <1>1, <1>2, <1>3, PassesNests

LEMMA UnlockAllNests ==
  ASSUME MtxAssumption, MtxInv, Nests, UnlockAll
  PROVE  Nests'
<1>1. call' = call /\ call[currp].op = "none"
  BY RunnerCallsNot DEF UnlockAll
<1>2. Passes(Mine) /\ mlist'[currp] = <<>>
  BY UnlockAllPasses
<1>3. Descending(mlist'[currp], Rank)
  BY <1>2 DEF Descending
<1> QED
  BY <1>1, <1>2, <1>3, PassesNests

LEMMA CondWaitNests ==
  ASSUME MtxAssumption, StrictRank, MtxInv, Nests, NEW c \in Conds,
         NEW time \in {"INFINITE", "FINITE"}, CondWait(c, time)
  PROVE  Nests'
<1> DEFINE m == Head(mlist[currp])
<1>1. /\ mlist[currp] # <<>> /\ HandOver(m)
      /\ call' = [call EXCEPT ![currp] = WaitCall(m)]
  BY DEF CondWait
<1>2. m \in Mutexes /\ owner[m] = currp /\ m \in ToSet(mlist[currp])
  BY <1>1, LastLocked
<1>3. Passes({m}) /\ mlist'[currp] = Tail(mlist[currp])
  BY <1>1, <1>2, HandOverPasses
<1>4. Descending(mlist'[currp], Rank)
  <2>1. mlist[currp] \in Seq(Mutexes) /\ Descending(mlist[currp], Rank)
    BY HeldAre
  <2>2. Descending(Tail(mlist[currp]), Rank)
    BY <1>1, <2>1, DescendingTail
  <2> QED
    BY <1>3, <2>2
<1>5. WaitCall(m).m = m
  BY DEF WaitCall
<1>6. currp \in Threads /\ call \in [Threads -> [op : {"none", "lock", "wait", "sleep"}, m : Mutexes \cup {None}]]
  BY Parts DEF Rest
<1>7. call'[currp].m = m /\ \A t \in Threads \ {currp} : call'[t] = call[t]
  BY <1>1, <1>5, <1>6
<1>8. ASSUME NEW j \in Mutexes, owner'[j] = currp PROVE Rank[j] < Rank[m]
  <2>1. owner'[m] = IF mqueue[m] = <<>> THEN None ELSE Head(mqueue[m])
    BY <1>2, <1>3 DEF Passes
  <2>2. mqueue[m] # <<>> => Head(mqueue[m]) # currp
    BY <1>2, HeadWaits
  <2>3. j # m
    BY <1>6, <1>8, <2>1, <2>2 DEF MtxAssumption
  <2>4. owner[j] = currp
    BY <1>3, <1>8, <2>3 DEF Passes
  <2>5. j \in ToSet(mlist[currp]) /\ mlist[currp] \in Seq(Mutexes) /\ Descending(mlist[currp], Rank)
    BY <2>4, HeldAre
  <2>6. Rank \in [Mutexes -> Nat] /\ Rank[j] # Rank[m]
    BY <1>2, <2>3, RanksNat DEF StrictRank
  <2>7. Rank[m] >= Rank[j]
    BY <2>5, <2>6, DescendingHead
  <2> QED
    BY <1>2, <2>6, <2>7
<1> HIDE DEF m
<1> QED
  BY <1>3, <1>4, <1>7, <1>8, PassesNests

LEMMA RelockNests ==
  ASSUME CoreAssumption, MtxAssumption, MtxInv, Nests, ResumeRelock
  PROVE  Nests'
<1> DEFINE m == call[currp].m
<1>1. call[currp].op = "wait" /\ currp \in Threads
  BY Parts DEF ResumeRelock
<1>2. m \in Mutexes
  BY <1>1 DEF MtxInv, CallsHold, CallOf
<1>3. \A j \in Mutexes : owner[j] = currp => Rank[j] < Rank[m]
  BY <1>1 DEF Nests
<1>4. CASE owner[m] # None
  <2>1. LockSleep(m)
    BY <1>4 DEF ResumeRelock
  <2> HIDE DEF m
  <2> QED
    BY <1>2, <1>3, <2>1, LockSleepNests
<1>5. CASE owner[m] = None
  <2>1. Take(m, currp) /\ mqueue' = mqueue /\ call' = [call EXCEPT ![currp] = NoCall]
    BY <1>5 DEF ResumeRelock
  <2>2. call \in [Threads -> [op : {"none", "lock", "wait", "sleep"}, m : Mutexes \cup {None}]]
    BY Parts DEF Rest
  <2>3. call'[currp].op # "wait" /\ \A t \in Threads \ {currp} : call'[t] = call[t]
    BY <1>1, <2>1, <2>2 DEF NoCall
  <2>4. \A j \in Mutexes : owner[j] = currp => Rank[j] <= Rank[m]
    BY <1>2, <1>3, RanksNat
  <2> HIDE DEF m
  <2> QED
    BY <1>2, <1>5, <2>1, <2>3, <2>4, TakeNests
<1> QED
  BY <1>4, <1>5

\* The rest leaves the mutexes alone, and starts no condition wait.
Aside ==
  \/ \E n \in Levels[currp] : SetPriority(n)
  \/ Sleep \/ ResumeSimple \/ EndIsr
  \/ \E c \in Conds : CondSignal(c) \/ CondBroadcast(c) \/ IsrCondSignalI(c) \/ IsrCondBroadcastI(c)
  \/ \E t \in Threads : Expire(t) \/ Wakeup(t)

LEMMA AsideNests ==
  ASSUME MtxInv, Nests, Aside
  PROVE  Nests'
<1>1. UNCHANGED mtx
  BY DEF Aside, SetPriority, Sleep, ResumeSimple, EndIsr, CondSignal, CondBroadcast,
         IsrCondSignalI, IsrCondBroadcastI, Expire, Wakeup
<1>2. \/ call' = call
      \/ call' = [call EXCEPT ![currp] = SleepCall]
      \/ call' = [call EXCEPT ![currp] = NoCall]
  BY DEF Aside, SetPriority, Sleep, ResumeSimple, EndIsr, CondSignal, CondBroadcast,
         IsrCondSignalI, IsrCondBroadcastI, Expire, Wakeup
<1>3. call \in [Threads -> [op : {"none", "lock", "wait", "sleep"}, m : Mutexes \cup {None}]]
      /\ SleepCall.op = "sleep" /\ NoCall.op = "none"
  BY Parts DEF Rest, SleepCall, NoCall
<1>4. \A t \in Threads : call'[t].op = "wait" => call[t].op = "wait" /\ call'[t].m = call[t].m
  BY <1>2, <1>3
<1> QED
  BY <1>1, <1>4, NestsSame

-----------------------------------------------------------------------------
\* The threads that chMtxLockS boosts: a chain, that no queue has two of.

LEMMA BlockerIs ==
  ASSUME MtxAssumption, MtxInv, NEW t \in Threads
  PROVE  /\ Blocker(t) \in Threads \cup {None}
         /\ state[t] # "WTMTX" => Blocker(t) = None
         /\ state[t] = "WTMTX" => /\ pu[t] \in Mutexes /\ Blocker(t) = owner[pu[t]]
                                 /\ t \in ToSet(mqueue[pu[t]])
         /\ \A k \in Mutexes : t \in ToSet(mqueue[k]) => state[t] = "WTMTX" /\ pu[t] = k
         /\ \A c \in Conds : t \in ToSet(cqueue[c]) => state[t] = "WTCOND"
<1>1. t # None
  BY DEF MtxAssumption
<1>2. state[t] # "WTMTX" => Blocker(t) = None
  BY DEF Blocker
<1>3. state[t] = "WTMTX" => pu[t] \in Mutexes /\ Blocker(t) = owner[pu[t]]
  BY <1>1 DEF Blocker, MtxInv, CallsHold, CallOf
<1>4. \A k \in Mutexes : t \in ToSet(mqueue[k]) <=> state[t] = "WTMTX" /\ pu[t] = k
  BY DEF MtxInv, Lines
<1>5. \A c \in Conds : t \in ToSet(cqueue[c]) => state[t] = "WTCOND"
  BY DEF MtxInv, Lines
<1>6. Blocker(t) \in Threads \cup {None}
  BY <1>2, <1>3, Parts
<1> QED
  BY <1>2, <1>3, <1>4, <1>5, <1>6

LEMMA BoostedLeast ==
  ASSUME NEW m, NEW B \in SUBSET Threads, Lower(owner[m]) => owner[m] \in B, Closed(B)
  PROVE  Boosted(m) \subseteq B
  BY DEF Boosted

LEMMA BoostedIs ==
  ASSUME MtxAssumption, MtxInv, NEW m \in Mutexes
  PROVE  /\ Boosted(m) \subseteq Threads
         /\ Lower(owner[m]) => owner[m] \in Boosted(m)
         /\ Closed(Boosted(m))
         /\ \A t \in Boosted(m) : prio[t] < prio[currp] /\ t # currp
<1>1. Boosted(m) \subseteq Threads
  BY DEF Boosted
<1>2. owner[m] \in Threads \cup {None} /\ currp \in Threads
  BY Parts
<1>3. Lower(owner[m]) => owner[m] \in Threads
  BY <1>2 DEF Lower
<1>4. Lower(owner[m]) => owner[m] \in Boosted(m)
  BY <1>3 DEF Boosted
<1>5. ASSUME NEW t \in Boosted(m), Lower(Blocker(t)) PROVE Blocker(t) \in Boosted(m)
  <2>1. Blocker(t) \in Threads
    BY <1>1, <1>5, BlockerIs DEF Lower
  <2>2. ASSUME NEW B \in SUBSET Threads, Lower(owner[m]) => owner[m] \in B, Closed(B)
        PROVE  Blocker(t) \in B
    <3>1. t \in B
      BY <2>2, BoostedLeast
    <3> QED
      BY <1>5, <2>2, <3>1 DEF Closed
  <2> QED
    BY <2>1, <2>2 DEF Boosted
<1>6. ASSUME NEW t \in Boosted(m) PROVE Lower(t)
  <2> DEFINE B == {x \in Threads : Lower(x)}
  <2>1. Closed(B)
    <3> SUFFICES ASSUME NEW x \in B, Lower(Blocker(x)) PROVE Blocker(x) \in Threads
      BY DEF Closed
    <3> QED
      BY BlockerIs DEF Lower
  <2>2. B \in SUBSET Threads /\ (Lower(owner[m]) => owner[m] \in B)
    BY <1>3
  <2> HIDE DEF B
  <2>3. t \in B
    BY <2>1, <2>2, BoostedLeast
  <2> QED
    BY <2>3 DEF B
<1>7. \A t \in Boosted(m) : prio[t] < prio[currp]
  BY <1>6 DEF Lower
<1>8. currp \notin Boosted(m)
  <2>1. prio[currp] \in Nat \/ prio[currp] \notin Nat
    OBVIOUS
  <2>2. ~(prio[currp] < prio[currp])
    BY <1>2, Parts, PrioritiesNat, CoreAssumption DEF Rest
  <2> QED
    BY <1>7, <2>2
<1> QED
  BY <1>1, <1>4, <1>5, <1>7, <1>8 DEF Closed

\* The threads the loop reaches from x.
Reach(x) == {t \in Threads : \A B \in SUBSET Threads : x \in B /\ Closed(B) => t \in B}

LEMMA ReachLeast ==
  ASSUME NEW x, NEW B \in SUBSET Threads, x \in B, Closed(B)
  PROVE  Reach(x) \subseteq B
  BY DEF Reach

LEMMA ReachOn ==
  ASSUME MtxAssumption, MtxInv, NEW s \in Threads, NEW x \in Reach(s), Lower(Blocker(x))
  PROVE  Blocker(x) \in Reach(s)
<1>1. x \in Threads
  BY DEF Reach
<1>2. Blocker(x) \in Threads
  BY <1>1, BlockerIs DEF Lower
<1>3. ASSUME NEW B \in SUBSET Threads, s \in B, Closed(B) PROVE Blocker(x) \in B
  <2>1. x \in B
    BY <1>3 DEF Reach
  <2> QED
    BY <1>3, <2>1 DEF Closed
<1> QED
  BY <1>2, <1>3 DEF Reach

LEMMA Comparable ==
  ASSUME MtxAssumption, MtxInv, NEW m \in Mutexes, NEW s \in Boosted(m), NEW t \in Boosted(m)
  PROVE  t \in Reach(s) \/ s \in Reach(t)
<1> DEFINE Z == {x \in Boosted(m) : s \in Reach(x) \/ x \in Reach(s)}
<1>0. Boosted(m) \subseteq Threads /\ Closed(Boosted(m))
  BY BoostedIs
<1>1. Lower(owner[m]) => owner[m] \in Z
  <2> SUFFICES ASSUME Lower(owner[m]) PROVE s \in Reach(owner[m])
    BY BoostedIs
  <2>1. ASSUME NEW B \in SUBSET Threads, owner[m] \in B, Closed(B) PROVE s \in B
    BY <2>1, BoostedLeast
  <2> QED
    BY <1>0, <2>1 DEF Reach
<1>2. ASSUME NEW x \in Z, Lower(Blocker(x)) PROVE Blocker(x) \in Z
  <2> DEFINE y == Blocker(x)
  <2>1. x \in Boosted(m) /\ y \in Boosted(m) /\ x \in Threads /\ y \in Threads
    BY <1>0, <1>2 DEF Closed
  <2>2. CASE x \in Reach(s)
    <3>1. y \in Reach(s)
      BY <1>0, <1>2, <2>2, ReachOn
    <3> QED
      BY <2>1, <3>1
  <2>3. CASE s \in Reach(x) /\ s # x
    <3>1. ASSUME NEW B \in SUBSET Threads, y \in B, Closed(B) PROVE s \in B
      <4> DEFINE C == B \cup {x}
      <4>1. C \in SUBSET Threads /\ x \in C
        BY <2>1
      <4>2. Closed(C)
        BY <3>1 DEF Closed
      <4> HIDE DEF C
      <4>3. s \in C
        BY <2>3, <4>1, <4>2, ReachLeast
      <4> QED
        BY <2>3, <4>3 DEF C
    <3>2. s \in Reach(y)
      <4> HIDE DEF y
      <4> QED
        BY <1>0, <3>1 DEF Reach
    <3> QED
      BY <2>1, <3>2
  <2>4. CASE s = x
    <3>1. x \in Reach(s)
      BY <2>1, <2>4 DEF Reach
    <3> QED
      BY <2>2, <3>1
  <2> QED
    BY <2>2, <2>3, <2>4
<1>3. Closed(Z)
  BY <1>2 DEF Closed
<1>4. Z \in SUBSET Threads
  BY <1>0
<1> HIDE DEF Z
<1>5. t \in Z
  BY <1>1, <1>3, <1>4, BoostedLeast
<1> QED
  BY <1>5 DEF Z

\* From a waiter for k only owners of higher mutexes are reached.
LEMMA ReachFromMutex ==
  ASSUME MtxAssumption, MtxInv, Nests, NEW k \in Mutexes,
         NEW s \in ToSet(mqueue[k]), NEW t \in ToSet(mqueue[k]), t \in Reach(s)
  PROVE  t = s
<1> DEFINE Q == {x \in Threads : x = s \/ \E j \in Mutexes : owner[j] = x /\ Rank[j] >= Rank[k]}
<1>0. s \in Threads /\ Rank \in [Mutexes -> Nat]
  BY Parts, InQueue, RanksNat
<1>1. ASSUME NEW x \in Q, Lower(Blocker(x)) PROVE Blocker(x) \in Q
  <2>1. Blocker(x) \in Threads /\ state[x] = "WTMTX"
    BY <1>1, BlockerIs DEF Lower
  <2>2. pu[x] \in Mutexes /\ Blocker(x) = owner[pu[x]] /\ x \in ToSet(mqueue[pu[x]])
    BY <2>1, BlockerIs
  <2>3. CASE x = s
    <3>1. pu[x] = k
      BY <1>0, <2>3, BlockerIs
    <3>2. owner[k] = Blocker(x) /\ Rank[k] >= Rank[k]
      BY <1>0, <2>2, <3>1
    <3> QED
      BY <2>1, <3>2
  <2>4. CASE x # s
    <3>1. PICK j \in Mutexes : owner[j] = x /\ Rank[j] >= Rank[k]
      BY <2>4
    <3>2. Rank[j] < Rank[pu[x]]
      BY <2>2, <3>1 DEF Nests
    <3>3. Rank[pu[x]] >= Rank[k]
      BY <1>0, <2>2, <3>1, <3>2
    <3> QED
      BY <2>1, <2>2, <3>3
  <2> QED
    BY <2>3, <2>4
<1>2. Closed(Q)
  BY <1>1 DEF Closed
<1>3. Q \in SUBSET Threads /\ s \in Q
  BY <1>0
<1>4. t \in Q
  <2> HIDE DEF Q
  <2> QED
    BY <1>2, <1>3, ReachLeast
<1> SUFFICES ASSUME NEW j \in Mutexes, owner[j] = t, Rank[j] >= Rank[k] PROVE FALSE
  BY <1>4
<1>5. Rank[j] < Rank[k]
  BY DEF Nests
<1> QED
  BY <1>0, <1>5

LEMMA ReachFromCond ==
  ASSUME MtxAssumption, MtxInv, NEW c \in Conds, NEW s \in ToSet(cqueue[c]), NEW t \in Reach(s)
  PROVE  t = s
<1>1. s \in Threads
  BY Parts, InQueue
<1>2. Closed({s})
  BY <1>1, BlockerIs DEF Closed, Lower
<1> QED
  BY <1>1, <1>2, ReachLeast

LEMMA OneEach ==
  ASSUME MtxAssumption, MtxInv, Nests, NEW m \in Mutexes, NEW s \in Boosted(m), NEW t \in Boosted(m)
  PROVE  /\ \A k \in Mutexes : s \in ToSet(mqueue[k]) /\ t \in ToSet(mqueue[k]) => s = t
         /\ \A c \in Conds : s \in ToSet(cqueue[c]) /\ t \in ToSet(cqueue[c]) => s = t
<1>1. t \in Reach(s) \/ s \in Reach(t)
  BY Comparable
<1> QED
  BY <1>1, ReachFromMutex, ReachFromCond

-----------------------------------------------------------------------------
\* The queues stay sorted.

Sorted ==
  /\ \A m \in Mutexes : Descending(mqueue[m], prio)
  /\ \A c \in Conds : Descending(cqueue[c], prio)

AtMostOne(B, q) == \A s, t \in B : s \in ToSet(q) /\ t \in ToSet(q) => s = t

SameOutside(q, B, p, p0) == \A w \in ToSet(q) : w \notin B => p[w] = p0[w]

LEMMA ReorderDescending ==
  ASSUME NEW q \in Seq(Threads), IsInjective(q), NEW B, NEW p \in [Threads -> Nat], NEW p0,
         Descending(q, p0), SameOutside(q, B, p, p0), AtMostOne(B, q)
  PROVE  Descending(Reorder(q, B, p), p)
<1>1. CASE B \cap ToSet(q) = {}
  <2>1. \A w \in ToSet(q) : p[w] = p0[w]
    BY <1>1 DEF SameOutside
  <2>2. Descending(q, p)
    BY <2>1, DescendingSame
  <2> QED
    BY <1>1, <2>2 DEF Reorder
<1>2. CASE B \cap ToSet(q) # {}
  <2> DEFINE t == CHOOSE w \in B \cap ToSet(q) : TRUE
             d == Dequeue(q, t)
  <2>1. t \in ToSet(q) /\ t \in B
    BY <1>2
  <2>2. Reorder(q, B, p) = PrioInsert(d, t, p)
    BY <1>2 DEF Reorder
  <2> HIDE DEF t
  <2>3. t \in Threads
    BY <2>1, InQueue
  <2>4. d \in Seq(Threads) /\ ToSet(d) = ToSet(q) \ {t}
    BY <2>1, DequeueOne
  <2>5. Descending(d, p0)
    BY <2>1, DescendingDequeue
  <2>6. \A w \in ToSet(d) : p[w] = p0[w]
    BY <2>1, <2>4 DEF AtMostOne, SameOutside
  <2> HIDE DEF d
  <2>7. Descending(d, p)
    BY <2>5, <2>6, DescendingSame
  <2>8. Descending(PrioInsert(d, t, p), p)
    BY <2>3, <2>4, <2>7, PrioInsertDescending
  <2> QED
    BY <2>2, <2>8
<1> QED
  BY <1>1, <1>2

LEMMA LockSleepSorted ==
  ASSUME CoreAssumption, MtxAssumption, MtxInv, Nests, Sorted, NEW m \in Mutexes, LockSleep(m)
  PROVE  Sorted'
<1> DEFINE p == BoostedPrio(m)
           B == Boosted(m)
           q(k) == Reorder(mqueue[k], B, p)
           r(c) == Reorder(cqueue[c], B, p)
<1>1. /\ p \in [Threads -> Nat] /\ currp \in Threads
      /\ \A t \in Threads \ B : p[t] = prio[t]
      /\ \A k \in Mutexes : mqueue[k] \in Seq(Threads) /\ IsInjective(mqueue[k])
      /\ \A c \in Conds : cqueue[c] \in Seq(Threads) /\ IsInjective(cqueue[c])
  BY BoostedPrioType, Parts DEF MtxInv, Lines, BoostedPrio
<1>2. /\ prio' = p
      /\ mqueue' = [k \in Mutexes |-> IF k = m THEN PrioInsert(q(k), currp, p) ELSE q(k)]
      /\ cqueue' = [c \in Conds |-> r(c)]
  BY DEF LockSleep
<1>3. \A k \in Mutexes : AtMostOne(B, mqueue[k])
  BY OneEach DEF AtMostOne
<1>4. \A c \in Conds : AtMostOne(B, cqueue[c])
  BY OneEach DEF AtMostOne
<1> HIDE DEF p, B
<1>5. ASSUME NEW k \in Mutexes PROVE q(k) \in Seq(Threads) /\ Descending(q(k), p)
  <2>1. mqueue[k] \in Seq(Threads) /\ IsInjective(mqueue[k]) /\ Descending(mqueue[k], prio)
    BY <1>1 DEF Sorted
  <2>2. SameOutside(mqueue[k], B, p, prio)
    BY <1>1, <2>1, InQueue DEF SameOutside
  <2>3. AtMostOne(B, mqueue[k])
    BY <1>3
  <2> QED
    BY <1>1, <2>1, <2>2, <2>3, ReorderDescending, ReorderKeeps
<1>6. ASSUME NEW c \in Conds PROVE Descending(r(c), p)
  <2>1. cqueue[c] \in Seq(Threads) /\ IsInjective(cqueue[c]) /\ Descending(cqueue[c], prio)
    BY <1>1 DEF Sorted
  <2>2. SameOutside(cqueue[c], B, p, prio)
    BY <1>1, <2>1, InQueue DEF SameOutside
  <2>3. AtMostOne(B, cqueue[c])
    BY <1>4
  <2> QED
    BY <1>1, <2>1, <2>2, <2>3, ReorderDescending
<1> HIDE DEF q, r
<1>7. Descending(PrioInsert(q(m), currp, p), p)
  BY <1>1, <1>5, PrioInsertDescending
<1> QED
  BY <1>2, <1>5, <1>6, <1>7 DEF Sorted

\* The running thread is in no queue: its own priority does not matter there.
LEMMA SortedWithout ==
  ASSUME MtxInv, Sorted, NEW p, \A t \in Threads \ {currp} : p[t] = prio[t]
  PROVE  /\ \A m \in Mutexes : Descending(mqueue[m], p)
         /\ \A c \in Conds : Descending(cqueue[c], p)
<1>1. ASSUME NEW m \in Mutexes PROVE Descending(mqueue[m], p)
  <2>1. \A t \in ToSet(mqueue[m]) : t \in Threads /\ t # currp
    BY Parts, InQueue DEF MtxInv, Lines
  <2>2. \A t \in ToSet(mqueue[m]) : p[t] = prio[t]
    BY <2>1
  <2> QED
    BY <2>2, DescendingSame DEF Sorted
<1>2. ASSUME NEW c \in Conds PROVE Descending(cqueue[c], p)
  <2>1. \A t \in ToSet(cqueue[c]) : t \in Threads /\ t # currp
    BY Parts, InQueue DEF MtxInv, Lines
  <2>2. \A t \in ToSet(cqueue[c]) : p[t] = prio[t]
    BY <2>1
  <2> QED
    BY <2>2, DescendingSame DEF Sorted
<1> QED
  BY <1>1, <1>2

LEMMA PassesSorted ==
  ASSUME MtxAssumption, MtxInv, Sorted, NEW M, Passes(M),
         \A t \in Threads \ {currp} : prio'[t] = prio[t]
  PROVE  /\ \A k \in Mutexes : Descending(mqueue'[k], prio')
         /\ \A c \in Conds : Descending(cqueue[c], prio')
<1> DEFINE p == prio'
<1>1. \A k \in Mutexes : Descending(mqueue[k], p) /\ mqueue[k] \in Seq(Threads)
  BY SortedWithout, Parts
<1>2. ASSUME NEW k \in Mutexes PROVE Descending(mqueue'[k], p)
  <2>1. mqueue'[k] = IF k \in M /\ mqueue[k] # <<>> THEN Tail(mqueue[k]) ELSE mqueue[k]
    BY DEF Passes
  <2> HIDE DEF p
  <2>2. mqueue[k] # <<>> => Descending(Tail(mqueue[k]), p)
    BY <1>1, DescendingTail
  <2> QED
    BY <1>1, <2>1, <2>2
<1>3. \A c \in Conds : Descending(cqueue[c], p)
  BY SortedWithout
<1> QED
  BY <1>2, <1>3

\* The priorities that unlocking m leaves.
LEMMA UnlockPrio ==
  ASSUME MtxInv, NEW m
  PROVE  \A t \in Threads \ {currp} : PrioAfterUnlock(m)[t] = prio[t]
<1>1. prio \in [Threads -> Priorities]
  BY Parts DEF Rest
<1> QED
  BY <1>1 DEF PrioAfterUnlock

LEMMA UnlockSorted ==
  ASSUME MtxAssumption, MtxInv, Sorted, NEW m \in Mutexes, Unlock(m)
  PROVE  Sorted'
<1>1. /\ mlist[currp] # <<>> /\ Head(mlist[currp]) = m /\ HandOver(m)
      /\ prio' = PrioAfterUnlock(m) /\ cqueue' = cqueue
  BY DEF Unlock
<1>2. Passes({m})
  BY <1>1, HandOverPasses
<1>3. \A t \in Threads \ {currp} : prio'[t] = prio[t]
  BY <1>1, UnlockPrio
<1> QED
  BY <1>1, <1>2, <1>3, PassesSorted DEF Sorted

LEMMA UnlockAllSorted ==
  ASSUME MtxAssumption, MtxInv, Sorted, UnlockAll
  PROVE  Sorted'
<1>1. prio' = [prio EXCEPT ![currp] = realprio[currp]] /\ cqueue' = cqueue
  BY UnlockAllDoes
<1>2. Passes(Mine)
  BY UnlockAllPasses
<1>3. \A t \in Threads \ {currp} : prio'[t] = prio[t]
  BY <1>1, Parts DEF Rest
<1> QED
  BY <1>1, <1>2, <1>3, PassesSorted DEF Sorted

LEMMA CondWaitSorted ==
  ASSUME CoreAssumption, MtxAssumption, MtxInv, Sorted, NEW c \in Conds,
         NEW time \in {"INFINITE", "FINITE"}, CondWait(c, time)
  PROVE  Sorted'
<1> DEFINE m == Head(mlist[currp])
           p == PrioAfterUnlock(m)
<1>1. /\ mlist[currp] # <<>> /\ HandOver(m)
      /\ prio' = p
      /\ cqueue' = [cqueue EXCEPT ![c] = PrioInsert(cqueue[c], currp, p)]
  BY DEF CondWait
<1>2. m \in Mutexes /\ p \in [Threads -> Nat] /\ currp \in Threads
      /\ cqueue \in [Conds -> Seq(Threads)]
  BY <1>1, LastLocked, PrioAfterUnlockType, Parts
<1>3. Passes({m})
  BY <1>1, <1>2, HandOverPasses
<1>4. \A t \in Threads \ {currp} : prio'[t] = prio[t]
  BY <1>1, UnlockPrio
<1>5. /\ \A k \in Mutexes : Descending(mqueue'[k], prio')
      /\ \A d \in Conds : Descending(cqueue[d], prio')
  BY <1>3, <1>4, PassesSorted
<1> HIDE DEF p
<1>6. Descending(PrioInsert(cqueue[c], currp, p), p)
  BY <1>1, <1>2, <1>5, PrioInsertDescending
<1> QED
  BY <1>1, <1>2, <1>5, <1>6 DEF Sorted

\* Whoever leaves a condition variable leaves the others in order.
LEMMA CondLeaves ==
  ASSUME MtxInv, Sorted, mqueue' = mqueue, prio' = prio, NEW c \in Conds, NEW r, Descending(r, prio),
         cqueue' = [cqueue EXCEPT ![c] = r]
  PROVE  Sorted'
<1>1. \A d \in Conds : cqueue'[d] = IF d = c THEN r ELSE cqueue[d]
  BY Parts
<1> QED
  BY <1>1 DEF Sorted

LEMMA AsideSorted ==
  ASSUME MtxInv, Sorted, Aside
  PROVE  Sorted'
<1>1. mqueue' = mqueue
  BY DEF Aside, SetPriority, Sleep, ResumeSimple, EndIsr, CondSignal, CondBroadcast,
         IsrCondSignalI, IsrCondBroadcastI, Expire, Wakeup, mtx
<1>2. CASE cqueue' = cqueue /\ \A t \in Threads \ {currp} : prio'[t] = prio[t]
  BY <1>1, <1>2, SortedWithout DEF Sorted
<1>3. ASSUME NEW n \in Levels[currp], SetPriority(n) PROVE Sorted'
  <2>1. cqueue' = cqueue /\ (prio' = prio \/ prio' = [prio EXCEPT ![currp] = n])
    BY <1>3 DEF SetPriority
  <2>2. prio \in [Threads -> Priorities]
    BY Parts DEF Rest
  <2> QED
    BY <1>2, <2>1, <2>2
<1>4. CASE Sleep \/ ResumeSimple \/ EndIsr \/ \E t \in Threads : Expire(t)
  BY <1>2, <1>4 DEF Sleep, ResumeSimple, EndIsr, IsrExit, Expire, TimerExpires
<1>5. ASSUME NEW c \in Conds, CondSignal(c) \/ IsrCondSignalI(c) PROVE Sorted'
  <2>1. /\ prio' = prio /\ cqueue[c] # <<>> /\ cqueue' = [cqueue EXCEPT ![c] = Tail(cqueue[c])]
    BY <1>5 DEF CondSignal, IsrCondSignalI
  <2>2. cqueue[c] \in Seq(Threads) /\ Descending(cqueue[c], prio)
    BY Parts DEF Sorted
  <2>3. Descending(Tail(cqueue[c]), prio)
    BY <2>1, <2>2, DescendingTail
  <2> QED
    BY <1>1, <2>1, <2>3, CondLeaves
<1>6. ASSUME NEW c \in Conds, CondBroadcast(c) \/ IsrCondBroadcastI(c) PROVE Sorted'
  <2>1. /\ prio' = prio /\ cqueue' = [cqueue EXCEPT ![c] = <<>>]
    BY <1>6 DEF CondBroadcast, IsrCondBroadcastI
  <2>2. Descending(<<>>, prio)
    BY DEF Descending
  <2> QED
    BY <1>1, <2>1, <2>2, CondLeaves
<1>7. ASSUME NEW t \in Threads, Wakeup(t) PROVE Sorted'
  <2>1. /\ prio' = prio
        /\ cqueue' = IF state[t] = "WTCOND"
                       THEN [cqueue EXCEPT ![pu[t]] = Dequeue(cqueue[pu[t]], t)] ELSE cqueue
    BY <1>7 DEF Wakeup, TimerWakeup
  <2>2. CASE state[t] # "WTCOND"
    BY <1>2, <2>1, <2>2
  <2>3. CASE state[t] = "WTCOND"
    <3> DEFINE c == pu[t]
    <3>1. c \in Conds /\ t \in ToSet(cqueue[c])
      BY <2>3 DEF MtxInv, CallsHold, CallOf, Lines
    <3>2. cqueue[c] \in Seq(Threads) /\ Descending(cqueue[c], prio)
      BY <3>1, Parts DEF Sorted
    <3> HIDE DEF c
    <3>3. Descending(Dequeue(cqueue[c], t), prio)
      BY <3>1, <3>2, DescendingDequeue
    <3>4. cqueue' = [cqueue EXCEPT ![c] = Dequeue(cqueue[c], t)]
      BY <2>1, <2>3 DEF c
    <3> QED
      BY <1>1, <2>1, <3>1, <3>3, <3>4, CondLeaves
  <2> QED
    BY <2>2, <2>3
<1> QED
  BY <1>3, <1>4, <1>5, <1>6, <1>7 DEF Aside

-----------------------------------------------------------------------------
\* An action is one of these.
LEMMA Cases ==
  ASSUME Next
  PROVE  \/ \E m \in Mutexes : Lock(m) \/ TryLock(m)
         \/ \E m \in Mutexes : Unlock(m)
         \/ UnlockAll
         \/ \E c \in Conds, time \in {"INFINITE", "FINITE"} : CondWait(c, time)
         \/ ResumeRelock
         \/ Aside
  BY DEF Next, Aside

OrderInv == MtxInv /\ Nests /\ Sorted

LEMMA LockSorted ==
  ASSUME CoreAssumption, MtxAssumption, MtxInv, Nests, Sorted,
         \/ \E m \in Mutexes : Lock(m) \/ TryLock(m)
         \/ ResumeRelock
  PROVE  Sorted'
<1>1. ASSUME NEW m \in Mutexes, LockSleep(m) PROVE Sorted'
  BY <1>1, LockSleepSorted
<1>2. CASE prio' = prio /\ mqueue' = mqueue /\ cqueue' = cqueue
  BY <1>2 DEF Sorted
<1>3. ASSUME NEW m \in Mutexes, Lock(m) \/ TryLock(m) PROVE Sorted'
  BY <1>1, <1>2, <1>3 DEF Lock, TryLock, core
<1>4. CASE ResumeRelock
  <2>1. call[currp].op = "wait" /\ currp \in Threads
    BY <1>4, Parts DEF ResumeRelock
  <2>2. call[currp].m \in Mutexes
    BY <2>1 DEF MtxInv, CallsHold, CallOf
  <2> QED
    BY <1>1, <1>2, <1>4, <2>2 DEF ResumeRelock
<1> QED
  BY <1>3, <1>4

LEMMA OrderKept ==
  ASSUME CoreAssumption, MtxAssumption, StrictRank, OrderInv, Next
  PROVE  OrderInv'
<1>1. MtxInv /\ Nests /\ Sorted
  BY DEF OrderInv
<1>2. MtxInv'
  BY <1>1, NextKeeps
<1>3. ASSUME \E m \in Mutexes : Lock(m) \/ TryLock(m) PROVE Nests' /\ Sorted'
  BY <1>1, <1>3, LockNests, LockSorted
<1>4. ASSUME \E m \in Mutexes : Unlock(m) PROVE Nests' /\ Sorted'
  BY <1>1, <1>4, UnlockNests, UnlockSorted
<1>5. ASSUME UnlockAll PROVE Nests' /\ Sorted'
  BY <1>1, <1>5, UnlockAllNests, UnlockAllSorted
<1>6. ASSUME \E c \in Conds, time \in {"INFINITE", "FINITE"} : CondWait(c, time) PROVE Nests' /\ Sorted'
  BY <1>1, <1>6, CondWaitNests, CondWaitSorted
<1>7. ASSUME ResumeRelock PROVE Nests' /\ Sorted'
  BY <1>1, <1>7, RelockNests, LockSorted
<1>8. ASSUME Aside PROVE Nests' /\ Sorted'
  BY <1>1, <1>8, AsideNests, AsideSorted
<1>9. Nests' /\ Sorted'
  BY <1>3, <1>4, <1>5, <1>6, <1>7, <1>8, Cases
<1> QED
  BY <1>2, <1>9 DEF OrderInv

LEMMA OrderInit ==
  ASSUME CoreAssumption, MtxAssumption, Init
  PROVE  OrderInv
<1>1. MtxInv
  BY InitHolds
<1>2. /\ owner = [m \in Mutexes |-> None]
      /\ mlist = [t \in Threads |-> <<>>]
      /\ mqueue = [m \in Mutexes |-> <<>>]
      /\ cqueue = [c \in Conds |-> <<>>]
      /\ call = [t \in Threads |-> NoCall]
  BY DEF Init
<1>3. ToSet(<<>>) = {} /\ (\A p : Descending(<<>>, p)) /\ NoCall.op = "none"
  BY DEF ToSet, Descending, NoCall
<1>4. Nests /\ Sorted
  BY <1>2, <1>3 DEF Nests, Sorted
<1> QED
  BY <1>1, <1>4 DEF OrderInv

LEMMA OrderStutter ==
  ASSUME OrderInv, UNCHANGED vars
  PROVE  OrderInv'
<1>1. UNCHANGED <<prio, owner, mlist, mqueue, cqueue, call>>
  BY DEF vars, core, mtx
<1>2. MtxInv'
  BY StutterKeeps DEF OrderInv
<1> QED
  BY <1>1, <1>2 DEF OrderInv, Nests, Sorted

\* Where mutexes are nested in one order, a wait queue of chmtx.c or chcond.c
\* holds who waits there, once, in decreasing priority, also while the loop of
\* chMtxLockS boosts threads in the middle of other queues.
THEOREM QueuesAreExact == StrictRank => (Spec => []QueuesExact)
<1> SUFFICES ASSUME StrictRank PROVE Spec => []QueuesExact
  OBVIOUS
<1>1. Init => OrderInv
  BY CoreAssumption, MtxAssumption, OrderInit
<1>2. OrderInv /\ [Next]_vars => OrderInv'
  BY CoreAssumption, MtxAssumption, OrderKept, OrderStutter
<1>3. OrderInv => QueuesExact
  BY DEF OrderInv, Sorted, MtxInv, Lines, QueuesExact, QueueOf
<1> QED
  BY <1>1, <1>2, <1>3, PTL DEF Spec

-----------------------------------------------------------------------------
(***************************************************************************)
(* Inheritance is exact, and the most urgent thread runs, as long as no    *)
(* owner gives itself another priority.                                    *)
(***************************************************************************)

\* An owner is at least as urgent as every waiter.
AtLeast(ow, mq, p) == \A k \in Mutexes : \A w \in ToSet(mq[k]) : p[ow[k]] >= p[w]

\* t has priority n from a waiter for a mutex it owns.
From(t, n, ow, mq, p) ==
  \E k \in Mutexes : ow[k] = t /\ \E w \in ToSet(mq[k]) : p[w] = n

AtMost(ow, mq, p, rp) ==
  \A t \in Threads : p[t] >= rp[t] /\ (p[t] = rp[t] \/ From(t, p[t], ow, mq, p))

Inherits == AtLeast(owner, mqueue, prio) /\ AtMost(owner, mqueue, prio, realprio)

Sched == ~isr => MostUrgent(state, currp, prio)

PrioInv == OrderInv /\ Inherits /\ Sched

LEMMA PrioTypes ==
  ASSUME CoreAssumption, MtxAssumption, MtxInv
  PROVE  /\ prio \in [Threads -> Nat] /\ realprio \in [Threads -> Nat]
         /\ currp \in Threads /\ OneCurrent(state, currp)
         /\ \A k \in Mutexes : /\ ToSet(mqueue[k]) \subseteq Threads
                               /\ currp \notin ToSet(mqueue[k])
                               /\ mqueue[k] # <<>> => owner[k] \in Threads
<1>1. /\ prio \in [Threads -> Nat] /\ realprio \in [Threads -> Nat]
      /\ currp \in Threads /\ OneCurrent(state, currp) /\ state[currp] = "CURRENT"
  BY Parts, PrioritiesNat DEF Rest, MtxInv
<1>2. ASSUME NEW k \in Mutexes
      PROVE  /\ ToSet(mqueue[k]) \subseteq Threads
             /\ currp \notin ToSet(mqueue[k])
             /\ mqueue[k] # <<>> => owner[k] \in Threads
  <2>1. ToSet(mqueue[k]) \subseteq Threads
    BY Parts, InQueue
  <2>2. owner[k] \in Threads \cup {None} /\ (owner[k] = None => mqueue[k] = <<>>)
    BY Parts DEF MtxInv, Free
  <2>3. currp \notin ToSet(mqueue[k])
    BY <1>1 DEF MtxInv, Lines
  <2> QED
    BY <2>1, <2>2, <2>3
<1> QED
  BY <1>1, <1>2

LEMMA EmptyQueue ==
  ASSUME NEW q, NEW w \in ToSet(q)
  PROVE  q # <<>>
  BY DEF ToSet

LEMMA LockSleepInherits ==
  ASSUME CoreAssumption, MtxAssumption, MtxInv, Inherits, NEW m \in Mutexes,
         owner[m] # None, LockSleep(m)
  PROVE  Inherits'
<1> DEFINE B == Boosted(m)
           P == prio[currp]
           p == BoostedPrio(m)
<1>1. /\ prio \in [Threads -> Nat] /\ realprio \in [Threads -> Nat] /\ currp \in Threads
      /\ owner \in [Mutexes -> Threads \cup {None}]
  BY PrioTypes, Parts
<1>2. \A t \in Threads : p[t] = IF t \in B THEN P ELSE prio[t]
  BY DEF BoostedPrio
<1>3. /\ B \subseteq Threads /\ currp \notin B
      /\ Lower(owner[m]) => owner[m] \in B
      /\ Closed(B)
      /\ \A t \in B : prio[t] < P
  BY BoostedIs
<1>4. prio' = p /\ owner' = owner /\ realprio' = realprio
  BY DEF LockSleep
<1>5. \A k \in Mutexes : ToSet(mqueue'[k]) = ToSet(mqueue[k]) \cup (IF k = m THEN {currp} ELSE {})
  BY BoostedLines DEF Joined
<1>6. ASSUME NEW B2 \in SUBSET Threads, Lower(owner[m]) => owner[m] \in B2, Closed(B2)
      PROVE  B \subseteq B2
  BY <1>6, BoostedLeast
<1>7. \A t \in Threads : Lower(t) <=> prio[t] < P
  BY DEF Lower, MtxAssumption
<1> HIDE DEF B, P, p
<1>8. P \in Nat /\ \A t \in Threads : p[t] \in Nat /\ prio[t] \in Nat /\ p[t] >= prio[t]
                                     /\ realprio[t] \in Nat
  <2>1. P \in Nat
    BY <1>1 DEF P
  <2>2. \A t \in Threads : prio[t] \in Nat /\ realprio[t] \in Nat
    BY <1>1
  <2> QED
    BY <1>2, <1>3, <2>1, <2>2
<1>9. ASSUME NEW k \in Mutexes, NEW w \in ToSet(mqueue[k])
      PROVE  /\ w \in Threads /\ owner[k] \in Threads /\ Blocker(w) = owner[k]
             /\ prio[owner[k]] >= prio[w]
  <2>1. w \in Threads /\ owner[k] \in Threads
    BY PrioTypes, EmptyQueue
  <2>2. Blocker(w) = owner[k]
    BY <2>1, BlockerIs
  <2> QED
    BY <2>1, <2>2 DEF Inherits, AtLeast
<1>10. ASSUME NEW k \in Mutexes, NEW w \in ToSet(mqueue'[k]) PROVE p[owner[k]] >= p[w]
  <2>1. CASE w \in ToSet(mqueue[k])
    <3>1. w \in Threads /\ owner[k] \in Threads /\ Blocker(w) = owner[k] /\ prio[owner[k]] >= prio[w]
      BY <1>9, <2>1
    <3>2. CASE w \in B
      <4>1. prio[owner[k]] < P => owner[k] \in B
        BY <1>3, <1>7, <3>1, <3>2 DEF Closed
      <4> QED
        BY <1>2, <1>8, <3>1, <3>2, <4>1
    <3>3. CASE w \notin B
      <4>1. p[w] = prio[w] /\ p[owner[k]] >= prio[owner[k]]
        BY <1>2, <1>8, <3>1, <3>3
      <4> QED
        BY <1>8, <3>1, <4>1
    <3> QED
      BY <3>2, <3>3
  <2>2. CASE k = m /\ w = currp
    <3>1. owner[m] \in Threads /\ p[currp] = P
      BY <1>1, <1>2, <1>3 DEF P
    <3>2. prio[owner[m]] < P => p[owner[m]] = P
      BY <1>2, <1>3, <1>7, <3>1
    <3> QED
      BY <1>8, <2>2, <3>1, <3>2
  <2> QED
    BY <1>5, <1>10, <2>1, <2>2
<1>11. ASSUME NEW t \in Threads PROVE p[t] >= realprio[t]
  <2>1. prio[t] >= realprio[t]
    BY DEF Inherits, AtMost
  <2> QED
    BY <1>8, <2>1
<1>12. ASSUME NEW t \in Threads
       PROVE  p[t] = realprio[t] \/ From(t, p[t], owner, mqueue', p)
  <2>1. CASE t \notin B
    <3>1. p[t] = prio[t]
      BY <1>2, <2>1
    <3> SUFFICES ASSUME prio[t] # realprio[t] PROVE From(t, p[t], owner, mqueue', p)
      BY <3>1
    <3>2. PICK k \in Mutexes : owner[k] = t /\ \E w \in ToSet(mqueue[k]) : prio[w] = prio[t]
      BY DEF Inherits, AtMost, From
    <3>3. PICK w \in ToSet(mqueue[k]) : prio[w] = prio[t]
      BY <3>2
    <3>4. w \in Threads /\ Blocker(w) = t
      BY <1>9, <3>2
    <3>5. w \notin B
      <4> SUFFICES ASSUME w \in B PROVE FALSE
        OBVIOUS
      <4>1. Lower(t)
        BY <1>3, <1>7, <3>3
      <4> QED
        BY <1>3, <2>1, <3>4, <4>1 DEF Closed
    <3>6. p[w] = p[t] /\ w \in ToSet(mqueue'[k])
      BY <1>2, <1>5, <3>1, <3>3, <3>4, <3>5
    <3> QED
      BY <3>2, <3>6 DEF From
  <2>2. CASE t \in B
    <3>1. p[t] = P
      BY <1>2, <2>2
    <3>2. CASE owner[m] = t
      <4>1. currp \in ToSet(mqueue'[m]) /\ p[currp] = P
        BY <1>1, <1>2, <1>3, <1>5 DEF P
      <4> QED
        BY <3>1, <3>2, <4>1 DEF From
    <3>3. CASE owner[m] # t
      <4> DEFINE C == B \ {t}
      <4>1. C \in SUBSET Threads /\ (Lower(owner[m]) => owner[m] \in C)
        BY <1>3, <3>3
      <4>2. ~Closed(C)
        BY <1>6, <2>2, <4>1
      <4>3. PICK w \in C : Lower(Blocker(w)) /\ Blocker(w) \notin C
        BY <4>2 DEF Closed
      <4>4. w \in B /\ w \in Threads /\ Blocker(w) = t /\ t # None
        BY <1>3, <4>3 DEF Closed, MtxAssumption
      <4>5. pu[w] \in Mutexes /\ owner[pu[w]] = t /\ w \in ToSet(mqueue[pu[w]])
        BY <4>4, BlockerIs
      <4>6. p[w] = P /\ w \in ToSet(mqueue'[pu[w]])
        BY <1>2, <1>5, <4>4, <4>5
      <4> QED
        BY <3>1, <4>5, <4>6 DEF From
    <3> QED
      BY <3>2, <3>3
  <2> QED
    BY <2>1, <2>2
<1> QED
  BY <1>4, <1>10, <1>11, <1>12 DEF Inherits, AtLeast, AtMost

\* What currp keeps, once the mutexes of M are gone.
KeepsRight(M) ==
  /\ prio'[currp] >= realprio[currp]
  /\ \A k \in Mutexes \ M : owner[k] = currp =>
       \A w \in ToSet(mqueue[k]) : prio'[currp] >= prio[w]
  /\ \/ prio'[currp] = realprio[currp]
     \/ \E k \in Mutexes \ M : owner[k] = currp /\ \E w \in ToSet(mqueue[k]) : prio[w] = prio'[currp]

LEMMA PassesInherits ==
  ASSUME CoreAssumption, MtxAssumption, MtxInv, Sorted, Inherits, NEW M, Passes(M),
         realprio' = realprio, \A t \in Threads \ {currp} : prio'[t] = prio[t],
         KeepsRight(M)
  PROVE  Inherits'
<1>1. M \subseteq Mutexes /\ currp \in Threads /\ \A m \in M : owner[m] = currp
  BY Parts DEF Passes
<1>2. ASSUME NEW k \in Mutexes
      PROVE  /\ ToSet(mqueue'[k]) \subseteq ToSet(mqueue[k])
             /\ k \notin M => owner'[k] = owner[k] /\ mqueue'[k] = mqueue[k]
             /\ k \in M /\ mqueue[k] # <<>> => owner'[k] = Head(mqueue[k])
  <2>1. ToSet(mqueue'[k]) = ToSet(mqueue[k]) \ HeirsOf(M)
    BY PassedQueues
  <2>2. /\ owner'[k] = IF k \in M THEN (IF mqueue[k] = <<>> THEN None ELSE Head(mqueue[k]))
                                    ELSE owner[k]
        /\ mqueue'[k] = IF k \in M /\ mqueue[k] # <<>> THEN Tail(mqueue[k]) ELSE mqueue[k]
    BY DEF Passes
  <2> QED
    BY <2>1, <2>2
<1>3. ASSUME NEW k \in Mutexes, NEW w \in ToSet(mqueue[k])
      PROVE  /\ w \in Threads /\ w # currp /\ prio'[w] = prio[w] /\ mqueue[k] # <<>>
             /\ owner[k] \in Threads /\ prio[owner[k]] >= prio[w]
             /\ Head(mqueue[k]) \in Threads \ {currp} /\ prio[Head(mqueue[k])] >= prio[w]
  <2>1. w \in Threads /\ w # currp /\ mqueue[k] # <<>> /\ owner[k] \in Threads
    BY PrioTypes, EmptyQueue
  <2>2. Head(mqueue[k]) \in Threads \ {currp}
    BY <2>1, HeadWaits
  <2>3. mqueue[k] \in Seq(Threads) /\ prio \in [Threads -> Nat] /\ Descending(mqueue[k], prio)
    BY Parts, PrioTypes DEF Sorted
  <2>4. prio[Head(mqueue[k])] >= prio[w]
    BY <2>3, DescendingHead
  <2> QED
    BY <2>1, <2>2, <2>4 DEF Inherits, AtLeast
<1>4. ASSUME NEW k \in Mutexes, NEW w \in ToSet(mqueue'[k]) PROVE prio'[owner'[k]] >= prio'[w]
  <2>1. w \in ToSet(mqueue[k]) /\ w \in Threads /\ w # currp /\ prio'[w] = prio[w]
    BY <1>2, <1>3
  <2>2. CASE k \in M
    <3>1. owner'[k] = Head(mqueue[k])
      BY <1>2, <1>3, <2>1, <2>2
    <3>2. prio'[owner'[k]] = prio[owner'[k]]
      BY <1>3, <2>1, <3>1
    <3> QED
      BY <1>3, <2>1, <3>1, <3>2
  <2>3. CASE k \notin M /\ owner[k] = currp
    BY <1>2, <2>1, <2>3 DEF KeepsRight
  <2>4. CASE k \notin M /\ owner[k] # currp
    <3>1. owner'[k] = owner[k] /\ prio'[owner[k]] = prio[owner[k]]
      BY <1>2, <1>3, <2>1, <2>4
    <3> QED
      BY <1>3, <2>1, <3>1
  <2> QED
    BY <2>2, <2>3, <2>4
<1>5. ASSUME NEW t \in Threads, NEW n, NEW k \in Mutexes, k \notin M, owner[k] = t,
             NEW w \in ToSet(mqueue[k]), prio[w] = n
      PROVE  From(t, n, owner', mqueue', prio')
  <2>1. owner'[k] = t /\ mqueue'[k] = mqueue[k] /\ prio'[w] = n
    BY <1>2, <1>3, <1>5
  <2> QED
    BY <2>1 DEF From
<1>6. ASSUME NEW t \in Threads
      PROVE  prio'[t] >= realprio'[t]
             /\ (prio'[t] = realprio'[t] \/ From(t, prio'[t], owner', mqueue', prio'))
  <2>1. CASE t = currp
    BY <1>5, <2>1 DEF KeepsRight
  <2>2. CASE t # currp
    <3>1. prio'[t] = prio[t] /\ prio[t] >= realprio[t]
      BY <2>2 DEF Inherits, AtMost
    <3> SUFFICES ASSUME prio[t] # realprio[t] PROVE From(t, prio[t], owner', mqueue', prio')
      BY <3>1
    <3>2. PICK k \in Mutexes : owner[k] = t /\ \E w \in ToSet(mqueue[k]) : prio[w] = prio[t]
      BY DEF Inherits, AtMost, From
    <3>3. k \notin M
      BY <1>1, <2>2, <3>2
    <3> QED
      BY <1>5, <3>2, <3>3
  <2> QED
    BY <2>1, <2>2
<1> QED
  BY <1>4, <1>6 DEF Inherits, AtLeast, AtMost

\* What chMtxUnlock and chCondWait leave to currp.
LEMMA UnlockLeaves ==
  ASSUME CoreAssumption, MtxAssumption, MtxInv, Sorted, Inherits, NEW m \in Mutexes,
         mlist[currp] # <<>>, Head(mlist[currp]) = m, prio' = PrioAfterUnlock(m)
  PROVE  KeepsRight({m})
<1>1. /\ prio \in [Threads -> Nat] /\ currp \in Threads /\ realprio \in [Threads -> Nat]
      /\ prio \in [Threads -> Priorities]
  BY PrioTypes, Parts DEF Rest
<1>2. CASE mqueue[m] = <<>>
  <2>1. prio' = prio
    BY <1>2 DEF PrioAfterUnlock
  <2>2. \A k \in Mutexes : \A w \in ToSet(mqueue[k]) : k # m
    BY <1>2, EmptyQueue
  <2>3. prio[currp] >= realprio[currp]
    BY <1>1 DEF Inherits, AtMost
  <2>4. \A k \in Mutexes : owner[k] = currp => \A w \in ToSet(mqueue[k]) : prio[currp] >= prio[w]
    BY DEF Inherits, AtLeast
  <2>5. prio[currp] = realprio[currp] \/ From(currp, prio[currp], owner, mqueue, prio)
    BY <1>1 DEF Inherits, AtMost
  <2> QED
    BY <2>1, <2>2, <2>3, <2>4, <2>5 DEF KeepsRight, From
<1>3. CASE mqueue[m] # <<>>
  <2> DEFINE n == PrioWithout(m)
  <2>1. prio'[currp] = n
    BY <1>1, <1>3 DEF PrioAfterUnlock
  <2>2. /\ n \in {realprio[currp]} \cup {prio[w] : w \in Heads}
        /\ n >= realprio[currp] /\ (\A w \in Heads : n >= prio[w])
    BY PrioWithoutIs
  <2> HIDE DEF n
  <2>3. n \in Nat
    <3>1. Heads \subseteq Threads
      BY PrioWithoutIs
    <3> QED
      BY <1>1, <2>2, <3>1
  <2>4. \A k \in Mutexes : k \in ToSet(Tail(mlist[currp])) <=> k # m /\ owner[k] = currp
    <3>1. mlist[currp] \in Seq(Mutexes) /\ IsInjective(mlist[currp])
          /\ \A k \in Mutexes : k \in ToSet(mlist[currp]) <=> owner[k] = currp
      BY <1>1 DEF MtxInv, Owned
    <3>2. ToSet(Tail(mlist[currp])) = ToSet(mlist[currp]) \ {m}
      BY <3>1, TailQueue
    <3> QED
      BY <3>1, <3>2
  <2>5. ASSUME NEW k \in Mutexes, k # m, owner[k] = currp, NEW w \in ToSet(mqueue[k])
        PROVE  n >= prio[w]
    <3>1. mqueue[k] # <<>>
      BY EmptyQueue
    <3>2. Head(mqueue[k]) \in Heads
      BY <2>4, <2>5, <3>1 DEF Heads
    <3>3. mqueue[k] \in Seq(Threads) /\ Descending(mqueue[k], prio) /\ w \in Threads
          /\ Head(mqueue[k]) \in Threads
      BY <3>1, Parts, PrioTypes, HeadWaits DEF Sorted
    <3>4. prio[Head(mqueue[k])] >= prio[w]
      BY <1>1, <3>3, DescendingHead
    <3>5. n >= prio[Head(mqueue[k])]
      BY <2>2, <3>2
    <3>6. prio[w] \in Nat /\ prio[Head(mqueue[k])] \in Nat
      BY <1>1, <3>3
    <3> QED
      BY <2>3, <3>4, <3>5, <3>6
  <2>6. ASSUME n # realprio[currp]
        PROVE  \E k \in Mutexes \ {m} : owner[k] = currp /\ \E w \in ToSet(mqueue[k]) : prio[w] = n
    <3>1. PICK w \in Heads : prio[w] = n
      BY <2>2, <2>6
    <3>2. PICK k \in ToSet(Tail(mlist[currp])) : mqueue[k] # <<>> /\ w = Head(mqueue[k])
      BY DEF Heads
    <3>3. k \in Mutexes
      <4>1. ToSet(mlist[currp]) \subseteq Mutexes /\ mlist[currp] \in Seq(Mutexes)
            /\ IsInjective(mlist[currp])
        BY <1>1, Parts, InQueue DEF MtxInv, Owned
      <4>2. ToSet(Tail(mlist[currp])) \subseteq ToSet(mlist[currp])
        BY <4>1, TailQueue
      <4> QED
        BY <4>1, <4>2
    <3>4. k # m /\ owner[k] = currp
      BY <2>4, <3>2, <3>3
    <3>5. w \in ToSet(mqueue[k])
      BY <3>2, <3>3, TailQueue DEF MtxInv, Lines
    <3> QED
      BY <3>1, <3>3, <3>4, <3>5
  <2> QED
    BY <2>1, <2>2, <2>5, <2>6 DEF KeepsRight
<1> QED
  BY <1>2, <1>3

LEMMA UnlockInherits ==
  ASSUME CoreAssumption, MtxAssumption, MtxInv, Sorted, Inherits,
         \/ \E m \in Mutexes : Unlock(m)
         \/ \E c \in Conds, time \in {"INFINITE", "FINITE"} : CondWait(c, time)
  PROVE  Inherits'
<1> DEFINE m == Head(mlist[currp])
<1>1. /\ mlist[currp] # <<>> /\ HandOver(m) /\ prio' = PrioAfterUnlock(m)
      /\ realprio' = realprio
  BY DEF Unlock, CondWait
<1>2. m \in Mutexes
  BY <1>1, LastLocked
<1>3. Passes({m})
  BY <1>1, <1>2, HandOverPasses
<1>4. \A t \in Threads \ {currp} : prio'[t] = prio[t]
  BY <1>1, UnlockPrio
<1>5. KeepsRight({m})
  BY <1>1, <1>2, UnlockLeaves
<1> HIDE DEF m
<1> QED
  BY <1>1, <1>3, <1>4, <1>5, PassesInherits

LEMMA UnlockAllInherits ==
  ASSUME CoreAssumption, MtxAssumption, MtxInv, Sorted, Inherits, UnlockAll
  PROVE  Inherits'
<1>1. prio' = [prio EXCEPT ![currp] = realprio[currp]] /\ realprio' = realprio
  BY UnlockAllDoes
<1>2. prio \in [Threads -> Nat] /\ realprio \in [Threads -> Nat] /\ currp \in Threads
  BY PrioTypes
<1>3. prio'[currp] = realprio[currp] /\ \A t \in Threads \ {currp} : prio'[t] = prio[t]
  BY <1>1, <1>2
<1>4. Passes(Mine) /\ \A k \in Mutexes : owner[k] = currp => k \in Mine
  BY UnlockAllPasses, HeirsAre
<1>5. KeepsRight(Mine)
  BY <1>2, <1>3, <1>4 DEF KeepsRight
<1> QED
  BY <1>1, <1>3, <1>4, <1>5, PassesInherits

\* A mutex without owner has no waiters.
LEMMA TakeInherits ==
  ASSUME CoreAssumption, MtxAssumption, MtxInv, Inherits, NEW m \in Mutexes, owner[m] = None,
         Take(m, currp), UNCHANGED <<mqueue, prio, realprio>>
  PROVE  Inherits'
<1>1. owner' = [owner EXCEPT ![m] = currp] /\ owner \in [Mutexes -> Threads \cup {None}]
  BY Parts DEF Take
<1>2. mqueue[m] = <<>>
  BY DEF MtxInv, Free
<1>3. \A k \in Mutexes : \A w \in ToSet(mqueue[k]) : k # m
  BY <1>2, EmptyQueue
<1>4. \A k \in Mutexes : k # m => owner'[k] = owner[k]
  BY <1>1
<1>5. AtLeast(owner', mqueue', prio')
  BY <1>3, <1>4 DEF Inherits, AtLeast
<1>6. \A t \in Threads : From(t, prio[t], owner, mqueue, prio) => From(t, prio[t], owner', mqueue, prio)
  BY <1>3, <1>4 DEF From
<1> QED
  BY <1>5, <1>6 DEF Inherits, AtMost

LEMMA LockInherits ==
  ASSUME CoreAssumption, MtxAssumption, MtxInv, Inherits,
         \/ \E m \in Mutexes : Lock(m) \/ TryLock(m)
         \/ ResumeRelock
  PROVE  Inherits'
<1>1. ASSUME NEW m \in Mutexes, Lock(m) \/ TryLock(m) PROVE Inherits'
  BY <1>1, LockSleepInherits, TakeInherits DEF Lock, TryLock, core
<1>2. CASE ResumeRelock
  <2>1. call[currp].op = "wait" /\ currp \in Threads
    BY <1>2, Parts DEF ResumeRelock
  <2>2. call[currp].m \in Mutexes
    BY <2>1 DEF MtxInv, CallsHold, CallOf
  <2> QED
    BY <1>2, <2>2, LockSleepInherits, TakeInherits DEF ResumeRelock
<1> QED
  BY <1>1, <1>2

\* A thread that owns nothing has its own priority, and changes it.
LEMMA SetPriorityInherits ==
  ASSUME CoreAssumption, MtxAssumption, ~OwnersMay, MtxInv, Inherits,
         NEW n \in Levels[currp], SetPriority(n)
  PROVE  Inherits'
<1>1. /\ mlist[currp] = <<>> /\ realprio' = [realprio EXCEPT ![currp] = n]
      /\ owner' = owner /\ mqueue' = mqueue
  BY DEF SetPriority, mtx
<1>2. /\ prio \in [Threads -> Nat] /\ realprio \in [Threads -> Nat] /\ currp \in Threads
      /\ n \in Nat
  BY PrioTypes DEF MtxAssumption
<1>3. \A k \in Mutexes : owner[k] # currp
  <2>1. ToSet(mlist[currp]) = {}
    BY <1>1 DEF ToSet
  <2> QED
    BY <1>2, <2>1 DEF MtxInv, Owned
<1>4. prio[currp] = realprio[currp]
  BY <1>2, <1>3 DEF Inherits, AtMost, From
<1>5. prio' = [prio EXCEPT ![currp] = n]
  BY <1>4 DEF SetPriority
<1>6. \A t \in Threads : t # currp => prio'[t] = prio[t] /\ realprio'[t] = realprio[t]
  BY <1>1, <1>2, <1>5
<1>7. prio'[currp] = n /\ realprio'[currp] = n
  BY <1>1, <1>2, <1>5
<1>8. \A k \in Mutexes : \A w \in ToSet(mqueue[k]) :
        w \in Threads /\ w # currp /\ owner[k] \in Threads
  BY PrioTypes, EmptyQueue
<1>9. AtLeast(owner', mqueue', prio')
  BY <1>1, <1>3, <1>6, <1>8 DEF Inherits, AtLeast
<1>10. \A t \in Threads \ {currp} :
         From(t, prio[t], owner, mqueue, prio) => From(t, prio'[t], owner', mqueue', prio')
  BY <1>1, <1>6, <1>8 DEF From
<1>11. ASSUME NEW t \in Threads
       PROVE  prio'[t] >= realprio'[t]
              /\ (prio'[t] = realprio'[t] \/ From(t, prio'[t], owner', mqueue', prio'))
  <2>1. CASE t = currp
    BY <1>2, <1>7, <2>1
  <2>2. CASE t # currp
    BY <1>6, <1>10, <2>2 DEF Inherits, AtMost
  <2> QED
    BY <2>1, <2>2
<1> QED
  BY <1>9, <1>11 DEF Inherits, AtMost

LEMMA AsideInherits ==
  ASSUME CoreAssumption, MtxAssumption, ~OwnersMay, MtxInv, Inherits, Aside
  PROVE  Inherits'
<1>1. ASSUME NEW n \in Levels[currp], SetPriority(n) PROVE Inherits'
  BY <1>1, SetPriorityInherits
<1>2. CASE UNCHANGED <<prio, realprio, owner, mqueue>>
  BY <1>2 DEF Inherits, AtLeast, AtMost, From
<1> QED
  BY <1>1, <1>2 DEF Aside, Sleep, ResumeSimple, EndIsr, CondSignal, CondBroadcast,
     IsrCondSignalI, IsrCondBroadcastI, Expire, Wakeup, mtx, IsrExit, TimerExpires, TimerWakeup

-----------------------------------------------------------------------------
\* chMtxUnlock compares the new owner with currp only: the priority that currp
\* loses cannot uncover a third thread.
LEMMA UnlockSched ==
  ASSUME CoreAssumption, MtxAssumption, MtxInv, Sorted, Inherits, Sched,
         NEW m \in Mutexes, Unlock(m)
  PROVE  Sched'
<1> DEFINE p == PrioAfterUnlock(m)
           h == Head(mqueue[m])
<1>1. /\ mlist[currp] # <<>> /\ Head(mlist[currp]) = m /\ prio' = p /\ HandOver(m) /\ ~isr
      /\ isr' = isr
      /\ IF mqueue[m] # <<>> THEN WakeupS(state, p, h) ELSE UNCHANGED <<pu, currp, state>>
  BY DEF Unlock, Running
<1>2. /\ prio \in [Threads -> Nat] /\ realprio \in [Threads -> Nat] /\ currp \in Threads
      /\ OneCurrent(state, currp)
  BY PrioTypes
<1>3. MostUrgent(state, currp, prio)
  BY <1>1 DEF Sched
<1>4. CASE mqueue[m] = <<>>
  <2>1. prio' = prio /\ currp' = currp /\ state' = state
    BY <1>1, <1>4 DEF PrioAfterUnlock
  <2> QED
    BY <1>3, <2>1 DEF Sched
<1>5. CASE mqueue[m] # <<>>
  <2>1. h \in Threads /\ h # currp
    BY <1>5, HeadWaits
  <2>2. p \in [Threads -> Nat] /\ \A t \in Threads \ {currp} : p[t] = prio[t]
    BY <1>1, PrioAfterUnlockType, UnlockPrio
  <2>3. KeepsRight({m})
    BY <1>1, UnlockLeaves
  <2>4. p[currp] >= prio[currp] \/ p[h] >= prio[currp]
    <3>1. CASE prio[currp] = realprio[currp]
      BY <1>1, <2>3, <3>1 DEF KeepsRight
    <3>2. CASE prio[currp] # realprio[currp]
      <4>1. From(currp, prio[currp], owner, mqueue, prio)
        BY <1>2, <3>2 DEF Inherits, AtMost
      <4>2. PICK k \in Mutexes : owner[k] = currp /\ \E w \in ToSet(mqueue[k]) : prio[w] = prio[currp]
        BY <4>1 DEF From
      <4>3. PICK w \in ToSet(mqueue[k]) : prio[w] = prio[currp]
        BY <4>2
      <4>4. CASE k # m
        BY <1>1, <2>3, <4>2, <4>3, <4>4 DEF KeepsRight
      <4>5. CASE k = m
        <5>1. mqueue[m] \in Seq(Threads) /\ Descending(mqueue[m], prio)
          BY Parts DEF Sorted
        <5> HIDE DEF p
        <5>2. prio[h] >= prio[w]
          BY <1>2, <4>3, <4>5, <5>1, DescendingHead
        <5> HIDE DEF h
        <5>3. p[h] = prio[h]
          BY <2>1, <2>2
        <5> QED
          BY <4>3, <5>2, <5>3
      <4> QED
        BY <4>4, <4>5
    <3> QED
      BY <3>1, <3>2
  <2> HIDE DEF p, h
  <2>5. ASSUME NEW w \in Ready(state) PROVE p[w] <= p[currp] \/ p[w] <= p[h]
    <3>1. w \in Threads /\ w # currp
      BY <1>2 DEF Ready, OneCurrent
    <3>2. p[w] = prio[w] /\ prio[w] <= prio[currp]
      BY <1>3, <2>2, <3>1 DEF MostUrgent
    <3>3. prio[w] \in Nat /\ prio[currp] \in Nat /\ p[currp] \in Nat /\ p[h] \in Nat
      BY <1>2, <2>1, <2>2, <3>1
    <3> QED
      BY <2>4, <3>2, <3>3
  <2>6. WakeupS(state, p, h)
    BY <1>1, <1>5
  <2>7. MostUrgent(state', currp', p)
    BY <1>2, <2>1, <2>2, <2>5, <2>6, WakeupRestores
  <2> QED
    BY <1>1, <2>7 DEF Sched
<1> QED
  BY <1>4, <1>5

\* A sleep and a reschedule look for the most urgent thread themselves.
LEMMA SwitchSched ==
  ASSUME CoreAssumption, MtxAssumption, MtxInv,
         \/ \E m \in Mutexes : LockSleep(m)
         \/ UnlockAll
         \/ \E c \in Conds, time \in {"INFINITE", "FINITE"} : CondWait(c, time)
         \/ \E n \in Levels[currp] : SetPriority(n)
         \/ Sleep \/ EndIsr
         \/ \E c \in Conds : CondBroadcast(c)
  PROVE  Sched'
<1>1. /\ prio \in [Threads -> Nat] /\ currp \in Threads /\ OneCurrent(state, currp)
      /\ state[currp] = "CURRENT"
  BY PrioTypes, Parts
<1>2. ASSUME NEW s, NEW W, s = ReadyI(state, W), currp \notin W,
             NEW p, p \in [Threads -> Nat], RescheduleS(s, p), prio' = p
      PROVE  Sched'
  <2>1. OneCurrent(s, currp)
    BY <1>1, <1>2, ReadyKeepsCurrent
  <2> QED
    BY <1>2, <2>1, RescheduleRestores DEF Sched
<1>3. ASSUME NEW m \in Mutexes, LockSleep(m) PROVE Sched'
  <2>1. GoSleepTimeoutS(state, BoostedPrio(m), "WTMTX", "INFINITE") /\ prio' = BoostedPrio(m)
    BY <1>3 DEF LockSleep
  <2>2. BoostedPrio(m) \in [Threads -> Nat]
    BY BoostedPrioType
  <2> QED
    BY <1>1, <2>1, <2>2, SleepSwitches DEF Sched
<1>4. CASE UnlockAll
  <2>1. prio' = [prio EXCEPT ![currp] = realprio[currp]] /\ RescheduleS(ReadyI(state, Heirs), prio')
    BY <1>4, UnlockAllDoes
  <2>2. prio' \in [Threads -> Nat] /\ currp \notin Heirs
    BY <2>1, PrioTypes, HeirsAre
  <2> QED
    BY <1>2, <2>1, <2>2
<1>5. ASSUME NEW c \in Conds, NEW time \in {"INFINITE", "FINITE"}, CondWait(c, time) PROVE Sched'
  <2> DEFINE m == Head(mlist[currp])
             p == PrioAfterUnlock(m)
  <2>1. mlist[currp] # <<>> /\ prio' = p /\ GoSleepTimeoutS(ReadyI(state, Heir(m)), p, "WTCOND", time)
    BY <1>5 DEF CondWait, Heir
  <2>2. p \in [Threads -> Nat] /\ m \in Mutexes
    BY <2>1, PrioAfterUnlockType, LastLocked
  <2>3. currp \notin Heir(m)
    BY <2>2, HeadWaits DEF Heir
  <2>4. OneCurrent(ReadyI(state, Heir(m)), currp)
    BY <1>1, <2>3, ReadyKeepsCurrent
  <2> HIDE DEF p, m
  <2> QED
    BY <2>1, <2>2, <2>4, SleepSwitches DEF Sched
<1>6. ASSUME NEW n \in Levels[currp], SetPriority(n) PROVE Sched'
  <2>1. RescheduleS(state, prio') /\ (prio' = [prio EXCEPT ![currp] = n] \/ prio' = prio)
    BY <1>6 DEF SetPriority
  <2>2. prio' \in [Threads -> Nat]
    BY <1>1, <2>1 DEF MtxAssumption
  <2> QED
    BY <1>1, <2>1, <2>2, RescheduleRestores DEF Sched
<1>7. CASE Sleep
  <2>1. GoSleepTimeoutS(state, prio, "SLEEPING", "FINITE") /\ prio' = prio
    BY <1>7 DEF Sleep
  <2> QED
    BY <1>1, <2>1, SleepSwitches DEF Sched
<1>8. CASE EndIsr
  <2>1. RescheduleS(state, prio) /\ prio' = prio
    BY <1>8 DEF EndIsr, IsrExit
  <2> QED
    BY <1>1, <2>1, RescheduleRestores DEF Sched
<1>9. ASSUME NEW c \in Conds, CondBroadcast(c) PROVE Sched'
  <2>1. RescheduleS(ReadyI(state, ToSet(cqueue[c])), prio) /\ prio' = prio
    BY <1>9 DEF CondBroadcast
  <2>2. currp \notin ToSet(cqueue[c])
    BY <1>1 DEF MtxInv, Lines
  <2> QED
    BY <1>1, <1>2, <2>1, <2>2
<1> QED
  BY <1>3, <1>4, <1>5, <1>6, <1>7, <1>8, <1>9

LEMMA CondSignalSched ==
  ASSUME CoreAssumption, MtxAssumption, MtxInv, Sched, NEW c \in Conds, CondSignal(c)
  PROVE  Sched'
<1> DEFINE t == Head(cqueue[c])
<1>1. ~isr /\ cqueue[c] # <<>> /\ WakeupS(state, prio, t) /\ prio' = prio
  BY DEF CondSignal, Running
<1>2. prio \in [Threads -> Nat] /\ OneCurrent(state, currp) /\ state[currp] = "CURRENT"
  BY PrioTypes, Parts
<1>3. t \in Threads /\ t \in ToSet(cqueue[c])
  BY <1>1, TailQueue DEF MtxInv, Lines
<1> HIDE DEF t
<1>4. t # currp
  BY <1>2, <1>3 DEF MtxInv, Lines
<1>5. \A w \in Ready(state) : prio[w] <= prio[currp] \/ prio[w] <= prio[t]
  BY <1>1 DEF Sched, MostUrgent
<1> QED
  BY <1>1, <1>2, <1>3, <1>4, <1>5, WakeupRestores DEF Sched

\* In a handler anybody may become ready; some steps change nobody's turn.
LEMMA OtherSched ==
  ASSUME MtxInv, Sched,
         \/ isr' = TRUE
         \/ UNCHANGED <<isr, state, currp, prio>>
  PROVE  Sched'
  BY DEF Sched

LEMMA AsideSched ==
  ASSUME CoreAssumption, MtxAssumption, MtxInv, Sched, Aside
  PROVE  Sched'
<1>1. CASE \/ \E n \in Levels[currp] : SetPriority(n)
           \/ Sleep \/ EndIsr
           \/ \E c \in Conds : CondBroadcast(c)
  BY <1>1, SwitchSched
<1>2. ASSUME NEW c \in Conds, CondSignal(c) PROVE Sched'
  BY <1>2, CondSignalSched
<1>3. CASE ResumeSimple \/ \E c \in Conds : IsrCondSignalI(c) \/ IsrCondBroadcastI(c)
  BY <1>3, OtherSched DEF ResumeSimple, IsrCondSignalI, IsrCondBroadcastI
<1>4. ASSUME NEW t \in Threads, Expire(t) \/ Wakeup(t) PROVE Sched'
  <2>1. CASE Expire(t)
    BY <2>1, OtherSched DEF Expire, TimerExpires
  <2>2. CASE Wakeup(t)
    <3>1. isr' = isr /\ isr /\ isr \in BOOLEAN
      BY <2>2, Parts DEF Wakeup, TimerWakeup, MtxInv, TimersHold, Rest
    <3> QED
      BY <3>1, OtherSched
  <2> QED
    BY <1>4, <2>1, <2>2
<1> QED
  BY <1>1, <1>2, <1>3, <1>4 DEF Aside

LEMMA LockSched ==
  ASSUME CoreAssumption, MtxAssumption, MtxInv, Sched,
         \/ \E m \in Mutexes : Lock(m) \/ TryLock(m)
         \/ ResumeRelock
  PROVE  Sched'
<1>1. ASSUME NEW m \in Mutexes, LockSleep(m) PROVE Sched'
  BY <1>1, SwitchSched
<1>2. CASE UNCHANGED <<isr, state, currp, prio>>
  BY <1>2, OtherSched
<1>3. ASSUME NEW m \in Mutexes, Lock(m) \/ TryLock(m) PROVE Sched'
  BY <1>1, <1>2, <1>3 DEF Lock, TryLock, core
<1>4. CASE ResumeRelock
  <2>1. call[currp].op = "wait" /\ currp \in Threads
    BY <1>4, Parts DEF ResumeRelock
  <2>2. call[currp].m \in Mutexes
    BY <2>1 DEF MtxInv, CallsHold, CallOf
  <2> QED
    BY <1>1, <1>2, <1>4, <2>2 DEF ResumeRelock
<1> QED
  BY <1>3, <1>4

LEMMA PrioKept ==
  ASSUME CoreAssumption, MtxAssumption, StrictRank, ~OwnersMay, PrioInv, Next
  PROVE  PrioInv'
<1>1. MtxInv /\ Sorted /\ Inherits /\ Sched
  BY DEF PrioInv, OrderInv
<1>2. OrderInv'
  BY OrderKept DEF PrioInv
<1>3. ASSUME \/ \E m \in Mutexes : Lock(m) \/ TryLock(m)
             \/ ResumeRelock
      PROVE  Inherits' /\ Sched'
  BY <1>1, <1>3, LockInherits, LockSched
<1>4. ASSUME NEW m \in Mutexes, Unlock(m) PROVE Inherits' /\ Sched'
  BY <1>1, <1>4, UnlockInherits, UnlockSched
<1>5. ASSUME UnlockAll PROVE Inherits' /\ Sched'
  BY <1>1, <1>5, UnlockAllInherits, SwitchSched
<1>6. ASSUME \E c \in Conds, time \in {"INFINITE", "FINITE"} : CondWait(c, time)
      PROVE  Inherits' /\ Sched'
  BY <1>1, <1>6, UnlockInherits, SwitchSched
<1>7. ASSUME Aside PROVE Inherits' /\ Sched'
  BY <1>1, <1>7, AsideInherits, AsideSched
<1>8. Inherits' /\ Sched'
  BY <1>3, <1>4, <1>5, <1>6, <1>7, Cases
<1> QED
  BY <1>2, <1>8 DEF PrioInv

LEMMA PrioInit ==
  ASSUME CoreAssumption, MtxAssumption, Init
  PROVE  PrioInv
<1>1. OrderInv
  BY OrderInit
<1>2. prio = BasePrio /\ realprio = BasePrio /\ mqueue = [m \in Mutexes |-> <<>>]
  BY DEF Init, CoreInit
<1>3. ToSet(<<>>) = {}
  BY DEF ToSet
<1>4. \A t \in Threads : BasePrio[t] \in Nat
  BY DEF CoreAssumption
<1>5. Inherits
  BY <1>2, <1>3, <1>4 DEF Inherits, AtLeast, AtMost
<1>6. PICK c \in Users : /\ \A w \in Users : BasePrio[w] <= BasePrio[c]
                         /\ currp = c
  BY DEF Init, CoreInit
<1>7. c \in Threads \ {Idle} /\ BasePrio[c] > BasePrio[Idle] /\ BasePrio[Idle] \in Nat
  BY <1>4, <1>6 DEF Users, CoreAssumption
<1>8. ASSUME NEW t \in Ready(state) PROVE BasePrio[t] <= BasePrio[c]
  <2>1. t \in Threads /\ (t \in Users \/ t = Idle)
    BY DEF Ready, Users
  <2> QED
    BY <1>4, <1>6, <1>7, <2>1
<1>9. Sched
  BY <1>2, <1>6, <1>8 DEF Sched, MostUrgent
<1> QED
  BY <1>1, <1>5, <1>9 DEF PrioInv

LEMMA PrioStutter ==
  ASSUME PrioInv, UNCHANGED vars
  PROVE  PrioInv'
<1>1. UNCHANGED <<prio, realprio, currp, state, isr, owner, mqueue>>
  BY DEF vars, core, mtx
<1>2. OrderInv'
  BY OrderStutter DEF PrioInv
<1> QED
  BY <1>1, <1>2 DEF PrioInv, Inherits, AtLeast, AtMost, From, Sched, MostUrgent, Ready

LEMMA PrioInvariance ==
  ASSUME StrictRank, ~OwnersMay
  PROVE  Spec => []PrioInv
<1>1. Init => PrioInv
  BY CoreAssumption, MtxAssumption, PrioInit
<1>2. PrioInv /\ [Next]_vars => PrioInv'
  BY CoreAssumption, MtxAssumption, PrioKept, PrioStutter
<1> QED
  BY <1>1, <1>2, PTL DEF Spec

\* Priority inheritance of chmtx.c neither misses nor outlasts a waiter, through
\* any chain of owners: a thread runs at its own priority or at that of the
\* most urgent thread that waits for one of its mutexes, whichever is higher.
THEOREM InheritanceIsExact == StrictRank /\ ~OwnersMay => (Spec => []InheritanceExact)
<1> SUFFICES ASSUME StrictRank, ~OwnersMay PROVE Spec => []InheritanceExact
  OBVIOUS
<1>1. PrioInv => InheritanceExact
  <2> SUFFICES ASSUME PrioInv, NEW t \in Threads
               PROVE  /\ prio[t] >= realprio[t]
                      /\ \A w \in WaitersOn(t) : prio[t] >= prio[w]
                      /\ prio[t] = realprio[t] \/ \E w \in WaitersOn(t) : prio[t] = prio[w]
    BY DEF InheritanceExact
  <2>1. MtxInv /\ Inherits
    BY DEF PrioInv, OrderInv
  <2>2. t # None
    BY MtxAssumption DEF MtxAssumption
  <2>3. ASSUME NEW w \in WaitersOn(t) PROVE prio[t] >= prio[w]
    <3>1. w \in Threads /\ Blocker(w) = t
      BY DEF WaitersOn
    <3>2. pu[w] \in Mutexes /\ owner[pu[w]] = t /\ w \in ToSet(mqueue[pu[w]])
      BY <2>1, <2>2, <3>1, MtxAssumption, BlockerIs
    <3> QED
      BY <2>1, <3>2 DEF Inherits, AtLeast
  <2>4. ASSUME From(t, prio[t], owner, mqueue, prio)
        PROVE  \E w \in WaitersOn(t) : prio[t] = prio[w]
    <3>1. PICK k \in Mutexes : owner[k] = t /\ \E w \in ToSet(mqueue[k]) : prio[w] = prio[t]
      BY <2>4 DEF From
    <3>2. PICK w \in ToSet(mqueue[k]) : prio[w] = prio[t]
      BY <3>1
    <3>3. w \in Threads
      BY <2>1, CoreAssumption, MtxAssumption, PrioTypes
    <3>4. Blocker(w) = t
      BY <2>1, <3>1, <3>3, MtxAssumption, BlockerIs
    <3> QED
      BY <3>2, <3>3, <3>4 DEF WaitersOn
  <2> QED
    BY <2>1, <2>3, <2>4 DEF Inherits, AtMost
<1> QED
  BY <1>1, PrioInvariance, PTL

\* chSysUnlock's assertion: no thread code runs while a thread of higher
\* priority is ready, although chMtxUnlock compares just two threads.
THEOREM MostUrgentRuns == StrictRank /\ ~OwnersMay => (Spec => []PriorityOrder)
<1> SUFFICES ASSUME StrictRank, ~OwnersMay PROVE Spec => []PriorityOrder
  OBVIOUS
<1>1. PrioInv => PriorityOrder
  BY DEF PrioInv, Sched, MostUrgent, PriorityOrder
<1> QED
  BY <1>1, PrioInvariance, PTL

=============================================================================
