-------------------------- MODULE ChThreads_proofs --------------------------
(***************************************************************************)
(* What holds of threads, their references and the registry for any number *)
(* of threads, as long as nobody walks the registry while there are        *)
(* dynamic threads in it.                                                  *)
(***************************************************************************)
EXTENDS ChThreads, Queues_proofs

-----------------------------------------------------------------------------
(***************************************************************************)
(* The inductive invariant.                                                *)
(***************************************************************************)
States == {"NONE", "WTSTART", "READY", "CURRENT", "SLEEPING", "WTEXIT", "FINAL"}

\* One running thread; who sleeps, and for whom a timer is armed.
KernelHolds ==
  /\ currp \in Threads
  /\ state \in [Threads -> States]
  /\ \A t \in Threads : state[t] = "CURRENT" <=> t = currp
  /\ prio = BasePrio
  /\ pu \in [Threads -> Msgs \cup ExitCodes]
  /\ vt \in [Threads -> {"off", "armed", "firing"}]
  /\ slept \in [Threads -> BOOLEAN]
  /\ isr \in BOOLEAN
  /\ \A t \in Threads :
       /\ slept[t] => state[t] \in {"READY", "CURRENT", "SLEEPING", "WTEXIT"}
       /\ state[t] \in {"SLEEPING", "WTEXIT"} => slept[t]
       /\ vt[t] # "off" => state[t] = "SLEEPING"
       /\ vt[t] = "firing" => isr
  /\ isr => ~slept[currp]
  /\ state[Idle] \notin Dead

\* A thread is in chThdWait from its sleep until it runs again.
JoinsHold ==
  /\ waiting \in [Threads -> Seq(Threads)]
  /\ join \in [Threads -> Threads \cup {None}]
  /\ \A t \in Threads :
       /\ join[t] # None => slept[t]
       /\ state[t] = "WTEXIT" => join[t] # None
  /\ NoJoinerForgotten
  /\ JoinSeesExitCode

\* The counts cover the calls in progress, and memory is kept while a count
\* is not zero.
CountsHold ==
  /\ term \in [Threads -> BOOLEAN]
  /\ refs \in [Threads -> Nat]
  /\ release \in [Threads -> {None} \cup Releasing]
  /\ walk \in [Threads -> Threads \cup {None}]
  /\ \A t \in Threads :
       /\ refs[t] >= Used(t)
       /\ refs[t] > 0 => state[t] # "NONE"
       /\ slept[t] => release[t] = None
       /\ walk[t] # None => t \in Walkers

\* Who has taken the count of a dynamic thread to zero is alone with it.
Alone(w) ==
  release[w] # None /\ release[w].pc # "lock" =>
    LET t == release[w].tp IN
    /\ t \in Dynamic =>
         /\ refs[t] = 0
         /\ state[t] # "NONE"
         /\ \A v \in Threads \ {w} : release[v] = None \/ release[v].tp # t
    /\ release[w].pc # "test" => t \in Dynamic /\ state[t] = "FINAL"

FreesHold == \A w \in Threads : Alone(w)

\* The links nw and od tie the nodes of A into one ring through RList: every
\* part of A that is closed under nw and holds RList is all of A.
Ring(nw, od, A) ==
  /\ RList \in A
  /\ \A x \in A : nw[x] \in A /\ od[x] \in A /\ od[nw[x]] = x /\ nw[od[x]] = x
  /\ \A B \in SUBSET A : RList \in B /\ (\A x \in B : nw[x] \in B) => B = A

Nodes == {t \in Threads : state[t] \notin Dead} \cup {RList}

\* A thread that has left the ring still points to where there was a thread.
LinksHold ==
  /\ newer \in [Threads \cup {RList} -> Threads \cup {RList}]
  /\ older \in [Threads \cup {RList} -> Threads \cup {RList}]
  /\ Dynamic = {} =>
       /\ Ring(newer, older, Nodes)
       /\ \A x \in Threads : state[x] # "NONE" /\ newer[x] # RList => state[newer[x]] # "NONE"

ThreadsInv ==
  KernelHolds /\ JoinsHold /\ CountsHold /\ FreesHold /\ LinksHold /\ halted \in BOOLEAN

-----------------------------------------------------------------------------
\* Counting references.  Count(f, v): how many threads f maps to v.

Count(f, v) == Cardinality({x \in Threads : f[x] = v})
Hit(a, v) == IF a = v THEN 1 ELSE 0

LEMMA CountNat ==
  ASSUME ThreadsAssumption, NEW f, NEW v
  PROVE  /\ Count(f, v) \in Nat
         /\ \A x \in Threads : f[x] = v => Count(f, v) > 0
<1> DEFINE F == {x \in Threads : f[x] = v}
<1>1. IsFiniteSet(F)
  BY FS_Subset DEF ThreadsAssumption
<1>2. Cardinality(F) \in Nat /\ (Cardinality(F) = 0 <=> F = {})
  BY <1>1, FS_CardinalityType, FS_EmptySet
<1> QED
  BY <1>2 DEF Count

\* One thread's entry changes.
LEMMA CountMoves ==
  ASSUME ThreadsAssumption, NEW f, NEW g, NEW v, NEW w \in Threads,
         \A x \in Threads \ {w} : g[x] = f[x]
  PROVE  Count(g, v) = Count(f, v) - Hit(f[w], v) + Hit(g[w], v)
<1> DEFINE F == {x \in Threads : f[x] = v}
           G == {x \in Threads : g[x] = v}
           H == F \ {w}
<1>1. IsFiniteSet(F) /\ IsFiniteSet(H)
  BY FS_Subset DEF ThreadsAssumption
<1>2. Cardinality(F) \in Nat /\ Cardinality(H) \in Nat
  BY <1>1, FS_CardinalityType
<1>3. Cardinality(H) = IF w \in F THEN Cardinality(F) - 1 ELSE Cardinality(F)
  BY <1>1, FS_RemoveElement
<1>4. Cardinality(H \cup {w}) = Cardinality(H) + 1
  BY <1>1, FS_AddElement
<1>0. /\ Count(f, v) = Cardinality(F) /\ Count(g, v) = Cardinality(G)
      /\ w \in F <=> f[w] = v
  BY DEF Count
<1>5. CASE g[w] = v
  <2>1. G = H \cup {w}
    BY <1>5
  <2> HIDE DEF F, G, H
  <2>2. Cardinality(G) = Cardinality(H) + 1
    BY <2>1, <1>4
  <2> QED
    BY <1>0, <1>2, <1>3, <1>5, <2>2 DEF Hit
<1>6. CASE g[w] # v
  <2>1. G = H
    BY <1>6
  <2> HIDE DEF F, G, H
  <2> QED
    BY <1>0, <1>2, <1>3, <1>6, <2>1 DEF Hit
<1> HIDE DEF F, G, H
<1> QED
  BY <1>5, <1>6

LockOf(t) == [tp |-> t, pc |-> "lock"]

LEMMA UsedIs ==
  ASSUME ThreadsAssumption, NEW t \in Threads
  PROVE  /\ Used(t) = Count(join, t) + Count(release, LockOf(t)) + Count(walk, t)
         /\ Used(t)' = Count(join', t) + Count(release', LockOf(t)) + Count(walk', t)
         /\ Used(t) \in Nat
         /\ \A x \in Threads : join[x] = t \/ release[x] = LockOf(t) \/ walk[x] = t => Used(t) > 0
         /\ Used(t)' \in Nat
         /\ \A x \in Threads : join'[x] = t \/ release'[x] = LockOf(t) \/ walk'[x] = t => Used(t)' > 0
<1>1. LockOf(t) # None
  BY DEF ThreadsAssumption, LockOf, Releasing
<1>2. {w \in Threads : release[w] # None /\ release[w] = LockOf(t)}
        = {w \in Threads : release[w] = LockOf(t)}
  BY <1>1
<1>3. {w \in Threads : release'[w] # None /\ release'[w] = LockOf(t)}
        = {w \in Threads : release'[w] = LockOf(t)}
  BY <1>1
<1>4. Used(t) = Count(join, t) + Count(release, LockOf(t)) + Count(walk, t)
  BY <1>2 DEF Used, Count, LockOf
<1>5. Used(t)' = Count(join', t) + Count(release', LockOf(t)) + Count(walk', t)
  BY <1>3 DEF Used, Count, LockOf
<1>6. /\ Count(join, t) \in Nat /\ \A x \in Threads : join[x] = t => Count(join, t) > 0
      /\ Count(walk, t) \in Nat /\ \A x \in Threads : walk[x] = t => Count(walk, t) > 0
      /\ Count(release, LockOf(t)) \in Nat
      /\ \A x \in Threads : release[x] = LockOf(t) => Count(release, LockOf(t)) > 0
  BY CountNat
<1>7. /\ Count(join', t) \in Nat /\ \A x \in Threads : join'[x] = t => Count(join', t) > 0
      /\ Count(walk', t) \in Nat /\ \A x \in Threads : walk'[x] = t => Count(walk', t) > 0
      /\ Count(release', LockOf(t)) \in Nat
      /\ \A x \in Threads : release'[x] = LockOf(t) => Count(release', LockOf(t)) > 0
  BY CountNat
<1> QED
  BY <1>4, <1>5, <1>6, <1>7

\* Only w's calls and walk change.
LEMMA UsedMoves ==
  ASSUME ThreadsAssumption, NEW w \in Threads, NEW t \in Threads,
         \A x \in Threads \ {w} :
           join'[x] = join[x] /\ release'[x] = release[x] /\ walk'[x] = walk[x]
  PROVE  Used(t)' = Used(t)
           - Hit(join[w], t) - Hit(release[w], LockOf(t)) - Hit(walk[w], t)
           + Hit(join'[w], t) + Hit(release'[w], LockOf(t)) + Hit(walk'[w], t)
<1>1. Count(join', t) = Count(join, t) - Hit(join[w], t) + Hit(join'[w], t)
  BY CountMoves
<1>2. Count(release', LockOf(t))
        = Count(release, LockOf(t)) - Hit(release[w], LockOf(t)) + Hit(release'[w], LockOf(t))
  BY CountMoves
<1>3. Count(walk', t) = Count(walk, t) - Hit(walk[w], t) + Hit(walk'[w], t)
  BY CountMoves
<1>4. Count(join, t) \in Nat /\ Count(release, LockOf(t)) \in Nat /\ Count(walk, t) \in Nat
  BY CountNat
<1>5. /\ Used(t) = Count(join, t) + Count(release, LockOf(t)) + Count(walk, t)
      /\ Used(t)' = Count(join', t) + Count(release', LockOf(t)) + Count(walk', t)
  BY UsedIs
<1> QED
  BY <1>1, <1>2, <1>3, <1>4, <1>5 DEF Hit

LEMMA LockOfIs ==
  ASSUME ThreadsAssumption, NEW t \in Threads
  PROVE  /\ LockOf(t) # None /\ LockOf(t) \in Releasing
         /\ LockOf(t).tp = t /\ LockOf(t).pc = "lock"
         /\ \A x : LockOf(x) = LockOf(t) <=> x = t
         /\ \A r \in Releasing : r = LockOf(t) <=> r.tp = t /\ r.pc = "lock"
  BY DEF LockOf, Releasing, ThreadsAssumption

-----------------------------------------------------------------------------
\* The scheduler.

OneCurrent(s, c) ==
  /\ s \in [Threads -> States]
  /\ c \in Threads
  /\ \A t \in Threads : s[t] = "CURRENT" <=> t = c

LEMMA Switched ==
  ASSUME NEW s, OneCurrent(s, currp), NEW t \in Threads, t # currp,
         NEW old \in States, old # "CURRENT", SwitchTo(s, t, old)
  PROVE  /\ OneCurrent(state', currp') /\ currp' = t
         /\ \A x \in Threads :
              state'[x] = IF x = t THEN "CURRENT" ELSE IF x = currp THEN old ELSE s[x]
<1>1. /\ currp' = t
      /\ state' = [s EXCEPT ![currp] = old, ![t] = "CURRENT"]
      /\ s \in [Threads -> States] /\ currp \in Threads /\ "CURRENT" \in States
  BY DEF SwitchTo, OneCurrent, States
<1>2. state' \in [Threads -> States]
  BY <1>1
<1>3. \A x \in Threads :
        state'[x] = IF x = t THEN "CURRENT" ELSE IF x = currp THEN old ELSE s[x]
  BY <1>1
<1> QED
  BY <1>1, <1>2, <1>3 DEF OneCurrent

LEMMA HighestIsReady ==
  ASSUME NEW s, OneCurrent(s, currp), NEW p, NEW t \in Highest(s, p)
  PROVE  t \in Threads /\ t # currp /\ s[t] = "READY"
  BY DEF Highest, Ready, OneCurrent

LEMMA ReadyIs ==
  ASSUME NEW s \in [Threads -> States], NEW W
  PROVE  /\ ReadyI(s, W) \in [Threads -> States]
         /\ \A x \in Threads : ReadyI(s, W)[x] = IF x \in W THEN "READY" ELSE s[x]
  BY DEF ReadyI, States

\* A thread other than the running one is readied, and may preempt it.
LEMMA WakeupIs ==
  ASSUME OneCurrent(state, currp), NEW t \in Threads, t # currp, NEW p, WakeupS(state, p, t)
  PROVE  /\ OneCurrent(state', currp')
         /\ currp' \in {currp, t}
         /\ state'[t] \in {"READY", "CURRENT"}
         /\ state'[currp] \in {"READY", "CURRENT"}
         /\ \A x \in Threads : x # t /\ x # currp => state'[x] = state[x]
<1>1. CASE p[t] <= p[currp]
  <2>1. state' = ReadyI(state, {t}) /\ currp' = currp
    BY <1>1 DEF WakeupS
  <2>2. /\ state' \in [Threads -> States]
        /\ \A x \in Threads : state'[x] = IF x \in {t} THEN "READY" ELSE state[x]
    BY <2>1, ReadyIs DEF OneCurrent
  <2> QED
    BY <2>1, <2>2 DEF OneCurrent
<1>2. CASE ~(p[t] <= p[currp])
  <2>1. SwitchTo(state, t, "READY")
    BY <1>2 DEF WakeupS
  <2>2. "READY" \in States
    BY DEF States
  <2>3. /\ OneCurrent(state', currp') /\ currp' = t
        /\ \A x \in Threads :
             state'[x] = IF x = t THEN "CURRENT" ELSE IF x = currp THEN "READY" ELSE state[x]
    BY <2>1, <2>2, Switched
  <2> QED
    BY <2>3 DEF OneCurrent
<1> QED
  BY <1>1, <1>2

\* Some threads trade READY for CURRENT, at most.
LEMMA RescheduleIs ==
  ASSUME OneCurrent(state, currp), NEW p, RescheduleS(state, p)
  PROVE  /\ OneCurrent(state', currp')
         /\ \A x \in Threads : state'[x] = state[x] \/ {state[x], state'[x]} = {"READY", "CURRENT"}
<1>1. CASE \E t \in Ready(state) : p[t] > p[currp]
  <2>1. PICK t \in Highest(state, p) : SwitchTo(state, t, "READY")
    BY <1>1 DEF RescheduleS
  <2>2. "READY" \in States /\ t \in Threads /\ t # currp /\ state[t] = "READY"
    BY HighestIsReady DEF States
  <2>3. /\ OneCurrent(state', currp')
        /\ \A x \in Threads :
             state'[x] = IF x = t THEN "CURRENT" ELSE IF x = currp THEN "READY" ELSE state[x]
    BY <2>1, <2>2, Switched
  <2>4. state[currp] = "CURRENT"
    BY DEF OneCurrent
  <2> QED
    BY <2>2, <2>3, <2>4
<1>2. CASE ~\E t \in Ready(state) : p[t] > p[currp]
  BY <1>2 DEF RescheduleS
<1> QED
  BY <1>1, <1>2

-----------------------------------------------------------------------------
\* Steps that move no thread into or out of chThdWait or its life.
Quiet ==
  \A t \in Threads :
    /\ \A d \in {"NONE", "FINAL", "WTEXIT"} : state'[t] = d <=> state[t] = d
    /\ state[t] = "FINAL" => pu'[t] = pu[t]

LEMMA JoinsQuiet ==
  ASSUME JoinsHold, Quiet, UNCHANGED <<waiting, join>>,
         \A t \in Threads : slept[t] => slept'[t]
  PROVE  JoinsHold'
<1>1. \A t \in Threads : join[t] = None \/ join[t] \in Threads
  BY DEF JoinsHold
<1>2. NoJoinerForgotten'
  BY <1>1 DEF JoinsHold, NoJoinerForgotten, Quiet, Dead
<1>3. JoinSeesExitCode'
  BY <1>1 DEF JoinsHold, JoinSeesExitCode, Quiet
<1> QED
  BY <1>2, <1>3 DEF JoinsHold, Quiet

LEMMA LinksQuiet ==
  ASSUME LinksHold, Quiet, UNCHANGED links
  PROVE  LinksHold'
<1>1. Nodes' = Nodes
  BY DEF Nodes, Quiet, Dead
<1>2. newer' = newer /\ older' = older
  BY DEF links
<1>3. \A x \in Threads : newer[x] # RList => newer[x] \in Threads
  BY DEF LinksHold
<1> QED
  BY <1>1, <1>2, <1>3 DEF LinksHold, Quiet

LEMMA FreesQuiet ==
  ASSUME CountsHold, FreesHold, Quiet, UNCHANGED <<refs, release>>
  PROVE  FreesHold'
<1> SUFFICES ASSUME NEW w \in Threads PROVE Alone(w)'
  BY DEF FreesHold
<1>1. Alone(w)
  BY DEF FreesHold
<1>2. release[w] # None => release[w].tp \in Threads
  BY DEF CountsHold, Releasing
<1> QED
  BY <1>1, <1>2 DEF Alone, Quiet

LEMMA CountsQuiet ==
  ASSUME CountsHold, Quiet, UNCHANGED <<join, refs, release, walk>>,
         term' \in [Threads -> BOOLEAN],
         \A t \in Threads : slept'[t] => slept[t] \/ release[t] = None
  PROVE  CountsHold'
<1>1. \A t \in Threads : Used(t)' = Used(t)
  BY DEF Used
<1> QED
  BY <1>1 DEF CountsHold, Quiet

LEMMA Unmoved ==
  ASSUME UNCHANGED core
  PROVE  Quiet /\ UNCHANGED <<currp, state, prio, pu, vt, slept, isr>>
  BY DEF core, Quiet

LEMMA KernelUnmoved ==
  ASSUME KernelHolds, UNCHANGED core
  PROVE  KernelHolds'
  BY DEF core, KernelHolds, Dead

-----------------------------------------------------------------------------
(***************************************************************************)
(* chThdRelease and the registry's references.                             *)
(***************************************************************************)

\* Nobody walks a registry with dynamic threads in it.
Discipline == Walkers = {} \/ Dynamic = {}

LEMMA Caller ==
  ASSUME ThreadsInv, MayRun
  PROVE  /\ currp \in Threads /\ state[currp] = "CURRENT" /\ currp # Idle
         /\ ~slept[currp] /\ ~isr /\ ~halted
         /\ release[currp] = None /\ join[currp] = None /\ vt[currp] = "off"
  BY DEF ThreadsInv, KernelHolds, JoinsHold, MayRun, Running, Busy

\* Entering chThdRelease with a reference in hand.
LEMMA FreesEnter ==
  ASSUME ThreadsAssumption, CountsHold, FreesHold, Quiet, currp \in Threads,
         NEW t \in Threads, t \in Dynamic => refs[t] > 0,
         release' = [release EXCEPT ![currp] = LockOf(t)],
         release[currp] = None, \A x \in Dynamic : refs'[x] = refs[x]
  PROVE  FreesHold'
<1> SUFFICES ASSUME NEW w \in Threads PROVE Alone(w)'
  BY DEF FreesHold
<1>1. Alone(w)
  BY DEF FreesHold
<1>2. \A v \in Threads : release'[v] = IF v = currp THEN LockOf(t) ELSE release[v]
  BY DEF CountsHold
<1>3. LockOf(t).tp = t /\ LockOf(t).pc = "lock"
  BY LockOfIs
<1>4. CASE w = currp
  BY <1>2, <1>3, <1>4 DEF Alone
<1>5. CASE w # currp
  <2>1. release[w] = None \/ release[w].tp \in Threads
    BY DEF CountsHold, Releasing
  <2>2. release'[w] = release[w]
    BY <1>2, <1>5
  <2> QED
    BY <1>1, <1>2, <1>3, <2>1, <2>2 DEF Alone, Quiet
<1> QED
  BY <1>4, <1>5

LEMMA ReleaseKeeps ==
  ASSUME ThreadsAssumption, ThreadsInv, NEW t \in Threads, Release(t)
  PROVE  ThreadsInv'
<1>1. /\ UNCHANGED core /\ UNCHANGED links /\ halted' = halted
      /\ UNCHANGED <<waiting, join, term, refs, walk>>
      /\ release' = [release EXCEPT ![currp] = LockOf(t)]
      /\ refs[t] > Used(t)
  BY DEF Release, Releases, life, LockOf, Held
<1>2. /\ Quiet /\ currp \in Threads /\ release[currp] = None /\ slept' = slept
      /\ ~slept[currp]
  BY <1>1, Unmoved, Caller DEF Release
<1>3. refs[t] \in Nat /\ Used(t) \in Nat
  BY UsedIs DEF ThreadsInv, CountsHold
<1>4. LockOf(t) \in Releasing
  BY LockOfIs
<1>5. FreesHold'
  <2>1. CountsHold /\ FreesHold
    BY DEF ThreadsInv
  <2>2. (t \in Dynamic => refs[t] > 0) /\ \A x \in Dynamic : refs'[x] = refs[x]
    BY <1>1, <1>3
  <2>3. release' = [release EXCEPT ![currp] = LockOf(t)]
    BY <1>1
  <2> QED
    BY <1>2, <2>1, <2>2, <2>3, FreesEnter
<1>6. /\ \A x \in Threads \ {currp} : release'[x] = release[x]
      /\ release'[currp] = LockOf(t)
      /\ release' \in [Threads -> {None} \cup Releasing]
  BY <1>1, <1>2, <1>4 DEF ThreadsInv, CountsHold
<1>7. CountsHold'
  <2>1. ASSUME NEW x \in Threads PROVE refs'[x] >= Used(x)'
    <3>1. Used(x)' = Used(x)
             - Hit(join[currp], x) - Hit(release[currp], LockOf(x)) - Hit(walk[currp], x)
             + Hit(join'[currp], x) + Hit(release'[currp], LockOf(x)) + Hit(walk'[currp], x)
      BY <1>1, <1>2, <1>6, UsedMoves
    <3>2. /\ Hit(release[currp], LockOf(x)) = 0
          /\ Hit(release'[currp], LockOf(x)) = Hit(t, x)
      BY <1>2, <1>6, LockOfIs DEF Hit
    <3>3. refs[x] \in Nat /\ Used(x) \in Nat /\ refs[x] >= Used(x)
      BY UsedIs DEF ThreadsInv, CountsHold
    <3> QED
      BY <1>1, <1>3, <3>1, <3>2, <3>3 DEF Hit
  <2> QED
    BY <1>1, <1>2, <1>6, <2>1 DEF ThreadsInv, CountsHold, core
<1> QED
  BY <1>1, <1>2, <1>5, <1>7, KernelUnmoved, JoinsQuiet, LinksQuiet DEF ThreadsInv

LEMMA AddRefKeeps ==
  ASSUME ThreadsAssumption, ThreadsInv, NEW t \in Threads, AddRef(t)
  PROVE  ThreadsInv'
<1>1. /\ UNCHANGED core /\ UNCHANGED links /\ halted' = halted
      /\ UNCHANGED <<waiting, join, term, release, walk>>
      /\ refs' = [refs EXCEPT ![t] = @ + 1]
      /\ refs[t] > Used(t)
  BY DEF AddRef, Held
<1>2. Quiet /\ UNCHANGED <<slept, state>>
  BY <1>1, Unmoved
<1>3. refs[t] \in Nat /\ Used(t) \in Nat /\ refs \in [Threads -> Nat]
  BY UsedIs DEF ThreadsInv, CountsHold
<1>4. /\ refs' \in [Threads -> Nat]
      /\ \A x \in Threads : refs'[x] = IF x = t THEN refs[x] + 1 ELSE refs[x]
  BY <1>1, <1>3
<1>5. CountsHold'
  <2>1. \A x \in Threads : Used(x)' = Used(x)
    BY <1>1 DEF Used
  <2>2. \A x \in Threads : refs[x] \in Nat /\ Used(x) \in Nat /\ refs[x] >= Used(x)
    BY UsedIs DEF ThreadsInv, CountsHold
  <2>3. \A x \in Threads : refs'[x] >= Used(x)' /\ (refs'[x] > 0 => state'[x] # "NONE")
    BY <1>2, <1>3, <1>1, <1>4, <2>1, <2>2 DEF ThreadsInv, CountsHold
  <2> QED
    BY <1>1, <1>2, <1>4, <2>3 DEF ThreadsInv, CountsHold
<1>6. FreesHold'
  <2> SUFFICES ASSUME NEW w \in Threads PROVE Alone(w)'
    BY DEF FreesHold
  <2>1. Alone(w) /\ (release[w] = None \/ release[w].tp \in Threads)
    BY DEF ThreadsInv, FreesHold, CountsHold, Releasing
  <2>2. refs[t] # 0
    BY <1>1, <1>3
  <2> QED
    BY <1>1, <1>2, <1>4, <2>1, <2>2 DEF Alone
<1> QED
  BY <1>1, <1>2, <1>5, <1>6, KernelUnmoved, JoinsQuiet, LinksQuiet DEF ThreadsInv

LEMMA TerminateKeeps ==
  ASSUME ThreadsInv, NEW t \in Threads, Terminate(t)
  PROVE  ThreadsInv'
<1>1. /\ UNCHANGED core /\ UNCHANGED links /\ halted' = halted
      /\ UNCHANGED <<waiting, join, refs, release, walk>>
      /\ term' = [term EXCEPT ![t] = TRUE]
  BY DEF Terminate
<1>2. Quiet /\ UNCHANGED slept
  BY <1>1, Unmoved
<1>3. term' \in [Threads -> BOOLEAN]
  BY <1>1 DEF ThreadsInv, CountsHold
<1> QED
  BY <1>1, <1>2, <1>3, KernelUnmoved, JoinsQuiet, LinksQuiet, CountsQuiet, FreesQuiet DEF ThreadsInv

-----------------------------------------------------------------------------
\* What chThdRelease does after the other: the call of currp moves on.

LEMMA InCall ==
  ASSUME ThreadsAssumption, ThreadsInv, NEW pc, InRelease(pc)
  PROVE  LET r == release[currp] IN
         /\ currp \in Threads /\ r \in Releasing /\ r # None /\ r.pc = pc
         /\ r.tp \in Threads /\ Alone(currp) /\ ~slept[currp] /\ ~halted
  BY DEF ThreadsInv, InRelease, Busy, Running, KernelHolds, CountsHold, FreesHold, Releasing

LEMMA GoesIs ==
  ASSUME ThreadsAssumption, ThreadsInv, NEW pc, InRelease(pc), NEW next, Goes(next),
         next \in {"done", "test", "unlink", "relink", "free"}
  PROVE  /\ release' \in [Threads -> {None} \cup Releasing]
         /\ \A x \in Threads \ {currp} : release'[x] = release[x]
         /\ next = "done" => release'[currp] = None
         /\ next # "done" => /\ release'[currp] # None
                             /\ release'[currp].tp = release[currp].tp
                             /\ release'[currp].pc = next
         /\ \A t \in Threads : release'[currp] # LockOf(t)
<1> DEFINE r == IF next = "done" THEN None ELSE [tp |-> release[currp].tp, pc |-> next]
<1>1. /\ currp \in Threads /\ release \in [Threads -> {None} \cup Releasing]
      /\ release[currp].tp \in Threads
  BY InCall DEF ThreadsInv, CountsHold
<1>2. release' = [release EXCEPT ![currp] = r]
  BY DEF Goes
<1>3. /\ r \in {None} \cup Releasing
      /\ next = "done" => r = None
      /\ next # "done" => r # None /\ r.tp = release[currp].tp /\ r.pc = next
  BY <1>1 DEF Releasing, ThreadsAssumption
<1>4. \A t \in Threads : r # LockOf(t)
  BY <1>3, LockOfIs
<1> HIDE DEF r
<1> QED
  BY <1>1, <1>2, <1>3, <1>4

\* Past the lock, no count changes.
LEMMA CountsGo ==
  ASSUME ThreadsAssumption, ThreadsInv, NEW pc, InRelease(pc), pc # "lock", NEW next, Goes(next),
         next \in {"done", "test", "unlink", "relink", "free"},
         UNCHANGED <<join, term, refs, walk, slept>>,
         \A t \in Threads : refs[t] > 0 => state'[t] # "NONE"
  PROVE  CountsHold'
<1>1. /\ release' \in [Threads -> {None} \cup Releasing]
      /\ \A x \in Threads \ {currp} : release'[x] = release[x]
      /\ \A t \in Threads : release'[currp] # LockOf(t)
  BY GoesIs
<1>2. currp \in Threads /\ ~slept[currp] /\ release[currp].pc # "lock"
  BY InCall
<1>3. ASSUME NEW t \in Threads PROVE Used(t)' = Used(t)
  <2>1. release[currp] # LockOf(t)
    BY <1>2, LockOfIs
  <2>2. Used(t)' = Used(t)
           - Hit(join[currp], t) - Hit(release[currp], LockOf(t)) - Hit(walk[currp], t)
           + Hit(join'[currp], t) + Hit(release'[currp], LockOf(t)) + Hit(walk'[currp], t)
    BY <1>1, <1>2, UsedMoves
  <2>3. Used(t) \in Nat
    BY UsedIs
  <2> QED
    BY <1>1, <2>1, <2>2, <2>3 DEF Hit
<1> QED
  BY <1>1, <1>2, <1>3 DEF ThreadsInv, CountsHold

LEMMA FreesGo ==
  ASSUME ThreadsAssumption, ThreadsInv, NEW pc, InRelease(pc), pc # "lock", NEW next, Goes(next),
         next \in {"done", "unlink", "relink", "free"},
         next # "done" => release[currp].tp \in Dynamic /\ state[release[currp].tp] = "FINAL",
         refs' = refs, state' = state
  PROVE  FreesHold'
<1>1. /\ \A x \in Threads \ {currp} : release'[x] = release[x]
      /\ next = "done" => release'[currp] = None
      /\ next # "done" => /\ release'[currp] # None
                          /\ release'[currp].tp = release[currp].tp
                          /\ release'[currp].pc = next
  BY GoesIs
<1>2. /\ currp \in Threads /\ Alone(currp) /\ release[currp] # None
      /\ release[currp].pc # "lock"
  BY InCall
<1> SUFFICES ASSUME NEW w \in Threads PROVE Alone(w)'
  BY DEF FreesHold
<1>3. CASE w = currp
  <2>1. CASE next = "done"
    BY <1>1, <1>3, <2>1 DEF Alone
  <2>2. CASE next # "done"
    BY <1>1, <1>2, <1>3, <2>2 DEF Alone
  <2> QED
    BY <2>1, <2>2
<1>4. CASE w # currp
  <2>1. Alone(w)
    BY DEF ThreadsInv, FreesHold
  <2>2. release'[currp] = None \/ release'[currp].tp = release[currp].tp
    BY <1>1
  <2> QED
    BY <1>1, <1>2, <1>4, <2>1, <2>2 DEF Alone
<1> QED
  BY <1>3, <1>4

LEMMA ReleaseTestKeeps ==
  ASSUME ThreadsAssumption, ThreadsInv, ReleaseTest
  PROVE  ThreadsInv'
<1> DEFINE t == release[currp].tp
           next == IF state[t] = "FINAL" /\ t \in Dynamic THEN "unlink" ELSE "done"
<1>1. /\ InRelease("test") /\ Goes(next)
      /\ UNCHANGED core /\ UNCHANGED links /\ halted' = halted
      /\ UNCHANGED <<waiting, join, term, refs, walk>>
  BY DEF ReleaseTest, life
<1>2. Quiet /\ UNCHANGED <<slept, state>>
  BY <1>1, Unmoved
<1>3. /\ next \in {"done", "unlink"}
      /\ next # "done" => t \in Dynamic /\ state[t] = "FINAL"
  OBVIOUS
<1> HIDE DEF next
<1>4. CountsHold'
  <2>1. \A x \in Threads : refs[x] > 0 => state'[x] # "NONE"
    BY <1>2 DEF ThreadsInv, CountsHold
  <2> QED
    BY <1>1, <1>2, <1>3, <2>1, CountsGo
<1>5. FreesHold'
  BY <1>1, <1>2, <1>3, FreesGo
<1> QED
  BY <1>1, <1>2, <1>4, <1>5, KernelUnmoved, JoinsQuiet, LinksQuiet DEF ThreadsInv

\* REG_REMOVE outside the lock: only dynamic threads leave this way.
LEMMA UnlinkStep ==
  ASSUME ThreadsAssumption, ThreadsInv, NEW pc, InRelease(pc), pc \in {"unlink", "relink"},
         NEW next, next \in {"relink", "free"}, Goes(next),
         UNCHANGED core, halted' = halted, UNCHANGED <<waiting, join, term, refs, walk>>,
         newer' \in [Threads \cup {RList} -> Threads \cup {RList}],
         older' \in [Threads \cup {RList} -> Threads \cup {RList}]
  PROVE  ThreadsInv'
<1>1. Quiet /\ UNCHANGED <<slept, state>>
  BY Unmoved
<1>2. release[currp].tp \in Dynamic /\ state[release[currp].tp] = "FINAL"
  BY InCall DEF Alone
<1>3. CountsHold'
  <2>1. \A x \in Threads : refs[x] > 0 => state'[x] # "NONE"
    BY <1>1 DEF ThreadsInv, CountsHold
  <2> QED
    BY <1>1, <2>1, CountsGo
<1>4. FreesHold'
  BY <1>1, <1>2, FreesGo
<1>5. LinksHold'
  BY <1>2 DEF LinksHold
<1> QED
  BY <1>1, <1>3, <1>4, <1>5, KernelUnmoved, JoinsQuiet DEF ThreadsInv

LEMMA ReleaseUnlinkKeeps ==
  ASSUME ThreadsAssumption, ThreadsInv, ReleaseUnlink
  PROVE  ThreadsInv'
<1>1. newer' = [newer EXCEPT ![older[release[currp].tp]] = newer[release[currp].tp]]
  BY DEF ReleaseUnlink
<1>2. InRelease("unlink")
  BY DEF ReleaseUnlink
<1>3. newer' \in [Threads \cup {RList} -> Threads \cup {RList}]
  BY <1>1, <1>2, InCall DEF ThreadsInv, LinksHold
<1> QED
  BY <1>2, <1>3, UnlinkStep DEF ReleaseUnlink, life, ThreadsInv, LinksHold

LEMMA ReleaseRelinkKeeps ==
  ASSUME ThreadsAssumption, ThreadsInv, ReleaseRelink
  PROVE  ThreadsInv'
<1>1. older' = [older EXCEPT ![newer[release[currp].tp]] = older[release[currp].tp]]
  BY DEF ReleaseRelink
<1>2. InRelease("relink")
  BY DEF ReleaseRelink
<1>3. older' \in [Threads \cup {RList} -> Threads \cup {RList}]
  BY <1>1, <1>2, InCall DEF ThreadsInv, LinksHold
<1> QED
  BY <1>2, <1>3, UnlinkStep DEF ReleaseRelink, life, ThreadsInv, LinksHold

\* The count of t covers the call itself, so it is not zero; who takes it to
\* zero leaves no other call on t behind.
LEMMA ReleaseLockedKeeps ==
  ASSUME ThreadsAssumption, ThreadsInv, ReleaseLocked
  PROVE  ThreadsInv'
<1>0. PICK t \in Threads : t = release[currp].tp
  BY InCall DEF ReleaseLocked
<1> DEFINE next == IF refs[t] = 1 THEN "test" ELSE "done"
<1>1. /\ InRelease("lock") /\ Goes(next)
      /\ UNCHANGED core /\ UNCHANGED links
      /\ UNCHANGED <<waiting, join, term, walk>>
      /\ halted' = (refs[t] = 0)
      /\ refs' = IF refs[t] = 0 THEN refs ELSE [refs EXCEPT ![t] = @ - 1]
  BY <1>0 DEF ReleaseLocked
<1>2. Quiet /\ UNCHANGED <<slept, state>>
  BY <1>1, Unmoved
<1>3. /\ next \in {"done", "test"}
      /\ next # "done" <=> refs[t] = 1
  OBVIOUS
<1> HIDE DEF next
<1>4. /\ currp \in Threads /\ t \in Threads /\ ~slept[currp]
      /\ release[currp] = LockOf(t)
  BY <1>0, <1>1, InCall, LockOfIs
<1>5. /\ release' \in [Threads -> {None} \cup Releasing]
      /\ \A x \in Threads \ {currp} : release'[x] = release[x]
      /\ next = "done" => release'[currp] = None
      /\ next # "done" => release'[currp] # None /\ release'[currp].tp = t
      /\ \A x \in Threads : release'[currp] # LockOf(x)
  BY <1>0, <1>1, <1>3, GoesIs
<1>6. Used(t) > 0
  BY <1>4, UsedIs
<1>7. refs[t] \in Nat /\ Used(t) \in Nat /\ refs[t] > 0 /\ refs \in [Threads -> Nat]
  BY <1>4, <1>6, UsedIs DEF ThreadsInv, CountsHold
<1>8. /\ refs' \in [Threads -> Nat] /\ halted' = FALSE
      /\ \A x \in Threads : refs'[x] = IF x = t THEN refs[x] - 1 ELSE refs[x]
  <2>1. refs[t] # 0 /\ refs[t] - 1 \in Nat
    BY <1>7
  <2>2. halted' = FALSE
    BY <1>1, <2>1, Zenon
  <2>3. refs' = [refs EXCEPT ![t] = refs[t] - 1]
    BY <1>1, <2>1, Zenon
  <2> QED
    BY <1>7, <2>1, <2>2, <2>3
<1>9. ASSUME NEW x \in Threads PROVE Used(x)' = Used(x) - Hit(t, x) /\ Used(x) \in Nat
  <2>1. Used(x)' = Used(x)
           - Hit(join[currp], x) - Hit(release[currp], LockOf(x)) - Hit(walk[currp], x)
           + Hit(join'[currp], x) + Hit(release'[currp], LockOf(x)) + Hit(walk'[currp], x)
    BY <1>4, <1>5, <1>1, UsedMoves
  <2>2. Hit(release[currp], LockOf(x)) = Hit(t, x) /\ Hit(release'[currp], LockOf(x)) = 0
    BY <1>4, <1>5, LockOfIs DEF Hit
  <2>3. Used(x) \in Nat
    BY UsedIs
  <2> QED
    BY <1>1, <2>1, <2>2, <2>3 DEF Hit
<1>10. CountsHold'
  <2>1. \A x \in Threads : refs'[x] >= Used(x)' /\ (refs'[x] > 0 => state'[x] # "NONE")
    BY <1>2, <1>7, <1>8, <1>9 DEF ThreadsInv, CountsHold, Hit
  <2> QED
    BY <1>1, <1>2, <1>4, <1>5, <1>8, <2>1 DEF ThreadsInv, CountsHold
<1>11. FreesHold'
  <2> SUFFICES ASSUME NEW w \in Threads PROVE Alone(w)'
    BY DEF FreesHold
  <2>1. \A v \in Threads : Alone(v) /\ (release[v] = None \/ release[v] \in Releasing)
    BY DEF ThreadsInv, FreesHold, CountsHold
  <2>2. CASE w = currp
    <3>1. CASE next = "done"
      BY <1>5, <2>2, <3>1 DEF Alone
    <3>2. CASE next # "done"
      <4>1. refs[t] = 1 /\ refs'[t] = 0 /\ state'[t] # "NONE"
        BY <1>2, <1>3, <1>4, <1>8, <3>2 DEF ThreadsInv, CountsHold
      <4>2. ASSUME NEW v \in Threads \ {w}, t \in Dynamic, release'[v] # None, release'[v].tp = t
            PROVE  FALSE
        <5>1. release[v] # None /\ release[v].tp = t /\ release[v] \in Releasing
          BY <1>5, <2>1, <2>2, <4>2
        <5>2. CASE release[v].pc = "lock"
          <6>1. release'[v] = LockOf(t)
            BY <1>4, <1>5, <2>2, <4>2, <5>1, <5>2, LockOfIs
          <6>2. Used(t)' > 0
            BY <1>4, <6>1, UsedIs
          <6>3. Used(t)' = Used(t) - 1 /\ 1 >= Used(t)
            BY <1>4, <1>9, <4>1 DEF Hit, ThreadsInv, CountsHold
          <6> QED
            BY <1>7, <6>2, <6>3
        <5>3. CASE release[v].pc # "lock"
          BY <2>1, <4>1, <4>2, <5>1, <5>3 DEF Alone
        <5> QED
          BY <5>2, <5>3
      <4>3. release'[currp].tp = t /\ release'[currp].pc = "test"
        BY <1>0, <1>1, <1>3, <3>2, GoesIs
      <4> QED
        BY <2>2, <4>1, <4>2, <4>3 DEF Alone
    <3> QED
      BY <3>1, <3>2
  <2>3. CASE w # currp
    <3>1. release'[w] = release[w] /\ Alone(w)
      BY <1>5, <2>1, <2>3
    <3>2. \A v \in Threads : release'[v] # None /\ v = currp => release'[v].tp = t
      BY <1>5
    <3>3. release[w] # None => release[w].tp \in Threads
      BY <2>1 DEF Releasing
    <3>4. \A v \in Threads : v # currp => release'[v] = release[v]
      BY <1>5
    <3> QED
      BY <1>2, <1>7, <1>8, <3>1, <3>2, <3>3, <3>4 DEF Alone
  <2> QED
    BY <2>2, <2>3
<1> QED
  BY <1>1, <1>2, <1>8, <1>10, <1>11, KernelUnmoved, JoinsQuiet, LinksQuiet DEF ThreadsInv

\* The memory of t goes when nothing refers to it any more.
LEMMA ReleaseFreeKeeps ==
  ASSUME ThreadsAssumption, ThreadsInv, ReleaseFree
  PROVE  ThreadsInv'
<1> DEFINE t == release[currp].tp
<1>1. /\ InRelease("free") /\ Goes("done")
      /\ UNCHANGED <<currp, prio, pu, vt, slept, isr, waiting, join, term, refs, walk, halted>>
      /\ UNCHANGED links
      /\ state' = [state EXCEPT ![t] = "NONE"]
  BY DEF ReleaseFree, life
<1>2. /\ currp \in Threads /\ t \in Threads /\ ~slept[currp] /\ Alone(currp)
      /\ release[currp] # None /\ release[currp].pc = "free"
  BY <1>1, InCall
<1> HIDE DEF t
<1>3. t \in Dynamic /\ state[t] = "FINAL" /\ refs[t] = 0
      /\ \A v \in Threads \ {currp} : release[v] = None \/ release[v].tp # t
  BY <1>2 DEF Alone, t
<1>4. state \in [Threads -> States]
  BY DEF ThreadsInv, KernelHolds
<1>5. /\ state' \in [Threads -> States]
      /\ \A x \in Threads : state'[x] = IF x = t THEN "NONE" ELSE state[x]
  BY <1>1, <1>2, <1>4 DEF States
<1>6. KernelHolds'
  BY <1>1, <1>3, <1>5 DEF ThreadsInv, KernelHolds, CoreAssumption, Dead
<1>7. \A x \in Threads : join[x] # t
  <2>1. 0 >= Used(t) /\ Used(t) \in Nat
    BY <1>2, <1>3, UsedIs DEF ThreadsInv, CountsHold
  <2> QED
    BY <1>2, <2>1, UsedIs
<1>8. JoinsHold'
  <2>1. \A x \in Threads : join[x] = None \/ join[x] \in Threads
    BY DEF ThreadsInv, JoinsHold
  <2>2. NoJoinerForgotten'
    BY <1>1, <1>3, <1>5, <1>7, <2>1 DEF ThreadsInv, JoinsHold, NoJoinerForgotten, Dead
  <2>3. JoinSeesExitCode'
    BY <1>1, <1>3, <1>5, <1>7, <2>1 DEF ThreadsInv, JoinsHold, JoinSeesExitCode
  <2>4. \A x \in Threads : state'[x] = "WTEXIT" => join'[x] # None
    BY <1>1, <1>5 DEF ThreadsInv, JoinsHold
  <2> QED
    BY <1>1, <2>2, <2>3, <2>4 DEF ThreadsInv, JoinsHold
<1>9. CountsHold'
  <2>1. \A x \in Threads : refs[x] > 0 => state'[x] # "NONE"
    BY <1>3, <1>5 DEF ThreadsInv, CountsHold
  <2> QED
    BY <1>1, <2>1, CountsGo
<1>10. FreesHold'
  <2> SUFFICES ASSUME NEW w \in Threads PROVE Alone(w)'
    BY DEF FreesHold
  <2>1. /\ Alone(w) /\ (release[w] = None \/ release[w].tp \in Threads)
    BY DEF ThreadsInv, FreesHold, CountsHold, Releasing
  <2>2. /\ \A x \in Threads \ {currp} : release'[x] = release[x]
        /\ release'[currp] = None
    BY <1>1, GoesIs
  <2>3. CASE w = currp
    BY <2>2, <2>3 DEF Alone
  <2>4. CASE w # currp
    <3>1. release'[w] = release[w] /\ (release[w] = None \/ release[w].tp # t)
      BY <1>3, <2>2, <2>4
    <3>2. \A v \in Threads : release'[v] = None \/ release'[v] = release[v]
      BY <2>2
    <3> QED
      BY <1>1, <1>5, <2>1, <3>1, <3>2 DEF Alone
  <2> QED
    BY <2>3, <2>4
<1>11. LinksHold'
  BY <1>1, <1>3 DEF ThreadsInv, LinksHold, links
<1> QED
  BY <1>1, <1>6, <1>8, <1>9, <1>10, <1>11 DEF ThreadsInv

-----------------------------------------------------------------------------
(***************************************************************************)
(* The registry's ring.                                                    *)
(***************************************************************************)
Places == Threads \cup {RList}

LEMMA RingInsert ==
  ASSUME NEW nw \in [Places -> Places], NEW od \in [Places -> Places],
         NEW A \in SUBSET Places, Ring(nw, od, A), NEW t \in Places, t \notin A,
         NEW nw2, nw2 = [nw EXCEPT ![t] = RList, ![od[RList]] = t],
         NEW od2, od2 = [od EXCEPT ![t] = od[RList], ![RList] = t]
  PROVE  /\ Ring(nw2, od2, A \cup {t})
         /\ \A x \in Places : nw2[x] \in {RList, t} \/ nw2[x] = nw[x]
<1> DEFINE o == od[RList]
<1>0. nw2 = [nw EXCEPT ![t] = RList, ![o] = t] /\ od2 = [od EXCEPT ![t] = o, ![RList] = t]
  OBVIOUS
<1>1. /\ RList \in A /\ RList \in Places /\ o \in A /\ o \in Places /\ nw[o] = RList
      /\ t # RList /\ t # o
  BY DEF Ring, Places
<1> HIDE DEF o
<1>2. /\ nw2 \in [Places -> Places] /\ od2 \in [Places -> Places]
      /\ \A x \in Places : nw2[x] = IF x = o THEN t ELSE IF x = t THEN RList ELSE nw[x]
      /\ \A x \in Places : od2[x] = IF x = RList THEN t ELSE IF x = t THEN o ELSE od[x]
  BY <1>0, <1>1
<1>3. \A x \in A : nw[x] \in A /\ od[x] \in A /\ od[nw[x]] = x /\ nw[od[x]] = x /\ x \in Places
  BY DEF Ring
<1>4. ASSUME NEW x \in A \cup {t}
      PROVE  /\ nw2[x] \in A \cup {t} /\ od2[x] \in A \cup {t}
             /\ od2[nw2[x]] = x /\ nw2[od2[x]] = x
  <2>1. CASE x = t
    BY <1>1, <1>2, <2>1
  <2>2. CASE x # t /\ x # o
    <3>1. nw2[x] = nw[x] /\ nw[x] # RList
      BY <1>1, <1>2, <1>3, <2>2 DEF o
    <3>2. od2[nw2[x]] = x
      BY <1>1, <1>2, <1>3, <2>2, <3>1
    <3>3. od2[x] \in A \cup {t} /\ nw2[od2[x]] = x
      <4>1. CASE x = RList
        BY <1>1, <1>2, <4>1
      <4>2. CASE x # RList
        <5>1. od2[x] = od[x] /\ od[x] # o
          BY <1>1, <1>2, <1>3, <2>2, <4>2
        <5> QED
          BY <1>1, <1>2, <1>3, <2>2, <5>1
      <4> QED
        BY <4>1, <4>2
    <3> QED
      BY <1>3, <2>2, <3>1, <3>2, <3>3
  <2>3. CASE x = o
    <3>1. nw2[x] = t /\ od2[t] = o
      BY <1>1, <1>2, <2>3
    <3>2. od2[x] \in A \cup {t} /\ nw2[od2[x]] = x
      <4>1. CASE x = RList
        BY <1>1, <1>2, <4>1
      <4>2. CASE x # RList
        <5>1. od2[x] = od[x] /\ od[x] # o
          BY <1>1, <1>2, <1>3, <2>3, <4>2
        <5> QED
          BY <1>1, <1>2, <1>3, <2>3, <5>1
      <4> QED
        BY <4>1, <4>2
    <3> QED
      BY <2>3, <3>1, <3>2
  <2> QED
    BY <2>1, <2>2, <2>3
<1>5. ASSUME NEW B \in SUBSET (A \cup {t}), RList \in B, \A x \in B : nw2[x] \in B
      PROVE  B = A \cup {t}
  <2> DEFINE C == B \ {t}
  <2>1. RList \in C /\ C \in SUBSET A
    BY <1>1, <1>5
  <2>2. ASSUME NEW x \in C PROVE nw[x] \in C
    <3>1. CASE x = o
      BY <1>1, <2>1, <3>1
    <3>2. CASE x # o
      <4>1. nw2[x] = nw[x] /\ nw[x] # t
        BY <1>2, <1>3, <2>1, <3>2
      <4> QED
        BY <1>5, <4>1
    <3> QED
      BY <3>1, <3>2
  <2>3. C = A
    BY <2>1, <2>2 DEF Ring
  <2>4. t \in B
    BY <1>1, <1>2, <1>5, <2>3
  <2> QED
    BY <2>3, <2>4
<1>6. Ring(nw2, od2, A \cup {t})
  BY <1>1, <1>4, <1>5 DEF Ring
<1> QED
  BY <1>2, <1>6

LEMMA RingUnlink ==
  ASSUME NEW nw \in [Places -> Places], NEW od \in [Places -> Places],
         NEW A \in SUBSET Places, Ring(nw, od, A), NEW t \in A, t # RList,
         NEW nw2, nw2 = [nw EXCEPT ![od[t]] = nw[t]],
         NEW od2, od2 = [od EXCEPT ![nw[t]] = od[t]]
  PROVE  /\ Ring(nw2, od2, A \ {t})
         /\ \A x \in Places : nw2[x] = nw[t] \/ nw2[x] = nw[x]
<1> DEFINE o == od[t]
           n == nw[t]
<1>0. nw2 = [nw EXCEPT ![o] = n] /\ od2 = [od EXCEPT ![n] = o]
  OBVIOUS
<1>1. \A x \in A : nw[x] \in A /\ od[x] \in A /\ od[nw[x]] = x /\ nw[od[x]] = x /\ x \in Places
  BY DEF Ring
<1>2. o \in A /\ n \in A /\ nw[o] = t /\ od[n] = t /\ RList \in A
  BY <1>1 DEF Ring
<1>3. o # t /\ n # t
  <2>1. SUFFICES ASSUME nw[t] = t PROVE FALSE
    BY <1>2
  <2> DEFINE C == A \ {t}
  <2>2. RList \in C /\ C \in SUBSET A /\ C # A
    BY <1>2
  <2>3. \A x \in C : nw[x] \in C
    BY <1>1, <2>1
  <2> QED
    BY <2>2, <2>3 DEF Ring
<1> HIDE DEF o, n
<1>4. /\ nw2 \in [Places -> Places] /\ od2 \in [Places -> Places]
      /\ \A x \in Places : nw2[x] = IF x = o THEN n ELSE nw[x]
      /\ \A x \in Places : od2[x] = IF x = n THEN o ELSE od[x]
  BY <1>0, <1>1, <1>2
<1>5. ASSUME NEW x \in A \ {t}
      PROVE  /\ nw2[x] \in A \ {t} /\ od2[x] \in A \ {t}
             /\ od2[nw2[x]] = x /\ nw2[od2[x]] = x
  <2>1. /\ nw[x] \in A /\ od[x] \in A /\ x \in Places /\ od[nw[x]] = x /\ nw[od[x]] = x
        /\ nw[x] \in Places /\ od[x] \in Places /\ n \in Places /\ o \in Places
    BY <1>1, <1>2
  <2>2. nw2[x] \in A \ {t} /\ od2[nw2[x]] = x
    <3>1. CASE x = o
      BY <1>2, <1>3, <1>4, <2>1, <3>1
    <3>2. CASE x # o
      <4>1. nw2[x] = nw[x] /\ nw[x] # t
        BY <1>4, <2>1, <3>2 DEF o
      <4>2. nw[x] # n
        BY <1>1, <2>1, <1>2
      <4> QED
        BY <1>4, <2>1, <4>1, <4>2
    <3> QED
      BY <3>1, <3>2
  <2>3. od2[x] \in A \ {t} /\ nw2[od2[x]] = x
    <3>1. CASE x = n
      BY <1>2, <1>3, <1>4, <2>1, <3>1
    <3>2. CASE x # n
      <4>1. od2[x] = od[x] /\ od[x] # t
        BY <1>4, <2>1, <3>2 DEF n
      <4>2. od[x] # o
        BY <1>1, <2>1, <1>2
      <4> QED
        BY <1>4, <2>1, <4>1, <4>2
    <3> QED
      BY <3>1, <3>2
  <2> QED
    BY <2>2, <2>3
<1>6. ASSUME NEW B \in SUBSET (A \ {t}), RList \in B, \A x \in B : nw2[x] \in B
      PROVE  B = A \ {t}
  <2> DEFINE C == B \cup (IF o \in B THEN {t} ELSE {})
  <2>1. RList \in C /\ C \in SUBSET A
    BY <1>6
  <2>2. ASSUME NEW x \in C PROVE nw[x] \in C
    <3>0. x \in Places /\ x \in A
      BY <1>1, <2>1
    <3>1. CASE x = o
      BY <1>2, <1>3, <2>2, <3>1
    <3>2. CASE x = t
      <4>1. o \in B
        BY <1>6, <2>2, <3>2
      <4>2. nw2[o] = n /\ nw[t] = n
        BY <1>1, <1>2, <1>4 DEF n
      <4> QED
        BY <1>6, <3>2, <4>1, <4>2
    <3>3. CASE x # o /\ x # t
      <4>1. x \in B /\ nw2[x] = nw[x]
        BY <1>4, <2>2, <3>0, <3>3
      <4> QED
        BY <1>6, <4>1
    <3> QED
      BY <3>1, <3>2, <3>3
  <2>3. C = A
    <3> HIDE DEF C
    <3> QED
      BY <2>1, <2>2 DEF Ring
  <2> QED
    BY <1>6, <2>3
<1>7. Ring(nw2, od2, A \ {t})
  BY <1>2, <1>5, <1>6 DEF Ring
<1> QED
  BY <1>4, <1>7 DEF n

\* The ring is never empty of threads.
LEMMA FirstInRing ==
  ASSUME CoreAssumption, ThreadsAssumption, KernelHolds, LinksHold, Dynamic = {}
  PROVE  newer[RList] \in Threads /\ state[newer[RList]] \notin Dead
<1>1. Ring(newer, older, Nodes)
  BY DEF LinksHold
<1>2. newer[RList] \in Nodes
  BY <1>1 DEF Ring
<1>3. newer[RList] # RList
  <2>1. SUFFICES ASSUME newer[RList] = RList PROVE FALSE
    OBVIOUS
  <2> DEFINE B == {RList}
  <2>4. RList \in B /\ B \in SUBSET Nodes /\ \A x \in B : newer[x] \in B
    BY <2>1 DEF Nodes
  <2> HIDE DEF B
  <2>2. B = Nodes
    BY <1>1, <2>4 DEF Ring
  <2>3. Idle \in Nodes /\ Idle # RList
    BY DEF Nodes, KernelHolds, CoreAssumption, ThreadsAssumption
  <2> QED
    BY <2>2, <2>3 DEF B
<1> QED
  BY <1>2, <1>3 DEF Nodes

-----------------------------------------------------------------------------
\* A walker takes its reference, and trades it for the next thread's.

LEMMA WalkRefs ==
  ASSUME ThreadsInv, NEW n \in Threads, state[n] # "NONE",
         refs' = [refs EXCEPT ![n] = @ + 1], UNCHANGED state
  PROVE  /\ refs' \in [Threads -> Nat]
         /\ \A x \in Threads : /\ refs'[x] = refs[x] + Hit(n, x)
                               /\ refs'[x] > 0 => state'[x] # "NONE"
<1>1. refs \in [Threads -> Nat] /\ \A x \in Threads : refs[x] > 0 => state[x] # "NONE"
  BY DEF ThreadsInv, CountsHold
<1>2. refs' \in [Threads -> Nat]
  BY <1>1
<1>3. \A x \in Threads : refs'[x] = IF x = n THEN refs[x] + 1 ELSE refs[x]
  BY <1>1
<1> QED
  BY <1>1, <1>2, <1>3 DEF Hit

LEMMA FirstThreadKeeps ==
  ASSUME CoreAssumption, ThreadsAssumption, Discipline, ThreadsInv, FirstThread
  PROVE  ThreadsInv'
<1>1. PICK n : n = newer[RList]
  OBVIOUS
<1>2. /\ UNCHANGED core /\ UNCHANGED links /\ halted' = halted
      /\ UNCHANGED <<waiting, join, term, release>>
      /\ MayRun /\ currp \in Walkers /\ walk[currp] = None
      /\ walk' = [walk EXCEPT ![currp] = n]
      /\ refs' = [refs EXCEPT ![n] = @ + 1]
  BY <1>1 DEF FirstThread
<1>3. Dynamic = {}
  BY <1>2 DEF Discipline
<1>4. n \in Threads /\ state[n] \notin Dead
  BY <1>1, <1>3, FirstInRing DEF ThreadsInv
<1>5. Quiet /\ UNCHANGED <<slept, state>> /\ currp \in Threads
  BY <1>2, Unmoved, Caller
<1>6. /\ refs' \in [Threads -> Nat]
      /\ \A x \in Threads : refs'[x] = refs[x] + Hit(n, x) /\ (refs'[x] > 0 => state'[x] # "NONE")
  BY <1>2, <1>4, <1>5, WalkRefs DEF Dead
<1>7. /\ walk' \in [Threads -> Threads \cup {None}]
      /\ \A x \in Threads : walk'[x] = IF x = currp THEN n ELSE walk[x]
  BY <1>2, <1>4 DEF ThreadsInv, CountsHold
<1>8. CountsHold'
  <2>1. ASSUME NEW x \in Threads PROVE refs'[x] >= Used(x)'
    <3>1. Used(x)' = Used(x)
             - Hit(join[currp], x) - Hit(release[currp], LockOf(x)) - Hit(walk[currp], x)
             + Hit(join'[currp], x) + Hit(release'[currp], LockOf(x)) + Hit(walk'[currp], x)
      BY <1>2, <1>5, <1>7, UsedMoves
    <3>2. Hit(walk[currp], x) = 0 /\ Hit(walk'[currp], x) = Hit(n, x)
      BY <1>2, <1>5, <1>7 DEF Hit, ThreadsAssumption
    <3>3. refs[x] \in Nat /\ Used(x) \in Nat /\ refs[x] >= Used(x)
      BY UsedIs DEF ThreadsInv, CountsHold
    <3> QED
      BY <1>2, <1>6, <3>1, <3>2, <3>3 DEF Hit
  <2> QED
    BY <1>2, <1>5, <1>6, <1>7, <2>1 DEF ThreadsInv, CountsHold
<1>9. FreesHold'
  BY <1>2, <1>3, <1>5 DEF ThreadsInv, FreesHold, Alone, CountsHold, Releasing
<1> QED
  BY <1>2, <1>5, <1>8, <1>9, KernelUnmoved, JoinsQuiet, LinksQuiet DEF ThreadsInv

LEMMA NextThreadKeeps ==
  ASSUME CoreAssumption, ThreadsAssumption, Discipline, ThreadsInv, NextThread
  PROVE  ThreadsInv'
<1>1. PICK t : t = walk[currp]
  OBVIOUS
<1>2. PICK n : n = newer[t]
  OBVIOUS
<1>3. /\ UNCHANGED core /\ UNCHANGED links /\ halted' = halted
      /\ UNCHANGED <<waiting, join, term>>
      /\ MayRun /\ t # None
      /\ walk' = [walk EXCEPT ![currp] = IF n = RList THEN None ELSE n]
      /\ refs' = IF n = RList THEN refs ELSE [refs EXCEPT ![n] = @ + 1]
      /\ release' = [release EXCEPT ![currp] = LockOf(t)]
  BY <1>1, <1>2 DEF NextThread, Releases, LockOf
<1>4. /\ Quiet /\ UNCHANGED <<slept, state>>
      /\ currp \in Threads /\ ~slept[currp] /\ release[currp] = None
  BY <1>3, Unmoved, Caller
<1>5. t \in Threads /\ currp \in Walkers
  BY <1>1, <1>3, <1>4 DEF ThreadsInv, CountsHold
<1>6. Dynamic = {}
  BY <1>5 DEF Discipline
<1>7. refs[t] > 0 /\ state[t] # "NONE"
  <2>1. Used(t) > 0 /\ Used(t) \in Nat
    BY <1>1, <1>4, <1>5, UsedIs
  <2>2. refs[t] \in Nat /\ refs[t] >= Used(t)
    BY <1>5 DEF ThreadsInv, CountsHold
  <2>3. refs[t] > 0
    BY <2>1, <2>2
  <2> QED
    BY <1>5, <2>3 DEF ThreadsInv, CountsHold
<1>8. n # RList => n \in Threads /\ state[n] # "NONE"
  BY <1>2, <1>5, <1>6, <1>7 DEF ThreadsInv, LinksHold
<1> DEFINE gain(x) == IF n = RList THEN 0 ELSE Hit(n, x)
<1>9. /\ refs' \in [Threads -> Nat]
      /\ \A x \in Threads : refs'[x] = refs[x] + gain(x) /\ (refs'[x] > 0 => state'[x] # "NONE")
  <2>1. CASE n = RList
    BY <1>3, <1>4, <2>1 DEF ThreadsInv, CountsHold
  <2>2. CASE n # RList
    BY <1>3, <1>4, <1>8, <2>2, WalkRefs
  <2> QED
    BY <2>1, <2>2
<1>10. /\ walk' \in [Threads -> Threads \cup {None}]
       /\ \A x \in Threads :
            walk'[x] = IF x = currp THEN (IF n = RList THEN None ELSE n) ELSE walk[x]
  BY <1>3, <1>4, <1>8 DEF ThreadsInv, CountsHold
<1>11. /\ release' \in [Threads -> {None} \cup Releasing]
       /\ \A x \in Threads : release'[x] = IF x = currp THEN LockOf(t) ELSE release[x]
  <2>1. LockOf(t) \in Releasing
    BY <1>5, LockOfIs
  <2> QED
    BY <1>3, <1>4, <2>1 DEF ThreadsInv, CountsHold
<1>12. CountsHold'
  <2>1. ASSUME NEW x \in Threads PROVE refs'[x] >= Used(x)'
    <3>1. Used(x)' = Used(x)
             - Hit(join[currp], x) - Hit(release[currp], LockOf(x)) - Hit(walk[currp], x)
             + Hit(join'[currp], x) + Hit(release'[currp], LockOf(x)) + Hit(walk'[currp], x)
      BY <1>3, <1>4, <1>10, <1>11, UsedMoves
    <3>2. Hit(walk[currp], x) = Hit(t, x) /\ Hit(walk'[currp], x) = gain(x)
      BY <1>1, <1>4, <1>10 DEF Hit, ThreadsAssumption
    <3>3. Hit(release[currp], LockOf(x)) = 0 /\ Hit(release'[currp], LockOf(x)) = Hit(t, x)
      BY <1>4, <1>5, <1>11, LockOfIs DEF Hit
    <3>4. refs[x] \in Nat /\ Used(x) \in Nat /\ refs[x] >= Used(x)
      BY UsedIs DEF ThreadsInv, CountsHold
    <3>5. gain(x) \in {0, 1} /\ Hit(t, x) \in {0, 1} /\ Hit(join[currp], x) \in {0, 1}
      BY DEF Hit
    <3> HIDE DEF gain
    <3> QED
      BY <1>3, <1>9, <3>1, <3>2, <3>3, <3>4, <3>5
  <2> QED
    BY <1>3, <1>4, <1>5, <1>9, <1>10, <1>11, <2>1 DEF ThreadsInv, CountsHold
<1>13. FreesHold'
  <2>1. release' = [release EXCEPT ![currp] = LockOf(t)]
    BY <1>3
  <2>2. CountsHold /\ FreesHold /\ \A x \in Dynamic : refs'[x] = refs[x]
    BY <1>6 DEF ThreadsInv
  <2> QED
    BY <1>4, <1>5, <1>7, <2>1, <2>2, FreesEnter
<1> QED
  BY <1>3, <1>4, <1>12, <1>13, KernelUnmoved, JoinsQuiet, LinksQuiet DEF ThreadsInv

-----------------------------------------------------------------------------
(***************************************************************************)
(* Creation: the memory of t is free, so nothing refers to it.             *)
(***************************************************************************)

LEMMA FreeArea ==
  ASSUME ThreadsAssumption, ThreadsInv, NEW t \in Threads, AreaFree(t)
  PROVE  /\ state[t] \in Dead /\ Used(t) = 0 /\ ~slept[t] /\ vt[t] = "off"
         /\ \A x \in Threads : join[x] # t
         /\ waiting[t] = <<>> \/ ToSet(waiting[t]) = {}
         /\ \A w \in Threads : release[w] # None /\ release[w].pc # "lock" /\ release[w].tp = t
                                 => t \notin Dynamic
<1>1. state[t] \in Dead /\ (state[t] = "NONE" \/ (t \notin Dynamic /\ Used(t) = 0))
  BY DEF AreaFree, Dead
<1>2. refs[t] \in Nat /\ Used(t) \in Nat /\ refs[t] >= Used(t) /\ (refs[t] > 0 => state[t] # "NONE")
  BY UsedIs DEF ThreadsInv, CountsHold
<1>3. Used(t) = 0
  BY <1>1, <1>2
<1>4. \A x \in Threads : join[x] # t
  BY <1>3, UsedIs
<1>5. ~slept[t] /\ vt[t] = "off"
  BY <1>1 DEF ThreadsInv, KernelHolds, Dead
<1>6. ToSet(waiting[t]) = {}
  <2>1. ToSet(waiting[t]) \subseteq Threads
    BY DEF ThreadsInv, JoinsHold, ToSet
  <2>2. \A w \in Threads : w \notin ToSet(waiting[t])
    BY <1>4 DEF ThreadsInv, JoinsHold, NoJoinerForgotten
  <2> QED
    BY <2>1, <2>2
<1>7. ASSUME NEW w \in Threads, release[w] # None, release[w].pc # "lock", release[w].tp = t,
             t \in Dynamic
      PROVE  FALSE
  <2>1. Alone(w)
    BY DEF ThreadsInv, FreesHold
  <2> QED
    BY <1>1, <1>7, <2>1 DEF Alone
<1> QED
  BY <1>1, <1>3, <1>4, <1>5, <1>6, <1>7

\* What _thread_init leaves behind, whatever state the thread is created in.
LEMMA InitKeeps ==
  ASSUME CoreAssumption, ThreadsAssumption, ThreadsInv, NEW t \in Workers,
         AreaFree(t), ThreadInit(t), UNCHANGED <<slept, release, walk, halted>>,
         \A x \in Threads \ {t} :
           \A d \in {"NONE", "FINAL", "WTEXIT"} : state'[x] = d <=> state[x] = d,
         state'[t] \notin {"NONE", "FINAL", "WTEXIT"},
         \A x \in Threads \ {t} : pu'[x] = pu[x],
         KernelHolds'
  PROVE  ThreadsInv'
<1>0. t \in Threads
  BY DEF Workers, Users
<1>1. /\ state[t] \in Dead /\ Used(t) = 0 /\ ~slept[t]
      /\ \A x \in Threads : join[x] # t
      /\ \A w \in Threads : release[w] # None /\ release[w].pc # "lock" /\ release[w].tp = t
                                 => t \notin Dynamic
  BY <1>0, FreeArea
<1>2. /\ waiting' = [waiting EXCEPT ![t] = <<>>]
      /\ term' = [term EXCEPT ![t] = FALSE]
      /\ refs' = [refs EXCEPT ![t] = 1]
      /\ join' = join
      /\ Insert(t)
  BY DEF ThreadInit
<1>3. JoinsHold'
  <2>1. \A x \in Threads : join[x] = None \/ join[x] \in Threads
    BY DEF ThreadsInv, JoinsHold
  <2>2. /\ waiting' \in [Threads -> Seq(Threads)]
        /\ \A x \in Threads : waiting'[x] = IF x = t THEN <<>> ELSE waiting[x]
    BY <1>0, <1>2 DEF ThreadsInv, JoinsHold
  <2>3. ToSet(<<>>) = {}
    BY DEF ToSet
  <2>4. \A x \in Threads : state'[x] = "WTEXIT" <=> state[x] = "WTEXIT"
    BY <1>1 DEF Dead
  <2>5. NoJoinerForgotten'
    <3>1. ASSUME NEW w \in Threads, NEW x \in Threads
          PROVE  w \in ToSet(waiting'[x]) <=> (state'[w] = "WTEXIT" /\ join'[w] = x)
      <4>1. CASE x = t
        BY <1>1, <1>2, <2>2, <2>3, <4>1
      <4>2. CASE x # t
        BY <1>2, <2>2, <2>4, <4>2 DEF ThreadsInv, JoinsHold, NoJoinerForgotten
      <4> QED
        BY <4>1, <4>2
    <3>2. ASSUME NEW w \in Threads, state'[w] = "WTEXIT" PROVE state'[join'[w]] \notin Dead
      <4>1. state[w] = "WTEXIT" /\ join[w] \in Threads \ {t} /\ state[join[w]] \notin Dead
        BY <1>1, <2>1, <2>4, <3>2 DEF ThreadsInv, JoinsHold, NoJoinerForgotten
      <4> QED
        BY <1>2, <4>1 DEF Dead
    <3> QED
      BY <3>1, <3>2 DEF NoJoinerForgotten
  <2>6. JoinSeesExitCode'
    BY <1>1, <1>2, <2>1, <2>4 DEF ThreadsInv, JoinsHold, JoinSeesExitCode
  <2> QED
    BY <1>2, <2>2, <2>4, <2>5, <2>6 DEF ThreadsInv, JoinsHold
<1>4. CountsHold'
  <2>1. \A x \in Threads : Used(x)' = Used(x)
    BY <1>2 DEF Used
  <2>2. /\ refs' \in [Threads -> Nat]
        /\ \A x \in Threads : refs'[x] = IF x = t THEN 1 ELSE refs[x]
    BY <1>0, <1>2 DEF ThreadsInv, CountsHold
  <2>3. term' \in [Threads -> BOOLEAN]
    BY <1>2 DEF ThreadsInv, CountsHold
  <2>4. \A x \in Threads : refs'[x] >= Used(x)' /\ (refs'[x] > 0 => state'[x] # "NONE")
    BY <1>1, <2>1, <2>2 DEF ThreadsInv, CountsHold
  <2> QED
    BY <2>2, <2>3, <2>4 DEF ThreadsInv, CountsHold
<1>5. FreesHold'
  <2> SUFFICES ASSUME NEW w \in Threads PROVE Alone(w)'
    BY DEF FreesHold
  <2>1. Alone(w) /\ (release[w] = None \/ release[w].tp \in Threads)
    BY DEF ThreadsInv, FreesHold, CountsHold, Releasing
  <2>2. \A x \in Threads : x # t => refs'[x] = refs[x]
    BY <1>0, <1>2 DEF ThreadsInv, CountsHold
  <2> QED
    BY <1>1, <2>1, <2>2 DEF Alone
<1>6. LinksHold'
  <2>1. newer \in [Places -> Places] /\ older \in [Places -> Places] /\ RList \in Places /\ t \in Places
    BY <1>0 DEF ThreadsInv, LinksHold, Places
  <2>2. /\ newer' = [newer EXCEPT ![t] = RList, ![older[RList]] = t]
        /\ older' = [older EXCEPT ![t] = older[RList], ![RList] = t]
    BY <1>2 DEF Insert
  <2>3. newer' \in [Places -> Places] /\ older' \in [Places -> Places]
    BY <2>1, <2>2
  <2>4. ASSUME Dynamic = {}
        PROVE  /\ Ring(newer', older', Nodes')
               /\ \A x \in Threads : state'[x] # "NONE" /\ newer'[x] # RList => state'[newer'[x]] # "NONE"
    <3>1. Ring(newer, older, Nodes)
      BY <2>4 DEF ThreadsInv, LinksHold
    <3>2. t \notin Nodes /\ Nodes \in SUBSET Places
      BY <1>0, <1>1 DEF Nodes, Places, ThreadsAssumption
    <3>3. /\ Ring(newer', older', Nodes \cup {t})
          /\ \A x \in Places : newer'[x] \in {RList, t} \/ newer'[x] = newer[x]
      BY <2>1, <2>2, <3>1, <3>2, RingInsert
    <3>4. Nodes' = Nodes \cup {t}
      BY <1>0 DEF Nodes, Dead
    <3>5. ASSUME NEW x \in Threads, state'[x] # "NONE", newer'[x] # RList
          PROVE  state'[newer'[x]] # "NONE"
      <4>1. newer'[x] = t \/ newer'[x] = newer[x]
        BY <3>3, <3>5 DEF Places
      <4>2. CASE newer'[x] = t
        BY <4>2
      <4>3. CASE newer'[x] # t
        <5>1. newer[x] \in Threads \ {t} /\ newer'[x] = newer[x]
          BY <2>1, <3>5, <4>1, <4>3 DEF Places
        <5>2. CASE x = t
          BY <2>1, <2>2, <3>5, <4>3, <5>2
        <5>3. CASE x # t
          BY <2>4, <3>5, <5>1, <5>3 DEF ThreadsInv, LinksHold
        <5> QED
          BY <5>2, <5>3
      <4> QED
        BY <4>2, <4>3
    <3> QED
      BY <3>3, <3>4, <3>5
  <2> QED
    BY <2>3, <2>4 DEF LinksHold, Places
<1> QED
  BY <1>3, <1>4, <1>5, <1>6 DEF ThreadsInv

LEMMA CreateKeeps ==
  ASSUME CoreAssumption, ThreadsAssumption, ThreadsInv, NEW t \in Workers, Create(t)
  PROVE  ThreadsInv'
<1>0. t \in Threads /\ t # Idle
  BY DEF Workers, Users
<1>1. /\ MayRun /\ AreaFree(t) /\ ThreadInit(t)
      /\ state' = [state EXCEPT ![t] = "WTSTART"]
      /\ UNCHANGED <<currp, prio, pu, vt, slept, isr, release, walk, halted>>
  BY DEF Create
<1>2. state[t] \in Dead /\ ~slept[t] /\ vt[t] = "off"
  BY <1>0, <1>1, FreeArea
<1>3. /\ state' \in [Threads -> States]
      /\ \A x \in Threads : state'[x] = IF x = t THEN "WTSTART" ELSE state[x]
  BY <1>0, <1>1 DEF ThreadsInv, KernelHolds, States
<1>4. KernelHolds'
  BY <1>0, <1>1, <1>2, <1>3 DEF ThreadsInv, KernelHolds, CoreAssumption, Dead
<1> QED
  BY <1>0, <1>1, <1>3, <1>4, InitKeeps

LEMMA CreateAndRunKeeps ==
  ASSUME CoreAssumption, ThreadsAssumption, ThreadsInv, NEW t \in Workers, CreateAndRun(t)
  PROVE  ThreadsInv'
<1>0. t \in Threads /\ t # Idle
  BY DEF Workers, Users
<1>1. /\ MayRun /\ AreaFree(t) /\ ThreadInit(t)
      /\ pu' = [pu EXCEPT ![t] = MSG_OK]
      /\ WakeupS(state, prio, t)
      /\ UNCHANGED <<prio, vt, slept, isr, release, walk, halted>>
  BY DEF CreateAndRun
<1>2. state[t] \in Dead /\ ~slept[t] /\ vt[t] = "off"
  BY <1>0, <1>1, FreeArea
<1>3. state[currp] = "CURRENT" /\ currp # t /\ ~isr /\ currp \in Threads /\ ~slept[currp] /\ vt[currp] = "off"
  BY <1>1, <1>2, Caller DEF Dead
<1>4. OneCurrent(state, currp)
  BY DEF ThreadsInv, KernelHolds, OneCurrent
<1>5. /\ OneCurrent(state', currp')
      /\ currp' \in {currp, t}
      /\ state'[t] \in {"READY", "CURRENT"}
      /\ state'[currp] \in {"READY", "CURRENT"}
      /\ \A x \in Threads : x # t /\ x # currp => state'[x] = state[x]
  BY <1>0, <1>1, <1>3, <1>4, WakeupIs
<1>6. pu' \in [Threads -> Msgs \cup ExitCodes] /\ \A x \in Threads \ {t} : pu'[x] = pu[x]
  BY <1>0, <1>1 DEF ThreadsInv, KernelHolds, Msgs
<1>7. KernelHolds'
  BY <1>0, <1>1, <1>2, <1>3, <1>5, <1>6 DEF ThreadsInv, KernelHolds, OneCurrent, CoreAssumption, Dead
<1>8. \A x \in Threads \ {t} :
        \A d \in {"NONE", "FINAL", "WTEXIT"} : state'[x] = d <=> state[x] = d
  BY <1>3, <1>5
<1> QED
  BY <1>1, <1>5, <1>6, <1>7, <1>8, InitKeeps

-----------------------------------------------------------------------------
(***************************************************************************)
(* chThdExitS: every thread that waits for the one that leaves is readied. *)
(***************************************************************************)
LEMMA ExitKeeps ==
  ASSUME CoreAssumption, ThreadsAssumption, ThreadsInv, NEW code \in ExitCodes, Exit(code)
  PROVE  ThreadsInv'
<1> DEFINE s == ReadyI(state, Leavers(currp))
<1>1. PICK c : c = currp
  OBVIOUS
<1>2. /\ MayRun
      /\ pu' = [pu EXCEPT ![c] = code]
      /\ waiting' = [waiting EXCEPT ![c] = <<>>]
      /\ c \notin Dynamic => Unlink(c)
      /\ c \in Dynamic => UNCHANGED links
      /\ UNCHANGED <<prio, vt, slept, isr, join, term, refs, release, walk, halted>>
  BY <1>1 DEF Exit
<1>3. PICK t \in Highest(s, prio) : SwitchTo(s, t, "FINAL")
  BY DEF Exit
<1>4. /\ c \in Threads /\ state[c] = "CURRENT" /\ c # Idle /\ ~slept[c] /\ ~isr
      /\ join[c] = None /\ vt[c] = "off"
  BY <1>1, <1>2, Caller
<1> DEFINE L == ToSet(waiting[c])
<1>5. \A x \in Threads : x \in L <=> state[x] = "WTEXIT" /\ join[x] = c
  BY <1>4 DEF ThreadsInv, JoinsHold, NoJoinerForgotten
<1>6. /\ s \in [Threads -> States]
      /\ \A x \in Threads : s[x] = IF x \in L THEN "READY" ELSE state[x]
  BY <1>1, ReadyIs DEF Leavers, ThreadsInv, KernelHolds
<1> HIDE DEF s, L
<1>7. OneCurrent(s, currp)
  BY <1>1, <1>4, <1>5, <1>6 DEF OneCurrent, ThreadsInv, KernelHolds
<1>8. t \in Threads /\ t # c /\ s[t] = "READY" /\ "FINAL" \in States
  BY <1>1, <1>3, <1>7, HighestIsReady DEF States
<1>9. /\ OneCurrent(state', currp')
      /\ \A x \in Threads :
           state'[x] = IF x = t THEN "CURRENT" ELSE IF x = c THEN "FINAL"
                       ELSE IF x \in L THEN "READY" ELSE state[x]
  BY <1>1, <1>3, <1>6, <1>7, <1>8, Switched
<1>10. state[t] = "READY" \/ (t \in L /\ state[t] = "WTEXIT")
  BY <1>5, <1>6, <1>8
<1>11. currp' = t
  BY <1>3 DEF SwitchTo
<1>12. /\ pu' \in [Threads -> Msgs \cup ExitCodes]
       /\ \A x \in Threads : pu'[x] = IF x = c THEN code ELSE pu[x]
  BY <1>2, <1>4 DEF ThreadsInv, KernelHolds
<1>13. KernelHolds'
  BY <1>2, <1>4, <1>5, <1>8, <1>9, <1>10, <1>12 DEF ThreadsInv, KernelHolds, OneCurrent, CoreAssumption, Dead
<1>14. JoinsHold'
  <2>1. \A x \in Threads : join[x] = None \/ join[x] \in Threads
    BY DEF ThreadsInv, JoinsHold
  <2>2. /\ waiting' \in [Threads -> Seq(Threads)]
        /\ \A x \in Threads : waiting'[x] = IF x = c THEN <<>> ELSE waiting[x]
    BY <1>2, <1>4 DEF ThreadsInv, JoinsHold
  <2>3. ToSet(<<>>) = {}
    BY DEF ToSet
  <2>4. \A x \in Threads : state'[x] = "WTEXIT" <=> (state[x] = "WTEXIT" /\ x \notin L)
    BY <1>4, <1>9, <1>10
  <2>5. \A x \in Threads : state'[x] \in Dead <=> (x = c \/ state[x] \in Dead)
    BY <1>4, <1>5, <1>8, <1>9, <1>10 DEF Dead
  <2>6. NoJoinerForgotten'
    <3>1. ASSUME NEW w \in Threads, NEW x \in Threads
          PROVE  w \in ToSet(waiting'[x]) <=> (state'[w] = "WTEXIT" /\ join'[w] = x)
      <4>1. CASE x = c
        BY <1>2, <1>5, <2>2, <2>3, <2>4, <4>1
      <4>2. CASE x # c
        BY <1>2, <1>5, <2>2, <2>4, <4>2 DEF ThreadsInv, JoinsHold, NoJoinerForgotten
      <4> QED
        BY <4>1, <4>2
    <3>2. ASSUME NEW w \in Threads, state'[w] = "WTEXIT" PROVE state'[join'[w]] \notin Dead
      <4>1. state[w] = "WTEXIT" /\ join[w] \in Threads /\ join[w] # c /\ state[join[w]] \notin Dead
        BY <1>5, <2>1, <2>4, <3>2 DEF ThreadsInv, JoinsHold, NoJoinerForgotten
      <4>2. state'[join[w]] \notin Dead
        BY <2>5, <4>1
      <4> QED
        BY <1>2, <4>2 DEF Dead
    <3> QED
      BY <3>1, <3>2 DEF NoJoinerForgotten
  <2>7. JoinSeesExitCode'
    <3> SUFFICES ASSUME NEW w \in Threads, join[w] # None, state'[w] # "WTEXIT"
                 PROVE  state'[join[w]] = "FINAL" /\ pu'[join[w]] \in ExitCodes
      BY <1>2 DEF JoinSeesExitCode
    <3>1. CASE w \in L
      BY <1>4, <1>5, <1>8, <1>9, <1>12, <3>1
    <3>2. CASE w \notin L
      <4>1. state[w] # "WTEXIT" /\ join[w] \in Threads
        BY <2>1, <2>4, <3>2
      <4>2. state[join[w]] = "FINAL" /\ pu[join[w]] \in ExitCodes
        BY <4>1 DEF ThreadsInv, JoinsHold, JoinSeesExitCode
      <4> QED
        BY <1>4, <1>5, <1>9, <1>10, <1>12, <4>1, <4>2
    <3> QED
      BY <3>1, <3>2
  <2> QED
    BY <1>2, <2>2, <2>4, <2>6, <2>7 DEF ThreadsInv, JoinsHold
<1>15. \A x \in Threads :
         /\ state'[x] = "NONE" <=> state[x] = "NONE"
         /\ state[x] = "FINAL" => state'[x] = "FINAL"
  BY <1>4, <1>5, <1>8, <1>9, <1>10
<1>16. CountsHold'
  <2>1. \A x \in Threads : Used(x)' = Used(x)
    BY <1>2 DEF Used
  <2> QED
    BY <1>2, <1>15, <2>1 DEF ThreadsInv, CountsHold
<1>17. FreesHold'
  <2> SUFFICES ASSUME NEW w \in Threads PROVE Alone(w)'
    BY DEF FreesHold
  <2>1. Alone(w) /\ (release[w] = None \/ release[w].tp \in Threads)
    BY DEF ThreadsInv, FreesHold, CountsHold, Releasing
  <2> QED
    BY <1>2, <1>15, <2>1 DEF Alone
<1>18. LinksHold'
  <2>1. newer \in [Places -> Places] /\ older \in [Places -> Places] /\ c \in Places
    BY <1>4 DEF ThreadsInv, LinksHold, Places
  <2>2. newer' \in [Places -> Places] /\ older' \in [Places -> Places]
    BY <1>2, <2>1 DEF Unlink, links
  <2>3. ASSUME Dynamic = {}
        PROVE  /\ Ring(newer', older', Nodes')
               /\ \A x \in Threads : state'[x] # "NONE" /\ newer'[x] # RList => state'[newer'[x]] # "NONE"
    <3>1. Ring(newer, older, Nodes)
      BY <2>3 DEF ThreadsInv, LinksHold
    <3>2. c \in Nodes /\ c # RList /\ Nodes \in SUBSET Places
      BY <1>4 DEF Nodes, Places, Dead, ThreadsAssumption
    <3>3. /\ newer' = [newer EXCEPT ![older[c]] = newer[c]]
          /\ older' = [older EXCEPT ![newer[c]] = older[c]]
      BY <1>2, <2>3 DEF Unlink
    <3>4. /\ Ring(newer', older', Nodes \ {c})
          /\ \A x \in Places : newer'[x] = newer[c] \/ newer'[x] = newer[x]
      BY <2>1, <3>1, <3>2, <3>3, RingUnlink
    <3>5. Nodes' = Nodes \ {c}
      <4>1. \A x \in Threads : state'[x] \notin Dead <=> (state[x] \notin Dead /\ x # c)
        BY <1>4, <1>5, <1>8, <1>9, <1>10 DEF Dead
      <4>2. Dead' = Dead
        BY DEF Dead
      <4>3. \A x \in Threads : (state[x] \notin Dead)' <=> (state[x] \notin Dead /\ x # c)
        BY <4>1, <4>2
      <4> QED
        BY <3>2, <4>3 DEF Nodes
    <3>6. ASSUME NEW x \in Threads, state'[x] # "NONE", newer'[x] # RList
          PROVE  state'[newer'[x]] # "NONE"
      <4>1. PICK y \in Threads : newer'[x] = newer[y] /\ state[y] # "NONE"
        BY <1>4, <1>15, <3>4, <3>6 DEF Places
      <4>2. newer[y] \in Threads /\ state[newer[y]] # "NONE"
        BY <2>1, <2>3, <3>6, <4>1 DEF ThreadsInv, LinksHold, Places
      <4> QED
        BY <1>15, <4>1, <4>2
    <3> QED
      BY <3>4, <3>5, <3>6
  <2> QED
    BY <2>2, <2>3 DEF LinksHold, Places
<1> QED
  BY <1>2, <1>13, <1>14, <1>16, <1>17, <1>18 DEF ThreadsInv

-----------------------------------------------------------------------------
(***************************************************************************)
(* chThdWait: the reference it will release is held from its sleep on.     *)
(***************************************************************************)
LEMMA WaitEnters ==
  ASSUME ThreadsAssumption, ThreadsInv, NEW t \in Threads, Wait(t), state[t] = "FINAL"
  PROVE  ThreadsInv'
<1>1. Release(t)
  BY DEF Wait, Release, life
<1> QED
  BY <1>1, ReleaseKeeps

LEMMA AddFirst ==
  ASSUME NEW S, NEW q \in Seq(S), NEW c \in S
  PROVE  /\ <<c>> \o q \in Seq(S)
         /\ ToSet(<<c>> \o q) = {c} \cup ToSet(q)
<1> DEFINE r == <<c>> \o q
           n == Len(q)
<1>1. /\ r \in Seq(S) /\ n \in Nat /\ DOMAIN r = 1..n+1 /\ DOMAIN q = 1..n
      /\ r[1] = c
      /\ \A i \in 1..n : r[i + 1] = q[i]
  OBVIOUS
<1> HIDE DEF r, n
<1>2. ASSUME NEW x \in ToSet(r) PROVE x \in {c} \cup ToSet(q)
  <2>1. PICK i \in 1..n+1 : x = r[i]
    BY <1>1 DEF ToSet
  <2>2. CASE i = 1
    BY <1>1, <2>1, <2>2
  <2>3. CASE i # 1
    <3>1. PICK j \in 1..n : i = j + 1
      <4>1. i - 1 \in 1..n /\ i = (i - 1) + 1
        BY <1>1, <2>3
      <4> QED
        BY <4>1
    <3>2. x = q[j]
      BY <1>1, <2>1, <3>1
    <3> QED
      BY <1>1, <3>2 DEF ToSet
  <2> QED
    BY <2>2, <2>3
<1>3. c \in ToSet(r)
  <2>1. 1 \in 1..n+1
    BY <1>1
  <2> QED
    BY <1>1, <2>1 DEF ToSet
<1>4. ASSUME NEW x \in ToSet(q) PROVE x \in ToSet(r)
  <2>1. PICK i \in 1..n : x = q[i]
    BY <1>1 DEF ToSet
  <2>2. i + 1 \in 1..n+1 /\ r[i + 1] = x
    BY <1>1, <2>1
  <2> QED
    BY <1>1, <2>2 DEF ToSet
<1> QED
  BY <1>1, <1>2, <1>3, <1>4 DEF r

LEMMA WaitSleeps ==
  ASSUME CoreAssumption, ThreadsAssumption, ThreadsInv, NEW t \in Threads, Wait(t),
         state[t] # "FINAL"
  PROVE  ThreadsInv'
<1>1. PICK c : c = currp
  OBVIOUS
<1>2. /\ MayRun /\ t # c /\ state[t] \notin Dead /\ refs[t] > Used(t)
      /\ waiting' = [waiting EXCEPT ![t] = <<c>> \o waiting[t]]
      /\ join' = [join EXCEPT ![c] = t]
      /\ GoSleepTimeoutS(state, prio, "WTEXIT", "INFINITE")
      /\ UNCHANGED <<prio, pu, isr, release, term, refs, walk, halted>> /\ UNCHANGED links
  BY <1>1 DEF Wait, Dead, Held
<1>3. PICK n \in Highest(state, prio) : SwitchTo(state, n, "WTEXIT")
  BY <1>2 DEF GoSleepTimeoutS
<1>4. /\ c \in Threads /\ state[c] = "CURRENT" /\ c # Idle /\ ~slept[c] /\ ~isr
      /\ join[c] = None /\ vt[c] = "off" /\ release[c] = None
  BY <1>1, <1>2, Caller
<1>5. OneCurrent(state, currp)
  BY DEF ThreadsInv, KernelHolds, OneCurrent
<1>6. n \in Threads /\ n # c /\ state[n] = "READY" /\ "WTEXIT" \in States
  BY <1>1, <1>5, HighestIsReady DEF States
<1>7. /\ OneCurrent(state', currp') /\ currp' = n
      /\ \A x \in Threads :
           state'[x] = IF x = n THEN "CURRENT" ELSE IF x = c THEN "WTEXIT" ELSE state[x]
  BY <1>1, <1>3, <1>5, <1>6, Switched
<1>8. /\ slept' = [slept EXCEPT ![c] = TRUE]
      /\ vt' = [vt EXCEPT ![c] = "off"]
  BY <1>1, <1>2 DEF GoSleepTimeoutS
<1>9. /\ slept' \in [Threads -> BOOLEAN]
      /\ \A x \in Threads : slept'[x] <=> (x = c \/ slept[x])
      /\ vt' = vt
  BY <1>4, <1>8 DEF ThreadsInv, KernelHolds
<1>10. KernelHolds'
  BY <1>2, <1>4, <1>6, <1>7, <1>9 DEF ThreadsInv, KernelHolds, OneCurrent, Dead
<1>11. /\ join' \in [Threads -> Threads \cup {None}]
       /\ \A x \in Threads : join'[x] = IF x = c THEN t ELSE join[x]
  BY <1>2, <1>4 DEF ThreadsInv, JoinsHold
<1>12. JoinsHold'
  <2>1. \A x \in Threads : join[x] = None \/ join[x] \in Threads
    BY DEF ThreadsInv, JoinsHold
  <2>2. /\ waiting' \in [Threads -> Seq(Threads)]
        /\ \A x \in Threads : ToSet(waiting'[x]) = IF x = t THEN {c} \cup ToSet(waiting[x]) ELSE ToSet(waiting[x])
    <3>1. waiting \in [Threads -> Seq(Threads)]
      BY DEF ThreadsInv, JoinsHold
    <3>2. /\ <<c>> \o waiting[t] \in Seq(Threads)
          /\ ToSet(<<c>> \o waiting[t]) = {c} \cup ToSet(waiting[t])
      BY <1>4, <3>1, AddFirst
    <3> DEFINE r == <<c>> \o waiting[t]
    <3> HIDE DEF r
    <3>3. waiting' = [waiting EXCEPT ![t] = r] /\ r \in Seq(Threads)
          /\ ToSet(r) = {c} \cup ToSet(waiting[t])
      BY <1>2, <3>2 DEF r
    <3> QED
      BY <3>1, <3>3
  <2>3. \A x \in Threads : state'[x] = "WTEXIT" <=> (x = c \/ state[x] = "WTEXIT")
    BY <1>4, <1>6, <1>7
  <2>4. \A x \in Threads : state'[x] \in Dead <=> state[x] \in Dead
    BY <1>4, <1>6, <1>7 DEF Dead
  <2>5. NoJoinerForgotten'
    <3>1. ASSUME NEW w \in Threads, NEW x \in Threads
          PROVE  w \in ToSet(waiting'[x]) <=> (state'[w] = "WTEXIT" /\ join'[w] = x)
      <4>1. w \in ToSet(waiting[x]) <=> (state[w] = "WTEXIT" /\ join[w] = x)
        BY DEF ThreadsInv, JoinsHold, NoJoinerForgotten
      <4> QED
        BY <1>4, <1>11, <2>2, <2>3, <4>1
    <3>2. ASSUME NEW w \in Threads, state'[w] = "WTEXIT" PROVE state'[join'[w]] \notin Dead
      <4>1. CASE w = c
        BY <1>2, <1>11, <2>4, <4>1 DEF Dead
      <4>2. CASE w # c
        <5>1. join'[w] = join[w] /\ join[w] \in Threads /\ state[join[w]] \notin Dead
          BY <1>11, <2>1, <2>3, <3>2, <4>2 DEF ThreadsInv, JoinsHold, NoJoinerForgotten
        <5> QED
          BY <2>4, <5>1 DEF Dead
      <4> QED
        BY <4>1, <4>2
    <3> QED
      BY <3>1, <3>2 DEF NoJoinerForgotten
  <2>6. JoinSeesExitCode'
    <3> SUFFICES ASSUME NEW w \in Threads, join'[w] # None, state'[w] # "WTEXIT"
                 PROVE  state'[join'[w]] = "FINAL" /\ pu'[join'[w]] \in ExitCodes
      BY DEF JoinSeesExitCode
    <3>1. w # c /\ state[w] # "WTEXIT" /\ join'[w] = join[w] /\ join[w] \in Threads
      BY <1>11, <2>1, <2>3
    <3>2. state[join[w]] = "FINAL" /\ pu[join[w]] \in ExitCodes
      BY <3>1 DEF ThreadsInv, JoinsHold, JoinSeesExitCode
    <3> QED
      BY <1>2, <1>4, <1>6, <1>7, <3>1, <3>2
  <2> QED
    BY <1>4, <1>9, <1>11, <2>2, <2>3, <2>5, <2>6, <1>2 DEF ThreadsInv, JoinsHold, ThreadsAssumption
<1>13. \A x \in Threads :
         /\ state'[x] = "NONE" <=> state[x] = "NONE"
         /\ state'[x] = "FINAL" <=> state[x] = "FINAL"
  BY <1>4, <1>6, <1>7
<1>14. CountsHold'
  <2>1. ASSUME NEW x \in Threads PROVE refs'[x] >= Used(x)'
    <3>1. Used(x)' = Used(x)
             - Hit(join[c], x) - Hit(release[c], LockOf(x)) - Hit(walk[c], x)
             + Hit(join'[c], x) + Hit(release'[c], LockOf(x)) + Hit(walk'[c], x)
      BY <1>2, <1>4, <1>11, UsedMoves
    <3>2. Hit(join[c], x) = 0 /\ Hit(join'[c], x) = Hit(t, x)
      BY <1>4, <1>11 DEF Hit, ThreadsAssumption
    <3>3. /\ refs[x] \in Nat /\ Used(x) \in Nat /\ refs[x] >= Used(x)
          /\ refs[t] \in Nat /\ Used(t) \in Nat
      BY UsedIs DEF ThreadsInv, CountsHold
    <3> QED
      BY <1>2, <3>1, <3>2, <3>3 DEF Hit
  <2> QED
    BY <1>2, <1>4, <1>9, <1>13, <2>1 DEF ThreadsInv, CountsHold
<1>15. FreesHold'
  <2> SUFFICES ASSUME NEW w \in Threads PROVE Alone(w)'
    BY DEF FreesHold
  <2>1. Alone(w) /\ (release[w] = None \/ release[w].tp \in Threads)
    BY DEF ThreadsInv, FreesHold, CountsHold, Releasing
  <2> QED
    BY <1>2, <1>13, <2>1 DEF Alone
<1>16. LinksHold'
  <2>1. Nodes' = Nodes
    BY <1>13 DEF Nodes, Dead
  <2>2. newer' = newer /\ older' = older
    BY <1>2 DEF links
  <2>3. \A x \in Threads : newer[x] # RList => newer[x] \in Threads
    BY DEF ThreadsInv, LinksHold
  <2> QED
    BY <1>13, <2>1, <2>2, <2>3 DEF ThreadsInv, LinksHold
<1> QED
  BY <1>2, <1>10, <1>12, <1>14, <1>15, <1>16 DEF ThreadsInv

LEMMA EndCallKeeps ==
  ASSUME CoreAssumption, ThreadsAssumption, ThreadsInv, EndCall
  PROVE  ThreadsInv'
<1>1. PICK c, t : c = currp /\ t = join[currp]
  OBVIOUS
<1>2. /\ ~isr /\ slept[c]
      /\ slept' = [slept EXCEPT ![c] = FALSE]
      /\ vt' = [vt EXCEPT ![c] = "off"]
      /\ join' = [join EXCEPT ![c] = None]
      /\ t = None => release' = release
      /\ t # None => release' = [release EXCEPT ![c] = LockOf(t)]
      /\ UNCHANGED <<currp, state, prio, pu, isr, waiting, term, refs, walk, halted>>
      /\ UNCHANGED links
  BY <1>1 DEF EndCall, Resuming, EndSleep, Releases, LockOf
<1>3. c \in Threads /\ state[c] = "CURRENT" /\ release[c] = None
      /\ (t = None \/ t \in Threads)
  BY <1>1, <1>2 DEF ThreadsInv, KernelHolds, CountsHold, JoinsHold
<1>4. /\ slept' \in [Threads -> BOOLEAN]
      /\ \A x \in Threads : slept'[x] <=> (x # c /\ slept[x])
      /\ vt' \in [Threads -> {"off", "armed", "firing"}]
      /\ \A x \in Threads : vt'[x] = IF x = c THEN "off" ELSE vt[x]
  BY <1>2, <1>3 DEF ThreadsInv, KernelHolds
<1>5. KernelHolds'
  BY <1>1, <1>2, <1>3, <1>4 DEF ThreadsInv, KernelHolds, Dead
<1>6. Quiet
  BY <1>2 DEF Quiet
<1>7. /\ join' \in [Threads -> Threads \cup {None}]
      /\ \A x \in Threads : join'[x] = IF x = c THEN None ELSE join[x]
  BY <1>2, <1>3 DEF ThreadsInv, JoinsHold
<1>8. JoinsHold'
  <2>1. \A x \in Threads : join[x] = None \/ join[x] \in Threads
    BY DEF ThreadsInv, JoinsHold
  <2>2. NoJoinerForgotten'
    BY <1>2, <1>3, <1>7, <2>1 DEF ThreadsInv, JoinsHold, NoJoinerForgotten, Dead
  <2>3. JoinSeesExitCode'
    BY <1>2, <1>3, <1>7, <2>1 DEF ThreadsInv, JoinsHold, JoinSeesExitCode
  <2> QED
    BY <1>2, <1>3, <1>4, <1>7, <2>2, <2>3 DEF ThreadsInv, JoinsHold
<1>9. /\ release' \in [Threads -> {None} \cup Releasing]
      /\ \A x \in Threads : release'[x] = IF x = c /\ t # None THEN LockOf(t) ELSE release[x]
  <2>1. CASE t = None
    BY <1>2, <2>1 DEF ThreadsInv, CountsHold
  <2>2. CASE t # None
    <3>1. LockOf(t) \in Releasing
      BY <1>3, <2>2, LockOfIs
    <3> QED
      BY <1>2, <1>3, <2>2, <3>1 DEF ThreadsInv, CountsHold
  <2> QED
    BY <2>1, <2>2
<1>10. CountsHold'
  <2>1. ASSUME NEW x \in Threads PROVE refs'[x] >= Used(x)'
    <3>1. Used(x)' = Used(x)
             - Hit(join[c], x) - Hit(release[c], LockOf(x)) - Hit(walk[c], x)
             + Hit(join'[c], x) + Hit(release'[c], LockOf(x)) + Hit(walk'[c], x)
      BY <1>2, <1>3, <1>7, <1>9, UsedMoves
    <3>2. Hit(join[c], x) = Hit(t, x) /\ Hit(join'[c], x) = 0
      BY <1>1, <1>3, <1>7 DEF Hit, ThreadsAssumption
    <3>3. /\ Hit(release[c], LockOf(x)) = 0
          /\ Hit(release'[c], LockOf(x)) = Hit(t, x)
      BY <1>3, <1>9, LockOfIs DEF Hit, ThreadsAssumption
    <3>4. refs[x] \in Nat /\ Used(x) \in Nat /\ refs[x] >= Used(x)
      BY UsedIs DEF ThreadsInv, CountsHold
    <3> QED
      BY <1>2, <3>1, <3>2, <3>3, <3>4 DEF Hit
  <2> QED
    BY <1>2, <1>4, <1>9, <2>1 DEF ThreadsInv, CountsHold
<1>11. FreesHold'
  <2>1. CASE t = None
    BY <1>2, <1>6, <2>1, FreesQuiet DEF ThreadsInv
  <2>2. CASE t # None
    <3>1. t \in Threads /\ Used(t) > 0 /\ Used(t) \in Nat /\ refs[t] \in Nat /\ refs[t] >= Used(t)
      BY <1>1, <1>3, <2>2, UsedIs DEF ThreadsInv, CountsHold
    <3>2. refs[t] > 0
      BY <3>1
    <3>3. CountsHold /\ FreesHold /\ \A x \in Dynamic : refs'[x] = refs[x]
      BY <1>2 DEF ThreadsInv
    <3>4. release' = [release EXCEPT ![currp] = LockOf(t)] /\ release[currp] = None /\ currp \in Threads
      BY <1>1, <1>2, <1>3, <2>2
    <3> QED
      BY <1>6, <3>1, <3>2, <3>3, <3>4, FreesEnter
  <2> QED
    BY <2>1, <2>2
<1> QED
  BY <1>2, <1>5, <1>6, <1>8, <1>10, <1>11, LinksQuiet DEF ThreadsInv

-----------------------------------------------------------------------------
(***************************************************************************)
(* Steps of the kernel that touch no thread's life.                        *)
(***************************************************************************)
LEMMA KernelStepKeeps ==
  ASSUME ThreadsInv, Quiet, KernelHolds', UNCHANGED <<life, links, release, walk>>,
         halted' \in BOOLEAN,
         \A t \in Threads : slept[t] => slept'[t],
         \A t \in Threads : slept'[t] => slept[t] \/ release[t] = None
  PROVE  ThreadsInv'
<1>1. /\ UNCHANGED <<waiting, join>> /\ UNCHANGED links
      /\ UNCHANGED <<join, refs, release, walk>> /\ term' = term
  BY DEF life
<1>2. term' \in [Threads -> BOOLEAN]
  BY <1>1 DEF ThreadsInv, CountsHold
<1> QED
  BY <1>1, <1>2, JoinsQuiet, LinksQuiet, CountsQuiet, FreesQuiet DEF ThreadsInv

LEMMA StartIs ==
  ASSUME ThreadsInv, NEW t \in Threads, state[t] = "WTSTART", state' = ReadyI(state, {t}),
         UNCHANGED <<currp, prio, pu, vt, slept>>, isr' \in BOOLEAN, isr => isr',
         isr' => ~slept[currp]
  PROVE  Quiet /\ KernelHolds'
<1>1. /\ state' \in [Threads -> States]
      /\ \A x \in Threads : state'[x] = IF x = t THEN "READY" ELSE state[x]
  BY ReadyIs DEF ThreadsInv, KernelHolds
<1>2. Quiet
  BY <1>1 DEF Quiet
<1>3. KernelHolds'
  BY <1>1, CoreAssumption DEF ThreadsInv, KernelHolds, Dead, CoreAssumption
<1> QED
  BY <1>2, <1>3

LEMMA StartKeeps ==
  ASSUME ThreadsInv, NEW t \in Threads, Start(t)
  PROVE  ThreadsInv'
<1>1. /\ MayRun /\ state[t] = "WTSTART" /\ state' = ReadyI(state, {t})
      /\ UNCHANGED <<currp, prio, pu, vt, slept, isr>>
      /\ UNCHANGED <<life, links, release, walk>>
      /\ halted' \in BOOLEAN
  BY DEF Start
<1>2. isr' \in BOOLEAN /\ (isr => isr') /\ (isr' => ~slept[currp])
  BY <1>1 DEF ThreadsInv, KernelHolds
<1> QED
  BY <1>1, <1>2, StartIs, KernelStepKeeps

LEMMA IsrStartKeeps ==
  ASSUME ThreadsInv, NEW t \in Threads, IsrStartI(t)
  PROVE  ThreadsInv'
<1>1. /\ Interruptible /\ state[t] = "WTSTART" /\ state' = ReadyI(state, {t})
      /\ UNCHANGED <<currp, prio, pu, vt, slept>> /\ isr' = TRUE
      /\ UNCHANGED <<life, links, release, walk>> /\ halted' = halted
  BY DEF IsrStartI
<1>2. isr' \in BOOLEAN /\ (isr => isr') /\ (isr' => ~slept[currp]) /\ halted' \in BOOLEAN
  BY <1>1 DEF ThreadsInv, KernelHolds, Interruptible
<1> QED
  BY <1>1, <1>2, StartIs, KernelStepKeeps

LEMMA SleepKeeps ==
  ASSUME ThreadsInv, Sleep
  PROVE  ThreadsInv'
<1>1. PICK c : c = currp
  OBVIOUS
<1>2. /\ MayRun /\ GoSleepTimeoutS(state, prio, "SLEEPING", "FINITE")
      /\ UNCHANGED <<prio, pu, isr, halted>> /\ UNCHANGED <<life, links, release, walk>>
  BY DEF Sleep
<1>3. PICK n \in Highest(state, prio) : SwitchTo(state, n, "SLEEPING")
  BY <1>2 DEF GoSleepTimeoutS
<1>4. /\ c \in Threads /\ state[c] = "CURRENT" /\ c # Idle /\ ~slept[c] /\ ~isr
      /\ release[c] = None
  BY <1>1, <1>2, Caller
<1>5. OneCurrent(state, currp)
  BY DEF ThreadsInv, KernelHolds, OneCurrent
<1>6. n \in Threads /\ n # c /\ state[n] = "READY" /\ "SLEEPING" \in States
  BY <1>1, <1>5, HighestIsReady DEF States
<1>7. /\ OneCurrent(state', currp') /\ currp' = n
      /\ \A x \in Threads :
           state'[x] = IF x = n THEN "CURRENT" ELSE IF x = c THEN "SLEEPING" ELSE state[x]
  BY <1>1, <1>3, <1>5, <1>6, Switched
<1>8. /\ slept' = [slept EXCEPT ![c] = TRUE]
      /\ vt' = [vt EXCEPT ![c] = "armed"]
  BY <1>1, <1>2 DEF GoSleepTimeoutS
<1>9. /\ slept' \in [Threads -> BOOLEAN]
      /\ \A x \in Threads : slept'[x] <=> (x = c \/ slept[x])
      /\ vt' \in [Threads -> {"off", "armed", "firing"}]
      /\ \A x \in Threads : vt'[x] = IF x = c THEN "armed" ELSE vt[x]
  BY <1>4, <1>8 DEF ThreadsInv, KernelHolds
<1>10. KernelHolds'
  BY <1>2, <1>4, <1>6, <1>7, <1>9, CoreAssumption DEF ThreadsInv, KernelHolds, OneCurrent, Dead, CoreAssumption
<1>11. Quiet
  BY <1>2, <1>4, <1>6, <1>7 DEF Quiet
<1>12. halted' \in BOOLEAN
  BY <1>2 DEF ThreadsInv
<1> QED
  BY <1>2, <1>4, <1>9, <1>10, <1>11, <1>12, KernelStepKeeps

LEMMA YieldKeeps ==
  ASSUME ThreadsInv, Yield
  PROVE  ThreadsInv'
<1>1. PICK c : c = currp
  OBVIOUS
<1>2. /\ MayRun
      /\ UNCHANGED <<prio, pu, vt, slept, isr, halted>> /\ UNCHANGED <<life, links, release, walk>>
  BY DEF Yield
<1>3. PICK n \in Highest(state, prio) : SwitchTo(state, n, "READY")
  BY DEF Yield
<1>4. c \in Threads /\ state[c] = "CURRENT" /\ ~slept[c] /\ ~isr
  BY <1>1, <1>2, Caller
<1>5. OneCurrent(state, currp)
  BY DEF ThreadsInv, KernelHolds, OneCurrent
<1>6. n \in Threads /\ n # c /\ state[n] = "READY" /\ "READY" \in States
  BY <1>1, <1>5, HighestIsReady DEF States
<1>7. /\ OneCurrent(state', currp') /\ currp' = n
      /\ \A x \in Threads :
           state'[x] = IF x = n THEN "CURRENT" ELSE IF x = c THEN "READY" ELSE state[x]
  BY <1>1, <1>3, <1>5, <1>6, Switched
<1>8. KernelHolds'
  BY <1>2, <1>4, <1>6, <1>7, CoreAssumption DEF ThreadsInv, KernelHolds, OneCurrent, Dead, CoreAssumption
<1>9. Quiet
  BY <1>2, <1>4, <1>6, <1>7 DEF Quiet
<1>10. halted' \in BOOLEAN
  BY <1>2 DEF ThreadsInv
<1> QED
  BY <1>2, <1>8, <1>9, <1>10, KernelStepKeeps

LEMMA ExpireKeeps ==
  ASSUME ThreadsInv, NEW t \in Threads, Expire(t)
  PROVE  ThreadsInv'
<1>1. /\ Interruptible /\ vt[t] = "armed"
      /\ vt' = [vt EXCEPT ![t] = "firing"] /\ isr' = TRUE
      /\ UNCHANGED <<currp, state, prio, pu, slept, halted>>
      /\ UNCHANGED <<life, links, release, walk>>
  BY DEF Expire, TimerExpires
<1>2. /\ vt' \in [Threads -> {"off", "armed", "firing"}]
      /\ \A x \in Threads : vt'[x] = IF x = t THEN "firing" ELSE vt[x]
  BY <1>1 DEF ThreadsInv, KernelHolds
<1>3. KernelHolds'
  BY <1>1, <1>2, CoreAssumption DEF ThreadsInv, KernelHolds, Interruptible, Dead, CoreAssumption
<1>4. Quiet
  BY <1>1 DEF Quiet
<1>5. halted' \in BOOLEAN
  BY <1>1 DEF ThreadsInv
<1> QED
  BY <1>1, <1>3, <1>4, <1>5, KernelStepKeeps

LEMMA WakeupKeeps ==
  ASSUME ThreadsInv, NEW t \in Threads, Wakeup(t)
  PROVE  ThreadsInv'
<1>1. /\ vt[t] = "firing" /\ vt' = [vt EXCEPT ![t] = "off"]
      /\ UNCHANGED <<currp, prio, slept, isr, halted>>
      /\ UNCHANGED <<life, links, release, walk>>
  BY DEF Wakeup, TimerWakeup
<1>2. state[t] = "SLEEPING"
  BY <1>1 DEF ThreadsInv, KernelHolds
<1>3. state' = ReadyI(state, {t}) /\ pu' = Deliver(pu, {t}, MSG_TIMEOUT)
  BY <1>2 DEF Wakeup, TimerWakeup
<1>4. /\ state' \in [Threads -> States]
      /\ \A x \in Threads : state'[x] = IF x = t THEN "READY" ELSE state[x]
  BY <1>3, ReadyIs DEF ThreadsInv, KernelHolds
<1>5. /\ pu' \in [Threads -> Msgs \cup ExitCodes]
      /\ \A x \in Threads : x # t => pu'[x] = pu[x]
  BY <1>3 DEF Deliver, Msgs, ThreadsInv, KernelHolds
<1>6. /\ vt' \in [Threads -> {"off", "armed", "firing"}]
      /\ \A x \in Threads : vt'[x] = IF x = t THEN "off" ELSE vt[x]
  BY <1>1 DEF ThreadsInv, KernelHolds
<1>7. KernelHolds'
  BY <1>1, <1>2, <1>4, <1>5, <1>6, CoreAssumption DEF ThreadsInv, KernelHolds, Dead, CoreAssumption
<1>8. Quiet
  BY <1>2, <1>4, <1>5 DEF Quiet
<1>9. halted' \in BOOLEAN
  BY <1>1 DEF ThreadsInv
<1> QED
  BY <1>1, <1>7, <1>8, <1>9, KernelStepKeeps

LEMMA EndIsrKeeps ==
  ASSUME ThreadsInv, EndIsr
  PROVE  ThreadsInv'
<1>1. /\ isr /\ isr' = FALSE /\ RescheduleS(state, prio)
      /\ \A t \in Threads : vt[t] # "firing"
      /\ UNCHANGED <<prio, pu, vt, slept, halted>>
      /\ UNCHANGED <<life, links, release, walk>>
  BY DEF EndIsr, IsrExit
<1>2. OneCurrent(state, currp)
  BY DEF ThreadsInv, KernelHolds, OneCurrent
<1>3. /\ OneCurrent(state', currp')
      /\ \A x \in Threads : state'[x] = state[x] \/ {state[x], state'[x]} = {"READY", "CURRENT"}
  BY <1>1, <1>2, RescheduleIs
<1>4. \A x \in Threads : state'[x] = state[x]
        \/ (state[x] \in {"READY", "CURRENT"} /\ state'[x] \in {"READY", "CURRENT"})
  BY <1>3
<1>5. KernelHolds'
  <2>1. ASSUME NEW x \in Threads
        PROVE  /\ slept[x] => state'[x] \in {"READY", "CURRENT", "SLEEPING", "WTEXIT"}
               /\ state'[x] \in {"SLEEPING", "WTEXIT"} => slept[x]
               /\ vt[x] # "off" => state'[x] = "SLEEPING"
    BY <1>4 DEF ThreadsInv, KernelHolds
  <2>2. state'[Idle] \notin Dead
    BY <1>4, CoreAssumption DEF ThreadsInv, KernelHolds, Dead, CoreAssumption
  <2>3. Dead' = Dead
    BY DEF Dead
  <2> QED
    BY <1>1, <1>3, <2>1, <2>2, <2>3 DEF ThreadsInv, KernelHolds, OneCurrent
<1>6. Quiet
  BY <1>1, <1>4 DEF Quiet
<1>7. halted' \in BOOLEAN
  BY <1>1 DEF ThreadsInv
<1> QED
  BY <1>1, <1>5, <1>6, <1>7, KernelStepKeeps

-----------------------------------------------------------------------------
\* chSysInit leaves the ring of main() and the idle thread.
LEMMA InitHolds ==
  ASSUME CoreAssumption, ThreadsAssumption, Init
  PROVE  ThreadsInv
<1>1. Main \in Threads /\ Idle \in Threads /\ Main # Idle /\ RList # Main /\ RList # Idle
  BY DEF CoreAssumption, ThreadsAssumption, Users
<1>2. \A t \in Threads :
        /\ state[t] = IF t = Main THEN "CURRENT" ELSE IF t = Idle THEN "READY" ELSE "NONE"
        /\ join[t] = None /\ release[t] = None /\ walk[t] = None /\ ~slept[t] /\ vt[t] = "off"
        /\ waiting[t] = <<>> /\ refs[t] = IF t \in Workers THEN 0 ELSE 1
        /\ state[t] # "NONE" <=> t \notin Workers
  BY <1>1 DEF Init, Workers, Users
<1>3. KernelHolds
  <2>1. /\ currp = Main /\ state \in [Threads -> States] /\ prio = BasePrio
        /\ pu \in [Threads -> Msgs \cup ExitCodes]
        /\ vt \in [Threads -> {"off", "armed", "firing"}]
        /\ slept \in [Threads -> BOOLEAN]
        /\ isr = FALSE
    BY DEF Init, States, Msgs
  <2> QED
    BY <1>1, <1>2, <2>1 DEF KernelHolds, Dead
<1>4. JoinsHold
  <2>1. ToSet(<<>>) = {}
    BY DEF ToSet
  <2>2. NoJoinerForgotten
    BY <1>2, <2>1 DEF NoJoinerForgotten
  <2>3. JoinSeesExitCode
    BY <1>2 DEF JoinSeesExitCode
  <2>4. waiting \in [Threads -> Seq(Threads)] /\ join \in [Threads -> Threads \cup {None}]
    BY DEF Init
  <2> QED
    BY <1>2, <2>2, <2>3, <2>4 DEF JoinsHold
<1>5. CountsHold
  <2>1. ASSUME NEW t \in Threads PROVE Used(t) = 0
    <3>1. t # None
      BY DEF ThreadsAssumption
    <3>2. {w \in Threads : join[w] = t} = {} /\ {w \in Threads : walk[w] = t} = {}
      BY <1>2, <3>1
    <3>3. {w \in Threads : release[w] # None /\ release[w] = [tp |-> t, pc |-> "lock"]} = {}
      BY <1>2
    <3>4. Cardinality({}) = 0
      BY FS_EmptySet
    <3>5. Used(t) = Cardinality({}) + Cardinality({}) + Cardinality({})
      BY <3>2, <3>3, Zenon DEF Used
    <3> QED
      BY <3>4, <3>5
  <2>2. /\ term \in [Threads -> BOOLEAN] /\ refs \in [Threads -> Nat]
        /\ release \in [Threads -> {None} \cup Releasing]
        /\ walk \in [Threads -> Threads \cup {None}]
    BY DEF Init
  <2> QED
    BY <1>2, <2>1, <2>2 DEF CountsHold
<1>6. FreesHold
  BY <1>2 DEF FreesHold, Alone
<1>7. LinksHold
  <2>1. /\ newer \in [Threads \cup {RList} -> Threads \cup {RList}]
        /\ older \in [Threads \cup {RList} -> Threads \cup {RList}]
        /\ \A x \in Threads \cup {RList} :
             /\ newer[x] = IF x = RList THEN Main ELSE IF x = Main THEN Idle ELSE RList
             /\ older[x] = IF x = RList THEN Idle ELSE IF x = Idle THEN Main ELSE RList
    BY <1>1 DEF Init
  <2>2. Nodes = {Main, Idle, RList}
    BY <1>1, <1>2 DEF Nodes, Dead
  <2>3. Ring(newer, older, {Main, Idle, RList})
    <3>1. ASSUME NEW x \in {Main, Idle, RList}
          PROVE  /\ newer[x] \in {Main, Idle, RList} /\ older[x] \in {Main, Idle, RList}
                 /\ older[newer[x]] = x /\ newer[older[x]] = x
      BY <1>1, <2>1
    <3>2. ASSUME NEW B \in SUBSET {Main, Idle, RList}, RList \in B, \A x \in B : newer[x] \in B
          PROVE  B = {Main, Idle, RList}
      <4>1. newer[RList] = Main /\ newer[Main] = Idle
        BY <1>1, <2>1
      <4>2. Main \in B
        BY <3>2, <4>1
      <4>3. Idle \in B
        BY <3>2, <4>1, <4>2
      <4> QED
        BY <3>2, <4>2, <4>3
    <3> QED
      BY <3>1, <3>2 DEF Ring
  <2>4. \A x \in Threads : newer[x] # RList => state[newer[x]] # "NONE"
    BY <1>1, <1>2, <2>1
  <2> QED
    BY <2>1, <2>2, <2>3, <2>4 DEF LinksHold
<1>8. halted \in BOOLEAN
  BY DEF Init
<1> QED
  BY <1>3, <1>4, <1>5, <1>6, <1>7, <1>8 DEF ThreadsInv

LEMMA NextKeeps ==
  ASSUME CoreAssumption, ThreadsAssumption, Discipline, ThreadsInv, Next
  PROVE  ThreadsInv'
<1>1. ASSUME NEW t \in Workers, Create(t) \/ CreateStatic(t) \/ CreateDynamic(t) \/ Start(t) \/ IsrStartI(t)
      PROVE  ThreadsInv'
  <2>1. t \in Threads
    BY DEF Workers, Users
  <2>2. CASE Create(t)
    BY <2>2, CreateKeeps
  <2>3. CASE CreateStatic(t) \/ CreateDynamic(t)
    BY <2>3, CreateAndRunKeeps DEF CreateStatic, CreateDynamic
  <2>4. CASE Start(t)
    BY <2>1, <2>4, StartKeeps
  <2>5. CASE IsrStartI(t)
    BY <2>1, <2>5, IsrStartKeeps
  <2> QED
    BY <1>1, <2>2, <2>3, <2>4, <2>5
<1>2. ASSUME NEW t \in Workers, Terminate(t) \/ Wait(t) \/ AddRef(t) \/ Release(t)
      PROVE  ThreadsInv'
  <2>1. t \in Threads
    BY DEF Workers, Users
  <2>2. CASE Terminate(t)
    BY <2>1, <2>2, TerminateKeeps
  <2>3. CASE Wait(t)
    BY <2>1, <2>3, WaitEnters, WaitSleeps
  <2>4. CASE AddRef(t)
    BY <2>1, <2>4, AddRefKeeps
  <2>5. CASE Release(t)
    BY <2>1, <2>5, ReleaseKeeps
  <2> QED
    BY <1>2, <2>2, <2>3, <2>4, <2>5
<1>3. CASE LifeStep
  BY <1>1, <1>2, <1>3, ExitKeeps, FirstThreadKeeps, NextThreadKeeps DEF LifeStep
<1>4. CASE ReleaseStep
  BY <1>4, ReleaseLockedKeeps, ReleaseTestKeeps, ReleaseUnlinkKeeps, ReleaseRelinkKeeps,
     ReleaseFreeKeeps DEF ReleaseStep
<1>5. CASE KernelStep
  BY <1>5, SleepKeeps, YieldKeeps, EndCallKeeps, ExpireKeeps, WakeupKeeps, EndIsrKeeps DEF KernelStep
<1> QED
  BY <1>3, <1>4, <1>5 DEF Next

LEMMA StutterKeeps ==
  ASSUME CoreAssumption, ThreadsAssumption, ThreadsInv, UNCHANGED vars
  PROVE  ThreadsInv'
<1>1. /\ UNCHANGED core /\ UNCHANGED <<life, links, release, walk>> /\ halted' = halted
  BY DEF vars
<1>2. Quiet /\ KernelHolds' /\ slept' = slept
  BY <1>1, Unmoved, KernelUnmoved DEF ThreadsInv
<1>3. halted' \in BOOLEAN
  BY <1>1 DEF ThreadsInv
<1> QED
  BY <1>1, <1>2, <1>3, KernelStepKeeps

-----------------------------------------------------------------------------
\* The invariant holds for any number of static and dynamic threads, as long
\* as nobody walks a registry with dynamic threads in it.
THEOREM Invariance == Discipline => (Spec => []ThreadsInv)
<1> SUFFICES ASSUME Discipline PROVE Spec => []ThreadsInv
  OBVIOUS
<1>1. Init => ThreadsInv
  BY CoreAssumption, ThreadsAssumption, InitHolds
<1>2. ThreadsInv /\ [Next]_vars => ThreadsInv'
  BY CoreAssumption, ThreadsAssumption, NextKeeps, StutterKeeps
<1> QED
  BY <1>1, <1>2, PTL DEF Spec

\* Every variable keeps its type, the links of the registry included: a walk
\* from the header always finds a thread.
THEOREM TypeCorrect == Discipline => (Spec => []TypeOK)
<1> SUFFICES ASSUME Discipline PROVE Spec => []TypeOK
  OBVIOUS
<1>1. ThreadsInv => TypeOK
  BY DEF ThreadsInv, KernelHolds, JoinsHold, CountsHold, LinksHold, States, TypeOK
<1> QED
  BY <1>1, Invariance, PTL

\* No thread sleeps in chThdWait on a thread that has exited.
THEOREM JoinersAreWoken == Discipline => (Spec => []NoJoinerForgotten)
<1> SUFFICES ASSUME Discipline PROVE Spec => []NoJoinerForgotten
  OBVIOUS
<1>1. ThreadsInv => NoJoinerForgotten
  BY DEF ThreadsInv, JoinsHold
<1> QED
  BY <1>1, Invariance, PTL

\* chThdWait returns the argument of chThdExit: the memory it reads it from
\* is neither freed nor used again before.
THEOREM ExitCodesArrive == Discipline => (Spec => []JoinSeesExitCode)
<1> SUFFICES ASSUME Discipline PROVE Spec => []JoinSeesExitCode
  OBVIOUS
<1>1. ThreadsInv => JoinSeesExitCode
  BY DEF ThreadsInv, JoinsHold
<1> QED
  BY <1>1, Invariance, PTL

\* No release finds the count at zero or memory that is gone.
THEOREM CountsCover == Discipline => (Spec => []ReferencesCoverCalls)
<1> SUFFICES ASSUME Discipline PROVE Spec => []ReferencesCoverCalls
  OBVIOUS
<1>1. ThreadsInv => ReferencesCoverCalls
  <2> SUFFICES ASSUME ThreadsInv, NEW t \in Threads
               PROVE  refs[t] >= Used(t) /\ (Used(t) > 0 => state[t] # "NONE")
    BY DEF ReferencesCoverCalls
  <2>1. Used(t) \in Nat /\ refs[t] \in Nat /\ refs[t] >= Used(t) /\ (refs[t] > 0 => state[t] # "NONE")
    BY ThreadsAssumption, UsedIs DEF ThreadsInv, CountsHold
  <2> QED
    BY <2>1
<1> QED
  BY <1>1, Invariance, PTL

\* The memory of a dynamic thread is freed once, by the last who refers to it.
THEOREM MemoryIsFreedOnce == Discipline => (Spec => []FreedOnce)
<1> SUFFICES ASSUME Discipline PROVE Spec => []FreedOnce
  OBVIOUS
<1>1. ThreadsInv => FreedOnce
  <2> SUFFICES ASSUME ThreadsInv, NEW w \in Threads, release[w] # None,
                      release[w].pc \in {"unlink", "relink", "free"}
               PROVE  LET t == release[w].tp IN
                      /\ state[t] = "FINAL"
                      /\ refs[t] = 0
                      /\ \A v \in Threads \ {w} : release[v] = None \/ release[v].tp # t
                      /\ \A v \in Threads : join[v] # t
    BY DEF FreedOnce
  <2>1. Alone(w) /\ release[w].tp \in Threads
    BY DEF ThreadsInv, FreesHold, CountsHold, Releasing
  <2>2. PICK t \in Threads : t = release[w].tp
    BY <2>1
  <2>3. /\ state[t] = "FINAL" /\ refs[t] = 0
        /\ \A v \in Threads \ {w} : release[v] = None \/ release[v].tp # t
    BY <2>1, <2>2 DEF Alone
  <2>4. Used(t) = 0
    <3>1. Used(t) \in Nat /\ refs[t] >= Used(t)
      BY ThreadsAssumption, UsedIs DEF ThreadsInv, CountsHold
    <3> QED
      BY <2>3, <3>1
  <2>5. \A v \in Threads : join[v] # t
    BY <2>4, ThreadsAssumption, UsedIs
  <2> QED
    BY <2>2, <2>3, <2>5
<1> QED
  BY <1>1, Invariance, PTL

-----------------------------------------------------------------------------
(***************************************************************************)
(* A walk along p_newer meets every node of the ring.  at[n] is the place  *)
(* reached after n + 1 steps from the header.                              *)
(***************************************************************************)
Walk(nw, N, at) == at = [n \in 0..N |-> IF n = 0 THEN nw[RList] ELSE nw[at[n - 1]]]

\* Each prefix of the walk exists; the shortest that did not would extend one
\* that does.
LEMMA WalkExists ==
  ASSUME NEW nw \in [Places -> Places], NEW N \in Nat
  PROVE  \E at \in [0..N -> Places] : Walk(nw, N, at)
<1> DEFINE Missing(m) == \A at \in [0..m -> Places] : ~Walk(nw, m, at)
           T == {m \in Nat : Missing(m)}
<1> SUFFICES ASSUME Missing(N) PROVE FALSE
  OBVIOUS
<1>0. RList \in Places
  BY DEF Places
<1>1. PICK m \in T : \A l \in T : m <= l
  <2>1. T \in SUBSET Nat /\ N \in T
    OBVIOUS
  <2> HIDE DEF T
  <2> QED
    BY <2>1, Smallest
<1>2. m \in Nat /\ Missing(m) /\ \A l \in Nat : Missing(l) => m <= l
  BY <1>1
<1>3. m # 0
  <2>1. SUFFICES ASSUME m = 0 PROVE FALSE
    OBVIOUS
  <2> DEFINE f == [n \in 0..0 |-> nw[RList]]
  <2>2. f \in [0..0 -> Places]
    BY <1>0
  <2>3. Walk(nw, 0, f)
    BY DEF Walk
  <2> QED
    BY <1>2, <2>1, <2>2, <2>3
<1>4. m - 1 \in Nat /\ ~(m <= m - 1)
  BY <1>2, <1>3
<1>5. PICK f \in [0..(m - 1) -> Places] : Walk(nw, m - 1, f)
  BY <1>2, <1>4
<1> DEFINE g == [n \in 0..m |-> IF n = m THEN nw[f[m - 1]] ELSE f[n]]
<1>6. g \in [0..m -> Places]
  <2>1. ASSUME NEW n \in 0..m, n # m PROVE n \in 0..(m - 1)
    BY <1>2, <2>1
  <2>2. nw[f[m - 1]] \in Places
    BY <1>4
  <2>3. \A n \in 0..m : (IF n = m THEN nw[f[m - 1]] ELSE f[n]) \in Places
    BY <2>1, <2>2
  <2> QED
    BY <2>3
<1>7. \A n \in 0..m : g[n] = IF n = 0 THEN nw[RList] ELSE nw[g[n - 1]]
  <2> SUFFICES ASSUME NEW n \in 0..m PROVE g[n] = IF n = 0 THEN nw[RList] ELSE nw[g[n - 1]]
    OBVIOUS
  <2>1. \A k \in 0..(m - 1) : k \in 0..m /\ k # m /\ g[k] = f[k]
    BY <1>2, <1>4
  <2>2. \A k \in 0..(m - 1) : f[k] = IF k = 0 THEN nw[RList] ELSE nw[f[k - 1]]
    BY <1>5 DEF Walk
  <2>3. CASE n = m
    <3>1. n # 0 /\ n - 1 \in 0..(m - 1) /\ g[n] = nw[f[m - 1]] /\ n - 1 = m - 1
      BY <1>2, <1>3, <2>3
    <3> QED
      BY <2>1, <2>3, <3>1
  <2>4. CASE n # m
    <3>1. n \in 0..(m - 1)
      BY <1>2, <2>4
    <3>2. n # 0 => n - 1 \in 0..(m - 1)
      BY <1>2, <3>1
    <3> HIDE DEF g
    <3> QED
      BY <2>1, <2>2, <3>1, <3>2
  <2> QED
    BY <2>3, <2>4
<1>8. Walk(nw, m, g)
  <2>1. DOMAIN g = 0..m /\ g = [n \in 0..m |-> g[n]]
    BY <1>6
  <2> HIDE DEF g
  <2> QED
    BY <1>7, <2>1 DEF Walk
<1> QED
  BY <1>2, <1>6, <1>8

LEMMA WalkMeetsAll ==
  ASSUME NEW nw \in [Places -> Places], NEW od \in [Places -> Places],
         NEW A \in SUBSET Places, Ring(nw, od, A),
         NEW N \in Nat, IsFiniteSet(A), Cardinality(A) <= N + 1,
         NEW at, Walk(nw, N, at)
  PROVE  {at[n] : n \in 0..N} = A
<1>1. /\ RList \in A
      /\ \A x \in A : nw[x] \in A /\ od[nw[x]] = x
  BY DEF Ring
<1>2. /\ at[0] = nw[RList]
      /\ \A n \in 0..N : n # 0 => n - 1 \in 0..N /\ at[n] = nw[at[n - 1]]
  BY DEF Walk
<1>3. \A n \in 0..N : at[n] \in A
  <2> DEFINE T == {n \in 0..N : at[n] \notin A}
  <2> SUFFICES ASSUME T # {} PROVE FALSE
    OBVIOUS
  <2>1. PICK n \in T : \A k \in T : n <= k
    <3>1. T \in SUBSET Nat
      OBVIOUS
    <3> HIDE DEF T
    <3> QED
      BY <3>1, Smallest
  <2>2. n \in 0..N /\ at[n] \notin A /\ n # 0
    BY <1>1, <1>2
  <2>3. n - 1 \in 0..N /\ n - 1 \notin T
    BY <2>1, <2>2
  <2>4. at[n - 1] \in A
    BY <2>3
  <2> QED
    BY <1>1, <1>2, <2>2, <2>4
<1>4. CASE \E i, j \in 0..N : i < j /\ at[i] = at[j]
  <2> DEFINE T == {i \in 0..N : \E j \in 0..N : i < j /\ at[i] = at[j]}
  <2>1. PICK i \in T : \A k \in T : i <= k
    <3>1. T \in SUBSET Nat /\ T # {}
      BY <1>4
    <3> HIDE DEF T
    <3> QED
      BY <3>1, Smallest
  <2>2. PICK j \in 0..N : i \in 0..N /\ i < j /\ at[i] = at[j]
    BY <2>1
  <2>3. /\ j # 0 /\ j - 1 \in 0..N /\ at[j] = nw[at[j - 1]] /\ at[j - 1] \in A
        /\ od[at[j]] = at[j - 1]
    BY <1>1, <1>2, <1>3, <2>2
  <2>4. i = 0
    <3> SUFFICES ASSUME i # 0 PROVE FALSE
      OBVIOUS
    <3>1. /\ i - 1 \in 0..N /\ at[i] = nw[at[i - 1]] /\ at[i - 1] \in A
          /\ od[at[i]] = at[i - 1]
      BY <1>1, <1>2, <1>3, <2>2
    <3>2. at[i - 1] = at[j - 1] /\ i - 1 < j - 1
      BY <2>2, <2>3, <3>1
    <3>3. i - 1 \in T
      BY <2>3, <3>1, <3>2
    <3> QED
      BY <2>1, <2>2, <3>1, <3>3
  <2>5. at[j - 1] = RList
    <3>1. at[j] = nw[RList]
      BY <1>2, <2>2, <2>4
    <3> QED
      BY <1>1, <2>3, <3>1
  <2> DEFINE B == {at[n] : n \in 0..j-1}
  <2>6. \A n \in 0..j-1 : n \in 0..N
    BY <2>2
  <2>7. B \in SUBSET A /\ RList \in B
    <3>1. j - 1 \in 0..j-1
      BY <2>2, <2>4
    <3> QED
      BY <1>3, <2>5, <2>6, <3>1
  <2>8. ASSUME NEW x \in B PROVE nw[x] \in B
    <3>1. PICK n \in 0..j-1 : x = at[n]
      OBVIOUS
    <3>2. CASE n = j - 1
      <4>1. nw[x] = at[0] /\ 0 \in 0..j-1
        BY <2>2, <2>3, <2>4, <3>1, <3>2
      <4> QED
        BY <4>1
    <3>3. CASE n # j - 1
      <4>1. n + 1 \in 0..j-1 /\ n + 1 \in 0..N /\ n + 1 # 0 /\ (n + 1) - 1 = n
        BY <2>2, <3>3
      <4>2. nw[x] = at[n + 1]
        BY <1>2, <3>1, <4>1
      <4> QED
        BY <4>1, <4>2
    <3> QED
      BY <3>2, <3>3
  <2>9. B = A
    <3> HIDE DEF B
    <3> QED
      BY <2>7, <2>8 DEF Ring
  <2> QED
    BY <1>3, <2>6, <2>9
<1>5. CASE ~\E i, j \in 0..N : i < j /\ at[i] = at[j]
  <2>1. \A i, j \in 0..N : at[i] = at[j] => i = j
    BY <1>5
  <2>2. at \in Injection(0..N, A)
    <3>1. at \in [0..N -> A]
      <4>1. at = [n \in 0..N |-> IF n = 0 THEN nw[RList] ELSE nw[at[n - 1]]]
        BY DEF Walk
      <4>2. \A n \in 0..N : (IF n = 0 THEN nw[RList] ELSE nw[at[n - 1]]) \in A
        BY <1>2, <1>3
      <4> QED
        BY <4>1, <4>2, Zenon
    <3> QED
      BY <2>1, <3>1 DEF Injection, IsInjective
  <2>3. IsFiniteSet(0..N) /\ Cardinality(0..N) = N + 1
    BY FS_Interval
  <2>4. /\ N + 1 <= Cardinality(A)
        /\ N + 1 = Cardinality(A) <=> at \in Surjection(0..N, A)
    BY <2>2, <2>3, FS_Injection
  <2>5. Cardinality(A) \in Nat
    BY FS_CardinalityType
  <2>6. at \in Surjection(0..N, A)
    BY <2>4, <2>5
  <2> QED
    BY <1>3, <2>6 DEF Surjection
<1> QED
  BY <1>4, <1>5

LEMMA RegisteredAre ==
  ASSUME CoreAssumption, ThreadsAssumption, ThreadsInv, Dynamic = {}
  PROVE  Registered = {t \in Threads : state[t] \notin Dead}
<1> DEFINE N == Cardinality(Threads)
           at == CHOOSE at : Walk(newer, N, at)
<1>1. newer \in [Places -> Places] /\ older \in [Places -> Places] /\ Ring(newer, older, Nodes)
  BY DEF ThreadsInv, LinksHold, Places
<1>2. N \in Nat /\ IsFiniteSet(Nodes) /\ Cardinality(Nodes) <= N + 1 /\ Nodes \in SUBSET Places
  <2> DEFINE L == {t \in Threads : state[t] \notin Dead}
  <2>1. /\ N \in Nat /\ IsFiniteSet(L) /\ Cardinality(L) <= N /\ Cardinality(L) \in Nat
    BY FS_Subset, FS_CardinalityType DEF ThreadsAssumption
  <2>2. IsFiniteSet(L \cup {RList}) /\ Cardinality(L \cup {RList}) <= Cardinality(L) + 1
    <3>1. IsFiniteSet(L)
      BY <2>1
    <3>2. Cardinality(L) \in Nat
      BY <2>1
    <3> HIDE DEF L
    <3>3. /\ IsFiniteSet(L \cup {RList})
          /\ Cardinality(L \cup {RList}) = IF RList \in L THEN Cardinality(L) ELSE Cardinality(L) + 1
      BY <3>1, FS_AddElement
    <3> QED
      BY <3>2, <3>3
  <2>3. Cardinality(L \cup {RList}) \in Nat
    BY <2>2, FS_CardinalityType
  <2>4. Nodes = L \cup {RList} /\ Nodes \in SUBSET Places
    BY DEF Nodes, Places
  <2> HIDE DEF L, N
  <2> QED
    BY <2>1, <2>2, <2>3, <2>4
<1>3. Walk(newer, N, at)
  BY <1>1, <1>2, WalkExists
<1>4. Registered = {at[n] : n \in 0..N} \ {RList}
  BY DEF Registered, Walk
<1> HIDE DEF N, at
<1>5. {at[n] : n \in 0..N} = Nodes
  BY <1>1, <1>2, <1>3, WalkMeetsAll
<1> QED
  BY <1>4, <1>5 DEF Nodes, ThreadsAssumption

\* The registry holds the threads that are not over and no others, and its
\* links mirror each other, whatever threads were created and have left.
THEOREM RegistryIsExact == Dynamic = {} => (Spec => []RegistryExact)
<1> SUFFICES ASSUME Dynamic = {} PROVE Spec => []RegistryExact
  OBVIOUS
<1>1. Discipline
  BY DEF Discipline
<1>2. ThreadsInv => RegistryExact
  <2> SUFFICES ASSUME ThreadsInv PROVE RegistryExact
    OBVIOUS
  <2>1. Registered = {t \in Threads : state[t] \notin Dead}
    BY CoreAssumption, ThreadsAssumption, RegisteredAre
  <2>2. Registered \cup {RList} = Nodes
    BY <2>1 DEF Nodes
  <2>3. \A x \in Nodes : older[newer[x]] = x
    BY DEF ThreadsInv, LinksHold, Ring
  <2> QED
    BY <2>1, <2>2, <2>3 DEF RegistryExact
<1> QED
  BY <1>1, <1>2, Invariance, PTL

=============================================================================
