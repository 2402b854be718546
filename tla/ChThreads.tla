----------------------------- MODULE ChThreads ------------------------------
(***************************************************************************)
(* The life of threads: creation, start, exit and the wait for an exit     *)
(* (chthreads.c), references and memory of dynamic threads (chdynamic.c),  *)
(* and the registry (chregistry.c), a doubly linked list.                  *)
(*                                                                         *)
(* A thread is named by its memory: the working area of a static thread or *)
(* the heap or pool block of a dynamic one, which may be used again.       *)
(* chThdRelease gives the memory back after it has released the lock; that *)
(* part is one step per statement, and other threads run in between.       *)
(***************************************************************************)
EXTENDS ChCore

CONSTANTS
  Main,        \* the thread that chSysInit turns main() into
  Dynamic,     \* threads created by chThdCreateFromHeap or FromMemoryPool
  Walkers,     \* threads that walk the registry
  RList,       \* the list header ch.rlist
  ExitCodes,   \* arguments of chThdExit
  MaxRefs      \* bound on p_refs for chThdAddRef

\* What is left of a chThdRelease: its argument, and the statement it is at.
Releasing == [tp : Threads, pc : {"lock", "test", "unlink", "relink", "free"}]

\* There is memory for finitely many threads.
ASSUME ThreadsAssumption ==
  /\ IsFiniteSet(Threads)
  /\ Main \in Users
  /\ Dynamic \subseteq Users \ {Main}
  /\ Walkers \subseteq Users
  /\ None \notin Threads /\ RList \notin Threads /\ None # RList
  /\ None \notin Releasing
  /\ Msgs \cap ExitCodes = {}
  /\ MaxRefs \in Nat \ {0}

VARIABLES
  waiting,     \* p_waiting: the threads that wait for each one's exit
  join,        \* the thread whose exit each thread's chThdWait waits for
  term,        \* CH_FLAG_TERMINATE
  refs,        \* p_refs
  newer, older,\* the links of the registry
  release,     \* a chThdRelease in progress: its argument, what it does next
  walk,        \* the thread each walker got from the registry
  halted       \* chSysHalt was called

links == <<newer, older>>
life  == <<waiting, join, term, refs>>
vars  == <<core, life, links, release, walk, halted>>

Workers == Users \ {Main}
Dead    == {"NONE", "FINAL"}

\* References to t that calls in progress and registry walks account for.
Used(t) ==
  Cardinality({w \in Threads : join[w] = t})
    + Cardinality({w \in Threads : release[w] # None /\ release[w] = [tp |-> t, pc |-> "lock"]})
    + Cardinality({w \in Threads : walk[w] = t})

\* The program still holds a reference of its own, which it may spend.
Held(t) == refs[t] > Used(t)

Busy   == release[currp] # None
MayRun == ~halted /\ Running /\ ~Busy

\* Mutation: calls in progress are not looked at.
AreaFreeFinal(t) == state[t] = "NONE" \/ (t \notin Dynamic /\ state[t] = "FINAL")

\* The memory of t is free.  A static area is used again once its thread is
\* over and no call in progress refers to it (the program's discipline).
AreaFree(t) ==
  \/ state[t] = "NONE"
  \/ t \notin Dynamic /\ state[t] = "FINAL" /\ Used(t) = 0

-----------------------------------------------------------------------------
\* REG_INSERT(tp)
Insert(t) ==
  /\ newer' = [newer EXCEPT ![t] = RList, ![older[RList]] = t]
  /\ older' = [older EXCEPT ![t] = older[RList], ![RList] = t]

\* Mutation: the link back is forgotten.
UnlinkForward(t) ==
  /\ newer' = [newer EXCEPT ![older[t]] = newer[t]]
  /\ UNCHANGED older

\* REG_REMOVE(tp) under the lock.
Unlink(t) ==
  /\ newer' = [newer EXCEPT ![older[t]] = newer[t]]
  /\ older' = [older EXCEPT ![newer[t]] = older[t]]

\* _thread_init
ThreadInit(t) ==
  /\ waiting' = [waiting EXCEPT ![t] = <<>>]
  /\ term' = [term EXCEPT ![t] = FALSE]
  /\ refs' = [refs EXCEPT ![t] = 1]
  /\ Insert(t)
  /\ UNCHANGED join

\* chThdCreateI under the kernel lock.
Create(t) ==
  /\ MayRun
  /\ t \notin Dynamic
  /\ AreaFree(t)
  /\ ThreadInit(t)
  /\ state' = [state EXCEPT ![t] = "WTSTART"]
  /\ UNCHANGED <<currp, prio, pu, vt, slept, isr, release, walk, halted>>

\* chThdCreateI followed by chSchWakeupS.
CreateAndRun(t) ==
  /\ MayRun
  /\ AreaFree(t)
  /\ ThreadInit(t)
  /\ pu' = [pu EXCEPT ![t] = MSG_OK]
  /\ WakeupS(state, prio, t)
  /\ UNCHANGED <<prio, vt, slept, isr, release, walk, halted>>

\* chThdCreateStatic
CreateStatic(t) == t \notin Dynamic /\ CreateAndRun(t)

\* chThdCreateFromHeap and chThdCreateFromMemoryPool.
CreateDynamic(t) == t \in Dynamic /\ CreateAndRun(t)

\* chThdStart: chSchReadyI, then chSysUnlock and its assertion.
Start(t) ==
  /\ MayRun
  /\ state[t] = "WTSTART"
  /\ state' = ReadyI(state, {t})
  /\ halted' = (prio[t] > prio[currp])
  /\ UNCHANGED <<currp, prio, pu, vt, slept, isr, life, links, release, walk>>

IsrStartI(t) ==
  /\ ~halted
  /\ Interruptible
  /\ state[t] = "WTSTART"
  /\ isr' = TRUE
  /\ state' = ReadyI(state, {t})
  /\ UNCHANGED <<currp, prio, pu, vt, slept, life, links, release, walk, halted>>

\* chThdTerminate
Terminate(t) ==
  /\ MayRun
  /\ state[t] \notin Dead
  /\ Held(t)
  /\ term' = [term EXCEPT ![t] = TRUE]
  /\ UNCHANGED <<core, waiting, join, refs, links, release, walk, halted>>

\* Mutation: only the last thread that came to wait is readied.
LeaversFirst(t) == IF waiting[t] = <<>> THEN {} ELSE {Head(waiting[t])}

\* while (list_notempty(&tp->p_waiting)): who is readied by t's exit.
Leavers(t) == ToSet(waiting[t])

\* chThdExitS: only static threads leave the registry at once.
Exit(code) ==
  /\ MayRun
  /\ currp # Main
  /\ walk[currp] = None
  /\ pu' = [pu EXCEPT ![currp] = code]
  /\ waiting' = [waiting EXCEPT ![currp] = <<>>]
  /\ IF currp \in Dynamic THEN UNCHANGED links ELSE Unlink(currp)
  /\ LET s == ReadyI(state, Leavers(currp))
     IN \E t \in Highest(s, prio) : SwitchTo(s, t, "FINAL")
  /\ UNCHANGED <<prio, vt, slept, isr, join, term, refs, release, walk, halted>>

-----------------------------------------------------------------------------
\* A thread enters chThdRelease(t).
Releases(t) == release' = [release EXCEPT ![currp] = [tp |-> t, pc |-> "lock"]]

\* chThdWait.  On a thread that is over the exit code is read at once.
Wait(t) ==
  /\ MayRun
  /\ t # currp
  /\ state[t] # "NONE"
  /\ Held(t)
  /\ IF state[t] # "FINAL"
       THEN /\ waiting' = [waiting EXCEPT ![t] = <<currp>> \o @]
            /\ join' = [join EXCEPT ![currp] = t]
            /\ GoSleepTimeoutS(state, prio, "WTEXIT", "INFINITE")
            /\ UNCHANGED <<prio, pu, isr, release>>
       ELSE Releases(t) /\ UNCHANGED <<core, waiting, join>>
  /\ UNCHANGED <<term, refs, links, walk, halted>>

\* The thread runs again: chThdWait reads the exit code, unlocks and releases.
EndCall ==
  /\ ~halted
  /\ Resuming
  /\ EndSleep
  /\ join' = [join EXCEPT ![currp] = None]
  /\ IF join[currp] = None THEN UNCHANGED release ELSE Releases(join[currp])
  /\ UNCHANGED <<currp, state, prio, pu, isr, waiting, term, refs, links, walk, halted>>

\* chThdAddRef
AddRef(t) ==
  /\ MayRun
  /\ Held(t)
  /\ refs[t] < MaxRefs
  /\ refs' = [refs EXCEPT ![t] = @ + 1]
  /\ UNCHANGED <<core, waiting, join, term, links, release, walk, halted>>

\* chThdRelease called by the program.
Release(t) ==
  /\ MayRun
  /\ Held(t)
  /\ Releases(t)
  /\ UNCHANGED <<core, life, links, walk, halted>>

InRelease(pc) == ~halted /\ Running /\ Busy /\ release[currp].pc = pc

Goes(pc) == release' = [release EXCEPT ![currp] =
                          IF pc = "done" THEN None ELSE [tp |-> @.tp, pc |-> pc]]

\* Mutation: the count is not looked at.
ReleaseLockedAny ==
  LET t == release[currp].tp IN
  /\ InRelease("lock")
  /\ halted' = (refs[t] = 0)
  /\ refs' = IF refs[t] = 0 THEN refs ELSE [refs EXCEPT ![t] = @ - 1]
  /\ Goes("test")
  /\ UNCHANGED <<core, waiting, join, term, links, walk>>

\* The part of chThdRelease under the lock.
ReleaseLocked ==
  LET t == release[currp].tp IN
  /\ InRelease("lock")
  /\ halted' = (refs[t] = 0)
  /\ refs' = IF refs[t] = 0 THEN refs ELSE [refs EXCEPT ![t] = @ - 1]
  /\ Goes(IF refs[t] = 1 THEN "test" ELSE "done")
  /\ UNCHANGED <<core, waiting, join, term, links, walk>>

\* Mutation: the state is not looked at.
ReleaseTestAny ==
  /\ InRelease("test")
  /\ Goes(IF release[currp].tp \in Dynamic THEN "unlink" ELSE "done")
  /\ UNCHANGED <<core, life, links, walk, halted>>

\* tp->p_state and the mode of the thread are looked at.
ReleaseTest ==
  LET t == release[currp].tp IN
  /\ InRelease("test")
  /\ Goes(IF state[t] = "FINAL" /\ t \in Dynamic THEN "unlink" ELSE "done")
  /\ UNCHANGED <<core, life, links, walk, halted>>

\* REG_REMOVE(tp): (tp)->p_older->p_newer = (tp)->p_newer;
ReleaseUnlink ==
  LET t == release[currp].tp IN
  /\ InRelease("unlink")
  /\ newer' = [newer EXCEPT ![older[t]] = newer[t]]
  /\ Goes("relink")
  /\ UNCHANGED <<core, life, older, walk, halted>>

\* REG_REMOVE(tp): (tp)->p_newer->p_older = (tp)->p_older;
ReleaseRelink ==
  LET t == release[currp].tp IN
  /\ InRelease("relink")
  /\ older' = [older EXCEPT ![newer[t]] = older[t]]
  /\ Goes("free")
  /\ UNCHANGED <<core, life, newer, walk, halted>>

\* chHeapFree(tp) or chPoolFree(tp->p_mpool, tp)
ReleaseFree ==
  /\ InRelease("free")
  /\ state' = [state EXCEPT ![release[currp].tp] = "NONE"]
  /\ Goes("done")
  /\ UNCHANGED <<currp, prio, pu, vt, slept, isr, life, links, walk, halted>>

-----------------------------------------------------------------------------
\* chRegFirstThread
FirstThread ==
  /\ MayRun
  /\ currp \in Walkers
  /\ walk[currp] = None
  /\ walk' = [walk EXCEPT ![currp] = newer[RList]]
  /\ refs' = [refs EXCEPT ![newer[RList]] = @ + 1]
  /\ UNCHANGED <<core, waiting, join, term, links, release, halted>>

\* Mutation: no reference is added to the next thread.
NextThreadNoRef ==
  LET t == walk[currp]
      n == newer[t]
  IN
  /\ MayRun
  /\ t # None
  /\ walk' = [walk EXCEPT ![currp] = IF n = RList THEN None ELSE n]
  /\ Releases(t)
  /\ UNCHANGED <<core, life, links, halted>>

\* chRegNextThread, which ends in chThdRelease of the thread it left.
NextThread ==
  LET t == walk[currp]
      n == newer[t]
  IN
  /\ MayRun
  /\ t # None
  /\ walk' = [walk EXCEPT ![currp] = IF n = RList THEN None ELSE n]
  /\ refs' = IF n = RList THEN refs ELSE [refs EXCEPT ![n] = @ + 1]
  /\ Releases(t)
  /\ UNCHANGED <<core, waiting, join, term, links, halted>>

-----------------------------------------------------------------------------
\* chThdSleep
Sleep ==
  /\ MayRun
  /\ GoSleepTimeoutS(state, prio, "SLEEPING", "FINITE")
  /\ UNCHANGED <<prio, pu, isr, life, links, release, walk, halted>>

\* chThdYield: a peer may run.
Yield ==
  /\ MayRun
  /\ \E t \in Highest(state, prio) :
       prio[t] >= prio[currp] /\ SwitchTo(state, t, "READY")
  /\ UNCHANGED <<prio, pu, vt, slept, isr, life, links, release, walk, halted>>

Expire(t) ==
  ~halted /\ TimerExpires(t) /\ UNCHANGED <<life, links, release, walk, halted>>

Wakeup(t) ==
  ~halted /\ TimerWakeup(t) /\ UNCHANGED <<life, links, release, walk, halted>>

EndIsr ==
  ~halted /\ IsrExit /\ UNCHANGED <<life, links, release, walk, halted>>

-----------------------------------------------------------------------------
\* chSysInit has run: main() executes, the idle thread is ready.
Init ==
  /\ currp = Main
  /\ state = [t \in Threads |->
       IF t = Main THEN "CURRENT" ELSE IF t = Idle THEN "READY" ELSE "NONE"]
  /\ prio = BasePrio
  /\ pu = [t \in Threads |-> MSG_OK]
  /\ vt = [t \in Threads |-> "off"]
  /\ slept = [t \in Threads |-> FALSE]
  /\ isr = FALSE
  /\ waiting = [t \in Threads |-> <<>>]
  /\ join = [t \in Threads |-> None]
  /\ term = [t \in Threads |-> FALSE]
  /\ refs = [t \in Threads |-> IF t \in Workers THEN 0 ELSE 1]
  /\ newer = [x \in Threads \cup {RList} |->
       IF x = RList THEN Main ELSE IF x = Main THEN Idle ELSE RList]
  /\ older = [x \in Threads \cup {RList} |->
       IF x = RList THEN Idle ELSE IF x = Idle THEN Main ELSE RList]
  /\ release = [t \in Threads |-> None]
  /\ walk = [t \in Threads |-> None]
  /\ halted = FALSE

LifeStep ==
  \/ \E t \in Workers : Create(t) \/ CreateStatic(t) \/ CreateDynamic(t) \/ Start(t) \/ IsrStartI(t)
  \/ \E t \in Workers : Terminate(t) \/ Wait(t) \/ AddRef(t) \/ Release(t)
  \/ \E code \in ExitCodes : Exit(code)
  \/ FirstThread
  \/ NextThread

ReleaseStep ==
  ReleaseLocked \/ ReleaseTest \/ ReleaseUnlink \/ ReleaseRelink \/ ReleaseFree

KernelStep ==
  \/ Sleep
  \/ Yield
  \/ EndCall
  \/ \E t \in Threads : Expire(t) \/ Wakeup(t)
  \/ EndIsr

Next == LifeStep \/ ReleaseStep \/ KernelStep
Spec == Init /\ [][Next]_vars

-----------------------------------------------------------------------------
\* Types, and that the one CURRENT thread is currp.
TypeOK ==
  /\ currp \in Threads
  /\ state \in [Threads -> {"NONE", "WTSTART", "READY", "CURRENT", "SLEEPING", "WTEXIT", "FINAL"}]
  /\ \A t \in Threads : state[t] = "CURRENT" <=> t = currp
  /\ prio = BasePrio
  /\ pu \in [Threads -> Msgs \cup ExitCodes]
  /\ vt \in [Threads -> {"off", "armed", "firing"}]
  /\ slept \in [Threads -> BOOLEAN]
  /\ isr \in BOOLEAN
  /\ waiting \in [Threads -> Seq(Threads)]
  /\ join \in [Threads -> Threads \cup {None}]
  /\ term \in [Threads -> BOOLEAN]
  /\ refs \in [Threads -> Nat]
  /\ newer \in [Threads \cup {RList} -> Threads \cup {RList}]
  /\ older \in [Threads \cup {RList} -> Threads \cup {RList}]
  /\ release \in [Threads -> {None} \cup Releasing]
  /\ walk \in [Threads -> Threads \cup {None}]
  /\ halted \in BOOLEAN

\* Every thread in chThdWait is on the list of the thread it waits for, and
\* that thread is not over: no joiner sleeps on a thread that has exited.
NoJoinerForgotten ==
  \A w \in Threads :
    /\ \A t \in Threads : w \in ToSet(waiting[t]) <=> (state[w] = "WTEXIT" /\ join[w] = t)
    /\ state[w] = "WTEXIT" => state[join[w]] \notin Dead

\* When chThdWait goes on, the thread is over and its exit code is intact:
\* its memory has not been given back, nor its union overwritten.
JoinSeesExitCode ==
  \A w \in Threads :
    join[w] # None /\ state[w] # "WTEXIT" =>
      state[join[w]] = "FINAL" /\ pu[join[w]] \in ExitCodes

\* The threads met on a walk of the registry along p_newer, from its header.
Registered ==
  LET at[n \in 0..Cardinality(Threads)] == IF n = 0 THEN newer[RList] ELSE newer[at[n - 1]]
  IN {at[n] : n \in 0..Cardinality(Threads)} \ {RList}

\* With static threads only, the list holds the active threads and no others,
\* and is the same whichever way it is followed.
RegistryExact ==
  /\ \A t \in Threads : state[t] \notin Dead <=> t \in Registered
  /\ \A x \in Registered \cup {RList} : older[newer[x]] = x

\* "In order to make sure its status is not lost" (chRegFirstThread): a thread
\* got from the registry keeps its memory while the walker refers to it.
WalkedThreadsKept ==
  \A w \in Threads : walk[w] # None => state[walk[w]] # "NONE"

\* The memory of a thread is given back by one call, once the thread is over
\* and nothing refers to it: not a call in progress, not a reference.
FreedOnce ==
  \A w \in Threads :
    release[w] # None /\ release[w].pc \in {"unlink", "relink", "free"} =>
      LET t == release[w].tp IN
      /\ state[t] = "FINAL"
      /\ refs[t] = 0
      /\ \A v \in Threads \ {w} : release[v] = None \/ release[v].tp # t
      /\ \A v \in Threads : join[v] # t

\* Every call in progress is covered by a count, so that no release finds the
\* count at zero ("not referenced"), and works on memory that is still there.
ReferencesCoverCalls ==
  \A t \in Threads :
    /\ refs[t] >= Used(t)
    /\ Used(t) > 0 => state[t] # "NONE"

=============================================================================
