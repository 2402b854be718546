# Verification of the kernel and the application of RT-STM32F407-DISCOVERY-uHttp

The repository is an HTTP(S) server for an STM32F407 board. Its application (`src/RT-STM32F407-DISCOVERY-uHttp`) runs
on the ChibiOS/RT 3.0 kernel (`src/ChibiOS/os/rt`) and on lwIP, bound to the kernel by
`src/ChibiOS/os/various/lwip_bindings` and to the wire by the Ethernet driver (`src/ChibiOS/os/hal`). This directory holds
TLA+ modules that model the kernel as the application configures it (`chconf.h`), the driver, the binding and the web
server, the TLC configurations that check them, and TLAPS proofs.

Everything the application does between two network packets rests on the kernel: which thread runs, who gets a token, a
mutex or a message, what a time-out may undo. The kernel came first; the way of a frame from the wire to the stack and the
way of a request through the server follow.

## 1. The system

One processor, preemptive priorities. Threads, interrupt handlers and the timer's callbacks share every kernel object.
A kernel call runs between `chSysLock` and `chSysUnlock`; a call that waits gives the processor away inside
`chSchGoSleepS` and finishes, still locked, when its thread is switched in again. What other actors do in that window,
and what the few statements outside the lock see, is where this code is hard.

| part | source | state | operations | works with | what makes it correct |
|---|---|---|---|---|---|
| scheduler | `chschd.c` | ready list, current thread, `p_state`, `p_prio` | ready, sleep, timed sleep, wake-up, reschedule, yield | every part | the running thread is the most urgent; a time-out ends only its own wait |
| semaphores | `chsem.c` | `s_cnt`, `s_queue` | wait, timed wait, signal, signal-wait, add, reset | scheduler | tokens neither lost nor made; first come, first served |
| mutexes | `chmtx.c` | owner, wait queue, each thread's list, real priority | lock, try, unlock, unlock all | scheduler, condition variables, `chThdSetPriority` | exclusion, hand-over, exact priority inheritance through chains |
| condition variables | `chcond.c` | wait queue | wait, timed wait, signal, broadcast | mutexes | the mutex is given back and taken again; no lost wake-up |
| threads | `chthreads.c` | working areas, joiners, references, thread queues | create, start, exit, wait, terminate, sleep, suspend, resume, enqueue | scheduler, dynamic threads, registry | every joiner is woken and sees the exit code |
| dynamic threads | `chdynamic.c` | `p_refs`, heap or pool block | create, add reference, release | threads, registry, heap, pools | memory is given back once, when nothing refers to it |
| registry | `chregistry.c` | doubly linked list | insert, remove, first, next | threads | it lists exactly the active threads |
| virtual timers | `chvt.c`, `st_lld.*` | delta list, `vt_lasttime`, comparator | set, reset, tick | timed sleeps, event timer | never early, late only by the latency |
| mailboxes | `chmboxes.c` | ring, two semaphores | post, post ahead, fetch, reset | semaphores | a bounded channel |
| messages | `chmsg.c` | sender queue, sender's state | send, wait, release | scheduler | each sender gets the reply to its own message |
| events | `chevents.c` | listeners, pending mask, flags | register, broadcast, signal, wait one, any, all, clear | scheduler | no broadcast lost, none delivered twice |
| MAC driver | `mac.c`, `STM32/LLD/mac_lld.c` | two descriptor rings, link, queue of senders | start, poll, take and release descriptors, interrupt | thread queues, events, lwIP thread | the code and the DMA agree on the rings; a sender gives up in time |
| lwIP layer | `arch/sys_arch.c` | semaphores and mailboxes on the heap | new, free, signal, wait, post, fetch | semaphores, mailboxes | time-outs in lwIP's convention; nothing freed in use |
| lwIP thread | `lwipthread.c` | link state, driver queue | poll the link, receive, send | events, event timer, MAC driver | no frame left behind for lack of an event |
| web server | `main.c`, `streamio.c`, `uhttpd.c`, `mod_redir.c`, `io.c` | connection, stream buffer, request, answer | accept, parse, answer, close | lwIP's sockets | one right answer per connection; every connection closed |
| I/O queues | `chqueues.c` | byte ring, counter, waiters | put, get, timed, from handlers | thread queues | bytes in order, nobody waits on a ready queue |
| heap, pools, core | `chheap.c`, `chmempools.c`, `chmemcore.c` | free lists | allocate, free | dynamic threads, lwIP | blocks disjoint, coalesced |
| element list, rings | `ArrayList.c`, `queue.c` | growing array, byte ring | append, remove, put, get | nothing | the list is a sequence |

Hard behaviours, in short (all of them, at their lines, are the `hazards` of `PROJECT.json`): preemption between any two
kernel calls; handlers in the middle of a thread's unlocked statements; a time-out that races the wake-up it was meant to
replace; calls granted something long before they run; priority changes of threads that sit in sorted queues; the unlocked
part of `chThdRelease`; wrap-around of the tick counter; callbacks that change the list they are called from.

Not modelled, with the reasons in `PROJECT.json`:

* start-up and the lock primitives, which are the initial states and the atomicity of the models; statistics, debug
  instrumentation and the integrity test, which change nothing else;
* the heap, the memory pools, the core allocator and binary semaphores: sequential code under a lock, which the other
  models see as the set of free blocks or as a semaphore;
* the I/O queues: only the serial driver uses them, and the application opens a serial port for the test suite behind the
  button alone (`main.c:175`); the thread queue they wait in is in `ChThdSync`;
* `ArrayList.c` and `queue.c`: their users in `main.c` are commented out;
* the TLS branches of `streamio.c`, which the configuration leaves out, and the form reader of `uhttpd.c`, whose only
  caller is commented out (`uhttpd.c:669`);
* other ports, ChibiOS/NIL, the other device drivers, bindings without state, and generated or vendored code: the pages as
  C arrays, register headers, PolarSSL, lwIP itself. They are nearly all of the repository's lines. lwIP appears in
  `LwipThread` as far as the binding shows it: its thread, its mailbox and its buffers.

## 2. The modules

| module | models | reads from |
|---|---|---|
| `ChCore` | running thread, thread states, sleep and wake-up, timed sleep, interrupt epilogue | `chschd.c`, `chcore_v7m.c`, `chvt.h` |
| `Queues` | the wait queues: dequeue one or several, insert by priority | `chschd.c` |
| `Queues_proofs` | what the proofs share: least elements, places of a ring, what the operations do to a queue, to its order and to who is in it | extends `Queues` |
| `ChSem` | every semaphore operation | `chsem.c`, extends `ChCore`, `Queues` |
| `Semaphore` | what a semaphore promises: tokens and a line | abstract, implemented by `ChSem` |
| `ChSem_proofs` | the inductive invariants of `ChSem` and of `ChMboxes`, their theorems, and that they implement `Semaphore` and `Channel` | extends `ChMboxes`, `Queues_proofs` |
| `ChMtx` | mutexes, condition variables, `chThdSetPriority` | `chmtx.c`, `chcond.c`, extends `ChCore`, `Queues` |
| `ChMtx_proofs` | the inductive invariants of `ChMtx`, and its theorems: owners, sorted queues, exact inheritance, the most urgent thread runs | extends `ChMtx`, `Queues_proofs` |
| `ChThreads` | creation, start, exit, join, references, release of memory, registry | `chthreads.c`, `chdynamic.c`, `chregistry.c`, extends `ChCore` |
| `ChThreads_proofs` | the inductive invariant of `ChThreads` and its theorems | extends `ChThreads`, `Queues_proofs` |
| `ChThdSync` | suspend and resume, thread queues | `chthreads.c`, extends `ChCore`, `Queues` |
| `ChMsg` | synchronous messages | `chmsg.c`, extends `ChCore` |
| `ChEvents` | event sources, listeners, waits | `chevents.c`, extends `ChCore` |
| `ChWaits` | the composition of the last three: one thread uses them all | |
| `ChWaits_proofs` | the inductive invariant of the composition and its theorems | extends `ChWaits`, `Queues_proofs` |
| `ChMboxes` | mailboxes over the two semaphores | `chmboxes.c`, extends `ChSem` |
| `Channel` | what a mailbox promises: a bounded channel | abstract, implemented by `ChMboxes` |
| `ChVT` | delta list, tick handler, alarm and wrapping counter | `chvt.c`, `chvt.h`, `st_lld.h`, `st_lld.c` |
| `ChVT_proofs` | arithmetic modulo the counter, the inductive invariants of the delta list and of its alarm, and their theorems | extends `ChVT`, `Queues_proofs` |
| `MacDriver` | the Ethernet driver with its DMA, interrupt and cable | `mac.c`, `mac_lld.c`, extends `Queues` |
| `LwipThread` | the binding's thread between driver and stack, and a caller of the stack | `lwipthread.c`, `sys_arch.c`, `evtimer.c`, extends `MacDriver` |
| `LwipThread_proofs` | descriptors as runs of the ring, what each step of the driver keeps, and the proofs of the invariants of the run `lwip` | extends `LwipThread`, `Queues_proofs` |
| `HttpServer` | the server's thread and its clients | `streamio.c`, `uhttpd.c`, `responses.c`, `utils.c`, `io.c`, `mediatypes.c`, `mod_redir.c` |
| `HttpServer_proofs` | places and words of a text, sums of an answer, the three inductive invariants of `HttpServer`, and its theorems: types, one right answer, the header as it was sent | extends `HttpServer`, `Queues_proofs` |
| `MC*` | constants for TLC | |

How state and steps correspond to the code:

* `currp`, `state`, `prio` are `ch.rlist.r_current`, `p_state`, `p_prio`. `pu` is the union `p_u`, which holds the object
  a thread waits for and later its message: the models keep it one variable, because overwriting one with the other is
  what the properties are about. The ready list is the set of READY threads; which of several peers runs first is open,
  and `chSchDoYieldS`, `chSchDoRescheduleAhead` and `Behind` differ only in that.
* A locked call is one step. A call that sleeps is two: the step up to `chSchGoSleepS`, and the step that runs when
  `slept[t]` is set and `t` is current again (`Resume`, `EndCall`, `Finish`). While such a thread is current interrupts
  are masked (`Interruptible`), as in the code.
* The tick handler disarms a timer and calls `wakeup()` with the lock released. `Expire` and `Wakeup` are two steps, so a
  handler may ready the thread in between, which is the race `wakeup()` has its early return for.
* An interrupt nests by more `Isr...` steps; `EndIsr` is the epilogue of the outermost, which preempts.
* Code outside the lock is split by statement: the two reads of the assertion in `chSemSignal` (`AssertReadsCnt`,
  `AssertReadsQueue`), the tail of `chThdRelease` (`ReleaseTest`, `ReleaseUnlink`, `ReleaseRelink`, `ReleaseFree`), the
  callbacks of the tick handler (`TickCallback` and what follows it).
* Mutex queues are sequences in queue order; the inheritance loop of `chMtxLockS` is the set `Boosted` of the threads it
  reaches, the least one that holds the mutex's less urgent owner and, with a thread, the less urgent owner of the mutex it
  waits for; and re-sorting a boosted waiter is `Reorder`. The program nests mutexes by `Rank`.
* The registry is its two link fields, so that a removal done half is a state of its own. A block of memory is the name of
  the thread in it. The program's own discipline is the guard `Held`: it waits for or releases a thread only while it has a
  reference that no call in progress has spent, and uses a static area again only when no call refers to it.
* In `ChVT` time moves between calls (`Tick`) and inside them (`d \in 0..Slip`, between reading the counter and
  programming the comparator). The comparator matches on equality only: an alarm programmed too late is missed.
  `left` and `late` are history variables.
* A message's sender sleeps in three queues one after the other (`SNDMSGQ`, then `SNDMSG` while the server has it), and its
  union is first the server, then the reply. The contents of a message are left out: who holds whose is what matters.
* The mask a thread waits for is `waits`, not the union: `wakeup()` never reads it, and a wait that is over leaves it
  behind. A listener's flags it is not interested in accumulate too (`elflags`), as in `el_flags`. A listener is registered
  only when it is not, which is the program's duty.
* In `MacDriver` every section between `osalSysLock` and `osalSysUnlock` is one action. A descriptor is the DMA's, free,
  locked by a thread or full. A sender's time-out is a number of ticks that the loop of `macWaitTransmitDescriptor`
  recomputes, in unsigned arithmetic modulo `TimeMod`; `TIME_INFINITE` is its greatest value, with which a sleep has no
  timer and the loop stops subtracting (`Remaining`). Time passes while a sender sleeps; one that is ready runs at most
  `MaxDelay` ticks after the end of its time-out.
* In `LwipThread` the priorities decide who may take a step: the application before the stack, the stack before the lwIP
  thread. Interrupts, the DMA and the cable come at any time.
* In `HttpServer` a request is a sequence of classes of characters cut into segments anywhere, those that `UriUnescape`
  tells apart among them: `/`, `.`, the backslash and `%`, with the hex digits that `Hex` gives a meaning. A file is a size,
  sent chunk by chunk behind a header without a length; pages the server makes up have one. `text`, `sent` and `out`
  belong to the connection being served, or served last; the server has one thread, so one connection is enough.

## 3. The runs

| run | checks | shows | size |
|---|---|---|---|
| `sem` | `TypeOK`, `QueuesMatchStates`, `CounterMatchesQueue`, `PriorityOrder`, `TimerBelongsToWait`, `ImplementsSemaphore` | the kernel's semaphore is the token pool of `Semaphore`, through time-outs, resets and handlers | 412 000 states |
| `mtx_safety` | `TypeOK`, `OwnershipConsistent`, `QueuesExact`, `InheritanceExact`, `PriorityOrder` | exclusion, hand-over and inheritance with nesting, conditions and a priority that changes | 683 000 |
| `mtx_live` | `UrgentGetsMutex` | bounded inversion: the most urgent thread gets the mutex though a less urgent one never sleeps | 3 700 |
| `thd_static` | `TypeOK`, `JoinSeesExitCode`, `RegistryExact` | joins and the registry, in working areas used again | 906 000 |
| `thd_dynamic` | `NoJoinerForgotten`, `FreedOnce`, `ReferencesCoverCalls` | several joiners and references; memory is freed once | 167 000 |
| `thd_sync` | `TypeOK`, `WaitersExact`, `MessagesExact`, `EventsNotLost`, `OneAnswer` | whoever ends a wait, whatever it waits on: reference, queue, server, listener and state agree, and the answer stays | 1 676 000 |
| `mboxes` | `MBTypeOK`, `SlotsBalance`, `ImplementsChannel`, `NoWaiterStarves` | the mailbox is the bounded channel of `Channel`, and nobody is forgotten | 69 000 |
| `vt` | `TypeOK`, `DeltaListExact`, `FiresInWindow` | the delta list is exact and callbacks come in their window | 240 000 |
| `lwip` | `LwTypeOK`, `RingsAgree`, `FrameNotForgotten`, `PbufsConserved` | code and DMA agree on the rings, no frame waits without an event, no buffer leaks | 5 400 000 |
| `lwip_live` | `LinkFollowed`, `CallsReturn` | the interface follows the cable; the stack's calls return though nothing is sent | 614 000 |
| `http` | `HttpTypeOK`, `HeaderAsSent`, `AnswersMatch`, `EveryoneServed` | the parser reads what was sent however it is cut; one right answer; every connection closed | 540 000 |
| `lwip_wrap` | `SendersWakeInTime`, violated | finding 1 | |

Four configurations are kept beside these for findings 2 to 5. Each checks one property that TLC finds violated:
`tlc -config MCSemHalt.cfg MCSem` (`NoSpuriousHalt`), `tlc -config MCMtxInherit.cfg MCMtx` (`HoldersInherit`),
`tlc -config MCThreadsWalk.cfg MCThreads` (`WalkedThreadsKept`), `tlc -config MCVTBase.cfg MCVT` (`NeverEarly`).

Every property of a passing run has a mutant in `PROJECT.json`, a plausible slip in the code under which TLC finds it
violated. The mutated operators stand in the modules, in front of the definition they replace, under the comment
`Mutation`; no action uses them.

**Bounds.** Two user threads and the idle thread are enough for a waiter and a signaller; two semaphores for
`chSemSignalWait`. Counters stop at `MaxCnt`, which limits how many tokens pile up; below zero they are limited by the
number of threads. Semaphores are interchangeable in `ChSem` and `Semaphore`, so `sem` uses symmetry. Mutexes take three threads and
two nested mutexes: a chain of inheritance of length two, re-sorting a queue, and a third priority between them. Two
workers and `main` give several joiners, an area used again, and releases that overlap; `thd_static` has one reference per
thread (and one per walk), `thd_dynamic` up to two (`MaxRefs`). `thd_dynamic` has two threads of one priority, so that
`chThdYield` switches. The ring has two slots, the least for which the two pointers differ and wrap. `vt` has three
timers (first, middle and last of the list) and a counter of 16 values, which wraps many times; its delays lie on both
sides of `CH_CFG_ST_TIMEDELTA`. `Slip` and `Latency` are one tick, `CH_CFG_ST_TIMEDELTA` is two, as in `chconf.h`.
`thd_sync` has one reference, one queue, one server, and one listener that wants one of two flags; both of its
threads' answers are `MSG_OK`, because the leftovers of the union would multiply the states without telling anything apart.
`lwip` has two receive descriptors, the least for which the ring has an order, two buffers and a mailbox of one message, so
that every refusal happens; `lwip_live` has one of each. Their time-out is one tick and the counter of eight values wraps;
`MaxDelay` is zero in both and one in `lwip_wrap`.
`SndBuf` bounds the calls the application makes without an answer. `http` has two clients, words of at most five characters
and eight requests: a header that is skipped and one that is kept, two more lines with the same name, a line without a colon, a
query with a body, an unknown method, a missing file with a header line that does not fit, a method with two spaces behind it,
and a method with nothing behind it on its line. The last two end within their first lines, where a client may also hang up.
Their names are written with an escaped letter, an escaped NUL, a dot and a backslash behind the `/`, and a query.

**Deadlock.** `sem`, the thread runs and the violation runs switch the deadlock check off where `chSysHalt` really
stops the system (`halted`), or where all threads may really wait for each other to exit. The other runs check it.

**Fairness.** Handlers end (`EndIsr`, strong, because nested handlers disable it for a while); an armed timer expires
and its callback runs; a thread that was switched in finishes the call it is in. In `mtx_live` conditions are signalled
by a device and a thread that owns a mutex and gets to run again and again unlocks it: no thread keeps a mutex forever, which is the
program's duty; nothing is assumed of the scheduling of threads. In `mboxes` the other side is a device whose handler
posts or fetches whenever a thread waits; threads are not fair, a more urgent one may call forever.
In `lwip` the hardware's clock, the link timer and a pending interrupt are weakly fair, and so are the steps of the two
urgent threads, which only they disable; the lwIP thread is strongly fair, because the others preempt it again and again but
sleep in between. The cable and the arriving frames are not fair. In `http` the server's thread is weakly fair, and a client
sends its request or hangs up; one whose header line does not fit hangs up too, because the server may wait for the rest of
a line it has mistaken (see below), and `recv` has no time-out.

## 4. Findings

1. `macWaitTransmitDescriptor` subtracts the ticks it slept from the time-out in unsigned arithmetic (`mac.c:165`). A
   sender woken by a free descriptor that another thread takes first, and scheduled again only when more ticks have passed
   than were left, sleeps again instead of giving up: without a timer if it was late by one tick, because the
   wrapped value is `TIME_INFINITE`, else for nearly 2^32 ticks. Its comment calls the argument "the number of ticks before the
   operation timeouts" (`mac.c:135`). `lwip_wrap` delays a woken sender by one tick more than its time-out.
2. `chSemSignal` and `chSemSignalWait` evaluate "inconsistent semaphore" before they take the lock (`chsem.c:297`,
   `:382`). A handler between the two reads halts a healthy system.
3. `chThdSetPriority` lowers a mutex owner that was not boosted below a thread that already waits for its mutex
   (`chthreads.c:267`), against "Any thread, directly or indirectly, holding the mutex gains the same priority of the
   waiting thread". `InheritanceExact` holds when only threads that own no mutex change their priority, which is what
   `mtx_safety` (`OwnersMay = FALSE`) checks.
4. `chThdRelease` takes the decision to free a dynamic thread under the lock and acts without it (`chdynamic.c:103`). A
   walk of the registry in between takes a reference to memory that is then given back. `REG_REMOVE`, two assignments, is
   in the same window: a thread created between them, or unlinked by another release, leaves the list damaged.
   `RegistryExact` is therefore checked with static threads and `FreedOnce` without walks.
5. `chVTDoSetI` computes `now + delay - vt_lasttime` in 32 bits (`chvt.c:136`), but `chVTDoResetI` of the first timer
   never moves `vt_lasttime`. Overlapping waits that are all answered in time leave it behind until, after 2^32 ticks,
   a new timer fires at once. `vt` assumes that the base does not get that old (`BaseFresh`). In the same
   situation an interrupt that is served after the list has become empty could take the list header for a timer: the
   distance that `BaseFresh` leaves to the wrap (`Margin`) has room for one interrupt being served and one pending.

Other things the models had to know, each visible by changing one constant or guard:

* `chThdStart` readies the thread and unlocks without a reschedule (`chthreads.c:241`); for a thread more urgent than the
  caller the assertion of `chSysUnlock` halts the system. `Start` has this step.
* `chMBResetI` while a call that was granted a slot has not finished yet breaks the channel (`ResetAnyTime = TRUE`
  violates `ImplementsChannel`): the granted poster writes after the reset and signals a message too many.
* `chVTIsTimeWithinX` returns false when `start == end`; its comment says always true (`chvt.h:272`). `evtStart` re-arms a
  running timer; its comment says it has no effect (`evtimer.c:76`).
* Nesting mutexes crosswise deadlocks; the models nest by `Rank`.
* `macWaitTransmitDescriptor` asks for a descriptor and enqueues in two sections (`mac.c:155`): a descriptor freed in
  between wakes nobody, and the sender sleeps until the next one or its time-out. `CallsReturn` holds because of the latter.
* When no buffer of the pool is free the frames behind stay in the ring until another one arrives (`starved` in
  `FrameNotForgotten`). Frames that come faster than they are taken keep the thread from polling the link, and a full
  mailbox drops the change of the link (the exceptions of `LinkFollowed`).
* `sys_arch.c:106` hands ticks to a stack that counts milliseconds: its timers run ten times too fast at 10 kHz.
* A header word that exactly fills the buffer, or a longer value of a known name, ends in the middle of its line, and what
  follows is parsed as another line; if only the line's end is left that is taken for the empty line, which "marks the end of
  the request header" (`uhttpd.c:500`). A line without a colon is taken for a name, and the next line for its value. A version
  that fills its buffer leaves the rest of its line to be a header. `Fits` names these cases, and `FitTexts` leaves such requests
  out of `HeaderAsSent`.
* A line that is a known method and nothing else is not a request without a URI: the URI is looked for in the next line
  (`uhttpd.c:467`, the delimiter that ended the method is not looked at). `RequestFits` leaves such requests, and those whose
  method or URI fills its buffer, out of `AnswersMatch`.
* `fstat` always fails (`io.c:196`), so `MediaTypeHandlerBinary` keeps the size -1 (`mediatypes.c:99`, `:112`) and a file goes
  without `Content-Length` (`responses.c:200`). Only the close tells the client where it ends; one whose connection breaks
  cannot tell from the header that a part is missing. `FileHeader` has no length for this reason.
* `recv` has no time-out (`LWIP_SO_RCVTIMEO` is 0, so `streamio.c:135` has no effect): a silent client keeps the only thread
  of the server. A connection closed with part of the body unread is reset by the stack (`aborted`).

## 5. Proofs

`ChSem_proofs` proves, for any number of threads and semaphores, any priorities with an idle thread below all others, and
any bounds, from `CoreAssumption` and `SemAssumption` alone:

* `TypeCorrect`, `QueuesAreConsistent`, `CountersAreConsistent`, `NoPriorityViolation`, `TimersAreConsistent`: the five
  invariants of the run `sem`;
* `Invariance`: `Spec => []IInv`, from which they follow.

Why `IInv` is more than their conjunction. `QueuesMatchStates` and `CounterMatchesQueue` are preserved by a signal only if
the thread at the head really waits, by a time-out only if the thread is in the queue its union names exactly once, by a
reset only if the counter is the length of the queue: they need each other, and are stated as predicates of arbitrary
queues, states and counters (`QueuesHold`, `CountersHold`) because `chSemSignalWait` goes through a state between its
signal and its wait that is no state of the model. That the running thread is the only one CURRENT (`OneCurrent`) is what
lets a sleeping call append it to a queue it is not in. `WaitersSleep` (whoever waits has a call to finish) and
`IsrContext` (a firing timer means a handler is active) carry `TimerBelongsToWait` over preemption. Priorities are
restored by every step that leaves the interrupt context (`MostUrgent`), not by handlers, hence the implication.

The argument has three layers: lemmas on sequences (`DropFirst`, `DropLast`, `AppendNew`, `DequeueOne`, in `Queues_proofs`);
lemmas on the scheduler's primitives and on queues (`RescheduleRestores`, `WakeupRestores`, `SleepSwitches`, `ServeQueue`, `ResetQueue`,
`EnqueueQueue`, `DequeueQueue`); one lemma per action. The two bundles `WokenInv` (a step that readies some waiting threads
and reschedules) and `SleptInv` (one that ends in a sleep) are where the actions meet the invariant.

`ChSem_proofs` also proves `Implements`: every behaviour of `ChSem` is one of the token pool `Semaphore`, which the run `sem`
checks as `ImplementsSemaphore`. The mapping reads tokens off the counter when it is positive, the line off the queue, and
a thread's outcome off its state and union while its call is not finished, off what the call returned afterwards. The hard part
is the outcome, because the union of a thread is also where a queue is noted: lemmas say what waking a thread
(`OutcomeWoken`), leaving it (`OutcomeKept`), telling it (`OutcomeTold`) and putting it to sleep (`OutcomeSlept`) do to it;
one lemma per operation (`...Maps`) finds the abstract step, or none; `StepMaps` collects them under `IInv`, without which
the line and the waiting threads would not agree.

`ChMtx_proofs` proves the five invariants of the run `mtx_safety`, for any number of threads, mutexes and
condition variables and any priorities.

* `TypeCorrect` and `OwnershipIsConsistent` need no more than the assumptions on the constants. The inductive invariant
  `MtxInv` has one part per kind of state: one running thread (`OneCurrent`), queues that hold who waits there (`Lines`),
  owners and lists that agree (`Owned`), no forgotten waiter (`Free`), what the call of a sleeper says about it
  (`CallsHold`), timers (`SleepersCall`, `TimersHold`). The parts take the values they speak of as parameters: `chCondWaitS`
  passes through a state in which the mutex is given back and the wait not begun, and `chMtxUnlockAllS` hands over several
  mutexes at once. They need each other: that the head of a queue is not the running thread comes from `Lines`, that the
  mutex it waits for is the one its call names from `CallsHold`, and that the mutex goes in front of a list it is not in
  from `Owned`. `TimersHold` says that no timer bounds the wait for a mutex: `wakeup()` has no case that would dequeue it.
  The proof has lemmas on who is in a sorted queue (`Queues_proofs`), on owners (`TakeOwned`, `HandOverOwned`,
  `UnlockAllOwned`) and one `...Keeps` per operation.
* `QueuesAreExact` assumes that the program nests mutexes in one order (`StrictRank`; with equal ranks threads may wait in a
  circle, and the loop of `chMtxLockS` may come to one queue twice). The difficulty is that this loop moves many threads, one after the other, in queues
  sorted by the priorities it changes: this is right only if no queue holds two of them. `Nests` (a waiter holds only mutexes
  below the one it waits for) and `Reach` (the part of the loop that starts at a thread) give it: of two boosted threads one
  is reached from the other (`Comparable`), and from a waiter of a mutex only owners of higher ones are (`ReachFromMutex`), so
  two in one queue are the same (`OneEach`). Then `Sorted` is kept, one lemma `...Sorted` per operation.
* `InheritanceIsExact` and `MostUrgentRuns` also assume that no owner changes its own priority (`~OwnersMay`), without which
  finding 3 refutes them. `Inherits` says the two halves apart: no owner is below a waiter (`AtLeast`), and a priority above
  one's own comes from a waiter (`AtMost`). The boosted set is the least closed one, and both halves of the proof for
  `chMtxLockS` are that: closed, so no owner on the way is forgotten; least, so each boosted thread but the first has a
  boosted waiter (`LockSleepInherits`). `chMtxUnlockS` looks at the heads of the other queues only, which is enough because
  these are sorted (`UnlockLeaves`), and it compares the new owner with the running thread only, which is enough because what the
  running thread loses it had from a waiter (`UnlockSched`).

`ChThreads_proofs` proves the six invariants of the runs `thd_static` and `thd_dynamic`, for any number of threads and any
bounds, under a hypothesis that finding 4 forces: nobody walks a registry with dynamic threads in it (`Discipline`), and for
`RegistryIsExact` there are none. The invariant `ThreadsInv` is one formula because its parts lean on each other:

* `JoinSeesExitCode` needs the memory of the awaited thread to stay (`CountsHold`), because a woken joiner reads the exit code
  from it when it runs; that memory stays because a count is at least the number of calls that use it, `Used`, and is freed
  by a call that is alone with it (`FreesHold`). `Used` is a cardinality: `Count` and its lemmas say what one call more or
  less does to it, which is why the threads are assumed to be finitely many.
* `Alone` follows one release through its four unlocked steps: the count is zero, the thread over, nobody waits for it and no
  second release is at it. Another thread's step can break this only by finding the thread, in the registry or by
  a reference it does not hold: `Discipline` and the guard `Held` exclude the two.
* Joins need that a joiner is on exactly the list of the thread it waits for, that the list of a thread that is over is empty
  (`NoJoinerForgotten`), and that a thread sleeps in `chThdWait` only with a join in progress (`JoinsHold`).
* The registry is a ring: `Ring(newer, older, Nodes)` says that the links are inverse to each other, lead from node to node,
  and that a set of nodes that holds the header and is closed under `newer` is all of them. The last part replaces the
  recursive notion "reached in some number of steps": inserting and unlinking (`chregistry.c`) keep it by extending or
  shrinking such a set. `RegistryExact` follows the links by a recursive function. Induction over its argument is replaced by
  the least counterexample (`Smallest`): that the walk exists (`WalkExists`), stays in the ring and, by the pigeonhole
  principle, meets all of it (`WalkMeetsAll`).

`ChWaits_proofs` proves the five properties of the run `thd_sync` for any number of threads, references, queues, servers,
events and listeners, with no hypothesis beyond the assumptions on the constants. Two of these deserve a word: every listener has
at least one event to set in its thread (`ElEvents`), as every registration has in the source (`lwipthread.c:260` and `:261`):
a listener without one would never hear of its flags, against `EventsNotLost`. And the value `None` is no thread and no wait.

* `KernelHolds` says of each thread what its union may hold in its state (`UnionOf`), that it is in a call from its sleep until
  it runs again, and which waits have a timer. The four other parts (`RefsHold`, `TQueuesHold`, `MsgsHold`, `EventsHold`) are
  about one kind of object each; what they share is the thread. So a step is described by its frame: the threads it is not
  about at most trade the processor (`Others`), and each part is kept by every step that leaves its threads alone. An
  operation then only has to be proved for the kind it belongs to, and a time-out, which may end any wait, is taken by cases.
* `OneCall` (a server in `chMsgWait` does not wait for events as well): when one of these calls ends, the thread is in no
  other one that still relied on its sleep.
* `MessagesAreExact` needs both directions between a sender's state and its place, and that a server woken in `chMsgWait` finds
  its queue not empty, whatever happened between the wake-up and its turn: nothing takes a sender out but the server.
* `AnswersAreKept` is an action property. It follows from the invariant because whoever writes a union finds its thread by a
  reference, a queue, a server or a timer, and the invariant says that such a thread is asleep.

The second half of `ChSem_proofs` proves the safety properties of the run `mboxes` for any number of threads, slots and messages, if a
mailbox is not reset while a call that was granted a slot has not finished (`~ResetAnyTime`, the program's duty noted in
section 4, without which TLC refutes the refinement).

* `MBInv` takes `IInv` of the semaphores as it is: a mailbox call changes them by the steps the first half has lemmas for. It adds
  which call a thread sleeps in (`CallsHold`) and the slots (`RingHolds`): each semaphore stands for `Have` slots, its counter if
  positive and one for each thread that was granted a token and has not used it (`Takers`). A grant moves a slot from the first
  summand to the second, a handler or a thread that does not wait changes the first alone, and the late end of a call the
  second alone; together they are always the ring. That the sets of granted threads are finite is part of the
  invariant, since only as many grants exist as slots: the number of threads needs no bound.
* `MailboxIsAChannel`: the content of the channel is what lies from the read place on, `Filled` messages long. `PutContent`,
  `AheadContent` and `TakeContent` say what writing one slot and moving one place does to it; they need that places less than a
  round apart differ (`Apart`) and compose (`Onward`). A granted call finds its slot because of the invariant alone: it does not look.

`ChVT_proofs` proves `TypeCorrect` and `DeltaListIsExact` for any number of timers, any width of the counter and any delays
that `TimeAssumption` allows, also when nothing keeps `vt_lasttime` close to the time (`BaseMayAge`): finding 5 is about
alarms, not about the list.

* `DeltaListExact` speaks of running sums. The invariant says the same of neighbours (`Chain`): from the time that one timer is
  due at, or `vt_lasttime` for the first, its distance leads to the time the next one is due at, modulo the counter. That is
  inductive, and each operation disturbs it in at most two places: `ChainWithout` (a timer leaves and the next takes its
  distance over), `ChainPlaced` (one joins and takes its distance from the next), `ChainTail` (the first expires and
  `vt_lasttime` moves to it). That time passes changes nothing (`ExactPassing`), because `left` shrinks by what `time` grows.
* The scan of `chVTDoSetI` is a recursive function. That it exists (`SumsExist`), that what is left of the distance is
  counted from the timer it has come to (`ScanSame`), and that it stops where that is neither negative nor more than the distance
  it is taken from (`ScanStops`) are each shown by a least counterexample, and so is that the sums follow from the chain
  (`SumsAlongChain`).
* `CallbacksInWindow` is about the alarm: no callback is early or later than `MaxLate`, no armed timer waits for an alarm
  that does not come, and the header is never taken for a timer. It holds while `vt_lasttime` is kept close to the time
  (`~BaseMayAge`); finding 5 is what happens otherwise. Its invariant `WInv` adds three parts to the first one. `Window`:
  the list is ordered by due time, the first timer is not due before `vt_lasttime`, and none so far away that the
  counter wraps before it. From this it follows that the distances are exact, not only modulo the counter (`GapsExact`), so that
  the scan, which compares distances, finds the place by due time (`PlacedOrdered`). `AlarmHolds`: a list that is not empty has
  its comparator enabled, and either the alarm is still to come, at most `TimeDelta - 1` ticks after the first timer is due,
  or its match is pending or served, and the timer is late by at most that and the latency so far. `HeaderHolds`: when an
  interrupt still finds an emptied list, little enough time has passed since `vt_lasttime` for the loop to stop at the header.
* Each call is split into what it does to the list and its alarm (`DisarmedWindow`, `SetWindow`), which is to keep the alarm
  for a timer that is no later, or to program one at least `TimeDelta` ticks ahead, and the ticks that pass meanwhile
  (`Carried`): an alarm `TimeDelta` ahead is not missed because `Slip < TimeDelta`, the assumption the code makes.
* `Same(a, b)` is equality modulo `Wrap`. `Division` shows that every integer is a multiple and a rest, from which
  `RestOfSum` and `SameSum` follow.

`LwipThread_proofs` proves the four invariants of the run `lwip`, and `ThreadInvariant` from which the
first two follow, for rings of any size, any mailbox, any number of buffers and any time-out:

* `RingsAlwaysAgree`. The statement says which descriptors are full in terms of pointers that wrap. The invariant says that
  the descriptors that are not the DMA's, apart from the one a thread holds, are a *run* of the ring: `Run(p, n, N)` is `n`
  slots from `p` modulo `N`, and the DMA's pointer is where it ends (`RxInv`; `TxInv` is the same for transmission, with the
  locked descriptors of senders). Lemmas tell what adding at the end (`RunEnd`), taking the first (`RunFirst`), dropping one
  (`RunDrop`), filling the ring (`RunFull`) and skipping slots (`PurgedIsRun`) do to a run; each step of the driver is one
  of these. `SndInv` ties what a sender holds to where it is in its call.
* `NoFrameForgotten` needs `Handed` (the thread has at most one frame in its hands, and only between taking and passing it)
  and `Registered` (it registers its listener before it waits): without the second an event broadcast early would be lost.
* `BuffersConserved` counts the packets in the mailbox by the cardinality of their positions: `PacketsAppend` and
  `PacketsTail` say that posting adds one and fetching removes one.
* `LwTypeCorrect` rests on the two invariants before. `LwTypeOK` bounds the times of a sender, and says of a sleeping one that
  what its timer still has to run and what it has slept add up to its time-out, or that it has no timer and its time-out is
  `TIME_INFINITE`. The argument is the loop's: it sleeps only with time left, and what `Remaining` leaves stays in the range of
  the clock, also when it wraps (`RemainingRange`). That a tick leaves a queue of senders
  (`StillInType`) is again shown by a least counterexample.

`HttpServer_proofs` proves the three invariants of the run `http`, for any clients, requests, files, header names and limits, from
`HttpAssumption` alone. Each has an inductive invariant of its own, on top of the one before.

* `HttpTypeCorrect` (`HttpInv`). That the server reads only what has arrived is inductive by itself (`StreamHolds`). That an
  open connection waits for `accept()` or is the one that is served holds only if none waits twice, nor waits while it is served
  (`LinksHold`). No word outgrows its buffer because one that has reached its limit is complete (`WordFits`). The position in
  a file never passes its end by `ChunkWithin`, and because a file is open only while an answer is sent (`AnswerHolds`).
* `AnswersComplete` (`AnswersMatch`). `Tracks` says what is known of a word while it is read: how many of its characters were
  counted and which are in the buffer, as a function of the place behind which it is looked for, its first character, its
  delimiter and the place reached. What is due depends on what arrived in the end, which nobody knows while more may arrive:
  `AnswerState` therefore says, at each stage of a connection, that what was parsed and sent is right for *every* length that may
  still be reached (`Lengths`), and `CutMethod` and `CutUri` that a word that was read to its end is the same in all of them.
  From there on an invariant of the loop over the file is enough (`Gives`): what was sent and is to be sent begins with what is
  due and goes on with body only, which lacks as many bytes of the page and the file as are still to be
  read (`GivesGrows`, `TotalAppend`).
* `HeaderParsed` (`HeaderAsSent`). `HeaderState` says that the word being read is one of the request's lines, at its place
  (`Context`), and that the headers found are those of the lines above it (`HeadersUpTo`), of two with one name the later. The work is
  in showing that the reader's places and the grammar's are the same: behind the end of a line stands a name with its colon, or
  the empty line (`NameSpan`), and behind a colon the end of that line (`ValueSpan`).

The grammar is stated with least places (`Begin`, `End`) and the folds over a text with functions (`Clean`, `Total`), so that every
induction is again a least counterexample. The proof of `AnswersMatch` found a case the model had wrong, which no instance that
was checked had: with a file named "" the model could answer with the file, where `HttpdClientHandler` asks the redirector
first (`uhttpd.c:596`). `Serve` has that order now.

`Smallest` (every nonempty set of naturals has a least element, in `Queues_proofs`), from which those proofs take every induction they
need, is itself proved, by the pigeonhole principle of finite sets.

**Only model-checked.** All liveness (`UrgentGetsMutex`, `NoWaiterStarves`, `LinkFollowed`, `CallsReturn`,
`EveryoneServed`), which the provers do not do. Every other invariant and action property of a passing run is a theorem.

## 6. Plan

The order in which the project was built, most important behaviour first: the scheduler's primitives and the semaphore with
its proof; mutexes and condition variables; threads and registry; mailboxes; virtual timers; the other ways to wait
(references, queues, messages, events) in one composition; the Ethernet driver and the lwIP thread; the HTTP server; the
proofs of the semaphore's refinement, of the driver and of the mutexes; those of the threads, of the composed waits and of the
mailboxes; those of the delta list and of its alarm; the type of the lwIP
thread and of the HTTP server; the HTTP server's answers and headers.

What is left, in this order:

1. The ready list as the sequence it is, refining the set of `ChCore`: what `chSchDoRescheduleBehind` and
   `chSchDoRescheduleAhead` promise a thread of equal priority with `CH_CFG_TIME_QUANTUM`.
2. `SYS_ARCH` times and freeing a mailbox somebody waits on, with the stack's connections as their caller.
3. The heap and the pools as lists of blocks, refining the set of free blocks of `ChThreads`; the I/O queues with the
   serial driver that the test suite writes to.
