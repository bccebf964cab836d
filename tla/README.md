# TLA+ verification of NURL's runtime

NURL is a self-hosted compiler, a C runtime with an M:N fiber scheduler and a
netpoller, runtimes for WebAssembly and for a unikernel, and a standard library
written in NURL. This project models the runtime: scheduling and waiting, memory
and panics, sockets and processes, and what stands in for an operating system on
the freestanding targets; of the library, channels with `select` and the lease
fence. TLC checks the models on small instances; TLAPS proves the safety of fiber
ownership and of the lease fence for every instance.

`PROJECT.json` maps every definition to the source lines it models and lists
the runs, the mutants each property is tested against, the hazards, the findings
and the theorems. Paths are relative to the repository; `ffi`, `core` and `bare`
stand for `stdlib/runtime_ffi.c`, `stdlib/runtime_core.c` and
`unikernel/runtime_bare.c`.

## 1. Inventory

| Component | State | Operations | What makes it correct |
|---|---|---|---|
| Fiber lifecycle, `ffi` §24 | `NurlFiber` (state, joinable, released, detached, pending unlock), live count | spawn, resume, yield, park with a mutex, unpark, finish, join, detach, `runtime_run` | one owner at a time, suspended before anybody can resume it, freed once, exact live count |
| Run queues and workers, `ffi` §24 | a FIFO per worker, a global FIFO, stamps, idle count, poller lease | push, pop oldest, batch, steal, idle park, wake, shutdown | no fiber lost or copied, queues in order, no lost wake-up, shutdown ends |
| Netpoller, `ffi` §25 | a slot per descriptor, ready bits, timer heap, sleeping flag, eventfd | wait, register, activate, poll, deliver, expire, probe, close, poke | no edge or deadline lost, each wait woken once, a reused number registered anew |
| Timer heap, `ffi` §25 | array with back indices | push, remove from anywhere, expire | the earliest first, every index right |
| poll(2) reactor, `ffi` | wait entries, a free list, a wake pipe, a thread | wait, activate, round, wake, shutdown | claimed once, covered while asleep, results true |
| Condition variable, `nurl_fcond_*` | nodes on fiber stacks, a spinlock, an OS condition variable | wait with or without a deadline, signal, broadcast | no token stranded, runnable once, no dead node reached |
| Channels and select, `stdlib/std/channel.nu`, `compiler/nurlc.nu` | items, closed flag, waiting fibers, armed selects | send, recv, try_recv, close, select | FIFO, each item once, receivers served, a select never sleeps through a ready case |
| Lease fence, `stdlib/dist/lease.nu` | epoch and applied tasks per key | admit | effects at most once and in epoch order |
| Small-block allocator, `core` | size-class caches, stashes and counters per thread | alloc, free, realloc, thread exit | one holder per block, totals exact, caches within budget |
| Panics, `core` §9b, §20 | recover frames, the two journals, the drain's record | register, end, panic, drain, switch | each value dropped once, none left, the jump lands in the fiber's own frame |
| Rc cycles, `core`, `stdlib/std/rc.nu` | counts, root buffer, deferred list | clone, drop, downgrade, collect, end | no use after free, counts exact, nothing left at the end |
| Closure environments, `core` | captured values and inner environments | make, copy, hand over, drop, panic | what outlives its frame owns what it captures |
| Crossing check, `core` | open-addressed table of blocks | walk, grow, verdict | a value crosses iff no owner of it stays |
| Guarded memory, `core` | tables of ranges and code, SIGSEGV handler | reserve, commit, register, fault, release | a fault lands in the stub of its own function |
| Output and captures, `core` | stdout, the shared buffer, capture frames | print, flush, start, stop, unwind | whole lines in order, captures exact |
| Fiber stacks, spin budget, `ffi` | recycled stacks, estimates | take, recycle, trim; observe | a recycled stack has the limit its header says; spinning bounded |
| Reader-writer lock, `ffi` §19b | the OS lock, the table of each holder | rdlock, wrlock, try forms, unlock | nobody waits for itself, tables exact |
| Resolver and connect, `ffi` | job queue, pool threads, per-call job | submit, wait, time out, answer, fork | a job freed once, by the last who uses it; a connect ends |
| TCP listener, `ffi`, `stdlib/std/net.nu` | counters, wake channel, descriptor | accept, stop, close | no accept on a descriptor that is not its own; a stop ends |
| TCP connection, `ffi` | idle timeouts, write deadline, mode | read, write, sendfile, wait, shut down | a deadline bounds the whole write; timeouts do not leak |
| Datagrams and name lists, `ffi` | sockets, addresses | bind, connect, send, receive, resolve | an answer reaches whoever sent |
| Signals, `ffi` §21 | pending flags, slots, self-pipe | OS handler, register, dispatch, drain | pending until handled, environments owned |
| Windows processes, `ffi` §16 | pipes, an overlapped read, reader threads | spawn, read line, write, free, run; quoting | output whole, frees end, arguments arrive |
| WebAssembly threads and heap, `ffi`, `stdlib/runtime_wasm_alloc.c` | words, fiber blocks; free list | lock, wait, spawn, join, run; malloc, free | no lost wake, blocks held; heap tiled and merged |
| Unikernel scheduler, `bare` | run queue, timer list, objects' queues, main's place | every call of the hosted surface, on coroutines | in one queue, reachable, turns kept, deadlocks real |
| Unikernel files, `unikernel/boot/vfs.c`, `initfs.c` | archive, disk, descriptors, directories, redirections | open, read, write, list, stat, dup2 | listings whole, precedence kept, redirects open |
| Unikernel memory, clock, devices | page list, heap, page tables; TSC rate, APIC; virtqueue, device tree | mmap, malloc, stacks; nanosleep; read entropy, probe | memory usable, sleeps never short, fresh bytes, exact tree |
| `Locked`, `Semaphore`, pool, supervisor, CRDTs, ring and jobs, SWIM | – | – | not modelled (section 7) |
| Compiler, containers, cryptography, protocols, packages, tools | – | – | not modelled (section 7) |

The parts meet in three ways: the scheduler resumes what any of the waiting
parts makes runnable; the waiting parts learn of deadlines and readiness from the
netpoller or the reactor; memory, panics and counts are per thread and are
exchanged when a worker switches fibers. The hard behaviours, by kind: a fiber is
published while its worker still holds it; a thread decides to sleep on what it
read before; an event, a deadline, a wake and a close race for one waiter; a
number, an address or a ring index is reused; destructors run inside a drain or
a release; a select spans several critical sections; an owner does not know it was
replaced. The `hazards` list has each at its line.

## 2. Modules

One action is one critical section or one atomic access of the code, so that the
interleavings between them are all there; sequential parts have one action per
call. Beside a definition stand its faulty forms: the mutants of section 3, and a
few more that were used to try single conjuncts of the combined properties.

**FiberLife** (with its proofs). Actors are worker threads and other OS threads.
`pc[w] = "next"` is the worker loop's choice, `"body"` user code on the fiber
`cur[w]`, `"swap"` the switch, `"loop"` the code after it. One wait list behind one
mutex stands for all of them. An address is not reused, so a use after free shows
as a touch of a `"freed"` fiber. A handle is joined or detached once (`Fiber` in
`stdlib/std/async.nu` is move-only).

**RunQueues, RunQueuesProofs.** `Netpoller` chooses the build. `Choose` is `nurl__worker_next`;
`ReadHead`/`PopOldest` split `nurl__rq_pop_oldest` at its unlocked read of the
global head. With the netpoller an idle worker takes the lease (`TakeLease` ..
`ReleaseLease`); `Signal` and `PokeIfSleeping` are the halves of `nurl__wake_one`.

**Netpoll** (with its proofs). The kernel is explicit: a socket behind a number, its levels, the
epoll set and its edges. A wait goes `Call`, `Io` (EAGAIN), `WaitFast` or
`WaitPark`, `Activate` by its worker after the switch, `PokeCheck`; the pass is
`TakeLease`, `PollHeap`, `Arm`, `EpollReturn`, `Deliver`, `HandOut`. `unseen` is a
history variable: the deadlines set in the window in which the code sends no poke.
The heap is a set here; its array is **TimerHeap**'s, with recursive operators.

**PollReactor.** The same contract in the builds without a netpoller: one round is
`Build`, `PollReturns`, `Drain`, `Walk`, `UnparkOne`, `Recycle`, cut where the lock is
dropped; `Activate` and `Poke` are the worker's, `Wake` is `nurl_fiber_wake`. A walk over
the list is `Only`, a filter written as a recursive function so that it can be proved about.

**FCond.** The program around it is a counter of tokens behind a mutex.
`FiberQueue` .. `Back` are `nurl_fcond_wait_ms` with the timed park, `Probe` ..
`CvSignal` signal and broadcast. The spinlock is a variable: a waker holds it over
several steps. `Back` unlinks the caller's own node, the first that is its own
(`RemoveFirst`), as `nurl__fcond_unlink_locked` does.

**ChannelSpec, Channel, ChannelProofs.** `ChannelSpec` is the promise: FIFO queues, a
receive that takes the oldest item or ends when closed and drained, and fairness.
`Channel` is the code, with the select statement as `gen_select` compiles it.
`ServesReceivers` is the refinement (`INSTANCE ChannelSpec WITH want <- chan`).

**LeaseFence** (with its proofs). `lease_admit` has one action per branch;
`performed` records the effects. Requests come in any order, any number of times.

**SmallAlloc, PanicJournal, CycleCollector, ClosureEnv, SendCheck.** Memory of the
core runtime. SmallAlloc keeps the sizes in classes and libc's chunks larger than
asked; a join of the counters' list is two steps. PanicJournal has the C stack of
frames, drains and destructors of every fiber on one worker, and the thread-locals
`nurl__rctx_swap` exchanges apart from those it leaves. CycleCollector keeps the
heap in one record; each step of a release or a collection drops one edge.

**GuardMem, OutBuffer, StackCache, SpinPark, RwLock.** Tables the fault handler
reads under its lock; prints as tokens with the lock held across a line; stacks in
pages for Windows and POSIX; the spin estimate in its own integer arithmetic; the
lock's holders over three kinds of OS lock (RwLock with its proofs).

**Resolver, Listener, TcpConn, Udp, Signals.** Sockets and signals. A job has an
owner until it is abandoned; an accept reads the descriptor after it is counted; a
write is a sequence of attempts with what is left of the deadline; datagrams carry
socket addresses that are converted both ways; an OS handler runs between any two
steps.

**ProcChild, ProcRun, CommandLine.** The Win32 backend: a read in flight across
calls, two reader threads, either of which may not start, against a writer with small
pipes, and the command line as
native programs and `cmd.exe` cut it up again.

**WasmThreads, WasmHeap.** Futex words with `wait32`, fibers as threads, and the free
list of the linear memory in units.

**BareSched, GuestClock.** Coroutines and main on one context; `Programs` chooses
which families of calls a behaviour uses. A clock in TSC ticks, interrupts pending
across `sti; hlt`.

**Vfs, StdRedirect, PageAlloc, GuestHeap, GuestPaging, VirtioRng, DeviceTree.** The
unikernel's files over archive and disk with getdents cut anywhere; redirections;
pages, classes and page tables in small units; a ring whose index wraps at 4; device
trees with cells in any order. PageAlloc holds the operators of `pagealloc.c`, which
GuestHeap and GuestPaging use. The disk in Vfs is `unikernel/fs/disk.nu` over
`stdlib/fs/fatfs.nu`, mounted for writing, by its entries and handles: a handle has a
position and a size of its own, which the entry learns at fsync and close. A program in
the model does not remove, rename or replace what it has open on the disk, and renames
files only.

**Suites.** RuntimeMC, GuestMC, WaitMC and LiveMC each hold several
components. `part` says of which one a behaviour is: only that component's
variables are used and move, the others are 0. A suite is therefore the union
of its components' state spaces, and its properties say of each component what one
common promise means for it. What WaitMC says of its components is proved in
**LifetimeProofs** (conditions, resolver, listener, children) and **WaitProofs** (the rest).

## 3. Runs

| Run | Instance | What it shows |
|---|---|---|
| `fiber_life` | 2 fibers, 2 workers, 1 thread, fair | no use after free, queued and woken fibers suspended, exact live count; finished fibers freed, joins return |
| `rq` | poll(2) build, 3 fibers, 2 workers, 1 thread, 3 pushes, fair | one place, queues in order, no lost wake-up with an exact idle count, every queued fiber runs, shutdown ends |
| `polling` | netpoller build, 2 workers, 2 fibers; one socket in both directions | readiness reaches, woken once, no oversleep |
| `channel` | 2 fibers (one selects), 1 thread, 2 channels, 2 items, fair | nobody stranded, selects hear, ChannelSpec implemented, a select with a closed case returns |
| `runtime` | 13 components, the netpoller build's queues with 2 workers, 2 fibers and 4 pushes among them | the lease fence (3 properties); `OneOwner`, `NothingLost`, `LandsRight`, `KeptExact`, `HandedOutOnce` over the core runtime |
| `guest` | 11 components | `MemoryUsable`, `ReadsExact`, `WakesReach`, `RepliesReachSender`, `AnswersFresh` |
| `waits` | 9 components | `NoTokenStranded`, `WokenOnce`, `WakeIsComing`, `UsesWhatIsOwn`, `TimeoutsMean`, `OutputArrives`, `TurnsKept` |
| `live` | 11 components, fair | `WaitsEnd`, `CallsAnswered` |
| `rq_lost`, `channel_select_none`, `weak_in_graph`, `wasm_run` | – | expected to be violated: section 6 |

Every property of a passing run has a mutant: a faulty form of one definition, kept
beside the right one, that TLC must reject. The comment above each combined property
says what it means for each part.

**Bounds.** Two workers are what stealing, peers and a poller beside a running
worker need; three fibers give a queue of two and one running, the least a steal
takes from. `MaxStamp` caps pushes, `MaxSends` items, `MaxPosts` tokens, `MaxOpens`
how often a number is given to a socket, `MaxTime` and `MaxClock` the clock (each
reaches a deadline and the tick after it). `LocalShare` is 1 instead of 8 so that a
spill happens with three fibers; `MaxEvents` 1 or 2 instead of 128 so that epoll has
something left. Table and cache sizes are shrunk so that each is full, and grows or
overflows, within the bound: one stash, two capture frames, tables of two, a hash
table of two slots that doubles, a root buffer of two, a nesting depth of one, stacks
of three pages trimmed every third time, three free-list holes, a ring of two with
indices modulo 4, pipes of one or two bytes. Word widths are kept by small moduli
(`WordMax`, `CellMod`, `IdxMod`), with sizes up to the largest word so that the guards
against wrapping are met. `MaxOps`, `MaxCalls`, `MaxAllocs`, `MaxLives`, `MaxRaises` and
their like cap calls in a behaviour, at the length in which a resource is given,
returned and given again with another in between. Six constants restrict the
environment and name the gaps of section 6: `LatePush`, `LateSignal`, `Shared`,
`DropsAllocate`, `FiberReuse`, `SelfClearing`, and `WeakInGraph` with a run of its own.
Symmetry is used in safety runs only, over sets the specifications treat alike.
`CHECK_DEADLOCK FALSE` stands where a program may simply have nothing left to do.

**Fairness.** Weak fairness of the steps a thread takes inside the runtime: the OS
schedules it, and none of these steps waits for user code. In RunQueues also of
fiber bodies, which come to their end or switch out, and in BareSched of what a
coroutine does between its calls; in ProcRun of the child and in ProcChild of the
kernel's completion. User calls, I/O readiness, spurious wakes, posts, opens and
closes are never fair; that `getaddrinfo` returns is assumed only where
`CallsAnswered` says so. Strong fairness is used for what competes again and again: a
mutex or spinlock asked for in a loop (FCond), a reactor's poll that pokes restart,
and in Netpoll a worker that polls when idle and every sixteenth dispatch, and that
runs a queued fiber in the end. In LiveMC one fairness conjunct speaks of a step of
each component (`Of`), over the variables of the one that moves (`Here`): a behaviour
is of a single component, so this is each module's own fairness.

## 4. Proofs

`FiberLife`, for all sets of fibers, workers and threads, from
`DistinctAssumption` (the null values are not members, a worker is not another
thread) and, for the count, `FiniteAssumption`:

- `NoUseAfterFreeHolds`, `QueuedIsSuspendedHolds`, `WokenIsSuspendedHolds`,
  `PendingExactHolds`: the four invariants of run `fiber_life`.
- They follow from `LifeSafety`, the inductive invariant `LifeInv`. None of the
  four is inductive alone: that a joiner may free a fiber needs that no worker is
  on its way to do so, which needs that `released` is set once, by the worker
  that is through with it, and that a handle is used up by one join or one
  detach; that a waker finds a saved context needs that the mutex belongs to the
  parking fiber's worker until its loop releases it. `LifeInv` says for every
  place an actor can be in which fibers it owns and what is then true of them
  (`WorkerInv`, `CallInv`), for every other place a fiber can be (`QueueInv`,
  `WaitInv`, `UnbornInv`), who holds the mutex (`MutexInv`) and how far the
  handshake is (`HandshakeInv`).
- One lemma per action, one step per conjunct. `PendingExactHolds` shows that
  only a spawn adds to the counted fibers and only `PendingDec` takes one out.

`LeaseFence`, for all sets of keys and tasks and all integer epochs
(`EpochsAssumption`): `AtMostOnceHolds`, `EffectsOrdered`, `FenceMonotone`. The
inductive invariant `LeaseInv` adds `HistoryMatches`: what was performed for a key
is among its applied tasks and not above its token.

`ChannelProofs`, for all sets of channels, all finite and disjoint sets of fibers
and threads (`ChannelAssumption`; a process has finitely many of either), any
non-empty list of select cases and any number of sends:

- `NoneStrandedHolds`, `SelectHearsHolds`: the two invariants of run `channel`;
  `QueuesRefine`: every step of the code is a step or a stutter of ChannelSpec's
  queues, which is the safety part of `ServesReceivers`.
- They follow from `ChannelSafety`, the inductive invariant `ChannelInv`. That
  enough receivers are on their way needs that whoever is on a channel's list or
  condition variable is blocked on that channel and is there once (`ParkedInv`, with
  `CallInv` for what a place in the code says of an actor); that a select sleeps
  safely needs what its armed poll has seen so far (`SelectInv`): as long as its
  waiter is unfired, every case before the one it is at is still empty and open.
- `NoneStranded` is an inequality between cardinalities: an item sent adds one
  and either wakes one waiter or finds none asleep; an item taken is taken by one
  of those on their way.

`RunQueuesProofs`, for all finite sets of fibers and workers and all sets of other
threads (`BoundsAssumption`):

- `OnePlaceHolds` and `IdleCountHolds` in both builds: a fiber is in one queue or
  batch, on one worker or waiting for I/O, however it is pushed, accepted,
  displaced, stolen, taken in a batch, spilled or handed out; `idle_waiters` is
  the number of workers in the condition wait.
- `OrderHolds` and `WakeupsHold` for the build without the netpoller
  (`ASSUME ~Netpoller`), in which run `rq` checks them. In the netpoller build
  neither is true: section 6 has the run that shows the lost wake-up (`rq_lost`)
  and the order the poller's own queue loses.
- Of both builds the inductive invariant is `PlaceInv`: where a worker holds a
  fiber (`HeldInv`) and the places fiber by fiber (`Apart`). Of the other build it is
  `PlainInv` beside it: no poller pass, a worker that found its own queue empty finds
  it empty until it has a fiber again (`OwnEmpty`), whoever is about to signal has a
  signal to give (`WantInv`), the global queue holds something only while a worker is
  up or a signal is on its way (`SomeoneUp`), stamps come from the clock (`Stamps`).

`LifetimeProofs`: what waiters lend and share outlives its use. About FCond, for all
finite sets of fibers, threads and posters (`FCondAssumption`):

- `WakesHold`, `RunnableOnceHolds`, `NodeAliveHolds` with signals under the mutex
  or after it: a park is claimed once, and a waker reaches only nodes of fibers
  still inside the wait. The inductive invariant `WakeInv` says who holds the mutex
  and the spinlock, that the list has no node twice and only nodes of fibers
  between queueing and unlinking, and what `park_state` says of the place a fiber
  is in.
- `NoTokenStrandedHolds` and `ParkedReachableHolds` for signals under the mutex
  (`ASSUME ~LateSignal`; without it neither is true, see section 6). `TokenInv` adds
  that a signal holds the mutex until it has found somebody (`HeldBySignal`), that a
  queued or parked fiber is on the list, in a waker's hand or claimed (`Found`), and
  the count itself (`EnoughLook`).

About the resolver, the listener and children, which WaitMC checks beside FCond.
The constants WaitMC gives its components are constrained only to what they are
(`LookupAssumption`, `ListenAssumption`, `ConnAssumption`, `ReactorAssumption`,
`ChildAssumption`, `RunAssumption`, `GuestAssumption`: times, sizes and counts are
natural numbers, a millisecond, a clock period and a timer's count are not 0, the null
values are no members). Each component has an inductive invariant, and `Only...Moves`
says that in a behaviour of that component nothing else moves:

- `UsesWhatIsOwnHolds`, from `LookupsHold` and `ListenHolds`. That a job is freed once
  and by its last user needs, of every job, who of caller, queue and pool thread has
  it and what the flags `done` and `abandoned` say to each (`LookupInv`). That an accept
  reads no closed descriptor needs that the count of accepts is exact while the stop
  waits for it, that the descriptor stays the listener's until then, and that references
  outlive their users (`ListenInv`).
- `OutputArrivesHolds`, from `ChildHolds` and `RunsHold`. Of a run: what a stream's
  reader has collected and what is in its pipe is what the child wrote, and a stream
  whose reader thread did not start has nothing collected; so what comes back of a
  stream is all of it, or, in that one case, nothing. Of a spawned child: what was
  handed out, what is kept in `scratch`, what the overlapped read holds and what is in the pipe make up, in
  this order, what the child wrote. The invariant says for each place in a call which of
  these parts the call has in its hands, and that the buffer is there while the kernel
  may write to it. That a line is whole needs what `FirstNl` finds; it is proved from the
  least counterexample (`LeastOf`), which takes the place of an induction.

`Netpoll`, for all sets of descriptors, fibers, workers and directions, all
timeouts, any length of the event array, any number of reuses of a number
(`NetpollAssumption`):

- `WokenOnceHolds`, `NoOversleepHolds`: two of the invariants of run `polling`, for
  one or several fibers on a direction; and `ParkedFoundHolds`: a parked fiber is
  always in a chain, the heap, the poller's batch or a close's list.
- They follow from `NetSafety`, the inductive invariant `NetInv`. `EntryInv` says
  which lists an entry can be in together (its chain and the heap, nothing else),
  `RunInv` that a ready fiber is queued once and another on one worker, `PollerInv`
  what the poller holds between its steps. `NoOversleep` needs `TimeoutInv`, which is
  about the step before: when the poller is about to sleep, its timeout covers
  every deadline in the heap but those set since it looked (`unseen`), and that the
  worker that owes a poke runs nothing else meanwhile.
- `ReadinessReachesHolds` with one fiber for each direction of a socket
  (`ASSUME ~Shared`; with two, one takes the edge banked for the other, see
  section 6). `EdgeNotLost` speaks of parked fibers; `EdgeInv` follows the claim from
  the EAGAIN on: readiness is on the epoll set's list, in the poller's hands or,
  until the fiber parks, banked in the slot. It says so only of registered
  numbers, since a registration looks at the level itself, which is what makes it hold
  through a close and a reuse of the number under a waiting fiber.

`WaitProofs`: the times and the answers waiters get.

- `TimeoutsMeanHolds`, from `ConnHolds`, `ClockHolds` and `ReactorHolds`. `ConnInv`: the
  kernel's timeouts are those of the handle or marked stale, and the milliseconds set for
  one attempt end less than one millisecond after the deadline, by the rounding of the
  division; `ClockInv`: the same for ticks, and that no interrupt is lost between the
  last look and the halt. `ReactorInv` is the longest: an entry is in one of the list, the
  free list, the reactor's two queues (`ListsRight`); a listed entry and its fiber name
  each other and no `nurl_fiber_wake` has claimed the fiber (`OfFiber`, `FiberRight`); the poll
  set's entries stay listed until the walk, so that a recycled entry's old index cannot
  make another's event its own (`RoundRight`); what was taken off has ended
  (`TakenRight`).
- `ParksWokenOnce` and `SleepersWoken`: `WokenOnce` and `WakeIsComing` of every component
  but BareSched, from `ReactorInv`, `ClockInv` and the invariants of FCond (`WakeInv`; for
  `SleepersWoken` also `TokenInv`, with signals under the mutex). That an entry is in one
  list is there a count (`CountList`), and that pokes stay within their bound needs
  `PokesRight`: pokes on their way and parks yet to be activated are no more than the parks.
- `OnlyKeeps`, what the filter `Only` keeps of a list, is proved from `LeastOf` too.

`RwLock`, for all sets of holders and locks and any number of guards, from
`Sensible` (`NURL_RW_INLINE` is at least 1, and nobody is no holder):

- `RwLockSafe`: the part of `LandsRight` that is about the lock. No holder waits in
  the OS for a lock it has itself, its table counts its guards exactly, the OS lock
  is held exactly while there is a guard, the record has room for its entries, and
  a writer is alone. The inductive invariant `RwInv` adds that a table has one entry
  per lock (`Distinct`), that a holder has at most one write guard on a lock, that
  `writer` and the OS say the same, and for a waiting holder the counts of its guards
  on that lock (`WaitsClean`). `RwLocal` reduces a step to the one holder and the one
  lock it is about; `AppendCount`, `BumpCount`, `DropCount` and `MineAppend`,
  `MineRemove` say what a change of the table or of the guards does to the counts.

A lemma per action shows that it keeps the invariant; its steps are the
invariant's conjuncts. Every inductive invariant was checked by TLC on the runs'
instances before it was proved.

Only model-checked:

- every liveness property (`ServesReceivers`' fairness, `SelectReturns`,
  `EveryQueuedRuns`, `ShutdownCompletes`, `WaitsEnd`, `CallsAnswered`), which is outside
  this prover;
- of `WokenOnce` and `WakeIsComing` the part about BareSched, and `TurnsKept`, which is
  about BareSched alone: its run queue, timer list, three wait queues and joiners' lists
  are cut up and filtered by `SelectSeq`, of which the prover knows nothing;
- the properties of RuntimeMC but those of LeaseFence and RwLock. The suite reaches
  recursive operators (TimerHeap, CycleCollector), with which the prover loses its
  arithmetic, and what it says of a heap's order or of a graph's colours is a statement about
  what a recursion computes;
- the properties of GuestMC: `MemoryUsable` and `ReadsExact` are about what folds and
  searches over page tables, archives and sectors compute; of `WakesReach` and
  `RepliesReachSender` no proof has been attempted.

## 5. Plan

1. Done: the modules of section 2 and the proofs of section 4.
2. Proofs next: BareSched with filters as functions, `WakesReach` of the guest, then
   `ClosureEnv!NoMisuse` and `FlagKept` of Signals in suites without recursive operators.
3. Then the library over what is here: `Locked` take/restore/await and `Semaphore`
   (`stdlib/std/thread.nu`), the resource pool, the supervisor; CRDTs, ring and job
   dispatch under loss and repetition, composed with LeaseFence; SWIM incarnations.

## 6. Findings

Each of these is the single property of a violation run, and quotes the text it
contradicts in `PROJECT.json`.

- `rq_lost`: a push while the only poller is between its last look at the queues and
  `epoll_wait` wakes nobody (`ffi:9117`).
- `channel_select_none`: a select arm runs with `F` although its channel is open,
  since another receiver took the item between the poll and the receive.
- `weak_in_graph`: a value that owns a Weak of its own block frees it under the
  release that is dropping the value (`stdlib/std/rc.nu:284`).
- `wasm_run`: the root reads the live count before the generation it sleeps on, and
  sleeps on when the last fiber ends in between (`ffi:6146`).

Further gaps the models show, without a run of their own.

*Scheduling and waiting*
- With two workers and the netpoller a fiber the non-blocking poll keeps on the
  poller's own queue (`ffi:8078`) waits while that worker blocks in `epoll_wait`; if the
  worker takes a share of the global queue instead, older fibers land behind it.
- `PopOldest` takes the global head of its own moment, after comparing an earlier one
  (`ffi:7358`; the comment at 7126 says "never").
- `nurl_fiber_join` called on a fiber blocks the worker's OS thread (`ffi:7835`); with
  as many joiners as workers nobody runs what they wait for. It is documented for main.
- `LateSignal`: a signal without the mutex takes a node whose park is not registered
  yet (`ffi:5744`; the comment at 5618 allows such signals).
- `NoOversleep` excepts `unseen`: a deadline set after the poller has read the heap and
  before `sleeping = 1` sends no poke (`ffi:9286`; docs/ASYNC.md:108 promises one).
- `Shared`: of two waiters for one direction, the second parks on a ready descriptor
  (`ffi:8869`). An event returned before a close banks a ready bit on the reset slot
  (`ffi:9174`), which costs one retry. A heap that cannot grow drops the deadline
  (`ffi:8697`).
- `RunWaitsAfterShutdown` of BareSched: shutdown sets the live count to 0 while parked
  coroutines live on (`bare:1256`), so a later `nurl_runtime_run` returns before them.

*Memory and panics*
- `DropsAllocate`: the drain remembers the addresses it freed (`core:3794`); a
  destructor that allocates one of them again has its own free taken for a repeat.
- `nurl__rctx_swap` does not exchange the jump buffer of `nurl_call_code2_sj`
  (`core:10356-10374`, 11025-11030), nor the draining state, which the module models.
- `NothingLost` of OutBuffer: abort paths in the journal, the collector and releases do
  not flush stdout (`core:3702`, 10624, 10872; the comment at 862 says every one does).
- `AlignedReturned` of WasmHeap: what `aligned_alloc` skips at the front of a block is
  not given back (`stdlib/runtime_wasm_alloc.c:201-213`).
- `HandleBlockHeld` of WasmThreads: `pthread_create` stores its handle (`ffi:5881`)
  after a short fiber may have freed the block it goes to (6060).
- The rwlock's message for EDEADLK says the holder writes (`ffi:6315`), also where it
  reads.
- A capture ends at its first NUL: `nurl_print_buf_stop` copies with `strdup`
  (`core:807`), although `nurl_print_bytes` puts NULs into the buffer and its comment
  (`core:935-942`) says that capture is identical. `CaptureExact` of OutBuffer speaks of
  the bytes before it (`CString`).
- The length of `aligned_alloc` may wrap (`stdlib/runtime_wasm_alloc.c:203-204`): the
  block is then shorter than was asked and the header lies outside it. `HeapTiled` and
  `BlockHolds` of WasmHeap except that block, and a behaviour ends with it.

*Sockets, processes, signals*
- `FiberReuse`: a fiber's accept keeps the number it read across its waits
  (`stdlib/std/net.nu:2052`); a stop and another open in between make it somebody
  else's.
- `EverySendWithinDeadline` of TcpConn: `nurl_ktls_send` is not prepared, and
  `nurl_tcp_sendfile` once for all its attempts (`ffi:3512`, 3604; comment at 3076).
- `ClosedReported` of Udp: a group operation on a closed socket reports "other"
  (`ffi:4546`).
- `WakeNotLost` of Signals: the drain (`ffi:6681`) may take the byte of a signal whose
  number the scan has passed; it is handled at the next wake. `SelfClearing`: a handler
  that clears its own slot frees the environment it runs in (`ffi:6635`). The OS handler
  reads the registered listener (`ffi:6504`), which must outlive its registration.
- `NoneMeansNone`, `FreeAlwaysEnds` of ProcChild: an empty line and no line look alike,
  and a free waits for processes the child has left the pipe to (`ffi:1214`).
- A run whose reader thread cannot be started (`ffi:611-612`) goes on without it
  (`ffi:630-631`): the stream comes back empty and the result is OK, and a child that fills the
  pipe is waited for without end. `OutputWhole` of ProcRun says "all of it, or nothing
  if the thread was refused", and `RunOver` excepts such a run.

*Unikernel*
- `DirSlotsReturned` of Vfs: close(2) does not reach a merged directory's slot
  (`vfs.c:472`, `platform_x86.c:1068`). `RedirectClosed` of StdRedirect: a file handed to
  a redirect stays open once the redirect is undone (`platform_x86.c:1067`).
- A name whose record is longer than the 28 bytes reserved is lost when it is met at the
  end of a buffer: the cursor has moved on before the record is found not to fit
  (`vfs.c:948-979`; of a disk's name also 961). `ListingExact` of Vfs excepts
  names longer than the reservation, and GuestMC has one.
- A read of a name the image holds goes to the disk when the image's handle table is
  full: EMFILE (`initfs.c:172`) is taken for a refusal like any other (`vfs.c:433-456`),
  against the precedence the header states (`vfs.c:19-24`). `ServedInOrder` speaks of the
  opens made while a handle is free.
- A link of the archive is a file to stat (`initfs.c:339-341`) and nothing to an open
  (`initfs.c:120`); `StatAgreesWithTree` says so.
- dup2 onto a standard descriptor of what it names already, and nothing else does,
  closes the file it installs (`vfs.c:248-271`). `RedirectsOpen` excepts the files closed
  in this way (`shut`).
- A new file on the disk is made before a handle is looked for, and stays when there is
  none (`stdlib/fs/fatfs.nu:1127-1141`).
- Memory above the 4 GiB that `boot.S` maps is not clipped (`platform_x86.c:387-398`): the
  allocator gets pages that are not mapped, and a pool that lies there faults at the first
  use. GuestMC has a region across that end and one past it. `OnlyGuardsUnmapped` speaks
  of the memory that is mapped; a guest whose pool is past it ends in `"fault"`.
- `OnlyStacksExhaustPool` of GuestPaging: protecting pages also uses tables up
  (`platform_x86.c:541`).
- The device count of `fdt.c:197` may pass the array that `platform_riscv64.c:536` gives
  to the entropy driver. A device whose queue holds one entry is indexed modulo two
  (`virtio_rng.c:163`, 238).

## 7. Not modelled

- Small parts of modelled components. Udp: the text of the last peer (`ffi:4186`, 4288),
  which on a dual-stack socket is the mapped form, and the ignored result of the
  IPV6_V6ONLY option (`ffi:4100`). CycleCollector: the threshold stays at its least, where
  a collection raises it to twice what survived (`core:10773`). RunQueues: a wait that
  finds its descriptor ready at activation (`ffi:9261-9283`; it is in Netpoll). TcpConn: a wake
  channel that cannot be opened (`ffi:3233`). DeviceTree: the command line's cut at 2048
  bytes (`fdt.c:81-84`, 247-250). BareSched: a coroutine in a timed park when
  shutdown empties the timer list (`bare:1247-1255`); one that sleeps is there. Vfs: sectors
  and clusters, a full medium, a read-only mount, the dot entries, the sync at
  shutdown.
- kqueue and IOCP (the control of the epoll build), the POSIX child processes, the
  arm64 and riscv64 clocks, start-up code, floating point and formatting.
- Weak memory: every atomic access is sequentially consistent in the models; the
  code's flags are accessed with acquire/release or under a lock.
- `thread.nu`, `pool.nu`, `supervisor.nu`: NURL code over modelled primitives. What to
  look at first: waiters of `locked_await` that wake each other (`thread.nu:514`), a
  failing make that must give its place back (`pool.nu:230`).
- CRDTs, ring, jobs, membership: `next_seq` restarts in a rebuilt OR-set
  (`crdt.nu:216`), a SUBMIT delivered twice runs twice (`job.nu:386`).
- The compiler (a sequential translator whose borrow rules have a Lean development
  under `formal/`), containers, cryptography, wire protocols, storage and other
  packages, tools.
