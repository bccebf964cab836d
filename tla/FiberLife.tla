------------------------------ MODULE FiberLife ------------------------------
(***************************************************************************)
(* The life of a fiber in the M:N runtime (stdlib/runtime_ffi.c, section   *)
(* 24): spawn, resume, yield, park on a mutex-guarded wait list, unpark,   *)
(* finish, join, detach, free, and the live-fiber count runtime_run waits  *)
(* on.  The run queues are one bag here, `ready`; module RunQueues models  *)
(* how workers choose from them and how they sleep.                        *)
(*                                                                         *)
(* What the code must get right is who owns a NurlFiber at each moment: a  *)
(* fiber is published (queued, registered with a waker, released to its    *)
(* joiner) while the worker that ran it still holds a pointer to it.       *)
(*                                                                         *)
(* An actor is a worker thread or any other OS thread.  A worker executes  *)
(* user code while a fiber runs on it; another thread always does.         *)
(***************************************************************************)
EXTENDS Integers, FiniteSets, FiniteSetTheorems, TLAPS

CONSTANTS
    Fibers,      \* NurlFiber structs a run may allocate (addresses are not reused)
    Workers,     \* worker threads
    Threads,     \* OS threads that are not workers (main)
    NoFiber,     \* the NULL fiber
    Nobody       \* owner of a free mutex

ASSUME FiniteAssumption == IsFiniteSet(Fibers)
ASSUME DistinctAssumption ==
    /\ NoFiber \notin Fibers
    /\ Nobody \notin Workers \cup Threads
    /\ Workers \cap Threads = {}

Actors == Workers \cup Threads

VARIABLES
    alloc,           \* "unborn", "live" or "freed"
    frees,           \* how often nurl__fiber_free ran on the fiber
    state,           \* NurlFiberState
    saved,           \* its context is saved: nobody executes on its stack
    joinable,        \* spawned with spawn_joinable
    handle,          \* the Fiber value: "none", "held" by user code, "used"
    released,        \* f->released: the worker is through with the finished fiber
    detached,        \* f->detached: no join will come
    pending_unlock,  \* f->pending_unlock is set: the worker releases the mutex
    ready,           \* the run queues: how many times each fiber is queued
    waiters,         \* the wait list the mutex guards
    mutex,           \* owner of that mutex
    pc,              \* where each actor is
    cur,             \* the fiber a worker runs (worker_loop's local f)
    arg,             \* the fiber an actor's current call is about
    pending          \* nurl__sched.pending

lifeVars == <<alloc, frees, joinable, handle, released, detached>>
parkVars == <<pending_unlock, waiters, mutex>>
vars == <<lifeVars, parkVars, state, saved, ready, pc, cur, arg, pending>>

States == {"NEW", "RUNNABLE", "RUNNING", "PARKED", "DONE"}
Pcs == {"next", "body", "locked", "spawn", "unpark", "push", "swap", "loop", "free",
        "dec", "join", "run"}

TypeOK ==
    /\ alloc \in [Fibers -> {"unborn", "live", "freed"}]
    /\ frees \in [Fibers -> Nat]
    /\ state \in [Fibers -> States]
    /\ saved \in [Fibers -> BOOLEAN]
    /\ joinable \in [Fibers -> BOOLEAN]
    /\ handle \in [Fibers -> {"none", "held", "used"}]
    /\ released \in [Fibers -> BOOLEAN]
    /\ detached \in [Fibers -> BOOLEAN]
    /\ pending_unlock \in [Fibers -> BOOLEAN]
    /\ ready \in [Fibers -> Nat]
    /\ waiters \in SUBSET Fibers
    /\ mutex \in Actors \cup {Nobody}
    /\ pc \in [Actors -> Pcs]
    /\ cur \in [Workers -> Fibers \cup {NoFiber}]
    /\ arg \in [Actors -> Fibers \cup {NoFiber}]
    /\ pending \in Int

\* runtime_init: workers started, no fiber yet; other threads are in user code.
Init ==
    /\ alloc = [f \in Fibers |-> "unborn"]
    /\ frees = [f \in Fibers |-> 0]
    /\ state = [f \in Fibers |-> "NEW"]
    /\ saved = [f \in Fibers |-> TRUE]
    /\ joinable = [f \in Fibers |-> FALSE]
    /\ handle = [f \in Fibers |-> "none"]
    /\ released = [f \in Fibers |-> FALSE]
    /\ detached = [f \in Fibers |-> FALSE]
    /\ pending_unlock = [f \in Fibers |-> FALSE]
    /\ ready = [f \in Fibers |-> 0]
    /\ waiters = {}
    /\ mutex = Nobody
    /\ pc = [a \in Actors |-> IF a \in Workers THEN "next" ELSE "body"]
    /\ cur = [w \in Workers |-> NoFiber]
    /\ arg = [a \in Actors |-> NoFiber]
    /\ pending = 0

-----------------------------------------------------------------------------
Goto(a, l) == pc' = [pc EXCEPT ![a] = l]

\* A run queue push, and nurl__fiber_free.
Enqueue(f) == ready' = [ready EXCEPT ![f] = @ + 1]
Free(f) ==
    /\ alloc' = [alloc EXCEPT ![f] = "freed"]
    /\ frees' = [frees EXCEPT ![f] = @ + 1]

-----------------------------------------------------------------------------
(* Faulty forms of the steps below, one plausible slip each; the           *)
(* properties at the end of the module are checked to reject them.         *)

\* Only plain spawns counted as live.
UncountedSpawnAlloc(a, f, j) ==
    /\ pc[a] = "body"
    /\ alloc[f] = "unborn"
    /\ alloc' = [alloc EXCEPT ![f] = "live"]
    /\ joinable' = [joinable EXCEPT ![f] = j]
    /\ pending' = IF j THEN pending ELSE pending + 1
    /\ arg' = [arg EXCEPT ![a] = f]
    /\ Goto(a, "spawn")
    /\ UNCHANGED <<frees, handle, released, detached, parkVars, state, saved, ready, cur>>

\* A yield that queues the fiber before it has switched out.
EagerYield(w) ==
    /\ pc[w] = "body"
    /\ state' = [state EXCEPT ![cur[w]] = "RUNNABLE"]
    /\ Enqueue(cur[w])
    /\ Goto(w, "swap")
    /\ UNCHANGED <<lifeVars, parkVars, saved, cur, arg, pending>>

\* "Unlock, then park": the mutex is free before the switch.
UnlockedPark(w) ==
    /\ pc[w] = "locked"
    /\ waiters' = waiters \cup {cur[w]}
    /\ mutex' = Nobody
    /\ state' = [state EXCEPT ![cur[w]] = "PARKED"]
    /\ Goto(w, "swap")
    /\ UNCHANGED <<lifeVars, pending_unlock, saved, ready, cur, arg, pending>>

\* A joiner that waits for NF_DONE instead of `released`.
EarlyJoinFree(a) ==
    /\ pc[a] = "join"
    /\ state[arg[a]] = "DONE"
    /\ Free(arg[a])
    /\ arg' = [arg EXCEPT ![a] = NoFiber]
    /\ Goto(a, "body")
    /\ UNCHANGED <<joinable, handle, released, detached, parkVars, state, saved, ready, cur, pending>>

\* The worker leaves every joinable fiber to a joiner.
LeakyLoopRelease(w) ==
    /\ pc[w] = "loop"
    /\ state[cur[w]] = "DONE"
    /\ joinable[cur[w]]
    /\ released' = [released EXCEPT ![cur[w]] = TRUE]
    /\ Goto(w, "dec")
    /\ UNCHANGED <<alloc, frees, joinable, handle, detached, parkVars, state, saved, ready, cur, arg, pending>>

\* The worker forgets to release an undetached fiber.
SilentLoopRelease(w) ==
    /\ pc[w] = "loop"
    /\ state[cur[w]] = "DONE"
    /\ joinable[cur[w]]
    /\ Goto(w, IF detached[cur[w]] THEN "free" ELSE "dec")
    /\ UNCHANGED <<lifeVars, parkVars, state, saved, ready, cur, arg, pending>>

-----------------------------------------------------------------------------
\* nurl_fiber_spawn / _joinable, first half: allocate and count the fiber.
SpawnAlloc(a, f, j) ==
    /\ pc[a] = "body"
    /\ alloc[f] = "unborn"
    /\ alloc' = [alloc EXCEPT ![f] = "live"]
    /\ joinable' = [joinable EXCEPT ![f] = j]
    /\ pending' = pending + 1
    /\ arg' = [arg EXCEPT ![a] = f]
    /\ Goto(a, "spawn")
    /\ UNCHANGED <<frees, handle, released, detached, parkVars, state, saved, ready, cur>>

\* ... second half: queue it and return the handle to the caller.
SpawnEnqueue(a) ==
    /\ pc[a] = "spawn"
    /\ Enqueue(arg[a])
    /\ handle' = [handle EXCEPT ![arg[a]] = IF joinable[arg[a]] THEN "held" ELSE "none"]
    /\ arg' = [arg EXCEPT ![a] = NoFiber]
    /\ Goto(a, "body")
    /\ UNCHANGED <<alloc, frees, joinable, released, detached, parkVars, state, saved, cur, pending>>

\* nurl__worker_loop: take a queued fiber and switch to it.
Resume(w, f) ==
    /\ pc[w] = "next"
    /\ ready[f] > 0
    /\ ready' = [ready EXCEPT ![f] = @ - 1]
    /\ state' = [state EXCEPT ![f] = "RUNNING"]
    /\ saved' = [saved EXCEPT ![f] = FALSE]
    /\ cur' = [cur EXCEPT ![w] = f]
    /\ Goto(w, "body")
    /\ UNCHANGED <<lifeVars, parkVars, arg, pending>>

-----------------------------------------------------------------------------
(* User code: what a running fiber, or a thread, may do.                   *)

\* nurl_fiber_yield: mark runnable, then switch to the loop.  Nothing is queued here.
Yield(w) ==
    /\ pc[w] = "body"
    /\ state' = [state EXCEPT ![cur[w]] = "RUNNABLE"]
    /\ Goto(w, "swap")
    /\ UNCHANGED <<lifeVars, parkVars, saved, ready, cur, arg, pending>>

\* mutex_lock of the mutex that guards the wait list (blocks the thread).
Lock(a) ==
    /\ pc[a] = "body"
    /\ mutex = Nobody
    /\ mutex' = a
    /\ Goto(a, "locked")
    /\ UNCHANGED <<lifeVars, pending_unlock, waiters, state, saved, ready, cur, arg, pending>>

\* mutex_unlock.
Unlock(a) ==
    /\ pc[a] = "locked"
    /\ mutex' = Nobody
    /\ Goto(a, "body")
    /\ UNCHANGED <<lifeVars, pending_unlock, waiters, state, saved, ready, cur, arg, pending>>

\* The caller registers on the wait list, then nurl_fiber_park_with_mutex:
\* the mutex stays held across the switch.
Park(w) ==
    /\ pc[w] = "locked"
    /\ waiters' = waiters \cup {cur[w]}
    /\ pending_unlock' = [pending_unlock EXCEPT ![cur[w]] = TRUE]
    /\ state' = [state EXCEPT ![cur[w]] = "PARKED"]
    /\ Goto(w, "swap")
    /\ UNCHANGED <<lifeVars, mutex, saved, ready, cur, arg, pending>>

\* A waker, holding the mutex, takes a fiber off the wait list ...
PopWaiter(a, f) ==
    /\ pc[a] = "locked"
    /\ f \in waiters
    /\ waiters' = waiters \ {f}
    /\ arg' = [arg EXCEPT ![a] = f]
    /\ Goto(a, "unpark")
    /\ UNCHANGED <<lifeVars, pending_unlock, mutex, state, saved, ready, cur, pending>>

\* ... and nurl_fiber_unpark: mark it runnable, then queue it.
UnparkState(a) ==
    /\ pc[a] = "unpark"
    /\ state' = [state EXCEPT ![arg[a]] = "RUNNABLE"]
    /\ Goto(a, "push")
    /\ UNCHANGED <<lifeVars, parkVars, saved, ready, cur, arg, pending>>

UnparkPush(a) ==
    /\ pc[a] = "push"
    /\ Enqueue(arg[a])
    /\ arg' = [arg EXCEPT ![a] = NoFiber]
    /\ Goto(a, "locked")
    /\ UNCHANGED <<lifeVars, parkVars, state, saved, cur, pending>>

\* nurl__fiber_entry: the body returned.
Finish(w) ==
    /\ pc[w] = "body"
    /\ state' = [state EXCEPT ![cur[w]] = "DONE"]
    /\ Goto(w, "swap")
    /\ UNCHANGED <<lifeVars, parkVars, saved, ready, cur, arg, pending>>

\* nurl_fiber_join by the holder of the handle, which is used up; the caller's
\* OS thread waits for `released`.  A closure cannot hold its own fiber's handle.
JoinCall(a, f) ==
    /\ pc[a] = "body"
    /\ handle[f] = "held"
    /\ a \in Workers => cur[a] # f
    /\ handle' = [handle EXCEPT ![f] = "used"]
    /\ arg' = [arg EXCEPT ![a] = f]
    /\ Goto(a, "join")
    /\ UNCHANGED <<alloc, frees, joinable, released, detached, parkVars, state, saved, ready, cur, pending>>

JoinFree(a) ==
    /\ pc[a] = "join"
    /\ released[arg[a]]
    /\ Free(arg[a])
    /\ arg' = [arg EXCEPT ![a] = NoFiber]
    /\ Goto(a, "body")
    /\ UNCHANGED <<joinable, handle, released, detached, parkVars, state, saved, ready, cur, pending>>

\* nurl_fiber_detach: the handle is dropped; free now if the worker is
\* through with the fiber, else leave the free to the worker.
Detach(a, f) ==
    /\ pc[a] = "body"
    /\ handle[f] = "held"
    /\ handle' = [handle EXCEPT ![f] = "used"]
    /\ \/ released[f] /\ Free(f) /\ UNCHANGED detached
       \/ ~released[f] /\ detached' = [detached EXCEPT ![f] = TRUE] /\ UNCHANGED <<alloc, frees>>
    /\ UNCHANGED <<joinable, released, parkVars, state, saved, ready, pc, cur, arg, pending>>

\* nurl_runtime_run: a thread blocks until the live count is zero.
RunCall(t) ==
    /\ pc[t] = "body"
    /\ Goto(t, "run")
    /\ UNCHANGED <<lifeVars, parkVars, state, saved, ready, cur, arg, pending>>

RunReturn(t) ==
    /\ pc[t] = "run"
    /\ pending <= 0
    /\ Goto(t, "body")
    /\ UNCHANGED <<lifeVars, parkVars, state, saved, ready, cur, arg, pending>>

-----------------------------------------------------------------------------
(* The worker loop after the fiber switched out.                           *)

\* nurl__swap_to_loop completes: the context is saved, the loop has control.
SwapOut(w) ==
    /\ pc[w] = "swap"
    /\ saved' = [saved EXCEPT ![cur[w]] = TRUE]
    /\ Goto(w, "loop")
    /\ UNCHANGED <<lifeVars, parkVars, state, ready, cur, arg, pending>>

\* The fiber yielded: publish it, the loop's last use of it.
LoopYielded(w) ==
    /\ pc[w] = "loop"
    /\ state[cur[w]] \notin {"DONE", "PARKED"}
    /\ Enqueue(cur[w])
    /\ cur' = [cur EXCEPT ![w] = NoFiber]
    /\ Goto(w, "next")
    /\ UNCHANGED <<lifeVars, parkVars, state, saved, arg, pending>>

\* The fiber parked: release the mutex it parked on, now that it is suspended.
LoopParked(w) ==
    /\ pc[w] = "loop"
    /\ state[cur[w]] = "PARKED"
    /\ mutex' = IF pending_unlock[cur[w]] THEN Nobody ELSE mutex
    /\ pending_unlock' = [pending_unlock EXCEPT ![cur[w]] = FALSE]
    /\ cur' = [cur EXCEPT ![w] = NoFiber]
    /\ Goto(w, "next")
    /\ UNCHANGED <<lifeVars, waiters, state, saved, ready, arg, pending>>

\* The fiber finished and is joinable: release it to its joiner under join_m;
\* free it here only if it was detached before.
LoopRelease(w) ==
    /\ pc[w] = "loop"
    /\ state[cur[w]] = "DONE"
    /\ joinable[cur[w]]
    /\ released' = [released EXCEPT ![cur[w]] = TRUE]
    /\ Goto(w, IF detached[cur[w]] THEN "free" ELSE "dec")
    /\ UNCHANGED <<alloc, frees, joinable, handle, detached, parkVars, state, saved, ready, cur, arg, pending>>

\* The fiber finished and nobody can join it.
LoopDone(w) ==
    /\ pc[w] = "loop"
    /\ state[cur[w]] = "DONE"
    /\ ~joinable[cur[w]]
    /\ Goto(w, "free")
    /\ UNCHANGED <<lifeVars, parkVars, state, saved, ready, cur, arg, pending>>

LoopFree(w) ==
    /\ pc[w] = "free"
    /\ Free(cur[w])
    /\ Goto(w, "dec")
    /\ UNCHANGED <<joinable, handle, released, detached, parkVars, state, saved, ready, cur, arg, pending>>

\* nurl__pending_dec, the last thing the loop does for a finished fiber.
PendingDec(w) ==
    /\ pc[w] = "dec"
    /\ pending' = pending - 1
    /\ cur' = [cur EXCEPT ![w] = NoFiber]
    /\ Goto(w, "next")
    /\ UNCHANGED <<lifeVars, parkVars, state, saved, ready, arg>>

-----------------------------------------------------------------------------
\* Steps a thread inside the runtime completes on its own.
Runtime(a) ==
    \/ SpawnEnqueue(a) \/ UnparkState(a) \/ UnparkPush(a) \/ Unlock(a) \/ JoinFree(a)
    \/ a \in Workers /\ (SwapOut(a) \/ LoopYielded(a) \/ LoopParked(a) \/ LoopRelease(a)
                         \/ LoopDone(a) \/ LoopFree(a) \/ PendingDec(a))

\* Steps user code chooses.
User(a) ==
    \/ \E f \in Fibers : \/ \E j \in BOOLEAN : SpawnAlloc(a, f, j)
                         \/ PopWaiter(a, f) \/ JoinCall(a, f) \/ Detach(a, f)
    \/ Lock(a)
    \/ a \in Workers /\ (Yield(a) \/ Park(a) \/ Finish(a))
    \/ a \in Threads /\ RunCall(a)

Next ==
    \E a \in Actors :
        \/ Runtime(a)
        \/ User(a)
        \/ a \in Workers /\ \E f \in Fibers : Resume(a, f)
        \/ a \in Threads /\ RunReturn(a)

Spec == Init /\ [][Next]_vars

\* The OS schedules every thread, so a thread inside the runtime gets on.
FairSpec == Spec /\ \A a \in Actors : WF_vars(Runtime(a))

-----------------------------------------------------------------------------
\* The fibers whose memory an actor still reads or writes.
Touched(a) ==
    (IF a \in Workers /\ pc[a] \notin {"next", "dec"} THEN {cur[a]} ELSE {})
    \cup (IF pc[a] \in {"spawn", "unpark", "push", "join"} THEN {arg[a]} ELSE {})

\* No worker, joiner, spawner or waker touches a freed NurlFiber, none is
\* queued or registered with a waker, and no fiber is freed twice: the
\* released/detached handshake (runtime_ffi.c:6943) and the deferred re-queue.
NoUseAfterFree ==
    /\ \A a \in Actors : \A f \in Touched(a) : alloc[f] = "live"
    /\ \A f \in Fibers : ready[f] > 0 \/ f \in waiters => alloc[f] = "live"
    /\ \A f \in Fibers : frees[f] <= 1

\* A queued fiber is queued once, is suspended with its context saved, and no
\* worker still holds it: no fiber ever runs on two workers.
QueuedIsSuspended ==
    /\ \A f \in Fibers : ready[f] > 0 =>
           /\ ready[f] = 1
           /\ saved[f]
           /\ state[f] \in {"NEW", "RUNNABLE"}
           /\ f \notin waiters
           /\ \A w \in Workers : cur[w] # f
    /\ \A v, w \in Workers : cur[v] = cur[w] /\ cur[v] # NoFiber => v = w

\* A waker holding the mutex finds only fibers whose switch has completed.
WokenIsSuspended ==
    \A a \in Actors : pc[a] \in {"unpark", "push"} => saved[arg[a]]

\* Spawned fibers that have not gone through the loop's end yet.
Counted == {f \in Fibers : alloc[f] # "unborn" /\ (state[f] = "DONE" => \E w \in Workers : cur[w] = f)}

\* The live count is exact, so runtime_run returns only when every spawned
\* fiber has finished, and a fiber spawned by a running one keeps it blocked.
PendingExact == pending = Cardinality(Counted)

\* A finished fiber nobody will join is freed: detach racing the worker loses nothing.
FinishedIsFreed ==
    \A f \in Fibers :
        (state[f] = "DONE" /\ (detached[f] \/ ~joinable[f])) ~> alloc[f] = "freed"

\* A join of a fiber that finishes returns.
JoinReturns ==
    \A f \in Fibers, a \in Actors :
        (pc[a] = "join" /\ arg[a] = f /\ state[f] = "DONE") ~> alloc[f] = "freed"

-----------------------------------------------------------------------------
(* The inductive invariant behind the three safety properties: who owns a  *)
(* fiber at each moment.                                                   *)

\* Where a worker is while its fiber executes, and until it is through.
Running == {"body", "locked", "spawn", "unpark", "push", "join"}
Calls == {"spawn", "unpark", "push", "join"}

\* A worker past "next" has a fiber of its own.  While the fiber executes it is
\* nowhere else; until the loop has dealt with it, it is alive; a parked one is
\* on the wait list already, and its worker still has to release the mutex.
WorkerInv ==
    \A w \in Workers :
        /\ pc[w] = "next" <=> cur[w] = NoFiber
        /\ pc[w] # "run"
        /\ \A v \in Workers : cur[v] = cur[w] /\ cur[w] # NoFiber => v = w
        /\ pc[w] # "next" => ready[cur[w]] = 0
        /\ pc[w] \in Running =>
               state[cur[w]] = "RUNNING" /\ cur[w] \notin waiters /\ ~pending_unlock[cur[w]]
        /\ pc[w] \in {"swap", "loop"} =>
               /\ state[cur[w]] \in {"RUNNABLE", "PARKED", "DONE"}
               /\ cur[w] \in waiters <=> state[cur[w]] = "PARKED"
               /\ pending_unlock[cur[w]] <=> state[cur[w]] = "PARKED"
        /\ pc[w] \in {"loop", "free", "dec"} => saved[cur[w]]
        /\ pc[w] \in {"free", "dec"} =>
               state[cur[w]] = "DONE" /\ cur[w] \notin waiters /\ ~pending_unlock[cur[w]]
        /\ pc[w] \in Running \cup {"swap", "loop"} => alloc[cur[w]] = "live" /\ ~released[cur[w]]
        /\ pc[w] = "free" =>
               alloc[cur[w]] = "live" /\ (joinable[cur[w]] => released[cur[w]] /\ detached[cur[w]])

ThreadInv == \A t \in Threads : pc[t] \notin {"next", "swap", "loop", "free", "dec"}

\* The mutex is held in the critical section, and from a park's switch until
\* the loop releases it.
Holds(a) ==
    \/ pc[a] \in {"locked", "unpark", "push"}
    \/ a \in Workers /\ pc[a] \in {"swap", "loop"} /\ pending_unlock[cur[a]]

MutexInv == \A a \in Actors : Holds(a) => mutex = a

\* The fiber a call is about is the caller's alone: not yet queued, taken off
\* the wait list, or handed over for the join.
Owned(f) ==
    /\ alloc[f] = "live" /\ ready[f] = 0 /\ f \notin waiters /\ saved[f]
    /\ ~released[f] /\ ~pending_unlock[f]
    /\ \A w \in Workers : cur[w] # f

CallInv ==
    \A a \in Actors :
        /\ pc[a] \in Calls => arg[a] \in Fibers
        /\ pc[a] \in {"spawn", "unpark", "push"} => Owned(arg[a])
        /\ pc[a] = "spawn" => state[arg[a]] = "NEW" /\ handle[arg[a]] = "none" /\ ~detached[arg[a]]
        /\ pc[a] = "unpark" => state[arg[a]] = "PARKED"
        /\ pc[a] = "push" => state[arg[a]] = "RUNNABLE"
        /\ pc[a] = "join" =>
               /\ handle[arg[a]] = "used" /\ joinable[arg[a]] /\ ~detached[arg[a]]
               /\ alloc[arg[a]] = "live"
        /\ \A b \in Actors :
               pc[a] \in {"spawn", "join"} /\ pc[b] = pc[a] /\ arg[b] = arg[a] => b = a

\* An address not allocated yet is clean and nobody has it.
UnbornInv ==
    \A f \in Fibers : alloc[f] = "unborn" =>
        /\ state[f] = "NEW" /\ ready[f] = 0 /\ f \notin waiters /\ saved[f]
        /\ ~released[f] /\ ~detached[f] /\ ~pending_unlock[f] /\ handle[f] = "none"
        /\ \A w \in Workers : cur[w] # f

QueueInv ==
    \A f \in Fibers : ready[f] > 0 =>
        /\ ready[f] = 1 /\ saved[f] /\ state[f] \in {"NEW", "RUNNABLE"}
        /\ f \notin waiters /\ alloc[f] = "live" /\ ~released[f] /\ ~pending_unlock[f]
        /\ \A w \in Workers : cur[w] # f

WaitInv ==
    \A f \in waiters :
        /\ alloc[f] = "live" /\ state[f] = "PARKED" /\ ready[f] = 0 /\ ~released[f]
        /\ (\A w \in Workers : cur[w] # f) => saved[f] /\ ~pending_unlock[f]

\* The handshake: a handle is used up by one join or one detach; the loop
\* releases a finished fiber once; whoever comes second frees it.
HandshakeInv ==
    \A f \in Fibers :
        /\ handle[f] # "none" => joinable[f] /\ alloc[f] # "unborn"
        /\ handle[f] = "held" => alloc[f] = "live" /\ ~detached[f]
        /\ released[f] => joinable[f] /\ state[f] = "DONE"
        /\ detached[f] => handle[f] = "used"
        /\ alloc[f] # "freed" => frees[f] = 0
        /\ alloc[f] = "freed" => frees[f] = 1 /\ state[f] = "DONE" /\ handle[f] # "held"

LifeInv ==
    /\ TypeOK /\ WorkerInv /\ ThreadInv /\ MutexInv /\ CallInv /\ UnbornInv
    /\ QueueInv /\ WaitInv /\ HandshakeInv
-----------------------------------------------------------------------------
(***************************************************************************)
(* Proofs, for every set of fibers, workers and threads.                   *)
(*                                                                         *)
(* The four safety properties follow from one inductive invariant,         *)
(* LifeInv: every fiber has one owner at a time (its spawner, a run queue, *)
(* the worker that runs it, the wait list, a waker, its joiner) and each   *)
(* step hands it from one owner to the next.  One lemma per action shows   *)
(* that the action keeps LifeInv, with one step per conjunct.              *)
(***************************************************************************)

\* The new fiber was unborn, so nobody had it; now its spawner owns it.
LEMMA SpawnAllocStep ==
    ASSUME LifeInv, NEW a \in Actors, NEW f \in Fibers, NEW j \in BOOLEAN, SpawnAlloc(a, f, j)
    PROVE  LifeInv'
  <1> USE DEF SpawnAlloc, Goto, lifeVars, parkVars, Actors, LifeInv, TypeOK
  <1>0. TypeOK'
    BY DEF States, Pcs
  <1>1. WorkerInv'
    BY <1>0 DEF WorkerInv, Running
  <1>2. ThreadInv'
    BY <1>0 DEF ThreadInv
  <1>3. MutexInv'
    BY <1>0 DEF MutexInv, Holds
  <1>4. CallInv'
    BY <1>0, DistinctAssumption DEF CallInv, Calls, Owned, UnbornInv
  <1>5. UnbornInv'
    BY <1>0 DEF UnbornInv
  <1>6. QueueInv'
    BY <1>0 DEF QueueInv
  <1>7. WaitInv'
    BY <1>0 DEF WaitInv
  <1>8. HandshakeInv'
    BY <1>0, DistinctAssumption DEF HandshakeInv, UnbornInv
  <1> QED BY <1>0, <1>1, <1>2, <1>3, <1>4, <1>5, <1>6, <1>7, <1>8

\* The spawner owned the fiber; now the run queue does.
LEMMA SpawnEnqueueStep ==
    ASSUME LifeInv, NEW a \in Actors, SpawnEnqueue(a)
    PROVE  LifeInv'
  <1> USE DEF SpawnEnqueue, Goto, Enqueue, lifeVars, parkVars, Actors, LifeInv, TypeOK
  <1>0. TypeOK'
    BY DistinctAssumption DEF States, Pcs, CallInv, Calls, Owned
  <1>1. WorkerInv'
    BY <1>0, DistinctAssumption DEF WorkerInv, Running, CallInv, Calls, Owned
  <1>2. ThreadInv'
    BY <1>0 DEF ThreadInv
  <1>3. MutexInv'
    BY <1>0 DEF MutexInv, Holds
  <1>4. CallInv'
    BY <1>0 DEF CallInv, Calls, Owned
  <1>5. UnbornInv'
    BY <1>0, DistinctAssumption DEF UnbornInv, CallInv, Calls, Owned
  <1>6. QueueInv'
    BY <1>0, DistinctAssumption DEF QueueInv, CallInv, Calls, Owned
  <1>7. WaitInv'
    BY <1>0, DistinctAssumption DEF WaitInv, CallInv, Calls, Owned
  <1>8. HandshakeInv'
    BY <1>0, DistinctAssumption DEF HandshakeInv, CallInv, Calls, Owned
  <1> QED BY <1>0, <1>1, <1>2, <1>3, <1>4, <1>5, <1>6, <1>7, <1>8

\* A queued fiber is suspended and on no worker; now this worker has it.
LEMMA ResumeStep ==
    ASSUME LifeInv, NEW w \in Workers, NEW f \in Fibers, Resume(w, f)
    PROVE  LifeInv'
  <1> USE DEF Resume, Goto, lifeVars, parkVars, Actors, LifeInv, TypeOK
  <1>0. TypeOK'
    BY DEF States, Pcs
  <1>1. WorkerInv'
    BY <1>0, DistinctAssumption DEF WorkerInv, Running, QueueInv
  <1>2. ThreadInv'
    BY <1>0 DEF ThreadInv
  <1>3. MutexInv'
    BY <1>0 DEF MutexInv, Holds
  <1>4. CallInv'
    BY <1>0 DEF CallInv, Calls, Owned
  <1>5. UnbornInv'
    BY <1>0 DEF UnbornInv
  <1>6. QueueInv'
    BY <1>0 DEF QueueInv
  <1>7. WaitInv'
    BY <1>0, DistinctAssumption DEF WaitInv, WorkerInv, Running
  <1>8. HandshakeInv'
    BY <1>0, DistinctAssumption DEF HandshakeInv, QueueInv
  <1> QED BY <1>0, <1>1, <1>2, <1>3, <1>4, <1>5, <1>6, <1>7, <1>8

\* The fiber only changes its state; it is queued after the switch.
LEMMA YieldStep ==
    ASSUME LifeInv, NEW w \in Workers, Yield(w)
    PROVE  LifeInv'
  <1> USE DEF Yield, Goto, lifeVars, parkVars, Actors, LifeInv, TypeOK
  <1>0. TypeOK'
    BY DistinctAssumption DEF States, Pcs, WorkerInv, Running
  <1>1. WorkerInv'
    BY <1>0 DEF WorkerInv, Running
  <1>2. ThreadInv'
    BY <1>0, DistinctAssumption DEF ThreadInv
  <1>3. MutexInv'
    BY <1>0, DistinctAssumption DEF MutexInv, Holds, WorkerInv, Running
  <1>4. CallInv'
    BY <1>0 DEF CallInv, Calls, Owned
  <1>5. UnbornInv'
    BY <1>0 DEF UnbornInv
  <1>6. QueueInv'
    BY <1>0 DEF QueueInv
  <1>7. WaitInv'
    BY <1>0, DistinctAssumption DEF WaitInv, WorkerInv, Running
  <1>8. HandshakeInv'
    BY <1>0, DistinctAssumption DEF HandshakeInv, WorkerInv, Running
  <1> QED BY <1>0, <1>1, <1>2, <1>3, <1>4, <1>5, <1>6, <1>7, <1>8

\* The mutex was free, so no other actor holds it.
LEMMA LockStep ==
    ASSUME LifeInv, NEW a \in Actors, Lock(a)
    PROVE  LifeInv'
  <1> USE DEF Lock, Goto, lifeVars, parkVars, Actors, LifeInv, TypeOK
  <1>0. TypeOK'
    BY DEF States, Pcs
  <1>1. WorkerInv'
    BY <1>0 DEF WorkerInv, Running
  <1>2. ThreadInv'
    BY <1>0 DEF ThreadInv
  <1>3. MutexInv'
    BY <1>0, DistinctAssumption DEF MutexInv, Holds
  <1>4. CallInv'
    BY <1>0 DEF CallInv, Calls, Owned
  <1>5. UnbornInv'
    BY <1>0 DEF UnbornInv
  <1>6. QueueInv'
    BY <1>0 DEF QueueInv
  <1>7. WaitInv'
    BY <1>0 DEF WaitInv
  <1>8. HandshakeInv'
    BY <1>0 DEF HandshakeInv
  <1> QED BY <1>0, <1>1, <1>2, <1>3, <1>4, <1>5, <1>6, <1>7, <1>8

\* The caller was the holder.
LEMMA UnlockStep ==
    ASSUME LifeInv, NEW a \in Actors, Unlock(a)
    PROVE  LifeInv'
  <1> USE DEF Unlock, Goto, lifeVars, parkVars, Actors, LifeInv, TypeOK
  <1>0. TypeOK'
    BY DEF States, Pcs
  <1>1. WorkerInv'
    BY <1>0 DEF WorkerInv, Running
  <1>2. ThreadInv'
    BY <1>0 DEF ThreadInv
  <1>3. MutexInv'
    BY <1>0 DEF MutexInv, Holds
  <1>4. CallInv'
    BY <1>0 DEF CallInv, Calls, Owned
  <1>5. UnbornInv'
    BY <1>0 DEF UnbornInv
  <1>6. QueueInv'
    BY <1>0 DEF QueueInv
  <1>7. WaitInv'
    BY <1>0 DEF WaitInv
  <1>8. HandshakeInv'
    BY <1>0 DEF HandshakeInv
  <1> QED BY <1>0, <1>1, <1>2, <1>3, <1>4, <1>5, <1>6, <1>7, <1>8

\* The fiber is on the wait list from here on, and its worker keeps the mutex.
LEMMA ParkStep ==
    ASSUME LifeInv, NEW w \in Workers, Park(w)
    PROVE  LifeInv'
  <1> USE DEF Park, Goto, lifeVars, parkVars, Actors, LifeInv, TypeOK
  <1>0. TypeOK'
    BY DistinctAssumption DEF States, Pcs, WorkerInv, Running
  <1>1. WorkerInv'
    BY <1>0 DEF WorkerInv, Running
  <1>2. ThreadInv'
    BY <1>0, DistinctAssumption DEF ThreadInv
  <1>3. MutexInv'
    BY <1>0, DistinctAssumption DEF MutexInv, Holds, WorkerInv, Running
  <1>4. CallInv'
    BY <1>0 DEF CallInv, Calls, Owned
  <1>5. UnbornInv'
    BY <1>0 DEF UnbornInv
  <1>6. QueueInv'
    BY <1>0 DEF QueueInv
  <1>7. WaitInv'
    BY <1>0, DistinctAssumption DEF WaitInv, WorkerInv, Running
  <1>8. HandshakeInv'
    BY <1>0, DistinctAssumption DEF HandshakeInv, WorkerInv, Running
  <1> QED BY <1>0, <1>1, <1>2, <1>3, <1>4, <1>5, <1>6, <1>7, <1>8

\* The waker holds the mutex, so no worker still has a parked fiber to release:
\* the popped fiber is suspended and becomes the waker's.
LEMMA PopWaiterStep ==
    ASSUME LifeInv, NEW a \in Actors, NEW f \in Fibers, PopWaiter(a, f)
    PROVE  LifeInv'
  <1> USE DEF PopWaiter, Goto, lifeVars, parkVars, Actors, LifeInv, TypeOK
  <1>0. TypeOK'
    BY DEF States, Pcs
  <1>1. WorkerInv'
    BY <1>0, DistinctAssumption DEF WorkerInv, Running, MutexInv, Holds
  <1>2. ThreadInv'
    BY <1>0 DEF ThreadInv
  <1>3. MutexInv'
    BY <1>0 DEF MutexInv, Holds
  <1>4. CallInv'
    <2>1. \A w \in Workers : cur[w] # f
      BY DistinctAssumption DEF WorkerInv, Running, MutexInv, Holds, Pcs
    <2>2. /\ alloc[f] = "live" /\ ready[f] = 0 /\ saved[f] /\ state[f] = "PARKED"
          /\ ~released[f] /\ ~pending_unlock[f]
      BY <2>1 DEF WaitInv
    <2>3. \A b \in Actors : pc[b] \notin {"unpark", "push"}
      BY DEF MutexInv, Holds
    <2>4. \A b \in Actors : pc[b] = "spawn" => arg[b] # f
      BY DEF CallInv, Owned
    <2> QED BY <1>0, <2>1, <2>2, <2>3, <2>4 DEF CallInv, Calls, Owned
  <1>5. UnbornInv'
    BY <1>0 DEF UnbornInv
  <1>6. QueueInv'
    BY <1>0 DEF QueueInv
  <1>7. WaitInv'
    BY <1>0 DEF WaitInv
  <1>8. HandshakeInv'
    BY <1>0 DEF HandshakeInv
  <1> QED BY <1>0, <1>1, <1>2, <1>3, <1>4, <1>5, <1>6, <1>7, <1>8

\* Two wakers cannot be at it together: both would hold the mutex.
LEMMA UnparkStateStep ==
    ASSUME LifeInv, NEW a \in Actors, UnparkState(a)
    PROVE  LifeInv'
  <1> USE DEF UnparkState, Goto, lifeVars, parkVars, Actors, LifeInv, TypeOK
  <1>0. TypeOK'
    BY DistinctAssumption DEF States, Pcs, CallInv, Calls, Owned
  <1>1. WorkerInv'
    BY <1>0, DistinctAssumption DEF WorkerInv, Running, CallInv, Calls, Owned
  <1>2. ThreadInv'
    BY <1>0 DEF ThreadInv
  <1>3. MutexInv'
    BY <1>0 DEF MutexInv, Holds
  <1>4. CallInv'
    BY <1>0, DistinctAssumption DEF CallInv, Calls, Owned, MutexInv, Holds
  <1>5. UnbornInv'
    BY <1>0, DistinctAssumption DEF UnbornInv, CallInv, Calls, Owned
  <1>6. QueueInv'
    BY <1>0 DEF QueueInv
  <1>7. WaitInv'
    BY <1>0, DistinctAssumption DEF WaitInv, CallInv, Calls, Owned
  <1>8. HandshakeInv'
    BY <1>0, DistinctAssumption DEF HandshakeInv, CallInv, Calls, Owned
  <1> QED BY <1>0, <1>1, <1>2, <1>3, <1>4, <1>5, <1>6, <1>7, <1>8

\* The waker owned the fiber; now the run queue does.
LEMMA UnparkPushStep ==
    ASSUME LifeInv, NEW a \in Actors, UnparkPush(a)
    PROVE  LifeInv'
  <1> USE DEF UnparkPush, Goto, Enqueue, lifeVars, parkVars, Actors, LifeInv, TypeOK
  <1>0. TypeOK'
    BY DistinctAssumption DEF States, Pcs, CallInv, Calls, Owned
  <1>1. WorkerInv'
    BY <1>0, DistinctAssumption DEF WorkerInv, Running, CallInv, Calls, Owned
  <1>2. ThreadInv'
    BY <1>0 DEF ThreadInv
  <1>3. MutexInv'
    BY <1>0 DEF MutexInv, Holds
  <1>4. CallInv'
    BY <1>0, DistinctAssumption DEF CallInv, Calls, Owned, MutexInv, Holds
  <1>5. UnbornInv'
    BY <1>0, DistinctAssumption DEF UnbornInv, CallInv, Calls, Owned
  <1>6. QueueInv'
    BY <1>0, DistinctAssumption DEF QueueInv, CallInv, Calls, Owned
  <1>7. WaitInv'
    BY <1>0, DistinctAssumption DEF WaitInv, CallInv, Calls, Owned
  <1>8. HandshakeInv'
    BY <1>0 DEF HandshakeInv
  <1> QED BY <1>0, <1>1, <1>2, <1>3, <1>4, <1>5, <1>6, <1>7, <1>8

\* The fiber only changes its state; its worker still has it.
LEMMA FinishStep ==
    ASSUME LifeInv, NEW w \in Workers, Finish(w)
    PROVE  LifeInv'
  <1> USE DEF Finish, Goto, lifeVars, parkVars, Actors, LifeInv, TypeOK
  <1>0. TypeOK'
    BY DistinctAssumption DEF States, Pcs, WorkerInv, Running
  <1>1. WorkerInv'
    BY <1>0 DEF WorkerInv, Running
  <1>2. ThreadInv'
    BY <1>0, DistinctAssumption DEF ThreadInv
  <1>3. MutexInv'
    BY <1>0, DistinctAssumption DEF MutexInv, Holds, WorkerInv, Running
  <1>4. CallInv'
    BY <1>0 DEF CallInv, Calls, Owned
  <1>5. UnbornInv'
    BY <1>0 DEF UnbornInv
  <1>6. QueueInv'
    BY <1>0 DEF QueueInv
  <1>7. WaitInv'
    BY <1>0, DistinctAssumption DEF WaitInv, WorkerInv, Running
  <1>8. HandshakeInv'
    BY <1>0 DEF HandshakeInv
  <1> QED BY <1>0, <1>1, <1>2, <1>3, <1>4, <1>5, <1>6, <1>7, <1>8

\* The handle is used up, so no second join and no detach of the fiber follows.
LEMMA JoinCallStep ==
    ASSUME LifeInv, NEW a \in Actors, NEW f \in Fibers, JoinCall(a, f)
    PROVE  LifeInv'
  <1> USE DEF JoinCall, Goto, lifeVars, parkVars, Actors, LifeInv, TypeOK
  <1>0. TypeOK'
    BY DEF States, Pcs
  <1>1. WorkerInv'
    BY <1>0 DEF WorkerInv, Running
  <1>2. ThreadInv'
    BY <1>0 DEF ThreadInv
  <1>3. MutexInv'
    BY <1>0 DEF MutexInv, Holds
  <1>4. CallInv'
    BY <1>0, DistinctAssumption DEF CallInv, Calls, Owned, HandshakeInv
  <1>5. UnbornInv'
    BY <1>0 DEF UnbornInv
  <1>6. QueueInv'
    BY <1>0 DEF QueueInv
  <1>7. WaitInv'
    BY <1>0 DEF WaitInv
  <1>8. HandshakeInv'
    BY <1>0 DEF HandshakeInv
  <1> QED BY <1>0, <1>1, <1>2, <1>3, <1>4, <1>5, <1>6, <1>7, <1>8

\* A released fiber is on no worker's way to the free and in no queue.
LEMMA JoinFreeStep ==
    ASSUME LifeInv, NEW a \in Actors, JoinFree(a)
    PROVE  LifeInv'
  <1> USE DEF JoinFree, Goto, Free, lifeVars, parkVars, Actors, LifeInv, TypeOK
  <1>0. TypeOK'
    BY DistinctAssumption DEF States, Pcs, CallInv, Calls, Owned
  <1>1. WorkerInv'
    BY <1>0, DistinctAssumption DEF WorkerInv, Running, CallInv, Calls, Owned
  <1>2. ThreadInv'
    BY <1>0 DEF ThreadInv
  <1>3. MutexInv'
    BY <1>0 DEF MutexInv, Holds
  <1>4. CallInv'
    BY <1>0 DEF CallInv, Calls, Owned
  <1>5. UnbornInv'
    BY <1>0 DEF UnbornInv
  <1>6. QueueInv'
    BY <1>0 DEF QueueInv
  <1>7. WaitInv'
    BY <1>0 DEF WaitInv
  <1>8. HandshakeInv'
    BY <1>0, DistinctAssumption DEF HandshakeInv, CallInv, Calls, Owned
  <1> QED BY <1>0, <1>1, <1>2, <1>3, <1>4, <1>5, <1>6, <1>7, <1>8

\* As a join if the fiber is released; otherwise the free is left to the worker.
LEMMA DetachStep ==
    ASSUME LifeInv, NEW a \in Actors, NEW f \in Fibers, Detach(a, f)
    PROVE  LifeInv'
  <1> USE DEF Detach, Goto, Free, lifeVars, parkVars, Actors, LifeInv, TypeOK
  <1>0. TypeOK'
    <2>1. CASE released[f]
      BY <2>1 DEF States, Pcs, HandshakeInv
    <2>2. CASE ~released[f]
      BY <2>2 DEF States, Pcs, HandshakeInv
    <2> QED BY <2>1, <2>2
  <1>1. WorkerInv'
    BY <1>0, DistinctAssumption DEF WorkerInv, Running, HandshakeInv
  <1>2. ThreadInv'
    BY <1>0 DEF ThreadInv
  <1>3. MutexInv'
    BY <1>0 DEF MutexInv, Holds
  <1>4. CallInv'
    BY <1>0 DEF CallInv, Calls, Owned
  <1>5. UnbornInv'
    BY <1>0 DEF UnbornInv
  <1>6. QueueInv'
    BY <1>0 DEF QueueInv
  <1>7. WaitInv'
    BY <1>0 DEF WaitInv
  <1>8. HandshakeInv'
    BY <1>0 DEF HandshakeInv
  <1> QED BY <1>0, <1>1, <1>2, <1>3, <1>4, <1>5, <1>6, <1>7, <1>8

\* Only the caller's place changes.
LEMMA RunCallStep ==
    ASSUME LifeInv, NEW t \in Threads, RunCall(t)
    PROVE  LifeInv'
  <1> USE DEF RunCall, Goto, lifeVars, parkVars, Actors, LifeInv, TypeOK
  <1>0. TypeOK'
    BY DEF States, Pcs
  <1>1. WorkerInv'
    BY <1>0, DistinctAssumption DEF WorkerInv, Running
  <1>2. ThreadInv'
    BY <1>0 DEF ThreadInv
  <1>3. MutexInv'
    BY <1>0 DEF MutexInv, Holds
  <1>4. CallInv'
    BY <1>0 DEF CallInv, Calls, Owned
  <1>5. UnbornInv'
    BY <1>0 DEF UnbornInv
  <1>6. QueueInv'
    BY <1>0 DEF QueueInv
  <1>7. WaitInv'
    BY <1>0 DEF WaitInv
  <1>8. HandshakeInv'
    BY <1>0 DEF HandshakeInv
  <1> QED BY <1>0, <1>1, <1>2, <1>3, <1>4, <1>5, <1>6, <1>7, <1>8

\* Only the caller's place changes.
LEMMA RunReturnStep ==
    ASSUME LifeInv, NEW t \in Threads, RunReturn(t)
    PROVE  LifeInv'
  <1> USE DEF RunReturn, Goto, lifeVars, parkVars, Actors, LifeInv, TypeOK
  <1>0. TypeOK'
    BY DEF States, Pcs
  <1>1. WorkerInv'
    BY <1>0 DEF WorkerInv, Running
  <1>2. ThreadInv'
    BY <1>0 DEF ThreadInv
  <1>3. MutexInv'
    BY <1>0 DEF MutexInv, Holds
  <1>4. CallInv'
    BY <1>0 DEF CallInv, Calls, Owned
  <1>5. UnbornInv'
    BY <1>0 DEF UnbornInv
  <1>6. QueueInv'
    BY <1>0 DEF QueueInv
  <1>7. WaitInv'
    BY <1>0 DEF WaitInv
  <1>8. HandshakeInv'
    BY <1>0 DEF HandshakeInv
  <1> QED BY <1>0, <1>1, <1>2, <1>3, <1>4, <1>5, <1>6, <1>7, <1>8

\* From here on the fiber's context is saved.
LEMMA SwapOutStep ==
    ASSUME LifeInv, NEW w \in Workers, SwapOut(w)
    PROVE  LifeInv'
  <1> USE DEF SwapOut, Goto, lifeVars, parkVars, Actors, LifeInv, TypeOK
  <1>0. TypeOK'
    BY DistinctAssumption DEF States, Pcs, WorkerInv, Running
  <1>1. WorkerInv'
    BY <1>0 DEF WorkerInv, Running
  <1>2. ThreadInv'
    BY <1>0 DEF ThreadInv
  <1>3. MutexInv'
    BY <1>0 DEF MutexInv, Holds
  <1>4. CallInv'
    BY <1>0 DEF CallInv, Calls, Owned
  <1>5. UnbornInv'
    BY <1>0 DEF UnbornInv
  <1>6. QueueInv'
    BY <1>0 DEF QueueInv
  <1>7. WaitInv'
    BY <1>0 DEF WaitInv
  <1>8. HandshakeInv'
    BY <1>0 DEF HandshakeInv
  <1> QED BY <1>0, <1>1, <1>2, <1>3, <1>4, <1>5, <1>6, <1>7, <1>8

\* The worker had the fiber; now the run queue does.
LEMMA LoopYieldedStep ==
    ASSUME LifeInv, NEW w \in Workers, LoopYielded(w)
    PROVE  LifeInv'
  <1> USE DEF LoopYielded, Goto, Enqueue, lifeVars, parkVars, Actors, LifeInv, TypeOK
  <1>0. TypeOK'
    BY DistinctAssumption DEF States, Pcs, WorkerInv, Running
  <1>1. WorkerInv'
    BY <1>0 DEF WorkerInv, Running
  <1>2. ThreadInv'
    BY <1>0 DEF ThreadInv
  <1>3. MutexInv'
    BY <1>0 DEF MutexInv, Holds
  <1>4. CallInv'
    BY <1>0, DistinctAssumption DEF CallInv, Calls, Owned
  <1>5. UnbornInv'
    BY <1>0, DistinctAssumption DEF UnbornInv
  <1>6. QueueInv'
    BY <1>0, DistinctAssumption DEF QueueInv, WorkerInv, Running
  <1>7. WaitInv'
    BY <1>0 DEF WaitInv
  <1>8. HandshakeInv'
    BY <1>0 DEF HandshakeInv
  <1> QED BY <1>0, <1>1, <1>2, <1>3, <1>4, <1>5, <1>6, <1>7, <1>8

\* The worker lets go of a parked fiber and of the mutex in one step.
LEMMA LoopParkedStep ==
    ASSUME LifeInv, NEW w \in Workers, LoopParked(w)
    PROVE  LifeInv'
  <1> USE DEF LoopParked, Goto, lifeVars, parkVars, Actors, LifeInv, TypeOK
  <1>0. TypeOK'
    BY DistinctAssumption DEF States, Pcs, WorkerInv, Running
  <1>1. WorkerInv'
    BY <1>0 DEF WorkerInv, Running
  <1>2. ThreadInv'
    BY <1>0 DEF ThreadInv
  <1>3. MutexInv'
    BY <1>0 DEF MutexInv, Holds
  <1>4. CallInv'
    BY <1>0, DistinctAssumption DEF CallInv, Calls, Owned
  <1>5. UnbornInv'
    BY <1>0, DistinctAssumption DEF UnbornInv
  <1>6. QueueInv'
    BY <1>0, DistinctAssumption DEF QueueInv
  <1>7. WaitInv'
    BY <1>0, DistinctAssumption DEF WaitInv, WorkerInv, Running
  <1>8. HandshakeInv'
    BY <1>0 DEF HandshakeInv
  <1> QED BY <1>0, <1>1, <1>2, <1>3, <1>4, <1>5, <1>6, <1>7, <1>8

\* The fiber is released once; the worker keeps it only if nobody will join it.
LEMMA LoopReleaseStep ==
    ASSUME LifeInv, NEW w \in Workers, LoopRelease(w)
    PROVE  LifeInv'
  <1> USE DEF LoopRelease, Goto, lifeVars, parkVars, Actors, LifeInv, TypeOK
  <1>0. TypeOK'
    BY DistinctAssumption DEF States, Pcs, WorkerInv, Running
  <1>1. WorkerInv'
    BY <1>0 DEF WorkerInv, Running
  <1>2. ThreadInv'
    BY <1>0 DEF ThreadInv
  <1>3. MutexInv'
    BY <1>0 DEF MutexInv, Holds
  <1>4. CallInv'
    BY <1>0 DEF CallInv, Calls, Owned
  <1>5. UnbornInv'
    BY <1>0 DEF UnbornInv
  <1>6. QueueInv'
    BY <1>0 DEF QueueInv
  <1>7. WaitInv'
    BY <1>0 DEF WaitInv
  <1>8. HandshakeInv'
    BY <1>0 DEF HandshakeInv
  <1> QED BY <1>0, <1>1, <1>2, <1>3, <1>4, <1>5, <1>6, <1>7, <1>8

\* No handle exists, so the worker frees the fiber itself.
LEMMA LoopDoneStep ==
    ASSUME LifeInv, NEW w \in Workers, LoopDone(w)
    PROVE  LifeInv'
  <1> USE DEF LoopDone, Goto, lifeVars, parkVars, Actors, LifeInv, TypeOK
  <1>0. TypeOK'
    BY DEF States, Pcs
  <1>1. WorkerInv'
    BY <1>0 DEF WorkerInv, Running
  <1>2. ThreadInv'
    BY <1>0 DEF ThreadInv
  <1>3. MutexInv'
    BY <1>0 DEF MutexInv, Holds
  <1>4. CallInv'
    BY <1>0 DEF CallInv, Calls, Owned
  <1>5. UnbornInv'
    BY <1>0 DEF UnbornInv
  <1>6. QueueInv'
    BY <1>0 DEF QueueInv
  <1>7. WaitInv'
    BY <1>0 DEF WaitInv
  <1>8. HandshakeInv'
    BY <1>0 DEF HandshakeInv
  <1> QED BY <1>0, <1>1, <1>2, <1>3, <1>4, <1>5, <1>6, <1>7, <1>8

\* The worker is the only one left with the fiber.
LEMMA LoopFreeStep ==
    ASSUME LifeInv, NEW w \in Workers, LoopFree(w)
    PROVE  LifeInv'
  <1> USE DEF LoopFree, Goto, Free, lifeVars, parkVars, Actors, LifeInv, TypeOK
  <1>0. TypeOK'
    BY DistinctAssumption DEF States, Pcs, WorkerInv, Running
  <1>1. WorkerInv'
    BY <1>0 DEF WorkerInv, Running
  <1>2. ThreadInv'
    BY <1>0 DEF ThreadInv
  <1>3. MutexInv'
    BY <1>0 DEF MutexInv, Holds
  <1>4. CallInv'
    BY <1>0, DistinctAssumption DEF CallInv, Calls, Owned, WorkerInv, Running
  <1>5. UnbornInv'
    BY <1>0 DEF UnbornInv
  <1>6. QueueInv'
    BY <1>0 DEF QueueInv
  <1>7. WaitInv'
    BY <1>0, DistinctAssumption DEF WaitInv, WorkerInv, Running
  <1>8. HandshakeInv'
    BY <1>0, DistinctAssumption DEF HandshakeInv, WorkerInv, Running
  <1> QED BY <1>0, <1>1, <1>2, <1>3, <1>4, <1>5, <1>6, <1>7, <1>8

\* The worker forgets the fiber, which may be freed already.
LEMMA PendingDecStep ==
    ASSUME LifeInv, NEW w \in Workers, PendingDec(w)
    PROVE  LifeInv'
  <1> USE DEF PendingDec, Goto, lifeVars, parkVars, Actors, LifeInv, TypeOK
  <1>0. TypeOK'
    BY DEF States, Pcs
  <1>1. WorkerInv'
    BY <1>0 DEF WorkerInv, Running
  <1>2. ThreadInv'
    BY <1>0 DEF ThreadInv
  <1>3. MutexInv'
    BY <1>0 DEF MutexInv, Holds
  <1>4. CallInv'
    BY <1>0, DistinctAssumption DEF CallInv, Calls, Owned
  <1>5. UnbornInv'
    BY <1>0, DistinctAssumption DEF UnbornInv
  <1>6. QueueInv'
    BY <1>0, DistinctAssumption DEF QueueInv
  <1>7. WaitInv'
    BY <1>0, DistinctAssumption DEF WaitInv, WorkerInv, Running
  <1>8. HandshakeInv'
    BY <1>0 DEF HandshakeInv
  <1> QED BY <1>0, <1>1, <1>2, <1>3, <1>4, <1>5, <1>6, <1>7, <1>8

-----------------------------------------------------------------------------
\* The initial state satisfies the invariant: nothing is allocated or held.
LEMMA LifeInvInit == Init => LifeInv
  <1> SUFFICES ASSUME Init PROVE LifeInv
    OBVIOUS
  <1> USE DistinctAssumption DEF Init, Actors
  <1>1. TypeOK
    BY DEF TypeOK, States, Pcs
  <1>2. WorkerInv /\ ThreadInv
    BY DEF WorkerInv, ThreadInv, Running
  <1>3. MutexInv
    BY DEF MutexInv, Holds
  <1>4. CallInv
    BY DEF CallInv, Calls
  <1>5. UnbornInv /\ QueueInv /\ WaitInv /\ HandshakeInv
    BY DEF UnbornInv, QueueInv, WaitInv, HandshakeInv
  <1> QED BY <1>1, <1>2, <1>3, <1>4, <1>5 DEF LifeInv

\* A stuttering step keeps the invariant.
LEMMA LifeInvStutter == ASSUME LifeInv, UNCHANGED vars PROVE LifeInv'
  <1> USE DEF vars, lifeVars, parkVars, LifeInv
  <1>1. TypeOK'
    BY DEF TypeOK
  <1>2. WorkerInv' /\ ThreadInv'
    BY DEF WorkerInv, ThreadInv
  <1>3. MutexInv'
    BY DEF MutexInv, Holds
  <1>4. CallInv'
    BY DEF CallInv, Owned
  <1>5. UnbornInv' /\ QueueInv' /\ WaitInv' /\ HandshakeInv'
    BY DEF UnbornInv, QueueInv, WaitInv, HandshakeInv
  <1> QED BY <1>1, <1>2, <1>3, <1>4, <1>5

\* Every step of the runtime and of user code keeps the invariant.
LEMMA LifeInvStep == LifeInv /\ [Next]_vars => LifeInv'
  <1> SUFFICES ASSUME LifeInv, [Next]_vars PROVE LifeInv'
    OBVIOUS
  <1>1. CASE UNCHANGED vars
    BY <1>1, LifeInvStutter
  <1>2. ASSUME NEW a \in Actors, Runtime(a) PROVE LifeInv'
    BY <1>2, SpawnEnqueueStep, UnparkStateStep, UnparkPushStep, UnlockStep, JoinFreeStep,
       SwapOutStep, LoopYieldedStep, LoopParkedStep, LoopReleaseStep, LoopDoneStep,
       LoopFreeStep, PendingDecStep DEF Runtime
  <1>3. ASSUME NEW a \in Actors, User(a) PROVE LifeInv'
    BY <1>3, SpawnAllocStep, PopWaiterStep, JoinCallStep, DetachStep, LockStep, YieldStep,
       ParkStep, FinishStep, RunCallStep DEF User
  <1>4. ASSUME NEW w \in Workers, NEW f \in Fibers, Resume(w, f) PROVE LifeInv'
    BY <1>4, ResumeStep
  <1>5. ASSUME NEW t \in Threads, RunReturn(t) PROVE LifeInv'
    BY <1>5, RunReturnStep
  <1> QED BY <1>1, <1>2, <1>3, <1>4, <1>5 DEF Next

\* The ownership discipline holds of every behaviour of the fiber runtime.
THEOREM LifeSafety == Spec => []LifeInv
  BY LifeInvInit, LifeInvStep, PTL DEF Spec

-----------------------------------------------------------------------------
\* However spawn, park, join, detach and the worker loop race, nobody touches
\* a freed NurlFiber, none is queued or listed, and none is freed twice.
THEOREM NoUseAfterFreeHolds == Spec => []NoUseAfterFree
  <1>1. ASSUME LifeInv PROVE NoUseAfterFree
    <2> USE <1>1 DEF LifeInv
    <2>1. ASSUME NEW a \in Actors, NEW f \in Touched(a) PROVE alloc[f] = "live"
      <3>1. CASE a \in Workers /\ pc[a] \notin {"next", "dec"} /\ f = cur[a]
        <4>1. pc[a] \in Running \cup {"swap", "loop", "free"}
          BY <3>1 DEF TypeOK, Pcs, WorkerInv, Running, Actors
        <4> QED BY <3>1, <4>1 DEF WorkerInv
      <3>2. CASE pc[a] \in {"spawn", "unpark", "push", "join"} /\ f = arg[a]
        BY <3>2 DEF CallInv, Owned
      <3> QED BY <2>1, <3>1, <3>2 DEF Touched
    <2>2. ASSUME NEW f \in Fibers, ready[f] > 0 \/ f \in waiters PROVE alloc[f] = "live"
      BY <2>2 DEF QueueInv, WaitInv
    <2>3. ASSUME NEW f \in Fibers PROVE frees[f] <= 1
      BY DEF HandshakeInv, TypeOK
    <2> QED BY <2>1, <2>2, <2>3 DEF NoUseAfterFree
  <1> QED BY <1>1, LifeSafety, PTL

\* A queued fiber is queued once, suspended, and no fiber runs on two workers.
THEOREM QueuedIsSuspendedHolds == Spec => []QueuedIsSuspended
  <1>1. LifeInv => QueuedIsSuspended
    BY DEF LifeInv, QueueInv, WorkerInv, QueuedIsSuspended
  <1> QED BY <1>1, LifeSafety, PTL

\* A waker finds only fibers whose switch has completed: the mutex handed to
\* the worker loop closes the lost-wake-up window of park_with_mutex.
THEOREM WokenIsSuspendedHolds == Spec => []WokenIsSuspended
  <1>1. LifeInv => WokenIsSuspended
    BY DEF LifeInv, CallInv, Owned, WokenIsSuspended
  <1> QED BY <1>1, LifeSafety, PTL

-----------------------------------------------------------------------------
\* A spawn adds its fiber to the counted ones.
LEMMA SpawnCounts ==
    ASSUME LifeInv, NEW a \in Actors, NEW f \in Fibers, NEW j \in BOOLEAN, SpawnAlloc(a, f, j)
    PROVE  Counted' = Counted \cup {f} /\ f \notin Counted /\ pending' = pending + 1
  BY DEF SpawnAlloc, LifeInv, TypeOK, UnbornInv, Counted

\* The loop's last step for a finished fiber takes it out.
LEMMA DecUncounts ==
    ASSUME LifeInv, NEW w \in Workers, PendingDec(w)
    PROVE  Counted' = Counted \ {cur[w]} /\ cur[w] \in Counted /\ pending' = pending - 1
  <1>1. cur[w] \in Fibers /\ state[cur[w]] = "DONE" /\ alloc[cur[w]] # "unborn"
    BY DEF PendingDec, LifeInv, TypeOK, WorkerInv, UnbornInv
  <1>2. \A v \in Workers : cur[v] = cur[w] => v = w
    BY <1>1, DistinctAssumption DEF LifeInv, WorkerInv
  <1>3. \A v \in Workers : cur'[v] = IF v = w THEN NoFiber ELSE cur[v]
    BY DEF PendingDec, LifeInv, TypeOK
  <1>4. alloc' = alloc /\ state' = state
    BY DEF PendingDec, lifeVars
  <1> QED BY <1>1, <1>2, <1>3, <1>4, DistinctAssumption DEF Counted, PendingDec

\* No other step changes who is counted, or the count.
LEMMA OthersKeepCount ==
    ASSUME LifeInv, [Next]_vars,
           \A a \in Actors, f \in Fibers, j \in BOOLEAN : ~SpawnAlloc(a, f, j),
           \A w \in Workers : ~PendingDec(w)
    PROVE  Counted' = Counted /\ pending' = pending
  <1> USE DEF LifeInv, TypeOK, lifeVars, parkVars
  <1>1. CASE UNCHANGED vars
    BY <1>1 DEF vars, Counted
  <1>2. ASSUME NEW a \in Actors,
               SpawnEnqueue(a) \/ UnparkPush(a) \/ Unlock(a)
               \/ \E f \in Fibers : PopWaiter(a, f) \/ JoinCall(a, f)
        PROVE  Counted' = Counted /\ pending' = pending
    BY <1>2 DEF SpawnEnqueue, UnparkPush, Unlock, PopWaiter, JoinCall, Counted
  <1>3. ASSUME NEW a \in Actors, Lock(a) \/ (a \in Threads /\ (RunCall(a) \/ RunReturn(a)))
        PROVE  Counted' = Counted /\ pending' = pending
    BY <1>3 DEF Lock, RunCall, RunReturn, Counted
  <1>4. ASSUME NEW a \in Actors, UnparkState(a)
        PROVE  Counted' = Counted /\ pending' = pending
    BY <1>4 DEF UnparkState, CallInv, Calls, Counted
  <1>5. ASSUME NEW a \in Actors, JoinFree(a)
        PROVE  Counted' = Counted /\ pending' = pending
    BY <1>5 DEF JoinFree, Free, CallInv, Calls, Counted
  <1>6. ASSUME NEW a \in Actors, NEW f \in Fibers, Detach(a, f)
        PROVE  Counted' = Counted /\ pending' = pending
    BY <1>6 DEF Detach, Free, HandshakeInv, Counted
  <1>7. ASSUME NEW w \in Workers, NEW f \in Fibers, Resume(w, f)
        PROVE  Counted' = Counted /\ pending' = pending
    <2>1. state[f] \in {"NEW", "RUNNABLE"} /\ cur[w] = NoFiber
      BY <1>7 DEF Resume, QueueInv, WorkerInv
    <2> QED BY <1>7, <2>1, DistinctAssumption DEF Resume, Counted
  <1>8. ASSUME NEW w \in Workers, Yield(w) \/ Park(w) \/ Finish(w)
        PROVE  Counted' = Counted /\ pending' = pending
    <2>1. cur[w] \in Fibers /\ alloc[cur[w]] = "live" /\ state[cur[w]] = "RUNNING"
      BY <1>8 DEF Yield, Park, Finish, WorkerInv, Running
    <2> QED BY <1>8, <2>1 DEF Yield, Park, Finish, Counted
  <1>9. ASSUME NEW w \in Workers, SwapOut(w) \/ LoopRelease(w) \/ LoopDone(w)
        PROVE  Counted' = Counted /\ pending' = pending
    BY <1>9 DEF SwapOut, LoopRelease, LoopDone, Counted
  <1>10. ASSUME NEW w \in Workers, LoopYielded(w) \/ LoopParked(w)
         PROVE  Counted' = Counted /\ pending' = pending
    <2>1. cur[w] \in Fibers /\ state[cur[w]] # "DONE"
      BY <1>10 DEF LoopYielded, LoopParked, WorkerInv
    <2> QED BY <1>10, <2>1, DistinctAssumption DEF LoopYielded, LoopParked, Counted
  <1>11. ASSUME NEW w \in Workers, LoopFree(w)
         PROVE  Counted' = Counted /\ pending' = pending
    BY <1>11 DEF LoopFree, Free, WorkerInv, Counted
  <1> HIDE DEF LifeInv, TypeOK, lifeVars, parkVars
  <1>12. ASSUME NEW a \in Actors, Runtime(a) PROVE Counted' = Counted /\ pending' = pending
    BY <1>2, <1>4, <1>5, <1>9, <1>10, <1>11, <1>12 DEF Runtime
  <1>13. ASSUME NEW a \in Actors, User(a) PROVE Counted' = Counted /\ pending' = pending
    BY <1>2, <1>3, <1>6, <1>8, <1>13 DEF User
  <1> QED BY <1>1, <1>3, <1>7, <1>12, <1>13 DEF Next

\* For every finite set of fibers the live count is exact, so runtime_run
\* returns only when every spawned fiber is through the worker loop.
THEOREM PendingExactHolds == Spec => []PendingExact
  <1>1. Init => PendingExact
    <2>1. Init => Counted = {}
      BY DEF Init, Counted
    <2> QED BY <2>1, FS_EmptySet DEF Init, PendingExact
  <1>2. LifeInv /\ PendingExact /\ [Next]_vars => PendingExact'
    <2> SUFFICES ASSUME LifeInv, PendingExact, [Next]_vars PROVE PendingExact'
      OBVIOUS
    <2>0. IsFiniteSet(Counted)
      <3>1. Counted \subseteq Fibers
        BY DEF Counted
      <3> QED BY <3>1, FiniteAssumption, FS_Subset
    <2>1. ASSUME NEW a \in Actors, NEW f \in Fibers, NEW j \in BOOLEAN, SpawnAlloc(a, f, j)
          PROVE  PendingExact'
      BY <2>0, <2>1, SpawnCounts, FS_AddElement DEF PendingExact
    <2>2. ASSUME NEW w \in Workers, PendingDec(w) PROVE PendingExact'
      BY <2>0, <2>2, DecUncounts, FS_RemoveElement DEF PendingExact
    <2>3. CASE /\ \A a \in Actors, f \in Fibers, j \in BOOLEAN : ~SpawnAlloc(a, f, j)
               /\ \A w \in Workers : ~PendingDec(w)
      BY <2>3, OthersKeepCount DEF PendingExact
    <2> QED BY <2>1, <2>2, <2>3
  <1> QED BY <1>1, <1>2, LifeSafety, PTL DEF Spec
=============================================================================
