----------------------------- MODULE WasmThreads -----------------------------
(***************************************************************************)
(* stdlib/runtime_ffi.c section 19 on WASI with the threads proposal:      *)
(* mutex, condition variable and join as futexes over shared memory        *)
(* (memory.atomic.wait32 / notify, one atomic access a step), and the      *)
(* async runtime as one thread per fiber: reference-counted fiber blocks   *)
(* and a group whose `live` count nurl_runtime_run waits on.               *)
(*                                                                         *)
(* A run is of one of three programs: threads that lock a mutex, waiters   *)
(* and producers on a condition variable, or a root that spawns fibers.    *)
(***************************************************************************)
EXTENDS Integers, FiniteSets

CONSTANTS
    Threads,     \* the threads; in the fiber program all but Main are fibers
    Main,        \* the root thread
    Producers,   \* the threads that put and signal in the cond program
    MaxRounds    \* bound: locks, puts or takes of one thread

VARIABLES
    prog,     \* "mutex", "cond" or "fiber"
    m,        \* the mutex word: 0 free, 1 held, 2 held with waiters
    c,        \* the condition variable's sequence counter
    items,    \* what the producers put and the waiters take
    pc,       \* pc[t].at, the sequence it read, where an unlock leads
    fib,      \* fib[f]: the NurlWasmFiber block of f
    live, gen,  \* the NurlWfGroup
    bad       \* uses of a freed fiber block

vars == <<prog, m, c, items, pc, fib, live, gen, bad>>

Fibers == Threads \ {Main}
NoFiber == [at |-> "none", joinable |-> FALSE, mem |-> FALSE, tid |-> "none", refs |-> 0,
            done |-> FALSE, ended |-> FALSE]
Entry == [at |-> "rest", seq |-> 0, then |-> "rest", rounds |-> 0]

Init ==
    /\ prog \in {"mutex", "cond", "fiber"}
    /\ m = 0 /\ c = 0 /\ items = 0 /\ live = 0 /\ gen = 0 /\ bad = {}
    /\ pc = [t \in Threads |-> Entry]
    /\ fib = [f \in Fibers |-> NoFiber]

Goto(t, l) == pc' = [pc EXCEPT ![t].at = l]
MutexOnly == UNCHANGED <<prog, c, items, fib, live, gen, bad>>
CondOnly == UNCHANGED <<prog, m, fib, live, gen, bad>>

-----------------------------------------------------------------------------
(* pthread_mutex_lock / unlock.                                            *)

Lock(t) ==
    /\ pc[t].at = "lock" /\ MutexOnly
    /\ IF m = 0 THEN m' = 1 /\ Goto(t, "hold") ELSE UNCHANGED m /\ Goto(t, "slow")

\* atomic_load(m) == 2, else the exchange that marks it contended.
Slow(t) ==
    /\ pc[t].at = "slow" /\ UNCHANGED m /\ MutexOnly
    /\ Goto(t, IF m = 2 THEN "doze" ELSE "mark")
Mark(t) ==
    /\ pc[t].at = "mark" /\ MutexOnly
    /\ IF m = 1 THEN m' = 2 /\ Goto(t, "doze") ELSE UNCHANGED m /\ Goto(t, "retry")

\* wait32 compares and sleeps as one step.
Doze(t) ==
    /\ pc[t].at = "doze" /\ UNCHANGED m /\ MutexOnly
    /\ Goto(t, IF m = 2 THEN "mutexWait" ELSE "retry")

\* A waiter that takes the mutex as if nobody else waited.
PlainRetry(t) ==
    /\ pc[t].at = "retry" /\ MutexOnly
    /\ IF m = 0 THEN m' = 1 /\ Goto(t, "hold") ELSE UNCHANGED m /\ Goto(t, "slow")
\* A waiter takes it as contended: others may be asleep.
Retry(t) ==
    /\ pc[t].at = "retry" /\ MutexOnly
    /\ IF m = 0 THEN m' = 2 /\ Goto(t, "hold") ELSE UNCHANGED m /\ Goto(t, "slow")

\* atomic_fetch_sub; without waiters that was the release.
Unlock(t) ==
    /\ pc[t].at = "unlock" /\ m' = m - 1 /\ MutexOnly
    /\ Goto(t, IF m = 1 THEN pc[t].then ELSE "clear")
Clear(t) == pc[t].at = "clear" /\ m' = 0 /\ Goto(t, "wakeOne") /\ MutexOnly
WakeOne(t) ==
    /\ pc[t].at = "wakeOne" /\ UNCHANGED m /\ MutexOnly
    /\ LET asleep == {u \in Threads : pc[u].at = "mutexWait"}
       IN  IF asleep = {} THEN Goto(t, pc[t].then)
           ELSE \E u \in asleep :
                  pc' = [pc EXCEPT ![t].at = pc[t].then, ![u].at = "retry"]

Locking(t) == Lock(t) \/ Slow(t) \/ Mark(t) \/ Doze(t) \/ Retry(t) \/ Unlock(t) \/ Clear(t) \/ WakeOne(t)

\* A thread of the mutex program takes the mutex and lets it go.
Round(t) ==
    /\ prog \in {"mutex", "cond"} /\ pc[t].at = "rest" /\ pc[t].rounds < MaxRounds
    /\ pc' = [pc EXCEPT ![t].at = "lock", ![t].rounds = @ + 1]
    /\ UNCHANGED m /\ MutexOnly
Body(t) ==
    /\ prog = "mutex" /\ pc[t].at = "hold"
    /\ pc' = [pc EXCEPT ![t].at = "unlock", ![t].then = "rest"]
    /\ UNCHANGED m /\ MutexOnly

-----------------------------------------------------------------------------
(* The condition variable, used as it must be: under the mutex, in a loop. *)

\* A producer: put under the mutex, then signal or broadcast without it.
Put(t) ==
    /\ prog = "cond" /\ t \in Producers /\ pc[t].at = "hold"
    /\ items' = items + 1
    /\ pc' = [pc EXCEPT ![t].at = "unlock", ![t].then = "bump"]
    /\ UNCHANGED c /\ CondOnly
\* atomic_fetch_add of cond_signal and cond_broadcast, then the notify.
Bump(t) == pc[t].at = "bump" /\ c' = c + 1 /\ Goto(t, "notify") /\ UNCHANGED items /\ CondOnly
\* The notify: one sleeper (signal) or all of them (broadcast).
Notify(t) ==
    /\ pc[t].at = "notify" /\ UNCHANGED <<c, items>> /\ CondOnly
    /\ LET asleep == {u \in Threads : pc[u].at = "condWait"}
           Wake(S) == pc' = [u \in Threads |-> IF u \in S THEN [pc[u] EXCEPT !.at = "lock"]
                             ELSE IF u = t THEN [pc[u] EXCEPT !.at = "rest"] ELSE pc[u]]
       IN  Wake(asleep) \/ \E u \in asleep : Wake({u})

\* A wait that reads the counter only once it has let the mutex go.
LateCondWait(t) ==
    /\ prog = "cond" /\ t \notin Producers /\ UNCHANGED <<c, items>> /\ CondOnly
    /\ \/ pc[t].at = "hold" /\ items = 0
          /\ pc' = [pc EXCEPT ![t].at = "unlock", ![t].then = "sequence"]
       \/ pc[t].at = "sequence" /\ pc' = [pc EXCEPT ![t].at = "condSleep", ![t].seq = c]
\* pthread_cond_wait, nurl_cond_wait_ms: the counter, then the release.
CondWait(t) ==
    /\ prog = "cond" /\ t \notin Producers /\ pc[t].at = "hold" /\ items = 0
    /\ pc' = [pc EXCEPT ![t].seq = c, ![t].at = "unlock", ![t].then = "condSleep"]
    /\ UNCHANGED <<c, items>> /\ CondOnly
CondSleep(t) ==
    /\ pc[t].at = "condSleep" /\ Goto(t, IF c = pc[t].seq THEN "condWait" ELSE "lock")
    /\ UNCHANGED <<c, items>> /\ CondOnly
\* The bounded wait runs out, and takes the mutex again.
TimedOut(t) == pc[t].at = "condWait" /\ Goto(t, "lock") /\ UNCHANGED <<c, items>> /\ CondOnly
Take(t) ==
    /\ prog = "cond" /\ t \notin Producers /\ pc[t].at = "hold" /\ items > 0
    /\ items' = items - 1
    /\ pc' = [pc EXCEPT ![t].at = "unlock", ![t].then = "rest"]
    /\ UNCHANGED c /\ CondOnly

-----------------------------------------------------------------------------
(* One thread per fiber.                                                   *)

FiberOnly == UNCHANGED <<prog, m, c, items>>
\* A fiber block touched after it was freed.
Use(f) == bad' = IF fib[f].mem THEN bad ELSE bad \cup {f}
Free(f) == [fib EXCEPT ![f].mem = FALSE, ![f].tid = "freed"]

\* A fiber's own spawns counted in no group.
UncountedSpawn(t, f) ==
    /\ prog = "fiber" /\ fib[f].at = "none"
    /\ (t = Main /\ pc[t].at = "rest") \/ (t \in Fibers /\ fib[t].at = "body" /\ pc[t].at = "rest")
    /\ fib' = [fib EXCEPT ![f] = [NoFiber EXCEPT !.mem = TRUE, !.refs = 2, !.tid = "live", !.at = "made"]]
    /\ pc' = [pc EXCEPT ![t].at = "create", ![t].then = f]
    /\ live' = IF t = Main THEN live + 1 ELSE live
    /\ UNCHANGED <<gen, bad>> /\ FiberOnly
\* nurl__wf_spawn: the block and the count before the thread; then the host
\* starts it, or the count is taken back.
Spawn(t, f) ==
    /\ prog = "fiber" /\ fib[f].at = "none"
    /\ (t = Main /\ pc[t].at = "rest") \/ (t \in Fibers /\ fib[t].at = "body" /\ pc[t].at = "rest")
    /\ \E j \in BOOLEAN :
         fib' = [fib EXCEPT ![f] = [NoFiber EXCEPT !.joinable = j, !.mem = TRUE, !.refs = 2,
                                    !.tid = "live", !.at = "made"]]
    /\ pc' = [pc EXCEPT ![t].at = "create", ![t].then = f]
    /\ live' = live + 1 /\ UNCHANGED <<gen, bad>> /\ FiberOnly
Create(t) ==
    /\ pc[t].at = "create" /\ FiberOnly /\ UNCHANGED <<gen, bad>>
    /\ LET f == pc[t].then IN
         \/ /\ fib' = [fib EXCEPT ![f].at = "body"] /\ Goto(t, "handle") /\ UNCHANGED live
         \/ /\ live' = live - 1
            /\ fib' = [fib EXCEPT ![f] = [NoFiber EXCEPT !.at = "failed"]]
            /\ pc' = [pc EXCEPT ![t].at = "rest", ![t].then = "rest"]
\* pthread_create returns: *t = ts is written to the tid block.
Handle(t) ==
    /\ pc[t].at = "handle" /\ FiberOnly /\ UNCHANGED <<live, gen, bad>>
    /\ LET f == pc[t].then IN
         fib' = [fib EXCEPT ![f].tid = IF @ = "live" THEN "set" ELSE "overwritten"]
    /\ pc' = [pc EXCEPT ![t].at = "rest", ![t].then = "rest"]

\* nurl__wf_body after the closure: done is set and its waiters woken.
BodyEnds(f) ==
    /\ fib[f].at = "body" /\ pc[f].at = "rest" /\ Use(f)
    /\ fib' = [fib EXCEPT ![f].at = "count", ![f].done = TRUE]
    /\ pc' = [t \in Threads |-> IF pc[t].at = "doneWait" /\ pc[t].then = f
                                THEN [pc[t] EXCEPT !.at = "joinThread"] ELSE pc[t]]
    /\ UNCHANGED <<live, gen>> /\ FiberOnly
Uncount(f) ==
    /\ fib[f].at = "count" /\ live' = live - 1 /\ Use(f)
    /\ fib' = [fib EXCEPT ![f].at = "gen"] /\ UNCHANGED <<pc, gen>> /\ FiberOnly
NextGen(f) ==
    /\ fib[f].at = "gen" /\ gen' = gen + 1
    /\ pc' = [t \in Threads |-> IF pc[t].at = "runWait" THEN [pc[t] EXCEPT !.at = "run"] ELSE pc[t]]
    /\ fib' = [fib EXCEPT ![f].at = "drop"] /\ UNCHANGED <<live, bad>> /\ FiberOnly

\* A body that frees its block whoever may still join it.
HeldDrop(f) ==
    /\ fib[f].at = "drop" /\ Use(f)
    /\ fib' = [fib EXCEPT ![f].at = "exit", ![f].mem = FALSE, ![f].tid = "freed"]
    /\ UNCHANGED <<pc, live, gen>> /\ FiberOnly
\* The body's reference: it frees the block of a fiber nobody can join, or
\* whose handle was let go first.
Drop(f) ==
    /\ fib[f].at = "drop" /\ Use(f)
    /\ LET last == ~fib[f].joinable \/ fib[f].refs = 1
           g == IF last THEN Free(f) ELSE [fib EXCEPT ![f].refs = @ - 1]
       IN  fib' = [g EXCEPT ![f].at = "exit"]
    /\ UNCHANGED <<pc, live, gen>> /\ FiberOnly
\* wasi_thread_start's last store, which a thread join waits for.
Exit(f) ==
    /\ fib[f].at = "exit" /\ fib' = [fib EXCEPT ![f].at = "ended", ![f].ended = TRUE]
    /\ UNCHANGED <<pc, live, gen, bad>> /\ FiberOnly

Joinable(f) == /\ prog = "fiber" /\ fib[f].joinable /\ pc[Main].at = "rest"
               /\ fib[f].tid \in {"set", "overwritten"}
\* nurl_fiber_join: the done flag, the thread, the block.
Join(f) ==
    /\ Joinable(f) /\ Use(f)
    /\ fib' = [fib EXCEPT ![f].joinable = TRUE]
    /\ pc' = [pc EXCEPT ![Main].then = f, ![Main].at = IF fib[f].done THEN "joinThread" ELSE "doneWait"]
    /\ UNCHANGED <<live, gen>> /\ FiberOnly
JoinThread ==
    /\ pc[Main].at = "joinThread"
    /\ LET f == pc[Main].then IN
         /\ fib[f].ended /\ Use(f)
         /\ fib' = [Free(f) EXCEPT ![f].joinable = FALSE]
    /\ pc' = [pc EXCEPT ![Main].at = "rest", ![Main].then = "rest"]
    /\ UNCHANGED <<live, gen>> /\ FiberOnly
\* nurl_fiber_detach: the handle's reference goes.
Detach(f) ==
    /\ Joinable(f) /\ Use(f)
    /\ fib' = IF fib[f].refs = 1 THEN [Free(f) EXCEPT ![f].joinable = FALSE]
              ELSE [fib EXCEPT ![f].refs = @ - 1, ![f].tid = "detached"]
    /\ UNCHANGED <<pc, live, gen>> /\ FiberOnly

\* nurl_runtime_run: the count, then the generation, then the sleep.
Run == /\ prog = "fiber" /\ pc[Main].at \in {"rest", "run"}
       /\ pc[Main].at = "rest" => \E f \in Fibers : fib[f].at # "none"
       /\ Goto(Main, IF live <= 0 THEN "ran" ELSE "runGen")
       /\ UNCHANGED <<fib, live, gen, bad>> /\ FiberOnly
RunGen == /\ pc[Main].at = "runGen" /\ pc' = [pc EXCEPT ![Main].at = "runSleep", ![Main].seq = gen]
          /\ UNCHANGED <<fib, live, gen, bad>> /\ FiberOnly
RunSleep == /\ pc[Main].at = "runSleep" /\ Goto(Main, IF gen = pc[Main].seq THEN "runWait" ELSE "run")
            /\ UNCHANGED <<fib, live, gen, bad>> /\ FiberOnly

-----------------------------------------------------------------------------
Next ==
    \/ \E t \in Threads : \/ Locking(t) \/ Round(t) \/ Body(t) \/ Put(t) \/ Bump(t) \/ Notify(t)
                          \/ CondWait(t) \/ CondSleep(t) \/ TimedOut(t) \/ Take(t)
                          \/ Create(t) \/ Handle(t) \/ \E f \in Fibers : Spawn(t, f)
    \/ \E f \in Fibers : BodyEnds(f) \/ Uncount(f) \/ NextGen(f) \/ Drop(f) \/ Exit(f) \/ Join(f) \/ Detach(f)
    \/ JoinThread \/ Run \/ RunGen \/ RunSleep

Spec == Init /\ [][Next]_vars

-----------------------------------------------------------------------------
\* A thread asleep on the mutex has somebody to wake it: the word says
\* there are waiters, or a release or an awake waiter (which takes the
\* mutex as contended) is on its way.
LockSleeperWoken ==
    (\E t \in Threads : pc[t].at = "mutexWait") =>
        m = 2 \/ \E t \in Threads : pc[t].at \in {"clear", "wakeOne", "retry", "slow", "mark", "doze"}

\* While an item is there, not every waiter sleeps: one is awake, or a
\* notify is still to come.
NoSignalLost ==
    (items > 0 /\ \E t \in Threads \ Producers : pc[t].at = "condWait") =>
        \E t \in Threads :
            \/ t \in Producers /\ pc[t].at \in {"unlock", "clear", "wakeOne", "bump", "notify"}
            \/ t \notin Producers /\ pc[t].at \notin {"condWait", "rest"}

\* A fiber's block is never used once it is freed, whichever of the body,
\* a join and a detach lets go last.
FiberBlockHeld == bad = {}

\* runtime_run returns only when every fiber spawned has run its body.
RunAfterAll == pc[Main].at = "ran" => \A f \in Fibers : fib[f].at \notin {"body", "count"}

\* "Block until every spawned fiber has finished": with all of them
\* finished the root does not sleep on.
RunNotStranded ==
    pc[Main].at = "runWait" /\ live = 0 => \E f \in Fibers : fib[f].at = "gen"

\* pthread_create writes its handle to a block that is still allocated.
HandleBlockHeld == \A f \in Fibers : fib[f].tid # "overwritten"
=============================================================================
