------------------------------- MODULE WaitMC -------------------------------
(***************************************************************************)
(* Model-checking instance of the parts in which someone waits: condition  *)
(* variables, the resolver's pool, listeners, connections, the poll(2)     *)
(* reactor, the unikernel's scheduler and clock, child processes on        *)
(* Windows.  Each behaviour is one of a single component.  No fairness is  *)
(* needed here; LiveMC has the waits that must end.                        *)
(***************************************************************************)
EXTENDS FCond, TLC

CONSTANTS
    Parts, None,
    \* the resolver: its threads, and what the connects ask of it
    Pool, ConnectClock, ConnectTimeouts, MaxAddrs, MaxConnects,
    \* the listener: descriptor numbers, connections, reuse of a number under a fiber
    ListenFds, MaxConns, FiberReuse,
    \* the connection: its clock, the limits the program sets, what it writes
    NsPerMs, ConnClock, Idles, Budgets, Sizes, MaxOps,
    \* the poll(2) reactor: what its fibers wait for and how long, its wait entries
    PollFds, PollPrograms, PollTimeouts, Entries, PollClock, MaxParks,
    \* the child and its pipe; the runs, their stdin and their children's output
    PipeRoom, MaxOut, MaxReads, Runs, Us, RunRoom, InLen, RunOut,
    \* the guest: the machines it boots on, its timer and its sleeps
    Machines, Milli, Wants, ApicPeriod, Counts, MaxCount, MaxLag, MaxTsc, MaxSleeps

ASSUME LookupAssumption == ConnectClock \in Nat /\ ConnectTimeouts \subseteq Nat /\ MaxAddrs \in Nat
ASSUME ListenAssumption == ListenFds \subseteq Nat \ {0}
ASSUME ConnAssumption ==
    /\ NsPerMs \in Nat \ {0} /\ ConnClock \in Nat /\ Idles \subseteq Nat /\ Budgets \subseteq Nat
    /\ Sizes \subseteq Nat \X Nat
ASSUME ReactorAssumption ==
    /\ None \notin Fibers \union PollFds \union Entries /\ Entries \subseteq Nat
    /\ PollTimeouts \ {None} \subseteq Nat /\ PollClock \in Nat /\ MaxParks \in Nat
ASSUME ChildAssumption == PipeRoom \in Nat /\ MaxOut \in Nat /\ MaxReads \in Nat
ASSUME RunAssumption == RunRoom \in Nat /\ Us \notin Runs
ASSUME GuestAssumption ==
    /\ Machines \subseteq [hypervisor : Nat, crystal : Nat, cmdline : Nat, nameplate : Nat, pit : Nat,
                           mb2 : BOOLEAN, apic : BOOLEAN, deadline : BOOLEAN]
    /\ Milli \in Nat \ {0} /\ Wants \subseteq Nat /\ ApicPeriod \in Nat \ {0}
    /\ Counts \subseteq Nat \ {0} /\ MaxCount \in Nat \ {0}
    /\ MaxLag \in Nat /\ MaxTsc \in Nat /\ MaxSleeps \in Nat

VARIABLES
    part,      \* the component this behaviour is of
    rnow, rq, idle, threads, worker, job, caller, bad, calls, forked,
    owner, lst, acc, stop, conns, arrived, badFd, badMem,
    now, h, sock, op, sent, waiter, ops,
    prog, clock, ready, fib, armed, ent, waits, freelist, pipe, pokes, waker, rpc, batch,
    till, got, todo, recycle, stopping, misfired, parks,
    todoOps, cur, co, runq, timers, at, mtx, cnd, rw, rwHeld, joiners, drain, reg, mn,
    count, ticks, dead,
    child, code, writer, outPipe, produced, scratch, taken, flight, eof, waited, exitCode,
    errKind, open, hpc, by, htimed, line, reads,
    rnpc, left, inPipe, inHeld, pipes, outHeld, wrote, reader, collected, process, busy,
    err,
    mach, perMs, tsc, lag, fires, pending, gpc, sleep, early, sleeps

\* A write of a head alone, and one of a head and a body.
WriteSizes == {<<2, 0>>, <<1, 2>>}

\* Of two runs one feeds and drains its child, the other inherits.
StdinLens == [r \in Runs |-> IF r = "a" THEN 2 ELSE 0]
Outputs == [r \in Runs |-> IF r = "a" THEN 2 ELSE 0]

\* Guests whose clock rate comes from the hypervisor, the crystal, the command line or
\* the PIT, with and without an APIC timer and its deadline mode.
Guest(hyp, crystal, line0, plate, pit, mb2, apic, dl) ==
    [hypervisor |-> hyp, crystal |-> crystal, cmdline |-> line0, nameplate |-> plate,
     pit |-> pit, mb2 |-> mb2, apic |-> apic, deadline |-> dl]
Guests ==
    {Guest(0, 0, 0, 0, 5, TRUE, FALSE, FALSE), Guest(5, 0, 0, 0, 0, FALSE, TRUE, TRUE),
     Guest(0, 0, 5, 0, 0, FALSE, TRUE, FALSE), Guest(0, 1, 0, 6, 0, FALSE, TRUE, FALSE),
     Guest(0, 0, 0, 0, 5, FALSE, TRUE, TRUE)}

RS == INSTANCE Resolver WITH
    Callers <- Fibers, MaxClock <- ConnectClock, Timeouts <- ConnectTimeouts,
    MaxCalls <- MaxConnects
LS == INSTANCE Listener WITH
    Acceptors <- Fibers, Stoppers <- Posters \union Threads, Fds <- ListenFds
TC == INSTANCE TcpConn WITH MaxClock <- ConnClock
PR == INSTANCE PollReactor WITH
    timed <- armed, stop <- stopping, Fds <- PollFds, Programs <- PollPrograms,
    Timeouts <- PollTimeouts, MaxClock <- PollClock
BS == INSTANCE BareSched WITH
    ops <- todoOps, rq <- runq, clock <- ticks, Coros <- Fibers, Main <- "main",
    Programs <- {{"mutex", "cond"}, {"rw"}, {"sleep", "join"}, {"park", "mutex"}, {"shutdown", "join", "sim"}, {"shutdown", "sleep"}},
    MaxClock <- 2, ParkClock <- 1, Waits <- {1, 2}
PC == INSTANCE ProcChild WITH
    pc <- hpc, pipe <- outPipe, timed <- htimed, result <- line, calls <- reads,
    Threads <- Fibers, MaxCalls <- MaxReads
RN == INSTANCE ProcRun WITH
    pc <- rnpc, child <- process, outPipe <- pipes, got <- collected, PipeRoom <- RunRoom,
    MaxOut <- RunOut
GC == INSTANCE GuestClock WITH pc <- gpc

\* One component moves; the others' variables are not used.
SuiteInit ==
    /\ part \in Parts
    /\ Init
    /\ IF part = "resolver" THEN RS!Init
       ELSE /\ rnow = 0 /\ rq = 0 /\ idle = 0 /\ threads = 0 /\ worker = 0
            /\ job = 0 /\ caller = 0 /\ bad = 0 /\ calls = 0 /\ forked = 0
    /\ IF part = "listener" THEN LS!Init
       ELSE /\ owner = 0 /\ lst = 0 /\ acc = 0 /\ stop = 0 /\ conns = 0
            /\ arrived = 0 /\ badFd = 0 /\ badMem = 0
    /\ IF part = "tcp" THEN TC!Init
       ELSE /\ now = 0 /\ h = 0 /\ sock = 0 /\ op = 0 /\ sent = 0 /\ waiter = 0
            /\ ops = 0
    /\ IF part = "reactor" THEN PR!Init
       ELSE /\ prog = 0 /\ clock = 0 /\ ready = 0 /\ fib = 0 /\ armed = 0
            /\ ent = 0 /\ waits = 0 /\ freelist = 0 /\ pipe = 0 /\ pokes = 0
            /\ waker = 0 /\ rpc = 0 /\ batch = 0 /\ till = 0 /\ got = 0
            /\ todo = 0 /\ recycle = 0 /\ stopping = 0 /\ misfired = 0
            /\ parks = 0
    /\ IF part = "sched" THEN BS!Init
       ELSE /\ todoOps = 0 /\ cur = 0 /\ co = 0 /\ runq = 0 /\ timers = 0
            /\ at = 0 /\ mtx = 0 /\ cnd = 0 /\ rw = 0 /\ rwHeld = 0
            /\ joiners = 0 /\ drain = 0 /\ reg = 0 /\ mn = 0 /\ count = 0
            /\ ticks = 0 /\ dead = 0
    /\ IF part = "child" THEN PC!Init
       ELSE /\ child = 0 /\ code = 0 /\ writer = 0 /\ outPipe = 0 /\ produced = 0
            /\ scratch = 0 /\ taken = 0 /\ flight = 0 /\ eof = 0 /\ waited = 0
            /\ exitCode = 0 /\ errKind = 0 /\ open = 0 /\ hpc = 0 /\ by = 0
            /\ htimed = 0 /\ line = 0 /\ reads = 0
    /\ IF part = "run" THEN RN!Init
       ELSE /\ rnpc = 0 /\ left = 0 /\ inPipe = 0 /\ inHeld = 0 /\ pipes = 0
            /\ outHeld = 0 /\ wrote = 0 /\ reader = 0 /\ collected = 0
            /\ process = 0 /\ busy = 0 /\ err = 0
    /\ IF part = "clock" THEN GC!Init
       ELSE /\ mach = 0 /\ perMs = 0 /\ tsc = 0 /\ lag = 0 /\ fires = 0
            /\ pending = 0 /\ gpc = 0 /\ sleep = 0 /\ early = 0 /\ sleeps = 0

resolverVars == <<rnow, rq, idle, threads, worker, job, caller, bad, calls, forked>>
listenerVars == <<owner, lst, acc, stop, conns, arrived, badFd, badMem>>
tcpVars == <<now, h, sock, op, sent, waiter, ops>>
reactorVars == <<
    prog, clock, ready, fib, armed, ent, waits, freelist, pipe, pokes, waker, rpc, batch,
    till, got, todo, recycle, stopping, misfired, parks>>
schedVars == <<
    todoOps, cur, co, runq, timers, at, mtx, cnd, rw, rwHeld, joiners, drain, reg, mn,
    count, ticks, dead>>
childVars == <<
    child, code, writer, outPipe, produced, scratch, taken, flight, eof, waited, exitCode,
    errKind, open, hpc, by, htimed, line, reads>>
runVars == <<
    rnpc, left, inPipe, inHeld, pipes, outHeld, wrote, reader, collected, process, busy,
    err>>
clockVars == <<mach, perMs, tsc, lag, fires, pending, gpc, sleep, early, sleeps>>

Rest(p) ==
    /\ UNCHANGED part
    /\ IF p = "cond" THEN TRUE ELSE UNCHANGED vars
    /\ IF p = "resolver" THEN TRUE ELSE UNCHANGED resolverVars
    /\ IF p = "listener" THEN TRUE ELSE UNCHANGED listenerVars
    /\ IF p = "tcp" THEN TRUE ELSE UNCHANGED tcpVars
    /\ IF p = "reactor" THEN TRUE ELSE UNCHANGED reactorVars
    /\ IF p = "sched" THEN TRUE ELSE UNCHANGED schedVars
    /\ IF p = "child" THEN TRUE ELSE UNCHANGED childVars
    /\ IF p = "run" THEN TRUE ELSE UNCHANGED runVars
    /\ IF p = "clock" THEN TRUE ELSE UNCHANGED clockVars

SuiteNext ==
    \/ part = "cond" /\ Next /\ Rest("cond")
    \/ part = "resolver" /\ RS!Next /\ Rest("resolver")
    \/ part = "listener" /\ LS!Next /\ Rest("listener")
    \/ part = "tcp" /\ TC!Next /\ Rest("tcp")
    \/ part = "reactor" /\ PR!Next /\ Rest("reactor")
    \/ part = "sched" /\ BS!Next /\ Rest("sched")
    \/ part = "child" /\ PC!Next /\ Rest("child")
    \/ part = "run" /\ RN!Next /\ Rest("run")
    \/ part = "clock" /\ GC!Next /\ Rest("clock")

Suitevars == <<
    part, vars, resolverVars, listenerVars, tcpVars, reactorVars, schedVars, childVars,
    runVars, clockVars>>
SuiteSpec == SuiteInit /\ [][SuiteNext]_Suitevars
Symmetry == Permutations(Fibers)
-----------------------------------------------------------------------------
\* Whoever is parked is made runnable once and is in one queue: a signal racing a
\* deadline claims a waiter's node once, while the waiter is still there
\* (nurl_fiber_wake); the poll round, the deadline and nurl_fiber_wake share one
\* claim, and a wait entry is in one list (nurl__reactor_loop); a coroutine is running or
\* in one queue, and a finished one is kept only for a handle (nb_unpark, nb_entry).
WokenOnce ==
    /\ part = "cond" => RunnableOnce /\ NodeAlive
    /\ part = "reactor" => PR!TypeOK /\ PR!WokenOnce /\ PR!EntryOnce
    /\ part = "sched" => BS!OneQueue /\ BS!DoneIsHeld

\* Whoever sleeps can still be woken: a fiber parked on a condition variable is where a
\* signal finds it (nurl__fcond_wake_fiber), the reactor's poll covers every active entry or has
\* a poke coming (nurl__reactor_activate), a parked coroutine is in a queue, on the timer
\* list or in somebody's hands, a free mutex or rwlock with a queue has handed itself on
\* and a reported deadlock is one (nb_park, pthread_mutex_unlock, nb_rw_grant of the
\* unikernel), and a halted CPU has its timer armed (nanosleep).
WakeIsComing ==
    /\ part = "cond" => ParkedReachable
    /\ part = "reactor" => PR!ActiveIsCovered
    /\ part = "sched" => BS!ParkedReachable /\ BS!MutexHandedOn /\ BS!RwExclusive /\ BS!DeadlockReal
    /\ part = "clock" => GC!TypeOK /\ GC!HaltHasWakeup

\* Shared state is used by those who still own it: a lookup's job is freed by the last of
\* waiter and pool thread, and only then (nurl__dns_offload, nurl__dns_thread); an accept uses neither a
\* descriptor closed under it or reused nor the struct of a freed listener
\* (nurl__tcp_listener_stop).
UsesWhatIsOwn ==
    /\ part = "resolver" => RS!NoStaleJob /\ RS!NoJobLeaked
    /\ part = "listener" => LS!OwnFdOnly /\ LS!NotFreedInUse

\* A time limit means what it says: a write leaves the kernel by its deadline, a call
\* without one blocks for the idle timeout last set, in the mode the handle remembers,
\* and what was sent is a prefix (nurl_tcp_write2); a wait says ready or timed out
\* only when it was (nurl__reactor_wait_k); a guest's sleep is never short (nanosleep).
TimeoutsMean ==
    /\ part = "tcp" => TC!WriteWithinDeadline /\ TC!IdleTimeoutInForce /\ TC!PrefixSent /\ TC!ModeRemembered
    /\ part = "reactor" => PR!ResultIsTrue
    /\ part = "clock" => GC!NeverShort

\* A child's output arrives whole: every byte once and in order however reads are cut by
\* timeouts, lines whole, the read's buffer kept while the kernel writes to it
\* (nurl_proc_spawn_read_line, nurl_proc_spawn_free), and each stream drained to its end while
\* stdin is fed, but for one whose reader thread could not be started, of which nothing
\* is returned (nurl__proc_run_mode).
OutputArrives ==
    /\ part = "child" => PC!TypeOK /\ PC!BytesKept /\ PC!LineWhole /\ PC!FreedClean
    /\ part = "run" => RN!TypeOK /\ RN!OutputWhole

\* Nobody's turn is taken by a step of the unikernel's scheduler: no reader overtakes a
\* waiting writer (nurl_rwlock_rdlock), main does not sleep past its own deadline for a
\* coroutine's later one (nb_step_bounded), and nurl_runtime_run returns only when all have ended.
TurnsKept ==
    [][part = "sched" => BS!WriterNotOvertaken /\ BS!NoOversleep /\ BS!RunWaitsForAll]_Suitevars
=============================================================================
