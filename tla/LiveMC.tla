------------------------------- MODULE LiveMC -------------------------------
(***************************************************************************)
(* Model-checking instance, under fairness, of the parts in which someone  *)
(* waits: the netpoller, the poll(2) reactor, condition variables, the     *)
(* resolver's pool, a listener being stopped, child processes on Windows,  *)
(* the unikernel's scheduler and its clock.  Each behaviour is one of a    *)
(* single component, at bounds just large enough for its waits.            *)
(***************************************************************************)
EXTENDS Netpoll

CONSTANTS
    Parts, None

VARIABLES
    part,      \* the component this behaviour is of
    rnow, rq, idle, threads, worker, job, caller, bad, calls, forked,
    owner, lst, acc, stop, conns, arrived, badFd, badMem,
    prog, clock, readable, fib, timed, ent, waits, freelist, pipe, pokes, waker, rpc,
    pollset, till, got, todo, recycle, stopping, misfired, parks,
    tokens, posts, mutex, lk, list, cv, timed_park, park_state, ctimed, cresult, runnable,
    cpc, node, all,
    ops, running, co, runq, sleepers, at, mtx, cnd, rw, rwHeld, joiners, drain, reg, mn,
    count, ticks, dead,
    localq, gq, rseq, rseq_clock, admits, io, readyIo, qpc, handed, direct, g, tick, mode,
    want, ret, idle_waiters, started, leased, napping, poked, ending,
    child, code, writer, outPipe, produced, scratch, taken, flight, eof, waited, exitCode,
    errKind, open, hpc, by, htimed, line, reads,
    rnpc, left, inPipe, inHeld, pipes, outHeld, wrote, reader, collected, process, busy,
    err,
    tnow, h, conn, op, sent, waiter, tops,
    mach, perMs, tsc, lag, fires, pending, gpc, sleep, early, sleeps

\* Whoever waits or serves: callers, threads, acceptors, fibers, coroutines, runs.
Actors == {"a", "b"}
Stream == [k \in Actors |-> IF k = "a" THEN "out" ELSE "err"]

\* Guests whose clock rate comes from the hypervisor, the crystal, the command line or
\* the PIT, with and without an APIC timer and its deadline mode.
Guest(hyp, crystal, line0, plate, pit, mb2, apic, dl) ==
    [hypervisor |-> hyp, crystal |-> crystal, cmdline |-> line0, nameplate |-> plate,
     pit |-> pit, mb2 |-> mb2, apic |-> apic, deadline |-> dl]
Machines ==
    {Guest(0, 0, 0, 0, 5, TRUE, FALSE, FALSE), Guest(5, 0, 0, 0, 0, FALSE, TRUE, TRUE),
     Guest(0, 0, 5, 0, 0, FALSE, TRUE, FALSE), Guest(0, 1, 0, 6, 0, FALSE, TRUE, FALSE),
     Guest(0, 0, 0, 0, 5, FALSE, TRUE, TRUE)}

RS == INSTANCE Resolver WITH
    Callers <- Actors, Pool <- {"a"}, MaxClock <- 1, Timeouts <- {0, 1}, MaxAddrs <- 1,
    MaxCalls <- 2
LS == INSTANCE Listener WITH
    Acceptors <- Actors, Stoppers <- {"a"}, Fds <- {1}, MaxConns <- 1, FiberReuse <- FALSE
PR == INSTANCE PollReactor WITH
    ready <- readable, batch <- pollset, stop <- stopping, Fibers <- {"a"}, Fds <- {1},
    Programs <- {{"fd"}, {"sleep"}}, Timeouts <- {None, 1}, Entries <- {1, 2, 3},
    MaxClock <- 1, MaxParks <- 2
FC == INSTANCE FCond WITH
    pc <- cpc, timed <- ctimed, result <- cresult, Fibers <- {"a"}, Threads <- {"b"},
    Posters <- {"p"}, Nobody <- None, NoFiber <- None, LateSignal <- FALSE, MaxPosts <- 2
BS == INSTANCE BareSched WITH
    cur <- running, rq <- runq, timers <- sleepers, clock <- ticks, Coros <- Actors,
    Main <- "main", Programs <- {{"sleep", "join"}}, MaxClock <- 1, ParkClock <- 1,
    Waits <- {1}
RQ == INSTANCE RunQueues WITH
    rq <- localq, ready <- readyIo, lease <- leased, sleeping <- napping, pc <- qpc,
    cur <- handed, shutdown <- ending, Threads <- {"t"}, Netpoller <- TRUE,
    LatePush <- FALSE, LocalShare <- 1, BatchCap <- 16, MaxStamp <- 4
PC == INSTANCE ProcChild WITH
    pc <- hpc, pipe <- outPipe, timed <- htimed, result <- line, calls <- reads,
    Threads <- Actors, PipeRoom <- 2, MaxOut <- 2, MaxCalls <- 2
RN == INSTANCE ProcRun WITH
    pc <- rnpc, child <- process, outPipe <- pipes, got <- collected, Runs <- {"a"},
    Us <- "us", PipeRoom <- 1, InLen <- [r \in {"a"} |-> 2], MaxOut <- [r \in {"a"} |-> 2]
TC == INSTANCE TcpConn WITH
    now <- tnow, sock <- conn, ops <- tops, NsPerMs <- 1, MaxClock <- 0, Idles <- {0},
    Budgets <- {0}, Sizes <- {<<1, 0>>}, MaxOps <- 1
GC == INSTANCE GuestClock WITH
    pc <- gpc, Milli <- 2, Wants <- {0, 1, 4}, ApicPeriod <- 2, Counts <- {1, 2, 3},
    MaxCount <- 5, MaxLag <- 2, MaxTsc <- 24, MaxSleeps <- 1

\* One component moves; the others' variables are not used.
SuiteInit ==
    /\ part \in Parts
    /\ Init
    /\ IF part = "resolver" THEN RS!Init
       ELSE /\ rnow = 0 /\ rq = 0 /\ idle = 0 /\ threads = 0 /\ worker = 0
            /\ job = 0 /\ caller = 0 /\ bad = 0 /\ calls = 0 /\ forked = 0
    /\ IF part = "listener" THEN LS!Init
       ELSE /\ owner = 0 /\ lst = 0 /\ acc = 0 /\ stop = 0 /\ conns = 0
            /\ arrived = 0 /\ badFd = 0 /\ badMem = 0
    /\ IF part = "reactor" THEN PR!Init
       ELSE /\ prog = 0 /\ clock = 0 /\ readable = 0 /\ fib = 0 /\ timed = 0
            /\ ent = 0 /\ waits = 0 /\ freelist = 0 /\ pipe = 0 /\ pokes = 0
            /\ waker = 0 /\ rpc = 0 /\ pollset = 0 /\ till = 0 /\ got = 0
            /\ todo = 0 /\ recycle = 0 /\ stopping = 0 /\ misfired = 0
            /\ parks = 0
    /\ IF part = "cond" THEN FC!Init
       ELSE /\ tokens = 0 /\ posts = 0 /\ mutex = 0 /\ lk = 0 /\ list = 0
            /\ cv = 0 /\ timed_park = 0 /\ park_state = 0 /\ ctimed = 0
            /\ cresult = 0 /\ runnable = 0 /\ cpc = 0 /\ node = 0 /\ all = 0
    /\ IF part = "sched" THEN BS!Init
       ELSE /\ ops = 0 /\ running = 0 /\ co = 0 /\ runq = 0 /\ sleepers = 0
            /\ at = 0 /\ mtx = 0 /\ cnd = 0 /\ rw = 0 /\ rwHeld = 0
            /\ joiners = 0 /\ drain = 0 /\ reg = 0 /\ mn = 0 /\ count = 0
            /\ ticks = 0 /\ dead = 0
    /\ IF part = "queues" THEN RQ!Init
       ELSE /\ localq = 0 /\ gq = 0 /\ rseq = 0 /\ rseq_clock = 0 /\ admits = 0
            /\ io = 0 /\ readyIo = 0 /\ qpc = 0 /\ handed = 0 /\ direct = 0
            /\ g = 0 /\ tick = 0 /\ mode = 0 /\ want = 0 /\ ret = 0
            /\ idle_waiters = 0 /\ started = 0 /\ leased = 0 /\ napping = 0
            /\ poked = 0 /\ ending = 0
    /\ IF part = "child" THEN PC!Init
       ELSE /\ child = 0 /\ code = 0 /\ writer = 0 /\ outPipe = 0 /\ produced = 0
            /\ scratch = 0 /\ taken = 0 /\ flight = 0 /\ eof = 0 /\ waited = 0
            /\ exitCode = 0 /\ errKind = 0 /\ open = 0 /\ hpc = 0 /\ by = 0
            /\ htimed = 0 /\ line = 0 /\ reads = 0
    /\ IF part = "run" THEN RN!Init
       ELSE /\ rnpc = 0 /\ left = 0 /\ inPipe = 0 /\ inHeld = 0 /\ pipes = 0
            /\ outHeld = 0 /\ wrote = 0 /\ reader = 0 /\ collected = 0
            /\ process = 0 /\ busy = 0 /\ err = 0
    /\ IF part = "tcp" THEN TC!Init
       ELSE /\ tnow = 0 /\ h = 0 /\ conn = 0 /\ op = 0 /\ sent = 0 /\ waiter = 0
            /\ tops = 0
    /\ IF part = "clock" THEN GC!Init
       ELSE /\ mach = 0 /\ perMs = 0 /\ tsc = 0 /\ lag = 0 /\ fires = 0
            /\ pending = 0 /\ gpc = 0 /\ sleep = 0 /\ early = 0 /\ sleeps = 0

resolverVars == <<rnow, rq, idle, threads, worker, job, caller, bad, calls, forked>>
listenerVars == <<owner, lst, acc, stop, conns, arrived, badFd, badMem>>
reactorVars == <<
    prog, clock, readable, fib, timed, ent, waits, freelist, pipe, pokes, waker, rpc,
    pollset, till, got, todo, recycle, stopping, misfired, parks>>
condVars == <<
    tokens, posts, mutex, lk, list, cv, timed_park, park_state, ctimed, cresult, runnable,
    cpc, node, all>>
schedVars == <<
    ops, running, co, runq, sleepers, at, mtx, cnd, rw, rwHeld, joiners, drain, reg, mn,
    count, ticks, dead>>
queuesVars == <<
    localq, gq, rseq, rseq_clock, admits, io, readyIo, qpc, handed, direct, g, tick, mode,
    want, ret, idle_waiters, started, leased, napping, poked, ending>>
childVars == <<
    child, code, writer, outPipe, produced, scratch, taken, flight, eof, waited, exitCode,
    errKind, open, hpc, by, htimed, line, reads>>
runVars == <<
    rnpc, left, inPipe, inHeld, pipes, outHeld, wrote, reader, collected, process, busy,
    err>>
tcpVars == <<tnow, h, conn, op, sent, waiter, tops>>
clockVars == <<mach, perMs, tsc, lag, fires, pending, gpc, sleep, early, sleeps>>

Rest(p) ==
    /\ UNCHANGED part
    /\ IF p = "netpoll" THEN TRUE ELSE UNCHANGED vars
    /\ IF p = "resolver" THEN TRUE ELSE UNCHANGED resolverVars
    /\ IF p = "listener" THEN TRUE ELSE UNCHANGED listenerVars
    /\ IF p = "reactor" THEN TRUE ELSE UNCHANGED reactorVars
    /\ IF p = "cond" THEN TRUE ELSE UNCHANGED condVars
    /\ IF p = "sched" THEN TRUE ELSE UNCHANGED schedVars
    /\ IF p = "queues" THEN TRUE ELSE UNCHANGED queuesVars
    /\ IF p = "child" THEN TRUE ELSE UNCHANGED childVars
    /\ IF p = "run" THEN TRUE ELSE UNCHANGED runVars
    /\ IF p = "tcp" THEN TRUE ELSE UNCHANGED tcpVars
    /\ IF p = "clock" THEN TRUE ELSE UNCHANGED clockVars

SuiteNext ==
    \/ part = "netpoll" /\ Next /\ Rest("netpoll")
    \/ part = "resolver" /\ RS!Next /\ Rest("resolver")
    \/ part = "listener" /\ LS!Next /\ Rest("listener")
    \/ part = "reactor" /\ PR!Next /\ Rest("reactor")
    \/ part = "cond" /\ FC!Next /\ Rest("cond")
    \/ part = "sched" /\ BS!Next /\ Rest("sched")
    \/ part = "queues" /\ RQ!Next /\ Rest("queues")
    \/ part = "child" /\ PC!Next /\ Rest("child")
    \/ part = "run" /\ RN!Next /\ Rest("run")
    \/ part = "tcp" /\ TC!Next /\ Rest("tcp")
    \/ part = "clock" /\ GC!Next /\ Rest("clock")

Suitevars == <<
    part, vars, resolverVars, listenerVars, reactorVars, condVars, schedVars, queuesVars,
    childVars, runVars, tcpVars, clockVars>>
\* The variables of the component that moves, and a step of it.
Here == CASE part = "netpoll" -> vars [] part = "resolver" -> resolverVars
          [] part = "listener" -> listenerVars [] part = "reactor" -> reactorVars
          [] part = "cond" -> condVars [] part = "sched" -> schedVars [] part = "queues" -> queuesVars [] part = "child" -> childVars
          [] part = "tcp" -> tcpVars [] part = "run" -> runVars [] OTHER -> clockVars
Of(p, A) == part = p /\ A /\ UNCHANGED part

\* The fairness of each component, as its module states it.  A behaviour is one of a
\* single component, so one conjunct speaks of a step of each.
SuiteFairness ==
    /\ WF_Here(\/ Of("netpoll", PollStep) \/ Of("resolver", RS!Tick) \/ Of("reactor", PR!Tick)
               \/ Of("cond", FC!PosterStep("p")) \/ Of("sched", BS!Scheduler /\ UNCHANGED ops)
               \/ Of("child", PC!Shutdown) \/ (\E w \in Workers : Of("queues", RQ!Worker(w)))
               \/ Of("tcp", TC!WaitEnds) \/ Of("clock", GC!Tick))
    /\ WF_Here(\/ \E w \in Workers : Of("netpoll", FiberStep(w))
               \/ Of("resolver", RS!Loop("a")) \/ Of("cond", FC!Expire("a"))
               \/ Of("reactor", PR!Build \/ PR!Drain \/ PR!Walk \/ PR!UnparkOne \/ PR!Recycle)
               \/ Of("sched", BS!Tick /\ UNCHANGED ops) \/ Of("queues", RQ!InCall("t")) \/ Of("child", PC!Completed) \/ Of("clock", GC!Cpu))
    /\ WF_Here(Of("reactor", PR!Poke) \/ Of("resolver", RS!Resume("a")))
    /\ WF_Here(Of("reactor", PR!WakeEnds) \/ Of("resolver", RS!IdleTimeout("a")))
    /\ SF_Here(\/ \E w \in Workers : Of("netpoll", TakeLease(w, TRUE) \/ TakeLease(w, FALSE))
               \/ Of("reactor", PR!PollReturns) \/ Of("cond", FC!Probe("p")))
    /\ \A k \in Actors :
         /\ WF_Here(\/ Of("netpoll", WakeBatch(k)) \/ Of("resolver", RS!Proceeds(k))
                    \/ Of("listener", LS!Proceeds(k)) \/ Of("cond", FC!Wait(k))
                    \/ Of("reactor", k = "a" /\ PR!Activate(k))
                    \/ Of("sched", BS!Yield(k) /\ UNCHANGED ops) \/ Of("run", IF k = "a" THEN RN!Caller("a") ELSE RN!FilterEnds("a")))
         /\ WF_Here(\/ Of("resolver", RS!Expires(k)) \/ Of("listener", k = "a" /\ LS!Stops(k))
                    \/ Of("reactor", k = "a" /\ PR!Resume(k))
                    \/ Of("sched", BS!Resumes(k) /\ UNCHANGED ops) \/ Of("run", k = "a" /\ RN!ChildReads(k)))
         /\ WF_Here(Of("run", RN!Read("a", Stream[k])))
         /\ WF_Here(Of("run", RN!ChildWrites("a", Stream[k])))
         /\ SF_Here(\/ \E w \in Workers : Of("netpoll", Run(w, k))
                    \/ Of("cond", FC!GetsMutex(k)))

SuiteSpec == SuiteInit /\ [][SuiteNext]_Suitevars /\ SuiteFairness
-----------------------------------------------------------------------------
\* Every wait with an end ends: a runnable fiber runs, and one whose descriptor the only
\* worker polls (nurl__worker_next), a parked fiber whose deadline passed is woken
\* (nurl__np_poll_at), so is one of the poll(2) build that is due or whose descriptor
\* stays ready (nurl__reactor_loop) and one in a timed wait on a condition variable
\* (nurl_cond_wait_ms), a connect with a deadline returns whatever the resolver does
\* (nurl_tcp_connect_ms), every accept of a stopped listener returns
\* (nurl__tcp_listener_stop), a coroutine that sleeps wakes however often others yield
\* (nurl_runtime_run of the unikernel), a thread that waits to read a connection whose
\* read side is shut returns (nurl_tcp_conn_shutdown), and so does a guest's nanosleep.
Waits(k) ==
    \/ part = "netpoll" /\ Overdue(k)
    \/ part = "reactor" /\ k = "a" /\ PR!Owed(k)
    \/ part = "cond" /\ k = "a" /\ FC!TimedWait(k)
    \/ part = "resolver" /\ RS!Timed(k)
    \/ part = "listener" /\ LS!Stopped
    \/ part = "sched" /\ BS!Sleeping(k)
    \/ part = "queues" /\ k \in RQ!Queued \union readyIo
    \/ part = "tcp" /\ TC!ShutInWait
    \/ part = "clock" /\ GC!Asleep
Over(k) ==
    \/ part = "netpoll" /\ pc[k] # "parked"
    \/ part = "reactor" /\ k = "a" /\ ~PR!Owed(k)
    \/ part = "cond" /\ k = "a" /\ FC!TimedWaitOver(k)
    \/ part = "resolver" /\ RS!Ended(k)
    \/ part = "listener" /\ LS!Left(k)
    \/ part = "sched" /\ ~BS!Sleeping(k)
    \/ part = "queues" /\ (k \in RQ!Running \/ ending)
    \/ part = "tcp" /\ TC!WaitOver
    \/ part = "clock" /\ ~GC!Asleep
WaitsEnd == \A k \in Actors : Waits(k) ~> Over(k)

\* Every call that needs another party's step is answered: a fiber parked on a ready
\* descriptor is served by the poller (nurl__np_deliver_locked), a stop of a listener returns
\* (nurl__tcp_listener_stop), the reactor's shutdown joins its thread
\* (nurl__reactor_shutdown), the runtime's brings every worker to its exit
\* (nurl_runtime_shutdown), a lookup handed to the pool ends as long as getaddrinfo
\* itself returns, in a forked child too (nurl__dns_atfork_child), freeing a child whose
\* pipe nobody holds ends (nurl_proc_spawn_free), and a run that feeds and drains a child
\* through small pipes ends unless a reader gave up (nurl__proc_run_mode).
Asks(k) ==
    \/ part = "netpoll" /\ Parked(k) /\ ReadyFor(k)
    \/ part = "listener" /\ k = "a" /\ LS!Stopping(k)
    \/ part = "reactor" /\ PR!Joining
    \/ part = "resolver" /\ RS!Looking(k)
    \/ part = "queues" /\ qpc["t"] = "sdwake"
    \/ part = "child" /\ PC!Freeing
    \/ part = "run" /\ k = "a"
Answered(k) ==
    \/ part = "netpoll" /\ Served(k)
    \/ part = "listener" /\ k = "a" /\ ~LS!Stopping(k)
    \/ part = "reactor" /\ ~PR!Joining
    \/ part = "resolver" /\ ~RS!Looking(k)
    \/ part = "queues" /\ qpc["t"] = "ended"
    \/ part = "child" /\ ~PC!Freeing
    \/ part = "run" /\ k = "a" /\ RN!RunOver(k)
CallsAnswered ==
    WF_Here(Of("resolver", RS!Answer("a"))) => \A k \in Actors : Asks(k) ~> Answered(k)
=============================================================================
