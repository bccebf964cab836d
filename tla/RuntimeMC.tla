----------------------------- MODULE RuntimeMC ------------------------------
(***************************************************************************)
(* Model-checking instance of the parts of the core runtime that need no   *)
(* fairness: the small-block cache, the panic journal, the crossing check, *)
(* the cycle collector, closure environments, guarded memory, the output   *)
(* buffer, fiber stacks, the spin budget, the timer heap, the              *)
(* reader-writer lock, the run queues of the netpoller build and the lease *)
(* fence.  Each behaviour is one of a single component; a name in the cfg  *)
(* may serve several of them.                                              *)
(***************************************************************************)
EXTENDS LeaseFence, TLC

CONSTANTS
    Parts, Threads, Blocks, MinShift, MaxShift, BudgetShift, Requests, Chunks, StashDepth,
    MaxAllocs, None, Fibers, Cells, MaxOwn, MaxFrames, MaxSeq, DropsAllocate, Counted,
    Hashes, SmallCap, MaxPlaces, Objs, MaxHandles, MaxOut, DropDepth, MinThreshold,
    WeakInGraph, Envs, Vals, NoEnv, Insts, Ranges, Places, MemCap, CodeCap, MaxPages,
    MaxLives, StackMax, MaxPrints, MaxCaptures, Stacks, Systems, Commit, Keep, Usable,
    TrimEvery, Cap, MaxFibers, DefaultCap, Margin, Lengths, Steady, MaxWaits, Entries,
    Deadlines, Holders, Locks, Inline, MaxGuards

VARIABLES
    part,      \* the component this behaviour is of
    on, tls, stash, data, size, asked, live, libc, list, next, join, alloc, freed, exited,
    strayed,
    cur, ctx, saved, cs, own, esc, cells, draining, depth, seen, twice, lost,
    hash, strong, left, places, tab, nesting, verdict,
    m, ext, wext, resource, phase,
    env, vals, frameVals, frame, passing, remote, misuse,
    inst, gmems, gcodes, installed, lives,
    tty, lock, buf, frames, mode, pending, log, ended, n, opened, obAsked, refused, got,
    os, stk, cache, len, made,
    host, est, burnt, steady, last, spun, waits,
    heap, heap_idx, deadline,
    platform, rwOs, writer, held, cap, guards, pc,
    localq, gq, rseq, rseq_clock, admits, io, readyIo, qpc, handed, direct, g, tick, qmode,
    want, ret, idle_waiters, started, leased, napping, poked, ending

\* The machines a spin budget is computed on: CPUs, affinity mask, cgroup quota and
\* period, and what NURL_SPIN_NS asks for (-1: unset).
Host(c, a, q, p, s) == [cpus |-> c, affinity |-> a, quota |-> q, period |-> p, asked |-> s]
Hosts == {Host(4, 0, 0, 0, -1), Host(4, 1, 0, 0, -1), Host(4, 0, 3, 2, -1), Host(4, 2, 0, 0, 0),
          Host(1, 0, 1, 2, 12), Host(0, 0, 0, 0, -1)}

SA == INSTANCE SmallAlloc
PJ == INSTANCE PanicJournal WITH
    heap <- cells
SC == INSTANCE SendCheck
CC == INSTANCE CycleCollector
CE == INSTANCE ClosureEnv
GM == INSTANCE GuardMem
OB == INSTANCE OutBuffer WITH
    asked <- obAsked, MaxFrames <- MaxCaptures
ST == INSTANCE StackCache
SP == INSTANCE SpinPark
TH == INSTANCE TimerHeap
RW == INSTANCE RwLock WITH
    os <- rwOs
RQ == INSTANCE RunQueues WITH
    rq <- localq, ready <- readyIo, lease <- leased, sleeping <- napping, pc <- qpc,
    cur <- handed, mode <- qmode, shutdown <- ending, Fibers <- Cells, Workers <- Threads,
    Threads <- {"t"}, NoFiber <- None, NoWorker <- None, Netpoller <- TRUE,
    LatePush <- TRUE, LocalShare <- 1, BatchCap <- 16, MaxStamp <- 4

\* One component moves; the others' variables are not used.
SuiteInit ==
    /\ part \in Parts
    /\ Init
    /\ IF part = "alloc" THEN SA!Init
       ELSE /\ on = 0 /\ tls = 0 /\ stash = 0 /\ data = 0 /\ size = 0
            /\ asked = 0 /\ live = 0 /\ libc = 0 /\ list = 0 /\ next = 0
            /\ join = 0 /\ alloc = 0 /\ freed = 0 /\ exited = 0 /\ strayed = 0
    /\ IF part = "journal" THEN PJ!Init
       ELSE /\ cur = 0 /\ ctx = 0 /\ saved = 0 /\ cs = 0 /\ own = 0 /\ esc = 0
            /\ cells = 0 /\ draining = 0 /\ depth = 0 /\ seen = 0 /\ twice = 0
            /\ lost = 0
    /\ IF part = "send" THEN SC!Init
       ELSE /\ hash = 0 /\ strong = 0 /\ left = 0 /\ places = 0 /\ tab = 0
            /\ nesting = 0 /\ verdict = 0
    /\ IF part = "cycles" THEN CC!Init
       ELSE m = 0 /\ ext = 0 /\ wext = 0 /\ resource = 0 /\ phase = 0
    /\ IF part = "closures" THEN CE!Init
       ELSE /\ env = 0 /\ vals = 0 /\ frameVals = 0 /\ frame = 0 /\ passing = 0
            /\ remote = 0 /\ misuse = 0
    /\ IF part = "guard" THEN GM!Init
       ELSE inst = 0 /\ gmems = 0 /\ gcodes = 0 /\ installed = 0 /\ lives = 0
    /\ IF part = "output" THEN OB!Init
       ELSE /\ tty = 0 /\ lock = 0 /\ buf = 0 /\ frames = 0 /\ mode = 0
            /\ pending = 0 /\ log = 0 /\ ended = 0 /\ n = 0 /\ opened = 0
            /\ obAsked = 0 /\ refused = 0 /\ got = 0
    /\ IF part = "stacks" THEN ST!Init
       ELSE os = 0 /\ stk = 0 /\ cache = 0 /\ len = 0 /\ made = 0
    /\ IF part = "spin" THEN SP!Init
       ELSE /\ host = 0 /\ est = 0 /\ burnt = 0 /\ steady = 0 /\ last = 0
            /\ spun = 0 /\ waits = 0
    /\ IF part = "timers" THEN TH!Init
       ELSE heap = 0 /\ heap_idx = 0 /\ deadline = 0
    /\ IF part = "rwlock" THEN RW!Init
       ELSE /\ platform = 0 /\ rwOs = 0 /\ writer = 0 /\ held = 0 /\ cap = 0
            /\ guards = 0 /\ pc = 0
    /\ IF part = "queues" THEN RQ!Init
       ELSE /\ localq = 0 /\ gq = 0 /\ rseq = 0 /\ rseq_clock = 0 /\ admits = 0
            /\ io = 0 /\ readyIo = 0 /\ qpc = 0 /\ handed = 0 /\ direct = 0
            /\ g = 0 /\ tick = 0 /\ qmode = 0 /\ want = 0 /\ ret = 0
            /\ idle_waiters = 0 /\ started = 0 /\ leased = 0 /\ napping = 0
            /\ poked = 0 /\ ending = 0

allocVars == <<
    on, tls, stash, data, size, asked, live, libc, list, next, join, alloc, freed, exited,
    strayed>>
journalVars == <<cur, ctx, saved, cs, own, esc, cells, draining, depth, seen, twice, lost>>
sendVars == <<hash, strong, left, places, tab, nesting, verdict>>
cyclesVars == <<m, ext, wext, resource, phase>>
closuresVars == <<env, vals, frameVals, frame, passing, remote, misuse>>
guardVars == <<inst, gmems, gcodes, installed, lives>>
outputVars == <<
    tty, lock, buf, frames, mode, pending, log, ended, n, opened, obAsked, refused, got>>
stacksVars == <<os, stk, cache, len, made>>
spinVars == <<host, est, burnt, steady, last, spun, waits>>
timersVars == <<heap, heap_idx, deadline>>
rwlockVars == <<platform, rwOs, writer, held, cap, guards, pc>>
queuesVars == <<
    localq, gq, rseq, rseq_clock, admits, io, readyIo, qpc, handed, direct, g, tick, qmode,
    want, ret, idle_waiters, started, leased, napping, poked, ending>>

Rest(p) ==
    /\ UNCHANGED part
    /\ IF p = "lease" THEN TRUE ELSE UNCHANGED vars
    /\ IF p = "alloc" THEN TRUE ELSE UNCHANGED allocVars
    /\ IF p = "journal" THEN TRUE ELSE UNCHANGED journalVars
    /\ IF p = "send" THEN TRUE ELSE UNCHANGED sendVars
    /\ IF p = "cycles" THEN TRUE ELSE UNCHANGED cyclesVars
    /\ IF p = "closures" THEN TRUE ELSE UNCHANGED closuresVars
    /\ IF p = "guard" THEN TRUE ELSE UNCHANGED guardVars
    /\ IF p = "output" THEN TRUE ELSE UNCHANGED outputVars
    /\ IF p = "stacks" THEN TRUE ELSE UNCHANGED stacksVars
    /\ IF p = "spin" THEN TRUE ELSE UNCHANGED spinVars
    /\ IF p = "timers" THEN TRUE ELSE UNCHANGED timersVars
    /\ IF p = "rwlock" THEN TRUE ELSE UNCHANGED rwlockVars
    /\ IF p = "queues" THEN TRUE ELSE UNCHANGED queuesVars

SuiteNext ==
    \/ part = "lease" /\ Next /\ Rest("lease")
    \/ part = "alloc" /\ SA!Next /\ Rest("alloc")
    \/ part = "journal" /\ PJ!Next /\ Rest("journal")
    \/ part = "send" /\ SC!Next /\ Rest("send")
    \/ part = "cycles" /\ CC!Next /\ Rest("cycles")
    \/ part = "closures" /\ CE!Next /\ Rest("closures")
    \/ part = "guard" /\ GM!Next /\ Rest("guard")
    \/ part = "output" /\ OB!Next /\ Rest("output")
    \/ part = "stacks" /\ ST!Next /\ Rest("stacks")
    \/ part = "spin" /\ SP!Next /\ Rest("spin")
    \/ part = "timers" /\ TH!Next /\ Rest("timers")
    \/ part = "rwlock" /\ RW!Next /\ Rest("rwlock")
    \/ part = "queues" /\ RQ!Next /\ Rest("queues")

Suitevars == <<
    part, vars, allocVars, journalVars, sendVars, cyclesVars, closuresVars, guardVars,
    outputVars, stacksVars, spinVars, timersVars, rwlockVars, queuesVars>>
SuiteSpec == SuiteInit /\ [][SuiteNext]_Suitevars
Symmetry == Permutations(Threads) \union Permutations(Blocks) \union Permutations(Cells)
-----------------------------------------------------------------------------
\* Memory that is in use has one owner.  A block is with the program, on one freelist,
\* in one stash or with libc, and large enough for its request (nurl_alloc, nurl_free);
\* a panic frees what its frames own, once, and nothing of an outer scope or a new owner
\* (nurl__jrnl_drain_body); the cycle collector touches no freed block and keeps all the
\* program reaches (nurl__cc_run_roots); an environment that outlives its frame owns all
\* it captures, one holder each (nurl_closure_own_copy).
OneOwner ==
    /\ part = "alloc" => SA!OneHolder /\ SA!Fits
    /\ part = "journal" => PJ!NoDoubleFree /\ PJ!HeldIsLive
    /\ part = "cycles" => CC!NoUseAfterFree /\ CC!ReachableKept
    /\ part = "closures" => CE!NoMisuse /\ CE!RemoteOwns /\ CE!EachHeldOnce

\* Nothing is lost.  The counters give the blocks in use whoever joins meanwhile, and an
\* exited thread strands none in its cache, which never passes its budget; a panic
\* reclaims every cell its frames owned; between releases the strong counts are exact, a
\* resource in a cycle is gone with its last outside handle, and a context that ended
\* left nothing but what a Weak names.
NothingLost ==
    /\ part = "alloc" => SA!LiveTotal /\ SA!ExitedHoldsNothing /\ SA!BudgetHeld
    /\ part = "journal" => PJ!NothingLeaks
    /\ part = "cycles" => CC!CountsExact /\ CC!EndCollectsAll /\ CC!ResourceAtOnce

\* Control lands where it belongs.  A panic jumps along the running fiber's own frames,
\* and a worker on which no drain runs is out of the draining state (nurl__rctx_swap,
\* nurl__drain_unwind); an out-of-bounds access of a running instance ends in its own
\* function's stub, whatever the others take out of the tables (nurl__guard_handler); a
\* value crosses to another thread exactly when no block of it has an owner that stays
\* (nurl_sendck_end); a thread waits in the OS for no lock it holds itself, the table of
\* what it holds is exact and a writer is alone (nurl_rwlock_rdlock).
LandsRight ==
    /\ part = "journal" => PJ!FramesAreOwn /\ PJ!DrainStateEnds
    /\ part = "guard" => GM!TypeOK /\ GM!OutOfBoundsTraps /\ GM!TablesAreLive
    /\ part = "send" => SC!VerdictExact /\ SC!TableExact
    /\ part = "rwlock" => /\ RW!NeverWaitsForItself /\ RW!HeldExact
                          /\ RW!WithinRecord /\ RW!WriteExcludes

\* What the runtime keeps for later is what is asked for later.  Lines are whole and in
\* order on both streams and a capture is what was printed inside it, up to the first zero
\* byte if a raw print put one there (nurl_print, nurl_print_buf_stop); a recycled stack
\* has the limit its header says and gives its deep pages back (nurl__stack_recycle); the
\* timer heap has its earliest deadline first and every entry's index (nurl__np_heap_push,
\* nurl__np_heap_remove); a wait spins within the cap, and one stray stall is forgotten
\* (nurl__spin_observe).
KeptExact ==
    /\ part = "output" => OB!TypeOK /\ OB!LinesWhole /\ OB!OrderKept /\ OB!CaptureExact
    /\ part = "stacks" => ST!TypeOK /\ ST!CacheExact /\ ST!LimitIsTrue /\ ST!DeepPagesReturn
    /\ part = "timers" => TH!EarliestFirst /\ TH!IndexExact
    /\ part = "spin" => SP!TypeOK /\ SP!BurnBounded /\ SP!StallForgotten

\* With two workers of the netpoller build a fiber is in one place however it came back
\* from a wait: the poller's hand-out with its spill, the accept that displaces another
\* fiber, and steals move fibers and never copy or drop one (nurl__np_hand_out,
\* nurl__rq_steal).
HandedOutOnce == part = "queues" => RQ!OnePlace
=============================================================================
