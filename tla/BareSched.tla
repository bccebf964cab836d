----------------------------- MODULE BareSched -----------------------------
(***************************************************************************)
(* unikernel/runtime_bare.c: the cooperative runtime of the freestanding   *)
(* targets.  Threads and fibers are coroutines on one hardware context; a  *)
(* switch happens only where one yields, parks, sleeps or ends.  The main  *)
(* context is the scheduler: where it blocks, it runs coroutines until its *)
(* condition holds, and when nothing can ever run it reports a deadlock.   *)
(***************************************************************************)
EXTENDS Integers, Sequences, FiniteSets, SequencesExt

CONSTANTS
    Coros,       \* the coroutines the program may spawn
    Main,        \* the main context
    Programs,    \* the families of calls a program makes, one set for each;
                 \* "sim" is the simulation build, where any queued coroutine
                 \* may run next
    MaxClock,    \* bound: milliseconds
    ParkClock,   \* the same for the programs that park
    Waits        \* the sleeps and deadlines asked for

VARIABLES
    ops,         \* the families this program uses
    cur,         \* nb_current, Main when it is null
    co,          \* per coroutine: state, continuation, flags
    rq,          \* the run queue
    timers,      \* the timer list, earliest first
    at,          \* wake_at_ms
    mtx,         \* one mutex: who has it (a ghost of `locked`) and who waits
    cnd,         \* one condition variable: who waits, and main's watch
    rw,          \* one reader-writer lock
    rwHeld,      \* per holder, its read count; of a writer 0
    joiners,     \* per coroutine, the ones blocked in its join
    drain,       \* the ones in runtime_run
    reg,         \* the ones whose handle someone holds to unpark them
    mn,          \* main: where it blocks, on what, until when
    count,       \* nb_live, nb_fibers_live
    clock,
    dead         \* what main was in when it declared a deadlock

schedVars == <<cur, co, rq, timers, at, joiners, drain, reg, mn, count, clock, dead>>
syncVars == <<mtx, cnd, rw, rwHeld>>
vars == <<ops, schedVars, syncVars>>

NoOne == "none"
App == [pc |-> "app", on |-> Main, until |-> 0]

Init ==
    /\ ops \in Programs
    /\ cur = Main
    /\ co = [c \in Coros |-> [st |-> "unborn", pc |-> "app", joinable |-> FALSE,
                              fiber |-> FALSE, wake |-> FALSE,
                              target |-> Main, held |-> FALSE, old |-> FALSE]]
    /\ rq = <<>> /\ timers = <<>> /\ at = [c \in Coros |-> 0]
    /\ mtx = [holders |-> {}, wq |-> <<>>]
    /\ cnd = [wq |-> <<>>, fired |-> FALSE, main |-> FALSE]
    /\ rw = [readers |-> 0, writing |-> FALSE, writer |-> NoOne, wq |-> <<>>,
             want |-> [h \in Coros \cup {Main} |-> NoOne]]
    /\ rwHeld = [h \in Coros \cup {Main} |-> 0]
    /\ joiners = [c \in Coros |-> <<>>] /\ drain = <<>> /\ reg = {}
    /\ mn = App
    /\ count = [live |-> 0, fibers |-> 0]
    /\ clock = 0 /\ dead = NoOne

Born(c) == co[c].st \notin {"unborn", "freed"}
\* How long a program of these families is followed.
Horizon == IF "park" \in ops THEN ParkClock ELSE MaxClock
OnApp(h) == cur = h /\ dead = NoOne /\ IF h = Main THEN mn.pc = "app" ELSE co[h].pc = "app"

Awake(C, cs) == [c \in Coros |-> IF c \in Range(cs) THEN [C[c] EXCEPT !.st = "runnable"] ELSE C[c]]

-----------------------------------------------------------------------------
(* The mutex's release, shared by every path that gives it up.             *)

\* nurl__bare_mutex_release: free it and make its first waiter runnable.
\* The waiter re-tests; it does not own it yet.
Released(m) == [holders |-> {}, wq |-> IF m.wq = <<>> THEN <<>> ELSE Tail(m.wq)]
Wokenby(m) == IF m.wq = <<>> THEN <<>> ELSE <<Head(m.wq)>>

\* A coroutine parks: the loop takes over and, for a park with a mutex,
\* releases it on the far side of the switch.
ParkWith(c, rec, unlock) ==
    LET woken == IF unlock THEN Wokenby(mtx) ELSE <<>> IN
    /\ cur' = Main
    /\ co' = Awake([co EXCEPT ![c] = [rec EXCEPT !.st = "parked"]], woken)
    /\ rq' = rq \o woken
    /\ mtx' = IF unlock THEN Released(mtx) ELSE mtx
Park(c, rec) == ParkWith(c, rec, FALSE) /\ UNCHANGED mtx

-----------------------------------------------------------------------------
(* Timers.                                                                 *)

\* nb_timer_add: after the ones due no later.
Inserted(c, t) ==
    LET before == SelectSeq(timers, LAMBDA d : at[d] <= t)
        after == SelectSeq(timers, LAMBDA d : at[d] > t)
    IN  before \o <<c>> \o after
Due(t) == SelectSeq(timers, LAMBDA c : at[c] <= t)
NotDue(t) == SelectSeq(timers, LAMBDA c : at[c] > t)

\* nb_timers_expire: every due coroutine to the run queue.
Expire(t) ==
    /\ timers' = NotDue(t)
    /\ rq' = rq \o Due(t)
    /\ co' = [c \in Coros |-> IF c \in Range(Due(t))
                              THEN [co[c] EXCEPT !.st = "runnable"] ELSE co[c]]

-----------------------------------------------------------------------------
(* The scheduler step, taken by main alone.                                *)

Picks == IF "sim" \in ops THEN DOMAIN rq ELSE {1}
\* nb_rq_pop and the switch.
RunOne ==
    /\ rq # <<>>
    /\ \E k \in Picks :
         /\ cur' = rq[k]
         /\ co' = [co EXCEPT ![rq[k]].st = "running"]
         /\ rq' = RemoveAt(rq, k)
    /\ UNCHANGED <<timers, clock>>

\* A sleep to the first timer, whatever the caller's budget.
FullWait(wait, budget) == wait
Bounded(wait, budget) == IF budget >= 0 /\ budget < wait THEN budget ELSE wait
\* The idle branch: sleep to the first timer, no longer than the budget.
IdleSleep(budget) ==
    /\ rq = <<>> /\ timers # <<>>
    /\ LET wait == at[Head(timers)] - clock
           t == clock + Bounded(wait, budget)
       IN  /\ clock' = t
           /\ Expire(t)
    /\ UNCHANGED cur

\* nb_step_bounded with the due timers left to the idle branch.
LateStep(budget) ==
    \/ RunOne
    \/ rq = <<>> /\ timers # <<>> /\ at[Head(timers)] <= clock
         /\ Expire(clock) /\ UNCHANGED <<cur, clock>>
    \/ (timers # <<>> /\ at[Head(timers)] > clock) /\ IdleSleep(budget)
\* nb_step_bounded: a due timer is work even when something is runnable.
Step(budget) ==
    IF Due(clock) # <<>> THEN Expire(clock) /\ UNCHANGED <<cur, clock>>
                         ELSE RunOne \/ IdleSleep(budget)
\* Nothing can happen, were there no timers.
TimelessStuck == rq = <<>>
Stuck == rq = <<>> /\ timers = <<>>

\* runtime_run's condition, counting fibers only.
FibersEnded == count.fibers <= 0
AllEnded == count.live <= 0
\* nb_drive_until's conditions.
MainReady ==
    CASE mn.pc = "mutex" -> mtx.holders = {}
      [] mn.pc = "cond"  -> cnd.fired
      [] mn.pc = "rw"    -> rw.want[Main] = NoOne
      [] mn.pc = "join"  -> co[mn.on].st = "done"
      [] mn.pc = "run"   -> AllEnded
      [] OTHER -> FALSE
Driving == {"mutex", "cond", "rw", "join", "run"}

\* nb_drive_until, one round: a step, or the report that nothing can happen.
Drive ==
    /\ cur = Main /\ dead = NoOne /\ mn.pc \in Driving /\ ~MainReady
    /\ IF Stuck THEN dead' = mn.pc /\ UNCHANGED <<cur, co, rq, timers, clock>>
                ELSE Step(-1) /\ UNCHANGED dead
    /\ UNCHANGED <<at, joiners, drain, reg, mn, count, syncVars>>

\* The timed loops of main (nurl_fiber_sleep_ms, nurl_cond_wait_ms): a step
\* bounded by its own deadline, or a plain sleep when nothing is left.
DriveTimed ==
    /\ cur = Main /\ dead = NoOne /\ mn.pc \in {"sleep", "condms"} /\ clock < mn.until
    /\ ~(mn.pc = "condms" /\ cnd.fired)
    /\ IF Stuck THEN clock' = mn.until /\ UNCHANGED <<cur, co, rq, timers>>
                ELSE Step(mn.until - clock)
    /\ UNCHANGED <<at, joiners, drain, reg, mn, count, dead, syncVars>>
MainWakes ==
    /\ cur = Main /\ mn.pc = "sleep" /\ clock >= mn.until
    /\ mn' = App
    /\ UNCHANGED <<cur, co, rq, timers, at, joiners, drain, reg, count, clock, dead, syncVars>>

\* nurl_fiber_yield or nurl_bare_poll from main: one step.
MainYield ==
    /\ OnApp(Main)
    /\ Step(-1)
    /\ UNCHANGED <<at, joiners, drain, reg, mn, count, dead, syncVars>>

\* Time passes while code runs.
Tick ==
    /\ clock < Horizon /\ dead = NoOne
    /\ clock' = clock + 1
    /\ UNCHANGED <<cur, co, rq, timers, at, joiners, drain, reg, mn, count, dead, syncVars>>

-----------------------------------------------------------------------------
(* Lifecycle.                                                              *)

\* pthread_create, nurl_fiber_spawn and its joinable form.
Spawn(h, c, joinable, fiber) ==
    /\ OnApp(h) /\ co[c].st = "unborn" /\ (joinable \/ fiber)
    /\ co' = [co EXCEPT ![c].st = "runnable", ![c].joinable = joinable,
                        ![c].fiber = fiber, ![c].held = joinable]
    /\ rq' = Append(rq, c)
    /\ count' = [live |-> count.live + 1, fibers |-> count.fibers + (IF fiber THEN 1 ELSE 0)]
    /\ UNCHANGED <<cur, timers, at, joiners, drain, reg, mn, clock, dead, syncVars>>

\* nb_fiber_ended: all of them, once no fiber is left.
Drained(fibers) == IF fibers > 0 THEN <<>> ELSE drain

\* The body returns, or pthread_exit: joiners and drain waiters wake, and
\* what nobody will join is freed.
Finish(c) ==
    /\ OnApp(c) /\ mtx.holders # {c} /\ rwHeld[c] = 0 /\ rw.writer # c
    /\ LET fibers == count.fibers - (IF co[c].fiber THEN 1 ELSE 0)
           released == IF co[c].fiber THEN Drained(fibers) ELSE <<>>
           woken == joiners[c] \o released
       IN  /\ count' = [live |-> count.live - 1, fibers |-> fibers]
           /\ co' = Awake([co EXCEPT ![c].st = IF co[c].joinable THEN "done" ELSE "freed"], woken)
           /\ rq' = rq \o woken
           /\ joiners' = [joiners EXCEPT ![c] = <<>>]
           /\ drain' = IF released = <<>> THEN drain ELSE <<>>
    /\ cur' = Main
    /\ UNCHANGED <<timers, at, reg, mn, clock, dead, syncVars>>

\* nb_join from a coroutine: free it if it is done, else wait in its list.
Join(h, c) ==
    /\ OnApp(h) /\ h # Main /\ h # c /\ co[c].held
    /\ co[h].target = Main
    /\ IF co[c].st = "done"
       THEN co' = [co EXCEPT ![c].st = "freed", ![c].held = FALSE]
            /\ UNCHANGED <<cur, rq, joiners, mtx>>
       ELSE /\ Park(h, [co[h] EXCEPT !.pc = "joined", !.target = c])
            /\ joiners' = [joiners EXCEPT ![c] = <<h>> \o @]
    /\ UNCHANGED <<timers, at, drain, reg, mn, count, clock, dead, cnd, rw, rwHeld>>
\* Back from the park: nb_coro_free.
Joined(h) ==
    /\ cur = h /\ dead = NoOne /\ h # Main /\ co[h].pc = "joined"
    /\ co' = [co EXCEPT ![co[h].target].st = "freed", ![co[h].target].held = FALSE,
                        ![h].pc = "app", ![h].target = Main]
    /\ UNCHANGED <<cur, rq, timers, at, joiners, drain, reg, mn, count, clock, dead, syncVars>>
\* nb_join from main.
MainJoin(c) ==
    /\ OnApp(Main) /\ co[c].held
    /\ mn' = [App EXCEPT !.pc = "join", !.on = c]
    /\ UNCHANGED <<cur, co, rq, timers, at, joiners, drain, reg, count, clock, dead, syncVars>>

\* nb_detach of a coroutine that may be done already, forgetting that.
BlindDetach(h, c) ==
    /\ OnApp(h) /\ h # c /\ co[c].held /\ joiners[c] = <<>>
    /\ co' = [co EXCEPT ![c].joinable = FALSE, ![c].held = FALSE]
    /\ UNCHANGED <<cur, rq, timers, at, joiners, drain, reg, mn, count, clock, dead, syncVars>>
\* nb_detach: reap a finished one now, let the others reap themselves.
Detach(h, c) ==
    /\ OnApp(h) /\ h # c /\ co[c].held /\ joiners[c] = <<>>
    /\ co' = [co EXCEPT ![c].joinable = FALSE, ![c].held = FALSE,
                        ![c].st = IF @ = "done" THEN "freed" ELSE @]
    /\ UNCHANGED <<cur, rq, timers, at, joiners, drain, reg, mn, count, clock, dead, syncVars>>

\* nurl_runtime_run from a coroutine: park until no fiber is live.
RunFromCoro(c) ==
    /\ cur = c /\ c # Main /\ dead = NoOne /\ co[c].pc \in {"app", "drain"} /\ ~co[c].fiber
    /\ IF count.fibers > 0
       THEN Park(c, [co[c] EXCEPT !.pc = "drain"]) /\ drain' = <<c>> \o drain
       ELSE co' = [co EXCEPT ![c].pc = "app"] /\ UNCHANGED <<cur, rq, drain, mtx>>
    /\ UNCHANGED <<timers, at, joiners, reg, mn, count, clock, dead, cnd, rw, rwHeld>>
\* From main: until every coroutine has ended.
MainRun ==
    /\ OnApp(Main)
    /\ mn' = [App EXCEPT !.pc = "run"]
    /\ UNCHANGED <<cur, co, rq, timers, at, joiners, drain, reg, count, clock, dead, syncVars>>

\* nurl_runtime_shutdown: what never ran, or sleeps, and nobody can join is
\* freed; the joinable ones stay queued; the counters restart.
Shutdown ==
    /\ OnApp(Main)
    /\ LET joinable(c) == co[c].joinable
           kept == SelectSeq(rq, joinable) \o SelectSeq(timers, joinable)
       IN  /\ rq' = Reverse(SelectSeq(rq, joinable)) \o SelectSeq(timers, joinable)
           /\ co' = [c \in Coros |-> IF c \in Range(rq \o timers) \ Range(kept)
                                     THEN [co[c] EXCEPT !.st = "freed"]
                                     ELSE [co[c] EXCEPT !.old = Born(c)]]
           /\ reg' = reg \ (Range(timers) \ Range(kept))
    /\ timers' = <<>>
    /\ count' = [live |-> 0, fibers |-> 0]
    /\ UNCHANGED <<cur, at, joiners, drain, mn, clock, dead, syncVars>>

-----------------------------------------------------------------------------
(* Yield, sleep, park and unpark.                                          *)

Yield(c) ==
    /\ cur = c /\ dead = NoOne /\ c # Main /\ co[c].pc \in {"app", "armed"}
    /\ co' = [co EXCEPT ![c].st = "runnable"]
    /\ rq' = Append(rq, c) /\ cur' = Main
    /\ UNCHANGED <<timers, at, joiners, drain, reg, mn, count, clock, dead, syncVars>>

\* nurl_fiber_sleep_ms.
Sleep(h, ms) ==
    /\ OnApp(h) /\ ms > 0 /\ clock + ms <= Horizon
    /\ IF h = Main
       THEN mn' = [pc |-> "sleep", on |-> Main, until |-> clock + ms]
            /\ UNCHANGED <<cur, co, rq, timers, at, mtx>>
       ELSE /\ at' = [at EXCEPT ![h] = clock + ms]
            /\ timers' = Inserted(h, clock + ms)
            /\ Park(h, co[h])
            /\ UNCHANGED mn
    /\ UNCHANGED <<joiners, drain, reg, count, clock, dead, cnd, rw, rwHeld>>

\* A coroutine publishes its handle to whoever will wake it; until it parks
\* it may still be switched out.
Register(c) ==
    /\ OnApp(c) /\ c # Main
    /\ reg' = reg \cup {c}
    /\ co' = [co EXCEPT ![c].pc = "armed"]
    /\ UNCHANGED <<cur, rq, timers, at, joiners, drain, mn, count, clock, dead, syncVars>>

\* nurl_fiber_park_with_mutex_ms, and nurl_bare_park_ms without a mutex.  A
\* banked permit is taken instead of parking, the mutex released all the same.
ParkMs(c, ms, unlock) ==
    /\ cur = c /\ dead = NoOne /\ c # Main /\ co[c].pc = "armed" /\ clock + ms <= Horizon
    /\ unlock => mtx.holders = {c}
    /\ IF co[c].wake
       THEN LET woken == IF unlock THEN Wokenby(mtx) ELSE <<>> IN
            /\ co' = Awake([co EXCEPT ![c].wake = FALSE, ![c].pc = "app"], woken)
            /\ rq' = rq \o woken
            /\ mtx' = IF unlock THEN Released(mtx) ELSE mtx
            /\ reg' = reg \ {c}
            /\ UNCHANGED <<cur, timers, at>>
       ELSE /\ ParkWith(c, [co[c] EXCEPT !.pc = "park"], unlock)
            /\ IF ms >= 0 THEN at' = [at EXCEPT ![c] = clock + ms]
                               /\ timers' = Inserted(c, clock + ms)
                          ELSE UNCHANGED <<at, timers>>
            /\ UNCHANGED reg
    /\ UNCHANGED <<joiners, drain, mn, count, clock, dead, cnd, rw, rwHeld>>
\* Back from it, woken or timed out; the handle is withdrawn.
Parked(c) ==
    /\ cur = c /\ dead = NoOne /\ c # Main /\ co[c].pc = "park"
    /\ co' = [co EXCEPT ![c].pc = "app"]
    /\ timers' = SelectSeq(timers, LAMBDA d : d # c)
    /\ reg' = reg \ {c}
    /\ UNCHANGED <<cur, rq, at, joiners, drain, mn, count, clock, dead, syncVars>>

\* The permit of an unpark that comes before the park, dropped.
DroppedPermit(c, bank) == co[c].wake
Permit(c, bank) == co[c].wake \/ bank
\* nb_unpark that leaves the sleeper's timer armed.
TimedUnparked(c) == timers
Unparked(c) == SelectSeq(timers, LAMBDA d : d # c)
\* nb_unpark, at the tail or, for an admitted accept, at the head; the bank
\* for one that is not parked yet, unless it is a nurl_fiber_wake.
Unpark(h, c, front, bank) ==
    /\ OnApp(h) /\ h # c /\ c \in reg /\ Born(c)
    /\ bank \/ co[c].pc = "park"
    /\ reg' = reg \ {c}
    /\ IF co[c].st # "parked"
       THEN co' = [co EXCEPT ![c].wake = Permit(c, bank)] /\ UNCHANGED <<rq, timers>>
       ELSE /\ timers' = Unparked(c)
            /\ co' = [co EXCEPT ![c].st = "runnable"]
            /\ rq' = IF front THEN <<c>> \o rq ELSE Append(rq, c)
    /\ UNCHANGED <<cur, at, joiners, drain, mn, count, clock, dead, syncVars>>

-----------------------------------------------------------------------------
(* Mutex and condition variable.                                           *)

\* A woken waiter takes the mutex without the re-test.
MayTakeWoken(c) == mtx.holders = {} \/ co[c].pc = "lock"
MayTake(c) == mtx.holders = {}
\* pthread_mutex_lock from a coroutine, first try and every re-test.
Lock(c) ==
    /\ cur = c /\ c # Main /\ dead = NoOne /\ co[c].pc \in {"app", "lock"}
    /\ c \notin mtx.holders
    /\ IF MayTake(c)
       THEN /\ mtx' = [mtx EXCEPT !.holders = @ \cup {c}]
            /\ co' = [co EXCEPT ![c].pc = "app"]
            /\ UNCHANGED <<cur, rq>>
       ELSE /\ cur' = Main
            /\ co' = [co EXCEPT ![c].st = "parked", ![c].pc = "lock"]
            /\ mtx' = [mtx EXCEPT !.wq = Append(@, c)]
            /\ UNCHANGED rq
    /\ UNCHANGED <<timers, at, joiners, drain, reg, mn, count, clock, dead, cnd, rw, rwHeld>>

MainLock ==
    /\ OnApp(Main) /\ Main \notin mtx.holders
    /\ mn' = [App EXCEPT !.pc = "mutex"]
    /\ UNCHANGED <<cur, co, rq, timers, at, joiners, drain, reg, count, clock, dead, syncVars>>

\* pthread_mutex_trylock.
TryLock(h) ==
    /\ OnApp(h) /\ mtx.holders = {}
    /\ mtx' = [mtx EXCEPT !.holders = {h}]
    /\ UNCHANGED <<schedVars, cnd, rw, rwHeld>>

Unlock(h) ==
    /\ OnApp(h) /\ h \in mtx.holders
    /\ mtx' = Released(mtx)
    /\ rq' = rq \o Wokenby(mtx) /\ co' = Awake(co, Wokenby(mtx))
    /\ UNCHANGED <<cur, timers, at, joiners, drain, reg, mn, count, clock, dead, cnd, rw, rwHeld>>

\* pthread_cond_wait: a coroutine queues; main watches instead.
CondWait(c) ==
    /\ OnApp(c) /\ c # Main /\ c \in mtx.holders
    /\ ParkWith(c, [co[c] EXCEPT !.pc = "lock"], TRUE)
    /\ cnd' = [cnd EXCEPT !.wq = Append(@, c)]
    /\ UNCHANGED <<timers, at, joiners, drain, reg, mn, count, clock, dead, rw, rwHeld>>
\* pthread_cond_wait and nurl_cond_wait_ms from main.
MainCondWait(ms) ==
    /\ OnApp(Main) /\ Main \in mtx.holders /\ clock + ms <= Horizon
    /\ mn' = [pc |-> IF ms < 0 THEN "cond" ELSE "condms", on |-> Main, until |-> clock + ms]
    /\ cnd' = [cnd EXCEPT !.main = TRUE, !.fired = FALSE]
    /\ mtx' = Released(mtx)
    /\ rq' = rq \o Wokenby(mtx) /\ co' = Awake(co, Wokenby(mtx))
    /\ UNCHANGED <<cur, timers, at, joiners, drain, reg, count, clock, dead, rw, rwHeld>>
\* Its end, signalled or past the deadline: the watch is off, then the lock.
MainCondDone ==
    /\ cur = Main /\ dead = NoOne /\ mn.pc = "condms" /\ (cnd.fired \/ clock >= mn.until)
    /\ cnd' = [cnd EXCEPT !.main = FALSE]
    /\ mn' = [App EXCEPT !.pc = "mutex"]
    /\ UNCHANGED <<cur, co, rq, timers, at, joiners, drain, reg, count, clock, dead, mtx, rw, rwHeld>>

\* pthread_cond_signal: the first in the queue, else a waiting main.
Signal(h) ==
    /\ OnApp(h)
    /\ IF cnd.wq # <<>>
       THEN /\ cnd' = [cnd EXCEPT !.wq = Tail(@)]
            /\ rq' = Append(rq, Head(cnd.wq)) /\ co' = Awake(co, <<Head(cnd.wq)>>)
       ELSE cnd' = [cnd EXCEPT !.fired = cnd.main \/ @] /\ UNCHANGED <<rq, co>>
    /\ UNCHANGED <<cur, timers, at, joiners, drain, reg, mn, count, clock, dead, mtx, rw, rwHeld>>
Broadcast(h) ==
    /\ OnApp(h)
    /\ cnd' = [cnd EXCEPT !.wq = <<>>, !.fired = cnd.main \/ @]
    /\ rq' = rq \o cnd.wq /\ co' = Awake(co, cnd.wq)
    /\ UNCHANGED <<cur, timers, at, joiners, drain, reg, mn, count, clock, dead, mtx, rw, rwHeld>>

-----------------------------------------------------------------------------
(* The reader-writer lock.                                                 *)

\* nb_rw_grant: how many of the queue's head get in: one writer, or the
\* readers up to the next writer.
Granted(r) ==
    LET isWriter(h) == r.want[h] = "write"
        ahead(n) == \A i \in 1 .. n : ~isWriter(r.wq[i])
    IN  IF r.wq = <<>> \/ r.writing THEN 0
        ELSE IF isWriter(r.wq[1]) THEN (IF r.readers = 0 THEN 1 ELSE 0)
        ELSE CHOOSE n \in 1 .. Len(r.wq) :
                ahead(n) /\ (n = Len(r.wq) \/ ~ahead(n + 1))
\* A grant that also lets in the readers behind the writer.
GreedyGranted(r) == IF r.wq = <<>> \/ r.writing \/ r.readers > 0 THEN Granted(r) ELSE Len(r.wq)
GrantCount(r) == Granted(r)
GrantStep(r) ==
    LET n == GrantCount(r)
        in == SubSeq(r.wq, 1, n)
        readers == SelectSeq(in, LAMBDA h : r.want[h] = "read")
        woken == SelectSeq(in, LAMBDA h : h # Main)
    IN  /\ rw' = [r EXCEPT !.wq = SubSeq(@, n + 1, Len(@)),
                           !.readers = @ + Len(readers),
                           !.writing = @ \/ Len(readers) < n,
                           !.want = [h \in DOMAIN @ |-> IF h \in Range(in) THEN NoOne ELSE @[h]]]
        /\ co' = Awake(co, woken)
        /\ rq' = rq \o woken

\* nb_rw_wait: in the queue until an unlock grants it.
RwWait(h, want) ==
    /\ rw' = [rw EXCEPT !.wq = Append(@, h), !.want[h] = want]
    /\ IF h = Main THEN /\ mn' = [App EXCEPT !.pc = "rw", !.until = IF want = "read" THEN 0 ELSE 1]
                        /\ UNCHANGED <<cur, co>>
       ELSE /\ cur' = Main
            /\ co' = [co EXCEPT ![h].st = "parked",
                                ![h].pc = IF want = "read" THEN "rdlock" ELSE "wrlock"]
            /\ UNCHANGED mn
    /\ UNCHANGED <<rq, rwHeld>>

\* A reader gets in while nobody writes, whoever waits.
BargingMayRead == ~rw.writing
MayRead == ~rw.writing /\ rw.wq = <<>>
\* nurl_rwlock_rdlock and its try form: a re-read is counted; a writer's own
\* request panics, so it is not a step.
RdLock(h, try) ==
    /\ OnApp(h) /\ rw.writer # h /\ rwHeld[h] < 2
    /\ IF rwHeld[h] > 0
       THEN rwHeld' = [rwHeld EXCEPT ![h] = @ + 1] /\ UNCHANGED <<cur, co, rq, mn, rw>>
       ELSE IF MayRead
       THEN /\ rw' = [rw EXCEPT !.readers = @ + 1]
            /\ rwHeld' = [rwHeld EXCEPT ![h] = 1]
            /\ UNCHANGED <<cur, co, rq, mn>>
       ELSE ~try /\ RwWait(h, "read")
    /\ UNCHANGED <<timers, at, joiners, drain, reg, count, clock, dead, mtx, cnd>>
WrLock(h, try) ==
    /\ OnApp(h) /\ rw.writer # h /\ rwHeld[h] = 0
    /\ IF ~rw.writing /\ rw.readers = 0 /\ rw.wq = <<>>
       THEN /\ rw' = [rw EXCEPT !.writing = TRUE, !.writer = h]
            /\ UNCHANGED <<cur, co, rq, mn, rwHeld>>
       ELSE ~try /\ RwWait(h, "write")
    /\ UNCHANGED <<timers, at, joiners, drain, reg, count, clock, dead, mtx, cnd>>
\* A waiter resumes: with the grant it holds the lock, else it parks again.
RwResumed(c) ==
    /\ cur = c /\ c # Main /\ dead = NoOne /\ co[c].pc \in {"rdlock", "wrlock"}
    /\ IF rw.want[c] # NoOne
       THEN co' = [co EXCEPT ![c].st = "parked"] /\ cur' = Main /\ UNCHANGED <<rw, rwHeld>>
       ELSE /\ co' = [co EXCEPT ![c].pc = "app"]
            /\ IF co[c].pc = "rdlock" THEN rwHeld' = [rwHeld EXCEPT ![c] = 1] /\ UNCHANGED rw
                                      ELSE rw' = [rw EXCEPT !.writer = c] /\ UNCHANGED rwHeld
            /\ UNCHANGED cur
    /\ UNCHANGED <<rq, timers, at, joiners, drain, reg, mn, count, clock, dead, mtx, cnd>>
RdUnlock(h) ==
    /\ OnApp(h) /\ rwHeld[h] > 0
    /\ rwHeld' = [rwHeld EXCEPT ![h] = @ - 1]
    /\ IF rwHeld[h] > 1 THEN UNCHANGED <<co, rq, rw>>
       ELSE IF rw.readers = 1 THEN GrantStep([rw EXCEPT !.readers = 0])
       ELSE rw' = [rw EXCEPT !.readers = @ - 1] /\ UNCHANGED <<co, rq>>
    /\ UNCHANGED <<cur, timers, at, joiners, drain, reg, mn, count, clock, dead, mtx, cnd>>
WrUnlock(h) ==
    /\ OnApp(h) /\ rw.writer = h
    /\ GrantStep([rw EXCEPT !.writer = NoOne, !.writing = FALSE])
    /\ UNCHANGED <<cur, timers, at, joiners, drain, reg, mn, count, clock, dead, mtx, cnd, rwHeld>>

\* Main's condition holds: it goes on with what it waited for.
MainGoesOn ==
    /\ cur = Main /\ dead = NoOne /\ mn.pc \in Driving /\ MainReady
    /\ mn' = IF mn.pc = "cond" THEN [App EXCEPT !.pc = "mutex"] ELSE App
    /\ mtx' = IF mn.pc = "mutex" THEN [mtx EXCEPT !.holders = {Main}] ELSE mtx
    /\ cnd' = IF mn.pc = "cond" THEN [cnd EXCEPT !.main = FALSE] ELSE cnd
    /\ rw' = IF mn.pc = "rw" /\ mn.until = 1 THEN [rw EXCEPT !.writer = Main] ELSE rw
    /\ rwHeld' = IF mn.pc = "rw" /\ mn.until = 0 THEN [rwHeld EXCEPT ![Main] = 1] ELSE rwHeld
    /\ co' = IF mn.pc = "join" THEN [co EXCEPT ![mn.on].st = "freed", ![mn.on].held = FALSE] ELSE co
    /\ UNCHANGED <<cur, rq, timers, at, joiners, drain, reg, count, clock, dead>>

-----------------------------------------------------------------------------
Holders == Coros \cup {Main}
Deadlines == Waits \cup {-1}   \* -1: no deadline
Lifecycle(h) ==
    \/ \E c \in Coros, j, f \in BOOLEAN : Spawn(h, c, j, f)
    \/ h # Main /\ (Finish(h) \/ Joined(h) \/ Yield(h))
Joining(h) ==
    \/ \E c \in Coros : Join(h, c) \/ Detach(h, c)
    \/ h # Main /\ RunFromCoro(h)
    \/ h = Main /\ (MainRun \/ \E c \in Coros : MainJoin(c))
Parking(h) ==
    \/ h # Main /\ \E ms \in Deadlines, u \in BOOLEAN : ParkMs(h, ms, u)
    \/ h # Main /\ (Parked(h) \/ Register(h))
    \/ \E c \in Coros, f, b \in BOOLEAN : Unpark(h, c, f, b)
Mutexes(h) ==
    \/ h # Main /\ Lock(h)
    \/ h = Main /\ MainLock
    \/ TryLock(h) \/ Unlock(h)
Conds(h) ==
    \/ h # Main /\ CondWait(h)
    \/ h = Main /\ \E ms \in Deadlines : MainCondWait(ms)
    \/ Signal(h) \/ Broadcast(h)
RwLocks(h) ==
    \/ \E t \in BOOLEAN : RdLock(h, t) \/ WrLock(h, t)
    \/ RdUnlock(h) \/ WrUnlock(h) \/ RwResumed(h)
Scheduler == Drive \/ DriveTimed \/ MainWakes \/ MainGoesOn \/ MainCondDone

Next ==
    /\ \/ Scheduler \/ MainYield \/ Tick
       \/ \E h \in Holders :
            \/ Lifecycle(h)
            \/ "join" \in ops /\ Joining(h)
            \/ "sleep" \in ops /\ \E ms \in Waits : Sleep(h, ms)
            \/ "park" \in ops /\ Parking(h)
            \/ "mutex" \in ops /\ Mutexes(h)
            \/ "cond" \in ops /\ Conds(h)
            \/ "rw" \in ops /\ RwLocks(h)
       \/ "shutdown" \in ops /\ Shutdown
    /\ UNCHANGED ops

\* Coroutines switch in the end, main's scheduler runs, time passes.
Resumes(c) == \/ Parked(c) \/ Joined(c) \/ RwResumed(c)
              \/ co[c].pc = "lock" /\ Lock(c)
              \/ co[c].pc = "drain" /\ RunFromCoro(c)
Fairness ==
    /\ WF_vars(Scheduler /\ UNCHANGED ops) /\ WF_vars(Tick /\ UNCHANGED ops)
    /\ \A c \in Coros : /\ WF_vars(Yield(c) /\ UNCHANGED ops)
                        /\ WF_vars(Resumes(c) /\ UNCHANGED ops)
Spec == Init /\ [][Next]_vars /\ Fairness

-----------------------------------------------------------------------------
Queued == rq \o mtx.wq \o cnd.wq \o rw.wq \o drain
Places(c) == Cardinality({i \in DOMAIN Queued : Queued[i] = c})
             + Cardinality({d \in Coros : c \in Range(joiners[d])})

\* A coroutine is one place: running, or on one queue once; a parked one may
\* be on the timer list too, but never a runnable one; a freed one nowhere.
\* A wake and a deadline that both queue it would run it twice.
OneQueue ==
    \A c \in Coros :
        /\ Places(c) <= 1
        /\ co[c].st \in {"unborn", "running", "done", "freed"} => Places(c) = 0
        /\ co[c].st = "runnable" => Places(c) = 1
        /\ c \in Range(timers) => co[c].st = "parked" /\ Places(c) = 0

\* A parked coroutine can be woken: it is in a queue, has a timer, or someone
\* holds its handle.  A banked or taken wake leaves none behind.
ParkedReachable ==
    \A c \in Coros : co[c].st = "parked" => Places(c) = 1 \/ c \in Range(timers) \/ c \in reg

\* The mutex has one holder, and while it is free with waiters queued one of
\* them is on its way: no release is lost to a barging main.
MutexHandedOn ==
    /\ Cardinality(mtx.holders) <= 1
    /\ mtx.holders = {} /\ mtx.wq # <<>> =>
         \E c \in Coros : co[c].pc = "lock" /\ co[c].st \in {"runnable", "running"}

Reading == {h \in Holders : rwHeld[h] > 0}
\* Readers and a writer exclude each other, counting those an unlock has
\* granted the lock and that have not run yet; a queue is never left behind
\* a free lock.
RwExclusive ==
    /\ rw.writing => rw.readers = 0 /\ Reading = {}
    /\ Cardinality(Reading) <= rw.readers
    /\ rw.writer # NoOne => rw.writing
    /\ ~rw.writing /\ rw.readers = 0 => rw.wq = <<>>

\* Nobody begins to read while a writer that came before it still waits.
WriterNotOvertaken ==
    \A w \in Range(rw.wq) :
        w \in Range(rw'.wq) /\ rw.want[w] = "write"
          => rw'.readers <= rw.readers \/ rw'.readers - rw.readers = Len(rw.wq) - Len(rw'.wq)

\* A finished coroutine is kept only for a handle someone still has: no
\* stack is stranded.
DoneIsHeld == \A c \in Coros : co[c].st = "done" => co[c].held

\* Main never sleeps past its own deadline because a coroutine's is later.
NoOversleep == mn.pc \in {"sleep", "condms"} /\ clock' > clock + 1 => clock' <= mn.until

\* A reported deadlock is one: what main waits for is false and no coroutine
\* is runnable, sleeping, or left to be woken by any that is.
DeadlockReal == dead # NoOne => \A c \in Coros : co[c].st \notin {"runnable", "running"}
                                                /\ c \notin Range(timers)

RunEnds == mn.pc = "run" /\ mn'.pc = "app"
Ended(c) == ~Born(c) \/ co[c].st = "done"
\* runtime_run returns to main when every coroutine has ended; no shutdown
\* has left one behind.
RunWaitsForAll == RunEnds /\ (\A c \in Coros : ~co[c].old) => \A c \in Coros : Ended(c)
\* The same of the coroutines spawned since the last shutdown, whatever it
\* left: "until every coroutine has ended, detached threads included".
RunWaitsAfterShutdown == [][RunEnds => \A c \in Coros : co[c].old \/ Ended(c)]_vars

\* A sleeper while main is in runtime_run: it wakes, however often another
\* coroutine yields.
Sleeping(c) == mn.pc = "run" /\ c \in Range(timers)
=============================================================================
