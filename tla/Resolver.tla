------------------------------ MODULE Resolver ------------------------------
(***************************************************************************)
(* stdlib/runtime_ffi.c section 18-r: outbound connects and the resolver   *)
(* pool they wait on.  A caller with a deadline (or a fiber) hands its     *)
(* lookup to a pool thread and waits on the job's completion signal; a     *)
(* caller whose deadline passes abandons the job to the thread.  Then the  *)
(* addresses are tried in order, one deadline over the whole call.         *)
(*                                                                         *)
(* The lock nurl__dns.lock makes each of its critical sections one step.   *)
(***************************************************************************)
EXTENDS Integers, Sequences, FiniteSets, SequencesExt

CONSTANTS
    Callers,       \* the threads and fibers that connect; one job each
    Pool,          \* the pool threads there may be (NURL_DNS_MAX_THREADS)
    MaxClock,      \* bound: the clock's last tick
    Timeouts,      \* the timeouts callers pass; 0 is no deadline
    MaxAddrs,      \* bound: addresses a lookup returns
    MaxCalls       \* bound: connects in a run

VARIABLES
    rnow,      \* the monotonic clock
    rq,        \* nurl__dns.head .. tail: the queued jobs (by caller)
    idle,      \* nurl__dns.idle
    threads,   \* nurl__dns.threads
    worker,    \* worker[w]: what a pool thread does, and on which job
    job,       \* job[c]: the job of c's lookup, as a record
    caller,    \* caller[c]: where c is in nurl_tcp_connect_ms
    bad,       \* uses of a job after it was freed
    calls,     \* connects begun
    forked     \* whether the process is a forked child

vars == <<rnow, rq, idle, threads, worker, job, caller, bad, calls, forked>>

NoJob == [live |-> FALSE, done |-> FALSE, abandoned |-> FALSE, signal |-> FALSE]
AtRest == [at |-> "rest", fiber |-> FALSE, deadline |-> -1, addrs |-> 0, fd |-> "none",
           err |-> "none"]

Init ==
    /\ rnow = 0 /\ rq = <<>> /\ idle = 0 /\ threads = 0 /\ bad = {} /\ calls = 0 /\ forked = FALSE
    /\ worker = [w \in Pool |-> [at |-> "none", job |-> "none"]]
    /\ job = [c \in Callers |-> NoJob]
    /\ caller = [c \in Callers |-> AtRest]

Tick == rnow < MaxClock /\ rnow' = rnow + 1
        /\ UNCHANGED <<rq, idle, threads, worker, job, caller, bad, calls, forked>>

\* nurl__conn_left_ms: -1 without a deadline, never below 0.
LeftMs(c) == IF caller[c].deadline < 0 THEN -1
             ELSE IF caller[c].deadline > rnow THEN caller[c].deadline - rnow ELSE 0

\* Nobody but its holder may name a job once it is freed.
Use(c) == IF job[c].live THEN {} ELSE {c}
\* nurl__dns_job_free, by whoever holds the job.
FreeJob(c) == [job EXCEPT ![c] = NoJob]

-----------------------------------------------------------------------------
(* The caller: nurl_tcp_connect_ms.                                        *)

\* The call returns its handle, with a socket or an error.
Failed(why) == [AtRest EXCEPT !.at = "failed", !.err = why]
Connected == [AtRest EXCEPT !.at = "connected", !.fd = "open"]

\* The lookup: inline on a thread without a deadline or for a literal,
\* else a job of its own.
Begin(c) ==
    /\ caller[c].at = "rest" /\ calls < MaxCalls /\ calls' = calls + 1
    /\ \E fiber \in BOOLEAN, t \in Timeouts, numeric \in BOOLEAN :
         /\ t = 0 \/ rnow + t <= MaxClock
         /\ LET d == IF t > 0 THEN rnow + t ELSE -1
                start == [AtRest EXCEPT !.fiber = fiber, !.deadline = d]
            IN  IF (~fiber /\ d < 0) \/ numeric
             THEN /\ \E n \in 0 .. MaxAddrs :
                       caller' = [caller EXCEPT ![c] =
                         IF n = 0 THEN Failed("other")
                         ELSE [start EXCEPT !.at = "try", !.addrs = n]]
                  /\ UNCHANGED job
             ELSE /\ caller' = [caller EXCEPT ![c] = [start EXCEPT !.at = "submit"]]
                  /\ job' = [job EXCEPT ![c] = [NoJob EXCEPT !.live = TRUE]]
    /\ UNCHANGED <<rnow, rq, idle, threads, worker, bad, forked>>

\* A job that no idle thread is left for asks for a thread; creating it may fail.
Grow(created) ==
    /\ created => /\ Len(rq) + 1 > idle /\ threads < Cardinality(Pool)
                  /\ \E w \in Pool : worker[w].at = "none"

\* nurl__dns_submit (nurl__signal_open before it): with no thread at all the
\* caller looks the name up itself.
Submit(c) ==
    /\ caller[c].at = "submit"
    /\ \E created \in BOOLEAN :
         /\ Grow(created)
         /\ threads' = IF created THEN threads + 1 ELSE threads
         /\ IF threads' = 0
            THEN /\ caller' = [caller EXCEPT ![c].at = "inline"]
                 /\ UNCHANGED <<rq, worker>>
            ELSE /\ rq' = Append(rq, c)
                 /\ caller' = [caller EXCEPT ![c].at = "check"]
                 /\ LET w == CHOOSE w \in Pool : worker[w].at = "none"
                        woken == {v \in Pool : worker[v].at = "idle"}
                        grown == IF created THEN [worker EXCEPT ![w].at = "loop"] ELSE worker
                    IN  IF woken = {} THEN worker' = grown
                        ELSE \E v \in woken : worker' = [grown EXCEPT ![v].at = "woken"]
    /\ UNCHANGED <<rnow, idle, job, bad, calls, forked>>

\* nurl__resolve when it could not offload: the job goes, getaddrinfo runs here.
Inline(c) ==
    /\ caller[c].at = "inline" /\ job' = FreeJob(c)
    /\ \E n \in 0 .. MaxAddrs :
         caller' = [caller EXCEPT ![c] =
             IF n = 0 THEN Failed("other")
             ELSE [@ EXCEPT !.at = "try", !.addrs = n]]
    /\ UNCHANGED <<rnow, rq, idle, threads, worker, bad, calls, forked>>

\* nurl__dns_offload's loop under the lock: done, out of time, or wait.
Check(c) ==
    /\ caller[c].at = "check"
    /\ bad' = bad \cup Use(c)
    /\ IF job[c].done THEN caller' = [caller EXCEPT ![c].at = "take"] /\ UNCHANGED job
       ELSE IF LeftMs(c) = 0
       THEN /\ job' = [job EXCEPT ![c].abandoned = TRUE]
            /\ caller' = [caller EXCEPT ![c] = Failed("timeout")]
       ELSE caller' = [caller EXCEPT ![c].at = "wait"] /\ UNCHANGED job
    /\ UNCHANGED <<rnow, rq, idle, threads, worker, calls, forked>>

\* A wait that only the signal ends.
DeafWoken(c) ==
    /\ caller[c].at = "wait" /\ job[c].signal
    /\ bad' = bad \cup Use(c)
    /\ caller' = [caller EXCEPT ![c].at = "check"]
    /\ UNCHANGED <<rnow, rq, idle, threads, worker, job, calls, forked>>
\* The park or poll(2) on the job's signal ends: raised, or the deadline.
Woken(c) ==
    /\ caller[c].at = "wait" /\ (job[c].signal \/ LeftMs(c) = 0)
    /\ bad' = bad \cup Use(c)
    /\ caller' = [caller EXCEPT ![c].at = "check"]
    /\ UNCHANGED <<rnow, rq, idle, threads, worker, job, calls, forked>>

\* nurl__resolve takes the result and frees the job.
Take(c) ==
    /\ caller[c].at = "take"
    /\ bad' = bad \cup Use(c) /\ job' = FreeJob(c)
    /\ \E n \in 0 .. MaxAddrs :
         caller' = [caller EXCEPT ![c] =
             IF n = 0 THEN Failed("other")
             ELSE [@ EXCEPT !.at = "try", !.addrs = n]]
    /\ UNCHANGED <<rnow, rq, idle, threads, worker, calls, forked>>

Nonblocking(c) == caller[c].fiber \/ caller[c].deadline >= 0

\* An address failed: its socket is closed, the next one is tried.
NextAddr(c, why) ==
    IF caller[c].addrs > 1
    THEN [caller[c] EXCEPT !.at = "try", !.addrs = @ - 1, !.fd = "none", !.err = why]
    ELSE Failed(why)

\* nurl__connect_start: no descriptor, refused, connected, or in progress.
Start(c) ==
    /\ caller[c].at = "try"
    /\ \E out \in {"nofd", "refused", "ok", "progress"} :
         /\ out = "progress" => Nonblocking(c)
         /\ caller' = [caller EXCEPT ![c] =
              CASE out = "ok" -> Connected
                [] out = "progress" -> [@ EXCEPT !.at = "pending", !.fd = "open"]
                [] OTHER -> NextAddr(c, "other")]
    /\ UNCHANGED <<rnow, rq, idle, threads, worker, job, bad, calls, forked>>

\* The wait for writability and nurl__connect_finish: out of time, settled
\* either way, or (a spurious wake) not settled, which changes nothing.
Pending(c) ==
    /\ caller[c].at = "pending"
    /\ \/ LeftMs(c) = 0 /\ caller' = [caller EXCEPT ![c] = Failed("timeout")]
       \/ LeftMs(c) # 0 /\ caller' = [caller EXCEPT ![c] = Connected]
       \/ LeftMs(c) # 0 /\ caller' = [caller EXCEPT ![c] = NextAddr(c, "other")]
    /\ UNCHANGED <<rnow, rq, idle, threads, worker, job, bad, calls, forked>>

\* The caller has read its handle's err_kind; its next connect is another
\* job, once the pool has let go of the abandoned one.
Return(c) ==
    /\ caller[c].at \in {"connected", "failed"} /\ ~job[c].live
    /\ caller' = [caller EXCEPT ![c] = AtRest]
    /\ UNCHANGED <<rnow, rq, idle, threads, worker, job, bad, calls, forked>>

-----------------------------------------------------------------------------
(* A pool thread: nurl__dns_thread.                                        *)

\* The top of the loop, under the lock: the oldest job, or an idle wait.
Loop(w) ==
    /\ worker[w].at = "loop"
    /\ IF rq = <<>>
       THEN /\ worker' = [worker EXCEPT ![w].at = "idle"] /\ idle' = idle + 1 /\ UNCHANGED <<rq, bad>>
       ELSE /\ worker' = [worker EXCEPT ![w] = [at |-> "look", job |-> Head(rq)]]
            /\ rq' = Tail(rq) /\ bad' = bad \cup Use(Head(rq)) /\ UNCHANGED idle
    /\ UNCHANGED <<rnow, threads, job, caller, calls, forked>>

\* Signalled: back to the head of the loop with the lock held.
Resume(w) ==
    /\ worker[w].at = "woken" /\ idle' = idle - 1
    /\ worker' = [worker EXCEPT ![w].at = "loop"]
    /\ UNCHANGED <<rnow, rq, threads, job, caller, bad, calls, forked>>

\* The idle spell runs out: the thread waits for the lock, past the reach of
\* a signal and still counted idle.
IdleOver(w) ==
    /\ worker[w].at = "idle"
    /\ worker' = [worker EXCEPT ![w].at = "over"]
    /\ UNCHANGED <<rnow, rq, idle, threads, job, caller, bad, calls, forked>>

\* An idle thread that exits whatever is queued.
HastyIdleTimeout(w) ==
    /\ worker[w].at = "over" /\ idle' = idle - 1
    /\ worker' = [worker EXCEPT ![w].at = "none"] /\ threads' = threads - 1
    /\ UNCHANGED <<rnow, rq, job, caller, bad, calls, forked>>
\* With the lock: exit, unless a job came in meanwhile.
IdleTimeout(w) ==
    /\ worker[w].at = "over" /\ idle' = idle - 1
    /\ IF rq = <<>>
       THEN worker' = [worker EXCEPT ![w].at = "none"] /\ threads' = threads - 1
       ELSE worker' = [worker EXCEPT ![w].at = "loop"] /\ UNCHANGED threads
    /\ UNCHANGED <<rnow, rq, job, caller, bad, calls, forked>>

\* The lock taken twice: `done` seen before the signal is raised.
TornAnswer(w) ==
    /\ worker[w].at \in {"look", "raise"}
    /\ LET c == worker[w].job IN
         /\ bad' = bad \cup Use(c)
         /\ IF worker[w].at = "raise"
            THEN /\ job' = [job EXCEPT ![c].signal = TRUE]
                 /\ worker' = [worker EXCEPT ![w] = [at |-> "loop", job |-> "none"]]
            ELSE IF job[c].abandoned
            THEN /\ job' = FreeJob(c)
                 /\ worker' = [worker EXCEPT ![w] = [at |-> "loop", job |-> "none"]]
            ELSE /\ job' = [job EXCEPT ![c].done = TRUE]
                 /\ worker' = [worker EXCEPT ![w].at = "raise"]
    /\ UNCHANGED <<rnow, rq, idle, threads, caller, calls, forked>>
\* A thread that leaves an abandoned job to the caller that is gone.
LeakyAnswer(w) ==
    /\ worker[w].at = "look"
    /\ job' = [job EXCEPT ![worker[w].job].done = TRUE, ![worker[w].job].signal = TRUE]
    /\ worker' = [worker EXCEPT ![w] = [at |-> "loop", job |-> "none"]]
    /\ UNCHANGED <<rnow, rq, idle, threads, caller, bad, calls, forked>>
\* getaddrinfo returned; under the lock the result is set and the waiter
\* signalled, or the abandoned job is the thread's to free.
Answer(w) ==
    /\ worker[w].at = "look"
    /\ LET c == worker[w].job IN
         /\ bad' = bad \cup Use(c)
         /\ IF job[c].abandoned
            THEN job' = FreeJob(c)
            ELSE job' = [job EXCEPT ![c].done = TRUE, ![c].signal = TRUE]
    /\ worker' = [worker EXCEPT ![w] = [at |-> "loop", job |-> "none"]]
    /\ UNCHANGED <<rnow, rq, idle, threads, caller, calls, forked>>

\* nurl__dns_atfork_child: the child inherits the queue but no thread but
\* the one that forked, and starts the pool from empty.
Fork(c) ==
    /\ ~forked /\ caller[c].at = "rest" /\ forked' = TRUE
    /\ rq' = <<>> /\ idle' = 0 /\ threads' = 0
    /\ worker' = [w \in Pool |-> [at |-> "none", job |-> "none"]]
    /\ job' = [d \in Callers |-> NoJob]
    /\ caller' = [d \in Callers |-> AtRest]
    /\ UNCHANGED <<rnow, bad, calls>>

\* The steps a caller takes by itself; the network settles a Pending.
Proceeds(c) == Submit(c) \/ Inline(c) \/ Check(c) \/ Woken(c) \/ Take(c) \/ Start(c)
Expires(c) == LeftMs(c) = 0 /\ Pending(c)

Next ==
    \/ Tick
    \/ \E c \in Callers : Begin(c) \/ Proceeds(c) \/ Pending(c) \/ Return(c) \/ Fork(c)
    \/ \E w \in Pool : Loop(w) \/ Resume(w) \/ IdleOver(w) \/ IdleTimeout(w) \/ Answer(w)

\* The clock runs, callers and pool threads are scheduled; a lookup in
\* getaddrinfo, and the peer's answer, may take for ever.
Fairness ==
    /\ WF_vars(Tick)
    /\ \A c \in Callers : WF_vars(Proceeds(c)) /\ WF_vars(Expires(c))
    /\ \A w \in Pool : WF_vars(Loop(w)) /\ WF_vars(Resume(w)) /\ WF_vars(IdleTimeout(w))

Spec == Init /\ [][Next]_vars /\ Fairness

-----------------------------------------------------------------------------
\* No job is read, signalled or freed after it was freed: neither by a pool
\* thread whose waiter gave up, nor by a waiter that saw `done` early.
NoStaleJob == bad = {}

\* A job that is allocated has somebody who will free it.
NoJobLeaked ==
    \A c \in Callers : job[c].live =>
        \/ c \in ToSet(rq)
        \/ \E w \in Pool : worker[w].job = c
        \/ caller[c].at \in {"submit", "inline", "check", "wait", "take"}

Ended(c) == caller[c].at \in {"rest", "connected", "failed"}

\* A connect with a deadline: it ends, though the resolver and the peer may
\* never answer.
Timed(c) == ~Ended(c) /\ caller[c].deadline >= 0
\* A lookup handed to the pool: where getaddrinfo returns it ends, in a
\* forked child too.
Looking(c) == caller[c].at \in {"check", "wait", "take"}
=============================================================================
