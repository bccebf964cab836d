------------------------------ MODULE RunQueues ------------------------------
(***************************************************************************)
(* How the M:N runtime's workers choose, share and wait for runnable       *)
(* fibers (stdlib/runtime_ffi.c, sections 24 and 25): a FIFO per worker, a *)
(* global FIFO, service stamps, half-steals, the idle condition variable   *)
(* and, with NURL_NETPOLLER, the poll lease an idle worker takes.          *)
(*                                                                         *)
(* One action is one critical section or one atomic access, so the         *)
(* interleavings between a push and its wake, and between a worker's last  *)
(* look at the queues and its sleep, are all there.  Moving a batch that   *)
(* only one worker holds onto that worker's own empty queue is part of the *)
(* action that took the batch: until then no other thread can tell.        *)
(*                                                                         *)
(* A fiber that is not queued, running or waiting for I/O is `out`: not    *)
(* spawned yet, or parked on some wait list.  Fiber ownership is module    *)
(* FiberLife's subject.                                                    *)
(***************************************************************************)
EXTENDS Integers, Sequences, FiniteSets, SequencesExt, Functions

CONSTANTS
    Fibers,
    Workers,
    Threads,      \* OS threads that spawn, unpark and shut down
    NoFiber,
    NoWorker,
    Netpoller,    \* TRUE: the NURL_NETPOLLER build; FALSE: the poll(2) reactor thread
    LatePush,     \* do OS threads still push once the netpoller has started?
    LocalShare,   \* NURL_NP_LOCAL_SHARE (8)
    BatchCap,     \* the cap of nurl__rq_take_global_batch (16)
    MaxStamp      \* bound: pushes a run may make

ASSUME BoundsAssumption ==
    /\ LocalShare \in Nat \ {0} /\ BatchCap \in Nat \ {0} /\ MaxStamp \in Nat
    /\ Netpoller \in BOOLEAN /\ LatePush \in BOOLEAN
    /\ IsFiniteSet(Fibers) /\ IsFiniteSet(Workers) /\ Workers # {} /\ Workers \cap Threads = {}
    /\ NoFiber \notin Fibers /\ NoWorker \notin Workers

Actors == Workers \cup Threads

VARIABLES
    rq,            \* each worker's run queue, oldest first
    gq,            \* the global run queue
    rseq,          \* f->rseq: the stamp of its last push
    rseq_clock,    \* the last stamp handed out
    admits,        \* admissions made (counted for MaxStamp only)
    io,            \* "no", "io" or "accept": the reactor wait a fiber is parked in
    ready,         \* waiting fibers whose fd the kernel reports ready
    pc,
    cur,           \* the fiber a worker was handed
    direct,        \* nurl__np_hand_out's local, to run after the accept in cur
    g,             \* nurl__rq_pop_oldest's copy of global_head_rseq, 0 outside it
    tick,          \* w->tick, as: may this dispatch be a 16th one?
    mode,          \* the poll pass a worker is in: "block", "nowait" or "cadence"
    want,          \* signals an actor still has to give (wake_one / wake_n)
    ret,           \* where an actor goes after waking
    idle_waiters,  \* workers counted as parked on idle_cv
    started,       \* nurl__np.started
    lease,         \* nurl__np.lease: the worker that polls
    sleeping,      \* nurl__np.sleeping
    poked,         \* the wake eventfd is readable
    shutdown       \* nurl__sched.shutdown (and nurl__np.shutdown)

queueVars == <<rq, gq, rseq, rseq_clock, admits>>
ioVars == <<io, ready>>
pollVars == <<started, lease, sleeping, poked>>
vars == <<queueVars, ioVars, pollVars, pc, cur, direct, g, tick, mode, want, ret, idle_waiters, shutdown>>

WorkerPcs == {"next", "read", "pop", "popg", "popl", "batch1", "poll", "deliver", "release",
              "steal", "batch2", "arm", "check", "epoll", "idle", "asleep", "woken", "exit"}
ThreadPcs == {"sdwake", "sdpoke", "sdjoin", "ended"}

TypeOK ==
    /\ rq \in [Workers -> Seq(Fibers)]
    /\ gq \in Seq(Fibers)
    /\ rseq \in [Fibers -> Nat]
    /\ {rseq_clock, admits} \subseteq Nat
    /\ io \in [Fibers -> {"no", "io", "accept"}]
    /\ ready \in SUBSET Fibers
    /\ pc \in [Actors -> WorkerPcs \cup ThreadPcs \cup {"body", "wake", "poke"}]
    /\ {cur, direct} \subseteq [Workers -> Fibers \cup {NoFiber}]
    /\ g \in [Workers -> Nat]
    /\ tick \in [Workers -> BOOLEAN]
    /\ mode \in [Workers -> {"block", "nowait", "cadence"}]
    /\ want \in [Actors -> Nat]
    /\ ret \in [Actors -> {"body", "release"}]
    /\ idle_waiters \in Nat
    /\ {started, sleeping, poked, shutdown} \subseteq BOOLEAN
    /\ lease \in Workers \cup {NoWorker}

\* nurl_runtime_init.
Init ==
    /\ rq = [w \in Workers |-> <<>>]
    /\ gq = <<>>
    /\ rseq = [f \in Fibers |-> 0]
    /\ rseq_clock = 0
    /\ admits = 0
    /\ io = [f \in Fibers |-> "no"]
    /\ ready = {}
    /\ pc = [a \in Actors |-> IF a \in Workers THEN "next" ELSE "body"]
    /\ cur = [w \in Workers |-> NoFiber]
    /\ direct = cur
    /\ g = [w \in Workers |-> 0]
    /\ tick = [w \in Workers |-> TRUE]
    /\ mode = [w \in Workers |-> "block"]
    /\ want = [a \in Actors |-> 0]
    /\ ret = [a \in Actors |-> "body"]
    /\ idle_waiters = 0
    /\ started = FALSE
    /\ lease = NoWorker
    /\ sleeping = FALSE
    /\ poked = FALSE
    /\ shutdown = FALSE

-----------------------------------------------------------------------------
Lesser(m, n) == IF m <= n THEN m ELSE n
Goto(a, l) == pc' = [pc EXCEPT ![a] = l]

Asleep == {w \in Workers : pc[w] = "asleep"}
Queued == (UNION {ToSet(rq[w]) : w \in Workers}) \cup ToSet(gq)
Running == {cur[w] : w \in Workers} \ {NoFiber}
Held == (Running \cup {direct[w] : w \in Workers}) \ {NoFiber}
Waiting == {f \in Fibers : io[f] # "no"}
Out == Fibers \ (Queued \cup Held \cup Waiting)

\* Room for one more push once every waiting fiber has been woken.
MayPush == rseq_clock + admits + Cardinality(Waiting) < MaxStamp

\* nurl__global_head_publish: the head's stamp, 0 for an empty queue.
global_head_rseq == IF gq = <<>> THEN 0 ELSE rseq[Head(gq)]

\* NURL_RSEQ_ADMIT: the stamp of a fiber that runs ahead of everything.
RSEQ_ADMIT == 1

\* The stamps after the fibers of s were pushed in order (nurl__rseq_next).
Stamped(s) == [f \in Fibers |-> IF f \in ToSet(s)
                                THEN rseq_clock + (CHOOSE i \in DOMAIN s : s[i] = f)
                                ELSE rseq[f]]

\* nurl__rq_push_local and nurl__rq_push_global.
PushLocal(w, f) ==
    /\ rq' = [rq EXCEPT ![w] = Append(@, f)]
    /\ rseq' = Stamped(<<f>>)
    /\ rseq_clock' = rseq_clock + 1
    /\ UNCHANGED <<gq, admits>>

PushGlobal(f) ==
    /\ gq' = Append(gq, f)
    /\ rseq' = Stamped(<<f>>)
    /\ rseq_clock' = rseq_clock + 1
    /\ UNCHANGED <<rq, admits>>

\* Go and give n signals (nurl__wake_one: 1), then continue at l.
WakeThen(a, n, l) ==
    IF n > 0
    THEN /\ Goto(a, "wake")
         /\ want' = [want EXCEPT ![a] = n]
         /\ ret' = [ret EXCEPT ![a] = l]
    ELSE Goto(a, l) /\ UNCHANGED <<want, ret>>

\* Worker w was handed fiber f.
RunFiber(w, f) == cur' = [cur EXCEPT ![w] = f]
-----------------------------------------------------------------------------
(* Faulty forms, each a plausible slip in the operation it stands for.     *)

\* IdlePark that does not look at the queues again once it is counted.
UncheckedIdlePark(w) ==
    /\ pc[w] = "idle"
    /\ IF shutdown THEN Goto(w, "exit") /\ UNCHANGED idle_waiters
                   ELSE Goto(w, "asleep") /\ idle_waiters' = idle_waiters + 1
    /\ UNCHANGED <<queueVars, ioVars, pollVars, direct, cur, g, tick, mode, want, ret, shutdown>>

\* IdlePark that does not look at the shutdown flag under idle_lock.
DeafIdlePark(w) ==
    /\ pc[w] = "idle"
    /\ IF gq # <<>> \/ rq[w] # <<>>
       THEN Goto(w, "next") /\ UNCHANGED idle_waiters
       ELSE Goto(w, "asleep") /\ idle_waiters' = idle_waiters + 1
    /\ UNCHANGED <<queueVars, ioVars, pollVars, direct, cur, g, tick, mode, want, ret, shutdown>>

\* IdlePark that stays counted when the second look found something.
CountedIdlePark(w) ==
    /\ pc[w] = "idle"
    /\ IF shutdown THEN Goto(w, "exit") /\ UNCHANGED idle_waiters
       ELSE /\ idle_waiters' = idle_waiters + 1
            /\ Goto(w, IF gq # <<>> \/ rq[w] # <<>> THEN "next" ELSE "asleep")
    /\ UNCHANGED <<queueVars, ioVars, pollVars, direct, cur, g, tick, mode, want, ret, shutdown>>

\* The admitted fiber queued at the tail, like any other, with its old stamp.
TailUnparkAdmit(t, f) ==
    /\ ~Netpoller
    /\ pc[t] = "body" /\ f \in Out /\ MayPush /\ ~shutdown
    /\ gq' = Append(gq, f)
    /\ rseq' = [rseq EXCEPT ![f] = RSEQ_ADMIT]
    /\ admits' = admits + 1
    /\ WakeThen(t, 1, "body")
    /\ UNCHANGED <<rq, rseq_clock, ioVars, pollVars, direct, cur, g, tick, mode, idle_waiters, shutdown>>

\* PopOldest that reads an empty global queue as the oldest stamp of all.
ZeroPopOldest(w) ==
    /\ pc[w] = "pop"
    /\ LET own == rq[w] # <<>> /\ rseq[Head(rq[w])] < g[w] IN
       IF own
       THEN /\ RunFiber(w, Head(rq[w]))
            /\ rq' = [rq EXCEPT ![w] = Tail(@)]
            /\ Goto(w, "body")
       ELSE /\ Goto(w, IF g[w] = 0 THEN "steal" ELSE IF rq[w] = <<>> THEN "batch1" ELSE "popg")
            /\ UNCHANGED <<rq, cur>>
    /\ g' = [g EXCEPT ![w] = 0]
    /\ UNCHANGED <<mode, gq, rseq, rseq_clock, admits, ioVars, pollVars, direct, tick, want, ret, idle_waiters, shutdown>>

\* Steal that leaves the last stolen fiber in the victim's queue.
SharingSteal(w, v) ==
    /\ pc[w] = "steal"
    /\ v # w
    /\ Len(rq[v]) >= 2
    /\ LET take == Len(rq[v]) \div 2 IN
       /\ RunFiber(w, Head(rq[v]))
       /\ rq' = [rq EXCEPT ![v] = SubSeq(@, take, Len(@)), ![w] = @ \o SubSeq(rq[v], 2, take)]
       /\ WakeThen(w, IF rq[w] # <<>> \/ take > 1 THEN 1 ELSE 0, "body")
    /\ UNCHANGED <<gq, rseq, rseq_clock, admits, ioVars, pollVars, direct, g, tick, mode, idle_waiters, shutdown>>

\* ReleaseLease that frees the lease only when the pass found a fiber to run.
StickyReleaseLease(w) ==
    /\ pc[w] = "release"
    /\ lease' = IF cur[w] # NoFiber THEN NoWorker ELSE lease
    /\ direct' = [direct EXCEPT ![w] = NoFiber]
    /\ Goto(w, IF cur[w] # NoFiber THEN "body" ELSE "steal")
    /\ mode' = [mode EXCEPT ![w] = "block"]
    /\ UNCHANGED <<rq, rseq, gq, rseq_clock, admits, ioVars, started, sleeping, poked, cur, g, tick, want, ret, idle_waiters, shutdown>>

\* ReleaseLease that does not clear `direct`, which it queues as well.
TwiceReleaseLease(w) ==
    /\ pc[w] = "release"
    /\ lease' = NoWorker
    /\ rq' = [rq EXCEPT ![w] = IF direct[w] = NoFiber THEN @ ELSE <<direct[w]>> \o @]
    /\ Goto(w, IF cur[w] # NoFiber THEN "body" ELSE "next")
    /\ mode' = [mode EXCEPT ![w] = "block"]
    /\ UNCHANGED <<direct, rseq, gq, rseq_clock, admits, ioVars, started, sleeping, poked, cur, g, tick, want, ret, idle_waiters, shutdown>>

\* ShutdownPoke that only sets the flag.
SilentShutdownPoke(t) ==
    /\ pc[t] = "sdpoke"
    /\ Goto(t, "sdjoin")
    /\ UNCHANGED <<queueVars, ioVars, pollVars, direct, cur, g, tick, mode, want, ret, idle_waiters, shutdown>>

-----------------------------------------------------------------------------
(* nurl__wake_one / nurl__wake_n, called by whoever pushed.                *)

\* Under idle_lock: signal if somebody is counted.  A signal wakes one worker
\* on the condition variable, and none if those counted are already on their way.
Signal(a) ==
    /\ pc[a] = "wake"
    /\ \E woken \in SUBSET Asleep :
           /\ Cardinality(woken) = Lesser(Lesser(want[a], idle_waiters), Cardinality(Asleep))
           /\ pc' = [b \in Actors |->
                        CASE b \in woken -> "woken"
                          [] b = a -> IF idle_waiters = 0 /\ Netpoller THEN "poke" ELSE ret[a]
                          [] OTHER -> pc[b]]
    /\ want' = [want EXCEPT ![a] = 0]
    /\ UNCHANGED <<queueVars, ioVars, pollVars, direct, cur, g, tick, mode, ret, idle_waiters, shutdown>>

\* nurl__np_poke_if_sleeping: nobody was on the condition variable.
PokeIfSleeping(a) ==
    /\ pc[a] = "poke"
    /\ poked' = (poked \/ (started /\ sleeping))
    /\ Goto(a, ret[a])
    /\ UNCHANGED <<queueVars, ioVars, direct, started, lease, sleeping, cur, g, tick, mode, want, ret, idle_waiters, shutdown>>

-----------------------------------------------------------------------------
(* nurl__worker_next.                                                      *)

Exit(w) ==
    /\ pc[w] = "next"
    /\ shutdown
    /\ Goto(w, "exit")
    /\ UNCHANGED <<queueVars, ioVars, pollVars, direct, cur, g, tick, mode, want, ret, idle_waiters, shutdown>>

\* Every 16th dispatch starts with a poll pass: any one may be the 16th, two in
\* a row may not.
CadencePoll(w) ==
    /\ Netpoller
    /\ pc[w] = "next"
    /\ ~shutdown
    /\ tick[w]
    /\ tick' = [tick EXCEPT ![w] = FALSE]
    /\ mode' = [mode EXCEPT ![w] = "cadence"]
    /\ Goto(w, "poll")
    /\ UNCHANGED <<queueVars, ioVars, pollVars, direct, cur, g, want, ret, idle_waiters, shutdown>>

\* nurl__rq_pop_oldest: read the published stamp without the lock ...
ReadHead(w) ==
    /\ (pc[w] = "next" /\ ~shutdown) \/ pc[w] = "read"
    /\ g' = [g EXCEPT ![w] = global_head_rseq]
    /\ tick' = [tick EXCEPT ![w] = @ \/ pc[w] = "next"]
    /\ Goto(w, "pop")
    /\ UNCHANGED <<queueVars, ioVars, pollVars, direct, cur, mode, want, ret, idle_waiters, shutdown>>

\* Where worker_next goes on when pop_oldest returned NULL.
ToAfterPop(w) ==
    /\ Goto(w, IF Netpoller THEN "poll" ELSE "steal")
    /\ mode' = [mode EXCEPT ![w] = IF Netpoller THEN "nowait" ELSE @]

\* ... then, under rq_lock, take the own head if it is the older one ...
PopOldest(w) ==
    /\ pc[w] = "pop"
    /\ LET own == rq[w] # <<>> /\ (g[w] = 0 \/ rseq[Head(rq[w])] < g[w]) IN
       \/ /\ own
          /\ RunFiber(w, Head(rq[w]))
          /\ rq' = [rq EXCEPT ![w] = Tail(@)]
          /\ Goto(w, "body")
          /\ UNCHANGED mode
       \/ /\ ~own /\ g[w] = 0
          /\ ToAfterPop(w)
          /\ UNCHANGED <<rq, cur>>
       \/ /\ ~own /\ g[w] # 0
          /\ Goto(w, IF rq[w] = <<>> THEN "batch1" ELSE "popg")
          /\ UNCHANGED <<rq, cur, mode>>
    /\ g' = [g EXCEPT ![w] = 0]
    /\ UNCHANGED <<gq, rseq, rseq_clock, admits, ioVars, pollVars, direct, tick, want, ret, idle_waiters, shutdown>>

\* ... or the global head (nurl__rq_pop_global), whatever it is by now ...
PopGlobal(w) ==
    /\ pc[w] = "popg"
    /\ \/ /\ gq # <<>>
          /\ RunFiber(w, Head(gq))
          /\ gq' = Tail(gq)
          /\ Goto(w, "body")
       \/ /\ gq = <<>>
          /\ Goto(w, "popl")
          /\ UNCHANGED <<gq, cur>>
    /\ UNCHANGED <<rq, rseq, rseq_clock, admits, ioVars, pollVars, direct, g, tick, mode, want, ret, idle_waiters, shutdown>>

\* ... or, a peer having emptied the global queue, the own head after all.
PopLocal(w) ==
    /\ pc[w] = "popl"
    /\ \/ /\ rq[w] # <<>>
          /\ RunFiber(w, Head(rq[w]))
          /\ rq' = [rq EXCEPT ![w] = Tail(@)]
          /\ Goto(w, "body")
          /\ UNCHANGED mode
       \/ /\ rq[w] = <<>>
          /\ ToAfterPop(w)
          /\ UNCHANGED <<rq, cur>>
    /\ UNCHANGED <<gq, rseq, rseq_clock, admits, ioVars, pollVars, direct, tick, g, want, ret, idle_waiters, shutdown>>

\* nurl__rq_take_global_batch: a fair share, the first to run, the rest to the
\* own queue; with the own queue empty in both places that call it.
BatchSize == Lesser(Lesser(Len(gq) \div Cardinality(Workers) + 1, BatchCap), Len(gq))

TakeGlobalBatch(w) ==
    /\ pc[w] \in {"batch1", "batch2"}
    /\ \/ /\ gq # <<>>
          /\ RunFiber(w, Head(gq))
          /\ rq' = [rq EXCEPT ![w] = @ \o SubSeq(gq, 2, BatchSize)]
          /\ gq' = SubSeq(gq, BatchSize + 1, Len(gq))
          /\ Goto(w, "body")
          /\ UNCHANGED mode
       \/ /\ gq = <<>>
          /\ \/ pc[w] = "batch1" /\ ToAfterPop(w)
             \/ /\ pc[w] = "batch2"
                /\ Goto(w, IF Netpoller THEN "poll" ELSE "idle")
                /\ UNCHANGED mode
          /\ UNCHANGED <<rq, gq, cur>>
    /\ UNCHANGED <<rseq, rseq_clock, admits, ioVars, pollVars, direct, tick, g, want, ret, idle_waiters, shutdown>>

\* nurl__rq_steal_from: the front half of a victim's queue of two or more;
\* with something left over, wake the next idle peer.
Steal(w, v) ==
    /\ pc[w] = "steal"
    /\ v # w
    /\ Len(rq[v]) >= 2
    /\ LET take == Len(rq[v]) \div 2 IN
       /\ RunFiber(w, Head(rq[v]))
       /\ rq' = [rq EXCEPT ![v] = SubSeq(@, take + 1, Len(@)),
                           ![w] = @ \o SubSeq(rq[v], 2, take)]
       /\ WakeThen(w, IF rq[w] # <<>> \/ take > 1 THEN 1 ELSE 0, "body")
    /\ UNCHANGED <<gq, rseq, rseq_clock, admits, ioVars, pollVars, direct, g, tick, mode, idle_waiters, shutdown>>

\* 2 x worker_count random victims, none worth stealing from (they may miss one).
StealNothing(w) ==
    /\ pc[w] = "steal"
    /\ Goto(w, "batch2")
    /\ UNCHANGED <<queueVars, ioVars, pollVars, direct, cur, g, tick, mode, want, ret, idle_waiters, shutdown>>

\* The idle park, under idle_lock: count ourselves, look once more at the
\* global queue and our own, then wait on idle_cv.
IdlePark(w) ==
    /\ pc[w] = "idle"
    /\ \/ /\ shutdown
          /\ Goto(w, "exit")
          /\ UNCHANGED idle_waiters
       \/ /\ ~shutdown
          /\ gq # <<>> \/ rq[w] # <<>>
          /\ Goto(w, "next")
          /\ UNCHANGED idle_waiters
       \/ /\ ~shutdown
          /\ gq = <<>> /\ rq[w] = <<>>
          /\ idle_waiters' = idle_waiters + 1
          /\ Goto(w, "asleep")
    /\ UNCHANGED <<queueVars, ioVars, pollVars, direct, cur, g, tick, mode, want, ret, shutdown>>

SpuriousWake(w) ==
    /\ pc[w] = "asleep"
    /\ Goto(w, "woken")
    /\ UNCHANGED <<queueVars, ioVars, pollVars, direct, cur, g, tick, mode, want, ret, idle_waiters, shutdown>>

Woken(w) ==
    /\ pc[w] = "woken"
    /\ idle_waiters' = idle_waiters - 1
    /\ Goto(w, "next")
    /\ UNCHANGED <<queueVars, ioVars, pollVars, direct, cur, g, tick, mode, want, ret, shutdown>>

-----------------------------------------------------------------------------
(* nurl__np_poll_at: one poller pass.                                      *)

\* Where worker_next goes on after a pass that handed out no fiber: with the
\* lease held in a blocking pass it starts over, without it it parks.
AfterPoll(w, held) ==
    CASE mode[w] = "cadence" -> "read"
      [] mode[w] = "nowait" -> "steal"
      [] OTHER -> IF held THEN "next" ELSE "idle"

\* The poller is off, or a peer holds the lease.
PollRefused(w) ==
    /\ pc[w] = "poll"
    /\ ~started \/ shutdown \/ lease # NoWorker
    /\ Goto(w, AfterPoll(w, FALSE))
    /\ mode' = [mode EXCEPT ![w] = "block"]
    /\ UNCHANGED <<queueVars, ioVars, pollVars, direct, cur, g, tick, want, ret, idle_waiters, shutdown>>

TakeLease(w) ==
    /\ pc[w] = "poll"
    /\ started /\ ~shutdown /\ lease = NoWorker
    /\ lease' = w
    /\ Goto(w, IF mode[w] = "block" THEN "arm" ELSE "deliver")
    /\ UNCHANGED <<queueVars, ioVars, direct, started, sleeping, poked, cur, g, tick, mode, want, ret, idle_waiters, shutdown>>

\* Announce the sleep, check for shutdown, enter epoll_wait.
Arm(w) ==
    /\ pc[w] = "arm"
    /\ sleeping' = TRUE
    /\ Goto(w, "check")
    /\ UNCHANGED <<queueVars, ioVars, direct, started, lease, poked, cur, g, tick, mode, want, ret, idle_waiters, shutdown>>

CheckShutdown(w) ==
    /\ pc[w] = "check"
    /\ sleeping' = (sleeping /\ ~shutdown)
    /\ Goto(w, IF shutdown THEN "deliver" ELSE "epoll")
    /\ UNCHANGED <<queueVars, ioVars, direct, started, lease, poked, cur, g, tick, mode, want, ret, idle_waiters, shutdown>>

\* epoll_wait returns on a ready fd or a poke.
EpollReturn(w) ==
    /\ pc[w] = "epoll"
    /\ poked \/ ready # {}
    /\ sleeping' = FALSE
    /\ Goto(w, "deliver")
    /\ UNCHANGED <<queueVars, ioVars, direct, started, lease, poked, cur, g, tick, mode, want, ret, idle_waiters, shutdown>>

\* The ready fibers in some order of their events.
Orders(S) == {s \in [1 .. Cardinality(S) -> S] : \A i, j \in DOMAIN s : s[i] = s[j] => i = j}

\* nurl__np_deliver_locked and nurl__np_hand_out: the last accept of the batch
\* runs at once; the oldest other one does if nothing is queued here or
\* globally; LocalShare go to the own queue, the rest to the global one.
HandOut(w, events) ==
    LET accepts == {i \in DOMAIN events : io[events[i]] = "accept"}
        last == CHOOSE i \in accepts : \A j \in accepts : j <= i
        admit == IF accepts = {} THEN NoFiber ELSE events[last]
        chain == IF accepts = {} THEN events ELSE RemoveAt(events, last)
        now == chain # <<>> /\ rq[w] = <<>> /\ gq = <<>>
        first == IF now THEN Head(chain) ELSE NoFiber
        rest == IF now THEN Tail(chain) ELSE chain
        kept == Lesser(Len(rest), LocalShare)
        spilled == Len(rest) - kept
    IN  /\ rq' = [rq EXCEPT ![w] = @ \o SubSeq(rest, 1, kept)]
        /\ gq' = gq \o SubSeq(rest, kept + 1, Len(rest))
        /\ rseq' = Stamped(rest)
        /\ rseq_clock' = rseq_clock + Len(rest)
        /\ UNCHANGED admits
        /\ RunFiber(w, IF admit # NoFiber THEN admit ELSE first)
        /\ direct' = [direct EXCEPT ![w] = IF admit # NoFiber THEN first ELSE NoFiber]
        /\ WakeThen(w, IF spilled > 0 THEN spilled ELSE IF kept >= 2 THEN 1 ELSE 0, "release")

Deliver(w) ==
    /\ pc[w] = "deliver"
    /\ \E events \in Orders(ready) : HandOut(w, events)
    /\ io' = [f \in Fibers |-> IF f \in ready THEN "no" ELSE io[f]]
    /\ ready' = {}
    /\ poked' = FALSE
    /\ UNCHANGED <<started, lease, sleeping, g, tick, mode, idle_waiters, shutdown>>

\* The end of hand_out and of the pass: the fiber the accept displaced goes to
\* the head of the own queue (nurl__np_run_next), and the lease is free.
ReleaseLease(w) ==
    /\ pc[w] = "release"
    /\ lease' = NoWorker
    /\ \/ /\ direct[w] = NoFiber
          /\ UNCHANGED <<rq, rseq>>
       \/ /\ direct[w] # NoFiber
          /\ rq' = [rq EXCEPT ![w] = <<direct[w]>> \o @]
          /\ rseq' = [rseq EXCEPT ![direct[w]] = RSEQ_ADMIT]
    /\ direct' = [direct EXCEPT ![w] = NoFiber]
    /\ Goto(w, IF cur[w] # NoFiber THEN "body" ELSE AfterPoll(w, TRUE))
    /\ mode' = [mode EXCEPT ![w] = "block"]
    /\ UNCHANGED <<gq, rseq_clock, admits, ioVars, started, sleeping, poked, cur, g, tick, want, ret, idle_waiters, shutdown>>

\* The kernel: a waiting fiber's descriptor becomes ready.
IoReady(f) ==
    /\ io[f] # "no"
    /\ f \notin ready
    /\ ready' = ready \cup {f}
    /\ UNCHANGED <<queueVars, io, pollVars, pc, cur, direct, g, tick, mode, want, ret, idle_waiters, shutdown>>

-----------------------------------------------------------------------------
(* What a running fiber does to the scheduler, its switch-out included.    *)

\* nurl__enqueue_new on a worker: own queue, then wake one.
SpawnLocal(w, f) ==
    /\ pc[w] = "body" /\ f \in Out /\ MayPush
    /\ PushLocal(w, f)
    /\ WakeThen(w, 1, "body")
    /\ UNCHANGED <<ioVars, pollVars, direct, cur, g, tick, mode, idle_waiters, shutdown>>

\* nurl_fiber_unpark (and a spawn off the workers): global queue, then wake one.
Unpark(a, f) ==
    /\ pc[a] = "body" /\ f \in Out /\ MayPush
    /\ a \in Threads => ~shutdown /\ (started => LatePush)
    /\ PushGlobal(f)
    /\ WakeThen(a, 1, "body")
    /\ UNCHANGED <<ioVars, pollVars, direct, cur, g, tick, mode, idle_waiters, shutdown>>

\* nurl__fiber_unpark_admit, the poll(2) reactor's: the head of the global queue.
UnparkAdmit(t, f) ==
    /\ ~Netpoller
    /\ pc[t] = "body" /\ f \in Out /\ MayPush /\ ~shutdown
    /\ gq' = <<f>> \o gq
    /\ rseq' = [rseq EXCEPT ![f] = RSEQ_ADMIT]
    /\ admits' = admits + 1
    /\ WakeThen(t, 1, "body")
    /\ UNCHANGED <<rq, rseq_clock, ioVars, pollVars, direct, cur, g, tick, mode, idle_waiters, shutdown>>

\* The fiber leaves the worker: worker_loop goes back to worker_next.
Leave(w) ==
    /\ pc[w] = "body"
    /\ cur' = [cur EXCEPT ![w] = NoFiber]

\* A yield: re-queued locally with a new stamp, nobody woken.
YieldTo(w) ==
    /\ Leave(w)
    /\ MayPush
    /\ PushLocal(w, cur[w])
    /\ Goto(w, "next")
    /\ UNCHANGED <<ioVars, pollVars, direct, g, tick, mode, want, ret, idle_waiters, shutdown>>

\* Finished, or parked on a wait list; its stamp is not read again before the
\* next push, so it is forgotten.
ForgetStamp(f) == rseq' = [rseq EXCEPT ![f] = 0]

ParkOrFinish(w) ==
    /\ Leave(w)
    /\ ForgetStamp(cur[w])
    /\ Goto(w, "next")
    /\ UNCHANGED <<rq, gq, rseq_clock, admits, ioVars, pollVars, direct, g, tick, mode, want, ret, idle_waiters, shutdown>>

\* A reactor wait, activated by the loop after the switch (nurl__reactor_activate).
ReactorWait(w, kind) ==
    /\ Netpoller
    /\ Leave(w)
    /\ MayPush
    /\ io' = [io EXCEPT ![cur[w]] = kind]
    /\ started' = TRUE
    /\ ForgetStamp(cur[w])
    /\ Goto(w, "next")
    /\ UNCHANGED <<rq, gq, rseq_clock, admits, ready, direct, lease, sleeping, poked, g, tick, mode, want, ret, idle_waiters, shutdown>>

-----------------------------------------------------------------------------
(* nurl_runtime_shutdown.                                                  *)

ShutdownSet(t) ==
    /\ pc[t] = "body" /\ ~shutdown
    /\ shutdown' = TRUE
    /\ Goto(t, "sdwake")
    /\ UNCHANGED <<queueVars, ioVars, pollVars, direct, cur, g, tick, mode, want, ret, idle_waiters>>

\* nurl__wake_all.
ShutdownWakeAll(t) ==
    /\ pc[t] = "sdwake"
    /\ pc' = [b \in Actors |-> IF b \in Asleep THEN "woken" ELSE IF b = t THEN "sdpoke" ELSE pc[b]]
    /\ UNCHANGED <<queueVars, ioVars, pollVars, direct, cur, g, tick, mode, want, ret, idle_waiters, shutdown>>

\* nurl__reactor_shutdown.
ShutdownPoke(t) ==
    /\ pc[t] = "sdpoke"
    /\ poked' = (poked \/ started)
    /\ Goto(t, "sdjoin")
    /\ UNCHANGED <<queueVars, ioVars, direct, started, lease, sleeping, cur, g, tick, mode, want, ret, idle_waiters, shutdown>>

\* pthread_join of every worker; then the locks are destroyed.
ShutdownJoin(t) ==
    /\ pc[t] = "sdjoin"
    /\ \A w \in Workers : pc[w] = "exit"
    /\ Goto(t, "ended")
    /\ UNCHANGED <<queueVars, ioVars, pollVars, direct, cur, g, tick, mode, want, ret, idle_waiters, shutdown>>

-----------------------------------------------------------------------------
Choose(w) ==
    \/ Exit(w) \/ ReadHead(w) \/ PopOldest(w) \/ PopGlobal(w) \/ PopLocal(w)
    \/ TakeGlobalBatch(w) \/ StealNothing(w) \/ (\E v \in Workers : Steal(w, v))
    \/ IdlePark(w) \/ Woken(w)

Body(w) ==
    \/ \E f \in Fibers : SpawnLocal(w, f) \/ Unpark(w, f)
    \/ YieldTo(w) \/ ParkOrFinish(w)

\* What only the netpoller build's worker does.
Poll(w) ==
    \/ CadencePoll(w) \/ PollRefused(w) \/ TakeLease(w) \/ Arm(w) \/ CheckShutdown(w)
    \/ EpollReturn(w) \/ Deliver(w) \/ ReleaseLease(w) \/ PokeIfSleeping(w)
    \/ \E kind \in {"io", "accept"} : ReactorWait(w, kind)

PlainWorker(w) == Choose(w) \/ Body(w) \/ Signal(w)
Worker(w) == PlainWorker(w) \/ Poll(w)

\* What a thread does once it has begun a call into the scheduler.
PlainCall(t) == Signal(t) \/ ShutdownWakeAll(t) \/ ShutdownPoke(t) \/ ShutdownJoin(t)
InCall(t) == PlainCall(t) \/ PokeIfSleeping(t)

\* The steps of both builds, all that the poll(2) one has.
PlainNext ==
    \/ \E w \in Workers : PlainWorker(w) \/ SpuriousWake(w)
    \/ \E t \in Threads : PlainCall(t) \/ ShutdownSet(t)
    \/ \E t \in Threads, f \in Fibers : Unpark(t, f) \/ UnparkAdmit(t, f)

Next ==
    \/ PlainNext
    \/ \E w \in Workers : Poll(w)
    \/ \E t \in Threads : PokeIfSleeping(t)
    \/ \E f \in Fibers : IoReady(f)

Spec == Init /\ [][Next]_vars

\* The poll(2) build: the OS schedules every thread, and every fiber body comes
\* to its end.
PlainFairSpec ==
    /\ Init /\ [][PlainNext]_vars
    /\ \A w \in Workers : WF_vars(PlainWorker(w))
    /\ \A t \in Threads : WF_vars(PlainCall(t))

-----------------------------------------------------------------------------
\* A fiber is in one place: no queue holds it twice, no two queues hold it, a
\* worker that was handed it holds it alone.  Steals, batches and hand-outs
\* move fibers and never copy or drop one.
OnePlace ==
    /\ \A w \in Workers : IsInjective(rq[w])
    /\ IsInjective(gq)
    /\ \A v, w \in Workers : v # w =>
           /\ ToSet(rq[v]) \cap ToSet(rq[w]) = {}
           /\ ({cur[v], direct[v]} \cap {cur[w], direct[w]}) \subseteq {NoFiber}
    /\ \A w \in Workers : ToSet(rq[w]) \cap ToSet(gq) = {}
    /\ (Queued \cup Waiting) \cap Held = {}
    /\ Queued \cap Waiting = {}

Ordered(s) == \A i, j \in DOMAIN s : i < j => rseq[s[i]] <= rseq[s[j]]

\* Every queue holds its fibers oldest first, through steals (the thief's queue
\* too), fair shares and admissions (runtime_ffi.c:7117 and 7148), in the
\* poll(2) build.
QueuesOrdered == Ordered(gq) /\ \A w \in Workers : Ordered(rq[w])

\* A worker that can only be woken from outside.
Blocked(w) == pc[w] = "asleep" \/ (pc[w] = "epoll" /\ ~poked /\ ready = {})

\* No lost wakeup: a fiber never waits on the global queue, or on a blocked
\* worker's own, with every worker blocked and nobody about to wake one.
NoLostWakeup ==
    \/ Queued = {}
    \/ \E w \in Workers : ~Blocked(w)
    \/ \E a \in Actors : pc[a] \in {"wake", "poke"}

\* The idle count is the number of workers on the condition variable, whatever
\* mix of signals, spurious wakes, re-checks and broadcasts they met: wake_one
\* trusts it to decide that nobody needs a signal.
IdleCountExact == idle_waiters = Cardinality({w \in Workers : pc[w] \in {"asleep", "woken"}})

\* No push goes unnoticed by the workers that sleep, and the count a pusher
\* reads to decide whether it must signal is right (nurl__wake_one).
WakeupsReach == NoLostWakeup /\ IdleCountExact

\* Every runnable fiber runs, whichever queue it entered.
EveryQueuedRuns ==
    \A f \in Fibers : (f \in Queued) ~> (f \in Running \/ shutdown)

\* Shutdown brings every worker to its exit: no wake is missed by a worker
\* going to sleep on idle_cv or in the poller meanwhile.
ShutdownCompletes ==
    \A t \in Threads : (pc[t] = "sdwake") ~> (pc[t] = "ended")
=============================================================================
