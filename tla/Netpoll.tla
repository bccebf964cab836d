------------------------------- MODULE Netpoll -------------------------------
(***************************************************************************)
(* The netpoller of stdlib/runtime_ffi.c (section 25, epoll build): the    *)
(* per-descriptor slots with their banked edges and parked fibers, the     *)
(* timer heap, the poller's pass, closes and the reuse of a descriptor's   *)
(* number.                                                                 *)
(*                                                                         *)
(* A critical section of the netpoller lock is one action.  The kernel     *)
(* side (readiness, the epoll set, its list of changed descriptors) is     *)
(* explicit.  Which worker runs which ready fiber is the business of       *)
(* module RunQueues: here any free worker takes any of them.               *)
(*                                                                         *)
(* The specification comes first, then the proofs, for all sets of         *)
(* descriptors, fibers and workers.                                        *)
(***************************************************************************)
EXTENDS Naturals, FiniteSets, FiniteSetsExt, TLC, FiniteSetTheorems, NaturalsInduction,
        WellFoundedInduction, TLAPS

CONSTANTS
    Fds, Fibers, Workers,
    NoFd, NoFiber, NoWorker,
    Dirs,            \* POLLIN, POLLOUT
    Delays,          \* timeouts a wait may have, in clock ticks
    MaxEvents,       \* events one epoll_wait returns (128 in the code)
    MaxOpens,        \* bound: how often one number is given to a socket
    MaxTime,         \* bound: the clock
    Shared           \* may two fibers wait for one direction of a socket?

ASSUME NetpollAssumption ==
    /\ NoFd \notin Fds /\ NoFiber \notin Fibers /\ NoWorker \notin Workers
    /\ Delays \subseteq Nat \ {0} /\ MaxEvents \in Nat \ {0}
    /\ MaxOpens \in Nat /\ MaxTime \in Nat /\ Shared \in BOOLEAN

VARIABLES
    \* the kernel
    sock, level,       \* a number's socket; directions that would not block
    inset, changed,    \* in the epoll set; on its list of changed descriptors
    evfd, now, opens,
    \* the slots and the heap
    ready, registered, chain, heap, rescan,
    \* the poller
    lease, ppc, block, evs, woke, batch, sleeping,
    next,              \* the nearest deadline it read: its timeout, and sleep_deadline
    unseen,            \* history: deadlines set after that and before sleeping = 1
    \* fibers, their wait entries, and workers
    pc, fd, events, delay, deadline, result, queued, cur, check,
    waking             \* entries a close took off, still to be unparked

kernelVars == <<sock, level, inset, changed, opens>>
slotVars == <<ready, registered, chain>>
pollVars == <<lease, ppc, block, next, unseen, evs, woke, batch, sleeping>>
opVars == <<fd, events, delay>>
vars == <<kernelVars, evfd, now, slotVars, heap, rescan, pollVars, pc, opVars, deadline,
          result, queued, cur, check, waking>>

TypeOK ==
    /\ sock \in [Fds -> {"closed", "open", "hup"}] /\ level \in [Fds -> SUBSET Dirs]
    /\ inset \in [Fds -> BOOLEAN] /\ changed \in [Fds -> BOOLEAN]
    /\ evfd \in BOOLEAN /\ now \in 0 .. MaxTime /\ opens \in [Fds -> 0 .. MaxOpens]
    /\ ready \in [Fds -> SUBSET Dirs] /\ registered \in [Fds -> BOOLEAN]
    /\ chain \in [Fds -> SUBSET Fibers] /\ heap \subseteq Fibers /\ rescan \in BOOLEAN
    /\ lease \in Workers \cup {NoWorker}
    /\ ppc \in {"none", "heap", "arm", "epoll", "deliver", "handout"}
    /\ block \in BOOLEAN /\ next \in Nat /\ unseen \subseteq Fibers
    /\ evs \in [Fds -> SUBSET Dirs] /\ woke \in BOOLEAN /\ batch \subseteq Fibers
    /\ sleeping \in BOOLEAN
    /\ pc \in [Fibers -> {"ready", "call", "io", "wait", "activate", "parked"}]
    /\ fd \in [Fibers -> Fds \cup {NoFd}] /\ events \in [Fibers -> SUBSET Dirs]
    /\ delay \in [Fibers -> Delays \cup {0}] /\ deadline \in [Fibers -> Nat]
    /\ result \in [Fibers -> 0 .. 1] /\ queued \in [Fibers -> Nat]
    /\ cur \in [Workers -> Fibers \cup {NoFiber}] /\ check \in [Workers -> Nat]
    /\ waking \subseteq Fibers

\* The netpoller is started; every fiber waits for a worker.
Init ==
    /\ sock = [d \in Fds |-> "closed"] /\ level = [d \in Fds |-> {}]
    /\ inset = [d \in Fds |-> FALSE] /\ changed = [d \in Fds |-> FALSE]
    /\ evfd = FALSE /\ now = 0 /\ opens = [d \in Fds |-> 0]
    /\ ready = [d \in Fds |-> {}] /\ registered = [d \in Fds |-> FALSE]
    /\ chain = [d \in Fds |-> {}] /\ heap = {} /\ rescan = FALSE
    /\ lease = NoWorker /\ ppc = "none" /\ block = FALSE /\ next = 0 /\ unseen = {}
    /\ evs = [d \in Fds |-> {}] /\ woke = FALSE /\ batch = {}
    /\ sleeping = FALSE
    /\ pc = [f \in Fibers |-> "ready"] /\ fd = [f \in Fibers |-> NoFd]
    /\ events = [f \in Fibers |-> {}] /\ delay = [f \in Fibers |-> 0]
    /\ deadline = [f \in Fibers |-> 0] /\ result = [f \in Fibers |-> 1]
    /\ queued = [f \in Fibers |-> 1]
    /\ cur = [w \in Workers |-> NoFiber] /\ check = [w \in Workers |-> 0]
    /\ waking = {}

-----------------------------------------------------------------------------
Goto(f, l) == pc' = [pc EXCEPT ![f] = l]

\* The entries in S leave the chains (nurl__np_chain_remove).
Unchained(S) == [d \in Fds |-> chain[d] \ S]

\* Fibers made runnable; a fiber queued twice would run on two workers.
Enqueued(S) == [f \in Fibers |-> IF f \in S THEN queued[f] + 1 ELSE queued[f]]

Earliest(S) == IF S = {} THEN 0 ELSE Min({deadline[f] : f \in S})

\* The poller has read the heap and not yet said that it sleeps.
AboutToSleep == block /\ ppc = "arm"

-----------------------------------------------------------------------------
(* The kernel.                                                             *)

Open(d) ==
    /\ sock[d] = "closed" /\ opens[d] < MaxOpens
    /\ opens' = [opens EXCEPT ![d] = @ + 1]
    /\ sock' = [sock EXCEPT ![d] = "open"]
    /\ UNCHANGED <<level, inset, changed, evfd, now, slotVars, heap, rescan, pollVars, pc, opVars,
                   deadline, result, queued, cur, check, waking>>

Arrive(d, dir) ==
    /\ sock[d] = "open"
    /\ level' = [level EXCEPT ![d] = @ \cup {dir}]
    /\ changed' = [changed EXCEPT ![d] = inset[d]]
    /\ UNCHANGED <<sock, inset, opens, evfd, now, slotVars, heap, rescan, pollVars, pc, opVars,
                   deadline, result, queued, cur, check, waking>>

\* The peer, or nurl_tcp_conn_shutdown, ends the connection: both directions
\* answer at once from now on.
Hangup(d) ==
    /\ sock[d] = "open"
    /\ sock' = [sock EXCEPT ![d] = "hup"]
    /\ level' = [level EXCEPT ![d] = Dirs]
    /\ changed' = [changed EXCEPT ![d] = inset[d]]
    /\ UNCHANGED <<inset, opens, evfd, now, slotVars, heap, rescan, pollVars, pc, opVars,
                   deadline, result, queued, cur, check, waking>>

Tick ==
    /\ now < MaxTime
    /\ now' = now + 1
    /\ UNCHANGED <<kernelVars, evfd, slotVars, heap, rescan, pollVars, pc, opVars, deadline,
                   result, queued, cur, check, waking>>

-----------------------------------------------------------------------------
(* Faulty forms, each a plausible slip in the operation it stands for.     *)

\* The activation parks without looking at what was banked.
BlindTakeReady(f) == FALSE

\* The close leaves the slot's registered flag.
StickyReset(d) == UNCHANGED registered

\* The delivered entries stay in the timer heap.
HeapedDelivered(S) == heap

\* A deadline that is reached now does not count as reached.
StrictExpired == {f \in heap : deadline[f] < now}

\* The deadline is compared the wrong way round.
LatePokeNeeded(dl) == sleeping /\ next # 0 /\ dl > next

Expired == {f \in heap : deadline[f] <= now}

-----------------------------------------------------------------------------
(* A fiber's wait, on the worker that runs it.                             *)

Run(w, f) ==
    /\ cur[w] = NoFiber /\ check[w] = 0 /\ lease # w
    /\ queued[f] > 0
    /\ queued' = [queued EXCEPT ![f] = @ - 1]
    /\ cur' = [cur EXCEPT ![w] = f]
    /\ \/ fd[f] # NoFd /\ result[f] = 1 /\ Goto(f, "io") /\ UNCHANGED opVars
       \/ /\ fd[f] = NoFd \/ result[f] = 0
          /\ Goto(f, "call")
          /\ fd' = [fd EXCEPT ![f] = NoFd]
          /\ events' = [events EXCEPT ![f] = {}]
          /\ delay' = [delay EXCEPT ![f] = 0]
    /\ deadline' = [deadline EXCEPT ![f] = 0]
    /\ result' = [result EXCEPT ![f] = 1]
    /\ UNCHANGED <<kernelVars, evfd, now, slotVars, heap, rescan, pollVars, check, waking>>

\* The fiber starts an operation on a socket, or a sleep.
Call(w, d, e, t) ==
    LET f == cur[w] IN
    /\ f # NoFiber /\ pc[f] = "call"
    /\ IF d = NoFd THEN e = {} /\ t # 0 ELSE e # {} /\ sock[d] # "closed"
    /\ Shared \/ \A g \in Fibers : fd[g] = d => events[g] \cap e = {}
    /\ fd' = [fd EXCEPT ![f] = d]
    /\ events' = [events EXCEPT ![f] = e]
    /\ delay' = [delay EXCEPT ![f] = t]
    /\ Goto(f, IF d = NoFd THEN "wait" ELSE "io")
    /\ UNCHANGED <<kernelVars, evfd, now, slotVars, heap, rescan, pollVars, deadline, result,
                   queued, cur, check, waking>>

\* The read or write itself: it takes all there is and the operation ends, or
\* it fails, or it answers EAGAIN and the fiber waits.
Io(w) ==
    LET f == cur[w] d == fd[f] IN
    /\ f # NoFiber /\ pc[f] = "io"
    /\ \/ /\ sock[d] # "open" \/ level[d] \cap events[f] # {}
          /\ level' = IF sock[d] = "open" THEN [level EXCEPT ![d] = @ \ events[f]] ELSE level
          /\ fd' = [fd EXCEPT ![f] = NoFd]
          /\ events' = [events EXCEPT ![f] = {}]
          /\ delay' = [delay EXCEPT ![f] = 0]
          /\ queued' = Enqueued({f})
          /\ cur' = [cur EXCEPT ![w] = NoFiber]
          /\ Goto(f, "ready")
       \/ /\ sock[d] = "open" /\ level[d] \cap events[f] = {}
          /\ Goto(f, "wait")
          /\ UNCHANGED <<level, opVars, queued, cur>>
    /\ UNCHANGED <<sock, inset, changed, opens, evfd, now, slotVars, heap, rescan, pollVars,
                   deadline, result, check, waking>>

\* nurl__reactor_wait_k without a park: the spin saw the descriptor ready, or
\* the edge was banked (nurl__np_take_ready).
WaitFast(w) ==
    LET f == cur[w] d == fd[f] IN
    /\ f # NoFiber /\ pc[f] = "wait" /\ d # NoFd
    /\ \/ level[d] \cap events[f] # {} /\ UNCHANGED ready
       \/ ready[d] \cap events[f] # {} /\ ready' = [ready EXCEPT ![d] = @ \ events[f]]
    /\ Goto(f, "io")
    /\ UNCHANGED <<kernelVars, evfd, now, registered, chain, heap, rescan, pollVars, opVars,
                   deadline, result, queued, cur, check, waking>>

\* ... with one: the entry is filled in and the fiber switches out.
WaitPark(w) ==
    LET f == cur[w] IN
    /\ f # NoFiber /\ pc[f] = "wait"
    /\ fd[f] # NoFd => ready[fd[f]] \cap events[f] = {}
    /\ deadline' = [deadline EXCEPT ![f] = IF delay[f] = 0 THEN 0 ELSE now + delay[f]]
    /\ result' = [result EXCEPT ![f] = 0]
    /\ Goto(f, "activate")
    /\ UNCHANGED <<kernelVars, evfd, now, slotVars, heap, rescan, pollVars, opVars, queued, cur,
                   check, waking>>

TakeReady(f) == ready[fd[f]] \cap events[f] # {}

\* nurl__np_register_fd: EPOLL_CTL_ADD once; a socket that is ready already
\* goes on the list of changed ones.
Register(d) ==
    /\ registered' = [registered EXCEPT ![d] = TRUE]
    /\ IF registered[d] THEN UNCHANGED <<inset, changed>>
       ELSE inset' = [inset EXCEPT ![d] = TRUE] /\ changed' = [changed EXCEPT ![d] = level[d] # {}]

\* nurl__reactor_activate on the worker the fiber left: woken at once (the
\* number is closed, or the edge came meanwhile) or parked.
Activate(w) ==
    LET f == cur[w] d == fd[f] IN
    /\ f # NoFiber /\ pc[f] = "activate"
    /\ \/ /\ d # NoFd /\ ~registered[d] /\ sock[d] = "closed"
          /\ result' = [result EXCEPT ![f] = 1]
          /\ queued' = Enqueued({f})
          /\ Goto(f, "ready")
          /\ UNCHANGED <<registered, inset, changed, ready, chain, heap, check, unseen>>
       \/ /\ d # NoFd /\ (registered[d] \/ sock[d] # "closed")
          /\ Register(d)
          /\ TakeReady(f)
          /\ ready' = [ready EXCEPT ![d] = @ \ events[f]]
          /\ result' = [result EXCEPT ![f] = 1]
          /\ queued' = Enqueued({f})
          /\ Goto(f, "ready")
          /\ UNCHANGED <<chain, heap, check, unseen>>
       \/ /\ d # NoFd => (registered[d] \/ sock[d] # "closed") /\ ~TakeReady(f)
          /\ IF d = NoFd
             THEN UNCHANGED <<registered, inset, changed, chain>>
             ELSE Register(d) /\ chain' = [chain EXCEPT ![d] = @ \cup {f}]
          /\ heap' = IF deadline[f] # 0 THEN heap \cup {f} ELSE heap
          /\ check' = [check EXCEPT ![w] = deadline[f]]
          /\ unseen' = IF AboutToSleep THEN unseen \cup {f} ELSE unseen \ {f}
          /\ Goto(f, "parked")
          /\ UNCHANGED <<ready, result, queued>>
    /\ cur' = [cur EXCEPT ![w] = NoFiber]
    /\ UNCHANGED <<sock, level, opens, evfd, now, rescan, lease, ppc, block, next, evs, woke, batch,
                   sleeping, opVars, deadline, waking>>

\* The end of the activation: a poller that sleeps past the deadline is poked.
PokeNeeded(dl) == sleeping /\ (next = 0 \/ dl < next)

PokeCheck(w) ==
    /\ check[w] # 0
    /\ evfd' = (evfd \/ PokeNeeded(check[w]))
    /\ check' = [check EXCEPT ![w] = 0]
    /\ UNCHANGED <<kernelVars, now, slotVars, heap, rescan, pollVars, pc, opVars, deadline,
                   result, queued, cur, waking>>

-----------------------------------------------------------------------------
(* The poller: nurl__np_poll_at, blocking on an idle worker, with a zero   *)
(* timeout on a busy one.                                                  *)

TakeLease(w, b) ==
    /\ cur[w] = NoFiber /\ check[w] = 0 /\ lease = NoWorker
    /\ b => \A f \in Fibers : queued[f] = 0
    /\ lease' = w /\ block' = b /\ ppc' = "heap"
    /\ UNCHANGED <<kernelVars, evfd, now, slotVars, heap, rescan, next, unseen, evs, woke, batch,
                   sleeping, pc, opVars, deadline, result, queued, cur, check,
                   waking>>

\* Expired deadlines first; with none, the nearest one bounds the sleep.
PollHeap ==
    /\ ppc = "heap"
    /\ batch' = Expired
    /\ heap' = heap \ Expired
    /\ chain' = Unchained(Expired)
    /\ next' = Earliest(heap \ Expired)
    /\ ppc' = IF Expired = {} THEN "arm" ELSE "handout"
    /\ UNCHANGED <<kernelVars, evfd, now, ready, registered, rescan, lease, block, unseen, evs, woke,
                   sleeping, pc, opVars, deadline, result, queued, cur, check,
                   waking>>

Arm ==
    /\ ppc = "arm"
    /\ sleeping' = block
    /\ ppc' = "epoll"
    /\ UNCHANGED <<kernelVars, evfd, now, slotVars, heap, rescan, lease, block, next, unseen, evs,
                   woke, batch, pc, opVars, deadline, result, queued, cur, check, waking>>

\* epoll_wait: changed descriptors with what they are ready for now, the wake
\* descriptor, or nothing once the timeout has passed.
Reportable == {d \in Fds : changed[d] /\ level[d] # {}}

EpollReturn ==
    /\ ppc = "epoll"
    /\ \E S \in SUBSET Reportable, k \in BOOLEAN :
           /\ k => evfd
           /\ Cardinality(S) + (IF k THEN 1 ELSE 0) <= MaxEvents
           /\ S = {} /\ ~k =>
                  /\ Reportable = {} /\ ~evfd
                  /\ ~block \/ (next # 0 /\ next <= now)
           /\ evs' = [d \in Fds |-> IF d \in S THEN level[d] ELSE {}]
           /\ woke' = k
           /\ changed' = [d \in Fds |-> changed[d] /\ d \notin S]
    /\ sleeping' = FALSE /\ unseen' = {}
    /\ ppc' = "deliver"
    /\ UNCHANGED <<sock, level, inset, opens, evfd, now, slotVars, heap, rescan, lease, block,
                   next, batch, pc, opVars, deadline, result, queued, cur, check,
                   waking>>

\* nurl__np_deliver_locked: waiters for a direction the event carries.
Hit == {f \in Fibers : \E d \in Fds : f \in chain[d] /\ events[f] \cap evs[d] # {}}

\* nurl__np_probe_all_locked, when a rescan was asked for.
Probed ==
    {f \in Fibers : \E d \in Fds :
        /\ rescan /\ f \in chain[d]
        /\ level[d] \cap events[f] # {} \/ sock[d] # "open"}

\* nurl__np_heap_remove of entries taken off their chains.
Delivered(S) == heap \ S

\* Under the lock again: deliver, probe, expire.
Deliver ==
    LET hit == Hit \cup Probed
        late == Expired \cap Delivered(hit)
    IN  /\ ppc = "deliver"
        /\ ppc' = "handout"
        /\ evfd' = (evfd /\ ~woke)
        /\ evs' = [d \in Fds |-> {}] /\ woke' = FALSE
        /\ rescan' = FALSE
        /\ batch' = hit \cup late
        /\ heap' = Delivered(hit) \ late
        /\ chain' = Unchained(hit \cup late)
        /\ ready' = [d \in Fds |->
                        ready[d] \cup (evs[d] \ UNION {events[f] : f \in chain[d] \cap Hit})]
        /\ result' = [f \in Fibers |-> IF f \in hit THEN 1 ELSE result[f]]
        /\ UNCHANGED <<kernelVars, now, registered, lease, block, next, unseen, sleeping,
                       pc, opVars, deadline, queued, cur, check, waking>>

\* nurl__np_hand_out, and the lease is free.
HandOut ==
    /\ ppc = "handout"
    /\ queued' = Enqueued(batch)
    /\ pc' = [f \in Fibers |-> IF f \in batch THEN "ready" ELSE pc[f]]
    /\ batch' = {}
    /\ lease' = NoWorker /\ ppc' = "none" /\ block' = FALSE /\ next' = 0
    /\ UNCHANGED <<kernelVars, evfd, now, slotVars, heap, rescan, unseen, evs, woke, sleeping,
                   opVars, deadline, result, cur, check, waking>>

-----------------------------------------------------------------------------
(* Closing, from any thread.                                               *)

Reset(d) == registered' = [registered EXCEPT ![d] = FALSE]

\* nurl__np_close: take the waiters, reset the slot and close, in one critical
\* section ...
Close(d) ==
    /\ sock[d] # "closed"
    /\ waking' = waking \cup chain[d]
    /\ result' = [f \in Fibers |-> IF f \in chain[d] THEN 1 ELSE result[f]]
    /\ heap' = heap \ chain[d]
    /\ chain' = [chain EXCEPT ![d] = {}]
    /\ ready' = [ready EXCEPT ![d] = {}]
    /\ Reset(d)
    /\ sock' = [sock EXCEPT ![d] = "closed"]
    /\ level' = [level EXCEPT ![d] = {}]
    /\ inset' = [inset EXCEPT ![d] = FALSE]
    /\ changed' = [changed EXCEPT ![d] = FALSE]
    /\ UNCHANGED <<opens, evfd, now, rescan, pollVars, pc, opVars, deadline, queued, cur, check>>

\* ... and nurl__np_wake_batch unparks them one by one.
WakeBatch(f) ==
    /\ f \in waking
    /\ waking' = waking \ {f}
    /\ queued' = Enqueued({f})
    /\ Goto(f, "ready")
    /\ UNCHANGED <<kernelVars, evfd, now, slotVars, heap, rescan, pollVars, opVars, deadline,
                   result, cur, check>>

\* nurl__reactor_wake_if_started, the end of every close and shutdown.
WakeIfStarted ==
    /\ ~rescan
    /\ rescan' = TRUE
    /\ evfd' = TRUE
    /\ UNCHANGED <<kernelVars, now, slotVars, heap, pollVars, pc, opVars, deadline, result,
                   queued, cur, check, waking>>

-----------------------------------------------------------------------------
FiberStep(w) ==
    \/ Io(w) \/ WaitFast(w) \/ WaitPark(w) \/ Activate(w) \/ PokeCheck(w)
    \/ \E d \in Fds \cup {NoFd}, e \in SUBSET Dirs, t \in Delays \cup {0} : Call(w, d, e, t)

PollStep == PollHeap \/ Arm \/ EpollReturn \/ Deliver \/ HandOut

Next ==
    \/ \E d \in Fds : Open(d) \/ Hangup(d) \/ Close(d) \/ \E dir \in Dirs : Arrive(d, dir)
    \/ Tick \/ WakeIfStarted
    \/ \E w \in Workers :
           \/ FiberStep(w)
           \/ \E f \in Fibers : Run(w, f)
           \/ \E b \in BOOLEAN : TakeLease(w, b)
    \/ PollStep
    \/ \E f \in Fibers : WakeBatch(f)

Spec == Init /\ [][Next]_vars

\* Whoever is inside the runtime gets on.  A free worker runs what is queued,
\* and polls: when it is idle, and every few dispatches when it is not.
FairSpec ==
    /\ Spec
    /\ \A w \in Workers :
           /\ WF_vars(FiberStep(w))
           /\ SF_vars(TakeLease(w, TRUE) \/ TakeLease(w, FALSE))
    /\ \A f \in Fibers : SF_vars(\E w \in Workers : Run(w, f)) /\ WF_vars(WakeBatch(f))
    /\ WF_vars(PollStep)

-----------------------------------------------------------------------------
ReadyFor(f) == fd[f] # NoFd /\ level[fd[f]] \cap events[f] # {}
Parked(f) == pc[f] = "parked" /\ fd[f] # NoFd /\ f \in chain[fd[f]]

\* No edge is lost: a fiber parked on a descriptor that is ready for it will
\* be told, by an event epoll still holds or one the poller has in its hands,
\* though edges come before, between and after the EAGAIN, the registration
\* and the activation, on one worker while another polls.
EdgeNotLost ==
    \A f \in Fibers : Parked(f) /\ ReadyFor(f) =>
        changed[fd[f]] \/ evs[fd[f]] \cap events[f] # {}

\* The slot's flag tells what the kernel's set holds, through every close and
\* reuse of the number: a slot that wrongly says "registered" would leave the
\* next socket out of the epoll set, and its first park would never wake.
RegisteredIsTrue ==
    \A d \in Fds : registered[d] = inset[d] /\ (chain[d] # {} => registered[d])

\* No readiness is lost, on any socket a number ever stands for: the edge
\* (nurl__np_deliver_locked) and the registration it comes through
\* (nurl__np_register_fd, nurl__np_close).
ReadinessReaches == EdgeNotLost /\ RegisteredIsTrue

\* An entry is woken once, by the event, the deadline, the probe or the close:
\* what one of them has taken, no other can reach.
WokenOnce ==
    \A f \in Fibers :
        LET places == queued[f] + Cardinality({w \in Workers : cur[w] = f})
                      + (IF f \in batch THEN 1 ELSE 0) + (IF f \in waking THEN 1 ELSE 0)
        IN  IF \E d \in Fds : f \in chain[d] THEN places = 0
            ELSE IF f \in heap THEN places = 0 ELSE places <= 1

\* A poller that sleeps wakes for the nearest deadline: one nearer than its
\* timeout comes with a poke, sent or about to be sent.  The exception is the
\* window of runtime_ffi.c:9286: a deadline set after the poller has read the
\* heap and before it stores sleeping = 1 (unseen) gets no poke.
NoOversleep ==
    ppc = "epoll" /\ block =>
        \A f \in heap \ unseen :
            \/ next # 0 /\ next <= deadline[f]
            \/ evfd
            \/ \E w \in Workers : check[w] # 0 /\ check[w] <= deadline[f]

\* A parked fiber whose deadline has passed: it is woken.
Overdue(f) == f \in heap /\ deadline[f] <= now
\* A parked fiber whose descriptor is ready: it is woken, unless another
\* consumer takes what it was ready with.
Served(f) == pc[f] # "parked" \/ ~ReadyFor(f)

\* For model checking: fibers are alike, and so are workers.
Symmetry == Permutations(Fibers) \union Permutations(Workers)
-----------------------------------------------------------------------------
(* Deadlines.                                                              *)

\* A set of numbers has a least one.
LEMMA LeastNat ==
    ASSUME NEW S, S \subseteq Nat, S # {}
    PROVE  \E x \in S : \A y \in S : x <= y
  <1>1. PICK x \in S : \A y \in S : ~(<<y, x>> \in OpToRel(<, Nat))
    BY NatLessThanWellFounded, WFMin
  <1>2. \A y \in S : ~(y < x)
    BY <1>1 DEF OpToRel
  <1> QED BY <1>2

\* The earliest deadline of a set is at most each of them, and 0 is none.
LEMMA EarliestIs ==
    ASSUME NEW S, S \subseteq Fibers, deadline \in [Fibers -> Nat],
           \A f \in S : deadline[f] # 0
    PROVE  /\ Earliest(S) \in Nat
           /\ \A f \in S : Earliest(S) # 0 /\ Earliest(S) <= deadline[f]
  <1> DEFINE T == {deadline[f] : f \in S}
  <1>1. CASE S = {}
    BY <1>1 DEF Earliest
  <1>2. CASE S # {}
    <2>1. T \subseteq Nat /\ T # {} /\ 0 \notin T /\ \A f \in S : deadline[f] \in T
      BY <1>2
    <2>2. Earliest(S) = Min(T)
      BY <1>2 DEF Earliest
    <2> HIDE DEF T
    <2>3. \E x \in T : \A y \in T : x <= y
      BY <2>1, LeastNat
    <2>4. Min(T) \in T /\ \A y \in T : Min(T) <= y
      BY <2>3 DEF Min
    <2> QED BY <2>1, <2>2, <2>4
  <1> QED BY <1>1, <1>2

\* One fiber that was in no queue is put in one.
LEMMA EnqueuedOne ==
    ASSUME queued \in [Fibers -> Nat], NEW f \in Fibers, queued[f] = 0
    PROVE  Enqueued({f}) = [queued EXCEPT ![f] = 1]
  <1>1. ASSUME NEW g \in Fibers PROVE Enqueued({f})[g] = [queued EXCEPT ![f] = 1][g]
    <2>1. CASE g = f
      BY <2>1 DEF Enqueued
    <2>2. CASE g # f
      BY <2>2 DEF Enqueued
    <2> QED BY <2>1, <2>2
  <1>2. DOMAIN [queued EXCEPT ![f] = 1] = Fibers
    OBVIOUS
  <1> QED BY <1>1, <1>2 DEF Enqueued

\* A timeout is a number of ticks.
LEMMA DelayIsNat ==
    ASSUME TypeOK, NEW f \in Fibers
    PROVE  delay[f] \in Nat /\ now \in Nat
  <1>1. delay[f] \in Delays \cup {0}
    BY DEF TypeOK
  <1>2. Delays \subseteq Nat
    BY NetpollAssumption, Zenon
  <1>3. now \in 0 .. MaxTime /\ MaxTime \in Nat
    BY NetpollAssumption DEF TypeOK
  <1>4. CASE delay[f] = 0
    BY <1>3, <1>4
  <1>5. CASE delay[f] \in Delays
    <2>1. delay[f] \in Nat
      BY <1>2, <1>5, Zenon
    <2> QED BY <2>1, <1>3
  <1> QED BY <1>1, <1>4, <1>5

-----------------------------------------------------------------------------
(* The inductive invariant.                                                *)

\* Where a fiber is: on one worker between its run and its switch out, in a
\* queue once when it is ready.
RunInv ==
    /\ \A f \in Fibers : queued[f] = IF pc[f] = "ready" THEN 1 ELSE 0
    /\ \A w \in Workers : cur[w] # NoFiber =>
           pc[cur[w]] \in {"call", "io", "wait", "activate"} /\ check[w] = 0
    /\ \A v, w \in Workers : cur[v] = cur[w] /\ cur[v] # NoFiber => v = w

\* What its operation is about: a wait without a descriptor is a sleep.
OpInv ==
    \A f \in Fibers :
        /\ pc[f] = "io" => fd[f] # NoFd
        /\ pc[f] = "wait" /\ fd[f] = NoFd => delay[f] # 0
        /\ pc[f] = "activate" /\ fd[f] = NoFd => deadline[f] # 0

\* A parked fiber's entry: in its descriptor's chain and, with a deadline, in the
\* heap, or in the hands of the poller, or in those of a close.
EntryInv ==
    /\ \A d \in Fds : \A f \in chain[d] : pc[f] = "parked" /\ fd[f] = d
    /\ \A f \in heap : /\ pc[f] = "parked" /\ deadline[f] # 0
                       /\ fd[f] # NoFd => f \in chain[fd[f]]
    /\ \A f \in batch \cup waking :
           /\ pc[f] = "parked" /\ f \notin heap
           /\ \A d \in Fds : f \notin chain[d]
    /\ batch \cap waking = {}

\* No parked fiber is out of everybody's reach.
ParkedFound ==
    \A f \in Fibers : pc[f] = "parked" =>
        f \in heap \cup batch \cup waking \/ \E d \in Fds : f \in chain[d]

\* What the poller has in its hands, and when.
PollerInv ==
    /\ lease = NoWorker <=> ppc = "none"
    /\ ppc # "handout" => batch = {}
    /\ ppc # "deliver" => \A d \in Fds : evs[d] = {}
    /\ ppc = "epoll" => sleeping = block

\* Before it sleeps, the timeout covers every deadline it could have seen.
TimeoutInv ==
    ppc = "arm" /\ block => \A f \in heap \ unseen : next # 0 /\ next <= deadline[f]

NetInv ==
    /\ TypeOK /\ RunInv /\ OpInv /\ EntryInv /\ ParkedFound /\ PollerInv
    /\ RegisteredIsTrue /\ TimeoutInv /\ NoOversleep

\* With one fiber for each direction of a socket: nobody else has a claim on what
\* a fiber waits for, ...
OwnDirection ==
    \A f, g \in Fibers : f # g /\ fd[f] = fd[g] => events[f] \cap events[g] = {}

\* ... and from its EAGAIN on, what its socket becomes ready for is on the epoll
\* set's list, in the poller's hands or, until it parks, banked in the slot.
EdgeInv ==
    \A f \in Fibers :
        /\ fd[f] # NoFd /\ registered[fd[f]]
        /\ pc[f] \in {"wait", "activate"} \/ Parked(f)
        /\ ReadyFor(f)
        => \/ changed[fd[f]]
           \/ evs[fd[f]] \cap events[f] # {}
           \/ pc[f] # "parked" /\ ready[fd[f]] \cap events[f] # {}

-----------------------------------------------------------------------------
\* A socket that is opened keeps NetInv.
LEMMA OpenStep ==
    ASSUME NetInv, NEW d \in Fds, Open(d)
    PROVE  NetInv'
  <1>1. TypeOK'
    BY NetpollAssumption DEF NetInv, TypeOK, Open, slotVars, pollVars, opVars
  <1>2. /\ RunInv' /\ OpInv' /\ EntryInv' /\ ParkedFound'
        /\ PollerInv' /\ RegisteredIsTrue' /\ TimeoutInv' /\ NoOversleep'
    BY DEF NetInv, RunInv, OpInv, EntryInv, ParkedFound, PollerInv, RegisteredIsTrue,
        TimeoutInv, NoOversleep, Open, slotVars, pollVars, opVars
  <1> QED BY <1>1, <1>2 DEF NetInv

\* Readiness that arrives keeps NetInv.
LEMMA ArriveStep ==
    ASSUME NetInv, NEW d \in Fds, NEW dir \in Dirs, Arrive(d, dir)
    PROVE  NetInv'
  <1>1. TypeOK'
    BY DEF NetInv, TypeOK, Arrive, slotVars, pollVars, opVars
  <1>2. /\ RunInv' /\ OpInv' /\ EntryInv' /\ ParkedFound'
        /\ PollerInv' /\ RegisteredIsTrue' /\ TimeoutInv' /\ NoOversleep'
    BY DEF NetInv, RunInv, OpInv, EntryInv, ParkedFound, PollerInv, RegisteredIsTrue,
        TimeoutInv, NoOversleep, Arrive, slotVars, pollVars, opVars
  <1> QED BY <1>1, <1>2 DEF NetInv

\* A hangup keeps NetInv.
LEMMA HangupStep ==
    ASSUME NetInv, NEW d \in Fds, Hangup(d)
    PROVE  NetInv'
  <1>1. TypeOK'
    BY DEF NetInv, TypeOK, Hangup, slotVars, pollVars, opVars
  <1>2. /\ RunInv' /\ OpInv' /\ EntryInv' /\ ParkedFound'
        /\ PollerInv' /\ RegisteredIsTrue' /\ TimeoutInv' /\ NoOversleep'
    BY DEF NetInv, RunInv, OpInv, EntryInv, ParkedFound, PollerInv, RegisteredIsTrue,
        TimeoutInv, NoOversleep, Hangup, slotVars, pollVars, opVars
  <1> QED BY <1>1, <1>2 DEF NetInv

\* The clock keeps NetInv.
LEMMA TickStep ==
    ASSUME NetInv, Tick
    PROVE  NetInv'
  <1>1. TypeOK'
    BY NetpollAssumption DEF NetInv, TypeOK, Tick, kernelVars, slotVars, pollVars, opVars
  <1>2. /\ RunInv' /\ OpInv' /\ EntryInv' /\ ParkedFound'
        /\ PollerInv' /\ RegisteredIsTrue' /\ TimeoutInv' /\ NoOversleep'
    BY DEF NetInv, RunInv, OpInv, EntryInv, ParkedFound, PollerInv, RegisteredIsTrue,
        TimeoutInv, NoOversleep, Tick, kernelVars, slotVars, pollVars, opVars
  <1> QED BY <1>1, <1>2 DEF NetInv

\* Running a fiber keeps NetInv.
LEMMA RunStep ==
    ASSUME NetInv, NEW w \in Workers, NEW f \in Fibers, Run(w, f)
    PROVE  NetInv'
  <1>1. TypeOK'
    <2>1. queued[f] \in Nat /\ queued[f] - 1 \in Nat
      BY DEF NetInv, TypeOK, Run
    <2>2. queued' \in [Fibers -> Nat]
      BY <2>1 DEF NetInv, TypeOK, Run
    <2>3. pc' \in [Fibers -> {"ready", "call", "io", "wait", "activate", "parked"}]
      BY DEF NetInv, TypeOK, Run, Goto
    <2>4. /\ fd' \in [Fibers -> Fds \cup {NoFd}] /\ events' \in [Fibers -> SUBSET Dirs]
          /\ delay' \in [Fibers -> Delays \cup {0}]
      BY DEF NetInv, TypeOK, Run, opVars
    <2>5. deadline' \in [Fibers -> Nat] /\ result' \in [Fibers -> 0 .. 1] /\ cur' \in [Workers -> Fibers \cup {NoFiber}]
      BY DEF NetInv, TypeOK, Run
    <2> QED BY <2>1, <2>2, <2>3, <2>4, <2>5
      DEF NetInv, TypeOK, Run, kernelVars, slotVars, pollVars, opVars
  <1>2. RunInv'
    <2>1. queued[f] = 1 /\ pc[f] = "ready" /\ cur[w] = NoFiber /\ check' = check /\ check[w] = 0
      BY DEF NetInv, TypeOK, RunInv, Run
    <2>2. PICK l \in {"io", "call"} : pc' = [pc EXCEPT ![f] = l]
      BY DEF Run, Goto
    <2>3. queued' = [queued EXCEPT ![f] = 0] /\ cur' = [cur EXCEPT ![w] = f]
      BY <2>1 DEF Run
    <2>4. \A v \in Workers : cur[v] # f
      BY <2>1, NetpollAssumption DEF NetInv, TypeOK, RunInv
    <2> QED BY <2>1, <2>2, <2>3, <2>4 DEF NetInv, TypeOK, RunInv
  <1>3. OpInv'
    BY DEF NetInv, TypeOK, OpInv, Run, opVars, Goto
  <1>4. EntryInv'
    BY DEF NetInv, TypeOK, RunInv, EntryInv, Run, slotVars, pollVars, opVars, Goto
  <1>5. ParkedFound'
    BY DEF NetInv, TypeOK, ParkedFound, Run, slotVars, pollVars, Goto
  <1>6. TimeoutInv'
    BY NetpollAssumption DEF NetInv, RunInv, EntryInv, TimeoutInv, Run, pollVars
  <1>7. NoOversleep'
    BY DEF NetInv, RunInv, EntryInv, NoOversleep, Run, pollVars
  <1>8. PollerInv' /\ RegisteredIsTrue'
    BY DEF NetInv, PollerInv, RegisteredIsTrue, Run, kernelVars, slotVars, pollVars
  <1> QED BY <1>1, <1>2, <1>3, <1>4, <1>5, <1>6, <1>7, <1>8 DEF NetInv

\* The start of an operation keeps NetInv.
LEMMA CallStep ==
    ASSUME NetInv, NEW w \in Workers, NEW d \in Fds \cup {NoFd}, NEW e \in SUBSET Dirs,
           NEW t \in Delays \cup {0}, Call(w, d, e, t)
    PROVE  NetInv'
  <1>1. TypeOK'
    BY DEF NetInv, TypeOK, Call, kernelVars, slotVars, pollVars, Goto
  <1>2. RunInv'
    BY DEF NetInv, RunInv, Call, Goto
  <1>3. OpInv'
    BY DEF NetInv, TypeOK, OpInv, Call, Goto
  <1>4. EntryInv'
    BY DEF NetInv, EntryInv, Call, slotVars, pollVars, Goto
  <1>5. ParkedFound'
    BY DEF NetInv, ParkedFound, Call, slotVars, pollVars, Goto
  <1>6. PollerInv' /\ RegisteredIsTrue' /\ TimeoutInv' /\ NoOversleep'
    BY DEF NetInv, PollerInv, RegisteredIsTrue, TimeoutInv, NoOversleep, Call, kernelVars,
        slotVars, pollVars
  <1> QED BY <1>1, <1>2, <1>3, <1>4, <1>5, <1>6 DEF NetInv

\* A read or write keeps NetInv.
LEMMA IoStep ==
    ASSUME NetInv, NEW w \in Workers, Io(w)
    PROVE  NetInv'
  <1>1. TypeOK'
    <2>1. cur[w] \in Fibers
      BY DEF NetInv, TypeOK, Io
    <2>2. queued' \in [Fibers -> Nat]
      BY <2>1 DEF NetInv, TypeOK, Io, Enqueued
    <2>3. pc' \in [Fibers -> {"ready", "call", "io", "wait", "activate", "parked"}]
      BY DEF NetInv, TypeOK, Io, Goto
    <2>4. /\ fd' \in [Fibers -> Fds \cup {NoFd}] /\ events' \in [Fibers -> SUBSET Dirs]
          /\ delay' \in [Fibers -> Delays \cup {0}]
      <3>1. \/ UNCHANGED opVars
            \/ /\ fd' = [fd EXCEPT ![cur[w]] = NoFd] /\ events' = [events EXCEPT ![cur[w]] = {}]
               /\ delay' = [delay EXCEPT ![cur[w]] = 0]
        BY DEF Io
      <3>2. CASE UNCHANGED opVars
        BY <3>2 DEF NetInv, TypeOK, opVars
      <3>3. CASE /\ fd' = [fd EXCEPT ![cur[w]] = NoFd] /\ events' = [events EXCEPT ![cur[w]] = {}]
                 /\ delay' = [delay EXCEPT ![cur[w]] = 0]
        BY <2>1, <3>3 DEF NetInv, TypeOK
      <3> QED BY <3>1, <3>2, <3>3
    <2>5. level' \in [Fds -> SUBSET Dirs]
      BY <2>1 DEF NetInv, TypeOK, Io
    <2>6. cur' \in [Workers -> Fibers \cup {NoFiber}]
      BY DEF NetInv, TypeOK, Io
    <2> QED BY <2>1, <2>2, <2>3, <2>4, <2>5, <2>6
      DEF NetInv, TypeOK, Io, slotVars, pollVars, opVars
  <1>2. RunInv'
    <2>1. cur[w] \in Fibers /\ pc[cur[w]] = "io" /\ queued[cur[w]] = 0 /\ check' = check /\ check[w] = 0
      BY DEF NetInv, TypeOK, RunInv, Io
    <2>2. CASE /\ queued' = Enqueued({cur[w]}) /\ cur' = [cur EXCEPT ![w] = NoFiber]
               /\ Goto(cur[w], "ready")
      <3>1. queued' = [queued EXCEPT ![cur[w]] = 1]
        BY <2>1, <2>2, EnqueuedOne DEF NetInv, TypeOK
      <3>2. \A v \in Workers : v # w => cur[v] # cur[w]
        BY <2>1, NetpollAssumption DEF NetInv, RunInv
      <3>3. pc' = [pc EXCEPT ![cur[w]] = "ready"] /\ cur' = [cur EXCEPT ![w] = NoFiber]
        BY <2>2 DEF Goto
      <3>4. ASSUME NEW g \in Fibers PROVE queued'[g] = IF pc'[g] = "ready" THEN 1 ELSE 0
        BY <2>1, <3>1, <3>3 DEF NetInv, TypeOK, RunInv
      <3>5. ASSUME NEW v \in Workers, cur'[v] # NoFiber
            PROVE  v # w /\ cur'[v] = cur[v] /\ pc'[cur[v]] = pc[cur[v]]
        BY <3>2, <3>3, <3>5 DEF NetInv, TypeOK
      <3> QED BY <2>1, <3>4, <3>5 DEF NetInv, RunInv
    <2>3. CASE Goto(cur[w], "wait") /\ UNCHANGED <<queued, cur>>
      BY <2>1, <2>3 DEF NetInv, TypeOK, RunInv, Goto
    <2> QED BY <2>2, <2>3 DEF Io
  <1>3. OpInv'
    BY DEF NetInv, TypeOK, OpInv, Io, opVars, Goto
  <1>4. EntryInv'
    BY DEF NetInv, TypeOK, EntryInv, PollerInv, Io, slotVars, pollVars, opVars, Goto
  <1>5. ParkedFound'
    BY DEF NetInv, TypeOK, ParkedFound, Io, slotVars, pollVars, Goto
  <1>6. PollerInv' /\ RegisteredIsTrue' /\ TimeoutInv' /\ NoOversleep'
    BY DEF NetInv, PollerInv, RegisteredIsTrue, TimeoutInv, NoOversleep, Io, slotVars, pollVars
  <1> QED BY <1>1, <1>2, <1>3, <1>4, <1>5, <1>6 DEF NetInv

\* A wait that need not park keeps NetInv.
LEMMA WaitFastStep ==
    ASSUME NetInv, NEW w \in Workers, WaitFast(w)
    PROVE  NetInv'
  <1>1. TypeOK'
    BY DEF NetInv, TypeOK, WaitFast, kernelVars, pollVars, opVars, Goto
  <1>2. RunInv'
    BY DEF NetInv, RunInv, WaitFast, Goto
  <1>3. OpInv'
    BY DEF NetInv, OpInv, WaitFast, opVars, Goto
  <1>4. EntryInv'
    BY DEF NetInv, EntryInv, WaitFast, pollVars, opVars, Goto
  <1>5. ParkedFound'
    BY DEF NetInv, ParkedFound, WaitFast, pollVars, Goto
  <1>6. PollerInv' /\ RegisteredIsTrue' /\ TimeoutInv' /\ NoOversleep'
    BY DEF NetInv, PollerInv, RegisteredIsTrue, TimeoutInv, NoOversleep, WaitFast, kernelVars,
        pollVars
  <1> QED BY <1>1, <1>2, <1>3, <1>4, <1>5, <1>6 DEF NetInv

\* The switch out of a wait keeps NetInv.
LEMMA WaitParkStep ==
    ASSUME NetInv, NEW w \in Workers, WaitPark(w)
    PROVE  NetInv'
  <1>1. TypeOK'
    <2>1. cur[w] \in Fibers
      BY DEF NetInv, TypeOK, WaitPark
    <2>2. delay[cur[w]] \in Nat /\ now \in Nat
      BY <2>1, DelayIsNat DEF NetInv
    <2>3. deadline' \in [Fibers -> Nat]
      BY <2>1, <2>2 DEF NetInv, TypeOK, WaitPark
    <2>4. result' \in [Fibers -> 0 .. 1]
      BY <2>1 DEF NetInv, TypeOK, WaitPark
    <2>5. pc' \in [Fibers -> {"ready", "call", "io", "wait", "activate", "parked"}]
      BY DEF NetInv, TypeOK, WaitPark, Goto
    <2> QED BY <2>1, <2>2, <2>3, <2>4, <2>5
      DEF NetInv, TypeOK, WaitPark, kernelVars, slotVars, pollVars, opVars
  <1>2. RunInv'
    BY DEF NetInv, RunInv, WaitPark, Goto
  <1>3. OpInv'
    <2>1. /\ cur[w] \in Fibers /\ pc[cur[w]] = "wait" /\ delay' = delay /\ fd' = fd
          /\ pc' = [pc EXCEPT ![cur[w]] = "activate"]
      BY DEF NetInv, TypeOK, WaitPark, Goto, opVars
    <2>2. delay[cur[w]] \in Nat /\ now \in Nat
      BY <2>1, DelayIsNat DEF NetInv
    <2>3. deadline' = [deadline EXCEPT ![cur[w]] = IF delay[cur[w]] = 0 THEN 0 ELSE now + delay[cur[w]]]
      BY DEF WaitPark
    <2>4. fd[cur[w]] = NoFd => delay[cur[w]] # 0
      BY <2>1 DEF NetInv, OpInv
    <2>5. fd[cur[w]] = NoFd => deadline'[cur[w]] # 0
      BY <2>1, <2>2, <2>3, <2>4 DEF NetInv, TypeOK
    <2>6. ASSUME NEW g \in Fibers, g # cur[w]
          PROVE  pc'[g] = pc[g] /\ deadline'[g] = deadline[g]
      BY <2>1, <2>3, <2>6 DEF NetInv, TypeOK
    <2>7. pc'[cur[w]] = "activate"
      BY <2>1 DEF NetInv, TypeOK
    <2> QED BY <2>1, <2>5, <2>6, <2>7 DEF NetInv, OpInv
  <1>4. EntryInv'
    BY DEF NetInv, EntryInv, WaitPark, slotVars, pollVars, opVars, Goto
  <1>5. ParkedFound'
    BY DEF NetInv, ParkedFound, WaitPark, slotVars, pollVars, Goto
  <1>6. TimeoutInv'
    BY DEF NetInv, EntryInv, TimeoutInv, WaitPark, pollVars
  <1>7. NoOversleep'
    BY DEF NetInv, EntryInv, NoOversleep, WaitPark, pollVars
  <1>8. PollerInv' /\ RegisteredIsTrue'
    BY DEF NetInv, PollerInv, RegisteredIsTrue, WaitPark, kernelVars, slotVars, pollVars
  <1> QED BY <1>1, <1>2, <1>3, <1>4, <1>5, <1>6, <1>7, <1>8 DEF NetInv

\* The activation keeps NetInv.
LEMMA ActivateStep ==
    ASSUME NetInv, NEW w \in Workers, Activate(w)
    PROVE  NetInv'
  <1>a. PICK f \in Fibers : f = cur[w]
    BY DEF NetInv, TypeOK, Activate
  <1>b. PICK d \in Fds \cup {NoFd} : d = fd[f]
    BY DEF NetInv, TypeOK
  <1>c. pc[f] = "activate" /\ check[w] = 0 /\ (d = NoFd => deadline[f] # 0)
    BY <1>a, <1>b DEF NetInv, TypeOK, RunInv, OpInv, Activate
  <1>d. /\ f \notin heap /\ f \notin batch /\ f \notin waking
        /\ \A c \in Fds : f \notin chain[c]
    BY <1>c DEF NetInv, EntryInv
  <1>e. /\ cur' = [cur EXCEPT ![w] = NoFiber] /\ batch' = batch /\ waking' = waking
        /\ fd' = fd /\ deadline' = deadline
    BY DEF Activate, opVars
  <1>f. \/ /\ pc' = [pc EXCEPT ![f] = "ready"] /\ chain' = chain /\ heap' = heap
           /\ check' = check /\ unseen' = unseen
        \/ /\ pc' = [pc EXCEPT ![f] = "parked"]
           /\ chain' = IF d = NoFd THEN chain ELSE [chain EXCEPT ![d] = @ \cup {f}]
           /\ heap' = IF deadline[f] # 0 THEN heap \cup {f} ELSE heap
           /\ check' = [check EXCEPT ![w] = deadline[f]]
           /\ unseen' = IF AboutToSleep THEN unseen \cup {f} ELSE unseen \ {f}
    BY <1>a, <1>b DEF Activate, Goto
  <1>1. TypeOK'
    <2>1. pc' \in [Fibers -> {"ready", "call", "io", "wait", "activate", "parked"}]
      BY <1>f DEF NetInv, TypeOK
    <2>2. chain' \in [Fds -> SUBSET Fibers] /\ heap' \subseteq Fibers /\ unseen' \subseteq Fibers
      BY <1>f DEF NetInv, TypeOK
    <2>3. check' \in [Workers -> Nat]
      BY <1>f DEF NetInv, TypeOK
    <2>4. cur' \in [Workers -> Fibers \cup {NoFiber}]
      BY <1>e DEF NetInv, TypeOK
    <2>5. registered' \in [Fds -> BOOLEAN] /\ inset' \in [Fds -> BOOLEAN] /\ changed' \in [Fds -> BOOLEAN]
      <3>1. CASE UNCHANGED <<registered, inset, changed>>
        BY <3>1 DEF NetInv, TypeOK
      <3>2. CASE d # NoFd /\ Register(d)
        BY <3>2 DEF NetInv, TypeOK, Register
      <3> QED BY <3>1, <3>2, <1>a, <1>b DEF Activate
    <2>6. ready' \in [Fds -> SUBSET Dirs]
      BY <1>a, <1>b DEF NetInv, TypeOK, Activate
    <2>7. result' \in [Fibers -> 0 .. 1]
      BY <1>a DEF NetInv, TypeOK, Activate
    <2>8. queued' \in [Fibers -> Nat]
      BY <1>a DEF NetInv, TypeOK, Activate, Enqueued
    <2> QED BY <2>1, <2>2, <2>3, <2>4, <2>5, <2>6, <2>7, <2>8
      DEF NetInv, TypeOK, Activate, opVars
  <1>2. RunInv'
    <2>1. /\ queued[f] = 0 /\ queued \in [Fibers -> Nat]
          /\ \A v \in Workers : v # w => cur[v] # f
      BY <1>a, <1>c, NetpollAssumption DEF NetInv, TypeOK, RunInv
    <2>2. ASSUME NEW v \in Workers, cur'[v] # NoFiber
          PROVE  v # w /\ cur'[v] = cur[v] /\ pc'[cur[v]] = pc[cur[v]] /\ check'[v] = check[v]
      BY <1>e, <1>f, <2>1, <2>2 DEF NetInv, TypeOK
    <2>3. \/ pc' = [pc EXCEPT ![f] = "ready"] /\ queued' = Enqueued({f})
          \/ pc' = [pc EXCEPT ![f] = "parked"] /\ queued' = queued
      BY <1>a DEF Activate, Goto
    <2>4. ASSUME NEW g \in Fibers PROVE queued'[g] = IF pc'[g] = "ready" THEN 1 ELSE 0
      <3>1. Enqueued({f}) = [queued EXCEPT ![f] = 1]
        BY <2>1, EnqueuedOne
      <3>2. queued[g] = IF pc[g] = "ready" THEN 1 ELSE 0
        BY DEF NetInv, RunInv
      <3>3. CASE g = f
        BY <1>c, <2>1, <2>3, <3>1, <3>3 DEF NetInv, TypeOK
      <3>4. CASE g # f
        BY <2>1, <2>3, <3>1, <3>2, <3>4 DEF NetInv, TypeOK
      <3> QED BY <3>3, <3>4
    <2> QED BY <2>2, <2>4 DEF NetInv, RunInv
  <1>3. OpInv'
    BY DEF NetInv, TypeOK, OpInv, Activate, opVars, Goto
  <1>4. EntryInv'
    <2>1. ASSUME NEW c \in Fds, NEW g \in chain'[c] PROVE pc'[g] = "parked" /\ fd'[g] = c /\ g \notin batch /\ g \notin waking
      <3>1. CASE g \in chain[c]
        <4>1. g # f /\ pc[g] = "parked" /\ fd[g] = c /\ g \in Fibers /\ g \notin batch /\ g \notin waking
          BY <3>1, <1>d DEF NetInv, EntryInv, TypeOK
        <4> QED BY <4>1, <1>e, <1>f DEF NetInv, TypeOK
      <3>2. CASE g \notin chain[c]
        <4>1. g = f /\ c = d /\ pc' = [pc EXCEPT ![f] = "parked"]
          BY <3>2, <1>f DEF NetInv, TypeOK
        <4> QED BY <4>1, <1>b, <1>d, <1>e DEF NetInv, TypeOK
      <3> QED BY <3>1, <3>2
    <2>2. ASSUME NEW g \in heap' PROVE pc'[g] = "parked" /\ deadline'[g] # 0 /\ (fd'[g] # NoFd => g \in chain'[fd'[g]])
                                       /\ g \notin batch /\ g \notin waking
      <3>1. CASE g \in heap
        <4>1. g # f /\ pc[g] = "parked" /\ deadline[g] # 0 /\ (fd[g] # NoFd => g \in chain[fd[g]]) /\ g \in Fibers
              /\ g \notin batch /\ g \notin waking
          BY <3>1, <1>d DEF NetInv, EntryInv, TypeOK
        <4> QED BY <4>1, <1>e, <1>f DEF NetInv, TypeOK
      <3>2. CASE g \notin heap
        <4>1. g = f /\ deadline[f] # 0 /\ pc' = [pc EXCEPT ![f] = "parked"]
              /\ chain' = IF d = NoFd THEN chain ELSE [chain EXCEPT ![d] = @ \cup {f}]
          BY <3>2, <1>f DEF NetInv, TypeOK
        <4> QED BY <4>1, <1>b, <1>d, <1>e DEF NetInv, TypeOK
      <3> QED BY <3>1, <3>2
    <2>3. ASSUME NEW g \in batch \cup waking PROVE pc'[g] = "parked"
      BY <1>c, <1>f DEF NetInv, EntryInv, TypeOK
    <2>4. batch \cap waking = {}
      BY DEF NetInv, EntryInv
    <2> QED BY <1>e, <2>1, <2>2, <2>3, <2>4 DEF EntryInv
  <1>5. ParkedFound'
    <2> SUFFICES ASSUME NEW g \in Fibers, pc'[g] = "parked"
                 PROVE  g \in heap' \cup batch' \cup waking' \/ \E c \in Fds : g \in chain'[c]
      BY DEF ParkedFound
    <2>1. heap \subseteq heap' /\ \A c \in Fds : chain[c] \subseteq chain'[c]
      BY <1>f DEF NetInv, TypeOK
    <2>2. CASE g # f
      <3>1. pc[g] = "parked"
        BY <2>2, <1>f DEF NetInv, TypeOK
      <3> QED BY <3>1, <2>1, <1>e DEF NetInv, ParkedFound
    <2>3. CASE g = f
      BY <2>3, <1>b, <1>c, <1>f DEF NetInv, TypeOK
    <2> QED BY <2>2, <2>3
  <1>6. RegisteredIsTrue'
    <2> SUFFICES ASSUME NEW c \in Fds PROVE registered'[c] = inset'[c] /\ (chain'[c] # {} => registered'[c])
      BY DEF RegisteredIsTrue
    <2>1. registered[c] = inset[c] /\ (chain[c] # {} => registered[c])
      BY DEF NetInv, RegisteredIsTrue
    <2>2. CASE UNCHANGED <<registered, inset>> /\ chain' = chain
      BY <2>1, <2>2
    <2>3. CASE d # NoFd /\ Register(d) /\ (chain' = chain \/ chain' = [chain EXCEPT ![d] = @ \cup {f}])
      <3>1. CASE c = d
        BY <2>1, <2>3, <3>1 DEF Register, NetInv, TypeOK
      <3>2. CASE c # d
        BY <2>1, <2>3, <3>2 DEF Register, NetInv, TypeOK
      <3> QED BY <3>1, <3>2
    <2> QED BY <2>2, <2>3, <1>a, <1>b DEF Activate
  <1>7. TimeoutInv'
    BY DEF NetInv, TimeoutInv, Activate, AboutToSleep
  <1>8. NoOversleep'
    <2> SUFFICES ASSUME ppc' = "epoll", block', NEW g \in heap' \ unseen'
                 PROVE  \/ next' # 0 /\ next' <= deadline'[g]
                        \/ evfd'
                        \/ \E v \in Workers : check'[v] # 0 /\ check'[v] <= deadline'[g]
      BY DEF NoOversleep
    <2>1. ppc = "epoll" /\ block /\ next' = next /\ evfd' = evfd /\ ~AboutToSleep
      BY DEF Activate, AboutToSleep
    <2>2. CASE g = f
      <3>1. /\ check' = [check EXCEPT ![w] = deadline[f]] /\ deadline[f] # 0
        BY <2>2, <1>d, <1>f
      <3>2. check'[w] = deadline[f] /\ deadline[f] \in Nat
        BY <3>1 DEF NetInv, TypeOK
      <3> QED BY <3>1, <3>2, <2>2, <1>e
    <2>3. CASE g # f
      <3>1. g \in heap \ unseen
        BY <2>1, <2>3, <1>f
      <3>2. \A v \in Workers : check[v] # 0 => v # w /\ check'[v] = check[v]
        BY <1>c, <1>f DEF NetInv, TypeOK
      <3> QED BY <3>1, <3>2, <2>1, <1>e DEF NetInv, NoOversleep
    <2> QED BY <2>2, <2>3
  <1>9. PollerInv'
    BY DEF NetInv, PollerInv, Activate
  <1> QED BY <1>1, <1>2, <1>3, <1>4, <1>5, <1>6, <1>7, <1>8, <1>9 DEF NetInv

\* The poke at the end of an activation keeps NetInv.
LEMMA PokeCheckStep ==
    ASSUME NetInv, NEW w \in Workers, PokeCheck(w)
    PROVE  NetInv'
  <1>1. TypeOK'
    BY DEF NetInv, TypeOK, PokeCheck, kernelVars, slotVars, pollVars, opVars
  <1>2. RunInv'
    BY DEF NetInv, RunInv, PokeCheck
  <1>3. NoOversleep'
    <2> SUFFICES ASSUME ppc' = "epoll", block', NEW f \in heap' \ unseen'
                 PROVE  \/ next' # 0 /\ next' <= deadline'[f]
                        \/ evfd'
                        \/ \E v \in Workers : check'[v] # 0 /\ check'[v] <= deadline'[f]
      BY DEF NoOversleep
    <2>1. /\ ppc = "epoll" /\ block /\ next' = next /\ deadline' = deadline /\ f \in heap \ unseen
          /\ evfd' = (evfd \/ PokeNeeded(check[w])) /\ check' = [check EXCEPT ![w] = 0]
      BY DEF PokeCheck, pollVars
    <2>2. sleeping
      BY <2>1 DEF NetInv, PollerInv
    <2>3. CASE next # 0 /\ next <= deadline[f]
      BY <2>1, <2>3
    <2>4. CASE evfd
      BY <2>1, <2>4
    <2>5. ASSUME NEW v \in Workers, check[v] # 0, check[v] <= deadline[f]
          PROVE  \/ next # 0 /\ next <= deadline[f]
                 \/ evfd'
                 \/ \E u \in Workers : check'[u] # 0 /\ check'[u] <= deadline'[f]
      <3>0. deadline[f] \in Nat /\ check[v] \in Nat /\ next \in Nat
        BY <2>1 DEF NetInv, TypeOK
      <3>1. CASE v = w
        <4>1. check[w] <= deadline[f] /\ check[w] \in Nat
          BY <3>0, <3>1, <2>5
        <4>2. CASE PokeNeeded(check[w])
          BY <4>2, <2>1
        <4>3. CASE ~PokeNeeded(check[w])
          <5>1. next # 0 /\ ~(check[w] < next)
            BY <4>3, <2>2 DEF PokeNeeded
          <5> QED BY <5>1, <4>1, <3>0
        <4> QED BY <4>2, <4>3
      <3>2. CASE v # w
        <4>1. check'[v] = check[v]
          BY <3>2, <2>1 DEF NetInv, TypeOK
        <4> QED BY <4>1, <2>1, <2>5
      <3> QED BY <3>1, <3>2
    <2> QED BY <2>1, <2>3, <2>4, <2>5 DEF NetInv, NoOversleep
  <1>4. OpInv' /\ EntryInv' /\ ParkedFound' /\ PollerInv' /\ RegisteredIsTrue' /\ TimeoutInv'
    BY DEF NetInv, OpInv, EntryInv, ParkedFound, PollerInv, RegisteredIsTrue, TimeoutInv,
        PokeCheck, kernelVars, slotVars, pollVars, opVars
  <1> QED BY <1>1, <1>2, <1>3, <1>4 DEF NetInv

\* Taking the lease keeps NetInv.
LEMMA TakeLeaseStep ==
    ASSUME NetInv, NEW w \in Workers, NEW b \in BOOLEAN, TakeLease(w, b)
    PROVE  NetInv'
  <1>1. TypeOK'
    BY DEF NetInv, TypeOK, TakeLease, kernelVars, slotVars, opVars
  <1>2. PollerInv'
    BY NetpollAssumption DEF NetInv, PollerInv, TakeLease
  <1>3. TimeoutInv'
    BY DEF NetInv, TimeoutInv, TakeLease
  <1>4. NoOversleep'
    BY DEF NetInv, NoOversleep, TakeLease
  <1>5. RunInv' /\ OpInv' /\ EntryInv' /\ ParkedFound' /\ RegisteredIsTrue'
    BY DEF NetInv, RunInv, OpInv, EntryInv, ParkedFound, RegisteredIsTrue, TakeLease,
        kernelVars, slotVars, opVars
  <1> QED BY <1>1, <1>2, <1>3, <1>4, <1>5 DEF NetInv

\* The poller's look at the heap keeps NetInv.
LEMMA PollHeapStep ==
    ASSUME NetInv, PollHeap
    PROVE  NetInv'
  <1>a. /\ heap \ Expired \subseteq Fibers /\ deadline \in [Fibers -> Nat]
        /\ \A f \in heap \ Expired : deadline[f] # 0
    BY DEF NetInv, TypeOK, EntryInv
  <1>b. /\ Earliest(heap \ Expired) \in Nat
        /\ \A f \in heap \ Expired : /\ Earliest(heap \ Expired) # 0
                                        /\ Earliest(heap \ Expired) <= deadline[f]
    BY <1>a, EarliestIs
  <1>1. TypeOK'
    BY <1>b DEF NetInv, TypeOK, PollHeap, Expired, Unchained, kernelVars, opVars
  <1>2. EntryInv'
    BY DEF NetInv, TypeOK, EntryInv, PollHeap, opVars, Expired, Unchained
  <1>3. ParkedFound'
    BY DEF NetInv, ParkedFound, PollerInv, PollHeap, Unchained
  <1>4. PollerInv'
    BY DEF NetInv, PollerInv, PollHeap
  <1>5. RegisteredIsTrue'
    BY DEF NetInv, RegisteredIsTrue, PollHeap, kernelVars, Unchained
  <1>6. TimeoutInv'
    BY <1>b DEF TimeoutInv, PollHeap
  <1>7. NoOversleep'
    BY DEF NetInv, NoOversleep, PollHeap
  <1>8. RunInv' /\ OpInv'
    BY DEF NetInv, RunInv, OpInv, PollHeap, opVars
  <1> QED BY <1>1, <1>2, <1>3, <1>4, <1>5, <1>6, <1>7, <1>8 DEF NetInv

\* The store of sleeping keeps NetInv.
LEMMA ArmStep ==
    ASSUME NetInv, Arm
    PROVE  NetInv'
  <1>1. TypeOK'
    BY DEF NetInv, TypeOK, Arm, kernelVars, slotVars, opVars
  <1>2. PollerInv'
    BY DEF NetInv, PollerInv, Arm
  <1>3. TimeoutInv'
    BY DEF NetInv, TimeoutInv, Arm
  <1>4. NoOversleep'
    BY DEF NetInv, TimeoutInv, NoOversleep, Arm
  <1>5. RunInv' /\ OpInv' /\ EntryInv' /\ ParkedFound' /\ RegisteredIsTrue'
    BY DEF NetInv, RunInv, OpInv, EntryInv, ParkedFound, RegisteredIsTrue, Arm, kernelVars,
        slotVars, opVars
  <1> QED BY <1>1, <1>2, <1>3, <1>4, <1>5 DEF NetInv

\* epoll_wait's return keeps NetInv.
LEMMA EpollReturnStep ==
    ASSUME NetInv, EpollReturn
    PROVE  NetInv'
  <1>1. TypeOK'
    BY DEF NetInv, TypeOK, EpollReturn, slotVars, opVars
  <1>2. PollerInv'
    BY DEF NetInv, PollerInv, EpollReturn
  <1>3. TimeoutInv'
    BY DEF NetInv, TimeoutInv, EpollReturn
  <1>4. NoOversleep'
    BY DEF NetInv, NoOversleep, EpollReturn
  <1>5. RunInv' /\ OpInv' /\ EntryInv' /\ ParkedFound' /\ RegisteredIsTrue'
    BY DEF NetInv, RunInv, OpInv, EntryInv, ParkedFound, RegisteredIsTrue, EpollReturn,
        slotVars, opVars
  <1> QED BY <1>1, <1>2, <1>3, <1>4, <1>5 DEF NetInv

\* The delivery keeps NetInv.
LEMMA DeliverStep ==
    ASSUME NetInv, Deliver
    PROVE  NetInv'
  <1>a. Hit \subseteq Fibers /\ Probed \subseteq Fibers
    BY DEF Hit, Probed
  <1>1. TypeOK'
    <2>1. ready' \in [Fds -> SUBSET Dirs]
      BY DEF NetInv, TypeOK, Deliver
    <2>2. result' \in [Fibers -> 0 .. 1]
      BY DEF NetInv, TypeOK, Deliver
    <2>3. chain' \in [Fds -> SUBSET Fibers]
      BY DEF NetInv, TypeOK, Deliver, Unchained
    <2>4. batch' \subseteq Fibers /\ heap' \subseteq Fibers
      BY <1>a DEF NetInv, TypeOK, Deliver, Delivered
    <2>5. /\ evfd' \in BOOLEAN /\ evs' \in [Fds -> SUBSET Dirs] /\ woke' \in BOOLEAN
          /\ rescan' \in BOOLEAN /\ ppc' = "handout"
      BY DEF NetInv, TypeOK, Deliver
    <2> QED BY <2>1, <2>2, <2>3, <2>4, <2>5 DEF NetInv, TypeOK, Deliver, kernelVars, opVars
  <1>2. EntryInv'
    BY DEF NetInv, TypeOK, EntryInv, Deliver, opVars, Hit, Probed, Delivered, Unchained
  <1>3. ParkedFound'
    BY DEF NetInv, ParkedFound, PollerInv, Deliver, Delivered, Unchained
  <1>4. PollerInv'
    BY DEF NetInv, PollerInv, Deliver
  <1>5. RegisteredIsTrue'
    BY DEF NetInv, RegisteredIsTrue, Deliver, kernelVars, Unchained
  <1>6. TimeoutInv'
    BY DEF NetInv, TimeoutInv, Deliver
  <1>7. NoOversleep'
    BY DEF NetInv, NoOversleep, Deliver, Hit
  <1>8. RunInv' /\ OpInv'
    BY DEF NetInv, RunInv, OpInv, Deliver, opVars
  <1> QED BY <1>1, <1>2, <1>3, <1>4, <1>5, <1>6, <1>7, <1>8 DEF NetInv

\* The hand-out keeps NetInv.
LEMMA HandOutStep ==
    ASSUME NetInv, HandOut
    PROVE  NetInv'
  <1>1. TypeOK'
    <2>1. queued' \in [Fibers -> Nat]
      BY DEF NetInv, TypeOK, HandOut, Enqueued
    <2>2. pc' \in [Fibers -> {"ready", "call", "io", "wait", "activate", "parked"}]
      BY DEF NetInv, TypeOK, HandOut
    <2> QED BY <2>1, <2>2 DEF NetInv, TypeOK, HandOut, kernelVars, slotVars, opVars
  <1>2. RunInv'
    <2>1. ASSUME NEW f \in Fibers PROVE queued'[f] = IF pc'[f] = "ready" THEN 1 ELSE 0
      <3>1. /\ queued'[f] = IF f \in batch THEN queued[f] + 1 ELSE queued[f]
            /\ pc'[f] = IF f \in batch THEN "ready" ELSE pc[f]
        BY DEF HandOut, Enqueued
      <3>2. f \in batch => pc[f] = "parked"
        BY DEF NetInv, EntryInv
      <3>3. queued[f] = IF pc[f] = "ready" THEN 1 ELSE 0
        BY DEF NetInv, RunInv
      <3> QED BY <3>1, <3>2, <3>3
    <2>2. ASSUME NEW w \in Workers, cur[w] # NoFiber PROVE pc'[cur[w]] = pc[cur[w]]
      BY <2>2, NetpollAssumption DEF NetInv, TypeOK, RunInv, EntryInv, HandOut
    <2>3. cur' = cur /\ check' = check
      BY DEF HandOut
    <2> QED BY <2>1, <2>2, <2>3 DEF NetInv, RunInv
  <1>3. OpInv'
    BY DEF NetInv, OpInv, HandOut, opVars
  <1>4. EntryInv'
    BY DEF NetInv, TypeOK, EntryInv, HandOut, slotVars, opVars
  <1>5. ParkedFound'
    BY DEF NetInv, ParkedFound, HandOut, slotVars
  <1>6. PollerInv'
    BY DEF NetInv, PollerInv, HandOut
  <1>7. TimeoutInv'
    BY DEF NetInv, TimeoutInv, HandOut
  <1>8. NoOversleep'
    BY DEF NetInv, NoOversleep, HandOut
  <1>9. RegisteredIsTrue'
    BY DEF NetInv, RegisteredIsTrue, HandOut, kernelVars, slotVars
  <1> QED BY <1>1, <1>2, <1>3, <1>4, <1>5, <1>6, <1>7, <1>8, <1>9 DEF NetInv

\* A close keeps NetInv.
LEMMA CloseStep ==
    ASSUME NetInv, NEW d \in Fds, Close(d)
    PROVE  NetInv'
  <1>1. TypeOK'
    BY DEF NetInv, TypeOK, Close, pollVars, opVars, Reset
  <1>2. EntryInv'
    BY DEF NetInv, TypeOK, EntryInv, Close, pollVars, opVars
  <1>3. ParkedFound'
    BY DEF NetInv, ParkedFound, Close, pollVars
  <1>4. RegisteredIsTrue'
    BY DEF NetInv, TypeOK, RegisteredIsTrue, Close, Reset
  <1>5. TimeoutInv'
    BY DEF NetInv, TimeoutInv, Close, pollVars
  <1>6. NoOversleep'
    BY DEF NetInv, NoOversleep, Close, pollVars
  <1>7. RunInv' /\ OpInv' /\ PollerInv'
    BY DEF NetInv, RunInv, OpInv, PollerInv, Close, pollVars, opVars
  <1> QED BY <1>1, <1>2, <1>3, <1>4, <1>5, <1>6, <1>7 DEF NetInv

\* A close's unpark keeps NetInv.
LEMMA WakeBatchStep ==
    ASSUME NetInv, NEW f \in Fibers, WakeBatch(f)
    PROVE  NetInv'
  <1>1. TypeOK'
    BY DEF NetInv, TypeOK, WakeBatch, kernelVars, slotVars, pollVars, opVars, Goto, Enqueued
  <1>2. RunInv'
    <2>1. pc[f] = "parked" /\ queued[f] = 0
      BY DEF NetInv, EntryInv, RunInv, WakeBatch
    <2>2. queued' = [queued EXCEPT ![f] = 1] /\ pc' = [pc EXCEPT ![f] = "ready"] /\ cur' = cur /\ check' = check
      BY <2>1, EnqueuedOne DEF WakeBatch, Goto, NetInv, TypeOK
    <2> QED BY <2>1, <2>2 DEF NetInv, TypeOK, RunInv
  <1>3. OpInv'
    BY DEF NetInv, OpInv, WakeBatch, opVars, Goto
  <1>4. EntryInv'
    BY DEF NetInv, EntryInv, WakeBatch, slotVars, pollVars, opVars, Goto
  <1>5. ParkedFound'
    BY DEF NetInv, TypeOK, ParkedFound, WakeBatch, slotVars, pollVars, Goto
  <1>6. PollerInv' /\ RegisteredIsTrue' /\ TimeoutInv' /\ NoOversleep'
    BY DEF NetInv, PollerInv, RegisteredIsTrue, TimeoutInv, NoOversleep, WakeBatch, kernelVars,
        slotVars, pollVars
  <1> QED BY <1>1, <1>2, <1>3, <1>4, <1>5, <1>6 DEF NetInv

\* A rescan that is asked for keeps NetInv.
LEMMA WakeIfStartedStep ==
    ASSUME NetInv, WakeIfStarted
    PROVE  NetInv'
  <1>1. TypeOK'
    BY DEF NetInv, TypeOK, WakeIfStarted, kernelVars, slotVars, pollVars, opVars
  <1>2. NoOversleep'
    BY DEF NetInv, NoOversleep, WakeIfStarted
  <1>3. /\ RunInv' /\ OpInv' /\ EntryInv' /\ ParkedFound'
        /\ PollerInv' /\ RegisteredIsTrue' /\ TimeoutInv'
    BY DEF NetInv, RunInv, OpInv, EntryInv, ParkedFound, PollerInv, RegisteredIsTrue,
        TimeoutInv, WakeIfStarted, kernelVars, slotVars, pollVars, opVars
  <1> QED BY <1>1, <1>2, <1>3 DEF NetInv
-----------------------------------------------------------------------------
\* The netpoller's start establishes the invariant.
LEMMA NetInit == Init => NetInv
  <1> SUFFICES ASSUME Init PROVE NetInv
    OBVIOUS
  <1>a. MaxTime \in Nat /\ MaxOpens \in Nat /\ 0 \in 0 .. MaxTime /\ 0 \in 0 .. MaxOpens
    BY NetpollAssumption
  <1>b. /\ sock \in [Fds -> {"closed", "open", "hup"}] /\ level \in [Fds -> SUBSET Dirs]
        /\ inset \in [Fds -> BOOLEAN] /\ changed \in [Fds -> BOOLEAN] /\ opens \in [Fds -> 0 .. MaxOpens]
    BY <1>a DEF Init
  <1>c. /\ ready \in [Fds -> SUBSET Dirs] /\ registered \in [Fds -> BOOLEAN]
        /\ chain \in [Fds -> SUBSET Fibers] /\ evs \in [Fds -> SUBSET Dirs]
    BY DEF Init
  <1>d. /\ pc \in [Fibers -> {"ready", "call", "io", "wait", "activate", "parked"}]
        /\ fd \in [Fibers -> Fds \cup {NoFd}] /\ events \in [Fibers -> SUBSET Dirs]
        /\ delay \in [Fibers -> Delays \cup {0}] /\ deadline \in [Fibers -> Nat]
        /\ result \in [Fibers -> 0 .. 1] /\ queued \in [Fibers -> Nat]
    BY DEF Init
  <1>e. cur \in [Workers -> Fibers \cup {NoFiber}] /\ check \in [Workers -> Nat]
    BY DEF Init
  <1>1. TypeOK
    BY <1>a, <1>b, <1>c, <1>d, <1>e DEF Init, TypeOK
  <1>2. RunInv /\ OpInv /\ EntryInv /\ ParkedFound
    BY NetpollAssumption DEF Init, RunInv, OpInv, EntryInv, ParkedFound
  <1>3. PollerInv /\ RegisteredIsTrue /\ TimeoutInv /\ NoOversleep
    BY DEF Init, PollerInv, RegisteredIsTrue, TimeoutInv, NoOversleep
  <1> QED BY <1>1, <1>2, <1>3 DEF NetInv

\* Every step keeps the invariant.
LEMMA NetStep == NetInv /\ [Next]_vars => NetInv'
  <1> SUFFICES ASSUME NetInv, [Next]_vars PROVE NetInv'
    OBVIOUS
  <1>1. CASE UNCHANGED vars
    BY <1>1 DEF NetInv, TypeOK, RunInv, OpInv, EntryInv, ParkedFound, PollerInv, RegisteredIsTrue,
        TimeoutInv, NoOversleep, vars, kernelVars, slotVars, pollVars, opVars
  <1>2. CASE \E d \in Fds : Open(d) \/ Hangup(d) \/ Close(d) \/ \E dir \in Dirs : Arrive(d, dir)
    BY <1>2, OpenStep, HangupStep, CloseStep, ArriveStep
  <1>3. CASE Tick \/ WakeIfStarted
    BY <1>3, TickStep, WakeIfStartedStep
  <1>4. CASE \E w \in Workers : FiberStep(w)
    BY <1>4, IoStep, WaitFastStep, WaitParkStep, ActivateStep, PokeCheckStep, CallStep DEF FiberStep
  <1>5. CASE \E w \in Workers : \/ \E f \in Fibers : Run(w, f)
                                \/ \E b \in BOOLEAN : TakeLease(w, b)
    BY <1>5, RunStep, TakeLeaseStep
  <1>6. CASE PollStep
    BY <1>6, PollHeapStep, ArmStep, EpollReturnStep, DeliverStep, HandOutStep DEF PollStep
  <1>7. CASE \E f \in Fibers : WakeBatch(f)
    BY <1>7, WakeBatchStep
  <1> QED BY <1>1, <1>2, <1>3, <1>4, <1>5, <1>6, <1>7 DEF Next

\* The netpoller's invariant holds in every reachable state: for every set of
\* descriptors, fibers and workers, any timeouts, any number of reuses of a
\* descriptor's number, one or several fibers for a direction (runtime_ffi.c,
\* section 25).
THEOREM NetSafety == Spec => []NetInv
  BY NetInit, NetStep, PTL DEF Spec

\* A parked fiber is in its descriptor's chain, in the heap, in the poller's batch or in
\* a close's list: whoever parks can be found (nurl__reactor_activate, nurl__np_close).
THEOREM ParkedFoundHolds == Spec => []ParkedFound
  <1>1. NetInv => ParkedFound
    BY DEF NetInv
  <1> QED BY NetSafety, <1>1, PTL

\* A poller that sleeps wakes for the nearest deadline it was told of, by its timeout or
\* by a poke (nurl__np_poll_at, nurl__reactor_activate).
THEOREM NoOversleepHolds == Spec => []NoOversleep
  <1>1. NetInv => NoOversleep
    BY DEF NetInv
  <1> QED BY NetSafety, <1>1, PTL

\* In every reachable state a fiber in a chain or the heap is nowhere else, and one
\* that is not is in one place at most.
LEMMA OncePlaced == NetInv => WokenOnce
  <1> SUFFICES ASSUME NetInv, NEW f \in Fibers
               PROVE  WokenOnce!(f)
    BY DEF WokenOnce
  <1> DEFINE On == {w \in Workers : cur[w] = f}
             b == IF f \in batch THEN 1 ELSE 0
             k == IF f \in waking THEN 1 ELSE 0
  <1>1. queued[f] = IF pc[f] = "ready" THEN 1 ELSE 0
    BY DEF NetInv, RunInv
  <1>2. On = {} \/ (pc[f] \notin {"ready", "parked"} /\ \E w \in Workers : On = {w})
    BY NetpollAssumption DEF NetInv, TypeOK, RunInv
  <1>3. Cardinality(On) = 0 \/ (pc[f] \notin {"ready", "parked"} /\ Cardinality(On) = 1)
    BY <1>2, FS_EmptySet, FS_Singleton
  <1>4. /\ f \in batch \cup waking => pc[f] = "parked" /\ f \notin heap /\ \A d \in Fds : f \notin chain[d]
        /\ ~(f \in batch /\ f \in waking)
    BY DEF NetInv, EntryInv
  <1>5. f \in heap \/ (\E d \in Fds : f \in chain[d]) => pc[f] = "parked"
    BY DEF NetInv, EntryInv
  <1> HIDE DEF On
  <1>6. queued[f] + Cardinality(On) + b + k <= 1
    BY <1>1, <1>3, <1>4
  <1>7. f \in heap \/ (\E d \in Fds : f \in chain[d]) => queued[f] + Cardinality(On) + b + k = 0
    BY <1>1, <1>3, <1>4, <1>5
  <1> QED BY <1>6, <1>7 DEF On

\* An entry is woken once, whichever of the event, the deadline, the probe and the close
\* comes first: what one of them has taken no other reaches, and no fiber is queued
\* twice or on two workers (nurl__np_deliver_locked, nurl__np_expire_locked, nurl__np_close).
THEOREM WokenOnceHolds == Spec => []WokenOnce
  BY NetSafety, OncePlaced, PTL

-----------------------------------------------------------------------------
(* One fiber for each direction of a socket.                               *)

\* No step gives a direction to a second fiber.
LEMMA OwnStep ==
    ASSUME ~Shared, NetInv, OwnDirection, [Next]_vars
    PROVE  OwnDirection'
  <1>1. CASE UNCHANGED <<fd, events>>
    BY <1>1 DEF OwnDirection
  <1>2. ASSUME NEW f \in Fibers, fd' = [fd EXCEPT ![f] = NoFd], events' = [events EXCEPT ![f] = {}]
        PROVE  OwnDirection'
    BY <1>2 DEF OwnDirection, NetInv, TypeOK
  <1>3. ASSUME NEW w \in Workers, NEW d \in Fds \cup {NoFd}, NEW e \in SUBSET Dirs,
               NEW t \in Delays \cup {0}, Call(w, d, e, t)
        PROVE  OwnDirection'
    <2>1. cur[w] \in Fibers
      BY <1>3 DEF Call, NetInv, TypeOK
    <2>2. /\ fd' = [fd EXCEPT ![cur[w]] = d] /\ events' = [events EXCEPT ![cur[w]] = e]
          /\ \A g \in Fibers : fd[g] = d => events[g] \cap e = {}
      BY <1>3 DEF Call
    <2> QED BY <2>1, <2>2 DEF OwnDirection, NetInv, TypeOK
  <1>4. ASSUME NEW w \in Workers, Io(w) PROVE OwnDirection'
    <2>1. cur[w] \in Fibers
      BY <1>4 DEF Io, NetInv, TypeOK
    <2> QED BY <1>1, <1>2, <1>4, <2>1 DEF Io, opVars
  <1>5. ASSUME NEW w \in Workers, NEW f \in Fibers, Run(w, f) PROVE OwnDirection'
    BY <1>1, <1>2, <1>5 DEF Run, opVars
  <1>6. ASSUME NEW w \in Workers, WaitFast(w) \/ WaitPark(w) \/ Activate(w) \/ PokeCheck(w)
        PROVE  UNCHANGED <<fd, events>>
    BY <1>6 DEF WaitFast, WaitPark, Activate, PokeCheck, opVars
  <1>7. CASE PollStep
    BY <1>1, <1>7 DEF PollStep, PollHeap, Arm, EpollReturn, Deliver, HandOut, opVars
  <1>8. CASE \/ \E d \in Fds : Open(d) \/ Hangup(d) \/ Close(d) \/ \E dir \in Dirs : Arrive(d, dir)
             \/ Tick \/ WakeIfStarted \/ \E f \in Fibers : WakeBatch(f)
    BY <1>1, <1>8 DEF Open, Hangup, Close, Arrive, Tick, WakeIfStarted, WakeBatch, opVars
  <1>9. CASE \E w \in Workers, b \in BOOLEAN : TakeLease(w, b)
    BY <1>1, <1>9 DEF TakeLease, opVars
  <1>10. CASE UNCHANGED vars
    BY <1>1, <1>10 DEF vars, opVars
  <1> QED BY <1>1, <1>3, <1>4, <1>5, <1>6, <1>7, <1>8, <1>9, <1>10 DEF Next, FiberStep

\* Readiness that arrives keeps EdgeInv.
LEMMA ArriveEdge ==
    ASSUME NetInv, OwnDirection, EdgeInv, NEW d \in Fds, NEW dir \in Dirs, Arrive(d, dir)
    PROVE  EdgeInv'
  <1> SUFFICES ASSUME NEW f \in Fibers, fd'[f] # NoFd, registered'[fd'[f]],
                      pc'[f] \in {"wait", "activate"} \/ Parked(f)', ReadyFor(f)'
               PROVE  \/ changed'[fd'[f]]
                      \/ evs'[fd'[f]] \cap events'[f] # {}
                      \/ pc'[f] # "parked" /\ ready'[fd'[f]] \cap events'[f] # {}
    BY DEF EdgeInv
  <1>1. /\ fd' = fd /\ registered' = registered /\ pc' = pc /\ events' = events /\ chain' = chain
        /\ evs' = evs /\ ready' = ready /\ changed' = [changed EXCEPT ![d] = inset[d]]
        /\ \A c \in Fds : c # d => level'[c] = level[c]
    BY DEF Arrive, slotVars, pollVars, opVars, NetInv, TypeOK
  <1>2. fd[f] \in Fds
    BY <1>1 DEF NetInv, TypeOK
  <1>3. CASE fd[f] = d
    BY <1>1, <1>3 DEF NetInv, TypeOK, RegisteredIsTrue
  <1>4. CASE fd[f] # d
    <2>1. /\ registered[fd[f]] /\ ReadyFor(f)
          /\ pc[f] \in {"wait", "activate"} \/ Parked(f)
      BY <1>1, <1>2, <1>4 DEF ReadyFor, Parked
    <2>2. changed'[fd[f]] = changed[fd[f]]
      BY <1>1, <1>2, <1>4 DEF NetInv, TypeOK
    <2> QED BY <1>1, <1>2, <2>1, <2>2 DEF EdgeInv
  <1> QED BY <1>3, <1>4

\* A hangup keeps EdgeInv.
LEMMA HangupEdge ==
    ASSUME NetInv, OwnDirection, EdgeInv, NEW d \in Fds, Hangup(d)
    PROVE  EdgeInv'
  <1> SUFFICES ASSUME NEW f \in Fibers, fd'[f] # NoFd, registered'[fd'[f]],
                      pc'[f] \in {"wait", "activate"} \/ Parked(f)', ReadyFor(f)'
               PROVE  \/ changed'[fd'[f]]
                      \/ evs'[fd'[f]] \cap events'[f] # {}
                      \/ pc'[f] # "parked" /\ ready'[fd'[f]] \cap events'[f] # {}
    BY DEF EdgeInv
  <1>1. /\ fd' = fd /\ registered' = registered /\ pc' = pc /\ events' = events /\ chain' = chain
        /\ evs' = evs /\ ready' = ready /\ changed' = [changed EXCEPT ![d] = inset[d]]
        /\ \A c \in Fds : c # d => level'[c] = level[c]
    BY DEF Hangup, slotVars, pollVars, opVars, NetInv, TypeOK
  <1>2. fd[f] \in Fds
    BY <1>1 DEF NetInv, TypeOK
  <1>3. CASE fd[f] = d
    BY <1>1, <1>3 DEF NetInv, TypeOK, RegisteredIsTrue
  <1>4. CASE fd[f] # d
    <2>1. /\ registered[fd[f]] /\ ReadyFor(f)
          /\ pc[f] \in {"wait", "activate"} \/ Parked(f)
      BY <1>1, <1>2, <1>4 DEF ReadyFor, Parked
    <2>2. changed'[fd[f]] = changed[fd[f]]
      BY <1>1, <1>2, <1>4 DEF NetInv, TypeOK
    <2> QED BY <1>1, <1>2, <2>1, <2>2 DEF EdgeInv
  <1> QED BY <1>3, <1>4

\* Running a fiber keeps EdgeInv.
LEMMA RunEdge ==
    ASSUME NetInv, OwnDirection, EdgeInv, NEW w \in Workers, NEW f0 \in Fibers, Run(w, f0)
    PROVE  EdgeInv'
  <1> SUFFICES ASSUME NEW f \in Fibers, fd'[f] # NoFd, registered'[fd'[f]],
                      pc'[f] \in {"wait", "activate"} \/ Parked(f)', ReadyFor(f)'
               PROVE  \/ changed'[fd'[f]]
                      \/ evs'[fd'[f]] \cap events'[f] # {}
                      \/ pc'[f] # "parked" /\ ready'[fd'[f]] \cap events'[f] # {}
    BY DEF EdgeInv
  <1>1. PICK l \in {"io", "call"} : pc' = [pc EXCEPT ![f0] = l]
    BY DEF Run, Goto
  <1>2. /\ registered' = registered /\ chain' = chain /\ evs' = evs /\ ready' = ready
        /\ changed' = changed /\ level' = level
    BY DEF Run, kernelVars, slotVars, pollVars
  <1>3. f # f0
    BY <1>1 DEF Parked, NetInv, TypeOK
  <1>4. pc'[f] = pc[f]
    BY <1>1, <1>3 DEF NetInv, TypeOK
  <1>5. fd'[f] = fd[f] /\ events'[f] = events[f]
    BY <1>3 DEF Run, opVars, NetInv, TypeOK
  <1>6. ReadyFor(f) /\ (pc[f] \in {"wait", "activate"} \/ Parked(f))
    BY <1>2, <1>4, <1>5 DEF ReadyFor, Parked
  <1> QED BY <1>2, <1>4, <1>5, <1>6 DEF EdgeInv

\* The start of an operation keeps EdgeInv.
LEMMA CallEdge ==
    ASSUME NetInv, OwnDirection, EdgeInv, NEW w \in Workers, NEW d \in Fds \cup {NoFd}, NEW e \in SUBSET Dirs,
           NEW t \in Delays \cup {0}, Call(w, d, e, t)
    PROVE  EdgeInv'
  BY DEF NetInv, TypeOK, RunInv, EdgeInv, Parked, ReadyFor, Call, kernelVars, slotVars,
      pollVars, Goto

\* A read or write keeps EdgeInv.
LEMMA IoEdge ==
    ASSUME NetInv, OwnDirection, EdgeInv, NEW w \in Workers, Io(w)
    PROVE  EdgeInv'
  <1> SUFFICES ASSUME NEW f \in Fibers, fd'[f] # NoFd, registered'[fd'[f]],
                      pc'[f] \in {"wait", "activate"} \/ Parked(f)', ReadyFor(f)'
               PROVE  \/ changed'[fd'[f]]
                      \/ evs'[fd'[f]] \cap events'[f] # {}
                      \/ pc'[f] # "parked" /\ ready'[fd'[f]] \cap events'[f] # {}
    BY DEF EdgeInv
  <1>1. /\ cur[w] \in Fibers /\ pc[cur[w]] = "io" /\ registered' = registered /\ chain' = chain
        /\ evs' = evs /\ ready' = ready /\ changed' = changed
    BY DEF Io, slotVars, pollVars, NetInv, TypeOK
  <1>2. CASE f = cur[w]
    <2>1. pc' = [pc EXCEPT ![f] = "ready"] \/ (pc' = [pc EXCEPT ![f] = "wait"] /\ level[fd[f]] \cap events[f] = {} /\ UNCHANGED <<level, opVars>>)
      BY <1>2 DEF Io, Goto
    <2> QED BY <2>1 DEF ReadyFor, Parked, opVars, NetInv, TypeOK
  <1>3. CASE f # cur[w]
    <2>1. fd'[f] = fd[f] /\ events'[f] = events[f] /\ pc'[f] = pc[f]
      BY <1>1, <1>3 DEF Io, Goto, opVars, NetInv, TypeOK
    <2>2. \A c \in Fds : level'[c] \subseteq level[c]
      <3>1. level' = level \/ level' = [level EXCEPT ![fd[cur[w]]] = @ \ events[cur[w]]]
        BY DEF Io
      <3> QED BY <3>1 DEF NetInv, TypeOK
    <2>3. fd[f] \in Fds
      BY <2>1 DEF NetInv, TypeOK
    <2>4. ReadyFor(f)
      BY <2>1, <2>2, <2>3 DEF ReadyFor
    <2>5. pc[f] \in {"wait", "activate"} \/ Parked(f)
      BY <1>1, <2>1 DEF Parked
    <2> QED BY <1>1, <2>1, <2>3, <2>4, <2>5 DEF EdgeInv
  <1> QED BY <1>2, <1>3

\* A wait that need not park keeps EdgeInv.
LEMMA WaitFastEdge ==
    ASSUME NetInv, OwnDirection, EdgeInv, NEW w \in Workers, WaitFast(w)
    PROVE  EdgeInv'
  <1> SUFFICES ASSUME NEW f \in Fibers, fd'[f] # NoFd, registered'[fd'[f]],
                      pc'[f] \in {"wait", "activate"} \/ Parked(f)', ReadyFor(f)'
               PROVE  \/ changed'[fd'[f]]
                      \/ evs'[fd'[f]] \cap events'[f] # {}
                      \/ pc'[f] # "parked" /\ ready'[fd'[f]] \cap events'[f] # {}
    BY DEF EdgeInv
  <1>1. /\ cur[w] \in Fibers /\ pc' = [pc EXCEPT ![cur[w]] = "io"] /\ registered' = registered
        /\ chain' = chain /\ evs' = evs /\ changed' = changed /\ level' = level /\ fd' = fd /\ events' = events
    BY DEF WaitFast, Goto, kernelVars, pollVars, opVars, NetInv, TypeOK
  <1>2. ready' = ready \/ ready' = [ready EXCEPT ![fd[cur[w]]] = @ \ events[cur[w]]]
    BY DEF WaitFast
  <1>3. CASE f = cur[w]
    BY <1>1, <1>3 DEF Parked, NetInv, TypeOK
  <1>4. CASE f # cur[w]
    <2>1. pc'[f] = pc[f]
      BY <1>1, <1>4 DEF NetInv, TypeOK
    <2>2. ReadyFor(f) /\ (pc[f] \in {"wait", "activate"} \/ Parked(f)) /\ fd[f] \in Fds
      BY <1>1, <2>1 DEF ReadyFor, Parked, NetInv, TypeOK
    <2>3. changed[fd[f]] \/ evs[fd[f]] \cap events[f] # {} \/ (pc[f] # "parked" /\ ready[fd[f]] \cap events[f] # {})
      BY <1>1, <2>2 DEF EdgeInv
    <2>4. fd[cur[w]] = fd[f] => events[f] \cap events[cur[w]] = {}
      BY <1>1, <1>4 DEF OwnDirection
    <2>5. ready[fd[f]] \cap events[f] # {} => ready'[fd[f]] \cap events[f] # {}
      BY <1>2, <2>2, <2>4 DEF NetInv, TypeOK
    <2> QED BY <1>1, <2>1, <2>3, <2>5
  <1> QED BY <1>3, <1>4

\* The switch out of a wait keeps EdgeInv.
LEMMA WaitParkEdge ==
    ASSUME NetInv, OwnDirection, EdgeInv, NEW w \in Workers, WaitPark(w)
    PROVE  EdgeInv'
  BY DEF NetInv, EdgeInv, Parked, ReadyFor, WaitPark, kernelVars, slotVars, pollVars, opVars,
      Goto

\* The activation keeps EdgeInv.
LEMMA ActivateEdge ==
    ASSUME NetInv, OwnDirection, EdgeInv, NEW w \in Workers, Activate(w)
    PROVE  EdgeInv'
  <1> SUFFICES ASSUME NEW f \in Fibers, fd'[f] # NoFd, registered'[fd'[f]],
                      pc'[f] \in {"wait", "activate"} \/ Parked(f)', ReadyFor(f)'
               PROVE  \/ changed'[fd'[f]]
                      \/ evs'[fd'[f]] \cap events'[f] # {}
                      \/ pc'[f] # "parked" /\ ready'[fd'[f]] \cap events'[f] # {}
    BY DEF EdgeInv
  <1>1. /\ cur[w] \in Fibers /\ pc[cur[w]] = "activate" /\ fd' = fd /\ events' = events
        /\ level' = level /\ evs' = evs
    BY DEF Activate, opVars, NetInv, TypeOK
  <1>2. /\ ready' = ready \/ ready' = [ready EXCEPT ![fd[cur[w]]] = @ \ events[cur[w]]]
        /\ \/ pc' = [pc EXCEPT ![cur[w]] = "ready"] /\ chain' = chain
           \/ /\ pc' = [pc EXCEPT ![cur[w]] = "parked"]
              /\ fd[cur[w]] = NoFd /\ chain' = chain
           \/ /\ pc' = [pc EXCEPT ![cur[w]] = "parked"]
              /\ fd[cur[w]] # NoFd /\ ready[fd[cur[w]]] \cap events[cur[w]] = {}
              /\ chain' = [chain EXCEPT ![fd[cur[w]]] = @ \cup {cur[w]}]
    BY DEF Activate, Goto, TakeReady
  <1>3. fd[f] \in Fds /\ level[fd[f]] # {}
    BY <1>1 DEF NetInv, TypeOK, ReadyFor
  <1>4. changed'[fd[f]] \/ (registered[fd[f]] /\ changed'[fd[f]] = changed[fd[f]])
    <2>1. CASE UNCHANGED <<registered, changed>>
      BY <2>1, <1>1
    <2>2. CASE fd[cur[w]] # NoFd /\ Register(fd[cur[w]])
      BY <2>2, <1>1, <1>3 DEF Register, NetInv, TypeOK
    <2> QED BY <2>1, <2>2 DEF Activate
  <1>5. CASE registered[fd[f]] /\ changed'[fd[f]] = changed[fd[f]] /\ f = cur[w]
    <2>1. ready[fd[f]] \cap events[f] = {}
      BY <1>1, <1>2, <1>5 DEF Parked, NetInv, TypeOK
    <2>2. ReadyFor(f)
      BY <1>1, <1>3 DEF ReadyFor
    <2> QED BY <1>1, <1>3, <1>5, <2>1, <2>2 DEF EdgeInv
  <1>6. CASE registered[fd[f]] /\ changed'[fd[f]] = changed[fd[f]] /\ f # cur[w]
    <2>1. pc'[f] = pc[f] /\ (f \in chain'[fd[f]] => f \in chain[fd[f]])
      BY <1>1, <1>2, <1>3, <1>6 DEF NetInv, TypeOK
    <2>2. ReadyFor(f) /\ (pc[f] \in {"wait", "activate"} \/ Parked(f))
      BY <1>1, <1>3, <2>1 DEF ReadyFor, Parked
    <2>3. changed[fd[f]] \/ evs[fd[f]] \cap events[f] # {} \/ (pc[f] # "parked" /\ ready[fd[f]] \cap events[f] # {})
      BY <1>1, <1>3, <1>6, <2>2 DEF EdgeInv
    <2>4. fd[cur[w]] = fd[f] => events[f] \cap events[cur[w]] = {}
      BY <1>1, <1>6 DEF OwnDirection
    <2>5. ready[fd[f]] \cap events[f] # {} => ready'[fd[f]] \cap events[f] # {}
      BY <1>2, <1>3, <2>4 DEF NetInv, TypeOK
    <2> QED BY <1>1, <1>6, <2>1, <2>3, <2>5
  <1> QED BY <1>1, <1>4, <1>5, <1>6

\* The poller's look at the heap keeps EdgeInv.
LEMMA PollHeapEdge ==
    ASSUME NetInv, OwnDirection, EdgeInv, PollHeap
    PROVE  EdgeInv'
  BY DEF NetInv, TypeOK, EdgeInv, Parked, ReadyFor, PollHeap, kernelVars, opVars, Unchained

\* epoll_wait's return keeps EdgeInv.
LEMMA EpollReturnEdge ==
    ASSUME NetInv, OwnDirection, EdgeInv, EpollReturn
    PROVE  EdgeInv'
  BY DEF NetInv, TypeOK, PollerInv, EdgeInv, Parked, ReadyFor, EpollReturn, slotVars, opVars

\* The delivery keeps EdgeInv.
LEMMA DeliverEdge ==
    ASSUME NetInv, OwnDirection, EdgeInv, Deliver
    PROVE  EdgeInv'
  <1> SUFFICES ASSUME NEW f \in Fibers, fd'[f] # NoFd, registered'[fd'[f]],
                      pc'[f] \in {"wait", "activate"} \/ Parked(f)', ReadyFor(f)'
               PROVE  \/ changed'[fd'[f]]
                      \/ evs'[fd'[f]] \cap events'[f] # {}
                      \/ pc'[f] # "parked" /\ ready'[fd'[f]] \cap events'[f] # {}
    BY DEF EdgeInv
  <1>1. /\ fd' = fd /\ events' = events /\ level' = level /\ changed' = changed /\ pc' = pc
        /\ registered' = registered
        /\ \A c \in Fds : chain'[c] \subseteq chain[c] \ Hit
        /\ \A c \in Fds : ready'[c] = ready[c] \cup (evs[c] \ UNION {events[g] : g \in chain[c] \cap Hit})
    BY DEF Deliver, Unchained, kernelVars, opVars, NetInv, TypeOK
  <1>2. fd[f] \in Fds /\ registered[fd[f]]
    BY <1>1 DEF NetInv, TypeOK
  <1>3. ReadyFor(f) /\ (pc[f] \in {"wait", "activate"} \/ Parked(f))
    BY <1>1, <1>2 DEF ReadyFor, Parked
  <1>4. changed[fd[f]] \/ evs[fd[f]] \cap events[f] # {} \/ (pc[f] # "parked" /\ ready[fd[f]] \cap events[f] # {})
    BY <1>1, <1>2, <1>3 DEF EdgeInv
  <1>5. CASE pc[f] = "parked"
    <2>1. f \in chain[fd[f]] /\ f \notin Hit
      BY <1>1, <1>2, <1>5 DEF Parked
    <2>2. evs[fd[f]] \cap events[f] = {}
      BY <1>2, <2>1 DEF Hit
    <2> QED BY <1>1, <1>4, <1>5, <2>2
  <1>6. CASE pc[f] # "parked"
    <2>1. \A g \in chain[fd[f]] \cap Hit : events[g] \cap events[f] = {}
      BY <1>2, <1>6 DEF OwnDirection, NetInv, TypeOK, EntryInv
    <2>2. evs[fd[f]] \cap events[f] \subseteq ready'[fd[f]]
      BY <1>1, <1>2, <2>1
    <2>3. ready[fd[f]] \subseteq ready'[fd[f]]
      BY <1>1, <1>2
    <2> QED BY <1>1, <1>4, <1>6, <2>2, <2>3
  <1> QED BY <1>5, <1>6

\* The hand-out keeps EdgeInv.
LEMMA HandOutEdge ==
    ASSUME NetInv, OwnDirection, EdgeInv, HandOut
    PROVE  EdgeInv'
  BY DEF NetInv, EdgeInv, Parked, ReadyFor, HandOut, kernelVars, slotVars, opVars

\* A close keeps EdgeInv.
LEMMA CloseEdge ==
    ASSUME NetInv, OwnDirection, EdgeInv, NEW d \in Fds, Close(d)
    PROVE  EdgeInv'
  BY DEF NetInv, TypeOK, EdgeInv, Parked, ReadyFor, Close, pollVars, opVars, Reset

\* A close's unpark keeps EdgeInv.
LEMMA WakeBatchEdge ==
    ASSUME NetInv, OwnDirection, EdgeInv, NEW f \in Fibers, WakeBatch(f)
    PROVE  EdgeInv'
  BY NetpollAssumption DEF NetInv, EdgeInv, Parked, ReadyFor, WakeBatch, kernelVars, slotVars,
      pollVars, opVars, Goto

\* A step that touches neither operations, slots nor readiness keeps EdgeInv.
LEMMA EdgeKept ==
    ASSUME EdgeInv, UNCHANGED <<fd, events, pc, chain, level, changed, evs, ready, registered>>
    PROVE  EdgeInv'
  BY DEF EdgeInv, Parked, ReadyFor

\* Every step keeps the claims on readiness.
LEMMA EdgeStep ==
    ASSUME ~Shared, NetInv, OwnDirection, EdgeInv, [Next]_vars
    PROVE  EdgeInv'
  <1>1. CASE UNCHANGED vars
    BY <1>1, EdgeKept DEF vars, kernelVars, slotVars, pollVars, opVars
  <1>2. CASE \E d \in Fds : Open(d) \/ Hangup(d) \/ Close(d) \/ \E dir \in Dirs : Arrive(d, dir)
    <2>1. ASSUME NEW d \in Fds, Open(d) PROVE EdgeInv'
      BY <2>1, EdgeKept DEF Open, slotVars, pollVars, opVars
    <2> QED BY <1>2, <2>1, HangupEdge, CloseEdge, ArriveEdge
  <1>3. CASE Tick \/ WakeIfStarted
    BY <1>3, EdgeKept DEF Tick, WakeIfStarted, kernelVars, slotVars, pollVars, opVars
  <1>4. CASE \E w \in Workers : FiberStep(w)
    <2>1. ASSUME NEW w \in Workers, PokeCheck(w) PROVE EdgeInv'
      BY <2>1, EdgeKept DEF PokeCheck, kernelVars, slotVars, pollVars, opVars
    <2> QED BY <1>4, <2>1, IoEdge, WaitFastEdge, WaitParkEdge, ActivateEdge, CallEdge
      DEF FiberStep
  <1>5. CASE \E w \in Workers : \/ \E f \in Fibers : Run(w, f)
                                \/ \E b \in BOOLEAN : TakeLease(w, b)
    <2>1. ASSUME NEW w \in Workers, NEW b \in BOOLEAN, TakeLease(w, b) PROVE EdgeInv'
      BY <2>1, EdgeKept DEF TakeLease, kernelVars, slotVars, opVars
    <2> QED BY <1>5, <2>1, RunEdge
  <1>6. CASE PollStep
    <2>1. CASE Arm
      BY <2>1, EdgeKept DEF Arm, kernelVars, slotVars, opVars
    <2> QED BY <1>6, <2>1, PollHeapEdge, EpollReturnEdge, DeliverEdge, HandOutEdge DEF PollStep
  <1>7. CASE \E f \in Fibers : WakeBatch(f)
    BY <1>7, WakeBatchEdge
  <1> QED BY <1>1, <1>2, <1>3, <1>4, <1>5, <1>6, <1>7 DEF Next

\* With one fiber for each direction of a socket no readiness is lost: a fiber parked
\* on a descriptor that is ready for it will be told, whenever the edge came between
\* its EAGAIN, its registration and its activation, and on whatever socket a reused
\* number stands for (nurl__np_register_fd, nurl__np_deliver_locked, nurl__np_close).
THEOREM ReadinessReachesHolds ==
    ASSUME ~Shared
    PROVE  Spec => []ReadinessReaches
  <1>1. Init => OwnDirection /\ EdgeInv
    BY DEF Init, OwnDirection, EdgeInv, Parked
  <1>2. NetInv /\ OwnDirection /\ EdgeInv /\ [Next]_vars => (OwnDirection /\ EdgeInv)'
    BY OwnStep, EdgeStep
  <1>3. NetInv /\ EdgeInv => ReadinessReaches
    <2> SUFFICES ASSUME NetInv, EdgeInv PROVE ReadinessReaches
      OBVIOUS
    <2>1. ASSUME NEW f \in Fibers, Parked(f) PROVE fd[f] # NoFd /\ registered[fd[f]] /\ pc[f] = "parked"
      BY <2>1 DEF Parked, NetInv, TypeOK, RegisteredIsTrue
    <2>2. EdgeNotLost
      BY <2>1 DEF EdgeInv, EdgeNotLost
    <2> QED BY <2>2 DEF ReadinessReaches, NetInv
  <1> QED BY NetSafety, <1>1, <1>2, <1>3, PTL DEF Spec
=============================================================================
