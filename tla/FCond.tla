-------------------------------- MODULE FCond --------------------------------
(***************************************************************************)
(* The condition variable fibers and threads share (NurlFCond in           *)
(* stdlib/runtime_ffi.c), with the timed mutex park it is built on         *)
(* (nurl_fiber_park_with_mutex_ms, nurl_fiber_wake, the activation by the  *)
(* worker loop and the expiry of deadlines, section 25).                   *)
(*                                                                         *)
(* The program around it is a counter of tokens behind a mutex: a waiter   *)
(* loops on "a token is there", a poster adds one and signals.  Two locks  *)
(* of the runtime matter: the condition variable's own spinlock, an        *)
(* explicit variable because a waker holds it over several steps, and the  *)
(* netpoller lock, whose critical sections are single actions.             *)
(***************************************************************************)
EXTENDS Naturals, Sequences, FiniteSets, SequencesExt

CONSTANTS
    Fibers, Threads,   \* waiters
    Posters,           \* OS threads that add tokens and signal
    Nobody, NoFiber,
    LateSignal,        \* may a poster signal after it has released the mutex?
    MaxPosts           \* bound: tokens added in a run

Waiters == Fibers \cup Threads

ASSUME FCondAssumption ==
    /\ Fibers \cap Threads = {} /\ Waiters \cap Posters = {}
    /\ Nobody \notin Waiters \cup Posters /\ NoFiber \notin Fibers
    /\ IsFiniteSet(Waiters) /\ IsFiniteSet(Posters)
    /\ LateSignal \in BOOLEAN /\ MaxPosts \in Nat

VARIABLES
    tokens, posts,   \* the predicate; tokens added so far
    mutex,           \* holder of the caller's mutex
    lk,              \* holder of the condition variable's spinlock
    list,            \* fibers whose node is queued, oldest first
    cv,              \* threads in pthread_cond_wait
    timed_park,      \* f->timed_park: a wake or a deadline may still claim it
    park_state,      \* 0 registered, 1 activated, 2 woken before activation
    timed,           \* the wait has a deadline
    result,          \* f->last_park_result
    runnable,        \* how often the suspended fiber was made runnable
    pc,
    node,            \* the fiber whose node a poster took off the list
    all              \* the poster broadcasts

parkVars == <<timed_park, park_state, timed, result, runnable>>
vars == <<tokens, posts, mutex, lk, list, cv, parkVars, pc, node, all>>

WaiterPcs == {"idle", "pred", "queue", "park", "swap", "activate", "parked", "back", "cvwait", "relock"}
PosterPcs == {"idle", "add", "probe", "unlink", "wake", "cvsignal", "end"}

TypeOK ==
    /\ tokens \in 0 .. MaxPosts /\ posts \in 0 .. MaxPosts
    /\ mutex \in Waiters \cup Posters \cup {Nobody}
    /\ lk \in Posters \cup {Nobody}
    /\ list \in Seq(Fibers)
    /\ cv \in SUBSET Threads
    /\ timed_park \in [Fibers -> BOOLEAN] /\ timed \in [Fibers -> BOOLEAN]
    /\ park_state \in [Fibers -> 0 .. 2]
    /\ result \in [Fibers -> 0 .. 1]
    /\ runnable \in [Fibers -> Nat]
    /\ pc \in [Waiters \cup Posters -> WaiterPcs \cup PosterPcs]
    /\ node \in [Posters -> Fibers \cup {NoFiber}]
    /\ all \in [Posters -> BOOLEAN]

\* nurl_fcond_init, and a program that has not started to wait or post.
Init ==
    /\ tokens = 0 /\ posts = 0
    /\ mutex = Nobody
    /\ lk = Nobody
    /\ list = <<>>
    /\ cv = {}
    /\ timed_park = [f \in Fibers |-> FALSE]
    /\ park_state = [f \in Fibers |-> 0]
    /\ timed = [f \in Fibers |-> FALSE]
    /\ result = [f \in Fibers |-> 1]
    /\ runnable = [f \in Fibers |-> 0]
    /\ pc = [a \in Waiters \cup Posters |-> "idle"]
    /\ node = [p \in Posters |-> NoFiber]
    /\ all = [p \in Posters |-> FALSE]

-----------------------------------------------------------------------------
Goto(a, l) == pc' = [pc EXCEPT ![a] = l]

\* nurl_fiber_unpark.
MakeRunnable(f) == runnable' = [runnable EXCEPT ![f] = @ + 1]

-----------------------------------------------------------------------------
(* Faulty forms, each a plausible slip in the operation it stands for.     *)

\* The deadline leaves the park for a wake to claim as well.
UnclaimedExpire(f) ==
    /\ pc[f] = "parked" /\ timed[f]
    /\ timed_park[f] /\ park_state[f] = 1
    /\ result' = [result EXCEPT ![f] = 0]
    /\ MakeRunnable(f)
    /\ UNCHANGED <<tokens, posts, mutex, lk, list, cv, timed_park, park_state, timed, pc, node, all>>

\* The mutex is released when the node is queued, before the park is registered.
EarlyFiberQueue(f) ==
    /\ pc[f] = "pred" /\ f \in Fibers
    /\ tokens = 0 /\ result[f] = 1
    /\ lk = Nobody
    /\ list' = Append(list, f)
    /\ mutex' = Nobody
    /\ Goto(f, "park")
    /\ UNCHANGED <<tokens, posts, lk, cv, parkVars, node, all>>

\* A woken waiter leaves without the spinlock: its node is off the list anyway.
HastyBack(f) ==
    /\ pc[f] = "back"
    /\ (f \in ToSet(list)) => lk = Nobody
    /\ list' = RemoveFirst(list, f)
    /\ Goto(f, "relock")
    /\ UNCHANGED <<tokens, posts, mutex, lk, cv, parkVars, node, all>>

\* The activation does not look whether a wake came first.
DeafActivate(f) ==
    /\ pc[f] = "activate"
    /\ park_state' = [park_state EXCEPT ![f] = 1]
    /\ Goto(f, "parked")
    /\ UNCHANGED <<tokens, posts, mutex, lk, list, cv, timed_park, timed, result, runnable, node, all>>

-----------------------------------------------------------------------------
(* A waiter: lock, loop on the predicate, wait, unlock.                    *)

Enter(a) ==
    /\ pc[a] = "idle" /\ a \in Waiters
    /\ mutex = Nobody
    /\ mutex' = a
    /\ Goto(a, "pred")
    /\ \/ a \in Fibers /\ result' = [result EXCEPT ![a] = 1]
                       /\ \E d \in BOOLEAN : timed' = [timed EXCEPT ![a] = d]
       \/ a \in Threads /\ UNCHANGED <<timed, result>>
    /\ UNCHANGED <<tokens, posts, lk, list, cv, timed_park, park_state, runnable, node, all>>

\* A token is there, or the wait has timed out: leave.
Done(a) ==
    /\ pc[a] = "pred"
    /\ tokens > 0 \/ (a \in Fibers /\ result[a] = 0)
    /\ tokens' = IF tokens > 0 THEN tokens - 1 ELSE 0
    /\ mutex' = Nobody
    /\ Goto(a, "idle")
    /\ UNCHANGED <<posts, lk, list, cv, parkVars, node, all>>

\* nurl_fcond_wait_ms on a thread: pthread_cond_wait.
ThreadWait(t) ==
    /\ pc[t] = "pred" /\ t \in Threads
    /\ tokens = 0
    /\ cv' = cv \cup {t}
    /\ mutex' = Nobody
    /\ Goto(t, "cvwait")
    /\ UNCHANGED <<tokens, posts, lk, list, parkVars, node, all>>

SpuriousWake(t) ==
    /\ pc[t] = "cvwait" /\ t \in cv
    /\ cv' = cv \ {t}
    /\ Goto(t, "relock")
    /\ UNCHANGED <<tokens, posts, mutex, lk, list, parkVars, node, all>>

\* nurl_fcond_wait_ms on a fiber: queue the node under the spinlock ...
FiberQueue(f) ==
    /\ pc[f] = "pred" /\ f \in Fibers
    /\ tokens = 0 /\ result[f] = 1
    /\ lk = Nobody
    /\ list' = Append(list, f)
    /\ Goto(f, "park")
    /\ UNCHANGED <<tokens, posts, mutex, lk, cv, parkVars, node, all>>

\* ... nurl_fiber_park_with_mutex_ms registers the park and switches out ...
FiberPark(f) ==
    /\ pc[f] = "park"
    /\ timed_park' = [timed_park EXCEPT ![f] = TRUE]
    /\ park_state' = [park_state EXCEPT ![f] = 0]
    /\ Goto(f, "swap")
    /\ UNCHANGED <<tokens, posts, mutex, lk, list, cv, timed, result, runnable, node, all>>

\* ... the worker loop releases the mutex ...
LoopUnlock(f) ==
    /\ pc[f] = "swap"
    /\ mutex' = Nobody
    /\ Goto(f, "activate")
    /\ UNCHANGED <<tokens, posts, lk, list, cv, parkVars, node, all>>

\* ... and activates the park: woken meanwhile, the fiber is runnable at once.
Activate(f) ==
    /\ pc[f] = "activate"
    /\ \/ /\ park_state[f] = 2
          /\ result' = [result EXCEPT ![f] = 1]
          /\ MakeRunnable(f)
          /\ UNCHANGED park_state
       \/ /\ park_state[f] # 2
          /\ park_state' = [park_state EXCEPT ![f] = 1]
          /\ UNCHANGED <<result, runnable>>
    /\ Goto(f, "parked")
    /\ UNCHANGED <<tokens, posts, mutex, lk, list, cv, timed_park, timed, node, all>>

\* nurl__np_expire_locked: the deadline claims the park.
Expire(f) ==
    /\ pc[f] = "parked" /\ timed[f]
    /\ timed_park[f] /\ park_state[f] = 1
    /\ timed_park' = [timed_park EXCEPT ![f] = FALSE]
    /\ result' = [result EXCEPT ![f] = 0]
    /\ MakeRunnable(f)
    /\ UNCHANGED <<tokens, posts, mutex, lk, list, cv, park_state, timed, pc, node, all>>

\* A worker resumes the fiber.
Resume(f) ==
    /\ pc[f] = "parked"
    /\ runnable[f] > 0
    /\ runnable' = [runnable EXCEPT ![f] = @ - 1]
    /\ Goto(f, "back")
    /\ UNCHANGED <<tokens, posts, mutex, lk, list, cv, timed_park, park_state, timed, result, node, all>>

\* Back in nurl_fcond_wait_ms: the spinlock, the node off the list if it is
\* still on, then the mutex again.
Back(f) ==
    /\ pc[f] = "back"
    /\ lk = Nobody
    /\ list' = RemoveFirst(list, f)
    /\ Goto(f, "relock")
    /\ UNCHANGED <<tokens, posts, mutex, lk, cv, parkVars, node, all>>

Relock(a) ==
    /\ pc[a] = "relock"
    /\ mutex = Nobody
    /\ mutex' = a
    /\ Goto(a, "pred")
    /\ UNCHANGED <<tokens, posts, lk, list, cv, parkVars, node, all>>

-----------------------------------------------------------------------------
(* A poster: lock, add a token, signal or broadcast, unlock.               *)

PostLock(p, b) ==
    /\ pc[p] = "idle" /\ p \in Posters
    /\ mutex = Nobody /\ posts < MaxPosts
    /\ mutex' = p
    /\ all' = [all EXCEPT ![p] = b]
    /\ Goto(p, "add")
    /\ UNCHANGED <<tokens, posts, lk, list, cv, parkVars, node>>

\* A late signaller releases the mutex first.
Post(p, late) ==
    /\ pc[p] = "add"
    /\ late => LateSignal
    /\ posts' = posts + 1
    /\ tokens' = tokens + 1
    /\ mutex' = IF late THEN Nobody ELSE mutex
    /\ Goto(p, "probe")
    /\ UNCHANGED <<lk, list, cv, parkVars, node, all>>

\* nurl__fcond_has_fibers: the list is read without its lock.
Probe(p) ==
    /\ pc[p] = "probe"
    /\ \/ /\ list = <<>>
          /\ Goto(p, "cvsignal")
          /\ UNCHANGED lk
       \/ /\ list # <<>> /\ lk = Nobody
          /\ lk' = p
          /\ Goto(p, "unlink")
    /\ UNCHANGED <<tokens, posts, mutex, list, cv, parkVars, node, all>>

\* nurl__fcond_wake_fiber: take the oldest node off; none is left.
UnlinkHead(p) ==
    /\ pc[p] = "unlink"
    /\ \/ /\ list # <<>>
          /\ node' = [node EXCEPT ![p] = Head(list)]
          /\ list' = Tail(list)
          /\ Goto(p, "wake")
          /\ UNCHANGED lk
       \/ /\ list = <<>>
          /\ lk' = Nobody
          /\ Goto(p, "cvsignal")
          /\ UNCHANGED <<list, node>>
    /\ UNCHANGED <<tokens, posts, mutex, cv, parkVars, all>>

\* nurl_fiber_wake.  Nothing to claim: go on to the next node.  Claimed: a
\* signal is done, a broadcast goes on.
WakeFiber(p) ==
    LET f == node[p] IN
    /\ pc[p] = "wake"
    /\ node' = [node EXCEPT ![p] = NoFiber]
    /\ \/ /\ ~timed_park[f]
          /\ Goto(p, "unlink")
          /\ UNCHANGED <<timed_park, park_state, result, runnable, lk>>
       \/ /\ timed_park[f]
          /\ timed_park' = [timed_park EXCEPT ![f] = FALSE]
          /\ \/ /\ park_state[f] = 0
                /\ park_state' = [park_state EXCEPT ![f] = 2]
                /\ UNCHANGED <<result, runnable>>
             \/ /\ park_state[f] # 0
                /\ result' = [result EXCEPT ![f] = 1]
                /\ MakeRunnable(f)
                /\ UNCHANGED park_state
          /\ lk' = IF all[p] THEN lk ELSE Nobody
          /\ Goto(p, IF all[p] THEN "unlink" ELSE "end")
    /\ UNCHANGED <<tokens, posts, mutex, list, cv, timed, all>>

\* pthread_cond_signal / pthread_cond_broadcast on the threads.
CvSignal(p) ==
    /\ pc[p] = "cvsignal"
    /\ \E woken \in SUBSET cv :
           /\ IF all[p] THEN woken = cv ELSE Cardinality(woken) = IF cv = {} THEN 0 ELSE 1
           /\ cv' = cv \ woken
           /\ pc' = [a \in Waiters \cup Posters |->
                        IF a \in woken THEN "relock" ELSE IF a = p THEN "end" ELSE pc[a]]
    /\ UNCHANGED <<tokens, posts, mutex, lk, list, parkVars, node, all>>

PostUnlock(p) ==
    /\ pc[p] = "end"
    /\ mutex' = IF mutex = p THEN Nobody ELSE mutex
    /\ Goto(p, "idle")
    /\ UNCHANGED <<tokens, posts, lk, list, cv, parkVars, node, all>>

-----------------------------------------------------------------------------
FiberStep(f) ==
    \/ FiberQueue(f) \/ FiberPark(f) \/ LoopUnlock(f) \/ Activate(f) \/ Expire(f)
    \/ Resume(f) \/ Back(f)

Wait(a) == Done(a) \/ Relock(a) \/ (a \in Fibers /\ FiberStep(a)) \/ (a \in Threads /\ ThreadWait(a))

PosterStep(p) ==
    \/ \E late \in BOOLEAN : Post(p, late)
    \/ Probe(p) \/ UnlinkHead(p) \/ WakeFiber(p) \/ CvSignal(p) \/ PostUnlock(p)

\* A waiter takes the mutex again, woken or back from the park.
GetsMutex(a) == Relock(a) \/ (a \in Fibers /\ Back(a))

Next ==
    \/ \E a \in Waiters : Enter(a) \/ Wait(a)
    \/ \E t \in Threads : SpuriousWake(t)
    \/ \E p \in Posters : PosterStep(p) \/ \E b \in BOOLEAN : PostLock(p, b)

Spec == Init /\ [][Next]_vars

\* Whoever is inside a call gets on; a mutex asked for again and again is got.
FairSpec ==
    /\ Spec
    /\ \A a \in Waiters : WF_vars(Wait(a)) /\ SF_vars(GetsMutex(a))
    /\ \A f \in Fibers : WF_vars(Expire(f))
    /\ \A p \in Posters : WF_vars(PosterStep(p)) /\ SF_vars(Probe(p))

-----------------------------------------------------------------------------
Asleep == {a \in Waiters : pc[a] = "cvwait" \/ (pc[a] = "parked" /\ runnable[a] = 0)}

\* Waiters that will look at the predicate again, and signals still to come.
Coming == {a \in Waiters :
               \/ pc[a] \in {"pred", "back", "relock"}
               \/ pc[a] = "parked" /\ runnable[a] > 0
               \/ pc[a] \in {"swap", "activate"} /\ park_state[a] = 2}
Signalling == {p \in Posters : pc[p] \in {"probe", "unlink", "wake", "cvsignal"}}

\* No lost wakeup: while a waiter sleeps, there are no more tokens than waiters
\* on their way to look and signals still on theirs, with fibers and threads
\* mixed, wakes racing deadlines, and woken waiters overtaken by newcomers.
NoTokenStranded ==
    Asleep # {} => tokens <= Cardinality(Coming) + Cardinality(Signalling)

\* A parked fiber is made runnable exactly once, by the wake, by the deadline
\* or by its activation: "a plain unpark racing a timer would run it twice".
RunnableOnce == \A f \in Fibers : runnable[f] <= (IF pc[f] = "parked" THEN 1 ELSE 0)

\* A node a waker can reach is a waiter's that has not left the wait: the node
\* lives on that fiber's stack (runtime_ffi.c:5630).
NodeAlive ==
    \A f \in Fibers : (f \in ToSet(list) \/ \E p \in Posters : node[p] = f) =>
        pc[f] \in {"park", "swap", "activate", "parked", "back"}

\* A fiber that is parked and still to be claimed can be found by a waker: its
\* node is on the list or in a waker's hand.  A wake that took the node before
\* the park was registered would leave the fiber where no signal reaches it:
\* "a wake that comes before the park completes is not lost".
ParkedReachable ==
    \A f \in Fibers : (pc[f] = "parked" /\ timed_park[f]) =>
        f \in ToSet(list) \/ \E p \in Posters : node[p] = f

\* A wait with a deadline: it ends, whoever claims the park.
TimedWait(f) == timed[f] /\ pc[f] = "parked"
TimedWaitOver(f) == pc[f] = "idle" \/ ~timed[f]
=============================================================================
