----------------------------- MODULE PollReactor ----------------------------
(***************************************************************************)
(* stdlib/runtime_ffi.c, the portable poll(2) reactor of the builds that   *)
(* have no netpoller: a thread that polls the descriptors of the parked    *)
(* fibers and the deadlines of the timed ones, a wake pipe that restarts   *)
(* its poll, and wait entries recycled through a free list.                *)
(*                                                                         *)
(* A wait entry is inactive until the worker has switched away from its    *)
(* fiber; a timed mutex park may be claimed by nurl_fiber_wake before that *)
(* (park_state 2).  The reactor's round is cut where it takes or drops its *)
(* lock.  One direction per descriptor: the read and write waits run the   *)
(* same code with a mask.                                                  *)
(***************************************************************************)
EXTENDS Integers, Sequences, FiniteSets, SequencesExt, FiniteSetsExt

CONSTANTS
    Fibers, Fds,
    Programs,     \* what the fibers of one run do: sets of "fd", "sleep" and "mutex"
    Timeouts,     \* the timeouts asked for, None for a wait without one
    Entries,      \* wait entries calloc can make: 1..n
    MaxClock,     \* bound: the clock
    MaxParks,     \* bound: parks
    None

VARIABLES
    prog,             \* the program of this run
    clock, ready,     \* the ready descriptors
    fib,              \* per fiber [pc, e, kind, fd, due, seen, result]
    timed,            \* fiber -> its timed_park entry or None
    ent,              \* the wait entries
    waits, freelist,  \* sequences of entries
    pipe,             \* a byte is in the wake pipe
    pokes,            \* workers that have activated an entry and not yet poked
    waker,            \* the fiber a nurl_fiber_wake has claimed and not yet unparked
    rpc,              \* the reactor: "build", "poll", "drain", "walk", "unpark", "ended"
    batch,            \* the poll set's entries, in order
    till,             \* when its poll times out, -1 for never
    got,              \* [fds, pipe]: the places of the poll set with an event
    todo, recycle,    \* to_unpark and recycle
    stop,             \* shutdown
    misfired,         \* a fiber was unparked that was not parked
    parks

rvars == <<rpc, batch, till, got, todo, recycle>>
vars == <<prog, clock, ready, fib, timed, ent, waits, freelist, pipe, pokes, waker,
          rvars, stop, misfired, parks>>

Running == [pc |-> "run", e |-> None, kind |-> None, fd |-> None, due |-> -1, seen |-> FALSE, result |-> -1]
Blank == [fd |-> None, due |-> -1, fiber |-> None, active |-> FALSE, mutex |-> FALSE, ps |-> 0, pidx |-> 0]

\* An entry nobody waits with keeps its index in the poll set; the rest of it is
\* written by the next Register.
Released(en) == [Blank EXCEPT !.pidx = en.pidx]

\* nurl__reactor_init_once.
Init ==
    /\ prog \in Programs
    /\ clock = 0 /\ ready = {}
    /\ fib = [f \in Fibers |-> Running] /\ timed = [f \in Fibers |-> None]
    /\ ent = [e \in Entries |-> Blank] /\ waits = <<>> /\ freelist = <<>>
    /\ pipe = FALSE /\ pokes = 0 /\ waker = None
    /\ rpc = "build" /\ batch = <<>> /\ till = -1 /\ got = [fds |-> {}, pipe |-> FALSE]
    /\ todo = <<>> /\ recycle = <<>>
    /\ stop = FALSE /\ misfired = FALSE /\ parks = 0

\* What of a list is in S, in the list's order.
Only(s, S) ==
    LET kept[i \in 0 .. Len(s)] == IF i = 0 THEN <<>>
                                   ELSE IF s[i] \in S THEN Append(kept[i - 1], s[i])
                                   ELSE kept[i - 1]
    IN  kept[Len(s)]

InUse == Range(waits) \union Range(freelist) \union {todo[i][1] : i \in DOMAIN todo} \union Range(recycle)
         \union {fib[f].e : f \in Fibers}
----------------------------------------------------------------------------
\* The fiber's side.

\* nurl__reactor_wait_k (fd wait or sleep) and nurl_fiber_park_with_mutex_ms: an
\* entry of the free list or a new one, put at the head of the list, inactive.
Register(f, kind, fd, t) ==
    LET e == IF freelist # <<>> THEN Head(freelist) ELSE Min(Entries \ InUse)
        due == IF t = None THEN -1 ELSE clock + t IN
    /\ ~stop /\ kind \in prog /\ parks < MaxParks /\ fib[f].pc = "run"
    /\ (freelist = <<>>) => (Entries \ InUse # {})
    /\ freelist' = IF freelist # <<>> THEN Tail(freelist) ELSE freelist
    /\ ent' = [ent EXCEPT ![e] = [fd |-> fd, due |-> due, fiber |-> f, active |-> FALSE,
                                  mutex |-> (kind = "mutex"), ps |-> 0, pidx |-> @.pidx]]
    /\ waits' = <<e>> \o waits
    /\ timed' = [timed EXCEPT ![f] = IF kind = "mutex" THEN e ELSE @]
    /\ fib' = [fib EXCEPT ![f] = [pc |-> "reg", e |-> e, kind |-> kind, fd |-> fd, due |-> due,
                                  seen |-> fd \in ready, result |-> -1]]
    /\ parks' = parks + 1
    /\ UNCHANGED <<prog, clock, ready, pipe, pokes, waker, rvars, stop, misfired>>

WaitFd(f) == \E fd \in Fds, t \in Timeouts : Register(f, "fd", fd, t)
SleepMs(f) == \E t \in Timeouts \ {None} : Register(f, "sleep", None, t)
ParkMutex(f) == \E t \in Timeouts : Register(f, "mutex", None, t)

\* nurl_fiber_unpark of f, with the result written first.
Unparked(f, r) ==
    /\ fib' = [fib EXCEPT ![f] = [@ EXCEPT !.pc = "runnable", !.result = r, !.e = None]]
    /\ misfired' = (misfired \/ fib[f].pc # "parked")

\* The entry is active and the sleeping reactor is not told.
MuteActive(e) ==
    /\ ent' = [ent EXCEPT ![e].active = TRUE, ![e].ps = 1]
    /\ UNCHANGED <<pokes, pipe>>
\* The lock's section of nurl__reactor_activate; the poke follows.
Active(e) ==
    /\ ent' = [ent EXCEPT ![e].active = TRUE, ![e].ps = 1]
    /\ pokes' = pokes + 1 /\ UNCHANGED pipe

\* nurl__reactor_activate, by the worker once the fiber is switched out.  A park
\* woken in the meantime is taken back out and its fiber unparked.
Activate(f) ==
    LET e == fib[f].e IN
    /\ fib[f].pc = "reg"
    /\ IF ent[e].mutex /\ ent[e].ps = 2
       THEN /\ waits' = Only(waits, Entries \ {e})
            /\ freelist' = <<e>> \o freelist
            /\ ent' = [ent EXCEPT ![e] = Released(@)]
            /\ fib' = [fib EXCEPT ![f] = [@ EXCEPT !.pc = "runnable", !.result = 1, !.e = None]]
            /\ UNCHANGED <<pokes, pipe>>
       ELSE /\ Active(e)
            /\ fib' = [fib EXCEPT ![f].pc = "parked"]
            /\ UNCHANGED <<waits, freelist>>
    /\ UNCHANGED <<prog, clock, ready, timed, waker, rvars, stop, misfired, parks>>

\* nurl__reactor_wake; pokes coalesce.
Poke ==
    /\ pokes > 0
    /\ pokes' = pokes - 1 /\ pipe' = TRUE
    /\ UNCHANGED <<prog, clock, ready, fib, timed, ent, waits, freelist, waker, rvars, stop, misfired, parks>>

\* The fiber runs again, and its read may empty the descriptor.
Resume(f) ==
    /\ fib[f].pc = "runnable"
    /\ fib' = [fib EXCEPT ![f] = Running]
    /\ \/ UNCHANGED ready
       \/ fib[f].kind = "fd" /\ ready' = ready \ {fib[f].fd}
    /\ UNCHANGED <<prog, clock, timed, ent, waits, freelist, pipe, pokes, waker, rvars, stop, misfired, parks>>
----------------------------------------------------------------------------
\* Another thread.

\* nurl_fiber_wake up to its unlock.
Wake(f) ==
    LET e == timed[f] IN
    /\ waker = None /\ e # None
    /\ timed' = [timed EXCEPT ![f] = None]
    /\ IF ent[e].ps = 0
       THEN /\ ent' = [ent EXCEPT ![e].ps = 2]
            /\ UNCHANGED <<waits, freelist, waker>>
       ELSE /\ waits' = Only(waits, Entries \ {e})
            /\ freelist' = <<e>> \o freelist
            /\ ent' = [ent EXCEPT ![e] = Released(@)]
            /\ waker' = f
    /\ UNCHANGED <<prog, clock, ready, fib, pipe, pokes, rvars, stop, misfired, parks>>

WakeEnds ==
    /\ waker # None
    /\ Unparked(waker, 1) /\ waker' = None
    /\ UNCHANGED <<prog, clock, ready, timed, ent, waits, freelist, pipe, pokes, rvars, stop, parks>>

\* Data arrives, and time passes.
Arrive(fd) ==
    /\ fd \notin ready
    /\ ready' = ready \union {fd}
    /\ fib' = [f \in Fibers |-> IF fib[f].fd = fd THEN [fib[f] EXCEPT !.seen = TRUE] ELSE fib[f]]
    /\ UNCHANGED <<prog, clock, timed, ent, waits, freelist, pipe, pokes, waker, rvars, stop, misfired, parks>>

Tick ==
    /\ clock < MaxClock /\ clock' = clock + 1
    /\ UNCHANGED <<prog, ready, fib, timed, ent, waits, freelist, pipe, pokes, waker, rvars, stop, misfired, parks>>

\* The flag is set and the thread joined, without a poke.
MuteStop == stop' = TRUE /\ UNCHANGED pipe
StopReactor == stop' = TRUE /\ pipe' = TRUE
\* nurl__reactor_shutdown up to its join, when no fiber is left waiting.
Shutdown ==
    /\ ~stop /\ \A f \in Fibers : fib[f].pc = "run"
    /\ StopReactor
    /\ UNCHANGED <<prog, clock, ready, fib, timed, ent, waits, freelist, pokes, waker, rvars, misfired, parks>>
----------------------------------------------------------------------------
\* The reactor thread: one round of nurl__reactor_loop.

Actives == Only(waits, {e \in Entries : ent[e].active})

\* The poll set and its timeout, under the lock.
Build ==
    LET fds == Only(Actives, {e \in Entries : ent[e].fd # None})
        dues == {ent[e].due : e \in Range(Actives)} \ {-1} IN
    /\ rpc = "build"
    /\ IF stop THEN /\ rpc' = "ended" /\ batch' = <<>> /\ till' = -1
                    /\ UNCHANGED ent
       ELSE /\ rpc' = "poll" /\ batch' = fds
            /\ till' = IF dues = {} THEN -1 ELSE Max({Min(dues), clock})
            /\ ent' = [e \in Entries |-> IF Contains(fds, e)
                                         THEN [ent[e] EXCEPT !.pidx = CHOOSE i \in DOMAIN fds : fds[i] = e]
                                         ELSE ent[e]]
    /\ UNCHANGED <<prog, clock, ready, fib, timed, waits, freelist, pipe, pokes, waker, got, todo, recycle,
                   stop, misfired, parks>>

ReadyPlaces == {i \in DOMAIN batch : ent[batch[i]].fd \in ready}

\* poll returns: an event, or its timeout.
PollReturns ==
    /\ rpc = "poll" /\ (ReadyPlaces # {} \/ pipe \/ (till >= 0 /\ clock >= till))
    /\ got' = [fds |-> ReadyPlaces, pipe |-> pipe] /\ rpc' = "drain"
    /\ UNCHANGED <<prog, clock, ready, fib, timed, ent, waits, freelist, pipe, pokes, waker, batch, till,
                   todo, recycle, stop, misfired, parks>>

\* EINTR starts the round again; a failure of the call as a whole asks each
\* descriptor on its own, and not the pipe.
PollFails ==
    /\ rpc = "poll"
    /\ \/ got' = [fds |-> ReadyPlaces, pipe |-> FALSE] /\ rpc' = "drain"
       \/ UNCHANGED got /\ rpc' = "build"
    /\ UNCHANGED <<prog, clock, ready, fib, timed, ent, waits, freelist, pipe, pokes, waker, batch, till,
                   todo, recycle, stop, misfired, parks>>

\* nurl__signal_drain.
Drain ==
    /\ rpc = "drain" /\ rpc' = "walk"
    /\ pipe' = (pipe /\ ~got.pipe)
    /\ UNCHANGED <<prog, clock, ready, fib, timed, ent, waits, freelist, pokes, waker, batch, till, got,
                   todo, recycle, stop, misfired, parks>>

\* The entry's index is trusted without asking whose place it is.
PlaceHit(e) == ent[e].pidx \in got.fds
\* The entry's own place in the poll set had an event.
Hit(e) == ent[e].pidx \in got.fds /\ batch[ent[e].pidx] = e
Expired(e) == ent[e].due >= 0 /\ clock >= ent[e].due

\* The deadline wakes the fiber and leaves its timed_park.
UnclaimedTimed(woken) == timed
\* The deadline claims a timed mutex park.
ClaimedTimed(woken) ==
    [f \in Fibers |-> IF \E e \in woken : ent[e].mutex /\ ent[e].fiber = f /\ ~Hit(e)
                      THEN None ELSE timed[f]]

\* The walk over the list, under the lock; the result is put on the queue with
\* the entry.
Walk ==
    LET act == Range(Actives)
        woken == {e \in act : Hit(e) \/ Expired(e)}
        out == Only(waits, woken) IN
    /\ rpc = "walk" /\ rpc' = "unpark"
    /\ waits' = Only(waits, Entries \ woken)
    /\ timed' = ClaimedTimed(woken)
    /\ todo' = Reverse([i \in DOMAIN out |-> <<out[i], IF Hit(out[i]) THEN 1 ELSE 0>>])
    /\ UNCHANGED <<prog, clock, ready, fib, ent, freelist, pipe, pokes, waker, batch, till, got, recycle,
                   stop, misfired, parks>>

\* One unpark, outside the lock.
UnparkOne ==
    LET e == todo[1][1]
        f == ent[e].fiber IN
    /\ rpc = "unpark" /\ todo # <<>>
    /\ todo' = Tail(todo) /\ recycle' = <<e>> \o recycle
    /\ ent' = [ent EXCEPT ![e] = Released(@)]
    /\ IF f # None THEN Unparked(f, todo[1][2]) ELSE UNCHANGED <<fib, misfired>>
    /\ UNCHANGED <<prog, clock, ready, timed, waits, freelist, pipe, pokes, waker, rpc, batch, till, got,
                   stop, parks>>

\* The batch of entries goes to the free list, under the lock.
Recycle ==
    /\ rpc = "unpark" /\ todo = <<>>
    /\ rpc' = "build"
    /\ freelist' = recycle \o freelist /\ recycle' = <<>>
    /\ batch' = <<>> /\ till' = -1 /\ got' = [fds |-> {}, pipe |-> FALSE]
    /\ UNCHANGED <<prog, clock, ready, fib, timed, ent, waits, pipe, pokes, waker, todo, stop, misfired, parks>>

Reactor == Build \/ PollReturns \/ PollFails \/ Drain \/ Walk \/ UnparkOne \/ Recycle
----------------------------------------------------------------------------
Next ==
    \/ \E f \in Fibers : WaitFd(f) \/ SleepMs(f) \/ ParkMutex(f) \/ Activate(f) \/ Resume(f) \/ Wake(f)
    \/ Poke \/ WakeEnds
    \/ \E fd \in Fds : Arrive(fd)
    \/ Tick \/ Shutdown
    \/ Reactor

\* The reactor's thread, the workers and the clock all move, and EINTR and
\* failures of poll(2) do not go on for ever.
Fairness ==
    /\ WF_vars(Build \/ Drain \/ Walk \/ UnparkOne \/ Recycle) /\ SF_vars(PollReturns)
    /\ WF_vars(Tick) /\ WF_vars(Poke) /\ WF_vars(WakeEnds)
    /\ \A f \in Fibers : WF_vars(Activate(f)) /\ WF_vars(Resume(f))
Spec == Init /\ [][Next]_vars /\ Fairness
----------------------------------------------------------------------------
TypeOK ==
    /\ clock \in 0..MaxClock /\ ready \subseteq Fds /\ parks \in 0..MaxParks
    /\ \A f \in Fibers : /\ fib[f].pc \in {"run", "reg", "parked", "runnable"}
                         /\ timed[f] \in Entries \union {None}
    /\ Range(waits) \union Range(freelist) \union Range(batch) \subseteq Entries
    /\ rpc \in {"build", "poll", "drain", "walk", "unpark", "ended"}
    /\ pokes \in 0..MaxParks /\ waker \in Fibers \union {None}

\* Every park is ended by exactly one of its wakers, after the switch away from
\* the fiber: the poll round, the deadline and nurl_fiber_wake never unpark a
\* fiber that is running, runnable or not yet switched out.
WokenOnce == ~misfired

\* A wait says ready only when its descriptor was ready during the wait, and
\* timed out only once its deadline has passed, even though entries are
\* recycled with the index they had in an earlier round's poll set.
ResultIsTrue ==
    \A f \in Fibers : fib[f].pc = "runnable" =>
        /\ (fib[f].result = 1 /\ fib[f].kind = "fd") => fib[f].seen
        /\ fib[f].result = 0 => (fib[f].due >= 0 /\ clock >= fib[f].due)

\* An entry is in one list, and an entry on the free list belongs to no fiber.
EntryOnce ==
    LET all == waits \o freelist \o recycle \o [i \in DOMAIN todo |-> todo[i][1]] IN
    /\ Cardinality(Range(all)) = Len(all)
    /\ \A f \in Fibers : timed[f] # None => ~Contains(freelist, timed[f])
    /\ \A f \in Fibers : fib[f].pc \in {"reg", "parked"} /\ waker # f => ~Contains(freelist, fib[f].e)

\* While the reactor sleeps in poll, an active entry that the poll does not
\* cover has its poke in the pipe or on the way.
ActiveIsCovered ==
    (rpc = "poll" /\ ~pipe /\ pokes = 0) =>
        \A e \in Range(Actives) : /\ ent[e].fd # None => Contains(batch, e)
                                  /\ ent[e].due >= 0 => till >= 0 /\ till <= Max({ent[e].due, clock})

\* A fiber whose descriptor stays ready, or whose deadline passes: it is woken.
Owed(f) == fib[f].pc = "parked" /\ (fib[f].fd \in ready \/ (fib[f].due >= 0 /\ fib[f].due <= MaxClock))
\* nurl__reactor_shutdown's join: it returns.
Joining == stop /\ rpc # "ended"
=============================================================================
