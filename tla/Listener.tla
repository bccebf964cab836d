------------------------------ MODULE Listener ------------------------------
(***************************************************************************)
(* stdlib/runtime_ffi.c section 18, listeners: accepts on threads and on   *)
(* fibers (stdlib/std/net.nu tcp_accept_async), and the stop that closes   *)
(* the descriptor under them.  Accepts count themselves in `accepting`     *)
(* before they read the descriptor; a stop raises the wake signal, waits   *)
(* for the count to reach zero and only then closes.                       *)
(***************************************************************************)
EXTENDS Integers, FiniteSets

CONSTANTS
    Acceptors,    \* threads or fibers that accept
    Stoppers,     \* threads that stop or close the listener
    Fds,          \* descriptor numbers
    MaxConns,     \* bound: connections that arrive
    FiberReuse    \* whether a number is reused while a fiber accepts

VARIABLES
    owner,     \* owner[fd]: "none", "listener" or "other"
    lst,       \* the NurlTcp of the listener
    acc,       \* acc[a]: where an acceptor is
    stop,      \* stop[s]: where a stop is
    conns,     \* connections in the accept queue
    arrived,   \* connections that ever arrived
    badFd,     \* an accept used a descriptor that was not the listener's
    badMem     \* the struct was used after it was freed

vars == <<owner, lst, acc, stop, conns, arrived, badFd, badMem>>

NoNumber == 0
Resting == [at |-> "rest", fd |-> NoNumber]

\* nurl_tcp_listen_opts done: a descriptor, and a wake signal unless it
\* could not be opened.
Init ==
    /\ \E fd \in Fds, fiber \in BOOLEAN, wake \in {"none", "quiet"} :
         /\ \A f \in Fds : fd <= f
         /\ owner = [f \in Fds |-> IF f = fd THEN "listener" ELSE "none"]
         /\ lst = [fd |-> fd, shutting |-> FALSE, wake |-> wake, accepting |-> 0,
                   refs |-> IF fiber THEN 1 + Cardinality(Acceptors) ELSE 1,
                   freed |-> FALSE, nonblock |-> fiber]
    /\ acc = [a \in Acceptors |-> Resting]
    /\ stop = [s \in Stoppers |-> "rest"]
    /\ conns = 0 /\ arrived = 0 /\ badFd = FALSE /\ badMem = FALSE

Touch == badMem' = (badMem \/ lst.freed)
At(a, here, there) == acc[a].at = here /\ acc' = [acc EXCEPT ![a].at = there]

-----------------------------------------------------------------------------
(* nurl_tcp_accept.                                                        *)

\* tcp_accept_async reads the descriptor once, before its loop.
Call(a) ==
    /\ acc[a].at = "rest" /\ ~lst.freed /\ ~lst.shutting
    /\ acc' = [acc EXCEPT ![a] = [at |-> "enter", fd |-> lst.fd]]
    /\ Touch /\ UNCHANGED <<owner, lst, stop, conns, arrived, badFd>>

Enter(a) ==
    /\ At(a, "enter", "test") /\ lst' = [lst EXCEPT !.accepting = @ + 1]
    /\ Touch /\ UNCHANGED <<owner, stop, conns, arrived, badFd>>

\* The descriptor read before the flag is looked at.
LateTest(a) ==
    /\ acc[a].at = "test"
    /\ acc' = [acc EXCEPT ![a].at = "accept"]
    /\ Touch /\ UNCHANGED <<owner, lst, stop, conns, arrived, badFd>>
\* Counted in: stopped already, or on to nurl__tcp_accept_on.
Test(a) ==
    /\ acc[a].at = "test"
    /\ acc' = [acc EXCEPT ![a].at =
         IF lst.shutting \/ lst.fd = NoNumber THEN "leave"
         ELSE IF lst.nonblock \/ lst.wake = "none" THEN "accept" ELSE "poll"]
    /\ Touch /\ UNCHANGED <<owner, lst, stop, conns, arrived, badFd>>

\* poll {fd, wake_rfd}: shutdown wins.
Poll(a) ==
    /\ acc[a].at = "poll" /\ (conns > 0 \/ lst.wake = "raised" \/ lst.shutting)
    /\ badFd' = (badFd \/ owner[lst.fd] # "listener")
    /\ acc' = [acc EXCEPT ![a].at = IF lst.shutting \/ lst.wake = "raised" THEN "leave" ELSE "accept"]
    /\ Touch /\ UNCHANGED <<owner, lst, stop, conns, arrived>>

\* accept(2) on whatever the handle's descriptor is now: a connection, none
\* after all, or no descriptor left for it.  A listener without a wake
\* signal blocks here.
Accept(a) ==
    /\ acc[a].at = "accept"
    /\ badFd' = (badFd \/ (lst.wake # "none" /\ (lst.fd = NoNumber \/ owner[lst.fd] # "listener")))
    /\ \/ conns > 0 /\ lst.fd # NoNumber /\ conns' = conns - 1 /\ acc' = [acc EXCEPT ![a].at = "leave"]
       \/ /\ conns > 0 /\ lst.fd # NoNumber /\ UNCHANGED conns
          /\ acc' = [acc EXCEPT ![a].at = "reclaim"]
       \/ /\ conns = 0 /\ (lst.wake # "none" \/ lst.nonblock) /\ UNCHANGED conns
          /\ acc' = [acc EXCEPT ![a].at = IF lst.nonblock THEN "again" ELSE "test"]
       \/ lst.fd = NoNumber /\ UNCHANGED conns /\ acc' = [acc EXCEPT ![a].at = "leave"]
    /\ Touch /\ UNCHANGED <<owner, lst, stop, arrived>>

\* A collection run while the accept still counts.
CountedStepOut(a) ==
    /\ At(a, "reclaim", "collect") /\ Touch
    /\ UNCHANGED <<owner, lst, stop, conns, arrived, badFd>>
\* nurl__accept_reclaim steps out of the count for the collection ...
StepOut(a) ==
    /\ At(a, "reclaim", "collect") /\ lst' = [lst EXCEPT !.accepting = @ - 1]
    /\ Touch /\ UNCHANGED <<owner, stop, conns, arrived, badFd>>
\* ... in which a destructor may stop this very listener ...
Destructor(a) ==
    /\ At(a, "collect", "raise") /\ ~lst.shutting /\ lst' = [lst EXCEPT !.shutting = TRUE]
    /\ Touch /\ UNCHANGED <<owner, stop, conns, arrived, badFd>>
\* ... and back in, to try again only on a running listener.
StepIn(a) ==
    /\ acc[a].at = "collect"
    /\ lst' = [lst EXCEPT !.accepting = @ + 1]
    /\ \E reclaimed \in BOOLEAN :
         acc' = [acc EXCEPT ![a].at = IF reclaimed /\ ~lst.shutting THEN "accept" ELSE "leave"]
    /\ Touch /\ UNCHANGED <<owner, stop, conns, arrived, badFd>>

Leave(a) ==
    /\ acc[a].at \in {"leave", "again"}
    /\ lst' = [lst EXCEPT !.accepting = @ - 1]
    /\ acc' = [acc EXCEPT ![a].at = IF @ = "again" THEN "wait" ELSE "done"]
    /\ Touch /\ UNCHANGED <<owner, stop, conns, arrived, badFd>>

\* nurl_reactor_wait_accept on the descriptor read before the loop: a number
\* that is closed fails at once, and the accept is tried again.
Wait(a) ==
    /\ acc[a].at = "wait"
    /\ acc' = [acc EXCEPT ![a].at = IF owner[acc[a].fd] = "none" THEN "enter" ELSE "parked"]
    /\ UNCHANGED <<owner, lst, stop, conns, arrived, badFd, badMem>>

\* The descriptor turned readable, be it the listener's or another's by now.
Ready(a) ==
    /\ acc[a].at = "parked" /\ (owner[acc[a].fd] = "listener" => conns > 0)
    /\ acc' = [acc EXCEPT ![a].at = "enter"]
    /\ UNCHANGED <<owner, lst, stop, conns, arrived, badFd, badMem>>

\* A thread calls again until the listener is stopped; a fiber lets its
\* reference go then.
Return(a) ==
    /\ acc[a].at = "done"
    /\ IF lst.shutting
       THEN /\ acc' = [acc EXCEPT ![a].at = "ended"]
            /\ lst' = IF lst.nonblock THEN [lst EXCEPT !.refs = @ - 1, !.freed = (lst.refs = 1)] ELSE lst
       ELSE acc' = [acc EXCEPT ![a] = Resting] /\ UNCHANGED lst
    /\ UNCHANGED <<owner, stop, conns, arrived, badFd, badMem>>

\* An acceptor that never called meets a stopped listener.
Skip(a) ==
    /\ acc[a].at = "rest" /\ lst.shutting
    /\ acc' = [acc EXCEPT ![a].at = "done"]
    /\ UNCHANGED <<owner, lst, stop, conns, arrived, badFd, badMem>>

\* nurl_tcp_listener_pending: counted in like an accept, polls the
\* descriptor alone, for a bounded time.
Pending(a) ==
    \/ acc[a].at = "rest" /\ ~lst.shutting /\ ~lst.freed
       /\ lst' = [lst EXCEPT !.accepting = @ + 1] /\ acc' = [acc EXCEPT ![a].at = "peek"]
       /\ Touch /\ UNCHANGED <<owner, stop, conns, arrived, badFd>>
    \/ acc[a].at = "peek"
       /\ acc' = [acc EXCEPT ![a].at = IF lst.shutting \/ lst.fd = NoNumber THEN "leave" ELSE "peeking"]
       /\ Touch /\ UNCHANGED <<owner, lst, stop, conns, arrived, badFd>>
    \/ acc[a].at = "peeking"
       /\ acc' = [acc EXCEPT ![a].at = "leave"]
       /\ badFd' = (badFd \/ (lst.wake # "none" /\ (lst.fd = NoNumber \/ owner[lst.fd] # "listener")))
       /\ Touch /\ UNCHANGED <<owner, lst, stop, conns, arrived>>

-----------------------------------------------------------------------------
(* nurl__tcp_listener_stop, by nurl_tcp_shutdown or nurl_tcp_close.        *)

Shut(s) ==
    /\ stop[s] = "rest" /\ (\A t \in Stoppers : stop[t] # "closed")
    /\ stop' = [stop EXCEPT ![s] = "raise"]
    /\ lst' = [lst EXCEPT !.shutting = TRUE]
    /\ Touch /\ UNCHANGED <<owner, acc, conns, arrived, badFd>>

Raised == [lst EXCEPT !.wake = IF @ = "none" THEN "none" ELSE "raised"]

\* A stop that closes as soon as it has raised the signal.
NoWait == TRUE
\* The spin until no accept is in progress; without a signal, at once.
NoneAccepting == lst.wake = "none" \/ lst.accepting = 0

\* np_close: the number is free again and its waiters wake.
ClosedAcc == [a \in Acceptors |-> IF acc[a].at = "parked" /\ acc[a].fd = lst.fd
                                  THEN [acc[a] EXCEPT !.at = "enter"] ELSE acc[a]]
CloseFd == IF lst.fd = NoNumber THEN owner ELSE [owner EXCEPT ![lst.fd] = "none"]

Raise(s) ==
    /\ stop[s] = "raise" /\ stop' = [stop EXCEPT ![s] = "spin"] /\ lst' = Raised
    /\ Touch /\ UNCHANGED <<owner, acc, conns, arrived, badFd>>

Close(s) ==
    /\ stop[s] = "spin" /\ NoneAccepting
    /\ stop' = [stop EXCEPT ![s] = "stopped"]
    /\ owner' = CloseFd /\ acc' = ClosedAcc /\ lst' = [lst EXCEPT !.fd = NoNumber]
    /\ Touch /\ UNCHANGED <<conns, arrived, badFd>>

\* A close that frees whoever else holds a reference.
FreeingUnref(s) ==
    /\ stop[s] = "stopped" /\ lst.fd = NoNumber /\ ~lst.freed
    /\ lst.nonblock \/ \A a \in Acceptors : acc[a].at = "ended"
    /\ stop' = [stop EXCEPT ![s] = "closed"] /\ lst' = [lst EXCEPT !.freed = TRUE]
    /\ Touch /\ UNCHANGED <<owner, acc, conns, arrived, badFd>>
\* The owner's nurl_tcp_close lets its reference go: on threads once the
\* acceptors have ended, on fibers, which hold their own, at any time.
Unref(s) ==
    /\ stop[s] = "stopped" /\ lst.fd = NoNumber /\ lst.refs > 0
    /\ \A t \in Stoppers : stop[t] \in {"rest", "stopped", "closed"}
    /\ \A t \in Stoppers : stop[t] # "closed"
    /\ lst.nonblock \/ \A a \in Acceptors : acc[a].at = "ended"
    /\ stop' = [stop EXCEPT ![s] = "closed"]
    /\ lst' = [lst EXCEPT !.refs = @ - 1, !.freed = (lst.refs = 1)]
    /\ Touch /\ UNCHANGED <<owner, acc, conns, arrived, badFd>>

\* The stop a destructor runs inside an accept's collection.
DestructorRaise(a) ==
    /\ At(a, "raise", "spin") /\ lst' = Raised
    /\ Touch /\ UNCHANGED <<owner, stop, conns, arrived, badFd>>
DestructorClose(a) ==
    /\ acc[a].at = "spin" /\ NoneAccepting
    /\ owner' = CloseFd /\ lst' = [lst EXCEPT !.fd = NoNumber]
    /\ acc' = [ClosedAcc EXCEPT ![a].at = "collect"]
    /\ Touch /\ UNCHANGED <<stop, conns, arrived, badFd>>

-----------------------------------------------------------------------------
Arrive ==
    /\ arrived < MaxConns /\ lst.fd # NoNumber
    /\ arrived' = arrived + 1 /\ conns' = conns + 1
    /\ UNCHANGED <<owner, lst, acc, stop, badFd, badMem>>

\* Another part of the program opens a socket: the lowest free number.
OpenOther ==
    /\ FiberReuse \/ ~lst.nonblock
    /\ \E f \in Fds : /\ owner[f] = "none" /\ \A g \in Fds : g < f => owner[g] # "none"
                      /\ owner' = [owner EXCEPT ![f] = "other"]
    /\ UNCHANGED <<lst, acc, stop, conns, arrived, badFd, badMem>>

\* Parked on the listener's own descriptor.
Parked(a) == acc[a].at = "parked" /\ owner[acc[a].fd] = "listener"
\* The steps an acceptor takes by itself, or for a connection of its own.
Proceeds(a) == \/ Enter(a) \/ Test(a) \/ Poll(a) \/ Accept(a) \/ StepOut(a) \/ StepIn(a) \/ Leave(a)
               \/ Wait(a) \/ (Parked(a) /\ Ready(a)) \/ Return(a) \/ Skip(a) \/ DestructorRaise(a) \/ DestructorClose(a)
               \/ (acc[a].at # "rest" /\ Pending(a))
Stops(s) == Raise(s) \/ Close(s)

Next ==
    \/ \E a \in Acceptors : Call(a) \/ Pending(a) \/ Proceeds(a) \/ Destructor(a)
                          \/ Ready(a)
    \/ \E s \in Stoppers : Shut(s) \/ Stops(s) \/ Unref(s)
    \/ Arrive \/ OpenOther

\* Every thread is scheduled, the fibers' workers too.
Fairness ==
    /\ \A a \in Acceptors : WF_vars(Proceeds(a))
    /\ \A s \in Stoppers : WF_vars(Stops(s))

Spec == Init /\ [][Next]_vars /\ Fairness

-----------------------------------------------------------------------------
\* No accept uses a descriptor that was closed under it, or that another
\* socket has since been given.
OwnFdOnly == ~badFd

\* Nothing reads the struct of a listener after its last reference went.
NotFreedInUse == ~badMem

\* A stop under way: it ends, as whoever accepts, or waits in a collection
\* that stops the listener itself, leaves.
Stopping(s) == stop[s] \in {"raise", "spin"}

\* The listener is stopped: every accept in progress returns (with a wake
\* signal: without one a thread blocks until a connection comes).
Stopped == lst.shutting /\ lst.wake # "none"
Left(a) == acc[a].at = "ended"
\* As a property of the listener alone.
AcceptsEnd == \A a \in Acceptors : Stopped ~> Left(a)
=============================================================================
