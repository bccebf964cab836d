------------------------------- MODULE Channel -------------------------------
(***************************************************************************)
(* stdlib/std/channel.nu: channels shared by fibers and OS threads, and    *)
(* the select construct the compiler lowers onto them (gen_select in       *)
(* compiler/nurlc.nu).                                                     *)
(*                                                                         *)
(* Everything a channel holds changes under its own mutex, so one action   *)
(* is one critical section.  A fiber parks with the mutex handed to the    *)
(* worker loop (module FiberLife), so registering and sleeping are one     *)
(* step for a waker; so are they for a thread in cond_wait.  A select is   *)
(* many critical sections, and those stay apart.                           *)
(***************************************************************************)
EXTENDS Naturals, Sequences, FiniteSets, SequencesExt

CONSTANTS
    Chans,
    Fibers,      \* actors that receive from fibers
    Threads,     \* actors that receive from OS threads
    Selectors,   \* those of them that run selects
    Cases,       \* a select's channels, in source order
    NoChan,
    MaxSends     \* bound: items sent in a run

Actors == Fibers \cup Threads

ASSUME ChannelAssumption ==
    /\ Fibers \cap Threads = {} /\ Selectors \subseteq Actors
    /\ IsFiniteSet(Fibers) /\ IsFiniteSet(Threads)
    /\ Cases \in Seq(Chans) /\ Cases # <<>>
    /\ NoChan \notin Chans /\ MaxSends \in Nat

VARIABLES
    q,               \* the queues; an item is its send number
    closed,
    recv_fibers,     \* parked fibers, first in first out
    cond,            \* threads in cond_wait on the channel's condition variable
    select_waiters,  \* waiters armed on the channel
    fired,           \* SelectWaiter.fired
    sent,            \* items accepted so far
    pc, chan,        \* where an actor is, and the channel its receive is about
    pass,            \* a select's polls: "default", "first" (no waiter yet) or "armed"
    idx,             \* the case a select is at
    which,           \* the case it chose, 0 for none (WHICH)
    got              \* what the last receive returned, 0 for None

chanVars == <<q, closed, recv_fibers, cond, select_waiters, sent>>
selVars == <<fired, pass, idx, which>>
vars == <<chanVars, selVars, pc, chan, got>>

TypeOK ==
    /\ q \in [Chans -> Seq(1 .. MaxSends)]
    /\ closed \in [Chans -> BOOLEAN]
    /\ recv_fibers \in [Chans -> Seq(Fibers)]
    /\ cond \in [Chans -> SUBSET Threads]
    /\ select_waiters \in [Chans -> Seq(Selectors)]
    /\ fired \in [Selectors -> BOOLEAN]
    /\ sent \in 0 .. MaxSends
    /\ pc \in [Actors -> {"idle", "recv", "blocked", "poll", "take", "prepare", "arm", "wait", "disarm"}]
    /\ chan \in [Actors -> Chans \cup {NoChan}]
    /\ pass \in [Selectors -> {"default", "first", "armed"}]
    /\ idx \in [Selectors -> 1 .. Len(Cases)]
    /\ which \in [Selectors -> 0 .. Len(Cases)]
    /\ got \in [Actors -> 0 .. MaxSends]

\* chan_new.
Init ==
    /\ q = [c \in Chans |-> <<>>]
    /\ closed = [c \in Chans |-> FALSE]
    /\ recv_fibers = [c \in Chans |-> <<>>]
    /\ cond = [c \in Chans |-> {}]
    /\ select_waiters = [c \in Chans |-> <<>>]
    /\ fired = [s \in Selectors |-> FALSE]
    /\ sent = 0
    /\ pc = [a \in Actors |-> "idle"]
    /\ chan = [a \in Actors |-> NoChan]
    /\ pass = [s \in Selectors |-> "first"]
    /\ idx = [s \in Selectors |-> 1]
    /\ which = [s \in Selectors |-> 0]
    /\ got = [a \in Actors |-> 0]

-----------------------------------------------------------------------------
Goto(a, l) == pc' = [pc EXCEPT ![a] = l]

\* __chan_fire_select_waiters.
Fire(c) == fired' = [s \in Selectors |-> fired[s] \/ s \in ToSet(select_waiters[c])]

\* The actors in S go on to take the lock again.
Wake(S) == pc' = [a \in Actors |-> IF a \in S THEN "recv" ELSE pc[a]]

\* cond_signal: one of the waiting threads, if there is one.
OneOf(S) == IF S = {} THEN {{}} ELSE {{t} : t \in S}

Oldest(s) == IF s = <<>> THEN {} ELSE {Head(s)}
Rest(s) == IF s = <<>> THEN <<>> ELSE Tail(s)

-----------------------------------------------------------------------------
(* Faulty forms, each a plausible slip in the operation it stands for.     *)

\* Wake somebody only when the queue was empty.
QuietSend(c) ==
    /\ ~closed[c]
    /\ sent < MaxSends
    /\ sent' = sent + 1
    /\ q' = [q EXCEPT ![c] = Append(@, sent + 1)]
    /\ Fire(c)
    /\ IF q[c] = <<>>
       THEN /\ recv_fibers' = [recv_fibers EXCEPT ![c] = Rest(@)]
            /\ \E signalled \in OneOf(cond[c]) :
                   /\ cond' = [cond EXCEPT ![c] = @ \ signalled]
                   /\ Wake(Oldest(recv_fibers[c]) \cup signalled)
       ELSE UNCHANGED <<recv_fibers, cond, pc>>
    /\ UNCHANGED <<closed, select_waiters, pass, idx, which, chan, got>>

\* A fiber waiter found: the thread waiter is left alone.
FiberOnlySend(c) ==
    /\ ~closed[c]
    /\ sent < MaxSends
    /\ sent' = sent + 1
    /\ q' = [q EXCEPT ![c] = Append(@, sent + 1)]
    /\ Fire(c)
    /\ recv_fibers' = [recv_fibers EXCEPT ![c] = Rest(@)]
    /\ Wake(Oldest(recv_fibers[c]))
    /\ UNCHANGED <<closed, cond, select_waiters, pass, idx, which, chan, got>>

\* A close that tells the receivers only.
SelectDeafClose(c) ==
    /\ closed' = [closed EXCEPT ![c] = TRUE]
    /\ recv_fibers' = [recv_fibers EXCEPT ![c] = <<>>]
    /\ cond' = [cond EXCEPT ![c] = {}]
    /\ Wake(ToSet(recv_fibers[c]) \cup cond[c])
    /\ UNCHANGED <<q, select_waiters, sent, selVars, chan, got>>

\* A select that returns as soon as it has chosen, armed as it is.
HastyPolled(s) ==
    /\ which' = which
    /\ Goto(s, IF which[s] # 0 \/ pass[s] = "default" THEN "idle"
               ELSE IF pass[s] = "armed" THEN "wait" ELSE "prepare")

-----------------------------------------------------------------------------
(* Send and close.                                                         *)

\* chan_send on an open channel (on a closed one it returns F and changes
\* nothing): fire the armed selects, wake the oldest fiber and one thread.
chan_send(c) ==
    /\ ~closed[c]
    /\ sent < MaxSends
    /\ sent' = sent + 1
    /\ q' = [q EXCEPT ![c] = Append(@, sent + 1)]
    /\ Fire(c)
    /\ recv_fibers' = [recv_fibers EXCEPT ![c] = Rest(@)]
    /\ \E signalled \in OneOf(cond[c]) :
           /\ cond' = [cond EXCEPT ![c] = @ \ signalled]
           /\ Wake(Oldest(recv_fibers[c]) \cup signalled)
    /\ UNCHANGED <<closed, select_waiters, pass, idx, which, chan, got>>

\* chan_close wakes everybody.
chan_close(c) ==
    /\ closed' = [closed EXCEPT ![c] = TRUE]
    /\ Fire(c)
    /\ recv_fibers' = [recv_fibers EXCEPT ![c] = <<>>]
    /\ cond' = [cond EXCEPT ![c] = {}]
    /\ Wake(ToSet(recv_fibers[c]) \cup cond[c])
    /\ UNCHANGED <<q, select_waiters, sent, pass, idx, which, chan, got>>

-----------------------------------------------------------------------------
(* chan_recv: the call, then the predicate loop under the lock.            *)

RecvCall(a, c) ==
    /\ pc[a] = "idle"
    /\ chan' = [chan EXCEPT ![a] = c]
    /\ Goto(a, "recv")
    /\ UNCHANGED <<chanVars, selVars, got>>

\* An item for a: the front of the queue.
PopFor(a, c) ==
    /\ got' = [got EXCEPT ![a] = Head(q[c])]
    /\ q' = [q EXCEPT ![c] = Tail(@)]

RecvTake(a) ==
    /\ pc[a] = "recv"
    /\ q[chan[a]] # <<>>
    /\ PopFor(a, chan[a])
    /\ chan' = [chan EXCEPT ![a] = NoChan]
    /\ Goto(a, "idle")
    /\ UNCHANGED <<closed, recv_fibers, cond, select_waiters, sent, selVars>>

RecvNone(a) ==
    /\ pc[a] = "recv"
    /\ q[chan[a]] = <<>> /\ closed[chan[a]]
    /\ got' = [got EXCEPT ![a] = 0]
    /\ chan' = [chan EXCEPT ![a] = NoChan]
    /\ Goto(a, "idle")
    /\ UNCHANGED <<chanVars, selVars>>

\* Empty and open: a fiber parks on the channel's list, a thread waits on its
\* condition variable.
RecvBlock(a) ==
    /\ pc[a] = "recv"
    /\ q[chan[a]] = <<>> /\ ~closed[chan[a]]
    /\ \/ a \in Fibers /\ recv_fibers' = [recv_fibers EXCEPT ![chan[a]] = Append(@, a)] /\ UNCHANGED cond
       \/ a \in Threads /\ cond' = [cond EXCEPT ![chan[a]] = @ \cup {a}] /\ UNCHANGED recv_fibers
    /\ Goto(a, "blocked")
    /\ UNCHANGED <<q, closed, select_waiters, sent, selVars, chan, got>>

\* cond_wait may return without a signal.
SpuriousWake(t) ==
    /\ pc[t] = "blocked" /\ t \in Threads
    /\ cond' = [cond EXCEPT ![chan[t]] = @ \ {t}]
    /\ Goto(t, "recv")
    /\ UNCHANGED <<q, closed, recv_fibers, select_waiters, sent, selVars, chan, got>>

\* chan_try_recv, outside a select.
TryNone(a) == got' = [got EXCEPT ![a] = 0] /\ UNCHANGED q

chan_try_recv(a, c) ==
    /\ pc[a] = "idle"
    /\ \/ q[c] # <<>> /\ PopFor(a, c)
       \/ q[c] = <<>> /\ TryNone(a)
    /\ UNCHANGED <<closed, recv_fibers, cond, select_waiters, sent, selVars, pc, chan>>

-----------------------------------------------------------------------------
(* select: `?? { [T] ch -> v { } ... }`, with or without a default arm.    *)

SelectCall(s, default) ==
    /\ pc[s] = "idle"
    /\ pass' = [pass EXCEPT ![s] = IF default THEN "default" ELSE "first"]
    /\ which' = [which EXCEPT ![s] = 0]
    /\ idx' = [idx EXCEPT ![s] = 1]
    /\ Goto(s, "poll")
    /\ UNCHANGED <<chanVars, fired, chan, got>>

\* After POLL: run the chosen (or the default) body, sleep, or disarm.
Polled(s) ==
    /\ which' = which
    /\ Goto(s, CASE pass[s] = "armed" -> IF which[s] # 0 THEN "disarm" ELSE "wait"
                 [] pass[s] = "default" -> "idle"
                 [] OTHER -> IF which[s] # 0 THEN "idle" ELSE "prepare")

\* One case of POLL: chan_select_poll, skipped once a case is chosen.
SelectPoll(s) ==
    LET c == Cases[idx[s]]
        last == idx[s] = Len(Cases)
        isReady == q[c] # <<>> \/ closed[c]
    IN  /\ pc[s] = "poll"
        /\ \/ /\ which[s] = 0 /\ isReady
              /\ Goto(s, "take")
              /\ UNCHANGED <<which, idx>>
           \/ /\ which[s] # 0 \/ ~isReady
              /\ idx' = [idx EXCEPT ![s] = IF last THEN 1 ELSE @ + 1]
              /\ IF last THEN Polled(s) ELSE UNCHANGED <<pc, which>>
        /\ UNCHANGED <<chanVars, fired, pass, chan, got>>

\* The poll said ready: this case is the one, its value a chan_try_recv.
SelectTake(s) ==
    LET c == Cases[idx[s]] IN
    /\ pc[s] = "take"
    /\ which' = [which EXCEPT ![s] = idx[s]]
    /\ \/ q[c] # <<>> /\ PopFor(s, c)
       \/ q[c] = <<>> /\ TryNone(s)
    /\ Goto(s, "poll")
    /\ UNCHANGED <<closed, recv_fibers, cond, select_waiters, sent, fired, pass, idx, chan>>

\* select_waiter_prepare, after select_waiter_new the first time.
SelectPrepare(s) ==
    /\ pc[s] = "prepare"
    /\ fired' = [fired EXCEPT ![s] = FALSE]
    /\ pass' = [pass EXCEPT ![s] = "armed"]
    /\ Goto(s, "arm")
    /\ UNCHANGED <<chanVars, idx, which, chan, got>>

\* Cases are armed, and disarmed, one by one.
Step(s, l) ==
    LET last == idx[s] = Len(Cases) IN
    /\ idx' = [idx EXCEPT ![s] = IF last THEN 1 ELSE @ + 1]
    /\ Goto(s, IF last THEN l ELSE pc[s])

chan_select_arm(s) ==
    /\ pc[s] = "arm"
    /\ select_waiters' = [select_waiters EXCEPT ![Cases[idx[s]]] = Append(@, s)]
    /\ Step(s, "poll")
    /\ UNCHANGED <<q, closed, recv_fibers, cond, sent, fired, pass, which, chan, got>>

\* cond_wait on the waiter's own condition variable, until fired.
select_waiter_wait(s) ==
    /\ pc[s] = "wait"
    /\ fired[s]
    /\ Goto(s, "disarm")
    /\ UNCHANGED <<chanVars, selVars, chan, got>>

chan_select_disarm(s) ==
    LET c == Cases[idx[s]] IN
    /\ pc[s] = "disarm"
    /\ select_waiters' = [select_waiters EXCEPT ![c] = RemoveFirst(@, s)]
    /\ Step(s, IF which[s] # 0 THEN "idle" ELSE "prepare")
    /\ UNCHANGED <<q, closed, recv_fibers, cond, sent, fired, pass, which, chan, got>>

-----------------------------------------------------------------------------
Recv(a) == RecvTake(a) \/ RecvNone(a) \/ RecvBlock(a)

Select(s) ==
    \/ SelectPoll(s) \/ SelectTake(s) \/ SelectPrepare(s) \/ chan_select_arm(s)
    \/ select_waiter_wait(s) \/ chan_select_disarm(s)

Next ==
    \/ \E c \in Chans : chan_send(c) \/ chan_close(c)
    \/ \E a \in Actors :
           \/ Recv(a) \/ SpuriousWake(a)
           \/ \E c \in Chans : RecvCall(a, c) \/ chan_try_recv(a, c)
    \/ \E s \in Selectors :
           \/ Select(s)
           \/ \E default \in BOOLEAN : SelectCall(s, default)

Spec == Init /\ [][Next]_vars

\* Every actor inside a call gets on whenever it can.
FairSpec ==
    /\ Spec
    /\ \A a \in Actors : WF_vars(Recv(a))
    /\ \A s \in Selectors : WF_vars(Select(s))

-----------------------------------------------------------------------------
\* Receivers of the kind S that are about to look at channel c again.
Coming(S, c) == {a \in S : pc[a] = "recv" /\ chan[a] = c}

\* A blocked receiver is never left behind with an item it could have: while a
\* fiber (a thread) waits, at least as many are on their way as there are
\* items.  Each send wakes one of each kind, and others may take what it sent.
NoneStranded ==
    \A c \in Chans :
        /\ recv_fibers[c] # <<>> => ~closed[c] /\ Len(q[c]) <= Cardinality(Coming(Fibers, c))
        /\ cond[c] # {} => ~closed[c] /\ Len(q[c]) <= Cardinality(Coming(Threads, c))

\* A select never sleeps through a ready case: while it waits unfired, all its
\* channels are empty and open, whatever was sent while it armed and polled.
SelectSleepsSafely ==
    \A s \in Selectors : pc[s] = "wait" /\ ~fired[s] =>
        \A k \in DOMAIN Cases : q[Cases[k]] = <<>> /\ ~closed[Cases[k]]

\* How often s is armed on c, and how often c is among the first n cases.
Armings(s, c) == Cardinality({i \in DOMAIN select_waiters[c] : select_waiters[c][i] = s})

CasesUpTo(n, c) == Cardinality({k \in 1 .. n : Cases[k] = c})

\* A waiter is armed on the channels between its arm and its disarm, once per
\* case: a select that has returned can not be fired any more.
ArmedWhileSelecting ==
    \A s \in Selectors, c \in Chans :
        Armings(s, c) =
            CASE pc[s] = "arm" -> CasesUpTo(idx[s] - 1, c)
              [] pc[s] = "disarm" -> CasesUpTo(Len(Cases), c) - CasesUpTo(idx[s] - 1, c)
              [] pc[s] \in {"poll", "take", "wait"} /\ pass[s] = "armed" -> CasesUpTo(Len(Cases), c)
              [] OTHER -> 0

\* A select hears of every ready case while it sleeps and of none once it has
\* returned (gen_select's arm, wait and disarm).
SelectHears == SelectSleepsSafely /\ ArmedWhileSelecting

\* An actor wants a channel from its chan_recv call to its return.
Promise == INSTANCE ChannelSpec WITH want <- chan

\* The channels are the FIFO queues of ChannelSpec, and blocked receivers are
\* served: refinement, with ChannelSpec's fairness (channel.nu:213).
ServesReceivers == Promise!Spec

\* A select whose case is ready in the end runs a body: with the channel of a
\* case closed it does not wait for ever.
SelectReturns ==
    \A s \in Selectors :
        (pc[s] # "idle" /\ chan[s] = NoChan /\ \E k \in DOMAIN Cases : closed[Cases[k]]) ~> pc[s] = "idle"

\* "`F` means the channel is closed and drained" (docs/spec.md:2409): a case
\* that delivers None has a closed and empty channel.
SelectNoneMeansClosed ==
    [][\A s \in Selectors : pc[s] = "take" /\ pc'[s] = "poll" /\ got'[s] = 0 =>
           closed[Cases[idx[s]]]]_vars

\* The cases of the selects that are model-checked.
TwoCases == <<"c1", "c2">>
=============================================================================
