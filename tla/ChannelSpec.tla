----------------------------- MODULE ChannelSpec -----------------------------
(***************************************************************************)
(* What stdlib/std/channel.nu promises of a set of channels: unbounded     *)
(* FIFO queues; a receive takes the oldest item, or ends with None once    *)
(* the channel is closed and drained; a blocked receive never stays behind *)
(* while its channel has something for it.                                 *)
(***************************************************************************)
EXTENDS Naturals, Sequences

CONSTANTS Chans, Actors, NoChan, MaxSends

VARIABLES
    q,       \* items in each channel, oldest first; items are numbered as sent
    closed,
    sent,    \* items accepted so far
    want,    \* the channel an actor is blocked receiving from, or NoChan
    got      \* what an actor's last receive returned: an item, or 0 for None

vars == <<q, closed, sent, want, got>>

Init ==
    /\ q = [c \in Chans |-> <<>>]
    /\ closed = [c \in Chans |-> FALSE]
    /\ sent = 0
    /\ want = [a \in Actors |-> NoChan]
    /\ got = [a \in Actors |-> 0]

Send(c) ==
    /\ ~closed[c] /\ sent < MaxSends
    /\ sent' = sent + 1
    /\ q' = [q EXCEPT ![c] = Append(@, sent + 1)]
    /\ UNCHANGED <<closed, want, got>>

Close(c) ==
    /\ closed' = [closed EXCEPT ![c] = TRUE]
    /\ UNCHANGED <<q, sent, want, got>>

Call(a, c) ==
    /\ want[a] = NoChan
    /\ want' = [want EXCEPT ![a] = c]
    /\ UNCHANGED <<q, closed, sent, got>>

\* The oldest item goes to a, blocked or (chan_try_recv, select) not.
Take(a, c) ==
    /\ want[a] \in {c, NoChan}
    /\ q[c] # <<>>
    /\ got' = [got EXCEPT ![a] = Head(q[c])]
    /\ q' = [q EXCEPT ![c] = Tail(@)]
    /\ want' = [want EXCEPT ![a] = NoChan]
    /\ UNCHANGED <<closed, sent>>

\* A blocked receive returns None.
End(a, c) ==
    /\ want[a] = c
    /\ closed[c] /\ q[c] = <<>>
    /\ got' = [got EXCEPT ![a] = 0]
    /\ want' = [want EXCEPT ![a] = NoChan]
    /\ UNCHANGED <<q, closed, sent>>

\* A receive that never blocks returns None.
TryNone(a, c) ==
    /\ want[a] = NoChan
    /\ q[c] = <<>>
    /\ got' = [got EXCEPT ![a] = 0]
    /\ UNCHANGED <<q, closed, sent, want>>

Next ==
    \E c \in Chans :
        \/ Send(c) \/ Close(c)
        \/ \E a \in Actors : Call(a, c) \/ Take(a, c) \/ End(a, c) \/ TryNone(a, c)

\* A channel with something for its blocked receivers serves one of them.
Serve(c) == \E a \in Actors : want[a] = c /\ (Take(a, c) \/ End(a, c))

Spec == Init /\ [][Next]_vars /\ \A c \in Chans : WF_vars(Serve(c))
=============================================================================
