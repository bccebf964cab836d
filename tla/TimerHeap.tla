------------------------------ MODULE TimerHeap ------------------------------
(***************************************************************************)
(* The netpoller's timer heap (nurl__np_heap in stdlib/runtime_ffi.c): an  *)
(* array with an index kept in every entry, so an event or a wake can take *)
(* an entry out of the middle.  Positions count from 1 here.               *)
(***************************************************************************)
EXTENDS Naturals, Sequences, FiniteSets, SequencesExt

CONSTANTS Entries, Deadlines

VARIABLES
    heap,       \* the array of entries
    heap_idx,   \* an entry's position in it, 0 when it is not there
    deadline    \* an entry's deadline_ms

vars == <<heap, heap_idx, deadline>>

Init ==
    /\ heap = <<>>
    /\ heap_idx = [e \in Entries |-> 0]
    /\ deadline \in [Entries -> Deadlines]

-----------------------------------------------------------------------------
\* An array with its index: what nurl__np_heap_place keeps together.
Indexed(h, x) == [arr |-> h, idx |-> x]

\* nurl__np_heap_place.
Place(H, e, i) == Indexed([H.arr EXCEPT ![i] = e], [H.idx EXCEPT ![e] = i])

Exchange(H, i, j) == Place(Place(H, H.arr[i], j), H.arr[j], i)

Due(H, i) == deadline[H.arr[i]]

RECURSIVE Up(_, _), Down(_, _)

\* nurl__np_heap_up.
Up(H, i) ==
    LET p == i \div 2 IN
    IF i = 1 \/ Due(H, p) <= Due(H, i) THEN H ELSE Up(Exchange(H, p, i), p)

\* nurl__np_heap_down.
Down(H, i) ==
    LET n == Len(H.arr)
        left == IF 2 * i <= n /\ Due(H, 2 * i) < Due(H, i) THEN 2 * i ELSE i
        least == IF 2 * i + 1 <= n /\ Due(H, 2 * i + 1) < Due(H, left) THEN 2 * i + 1 ELSE left
    IN  IF least = i THEN H ELSE Down(Exchange(H, least, i), least)

\* Faulty form: the entry that fills the gap can only sink.
SinkOnly(H, i) == Down(H, i)

\* The entry that fills the gap sinks, or it rises.
Settle(H, i) == Up(Down(H, i), i)

\* nurl__np_heap_push.
Pushed(e) ==
    LET n == Len(heap) + 1 IN Up(Indexed(Append(heap, e), [heap_idx EXCEPT ![e] = n]), n)

\* Faulty form: the entry that fills the gap keeps its old index.
UnindexedRemoved(e) ==
    LET i == heap_idx[e]
        H == Indexed(Front(heap), [heap_idx EXCEPT ![e] = 0])
    IN  IF i = Len(heap) THEN H ELSE Indexed([H.arr EXCEPT ![i] = Last(heap)], H.idx)

\* nurl__np_heap_remove: the last entry takes the place of the one that leaves.
Removed(e) ==
    LET i == heap_idx[e]
        H == Indexed(Front(heap), [heap_idx EXCEPT ![e] = 0])
    IN  IF i = Len(heap) THEN H ELSE Settle(Place(H, Last(heap), i), i)

-----------------------------------------------------------------------------
Become(H) == heap' = H.arr /\ heap_idx' = H.idx

\* A wait with a deadline is activated.
Activate(e) ==
    /\ heap_idx[e] = 0
    /\ Become(Pushed(e))
    /\ UNCHANGED deadline

\* Its event, its wake or its close comes first.
TakeOut(e) ==
    /\ heap_idx[e] # 0
    /\ Become(Removed(e))
    /\ \E d \in Deadlines : deadline' = [deadline EXCEPT ![e] = d]

\* nurl__np_expire_locked takes the first entry, due at `now`.
Expire(now) ==
    /\ heap # <<>> /\ deadline[Head(heap)] <= now
    /\ Become(Removed(Head(heap)))
    /\ UNCHANGED deadline

Next ==
    \/ \E e \in Entries : Activate(e) \/ TakeOut(e)
    \/ \E now \in Deadlines : Expire(now)

Spec == Init /\ [][Next]_vars

-----------------------------------------------------------------------------
\* The first entry is the earliest: what the poller's timeout and the expiry
\* loop, which stops at the first entry not yet due, rely on.
EarliestFirst == \A e \in ToSet(heap) : deadline[Head(heap)] <= deadline[e]

\* Every entry knows its place: a stale index would take another fiber's
\* deadline out of the heap.
IndexExact ==
    \A e \in Entries :
        /\ heap_idx[e] = 0 <=> e \notin ToSet(heap)
        /\ heap_idx[e] # 0 => heap_idx[e] <= Len(heap) /\ heap[heap_idx[e]] = e
=============================================================================
