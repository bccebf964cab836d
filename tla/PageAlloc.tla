------------------------------ MODULE PageAlloc -----------------------------
(***************************************************************************)
(* unikernel/boot/pagealloc.c: the guest's page allocator, a sorted free   *)
(* list of ranges over one region with best fit, coalescing on both sides, *)
(* a tail nobody was ever handed, and a table of fixed size.               *)
(*                                                                         *)
(* The allocator is a record [base, end, free, next, live, lost]; its      *)
(* operations are functions of it, so that GuestHeap can put malloc on top *)
(* and GuestPaging the page tables.                                        *)
(***************************************************************************)
EXTENDS Integers, Sequences, FiniteSets, SequencesExt

CONSTANT PaMaxFree     \* PA_MAX_FREE, slots of the free list

Range2(r) == r.base .. r.base + r.len - 1

\* pa_init of the pages base .. end - 1.
PaInit(base, end) ==
    [base |-> base, end |-> end, free |-> <<>>, next |-> base, live |-> 0, lost |-> 0]

\* pa_alloc's scan: the first of the smallest holes that fit, or 0.
BestFit(pa, need) ==
    LET fits == {i \in DOMAIN pa.free : pa.free[i].len >= need}
    IN IF fits = {} THEN 0
       ELSE CHOOSE i \in fits : \A j \in fits : \/ pa.free[i].len < pa.free[j].len
                                                \/ (pa.free[i].len = pa.free[j].len /\ i <= j)

\* pa_alloc: [at, pa], at = 0 when there is no room.
PaAlloc(pa, need) ==
    LET i == BestFit(pa, need)
        h == pa.free[i] IN
    IF i > 0
    THEN [at |-> h.base,
          pa |-> [pa EXCEPT !.live = @ + need,
                            !.free = IF h.len = need THEN RemoveAt(@, i)
                                     ELSE [@ EXCEPT ![i] = [base |-> h.base + need, len |-> h.len - need]]]]
    ELSE IF pa.end - pa.next < need THEN [at |-> 0, pa |-> pa]
    ELSE [at |-> pa.next, pa |-> [pa EXCEPT !.next = @ + need, !.live = @ + need]]

\* A hole below the tail stays in the list.
KeepsHoles(pa) == pa
\* pa_absorb_tail: the free list holds no adjacent ranges, so at most the last
\* one touches the tail.
AbsorbTail(pa) ==
    LET n == Len(pa.free) IN
    IF n > 0 /\ pa.free[n].base + pa.free[n].len = pa.next
    THEN [pa EXCEPT !.next = pa.free[n].base, !.free = Front(@)]
    ELSE pa

\* pa_owns, and the bounds test of pa_free.
PaOwns(pa, p, n) == p >= pa.base /\ p + n <= pa.end

\* A range that finds the list full is dropped in silence.
SilentJoin(pa, p, n, at) ==
    IF Len(pa.free) < PaMaxFree
    THEN [pa EXCEPT !.free = InsertAt(@, at, [base |-> p, len |-> n])]
    ELSE pa
\* The sorted insert of pa_free: coalesce on each side, or take a slot.
Join(pa, p, n, at) ==
    LET prev == at > 1 /\ pa.free[at - 1].base + pa.free[at - 1].len = p
        next == at <= Len(pa.free) /\ p + n = pa.free[at].base IN
    IF prev /\ next
    THEN [pa EXCEPT !.free = RemoveAt([@ EXCEPT ![at - 1].len = @ + n + pa.free[at].len], at)]
    ELSE IF prev THEN [pa EXCEPT !.free[at - 1].len = @ + n]
    ELSE IF next THEN [pa EXCEPT !.free[at] = [base |-> p, len |-> n + pa.free[at].len]]
    ELSE IF Len(pa.free) < PaMaxFree
         THEN [pa EXCEPT !.free = InsertAt(@, at, [base |-> p, len |-> n])]
    ELSE [pa EXCEPT !.lost = @ + n]

\* pa_free of a range pa_alloc returned.
PaFree(pa, p, n) ==
    LET less == [pa EXCEPT !.live = @ - n]
        at == 1 + Cardinality({i \in DOMAIN pa.free : pa.free[i].base < p}) IN
    IF ~PaOwns(pa, p, n) THEN pa
    ELSE IF p + n = pa.next THEN AbsorbTail([less EXCEPT !.next = p])
    ELSE AbsorbTail(Join(less, p, n, at))

\* What the invariants of GuestHeap say of the list: sorted, no two ranges
\* adjacent, none touching the tail.
PaCoalesced(pa) ==
    /\ \A i \in DOMAIN pa.free : /\ pa.free[i].len > 0
                                 /\ pa.free[i].base + pa.free[i].len < pa.next
    /\ \A i \in 1 .. Len(pa.free) - 1 :
         pa.free[i].base + pa.free[i].len < pa.free[i + 1].base
FreePages(pa) == (UNION {Range2(pa.free[i]) : i \in DOMAIN pa.free}) \union (pa.next .. pa.end - 1)
=============================================================================
