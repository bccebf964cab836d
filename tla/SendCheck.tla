------------------------------ MODULE SendCheck ------------------------------
(***************************************************************************)
(* stdlib/runtime_core.c, the thread crossing's check.  A value about to   *)
(* run on another thread is walked; every place of it that holds a counted *)
(* block is visited, and at the end a block with more owners than the walk *)
(* met has one left on this side, so the crossing panics.  The walk counts *)
(* into an open-addressed table that starts small and doubles.             *)
(***************************************************************************)
EXTENDS Integers, FiniteSets

CONSTANTS
    Counted,     \* blocks a handle's copies share
    Hashes,      \* the hashes blocks may have, so that some collide
    SmallCap,    \* NURL__SK_SMALL, a power of two (32 in the code)
    MaxPlaces    \* bound: places of the value that hold one block

VARIABLES
    hash,        \* block -> the top bits of its Fibonacci hash, below MaxCap
    strong,      \* block -> owners, here and in the value
    left,        \* block -> places of the value not walked yet
    places,      \* block -> places of the value
    tab,         \* nurl__sk_tab: slot -> [blk, seen]; 0 is an empty slot
    nesting,     \* nurl__sk_depth
    verdict      \* "none", "walking", "sent" or "panic"

vars == <<hash, strong, left, places, tab, nesting, verdict>>

MaxCap == 4 * SmallCap
Empty == [blk |-> 0, seen |-> 0]
SmallTable == [i \in 0 .. SmallCap - 1 |-> Empty]

Init ==
    /\ hash \in [Counted -> Hashes]
    /\ places \in [Counted -> 0 .. MaxPlaces]
    /\ strong \in [Counted -> 1 .. MaxPlaces + 1]
    /\ \A b \in Counted : strong[b] \in places[b] .. places[b] + 1
    /\ left = places
    /\ tab = SmallTable
    /\ nesting = 0
    /\ verdict = "none"

TableCap(t) == Cardinality(DOMAIN t)
Used(t) == Cardinality({i \in DOMAIN t : t[i].blk # 0})
\* nurl__sk_slot and the linear probe from it: the slot that holds b, or the
\* first empty one.
Slot(t, b) ==
    LET h == hash[b] \div (MaxCap \div TableCap(t))
        at(k) == (h + k) % TableCap(t)
        stop(k) == t[at(k)].blk \in {0, b}
    IN  at(CHOOSE k \in 0 .. TableCap(t) - 1 : stop(k) /\ \A j \in 0 .. k - 1 : ~stop(j))

\* nurl__sk_grow copying each entry to its hash without probing.
FlatGrow(t) ==
    LET moved(i) == {j \in DOMAIN t : t[j].blk # 0 /\ hash[t[j].blk] \div (MaxCap \div (2 * TableCap(t))) = i}
    IN  [i \in 0 .. 2 * TableCap(t) - 1 |->
            IF moved(i) = {} THEN Empty ELSE t[CHOOSE j \in moved(i) : TRUE]]
\* nurl__sk_grow: every entry put again, in table order, into one twice as large.
Grow(t) ==
    LET wide == [i \in 0 .. 2 * TableCap(t) - 1 |-> Empty]
        put[i \in 0 .. TableCap(t)] ==
            IF i = 0 THEN wide
            ELSE IF t[i - 1].blk = 0 THEN put[i - 1]
            ELSE [put[i - 1] EXCEPT ![Slot(put[i - 1], t[i - 1].blk)] = t[i - 1]]
    IN  put[TableCap(t)]

\* nurl_sendck_begin: a container's hook nests inside the outer walk.
Begin ==
    /\ verdict \in {"none", "walking"} /\ nesting < 2
    /\ verdict = "none" \/ \E b \in Counted : left[b] > 0
    /\ nesting' = nesting + 1
    /\ verdict' = "walking"
    /\ UNCHANGED <<hash, strong, left, places, tab>>

\* nurl_sendck_visit: one more place holds b.
Visit(b) ==
    /\ nesting > 0 /\ left[b] > 0
    /\ LET t == IF 2 * (Used(tab) + 1) > TableCap(tab) THEN Grow(tab) ELSE tab
           h == Slot(t, b)
       IN  tab' = [t EXCEPT ![h] = [blk |-> b, seen |-> @.seen + 1]]
    /\ left' = [left EXCEPT ![b] = @ - 1]
    /\ UNCHANGED <<hash, strong, places, nesting, verdict>>

\* A block stays behind: one with more owners than places met.
Behind == \E i \in DOMAIN tab : tab[i].blk # 0 /\ strong[tab[i].blk] > tab[i].seen

\* Every end of a nested walk judging what was met so far.
EagerEnd ==
    /\ nesting > 0 /\ (nesting = 1 => \A b \in Counted : left[b] = 0)
    /\ nesting' = nesting - 1
    /\ verdict' = IF Behind THEN "panic" ELSE IF nesting = 1 THEN "sent" ELSE verdict
    /\ tab' = IF nesting = 1 THEN SmallTable ELSE tab
    /\ UNCHANGED <<hash, strong, left, places>>
\* nurl_sendck_end: the outermost one asks every block met, over the cleared
\* table.
End ==
    /\ nesting > 0 /\ (nesting = 1 => \A b \in Counted : left[b] = 0)
    /\ nesting' = nesting - 1
    /\ IF nesting > 1 THEN UNCHANGED <<tab, verdict>>
       ELSE /\ verdict' = IF Behind THEN "panic" ELSE "sent"
            /\ tab' = SmallTable
    /\ UNCHANGED <<hash, strong, left, places>>

Next == Begin \/ End \/ \E b \in Counted : Visit(b)
Spec == Init /\ [][Next]_vars

-----------------------------------------------------------------------------
\* The crossing panics exactly when some block of the value has an owner that
\* stays on this side, however the walk is nested and the blocks collide.
VerdictExact ==
    LET shared == \E b \in Counted : places[b] > 0 /\ strong[b] > places[b]
    IN  /\ verdict = "sent" => ~shared
        /\ verdict = "panic" => shared

\* While it walks, the table holds each block met once, with its count.
TableExact ==
    verdict = "walking" =>
        \A b \in Counted :
            LET at == {i \in DOMAIN tab : tab[i].blk = b}
            IN  IF places[b] = left[b] THEN at = {}
                ELSE /\ Cardinality(at) = 1
                     /\ \A i \in at : tab[i].seen = places[b] - left[b]
=============================================================================
