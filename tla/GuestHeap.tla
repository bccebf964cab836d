------------------------------ MODULE GuestHeap -----------------------------
(***************************************************************************)
(* unikernel/nolibc/malloc.c over the page allocator: size classes carved  *)
(* from arenas, larger blocks in mappings of their own.                    *)
(*                                                                         *)
(* Sizes are in words of the header (16 bytes); a page is PageWords of     *)
(* them and nl_size_t holds 0 .. WordMax.  Word w of page p has address    *)
(* p * PageWords + w.                                                      *)
(***************************************************************************)
EXTENDS PageAlloc

CONSTANTS
    PaBase, PaEnd,   \* the pages mem_init gave the page allocator
    PageWords,    \* words of a page
    ArenaPages,   \* NL_ARENA in pages
    Classes,      \* NL_CLASSES: class c holds 2^c words, from 2 on
    WordMax,      \* the largest nl_size_t
    Sizes,        \* bound: the sizes a program asks for
    MaxLive,      \* bound: blocks alive at once
    MaxOps        \* bound: calls

VARIABLES
    pa,       \* the page allocator
    lists,    \* nl_free_list[c]: addresses, the newest first
    arena,    \* [at, left]: nl_arena_p, nl_arena_left
    blocks,   \* live blocks: [at, size, kind, asked]; kind 0 is NL_BIG
    ops

vars == <<pa, lists, arena, blocks, ops>>

Init ==
    /\ pa = PaInit(PaBase, PaEnd) /\ lists = [c \in 1..Classes |-> <<>>]
    /\ arena = [at |-> 0, left |-> 0] /\ blocks = {} /\ ops = 0

Wrap(n) == n % (WordMax + 1)

\* nl_class_of, of a length with its header; 0 is too large.
ClassSize(c) == 2 ^ c
ClassOf(n) ==
    LET fit == {c \in 1..Classes : ClassSize(c) >= n}
    IN IF fit = {} THEN 0 ELSE CHOOSE c \in fit : \A d \in fit : c <= d

\* No length is refused before its header is added.
AnySize(n) == TRUE
\* The guard of malloc: the header and a page of rounding still fit.
Possible(n) == n <= WordMax - 1 - (PageWords - 1)

PagesOf(words) == Wrap(words + PageWords - 1) \div PageWords

\* malloc's three sources of a block: the list, the arena, a mapping.
FromList(c, n) ==
    /\ c > 0 /\ lists[c] # <<>>
    /\ lists' = [lists EXCEPT ![c] = Tail(@)]
    /\ blocks' = blocks \union {[at |-> Head(lists[c]), size |-> ClassSize(c) - 1, kind |-> c, asked |-> n]}
    /\ UNCHANGED <<pa, arena>>
\* The arena is taken for large enough when anything is left of it.
HopefulCarve(c, n) ==
    LET got == PaAlloc(pa, ArenaPages)
        from == IF arena.left > 0 THEN arena
                ELSE [at |-> got.at * PageWords, left |-> ArenaPages * PageWords] IN
    /\ c > 0 /\ lists[c] = <<>> /\ got.at # 0
    /\ pa' = IF arena.left > 0 THEN pa ELSE got.pa
    /\ arena' = [at |-> from.at + ClassSize(c), left |-> from.left - ClassSize(c)]
    /\ blocks' = blocks \union {[at |-> from.at, size |-> ClassSize(c) - 1, kind |-> c, asked |-> n]}
    /\ UNCHANGED lists
\* nl_carve: the rest of an arena too small is abandoned.
Carve(c, n) ==
    LET got == PaAlloc(pa, ArenaPages)
        from == IF arena.left >= ClassSize(c) THEN arena
                ELSE [at |-> got.at * PageWords, left |-> ArenaPages * PageWords] IN
    /\ c > 0 /\ lists[c] = <<>>
    /\ arena.left >= ClassSize(c) \/ got.at # 0
    /\ pa' = IF arena.left >= ClassSize(c) THEN pa ELSE got.pa
    /\ arena' = [at |-> from.at + ClassSize(c), left |-> from.left - ClassSize(c)]
    /\ blocks' = blocks \union {[at |-> from.at, size |-> ClassSize(c) - 1, kind |-> c, asked |-> n]}
    /\ UNCHANGED lists
Big(c, n) ==
    LET total == PagesOf(Wrap(n + 1))
        got == PaAlloc(pa, total) IN
    /\ c = 0 /\ got.at # 0
    /\ pa' = got.pa
    /\ blocks' = blocks \union {[at |-> got.at * PageWords, size |-> total * PageWords - 1,
                                 kind |-> 0, asked |-> n]}
    /\ UNCHANGED <<lists, arena>>

Allocate(n) ==
    /\ Possible(n)
    /\ LET c == ClassOf(Wrap(n + 1)) IN FromList(c, n) \/ Carve(c, n) \/ Big(c, n)

Malloc(n) ==
    /\ ops < MaxOps /\ ops' = ops + 1
    /\ Cardinality(blocks) < MaxLive
    /\ Allocate(n)

\* free: a mapping is given back whole, by the length its header holds.
Free(b) ==
    /\ ops < MaxOps /\ ops' = ops + 1
    /\ blocks' = blocks \ {b}
    /\ IF b.kind = 0
       THEN pa' = PaFree(pa, b.at \div PageWords, PagesOf(b.size + 1)) /\ UNCHANGED lists
       ELSE lists' = [lists EXCEPT ![b.kind] = <<b.at>> \o @] /\ UNCHANGED pa
    /\ UNCHANGED arena

\* realloc in place: the request still fits.  Growing is Malloc, then Free.
Resize(b, n) ==
    /\ ops < MaxOps /\ ops' = ops + 1
    /\ n <= b.size /\ n # b.asked
    /\ blocks' = (blocks \ {b}) \union {[b EXCEPT !.asked = n]}
    /\ UNCHANGED <<pa, lists, arena>>

Next ==
    \/ \E n \in Sizes : Malloc(n)
    \/ \E b \in blocks : Free(b) \/ \E n \in Sizes : Resize(b, n)

Spec == Init /\ [][Next]_vars

-----------------------------------------------------------------------------
Words(b) == b.at .. b.at + b.size
ListWords == UNION {UNION {{lists[c][i] + w : w \in 0 .. ClassSize(c) - 1} :
                              i \in DOMAIN lists[c]} : c \in 1..Classes}
ArenaWords == arena.at .. arena.at + arena.left - 1
PagedOut == UNION {p * PageWords .. (p + 1) * PageWords - 1 : p \in FreePages(pa)}

TypeOK ==
    /\ pa.next \in PaBase..PaEnd /\ Len(pa.free) <= PaMaxFree
    /\ \A b \in blocks : b.kind \in 0..Classes
    /\ ops \in 0..MaxOps

\* malloc, free and pa_alloc, pa_free together: no word belongs to two of a
\* live block, another live block, a class's free list, the arena's rest and
\* the pages the page allocator may still hand out.
NoOverlap ==
    /\ \A b, c \in blocks : b # c => Words(b) \intersect Words(c) = {}
    /\ \A b \in blocks : Words(b) \intersect (ListWords \union ArenaWords \union PagedOut) = {}
    /\ ListWords \intersect (ArenaWords \union PagedOut) = {}
    /\ ArenaWords \intersect PagedOut = {}
    /\ \A c \in 1..Classes : IsInjective(lists[c])

\* malloc's guard against a length that wraps: a block is never smaller than
\* what was asked for.
BlockHolds == \A b \in blocks : b.size >= b.asked

\* pa_free and pa_absorb_tail: the free list is sorted and holds no two ranges
\* that touch, and none that touches the tail.
HolesCoalesced == PaCoalesced(pa)

\* pa_alloc, pa_free: pages handed out, free and counted lost make up the
\* region; nothing disappears without being counted.
PagesCounted ==
    pa.live + pa.lost + Cardinality(FreePages(pa)) = PaEnd - PaBase
=============================================================================
