------------------------------ MODULE WasmHeap ------------------------------
(***************************************************************************)
(* stdlib/runtime_wasm_alloc.c: the heap of the wasi-threads build, an     *)
(* address-ordered free list with splitting and coalescing over linear     *)
(* memory grown with memory.grow.  Every call holds nurl_wa_lock (the lock *)
(* is the one of WasmThreads), so a call is one step; a growing realloc is *)
(* a malloc and a free.                                                    *)
(*                                                                         *)
(* Sizes and addresses are in units of NURL_WA_ALIGN; a header is one      *)
(* unit; a uint32_t holds 0 .. WordMax, and a length less than a unit      *)
(* below the top rounds up to WordMax + 1.                                 *)
(***************************************************************************)
EXTENDS Integers, Sequences, FiniteSets, SequencesExt, FiniteSetsExt

CONSTANTS
    Sizes,         \* bound: lengths a program asks malloc for
    AlignedSizes,  \* bound: lengths it asks aligned_alloc for
    Align,         \* the alignment it asks for, above one unit
    Limit,         \* the largest length malloc considers (0xF0000000)
    WordMax,
    Chunk,         \* NURL_WA_CHUNK
    PageUnits,     \* units of a page of linear memory
    MaxPages,      \* memory.grow fails beyond
    MaxOps         \* bound: calls

VARIABLES
    free,     \* nurl_wa_free_list: [at, size], header included
    pages,    \* linear memory grown so far
    blocks,   \* live pointers: [at (its header), size, asked, lead]
    leaked,   \* units below an aligned pointer that was freed
    ops

vars == <<free, pages, blocks, leaked, ops>>

Init == free = <<>> /\ pages = 0 /\ blocks = {} /\ leaked = 0 /\ ops = 0

Wrap(n) == n % (WordMax + 1)

\* aligned_alloc adds its room to the length in a size_t: past the top, the block is
\* shorter than the request, the header it writes lies beyond it, and what the
\* program then does with the heap is undefined.
Wraps(n) == n + Align + 1 > WordMax
Undefined == \E b \in blocks : b.lead > 0 /\ Wraps(b.asked)

\* Neighbours are not merged.
PlainInsert(list, b) ==
    InsertAt(list, 1 + Cardinality({i \in DOMAIN list : list[i].at < b.at}), b)
\* The predecessor swallows the block whether or not they touch.
LooseInsert(list, b) ==
    LET k == Cardinality({i \in DOMAIN list : list[i].at < b.at})
    IN IF k = 0 THEN <<b>> \o list ELSE [list EXCEPT ![k].size = @ + b.size]
\* nurl_wa_insert: in address order, merged with the block above and below.
Insert(list, b) ==
    LET k    == Cardinality({i \in DOMAIN list : list[i].at < b.at})
        prev == IF k > 0 /\ list[k].at + list[k].size = b.at THEN k ELSE 0
        next == IF k < Len(list) /\ b.at + b.size = list[k + 1].at THEN k + 1 ELSE 0
        low  == IF prev > 0 THEN list[prev].at ELSE b.at
        high == IF next > 0 THEN list[next].at + list[next].size ELSE b.at + b.size
    IN SubSeq(list, 1, IF prev > 0 THEN k - 1 ELSE k)
       \o <<[at |-> low, size |-> high - low]>>
       \o SubSeq(list, IF next > 0 THEN k + 2 ELSE k + 1, Len(list))

\* The tail is kept when a header and a unit fit in it.
WorthSplit(size, need) == size >= need + 2

\* nurl_wa_arena.
GrownPages(need) ==
    LET want == IF need < Chunk THEN Chunk ELSE need
    IN (want + PageUnits - 1) \div PageUnits

\* Any length is tried.
AnyLength(n) == TRUE
Considered(n) == n <= Limit

\* nurl_wa_alloc: [at, size, free, pages], size = 0 when it fails.
Alloc(n) ==
    LET need == Wrap(Wrap(IF n = 0 THEN 1 ELSE n) + 1)
        fits == {i \in DOMAIN free : free[i].size >= need}
        i    == CHOOSE x \in fits : \A y \in fits : x <= y
        more == GrownPages(need)
        b    == IF fits # {} THEN free[i]
                ELSE [at |-> pages * PageUnits, size |-> more * PageUnits]
        rest == IF fits # {} THEN RemoveAt(free, i) ELSE free
        grown == IF fits # {} THEN pages ELSE pages + more
    IN IF ~Considered(n) \/ (fits = {} /\ pages + more > MaxPages)
       THEN [at |-> 0, size |-> 0, free |-> free, pages |-> pages]
       ELSE IF WorthSplit(b.size, need)
       THEN [at |-> b.at, size |-> need, pages |-> grown,
             free |-> Insert(rest, [at |-> b.at + need, size |-> b.size - need])]
       ELSE [at |-> b.at, size |-> b.size, pages |-> grown, free |-> rest]

Call == ~Undefined /\ ops < MaxOps /\ ops' = ops + 1

Malloc(n) ==
    LET got == Alloc(n) IN
    /\ Call /\ got.size > 0
    /\ free' = got.free /\ pages' = got.pages
    /\ blocks' = blocks \union {[at |-> got.at, size |-> got.size, asked |-> n, lead |-> 0]}
    /\ UNCHANGED leaked

\* aligned_alloc: a block with room to move up in, a second header below the
\* aligned pointer, the first one left behind.
AlignedAlloc(n) ==
    LET got == Alloc(Wrap(n + Align + 1))
        raw == got.at + 1
        aligned == ((raw + Align + 1) \div Align) * Align
        head == aligned - 1 IN
    /\ Call /\ got.size > 0
    /\ free' = got.free /\ pages' = got.pages
    /\ blocks' = blocks \union {[at |-> head, size |-> Wrap(got.size - (aligned - raw)), asked |-> n,
                                 lead |-> aligned - raw]}
    /\ UNCHANGED leaked

\* free: the header in front of the pointer is inserted, and only that.
Free(b) ==
    /\ Call
    /\ blocks' = blocks \ {b}
    /\ free' = Insert(free, [at |-> b.at, size |-> b.size])
    /\ leaked' = leaked + b.lead
    /\ UNCHANGED pages

\* realloc in place.
Resize(b, n) ==
    /\ Call /\ n # b.asked /\ n <= b.size - 1
    /\ blocks' = (blocks \ {b}) \union {[b EXCEPT !.asked = n]}
    /\ UNCHANGED <<free, pages, leaked>>

Next ==
    \/ \E n \in Sizes : Malloc(n)
    \/ \E n \in AlignedSizes : AlignedAlloc(n)
    \/ \E b \in blocks : Free(b) \/ \E n \in Sizes : Resize(b, n)

Spec == Init /\ [][Next]_vars

-----------------------------------------------------------------------------
TypeOK ==
    /\ pages \in 0..MaxPages /\ leaked \in Nat /\ ops \in 0..MaxOps
    /\ \A i \in DOMAIN free : free[i].size >= 2

Units(b) == b.at .. b.at + b.size - 1

\* nurl_wa_alloc and nurl_wa_insert: live blocks, their moved-up heads and the
\* free list never share a unit, and together with what leaked they are all
\* the memory that was grown, unless the length of an aligned request wrapped.
HeapTiled ==
    ~Undefined =>
    LET all == blocks \union Range(free)
        Extent(b) == b.size + IF b \in blocks THEN b.lead ELSE 0
    IN /\ \A b, c \in all : b # c => Units(b) \intersect Units(c) = {}
       /\ MapThenSumSet(Extent, all) + leaked = pages * PageUnits

\* nurl_wa_insert: the free list is in address order and no two of its blocks
\* touch, so a request fails only when no run of free memory is long enough.
FullyMerged ==
    \A i \in 1 .. Len(free) - 1 : free[i].at + free[i].size < free[i + 1].at

\* The guard of nurl_wa_alloc: a block is never smaller than what was asked, unless
\* the length of an aligned request wrapped before it got there.
BlockHolds == \A b \in blocks : b.size - 1 >= b.asked \/ (b.lead > 0 /\ Wraps(b.asked))

\* The note above aligned_alloc: free finds a header where it expects one, and
\* with it the whole block.
AlignedReturned == leaked = 0
=============================================================================
