----------------------------- MODULE GuestPaging ----------------------------
(***************************************************************************)
(* unikernel/boot/multiboot2.c, platform_x86.c: the memory map read from a *)
(* boot loader's tags or from the hypervisor, the memory the guest takes   *)
(* of it, and the page tables behind mmap, munmap and mprotect.  The boot  *)
(* tables map the low part of memory with large pages; a protection of one *)
(* small page splits the large one, with a table of a pool reserved at     *)
(* boot.  Coroutine stacks (runtime_bare.c) arm a guard page, and the      *)
(* pages go back to the page allocator mapped.                             *)
(*                                                                         *)
(* Addresses are page numbers.                                             *)
(***************************************************************************)
EXTENDS PageAlloc

CONSTANTS
    Handovers,    \* [by, tags]: "pvh" with one map, or "mb2" with a boot loader's tags,
                  \* [kind, fits, wide, entries]; an entry is [base, len, usable]
    Mb2Max,       \* MB2_MAX_MMAP
    Image,        \* __heap_start: the first page past the image
    BootStack,    \* boot_stack_bottom, a page of the image
    MappedEnd,    \* the first page boot.S does not map
    Big,          \* pages of a large page (512)
    PoolTables,   \* PT_POOL_TABLES
    PoolPages,    \* the pages the pool takes
    StackPages,   \* a coroutine stack, its guard page included
    Sizes,        \* the lengths a program maps
    MaxOps        \* bound: calls

VARIABLES
    boot,         \* how this guest was started
    map,          \* the memory map it reads
    page0,        \* the handover block or the command line lies in page zero
    pa,           \* the page allocator
    pt,           \* [split, absent, dead]: the large pages split, the small pages not present
    maps,         \* the mappings alive: [at, len, stack]
    spawned,      \* a coroutine stack was ever armed
    ops

vars == <<boot, map, page0, pa, pt, maps, spawned, ops>>
----------------------------------------------------------------------------
\* mb2_to_start_info: the tags up to the end tag; the map's entries are copied to a
\* table, and every failure is kept as a sentence for kmain.
Mb2Start == [map |-> <<>>, over |-> FALSE, truncated |-> FALSE, why |-> ""]
\* What does not fit is left out.
SilentCopy(acc, es) ==
    [acc EXCEPT !.map = IF Len(@ \o es) <= Mb2Max THEN @ \o es ELSE SubSeq(@ \o es, 1, Mb2Max)]
Copy(acc, es) ==
    IF Len(acc.map \o es) <= Mb2Max THEN [acc EXCEPT !.map = @ \o es]
    ELSE [acc EXCEPT !.map = SubSeq(@ \o es, 1, Mb2Max), !.truncated = TRUE]
Mb2Tag(acc, t) ==
    CASE acc.over \/ acc.why # "" -> acc
      [] t.kind = "end" -> [acc EXCEPT !.over = TRUE]
      [] ~t.fits        -> [acc EXCEPT !.why = "tag past the end"]
      [] t.kind = "mmap" /\ ~t.wide -> [acc EXCEPT !.why = "entry size"]
      [] t.kind = "mmap" -> Copy(acc, t.entries)
      [] OTHER          -> acc
ToStartInfo(tags) ==
    LET a == FoldLeft(Mb2Tag, Mb2Start, tags) IN
    CASE a.why # "" -> a
      [] a.truncated -> [a EXCEPT !.why = "too many regions"]
      [] a.map = <<>> -> [a EXCEPT !.why = "no memory map"]
      [] OTHER -> a

\* The map, and why there is none.
Handover(b) == IF b.by = "mb2" THEN ToStartInfo(b.tags) ELSE [Mb2Start EXCEPT !.map = b.tags[1].entries]

\* An entry that begins below the image keeps its length.
SlidTrim(e) == IF e.base < Image THEN [base |-> Image, len |-> e.len] ELSE [base |-> e.base, len |-> e.len]
\* mem_init's clipping of an entry at the end of the image.
Trim(e) ==
    IF e.base < Image THEN [base |-> Image, len |-> e.len - (Image - e.base)]
    ELSE [base |-> e.base, len |-> e.len]

\* The largest usable range above the image, the first of equals; length 0
\* when there is none.
Best(m) ==
    FoldLeft(LAMBDA b, e : IF e.usable /\ e.base + e.len > Image /\ Trim(e).len > b.len
                           THEN Trim(e) ELSE b,
             [base |-> 0, len |-> 0], m)

\* mprotect of the pages ps: each large page under one of them is split first,
\* and running out of tables stops the machine; a page outside the boot tables
\* ends the call with -1.
Mprotect(t, ps, prot) ==
    LET known == {p \in ps : p < MappedEnd}
        split == t.split \union {p \div Big : p \in known} IN
    IF Cardinality(split) > PoolTables THEN [t EXCEPT !.dead = "out of page tables"]
    ELSE [t EXCEPT !.split = split,
                   !.absent = IF prot = "none" THEN @ \union known ELSE @ \ known,
                   !.dead = IF known = ps \/ prot # "none" THEN @ ELSE "no guard page"]

\* pf_guard_boot_stack and pf_guard_null_page.
Guards == {BootStack} \union (IF page0 THEN {} ELSE {0})

\* mem_init, then the two guard pages.  The pool is the first thing taken from
\* the range, and zeroed; a machine without a range, or with less than a pool,
\* panics, and one whose pool lies past what boot.S maps faults.  The range is not
\* clipped there: the page allocator gets all of it.
Init ==
    /\ boot \in Handovers /\ page0 \in BOOLEAN
    /\ map = Handover(boot).map
    /\ LET b == Best(map)
           why == Handover(boot).why
           next == b.base + PoolPages
           end == b.base + b.len
           fresh == [split |-> {}, absent |-> {}, dead |-> "no"] IN
       IF why # "" \/ b.len = 0 \/ next > end \/ next > MappedEnd
       THEN /\ pa = PaInit(0, 0)
            /\ pt = [fresh EXCEPT !.dead = CASE why # ""   -> why
                                             [] b.len = 0  -> "no memory"
                                             [] next > end -> "no pool"
                                             [] OTHER      -> "fault"]
       ELSE /\ pa = PaInit(next, end)
            /\ pt = Mprotect(fresh, Guards, "none")
    /\ maps = {} /\ spawned = FALSE /\ ops = 0

Running == pt.dead = "no" /\ ops < MaxOps
----------------------------------------------------------------------------
\* mmap of an anonymous range.
Mmap(n) ==
    LET r == PaAlloc(pa, n) IN
    /\ Running
    /\ pa' = r.pa
    /\ maps' = IF r.at = 0 THEN maps ELSE maps \union {[at |-> r.at, len |-> n, stack |-> FALSE]}
    /\ ops' = ops + 1
    /\ UNCHANGED <<boot, map, page0, pt, spawned>>

\* nb_coro_new: a stack with its first page unmapped.  A guard page that cannot
\* be armed ends the program.
CoroNew ==
    LET r == PaAlloc(pa, StackPages) IN
    /\ Running
    /\ pa' = r.pa
    /\ IF r.at = 0 THEN UNCHANGED <<pt, maps, spawned>>
       ELSE /\ pt' = Mprotect(pt, {r.at}, "none")
            /\ maps' = maps \union {[at |-> r.at, len |-> StackPages, stack |-> TRUE]}
            /\ spawned' = TRUE
    /\ ops' = ops + 1
    /\ UNCHANGED <<boot, map, page0>>

\* The pages go back as the coroutine left them.
BareRestored(t, m) == t
\* munmap restores the pages before it releases them.
Restored(t, m) == Mprotect(t, m.at .. m.at + m.len - 1, "rw")

\* munmap, by the program or by nb_coro_free.
Munmap(m) ==
    /\ Running
    /\ pt' = Restored(pt, m)
    /\ pa' = IF pt'.dead = "no" THEN PaFree(pa, m.at, m.len) ELSE pa
    /\ maps' = maps \ {m}
    /\ ops' = ops + 1
    /\ UNCHANGED <<boot, map, page0, spawned>>

Next ==
    \/ \E n \in Sizes : Mmap(n)
    \/ CoroNew
    \/ \E m \in maps : Munmap(m)

Spec == Init /\ [][Next]_vars
----------------------------------------------------------------------------
\* The allocator's record, the mappings and the page tables have their shape,
\* and the tables in use never exceed the boot-time pool.
TypeOK ==
    /\ boot \in Handovers /\ page0 \in BOOLEAN /\ spawned \in BOOLEAN
    /\ pa.base <= pa.next /\ pa.next <= pa.end
    /\ Cardinality(pt.split) <= PoolTables
    /\ \A m \in maps : m.at \in Nat /\ m.len \in Sizes \union {StackPages} /\ m.stack \in BOOLEAN
    /\ ops \in 0..MaxOps

\* Of the memory boot.S maps, the pages not present are the guard pages and no
\* others: the page below each live coroutine stack, the boot stack's and page
\* zero.  A page on the free list is therefore mapped, whatever was done with it
\* before, so the next owner of a finished coroutine's stack does not fault inside
\* malloc.  Pages from MappedEnd on, which mem_init hands over too, never are
\* mapped; a guest that cannot arm a guard page there stops.
OnlyGuardsUnmapped ==
    pt.dead = "no" => pt.absent = Guards \union {m.at : m \in {x \in maps : x.stack}}

\* A guest runs only with the whole map: every region a boot loader's tags report
\* before the end tag is one it knows of, and no region is made up.
MapWhole ==
    pt.dead = "no" =>
        LET ends == {i \in DOMAIN boot.tags : boot.tags[i].kind = "end"}
            told == {i \in DOMAIN boot.tags : boot.tags[i].kind = "mmap" /\ \A e \in ends : i < e} IN
        Range(map) = UNION {Range(boot.tags[i].entries) : i \in told}

\* Every page the allocator may hand out is RAM the hypervisor reported usable,
\* past the image and outside the page-table pool.
HeapIsUsable ==
    \A p \in pa.base .. pa.end - 1 :
        /\ p >= Image + IF Best(map).base = Image THEN PoolPages ELSE 0
        /\ \E i \in DOMAIN map : /\ map[i].usable
                                 /\ p >= map[i].base /\ p < map[i].base + map[i].len

\* "out of page tables - more coroutine stacks than the boot-time pool was sized
\* for" (split_2m): a program that never made a coroutine never sees it.
OnlyStacksExhaustPool == pt.dead = "out of page tables" => spawned
=============================================================================
