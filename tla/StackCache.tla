----------------------------- MODULE StackCache -----------------------------
(***************************************************************************)
(* stdlib/runtime_ffi.c: the memory of fiber stacks and the bounded LIFO   *)
(* that recycles it.  Sizes are pages counted from the top of a stack.     *)
(*                                                                         *)
(* On Windows the committed part of a stack grows through a guard page and *)
(* the header at its top records how far (StackLimit); a recycled stack    *)
(* that went past the kept part is put back to its fresh state.  On POSIX  *)
(* nothing records the depth, and every TrimEvery-th recycle of a stack    *)
(* releases what lies under the kept part.                                 *)
(***************************************************************************)
EXTENDS Integers, Sequences, FiniteSets, SequencesExt, FiniteSetsExt

CONSTANTS
    Stacks,       \* the stacks the address space has room for
    Systems,      \* the systems run on: a subset of {"windows", "posix"}
    Commit,       \* NURL_FIBER_STACK_COMMIT
    Keep,         \* NURL_FIBER_STACK_KEEP
    Usable,       \* the pages a fiber may use before the guard
    TrimEvery,    \* NURL_FIBER_TRIM_EVERY
    Cap,          \* NURL_FIBER_STACK_CACHE_CAP
    MaxFibers     \* bound: fibers made

VARIABLES
    os,
    stk,          \* per stack [st, pages, limit, guard, uses, deep]: st is "none", "fiber",
                  \* "recycled" or "cached"; pages are backed by memory from the top down, limit
                  \* and uses are the header's, guard is where the growth page lies, deep counts
                  \* the recycles since a page under the kept part was last backed
    cache,        \* nurl__stack_cache_head: a LIFO
    len,          \* nurl__stack_cache_len
    made

vars == <<os, stk, cache, len, made>>

Unmapped == [st |-> "none", pages |-> 0, limit |-> 0, guard |-> 0, uses |-> 0, deep |-> 0]

Init ==
    /\ os \in Systems
    /\ stk = [s \in Stacks |-> Unmapped] /\ cache = <<>> /\ len = 0 /\ made = 0
----------------------------------------------------------------------------
\* nurl__stack_map.  Elsewhere than on Windows only the header's page is backed.
Fresh == IF os = "windows"
         THEN [Unmapped EXCEPT !.st = "fiber", !.pages = Commit, !.limit = Commit, !.guard = Commit + 1]
         ELSE [Unmapped EXCEPT !.st = "fiber", !.pages = 1]

\* nurl__fiber_alloc from the cache: the newest stack.
AllocCached ==
    /\ made < MaxFibers /\ cache # <<>>
    /\ cache' = Tail(cache) /\ len' = len - 1
    /\ stk' = [stk EXCEPT ![Head(cache)].st = "fiber"]
    /\ made' = made + 1 /\ UNCHANGED os

\* nurl__fiber_alloc with an empty cache; mmap or a commit may fail.
AllocMapped(s) ==
    /\ made < MaxFibers /\ cache = <<>> /\ stk[s].st = "none"
    /\ \/ stk' = [stk EXCEPT ![s] = Fresh]
       \/ UNCHANGED stk
    /\ made' = made + 1 /\ UNCHANGED <<os, cache, len>>

\* getcontext failed: the stack is unmapped, wherever it came from.
AllocFails(s) ==
    /\ os = "posix" /\ stk[s].st = "fiber"
    /\ stk' = [stk EXCEPT ![s] = Unmapped]
    /\ UNCHANGED <<os, cache, len, made>>

\* The fiber uses d pages.  Windows commits them through the guard page, from
\* where the TIB's limit (restored from the header) says the committed part ends.
Grow(s, d) ==
    /\ stk[s].st = "fiber" /\ d > stk[s].pages
    /\ stk' = [stk EXCEPT ![s] = [@ EXCEPT !.pages = d,
                                           !.guard = IF os = "windows" THEN d + 1 ELSE 0,
                                           !.deep = IF d > Keep THEN 0 ELSE @]]
    /\ UNCHANGED <<os, cache, len, made>>
----------------------------------------------------------------------------
\* The committed part is given back and the header keeps what it said.
StaleReset(r) == [r EXCEPT !.pages = Commit, !.guard = Commit + 1]
\* The fresh state of nurl__stack_recycle.
Reset(r) == [r EXCEPT !.pages = Commit, !.guard = Commit + 1, !.limit = Commit]

\* A stack keeps every page a fiber ever touched.
NeverTrim(r) == [r EXCEPT !.deep = IF r.pages > Keep THEN @ + 1 ELSE 0]
\* The POSIX half: every TrimEvery-th recycle releases what is not kept.
Trim(r) ==
    LET u == (r.uses + 1) % TrimEvery IN
    IF u = 0 THEN [r EXCEPT !.uses = 0, !.pages = Min({@, Keep}), !.deep = 0]
    ELSE [r EXCEPT !.uses = u, !.deep = IF r.pages > Keep THEN @ + 1 ELSE 0]

\* nurl__stack_recycle of an ended fiber's stack, before the cache's lock.  On
\* Windows `seen` says the fiber finished and left its StackLimit; the commit of
\* the guard page may fail, and the stack is then unmapped.
RecycleStack(s, seen) ==
    /\ stk[s].st = "fiber"
    /\ \/ /\ os = "posix" /\ seen
          /\ stk' = [stk EXCEPT ![s] = [Trim(@) EXCEPT !.st = "recycled"]]
       \/ /\ os = "windows" /\ seen /\ stk[s].pages <= Keep
          /\ stk' = [stk EXCEPT ![s] = [@ EXCEPT !.limit = stk[s].pages, !.st = "recycled"]]
       \/ /\ os = "windows" /\ (~seen \/ stk[s].pages > Keep)
          /\ \/ stk' = [stk EXCEPT ![s] = [Reset(@) EXCEPT !.st = "recycled"]]
             \/ stk' = [stk EXCEPT ![s] = Unmapped]
    /\ UNCHANGED <<os, cache, len, made>>

\* A full cache takes one more.
LooseRoom == len <= Cap
Room == len < Cap
\* The rest of nurl__fiber_free: into the cache under its lock, or unmapped.
Cache(s) ==
    /\ stk[s].st = "recycled"
    /\ IF Room
       THEN /\ cache' = <<s>> \o cache /\ len' = len + 1
            /\ stk' = [stk EXCEPT ![s].st = "cached"]
       ELSE stk' = [stk EXCEPT ![s] = Unmapped] /\ UNCHANGED <<cache, len>>
    /\ UNCHANGED <<os, made>>

Next ==
    \/ AllocCached
    \/ \E s \in Stacks : \/ AllocMapped(s) \/ AllocFails(s) \/ Cache(s)
                         \/ \E d \in 1..Usable : Grow(s, d)
                         \/ \E seen \in BOOLEAN : RecycleStack(s, seen)

Spec == Init /\ [][Next]_vars
----------------------------------------------------------------------------
TypeOK ==
    /\ os \in Systems /\ made \in 0..MaxFibers /\ len \in 0..Cap
    /\ \A s \in Stacks : /\ stk[s].st \in {"none", "fiber", "recycled", "cached"}
                         /\ stk[s].pages \in 0..Usable /\ stk[s].uses \in 0..TrimEvery

\* The cache holds each stack once, counts what it holds and stays under its
\* cap, and a stack in it belongs to no fiber.
CacheExact ==
    /\ len = Len(cache) /\ len <= Cap
    /\ Cardinality(Range(cache)) = Len(cache)
    /\ \A s \in Stacks : (stk[s].st = "cached") = Contains(cache, s)

\* Windows: a stack on its way to its next fiber has its growth page right under
\* the committed part, and the header, which the next fiber's StackLimit is set
\* from, says where that is.  A limit that names released memory would fault the
\* next fiber below its guard page.
LimitIsTrue ==
    os = "windows" => \A s \in Stacks : stk[s].st \in {"recycled", "cached"} =>
        stk[s].limit = stk[s].pages /\ stk[s].guard = stk[s].pages + 1 /\ stk[s].pages <= Keep

\* POSIX: "A deep fiber's pages stay memory for at most that many more reuses of
\* its stack".
DeepPagesReturn == \A s \in Stacks : stk[s].deep < TrimEvery
=============================================================================
