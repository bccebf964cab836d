----------------------------- MODULE SmallAlloc -----------------------------
(***************************************************************************)
(* stdlib/runtime_core.c, section 9: nurl_alloc and nurl_free over libc.   *)
(* Every thread keeps freelists of small blocks in power-of-two classes, a *)
(* stash of empty control blocks, and a block of allocation counters that  *)
(* joins a push-only list a reader sums.  Both caches go back to libc when *)
(* the thread exits.                                                       *)
(***************************************************************************)
EXTENDS Integers, Sequences, FiniteSets, FiniteSetsExt

CONSTANTS
    Threads,       \* the program's threads
    Blocks,        \* the addresses libc may hand out
    MinShift,      \* log2 of the smallest class (4 in the code)
    MaxShift,      \* log2 of the largest class (9)
    BudgetShift,   \* log2 of the bytes a class may cache (20)
    Requests,      \* the sizes the program asks for
    Chunks,        \* the usable sizes libc may give
    StashDepth,    \* control blocks one kind holds (32)
    MaxAllocs,     \* bound: allocations in a behaviour
    None           \* no thread

VARIABLES
    on,         \* nurl__sc_on: "unknown", "on" or "off"
    tls,        \* per thread: freelists, their counts, whether the exit hook is set
    stash,      \* per thread: nurl__stash of one kind, newest last
    data,       \* the buffer of a parked control block: a block, or itself when packed
    size,       \* the usable size of every block outside libc
    asked,      \* the size its holder asked for
    live,       \* the blocks the program holds
    libc,       \* how often a block is in libc's hands: 1 or 0
    list,       \* nurl__actr_list: its first thread
    next,       \* the list's links
    join,       \* "out", "linked" (self->next set, not published) or "in"
    alloc,      \* per thread, the counters of its block
    freed,
    exited,     \* threads that ended
    strayed     \* blocks libc got back uncounted, from an exiting thread's stash

cacheVars == <<on, tls, stash, data, size, asked, live, libc>>
vars == <<cacheVars, list, next, join, alloc, freed, exited, strayed>>

Classes == 0 .. MaxShift - MinShift

\* nurl__sc_floor_class: the class of the largest power of two in n, class 0
\* below the second one, none (-1) above the largest.
floor_class(n) ==
    CASE n < 2^(MinShift + 1) -> 0
      [] n > 2^MaxShift       -> -1
      [] OTHER -> (CHOOSE k \in MinShift .. MaxShift : 2^k <= n /\ n < 2^(k + 1)) - MinShift

\* The blocks a class may hold: 1 MB of its smallest.
Budget(c) == 2^(BudgetShift - (c + MinShift))

Init ==
    /\ on = "unknown"
    /\ tls = [t \in Threads |-> [head  |-> [c \in Classes |-> <<>>],
                                 count |-> [c \in Classes |-> 0],
                                 registered |-> FALSE]]
    /\ stash = [t \in Threads |-> <<>>]
    /\ data = [b \in Blocks |-> b]
    /\ size = [b \in Blocks |-> 0]
    /\ asked = [b \in Blocks |-> 0]
    /\ live = {}
    /\ libc = [b \in Blocks |-> 1]
    /\ list = None
    /\ next = [t \in Threads |-> None]
    /\ join = [t \in Threads |-> "out"]
    /\ alloc = [t \in Threads |-> 0]
    /\ freed = [t \in Threads |-> 0]
    /\ exited = {}
    /\ strayed = 0

-----------------------------------------------------------------------------
(* The counters: a block per thread, on a list that is only pushed to.     *)

\* nurl__actr_join, first half: the new block points at the head just read.
JoinLink(t) ==
    /\ t \notin exited /\ join[t] = "out"
    /\ next' = [next EXCEPT ![t] = list]
    /\ join' = [join EXCEPT ![t] = "linked"]
    /\ UNCHANGED <<cacheVars, list, alloc, freed, exited, strayed>>

\* A plain store of the head instead of the compare-and-exchange.
BlindJoinPublish(t) ==
    /\ join[t] = "linked"
    /\ list' = t /\ join' = [join EXCEPT ![t] = "in"]
    /\ UNCHANGED <<cacheVars, next, alloc, freed, exited, strayed>>

\* The compare-and-exchange: published, or linked again to the newer head.
JoinPublish(t) ==
    /\ join[t] = "linked"
    /\ IF list = next[t]
       THEN list' = t /\ join' = [join EXCEPT ![t] = "in"] /\ UNCHANGED next
       ELSE next' = [next EXCEPT ![t] = list] /\ UNCHANGED <<list, join>>
    /\ UNCHANGED <<cacheVars, alloc, freed, exited, strayed>>

\* The blocks a reader walks from the head.
Reached == LET walk[n \in 0 .. Cardinality(Threads)] ==
                   IF n = 0 THEN {list} \ {None}
                   ELSE walk[n - 1] \cup ({next[t] : t \in walk[n - 1]} \ {None})
           IN  walk[Cardinality(Threads)]

\* nurl__actr_total: the sum over the list.
Total(f) == MapThenSumSet(LAMBDA t : f[t], Reached)

-----------------------------------------------------------------------------
(* The freelists.                                                          *)

\* nurl__sc_live with its first use, nurl__sc_init: the environment decides
\* once whether the cache is on.
SetOn == IF on = "unknown" THEN on' \in {"on", "off"} ELSE UNCHANGED on

\* The class sc_pop takes from for a request: the floor class when its head
\* is large enough, else the next one up; None on a miss.
AnyHeadPopClass(t, n) ==
    LET c == floor_class(n)
        h == tls[t].head
    IN  CASE c = -1 \/ on' # "on"                            -> None
          [] c # -1 /\ on' = "on" /\ h[c] # <<>>             -> c
          [] c # -1 /\ on' = "on" /\ h[c] = <<>> /\ c + 1 \in Classes
                 /\ h[c + 1] # <<>>                          -> c + 1
          [] OTHER                                           -> None
PopClass(t, n) ==
    LET c == floor_class(n)
        h == tls[t].head
        headFits == h[c] # <<>> /\ size[h[c][1]] >= n
    IN  IF c = -1 \/ on' # "on" THEN None
        ELSE IF headFits THEN c
        ELSE IF c + 1 \in Classes /\ h[c + 1] # <<>> THEN c + 1 ELSE None

\* The program holds b for a request of n; the block is counted.
HandOut(t, b, n) ==
    /\ live' = live \cup {b}
    /\ asked' = [asked EXCEPT ![b] = n]
    /\ alloc' = [alloc EXCEPT ![t] = @ + 1]

\* sc_pop's unlinking, decrementing the floor class whatever class it took.
FloorCountPop(t, c, n) ==
    tls' = [tls EXCEPT ![t].head[c] = Tail(@), ![t].count[floor_class(n)] = @ - 1]
Pop(t, c, n) ==
    tls' = [tls EXCEPT ![t].head[c] = Tail(@), ![t].count[c] = @ - 1]

\* nurl_alloc, nurl_zalloc, nurl_strdup: a cached block, else one of libc's.
\* The first call of a thread joins the counters before.
nurl_alloc(t, n) ==
    /\ t \notin exited /\ join[t] = "in" /\ Total(alloc) < MaxAllocs
    /\ SetOn
    /\ LET c == PopClass(t, n) IN
       \/ /\ c # None
          /\ HandOut(t, tls[t].head[c][1], n)
          /\ Pop(t, c, n)
          /\ UNCHANGED <<size, libc>>
       \/ /\ c = None
          /\ \E b \in Blocks, u \in Chunks :
               /\ libc[b] > 0 /\ u >= n
               /\ HandOut(t, b, n)
               /\ libc' = [libc EXCEPT ![b] = @ - 1]
               /\ size' = [size EXCEPT ![b] = u]
          /\ UNCHANGED tls
    /\ UNCHANGED <<stash, data, list, next, join, freed, exited, strayed>>

\* nurl__sc_push refuses: off, too small or too large, or the class full.
PushClass(t, b) ==
    LET c == floor_class(size[b]) IN
    IF on' = "on" /\ c # -1 /\ size[b] >= 2^MinShift /\ tls[t].count[c] < Budget(c)
    THEN c ELSE None

\* A push that leaves the exit hook unset.
UnhookedPush(t, c, b) ==
    tls' = [tls EXCEPT ![t].head[c] = <<b>> \o @, ![t].count[c] = @ + 1]
Push(t, c, b) ==
    tls' = [tls EXCEPT ![t].head[c] = <<b>> \o @, ![t].count[c] = @ + 1,
                       ![t].registered = TRUE]

\* A free that hands the block to libc after the freelist took it.
CachedAndFreed(t, b) ==
    LET c == PushClass(t, b) IN
    /\ IF c # None THEN Push(t, c, b) ELSE UNCHANGED tls
    /\ libc' = [libc EXCEPT ![b] = @ + 1]
Release(t, b) ==
    LET c == PushClass(t, b) IN
    IF c # None THEN Push(t, c, b) /\ UNCHANGED libc
                ELSE libc' = [libc EXCEPT ![b] = @ + 1] /\ UNCHANGED tls

\* nurl_free outside any recover extent: counted, then cached or given back.
nurl_free(t, b) ==
    /\ t \notin exited /\ join[t] = "in" /\ b \in live
    /\ SetOn
    /\ live' = live \ {b}
    /\ asked' = [asked EXCEPT ![b] = 0]
    /\ freed' = [freed EXCEPT ![t] = @ + 1]
    /\ Release(t, b)
    /\ UNCHANGED <<stash, data, size, list, next, join, alloc, exited, strayed>>

\* nurl_realloc of a block: libc's realloc, in place or moved, uncounted.
nurl_realloc(t, b, n) ==
    /\ t \notin exited /\ b \in live
    /\ \E d \in Blocks, u \in Chunks :
         /\ (d = b \/ libc[d] > 0) /\ u >= n
         /\ live' = (live \ {b}) \cup {d}
         /\ size' = [size EXCEPT ![d] = u]
         /\ asked' = [asked EXCEPT ![b] = 0, ![d] = n]
         /\ libc' = IF d = b THEN libc ELSE [libc EXCEPT ![b] = @ + 1, ![d] = @ - 1]
    /\ UNCHANGED <<on, tls, stash, data, list, next, join, alloc, freed, exited, strayed>>

-----------------------------------------------------------------------------
(* The stash of empty control blocks.                                      *)

\* nurl_stash_push: an emptied control block with its buffer d (d = b when
\* the bytes follow the block itself).  A full kind refuses.
nurl_stash_push(t, b, d) ==
    /\ t \notin exited /\ {b, d} \subseteq live
    /\ Len(stash[t]) < StashDepth
    /\ stash' = [stash EXCEPT ![t] = Append(@, b)]
    /\ data' = [data EXCEPT ![b] = d]
    /\ live' = live \ {b, d}
    /\ UNCHANGED <<on, tls, size, asked, libc, list, next, join, alloc, freed, exited, strayed>>

\* nurl_stash_pop: the newest of the kind, with its buffer.
nurl_stash_pop(t) ==
    /\ t \notin exited /\ stash[t] # <<>>
    /\ LET b == stash[t][Len(stash[t])] IN
         /\ live' = live \cup {b, data[b]}
         /\ data' = [data EXCEPT ![b] = b]
    /\ stash' = [stash EXCEPT ![t] = SubSeq(@, 1, Len(@) - 1)]
    /\ UNCHANGED <<on, tls, size, asked, libc, list, next, join, alloc, freed, exited, strayed>>

Parked(t) == {stash[t][i] : i \in DOMAIN stash[t]}
ParkedWithData(t) == Parked(t) \cup {data[b] : b \in Parked(t)}
Cached(t) == UNION {{tls[t].head[c][i] : i \in DOMAIN tls[t].head[c]} : c \in Classes}

\* The flush of a stash that frees the buffer even when it is packed.
TwiceStashFlush(t) ==
    [b \in Blocks |-> libc[b] + (IF b \in Parked(t) THEN 1 ELSE 0)
                              + (IF b \in {data[d] : d \in Parked(t)} THEN 1 ELSE 0)]
\* nurl__stash_thread_flush: block and buffer back to libc, a packed one once.
StashFlush(t) ==
    [b \in Blocks |-> libc[b] + (IF b \in ParkedWithData(t) THEN 1 ELSE 0)]

\* A thread exits: the key destructors flush what a registered thread caches,
\* in either order.
ThreadExit(t) ==
    /\ t \notin exited /\ join[t] # "linked"
    /\ exited' = exited \cup {t}
    /\ libc' = [b \in Blocks |-> StashFlush(t)[b]
                    + (IF tls[t].registered /\ b \in Cached(t) THEN 1 ELSE 0)]
    /\ tls' = IF tls[t].registered
              THEN [tls EXCEPT ![t].head = [c \in Classes |-> <<>>],
                               ![t].count = [c \in Classes |-> 0]]
              ELSE tls
    /\ stash' = [stash EXCEPT ![t] = <<>>]
    /\ strayed' = strayed + Cardinality(ParkedWithData(t))
    /\ UNCHANGED <<on, data, size, asked, live, list, next, join, alloc, freed>>

Next ==
    \E t \in Threads :
        \/ JoinLink(t) \/ JoinPublish(t)
        \/ \E n \in Requests : nurl_alloc(t, n)
        \/ \E b \in live : nurl_free(t, b)
        \/ \E b \in live, n \in Requests : nurl_realloc(t, b, n)
        \/ \E b, d \in live : nurl_stash_push(t, b, d)
        \/ nurl_stash_pop(t)
        \/ ThreadExit(t)

Spec == Init /\ [][Next]_vars

-----------------------------------------------------------------------------
Times(s, b) == Cardinality({i \in DOMAIN s : s[i] = b})

\* Every block has one holder: the program, one place of one freelist, one
\* stash entry, or libc.  Nothing is handed out twice, freed twice or lost.
OneHolder ==
    \A b \in Blocks :
        LET lists(t) == MapThenSumSet(LAMBDA c : Times(tls[t].head[c], b), Classes)
            parked(t) == IF b \in ParkedWithData(t) THEN 1 ELSE 0
        IN  libc[b] + (IF b \in live THEN 1 ELSE 0)
              + MapThenSumSet(lists, Threads) + MapThenSumSet(parked, Threads) = 1

\* A block handed out is large enough for its request, recycled ones too: a
\* floor-class head only might be.
Fits == \A b \in live : size[b] >= asked[b]

\* A class never caches more than its budget, because its count is the
\* length of its list whichever class a request was served from.
BudgetHeld ==
    \A t \in Threads, c \in Classes :
        /\ tls[t].count[c] = Len(tls[t].head[c])
        /\ Len(tls[t].head[c]) <= Budget(c)

\* What a reader of the two counters computes is the number of blocks held,
\* whoever joined the list meanwhile: no thread's counts are lost.
LiveTotal ==
    Total(alloc) - Total(freed)
        = Cardinality(live) + Cardinality(UNION {ParkedWithData(t) : t \in Threads}) + strayed

\* An exited thread strands no block in a cache nobody can reach.
ExitedHoldsNothing == \A t \in exited : Cached(t) = {} /\ stash[t] = <<>>
=============================================================================
