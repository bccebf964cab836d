--------------------------- MODULE CycleCollector ---------------------------
(***************************************************************************)
(* stdlib/runtime_core.c, the reference-count cycle collector, with the    *)
(* handles of stdlib/std/rc.nu that drive it.  One context: a block counts *)
(* its strong and weak handles; a strong count that falls but stays above  *)
(* zero buffers the block as a possible root; trial deletion over the      *)
(* buffer finds the blocks only a cycle holds.                             *)
(*                                                                         *)
(* `m` is the collector and the heap, a record that the functions of the   *)
(* code take to its next value; m.stack is the C stack of releases and of  *)
(* a collection under way, each step of which drops one edge.              *)
(***************************************************************************)
EXTENDS Integers, Sequences, FiniteSets, SequencesExt

CONSTANTS
    Objs,            \* the collectable blocks
    MaxHandles,      \* bound: handles the program holds
    MaxOut,          \* bound: handles one value holds
    DropDepth,       \* NURL_RC_DROP_DEPTH (64)
    MinThreshold,    \* NURL_CC_MIN_THRESHOLD (4096)
    WeakInGraph      \* whether a value may hold a Weak of a block with edges of its own

VARIABLES
    m,          \* the collector's state and the heap
    ext,        \* the program's strong handles
    wext,       \* the program's weak handles
    resource,   \* mem_resource of the blocks' type
    phase       \* "run", "ending" or "ended"

vars == <<m, ext, wext, resource, phase>>

Zero == [b \in Objs |-> 0]
Init ==
    /\ m = [mem |-> {}, strong |-> Zero, weak |-> Zero,
            out |-> [b \in Objs |-> <<>>], wout |-> [b \in Objs |-> <<>>],
            color |-> [b \in Objs |-> "black"], buf |-> {}, dead |-> {}, fl |-> {},
            roots |-> <<>>, deferred |-> <<>>, depth |-> 0, batch |-> 0,
            urgent |-> FALSE, collecting |-> FALSE, stack |-> <<>>, bad |-> {}]
    /\ ext = Zero /\ wext = Zero
    /\ resource \in BOOLEAN
    /\ phase = "run"

\* A context of resource blocks collects them one at a time; its buffer
\* stays below the threshold at the bounds here.  Elsewhere the threshold stays at
\* its least; a collection after which many roots live raises it, and the next one
\* comes later.
Threshold == IF resource THEN Cardinality(Objs) + 1 ELSE MinThreshold

\* A read or write of a block's header.
Touch(S, b) == IF b \in S.mem THEN S ELSE [S EXCEPT !.bad = @ \cup {b}]
Free(S, b) == [Touch(S, b) EXCEPT !.mem = @ \ {b}]

-----------------------------------------------------------------------------
(* Trial deletion.  Each walk is a worklist, as in the code.               *)

Paint(S, b, c) == [S EXCEPT !.color[b] = c]

\* nurl__cc_markgray: every edge met is taken off its target's count.
RECURSIVE MarkGray(_, _)
MarkGray(S0, st) ==
    IF st = <<>> THEN S0
    ELSE LET h == Last(st)
             S == Touch(S0, h) IN
         IF S.color[h] = "gray" THEN MarkGray(S, Front(st))
         ELSE LET T == FoldLeft(LAMBDA A, t : [A EXCEPT !.strong[t] = @ - 1],
                                Paint(S, h, "gray"), S.out[h])
              IN  MarkGray(T, Front(st) \o SelectSeq(S.out[h], LAMBDA t : T.color[t] # "gray"))

\* nurl__cc_scanblack: live after all, the edges count again.
RECURSIVE ScanBlack(_, _)
ScanBlack(S, st) ==
    IF st = <<>> THEN S
    ELSE LET h == Last(st)
             visit(A, t) == [S |-> Paint([A.S EXCEPT !.strong[t] = @ + 1], t, "black"),
                             st |-> IF A.S.color[t] = "black" THEN A.st ELSE Append(A.st, t)]
             A == FoldLeft(visit, [S |-> S, st |-> Front(st)], S.out[h])
         IN  ScanBlack(A.S, A.st)

\* nurl__cc_scan: gray blocks nothing outside counts turn white.
RECURSIVE Scan(_, _)
Scan(S, st) ==
    IF st = <<>> THEN S
    ELSE LET h == Last(st) IN
         IF S.color[h] # "gray" THEN Scan(S, Front(st))
         ELSE IF S.strong[h] > 0 THEN Scan(ScanBlack(Paint(S, h, "black"), <<h>>), Front(st))
         ELSE Scan(Paint(S, h, "white"), Front(st) \o S.out[h])

\* nurl__cc_collectwhite: the white blocks, unbuffered ones, are the garbage.
RECURSIVE CollectWhite(_, _, _)
CollectWhite(S, garbage, st) ==
    IF st = <<>> THEN [S |-> S, garbage |-> garbage]
    ELSE LET h == Last(st) IN
         IF S.color[h] # "white" \/ h \in S.buf THEN CollectWhite(S, garbage, Front(st))
         ELSE CollectWhite([Paint(S, h, "black") EXCEPT !.dead = @ \cup {h}],
                           Append(garbage, h), Front(st) \o S.out[h])

\* nurl__cc_free_block: only once no Weak names it.
FreeBlock(S, h) == LET T == Touch(S, h) IN IF T.weak[h] = 0 THEN Free(T, h) ELSE T

\* MarkRoots on one entry of the buffer: a purple block still counted is
\* walked, any other leaves the buffer, and goes if its release left it there.
MarkRoot(S0, h) ==
    LET S == Touch(S0, h) IN
    IF S.color[h] = "purple" /\ S.strong[h] > 0 THEN MarkGray(S, <<h>>)
    ELSE LET T == [S EXCEPT !.buf = @ \ {h},
                            !.color[h] = IF @ = "purple" THEN "black" ELSE @]
         IN  IF T.strong[h] <= 0 /\ h \in T.fl THEN FreeBlock(T, h) ELSE T

\* Edges of garbage into live blocks left uncounted after the trial.
UnrestoredEdges(S, garbage) == S
\* The edges of the garbage into live blocks, which the trial took away,
\* count again until the drops below take them.
RestoreEdges(S, garbage) ==
    FoldLeft(LAMBDA A, g : FoldLeft(LAMBDA B, t : IF t \in B.dead THEN B
                                                  ELSE [B EXCEPT !.strong[t] = @ + 1],
                                    A, S.out[g]),
             S, garbage)

\* nurl__cc_run_roots up to the drops: they follow on the stack.
RunRoots(S, rs) ==
    LET marked == FoldLeft(MarkRoot, S, rs)
        live == SelectSeq(rs, LAMBDA h : S.color[h] = "purple" /\ S.strong[h] > 0
                                         /\ h \in marked.buf)
        scanned == FoldLeft(LAMBDA A, h : Scan(A, <<h>>), marked, live)
        collected == FoldLeft(LAMBDA A, h : CollectWhite([A.S EXCEPT !.buf = @ \ {h}],
                                                         A.garbage, <<h>>),
                              [S |-> scanned, garbage |-> <<>>], live)
        T == RestoreEdges(collected.S, collected.garbage)
    IN  [T EXCEPT !.collecting = TRUE,
                  !.stack = Append(@, [k |-> "run", h |-> collected.garbage, all |-> collected.garbage])]

\* The call of nurl__cc_run_roots: the next step of the stack is the collection.
Call(S, rs) ==
    [S EXCEPT !.collecting = TRUE,
              !.stack = Append(@, [k |-> "collect", h |-> rs, all |-> <<>>])]
Called(S) == S.stack # <<>> /\ Last(S.stack).k = "collect"

\* nurl__cc_run: the buffer as it stands; drops meanwhile buffer anew.
Run(S) == IF S.collecting \/ S.roots = <<>> THEN S
          ELSE Call([S EXCEPT !.roots = <<>>], S.roots)

-----------------------------------------------------------------------------
(* Counts going down.                                                      *)

\* nurl_cc_possible_root.
PossibleRoot(S, h) ==
    IF S.color[h] = "purple" THEN S
    ELSE LET P == Paint(S, h, "purple") IN
         IF h \in P.buf THEN P
         ELSE LET Q == [P EXCEPT !.buf = @ \cup {h}, !.roots = Append(@, h)]
              IN  IF Len(Q.roots) >= Threshold /\ ~Q.collecting THEN Run(Q) ELSE Q

\* A block leaves the buffer: the last entry takes its place.
Unbuffer(S, h) ==
    LET i == CHOOSE i \in DOMAIN S.roots : S.roots[i] = h
    IN  [S EXCEPT !.roots = Front([@ EXCEPT ![i] = Last(S.roots)])]

\* nurl_cc_collect_now that forgets a block it may not collect yet.
HastyCollectNow(S0, h) ==
    LET S == PossibleRoot(S0, h) IN
    IF Called(S) \/ h \notin S.buf \/ S.collecting \/ S.depth > 0 \/ S.batch > 0 THEN S
    ELSE Call(Unbuffer(S, h), <<h>>)
\* nurl_cc_collect_now: a run of its own, or one as soon as the release,
\* the collection or the container's drop under way is over.
CollectNow(S0, h) ==
    LET S == PossibleRoot(S0, h) IN
    IF Called(S) \/ h \notin S.buf THEN S
    ELSE IF S.collecting \/ S.depth > 0 \/ S.batch > 0 THEN [S EXCEPT !.urgent = TRUE]
    ELSE Call(Unbuffer(S, h), <<h>>)

\* nurl_rc_drop_value's entry: a release, or one that waits for the outermost.
DropValue(S, h) ==
    IF S.depth >= DropDepth THEN [S EXCEPT !.deferred = Append(@, h)]
    ELSE [S EXCEPT !.depth = @ + 1, !.stack = Append(@, [k |-> "rel", h |-> h, all |-> <<>>])]

\* Rc_drop of std/rc.nu on a cyclic type.
RcDrop(S0, h) ==
    LET S == [Touch(S0, h) EXCEPT !.strong[h] = @ - 1] IN
    IF h \in S0.dead THEN Touch(S0, h)
    ELSE IF S.strong[h] <= 0 THEN DropValue(S, h)
    ELSE IF resource THEN CollectNow(S, h) ELSE PossibleRoot(S, h)

\* Weak_drop of std/rc.nu: the last Weak of a dropped value frees the block,
\* unless the buffer still names it.
WeakDrop(S0, h) ==
    LET S == [Touch(S0, h) EXCEPT !.weak[h] = @ - 1]
    IN  IF S.weak[h] = 0 /\ S.strong[h] <= 0 /\ h \notin S.buf THEN Free(S, h) ELSE S

\* nurl__rc_finish freeing a block the buffer still names.
CarelessRcFinish(S0, h) ==
    LET S == Touch(S0, h) IN IF S.weak[h] = 0 THEN Free(S, h) ELSE S
\* nurl__rc_finish: a buffered block leaves the buffer first, or is left to
\* the collection under way.
RcFinish(S0, h) ==
    LET S == Touch(S0, h)
        T == IF h \in S.buf THEN [Unbuffer(S, h) EXCEPT !.buf = @ \ {h}] ELSE S
    IN  IF h \in S.buf /\ S.collecting THEN [S EXCEPT !.fl = @ \cup {h}]
        ELSE IF T.weak[h] = 0 THEN Free(T, h) ELSE T

-----------------------------------------------------------------------------
(* The C stack: releases, a collection's drops, a container's release.     *)

Top == Last(m.stack)
Busy == m.stack # <<>>
\* The block whose value the top of the stack is dropping.
Dropping == CASE Top.k = "rel" -> Top.h
              [] Top.k = "run" -> IF Top.h = <<>> THEN "none" ELSE Head(Top.h)
              [] OTHER -> "none"
Pop(S) == [S EXCEPT !.stack = Front(@)]
\* The collection asked for meanwhile, once nothing is in its way.
Urgent(S) ==
    IF S.urgent /\ S.depth = 0 /\ ~S.collecting /\ S.batch = 0
    THEN Run([S EXCEPT !.urgent = FALSE]) ELSE S
\* A collection sets the count of each block it releases to zero.
Begun == IF Top.k = "run" THEN [m EXCEPT !.strong[Dropping] = 0] ELSE m

\* The collection itself, up to its drops.
Collecting ==
    /\ Busy /\ Top.k = "collect"
    /\ m' = RunRoots(Pop(m), Top.h)
    /\ UNCHANGED <<ext, wext, resource, phase>>

\* drop_value: one strong handle of the value.
DropEdge ==
    /\ Busy /\ Dropping # "none" /\ m.out[Dropping] # <<>>
    /\ m' = RcDrop([Begun EXCEPT !.out[Dropping] = Tail(@)], Head(m.out[Dropping]))
    /\ UNCHANGED <<ext, wext, resource, phase>>

\* drop_value: one weak handle of the value.
DropWeakEdge ==
    /\ Busy /\ Dropping # "none" /\ m.wout[Dropping] # <<>>
    /\ m' = WeakDrop([Begun EXCEPT !.wout[Dropping] = Tail(@)], Head(m.wout[Dropping]))
    /\ UNCHANGED <<ext, wext, resource, phase>>

Emptied(b) == m.out[b] = <<>> /\ m.wout[b] = <<>>

\* The value is dropped: nurl__rc_finish, and the outermost release takes
\* the deferred ones before it ends.
ReleaseEnd ==
    /\ Busy /\ Top.k = "rel" /\ Emptied(Top.h)
    /\ LET S == RcFinish(m, Top.h) IN
       m' = IF S.depth = 1 /\ S.deferred # <<>>
            THEN [S EXCEPT !.deferred = Front(@), !.stack[Len(S.stack)].h = Last(S.deferred)]
            ELSE Urgent([Pop(S) EXCEPT !.depth = @ - 1])
    /\ UNCHANGED <<ext, wext, resource, phase>>

RunNext ==
    /\ Busy /\ Top.k = "run" /\ Top.h # <<>> /\ Emptied(Head(Top.h))
    /\ m' = [Touch(Begun, Dropping) EXCEPT !.stack[Len(m.stack)].h = Tail(@)]
    /\ UNCHANGED <<ext, wext, resource, phase>>

\* Every value of the garbage is dropped: its blocks go.
RunEnd ==
    /\ Busy /\ Top.k = "run" /\ Top.h = <<>>
    /\ m' = Urgent([Pop(FoldLeft(FreeBlock, m, Top.all)) EXCEPT !.collecting = FALSE])
    /\ UNCHANGED <<ext, wext, resource, phase>>

\* nurl__vec_drop_elems: the handles of a container, then nurl__cc_batch_end.
BatchNext ==
    /\ Busy /\ Top.k = "batch" /\ Top.h # <<>>
    /\ m' = RcDrop([m EXCEPT !.stack[Len(m.stack)].h = Tail(@)], Head(Top.h))
    /\ UNCHANGED <<ext, wext, resource, phase>>
BatchEnd ==
    /\ Busy /\ Top.k = "batch" /\ Top.h = <<>>
    /\ m' = Urgent([Pop(m) EXCEPT !.batch = @ - 1])
    /\ UNCHANGED <<ext, wext, resource, phase>>

-----------------------------------------------------------------------------
(* The program, between releases.                                          *)

Idle == ~Busy /\ phase = "run"
Held == FoldFunction(LAMBDA a, b : a + b, 0, ext) + FoldFunction(LAMBDA a, b : a + b, 0, wext)

RcNew(b) ==
    /\ Idle /\ b \notin m.mem /\ Held < MaxHandles
    /\ m' = [m EXCEPT !.mem = @ \cup {b}, !.strong[b] = 1, !.weak[b] = 0, !.color[b] = "black",
                      !.dead = @ \ {b}, !.fl = @ \ {b}]
    /\ ext' = [ext EXCEPT ![b] = 1]
    /\ UNCHANGED <<wext, resource, phase>>

RcClone(b) ==
    /\ Idle /\ ext[b] > 0 /\ Held < MaxHandles
    /\ m' = [m EXCEPT !.strong[b] = @ + 1]
    /\ ext' = [ext EXCEPT ![b] = @ + 1]
    /\ UNCHANGED <<wext, resource, phase>>

\* The blocks that following the strong edges of `out` from B reaches.
Closure(out, B) ==
    LET step[n \in 0 .. Cardinality(Objs)] ==
            IF n = 0 THEN B ELSE step[n - 1] \cup UNION {ToSet(out[b]) : b \in step[n - 1]}
    IN  step[Cardinality(Objs)]
\* The weak edges the run's inputs allow.
WeakEdgesAllowed(S) ==
    WeakInGraph \/ \A p \in Objs : \A b \in ToSet(S.wout[p]) :
                       p # b /\ S.out[b] = <<>> /\ \A q \in Objs : b \notin ToSet(S.out[q])

\* A handle moves into a value the program can reach.
Store(p, b) ==
    /\ Idle /\ ext[p] > 0 /\ ext[b] > (IF p = b THEN 1 ELSE 0) /\ Len(m.out[p]) < MaxOut
    /\ m' = [m EXCEPT !.out[p] = Append(@, b)]
    /\ WeakEdgesAllowed(m')
    /\ ext' = [ext EXCEPT ![b] = @ - 1]
    /\ UNCHANGED <<wext, resource, phase>>

\* A handle inside a value is replaced: the old one drops.
Unstore(p) ==
    /\ Idle /\ ext[p] > 0 /\ m.out[p] # <<>>
    /\ m' = RcDrop([m EXCEPT !.out[p] = Tail(@)], Head(m.out[p]))
    /\ UNCHANGED <<ext, wext, resource, phase>>

DropHandle(b) ==
    /\ Idle /\ ext[b] > 0
    /\ ext' = [ext EXCEPT ![b] = @ - 1]
    /\ m' = RcDrop(m, b)
    /\ UNCHANGED <<wext, resource, phase>>

\* A Vec of all the program's handles drops.
DropVec ==
    /\ Idle /\ \E b \in Objs : ext[b] > 0
    /\ \E held \in SetToSeqs({b \in Objs : ext[b] > 0}) :
         /\ m' = [m EXCEPT !.batch = @ + 1,
                           !.stack = Append(@, [k |-> "batch", h |-> held, all |-> <<>>])]
         /\ ext' = [b \in Objs |-> IF ext[b] > 0 THEN ext[b] - 1 ELSE 0]
    /\ UNCHANGED <<wext, resource, phase>>

RcDowngrade(b) ==
    /\ Idle /\ ext[b] > 0 /\ Held < MaxHandles
    /\ m' = [m EXCEPT !.weak[b] = @ + 1]
    /\ wext' = [wext EXCEPT ![b] = @ + 1]
    /\ UNCHANGED <<ext, resource, phase>>

WeakUpgrade(b) ==
    /\ Idle /\ wext[b] > 0 /\ m.strong[b] > 0 /\ Held < MaxHandles
    /\ m' = [m EXCEPT !.strong[b] = @ + 1]
    /\ ext' = [ext EXCEPT ![b] = @ + 1]
    /\ UNCHANGED <<wext, resource, phase>>

StoreWeak(p, b) ==
    /\ Idle /\ ext[p] > 0 /\ wext[b] > 0 /\ m.wout[p] = <<>>
    /\ m' = [m EXCEPT !.wout[p] = <<b>>]
    /\ WeakEdgesAllowed(m')
    /\ wext' = [wext EXCEPT ![b] = @ - 1]
    /\ UNCHANGED <<ext, resource, phase>>

DropWeak(b) ==
    /\ Idle /\ wext[b] > 0
    /\ m' = WeakDrop(m, b)
    /\ wext' = [wext EXCEPT ![b] = @ - 1]
    /\ UNCHANGED <<ext, resource, phase>>

\* nurl_cc_collect, and nurl_cc_collect_for_fds when an open ran out of
\* descriptors.
Collect ==
    /\ Idle /\ m.roots # <<>>
    /\ m' = Run(m)
    /\ UNCHANGED <<ext, wext, resource, phase>>

\* nurl_cc_context_end: the context's handles are gone; collect until the
\* buffer is empty.
ContextEnd ==
    /\ ~Busy /\ phase # "ended" /\ \A b \in Objs : ext[b] = 0
    /\ IF m.roots # <<>> THEN m' = Run(m) /\ phase' = "ending"
                         ELSE phase' = "ended" /\ UNCHANGED m
    /\ UNCHANGED <<ext, wext, resource>>

Next ==
    \/ Collecting \/ DropEdge \/ DropWeakEdge \/ ReleaseEnd \/ RunNext \/ RunEnd \/ BatchNext \/ BatchEnd
    \/ \E b \in Objs : \/ RcNew(b) \/ RcClone(b) \/ Unstore(b) \/ DropHandle(b)
                       \/ RcDowngrade(b) \/ WeakUpgrade(b) \/ DropWeak(b)
    \/ \E p, b \in Objs : Store(p, b) \/ StoreWeak(p, b)
    \/ DropVec \/ Collect \/ ContextEnd

Spec == Init /\ [][Next]_vars

-----------------------------------------------------------------------------
Reach == Closure(m.out, {b \in Objs : ext[b] > 0})

\* No header is read or written, and no block freed, after its block was freed.
NoUseAfterFree == m.bad = {}

\* What the program can reach is allocated and never taken for garbage.
ReachableKept == \A b \in Reach : b \in m.mem /\ b \notin m.dead

\* Between releases every strong count is the number of handles there are:
\* trial deletion gave back what it took, and every drop counted once.
CountsExact ==
    ~Busy => \A b \in m.mem :
        m.strong[b] > 0 =>
            m.strong[b] = ext[b] + FoldFunction(LAMBDA s, n : n + Len(SelectSeq(s, LAMBDA t : t = b)),
                                                0, m.out)

\* A context that has ended left no block behind but those a Weak names.
EndCollectsAll == phase = "ended" => \A b \in m.mem : m.weak[b] > 0

\* A resource is released when its last outside handle goes, inside a
\* cycle too: between releases no unreachable block of such a type is left.
ResourceAtOnce == (resource /\ ~Busy) => \A b \in m.mem \ Reach : m.strong[b] <= 0
=============================================================================
