---------------------------- MODULE PanicJournal ----------------------------
(***************************************************************************)
(* stdlib/runtime_core.c, sections 9b and 20: recover frames and the       *)
(* journal that releases, at a panic, what the frames it skips own.        *)
(*                                                                         *)
(* A fiber's code runs on `cs`, its C stack of recover frames, drains and  *)
(* destructors a drain is running; `own` is the program's side, the values *)
(* its open scopes will release.  The journal has two parts: registrations *)
(* by pointer, which nurl_free ends, and by slot, which the scope ends;    *)
(* one sequence numbers both.  Hash buckets, holes and growth are the data *)
(* structure of the first part and are left out.                           *)
(***************************************************************************)
EXTENDS Integers, Sequences, FiniteSets, FiniteSetsExt

CONSTANTS
    Fibers,
    Cells,          \* addresses of the heap
    MaxOwn,         \* bound: values a fiber's open scopes own
    MaxFrames,      \* bound: recover frames open at once
    MaxSeq,         \* bound: registrations of a fiber
    DropsAllocate   \* whether a destructor allocates and frees of its own

VARIABLES
    cur,        \* the fiber on the worker, or "none"
    ctx,        \* the thread-locals nurl__rctx_swap exchanges
    saved,      \* the NurlRecoverCtx of every fiber
    cs,         \* per fiber, its C stack
    own,        \* per fiber, the values of its open scopes, innermost last
    esc,        \* values moved to an owner outside every extent
    heap,       \* the cells allocated
    draining,   \* nurl__draining, nurl__drain_depth, nurl__dseen: thread-locals
    depth,      \* that stay with the worker
    seen,
    twice,      \* history: cells freed while not allocated
    lost        \* history: values a lean extent skipped

thread == <<draining, depth, seen>>
vars == <<cur, ctx, saved, cs, own, esc, heap, thread, twice, lost>>

EmptyCtx == [jrnl |-> <<>>, jslot |-> <<>>, sequence |-> 0, active |-> 0,
             drains |-> 0, frames |-> <<>>]

Init ==
    /\ cur = "none"
    /\ ctx = EmptyCtx
    /\ saved = [f \in Fibers |-> EmptyCtx]
    /\ cs = [f \in Fibers |-> <<>>]
    /\ own = [f \in Fibers |-> <<>>]
    /\ esc = {} /\ heap = {} /\ twice = {} /\ lost = {}
    /\ draining = FALSE /\ depth = 0 /\ seen = {}

Last(s) == s[Len(s)]
Front(s) == SubSeq(s, 1, Len(s) - 1)
Top(f) == Last(cs[f])
Runs(f, k) == IF cs[f] = <<>> THEN FALSE ELSE Top(f).k = k
AtCode(f) == cur = f /\ ~Runs(f, "drain")
InDrain(f) == cur = f /\ Runs(f, "drain")
InDrop(f) == Runs(f, "drop")
\* A panic of f is draining, perhaps below a destructor and its own frames.
Unwinding(f) == \E i \in DOMAIN cs[f] : cs[f][i].k = "drain"
\* How many values were owned when the innermost frame or destructor began.
Base(f) == IF cs[f] = <<>> THEN 0 ELSE Top(f).base

-----------------------------------------------------------------------------
(* The journal.                                                            *)

\* nurl_journal_push (a pointer) and nurl_journal_push_drop2 (a slot): nothing
\* outside a recover extent.
Register(c, b, kind) ==
    IF c.active = 0 THEN c
    ELSE LET e == [ptr |-> b, seq |-> c.sequence + 1, typed |-> kind = "typed", flag |-> TRUE]
         IN  IF kind = "ptr" THEN [c EXCEPT !.jrnl = Append(@, e), !.sequence = @ + 1]
                             ELSE [c EXCEPT !.jslot = Append(@, e), !.sequence = @ + 1]

\* nurl__jrnl_forget_body, stopping at the first alias it finds.
ForgetNewest(c, b) ==
    LET hits == {i \in DOMAIN c.jrnl : c.jrnl[i].ptr = b}
    IN  IF hits = {} THEN c
        ELSE LET i == CHOOSE i \in hits : \A j \in hits : j <= i
             IN  [c EXCEPT !.jrnl = SubSeq(@, 1, i - 1) \o SubSeq(@, i + 1, Len(@))]
\* nurl__jrnl_forget_body: every alias of the address, outer extents' too.
Forget(c, b) == [c EXCEPT !.jrnl = SelectSeq(@, LAMBDA e : e.ptr # b)]

\* nurl_journal_forget_slot: the newest registration of the binding's slot.
ForgetSlot(c, b) ==
    LET hits == {i \in DOMAIN c.jslot : c.jslot[i].ptr = b}
    IN  IF hits = {} THEN c
        ELSE LET i == CHOOSE i \in hits : \A j \in hits : j <= i
             IN  [c EXCEPT !.jslot = SubSeq(@, 1, i - 1) \o SubSeq(@, i + 1, Len(@))]

\* nurl_journal_disown: the pointer's registrations end and every slot that
\* holds it is cleared, so that a panic drops nothing there.
Disown(c, b) ==
    [Forget(c, b) EXCEPT !.jslot =
        [i \in DOMAIN @ |-> IF @[i].ptr = b THEN [@[i] EXCEPT !.flag = FALSE] ELSE @[i]]]

\* nurl__jrnl_truncate: the registrations of this extent only.
EmptyTruncate(c, mark) == [c EXCEPT !.jrnl = <<>>, !.jslot = <<>>]
Truncate(c, mark) ==
    LET older(e) == e.seq <= mark
    IN  [c EXCEPT !.jrnl = SelectSeq(@, older), !.jslot = SelectSeq(@, older)]

\* A free that passes over nurl__drain_seen.
UnseenFreed(c, b) == [ctx |-> Forget(c, b), freed |-> TRUE, seen |-> seen]
\* nurl_free's ruling on cell b: with journal entries live (or a drain
\* running in this context) the registration ends first; during a drain a
\* second free of an address is skipped, and the first recorded.
Freed(c, b) ==
    LET journaled == c.jrnl # <<>> \/ c.drains > 0
    IN  IF ~journaled THEN [ctx |-> c, freed |-> TRUE, seen |-> seen]
        ELSE IF ~draining THEN [ctx |-> Forget(c, b), freed |-> TRUE, seen |-> seen]
        ELSE [ctx |-> Forget(c, b), freed |-> b \notin seen, seen |-> seen \cup {b}]

\* The effect of nurl_free(b) in context c.
NurlFree(c, b) ==
    LET r == Freed(c, b) IN
    /\ ctx' = r.ctx
    /\ seen' = r.seen
    /\ heap' = IF r.freed THEN heap \ {b} ELSE heap
    /\ twice' = IF r.freed /\ b \notin heap THEN twice \cup {b} ELSE twice

-----------------------------------------------------------------------------
(* The program: scopes own values, lend, move and release them.            *)

\* An owned value: its allocation and its registration.
Bind(f, b, kind) ==
    /\ AtCode(f) /\ b \notin heap
    /\ Unwinding(f) => DropsAllocate
    /\ Len(own[f]) < MaxOwn /\ ctx.sequence < MaxSeq
    /\ heap' = heap \cup {b}
    /\ own' = [own EXCEPT ![f] = Append(@, [b |-> b, kind |-> kind, noted |-> ctx.active > 0])]
    /\ ctx' = Register(ctx, b, kind)
    /\ UNCHANGED <<cur, saved, cs, esc, thread, twice, lost>>

\* A value already owned is registered again: an alias in a slot, or the same
\* pointer in an inner extent.
Alias(f, kind) ==
    /\ AtCode(f) /\ ~InDrop(f)
    /\ Len(own[f]) > Base(f) /\ ctx.active > 0 /\ ctx.sequence < MaxSeq
    /\ LET o == Last(own[f]) IN
         /\ o.kind # "typed"
         /\ ctx' = Register(ctx, o.b, kind)
         /\ own' = [own EXCEPT ![f][Len(own[f])].kind = IF kind = "slot" THEN "both" ELSE @]
         /\ kind = "slot" => o.kind = "ptr"
    /\ UNCHANGED <<cur, saved, cs, esc, heap, thread, twice, lost>>

\* A scope exit: the binding's slot leaves the journal, then its value is freed.
ScopeExit(f) ==
    /\ AtCode(f) /\ Len(own[f]) > Base(f)
    /\ LET o == Last(own[f]) IN
         NurlFree(IF o.kind = "ptr" THEN ctx ELSE ForgetSlot(ctx, o.b), o.b)
    /\ own' = [own EXCEPT ![f] = Front(@)]
    /\ UNCHANGED <<cur, saved, cs, esc, draining, depth, lost>>

\* A value moves to an owner outside the extents; that owner frees it later.
MoveOut(f) ==
    /\ AtCode(f) /\ ~InDrop(f) /\ Len(own[f]) > Base(f)
    /\ LET o == Last(own[f]) IN
         /\ esc' = esc \cup {o.b}
         /\ ctx' = IF o.kind = "ptr" THEN Disown(ctx, o.b) ELSE ForgetSlot(Disown(ctx, o.b), o.b)
    /\ own' = [own EXCEPT ![f] = Front(@)]
    /\ UNCHANGED <<cur, saved, cs, heap, thread, twice, lost>>

FreeMoved(f, b) ==
    /\ AtCode(f) /\ ~InDrop(f) /\ b \in esc
    /\ NurlFree(ctx, b)
    /\ esc' = esc \ {b}
    /\ UNCHANGED <<cur, saved, cs, own, draining, depth, lost>>

-----------------------------------------------------------------------------
(* Recover frames.                                                         *)

Frames(f) == {i \in DOMAIN cs[f] : cs[f][i].k = "frame"}

\* nurl__recover_enter and nurl__recover_lean_enter (which journals nothing).
RecoverEnter(f, lean) ==
    /\ AtCode(f) /\ MapThenSumSet(LAMBDA g : Cardinality(Frames(g)), Fibers) < MaxFrames
    /\ cs' = [cs EXCEPT ![f] = Append(@, [k |-> "frame", mark |-> ctx.sequence, drains |-> depth,
                                          lean |-> lean, base |-> Len(own[f])])]
    /\ ctx' = [ctx EXCEPT !.frames = Append(@, <<f, Len(cs[f]) + 1>>),
                          !.active = IF lean THEN @ ELSE @ + 1]
    /\ UNCHANGED <<cur, saved, own, esc, heap, thread, twice, lost>>

\* nurl__recover_leave: off the chain, and what escaped is forgotten.
Leave(c, fr) ==
    [Truncate(c, fr.mark) EXCEPT !.frames = Front(@),
                                 !.active = IF fr.lean THEN @ ELSE @ - 1]

RecoverLeave(f) ==
    /\ AtCode(f) /\ Runs(f, "frame") /\ Len(own[f]) = Base(f)
    /\ ctx' = Leave(ctx, Top(f))
    /\ cs' = [cs EXCEPT ![f] = Front(@)]
    /\ UNCHANGED <<cur, saved, own, esc, heap, thread, twice, lost>>

\* nurl_panic under a frame: the drain of that frame's extent begins, inside
\* the outer drain's record if a destructor of one panicked.
Panic(f) ==
    /\ AtCode(f) /\ ctx.frames # <<>>
    /\ LET top == Last(ctx.frames) IN
         cs' = [cs EXCEPT ![f] = Append(@, [k |-> "drain", mark |-> cs[top[1]][top[2]].mark,
                                            outer |-> draining, base |-> Len(own[f])])]
    /\ draining' = TRUE /\ depth' = depth + 1
    /\ ctx' = [ctx EXCEPT !.drains = @ + 1]
    /\ UNCHANGED <<cur, saved, own, esc, heap, seen, twice, lost>>

NewestPtr == IF ctx.jrnl = <<>> THEN 0 ELSE Last(ctx.jrnl).seq
NewestSlot == IF ctx.jslot = <<>> THEN 0 ELSE Last(ctx.jslot).seq

\* nurl__jrnl_drain_body, a slot: popped, and dropped if it still owns.  A
\* typed drop releases its value and goes on to code of its own.
DrainSlot(f) ==
    /\ InDrain(f) /\ NewestSlot > NewestPtr /\ NewestSlot > Top(f).mark
    /\ LET e == Last(ctx.jslot)
           c == [ctx EXCEPT !.jslot = Front(@)]
       IN  /\ IF e.flag THEN NurlFree(c, e.ptr)
                        ELSE ctx' = c /\ UNCHANGED <<seen, heap, twice>>
           /\ cs' = IF e.flag /\ e.typed
                    THEN [cs EXCEPT ![f] = Append(@, [k |-> "drop", base |-> Len(own[f])])]
                    ELSE cs
    /\ UNCHANGED <<cur, saved, own, esc, draining, depth, lost>>

\* A pointer: every alias forgotten, then freed unless this drain already did.
DrainPtr(f) ==
    /\ InDrain(f) /\ NewestPtr > NewestSlot /\ NewestPtr > Top(f).mark
    /\ LET b == Last(ctx.jrnl).ptr IN
         /\ ctx' = Forget(ctx, b)
         /\ seen' = seen \cup {b}
         /\ heap' = IF b \in seen THEN heap ELSE heap \ {b}
         /\ twice' = IF b \notin seen /\ b \notin heap THEN twice \cup {b} ELSE twice
    /\ UNCHANGED <<cur, saved, cs, own, esc, draining, depth, lost>>

\* The destructor returns to its drain.
DropReturn(f) ==
    /\ AtCode(f) /\ InDrop(f) /\ Len(own[f]) = Base(f)
    /\ cs' = [cs EXCEPT ![f] = Front(@)]
    /\ UNCHANGED <<cur, ctx, saved, own, esc, heap, thread, twice, lost>>

\* recover_caught without nurl__drain_unwind: only this drain's epilogue ran.
NoUnwind(d, outer, frame) == [depth |-> d - 1, draining |-> outer, drains |-> ctx.drains - 1]
\* The epilogue of this drain, then nurl__drain_unwind: the drains begun
\* since the frame was entered end with it.
Unwind(d, outer, frame) ==
    [depth |-> frame.drains,
     draining |-> frame.drains > 0,
     drains |-> ctx.drains - (d - frame.drains)]

\* Nothing newer than the mark is left: longjmp to the frame, which ends the
\* drains it skips, leaves the extent and returns 1 to its caller.
DrainEnd(f) ==
    /\ InDrain(f) /\ NewestPtr <= Top(f).mark /\ NewestSlot <= Top(f).mark
    /\ LET top == Last(ctx.frames)
           g == top[1]
           fr == cs[g][top[2]]
           u == Unwind(depth, Top(f).outer, fr)
       IN  /\ depth' = u.depth /\ draining' = u.draining
           /\ seen' = IF u.draining THEN seen ELSE {}
           /\ ctx' = [Leave(ctx, fr) EXCEPT !.drains = u.drains]
           /\ cs' = [cs EXCEPT ![g] = SubSeq(@, 1, top[2] - 1)]
           /\ lost' = lost \cup {own[g][i].b : i \in {i \in fr.base + 1 .. Len(own[g]) :
                                                         ~own[g][i].noted}}
           /\ own' = [own EXCEPT ![g] = SubSeq(@, 1, fr.base)]
    /\ UNCHANGED <<cur, saved, esc, heap, twice>>

-----------------------------------------------------------------------------
(* The worker switches between fibers.                                     *)

\* nurl__rctx_swap leaving the chain of recover frames with the thread.
FramelessSwap(f) ==
    /\ ctx' = [saved[f] EXCEPT !.frames = ctx.frames]
    /\ saved' = [saved EXCEPT ![f] = [ctx EXCEPT !.frames = saved[f].frames]]
\* nurl__rctx_swap: the journal, the chain and the counts, exchanged.
Swap(f) == ctx' = saved[f] /\ saved' = [saved EXCEPT ![f] = ctx]

SwitchIn(f) ==
    /\ cur = "none"
    /\ cur' = f
    /\ Swap(f)
    /\ UNCHANGED <<cs, own, esc, heap, thread, twice, lost>>

\* A fiber yields or parks, inside an extent or not, but not in a destructor
\* a drain runs: the record of the drain stays with the thread.
SwitchOut(f) ==
    /\ AtCode(f) /\ ~Unwinding(f)
    /\ cur' = "none"
    /\ Swap(f)
    /\ UNCHANGED <<cs, own, esc, heap, thread, twice, lost>>

Next ==
    \E f \in Fibers :
        \/ \E b \in Cells, kind \in {"ptr", "slot", "typed"} : Bind(f, b, kind)
        \/ \E kind \in {"ptr", "slot"} : Alias(f, kind)
        \/ ScopeExit(f) \/ MoveOut(f)
        \/ \E b \in esc : FreeMoved(f, b)
        \/ \E lean \in BOOLEAN : RecoverEnter(f, lean)
        \/ RecoverLeave(f) \/ Panic(f)
        \/ DrainSlot(f) \/ DrainPtr(f) \/ DropReturn(f) \/ DrainEnd(f)
        \/ SwitchIn(f) \/ SwitchOut(f)

Spec == Init /\ [][Next]_vars

-----------------------------------------------------------------------------
Owned(f) == {own[f][i].b : i \in DOMAIN own[f]}

\* No cell is freed twice, by whatever mixture of scope exits, moves,
\* aliases, nested panics and destructors.
NoDoubleFree == twice = {}

\* A panic frees nothing an outer scope or a new owner still holds: values
\* below the frame of the outermost drain, and moved ones, stay allocated.
HeldIsLive ==
    /\ esc \subseteq heap
    /\ \A f \in Fibers : Unwinding(f) \/ Owned(f) \subseteq heap

\* Every allocated cell is held by an open scope or a later owner, or was
\* skipped by a lean extent: a panic reclaims what its frames owned.
NothingLeaks == heap \subseteq esc \cup lost \cup UNION {Owned(f) : f \in Fibers}

\* A worker on which no drain runs is out of the draining state, double
\* panics and recovers inside destructors included.
DrainStateEnds ==
    (\A f \in Fibers : ~Unwinding(f))
        => /\ depth = 0 /\ ~draining /\ seen = {}
           /\ ctx.drains = 0

\* The chain a panic jumps along holds the running fiber's own frames, so a
\* panic never lands on another fiber's stack.
FramesAreOwn ==
    cur # "none" => /\ {ctx.frames[i][2] : i \in DOMAIN ctx.frames} = Frames(cur)
                    /\ \A i \in DOMAIN ctx.frames : ctx.frames[i][1] = cur
=============================================================================
