----------------------------- MODULE ClosureEnv -----------------------------
(***************************************************************************)
(* stdlib/runtime_core.c, closure environments.  An env is a heap block    *)
(* whose descriptor says how its captures are dropped, cloned and owned: a *)
(* fresh literal may only view a value its frame owns, a closure it        *)
(* captures is an env of its own.  A spawn takes an owning env: a copy, or *)
(* the env itself when its maker handed it over.                           *)
(***************************************************************************)
EXTENDS FiniteSets

CONSTANTS
    Envs,        \* addresses of environments
    Vals,        \* addresses of captured values
    NoEnv        \* captures no closure

VARIABLES
    env,         \* address -> [view, handed, cap, inner] for the live ones
    vals,        \* the values allocated
    frameVals,   \* the values the making frame owns
    frame,       \* the envs its bindings and temporaries drop
    passing,     \* handed over, on the way to a spawn; the journal drops them
    remote,      \* envs of spawned fibers and of longer-lived owners
    misuse       \* history: addresses dropped or read while not allocated

vars == <<env, vals, frameVals, frame, passing, remote, misuse>>

Init ==
    /\ env = [e \in {} |-> 0]
    /\ vals = {} /\ frameVals = {} /\ frame = {} /\ passing = {} /\ remote = {} /\ misuse = {}

Live == DOMAIN env
Captured(e) == {e} \cup ({env[e].inner} \ {NoEnv})
\* The values an env owns itself.
OwnedVals(e) == IF env[e].view THEN {} ELSE {env[e].cap}

\* nurl_closure_drop: captured envs, owned values, the block; the handed
\* mark is masked.
Drop(E) ==
    LET all == UNION {Captured(e) : e \in E \cap Live}
        owned == UNION {OwnedVals(e) : e \in all \cap Live}
    IN  /\ env' = [e \in Live \ all |-> env[e]]
        /\ vals' = (vals \ owned) \ (IF E = frame THEN frameVals ELSE {})
        /\ misuse' = misuse \cup (E \ Live) \cup (all \ Live) \cup (owned \ vals)

\* A literal: it views a value of the frame, and owns a copy of the closure
\* it captures.
Make(e, v, i, c) ==
    /\ e \notin Live
    /\ v \in frameVals \/ (v \notin vals /\ frameVals = {})
    /\ \/ i = NoEnv /\ c = NoEnv
       \/ i \in frame /\ c \notin Live \cup {e} /\ env[i].inner = NoEnv /\ env[i].view
    /\ env' = [x \in Live \cup {e} \cup ({c} \ {NoEnv}) |->
                  IF x = e THEN [view |-> TRUE, handed |-> FALSE, cap |-> v, inner |-> c]
                  ELSE IF x = c THEN [env[i] EXCEPT !.handed = FALSE] ELSE env[x]]
    /\ vals' = vals \cup {v} /\ frameVals' = frameVals \cup {v}
    /\ frame' = frame \cup {e}
    /\ UNCHANGED <<passing, remote, misuse>>

\* nurl_closure_handover: the caller does not drop this literal after the call.
Handover(e) ==
    /\ e \in frame
    /\ env' = [env EXCEPT ![e].handed = TRUE]
    /\ frame' = frame \ {e} /\ passing' = passing \cup {e}
    /\ UNCHANGED <<vals, frameVals, remote, misuse>>

\* What a new owner of e copies: the block to c, the captured env to d, and
\* the viewed values to fresh ones, by nurl_closure_clone and then
\* nurl_closure_adopt through the captured envs.
Owning(x, v) == [x EXCEPT !.view = FALSE, !.handed = FALSE, !.cap = v]
FreshVals(S) == {f \in [S -> Vals \ vals] : \A a, b \in S : f[a] = f[b] => a = b}

\* nurl_closure_own_copy that leaves a view in the env it takes over.
ViewingTakeOver(e, f) ==
    /\ env' = [env EXCEPT ![e].handed = FALSE]
    /\ UNCHANGED vals
\* nurl_closure_own_copy of a handed env: the mark comes off and the env
\* adopts what it viewed, in place.
TakeOver(e, f) ==
    /\ env' = [x \in Live |-> IF x \in Captured(e) THEN Owning(env[x], f[x]) ELSE env[x]]
    /\ vals' = vals \cup {f[x] : x \in Captured(e)}

SpawnHanded(e) ==
    /\ e \in passing
    /\ \E f \in FreshVals(Captured(e)) : TakeOver(e, f)
    /\ passing' = passing \ {e} /\ remote' = remote \cup {e}
    /\ UNCHANGED <<frameVals, frame, misuse>>

\* The clone keeping the captured env of the original.
SharingCopyOf(e, c, d, f) ==
    [x \in Live \cup {c} |-> IF x = c THEN Owning(env[e], f[e]) ELSE env[x]]
\* nurl_closure_clone: a block of its own, and of the captured env.
CopyOf(e, c, d, f) ==
    [x \in Live \cup {c} \cup ({d} \ {NoEnv}) |->
        IF x = c THEN [Owning(env[e], f[e]) EXCEPT !.inner = d]
        ELSE IF x = d THEN Owning(env[env[e].inner], f[env[e].inner]) ELSE env[x]]

\* A spawn, or an owning place, given a closure its binding keeps.
SpawnCopy(e, c, d) ==
    /\ e \in frame /\ c \notin Live
    /\ IF env[e].inner = NoEnv THEN d = NoEnv ELSE d \in Envs \ (Live \cup {c})
    /\ \E f \in FreshVals(Captured(e)) :
         /\ env' = CopyOf(e, c, d, f)
         /\ vals' = vals \cup {f[x] : x \in Captured(e)}
    /\ remote' = remote \cup {c}
    /\ UNCHANGED <<frameVals, frame, passing, misuse>>

\* A panic before the spawn: the journal drops the temporary (nurl_jdrop_cloenv).
PanicInCall ==
    /\ passing # {}
    /\ Drop(passing)
    /\ passing' = {}
    /\ UNCHANGED <<frameVals, frame, remote>>

\* The frame ends: its closures drop (nurl_closure_drop), then its values.
FrameEnd ==
    /\ frameVals # {} /\ passing = {}
    /\ Drop(frame)
    /\ frame' = {} /\ frameVals' = {}
    /\ UNCHANGED <<passing, remote>>

\* A fiber's body returns, or the longer-lived owner goes.
RemoteEnd(e) ==
    /\ e \in remote
    /\ Drop({e})
    /\ remote' = remote \ {e}
    /\ UNCHANGED <<frameVals, frame, passing>>

Next ==
    \/ \E e \in Envs, v \in Vals, i, c \in Envs \cup {NoEnv} : Make(e, v, i, c)
    \/ \E e \in Envs : Handover(e) \/ SpawnHanded(e) \/ RemoteEnd(e)
    \/ \E e, c \in Envs, d \in Envs \cup {NoEnv} : SpawnCopy(e, c, d)
    \/ PanicInCall \/ FrameEnd

Spec == Init /\ [][Next]_vars

-----------------------------------------------------------------------------
\* Nothing of an env is dropped twice or read after it went.
NoMisuse == misuse = {}

\* An env that outlives its frame owns what it captures, all the way down:
\* no view of a frame that may have ended.
RemoteOwns ==
    \A e \in remote : /\ e \in Live
                      /\ \A x \in Captured(e) :
                           x \in Live /\ ~env[x].view /\ env[x].cap \in vals \ frameVals

\* Every env and value is held by someone who will drop it, one holder each.
EachHeldOnce ==
    LET top == frame \cup passing \cup remote
        held == UNION {Captured(e) : e \in top}
    IN  /\ Live = held
        /\ vals = frameVals \cup UNION {OwnedVals(e) : e \in held}
        /\ \A d, e \in top : d # e => Captured(d) \cap Captured(e) = {}
=============================================================================
