---------------------------- MODULE StdRedirect -----------------------------
(***************************************************************************)
(* The redirection of descriptors 0, 1 and 2 in the unikernel:             *)
(* unikernel/boot/vfs.c (dup, dup2, fcntl(F_DUPFD), the saved slots) with  *)
(* write and close of unikernel/boot/platform_x86.c.                       *)
(*                                                                         *)
(* The program follows the shell's idiom in any order: open a file, dup2   *)
(* it onto a standard descriptor, close it; save with dup, restore with    *)
(* dup2, close the save; n>&m.  It uses the descriptors it has open.       *)
(***************************************************************************)
EXTENDS Integers, FiniteSets

CONSTANTS
    Files,     \* file descriptors a program may open
    Slots,     \* the saved slots, VFS_SAVED_MAX of them
    Console,   \* no target: the descriptor is the console (-1)
    MaxOps     \* bound: calls of the program

VARIABLES
    state,     \* state[f]: "free", "held" (the program's to close) or "given"
    target,    \* vfs_std_target
    alias,     \* vfs_std_alias
    saved,     \* saved[s]: {} or {[target, alias]}
    shut,      \* the files dup2 closed while it installed them (a history variable)
    ops

vars == <<state, target, alias, saved, shut, ops>>

Std == 0..2

Init ==
    /\ state = [f \in Files |-> "free"]
    /\ target = [d \in Std |-> Console] /\ alias = [d \in Std |-> FALSE]
    /\ saved = [s \in Slots |-> {}] /\ shut = {} /\ ops = 0

Call == ops < MaxOps /\ ops' = ops + 1

InSave(f) == \E s \in Slots : \E v \in saved[s] : v.target = f
\* Only the three descriptors are asked, not the saves.
UnsavedTargetExcept(f, skip) == \E d \in Std \ {skip} : target[d] = f
\* vfs_is_std_target and vfs_is_std_target_except.
IsTarget(f) == (\E d \in Std : target[d] = f) \/ InSave(f)
IsTargetExcept(f, skip) == (\E d \in Std \ {skip} : target[d] = f) \/ InSave(f)

\* vfs_std_release: the file closes with the last descriptor that owns it.
ReleaseCloses(d) ==
    target[d] # Console /\ ~alias[d] /\ ~IsTargetExcept(target[d], d)
Released(d) == [f \in Files |-> IF ReleaseCloses(d) /\ target[d] = f THEN "free" ELSE state[f]]

Open(f) ==
    /\ Call /\ state[f] = "free"
    /\ state' = [state EXCEPT ![f] = "held"]
    /\ shut' = shut \ {f}
    /\ UNCHANGED <<target, alias, saved>>

\* dup2 of a file, of a save, and of a standard descriptor: what the descriptor
\* named is released first, even when that is what it is pointed at.
Point(d, t, a) ==
    /\ state' = Released(d)
    /\ shut' = IF ReleaseCloses(d) /\ target[d] = t THEN shut \union {t} ELSE shut
    /\ target' = [target EXCEPT ![d] = t] /\ alias' = [alias EXCEPT ![d] = a]
    /\ UNCHANGED saved
Dup2File(f, d) == Call /\ state[f] = "held" /\ Point(d, f, FALSE)
Dup2Saved(s, d) == Call /\ \E v \in saved[s] : Point(d, v.target, v.alias)
Dup2Std(e, d) == Call /\ Point(d, target[e], TRUE)

\* dup, and fcntl(F_DUPFD): the save carries the ownership.
Dup(d, s) ==
    /\ Call /\ saved[s] = {}
    /\ saved' = [saved EXCEPT ![s] = {[target |-> target[d], alias |-> alias[d]]}]
    /\ UNCHANGED <<state, target, alias, shut>>

CloseSaved(s) ==
    /\ Call /\ saved[s] # {}
    /\ saved' = [saved EXCEPT ![s] = {}]
    /\ UNCHANGED <<state, target, alias, shut>>

\* close(2): a descriptor that stands in for a standard one stays open.
Close(f) ==
    /\ Call /\ state[f] = "held"
    /\ state' = [state EXCEPT ![f] = IF IsTarget(f) THEN "given" ELSE "free"]
    /\ UNCHANGED <<target, alias, saved, shut>>

Next ==
    \/ \E f \in Files : Open(f) \/ Close(f) \/ \E d \in Std : Dup2File(f, d)
    \/ \E s \in Slots : CloseSaved(s) \/ \E d \in Std : Dup(d, s) \/ Dup2Saved(s, d)
    \/ \E e, d \in Std : Dup2Std(e, d)

Spec == Init /\ [][Next]_vars

-----------------------------------------------------------------------------
TypeOK ==
    /\ state \in [Files -> {"free", "held", "given"}]
    /\ target \in [Std -> Files \union {Console}]
    /\ ops \in 0..MaxOps

\* The note above dup2 on ownership: a standard descriptor, or a save of one,
\* never names a file that has been closed under it; its writes would go to
\* whatever file the number names next.  The exception is a dup2 of what the
\* descriptor names already, and nothing else does (dup2(fd, 1) twice,
\* dup2(1, 1)): vfs_std_release closes the file dup2 then installs.
RedirectsOpen ==
    \A f \in Files : IsTarget(f) => state[f] # "free" \/ f \in shut

\* "it is closed when the redirect is replaced or undone": a file handed to a
\* redirect does not stay open once nothing names it.
RedirectClosed ==
    \A f \in Files : state[f] = "given" => IsTarget(f)
=============================================================================
