------------------------------- MODULE ProcRun -------------------------------
(***************************************************************************)
(* stdlib/runtime_ffi.c §16: run a child process to its end, feeding its   *)
(* stdin and collecting its stdout and stderr (the Win32 backend).  Two    *)
(* reader threads drain the output pipes while the caller writes stdin and *)
(* waits.  Several threads may run children at once; a child inherits      *)
(* every handle that is inheritable when it is created, another run's too. *)
(*                                                                         *)
(* The children are external: each reads stdin to its end and writes to    *)
(* either output in an order of its own, blocked while a pipe is full, and *)
(* exits; or exits early.                                                  *)
(***************************************************************************)
EXTENDS Integers, FiniteSets

CONSTANTS
    Runs,           \* calls of nurl_proc_run in progress
    Us,             \* this process, as a holder of handles
    PipeRoom,       \* what a pipe holds
    InLen,          \* per run, the length of stdin
    MaxOut          \* per run, bound: what its child writes in all

Streams == {"out", "err"}

VARIABLES
    pc,             \* per run, the caller's place
    left,           \* per run, stdin not written yet
    inPipe,         \* per run, what the stdin pipe holds
    inHeld,         \* per run, who holds the write end of the stdin pipe
    outPipe,        \* per run and stream, what the pipe holds
    outHeld,        \* per run, who holds the write ends of the output pipes
    wrote,          \* per run and stream, what the child has written
    reader,         \* per run and stream: "none", "reads", "done", "failed" or "refused"
    got,            \* per run and stream, what the reader has collected
    child,          \* per run: "none", "runs" or "gone"
    busy,           \* per run, the output its child is writing to, or "none"
    err             \* per run, err_kind: "none", "failed" before it started, or "io"

vars == <<pc, left, inPipe, inHeld, outPipe, outHeld, wrote, reader, got, child, busy, err>>
pipes == <<inPipe, outPipe, wrote, busy>>

Both(x) == [s \in Streams |-> x]
Init ==
    /\ pc = [r \in Runs |-> "new"] /\ left = InLen
    /\ inPipe = [r \in Runs |-> 0] /\ inHeld = [r \in Runs |-> {}]
    /\ outPipe = [r \in Runs |-> Both(0)] /\ outHeld = [r \in Runs |-> {}]
    /\ wrote = [r \in Runs |-> Both(0)] /\ reader = [r \in Runs |-> Both("none")]
    /\ got = [r \in Runs |-> Both(0)] /\ child = [r \in Runs |-> "none"]
    /\ busy = [r \in Runs |-> "none"] /\ err = [r \in Runs |-> "none"]

At(r, from, to) == pc[r] = from /\ pc' = [pc EXCEPT ![r] = to]
----------------------------------------------------------------------------
\* The command line and the three pipes, both ends inheritable; or the run fails.
MakePipes(r) ==
    /\ \/ /\ At(r, "new", "piped")
          /\ inHeld' = [inHeld EXCEPT ![r] = {Us}] /\ outHeld' = [outHeld EXCEPT ![r] = {Us}]
          /\ UNCHANGED err
       \/ At(r, "new", "done") /\ err' = [err EXCEPT ![r] = "failed"] /\ UNCHANGED <<inHeld, outHeld>>
    /\ UNCHANGED <<pipes, left, reader, got, child>>

\* SetHandleInformation: our ends stay ours from here on.
KeepOurs(r) ==
    /\ At(r, "piped", "kept")
    /\ UNCHANGED <<left, pipes, inHeld, outHeld, reader, got, child, err>>

Inherits(r, q) == q # r /\ pc[q] = "piped"
InheritsOut(r, q) == q = r \/ pc[q] \in {"piped", "kept"}
\* CreateProcess, and our copies of the child's ends are closed.
\* They are left open.
KeepingEnds(r, held) == held
CloseEnds(r, held) == [held EXCEPT ![r] = @ \ {Us}]
Launch(r) ==
    LET given == [q \in Runs |-> IF InheritsOut(r, q) THEN outHeld[q] \union {r} ELSE outHeld[q]] IN
    /\ \/ /\ At(r, "kept", "begin")
          /\ child' = [child EXCEPT ![r] = "runs"]
          /\ inHeld' = [q \in Runs |-> IF Inherits(r, q) THEN inHeld[q] \union {r} ELSE inHeld[q]]
          /\ outHeld' = CloseEnds(r, given)
          /\ UNCHANGED err
       \/ /\ At(r, "kept", "done") /\ err' = [err EXCEPT ![r] = "failed"]
          /\ inHeld' = [inHeld EXCEPT ![r] = @ \ {Us}] /\ outHeld' = CloseEnds(r, outHeld)
          /\ UNCHANGED child
    /\ UNCHANGED <<pipes, left, reader, got>>

\* The two reader threads, before anything is written.  A thread that cannot be
\* started leaves a null handle, and the run goes on without it: nobody drains
\* that stream.
Begun(r) ==
    \E started \in SUBSET Streams :
        reader' = [reader EXCEPT ![r] =
                     [s \in Streams |-> IF s \in started THEN "reads" ELSE "refused"]]
\* They are begun once stdin has been written.
LateReaders(r) == IF left[r] = 0 THEN Begun(r) ELSE reader' = reader
Readers(r) == Begun(r)
BeginReaders(r) ==
    /\ At(r, "begin", "feed") /\ Readers(r)
    /\ UNCHANGED <<left, pipes, inHeld, outHeld, got, child, err>>

\* WriteFile on stdin blocks while the pipe is full, and ends the writing once
\* nobody reads the pipe.
Feed(r) ==
    /\ pc[r] = "feed" /\ left[r] > 0
    /\ IF child[r] = "gone"
       THEN left' = [left EXCEPT ![r] = 0] /\ UNCHANGED inPipe
       ELSE /\ inPipe[r] < PipeRoom
            /\ inPipe' = [inPipe EXCEPT ![r] = @ + 1] /\ left' = [left EXCEPT ![r] = @ - 1]
    /\ UNCHANGED <<pc, outPipe, wrote, busy, inHeld, outHeld, reader, got, child, err>>

CloseStdin(r) ==
    /\ left[r] = 0 /\ At(r, "feed", "wait")
    /\ inHeld' = [inHeld EXCEPT ![r] = @ \ {Us}]
    /\ UNCHANGED <<left, pipes, outHeld, reader, got, child, err>>

\* The child's exit, then the readers' ends.
\* The child's exit alone.
GoneOnly(r) == child[r] = "gone"
Over(r) == child[r] = "gone" /\ \A s \in Streams : reader[r][s] # "reads"
Collect(r) ==
    /\ Over(r) /\ At(r, "wait", "done")
    /\ err' = IF \E s \in Streams : reader[r][s] = "failed" THEN [err EXCEPT ![r] = "io"] ELSE err
    /\ UNCHANGED <<left, pipes, inHeld, outHeld, reader, got, child>>

\* nurl__proc_reader_thread: what is there; the end of the pipe.
Read(r, s) ==
    /\ reader[r][s] = "reads"
    /\ \/ /\ outPipe[r][s] > 0
          /\ outPipe' = [outPipe EXCEPT ![r][s] = 0] /\ got' = [got EXCEPT ![r][s] = @ + outPipe[r][s]]
          /\ UNCHANGED reader
       \/ /\ outPipe[r][s] = 0 /\ outHeld[r] = {}
          /\ reader' = [reader EXCEPT ![r][s] = "done"] /\ UNCHANGED <<outPipe, got>>
    /\ UNCHANGED <<pc, left, inPipe, wrote, busy, inHeld, outHeld, child, err>>
\* A read that fails, or a buffer that cannot grow, ends the reader.
ReadFails(r, s) ==
    /\ reader[r][s] = "reads" /\ reader' = [reader EXCEPT ![r][s] = "failed"]
    /\ UNCHANGED <<pc, left, pipes, inHeld, outHeld, got, child, err>>
----------------------------------------------------------------------------
\* A child, external: it reads a byte of stdin, or goes on to write one; or it
\* exits, at the end of its stdin or before, and all it holds is closed.
ChildReads(r) ==
    /\ child[r] = "runs" /\ busy[r] = "none" /\ inPipe[r] > 0
    /\ inPipe' = [inPipe EXCEPT ![r] = @ - 1]
    /\ UNCHANGED <<pc, left, outPipe, wrote, busy, inHeld, outHeld, reader, got, child, err>>
ChildBegins(r, s) ==
    /\ child[r] = "runs" /\ busy[r] = "none" /\ wrote[r]["out"] + wrote[r]["err"] < MaxOut[r]
    /\ busy' = [busy EXCEPT ![r] = s]
    /\ UNCHANGED <<pc, left, inPipe, outPipe, wrote, inHeld, outHeld, reader, got, child, err>>
ChildWrites(r, s) ==
    /\ child[r] = "runs" /\ busy[r] = s /\ outPipe[r][s] < PipeRoom
    /\ outPipe' = [outPipe EXCEPT ![r][s] = @ + 1] /\ wrote' = [wrote EXCEPT ![r][s] = @ + 1]
    /\ busy' = [busy EXCEPT ![r] = "none"]
    /\ UNCHANGED <<pc, left, inPipe, inHeld, outHeld, reader, got, child, err>>
Exits(r) ==
    /\ child[r] = "runs"
    /\ child' = [child EXCEPT ![r] = "gone"] /\ busy' = [busy EXCEPT ![r] = "none"]
    /\ inHeld' = [q \in Runs |-> inHeld[q] \ {r}] /\ outHeld' = [q \in Runs |-> outHeld[q] \ {r}]
    /\ UNCHANGED <<pc, left, inPipe, outPipe, wrote, reader, got, err>>
\* A child ends when its input has: nothing is left to read, nobody to write it.
FilterEnds(r) ==
    /\ inPipe[r] = 0 /\ inHeld[r] = {} /\ busy[r] = "none"
    /\ Exits(r)

Caller(r) == \/ MakePipes(r) \/ KeepOurs(r) \/ Launch(r) \/ BeginReaders(r) \/ Feed(r)
             \/ CloseStdin(r) \/ Collect(r)
Child(r) == ChildReads(r) \/ \E s \in Streams : ChildBegins(r, s) \/ ChildWrites(r, s)
Next ==
    \E r \in Runs : \/ Caller(r) \/ Child(r) \/ Exits(r)
                    \/ \E s \in Streams : Read(r, s) \/ ReadFails(r, s)
\* Threads go on; a child writes its output and reads its input, and ends with it.
Fairness ==
    \A r \in Runs : /\ WF_vars(Caller(r)) /\ WF_vars(ChildReads(r)) /\ WF_vars(FilterEnds(r))
                    /\ \A s \in Streams : WF_vars(Read(r, s)) /\ WF_vars(ChildWrites(r, s))
Spec == Init /\ [][Next]_vars /\ Fairness
----------------------------------------------------------------------------
TypeOK ==
    /\ \A r \in Runs : /\ inHeld[r] \subseteq Runs \union {Us} /\ outHeld[r] \subseteq Runs \union {Us}
                       /\ inPipe[r] \in 0..PipeRoom /\ \A s \in Streams : outPipe[r][s] \in 0..PipeRoom
    /\ \A r \in Runs : pc[r] = "done" => Us \notin inHeld[r] \union outHeld[r]

\* A run that returns without an error has of each stream all the child wrote, or, when
\* its reader thread could not be started, nothing of it (the code reports no error
\* then); never a part, whatever was still in the pipe when the child exited.
OutputWhole ==
    \A r \in Runs, s \in Streams : pc[r] = "done" /\ err[r] = "none" =>
        got[r][s] = IF reader[r][s] = "refused" THEN 0 ELSE wrote[r][s]

\* Every run ends once its child does: the caller that writes stdin and the child
\* that writes its output never wait for each other, though every pipe is smaller
\* than what goes through it, and handles another run's child has inherited only
\* delay the end.  A reader that gave up or never started is the exception: nobody
\* drains its pipe, and the child may stand at it for good, with the handles it has
\* inherited.
RunOver(r) ==
    pc[r] = "done" \/ \E q \in Runs, s \in Streams : reader[q][s] \in {"failed", "refused"}
=============================================================================
