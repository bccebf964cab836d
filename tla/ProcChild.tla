------------------------------ MODULE ProcChild ------------------------------
(***************************************************************************)
(* stdlib/runtime_ffi.c §16b: a child process with live stdin and stdout,  *)
(* the Win32 backend.  The child's stdout is a pipe read with overlapped   *)
(* reads: one read stays in flight across calls, so a timeout leaves it    *)
(* pending and the next call waits for the same one.  Bytes past a newline *)
(* stay in scratch for the next line.                                      *)
(*                                                                         *)
(* The child and its pipe are external: the child writes letters and       *)
(* newlines, exits when it likes, and may leave the pipe's write end to a  *)
(* process of its own.  Calls come from any thread, one at a time.         *)
(***************************************************************************)
EXTENDS Integers, Sequences, SequencesExt, FiniteSets

CONSTANTS
    Threads,
    PipeRoom,       \* bytes the pipe holds
    MaxOut,         \* bound: bytes the child writes
    MaxCalls,       \* bound: calls made
    None

VARIABLES
    child,          \* "none", "run" or "dead"
    code,           \* the status the child ended with
    writer,         \* somebody still holds the pipe's write end
    pipe, produced, \* the bytes in the pipe, and all the child has written
    scratch,        \* what was read and not handed out
    taken,          \* the bytes handed out, the newlines that ended lines included
    flight,         \* the overlapped read: [st, data, by]
    eof, waited, exitCode, errKind,
    open,           \* the handles this process holds
    pc, by,         \* the call in progress, and its thread
    timed,          \* its timeout is positive
    result,         \* what the last read_line returned: [line, why]
    calls

vars == <<child, code, writer, pipe, produced, scratch, taken, flight, eof, waited, exitCode,
          errKind, open, pc, by, timed, result, calls>>
status == <<waited, exitCode, errKind>>
outside == <<child, code, writer, produced>>

NL == "newline"
NoRead == [st |-> "no", data |-> <<>>, by |-> None]
NoLine(why) == [line |-> <<>>, why |-> why]

Init ==
    /\ child = "none" /\ code = 0 /\ writer = FALSE /\ pipe = <<>> /\ produced = <<>>
    /\ scratch = <<>> /\ taken = <<>> /\ flight = NoRead /\ eof = FALSE /\ waited = FALSE
    /\ exitCode = -1 /\ errKind = "none" /\ open = {} /\ pc = "new" /\ by = None
    /\ timed = FALSE /\ result = NoLine("") /\ calls = 0
----------------------------------------------------------------------------
\* nurl_proc_spawn, one step of it at a time; each may fail.
SpawnSteps == [new |-> {"in_r", "in_w"}, piped |-> {"out_r", "out_w"}, listening |-> {"ev"}]
AfterStep == [new |-> "piped", piped |-> "listening", listening |-> "launch"]
SpawnStep ==
    /\ pc \in DOMAIN SpawnSteps
    /\ \/ open' = open \union SpawnSteps[pc] /\ pc' = AfterStep[pc] /\ UNCHANGED errKind
       \/ open' = {} /\ pc' = "idle" /\ errKind' = "io"
    /\ UNCHANGED <<outside, pipe, scratch, taken, flight, eof, waited, exitCode, by, timed, result, calls>>

Launch ==
    /\ pc = "launch" /\ pc' = "idle"
    /\ \/ /\ open' = (open \ {"in_r", "out_w"}) \union {"proc"}
          /\ child' = "run" /\ writer' = TRUE /\ UNCHANGED errKind
       \/ /\ open' = {} /\ errKind' = "exec" /\ UNCHANGED <<child, writer>>
    /\ UNCHANGED <<code, pipe, produced, scratch, taken, flight, eof, waited, exitCode, by, timed,
                   result, calls>>
----------------------------------------------------------------------------
\* The child: it writes a byte, which completes a read in flight; it exits; the
\* last holder of the write end lets it go, which breaks a read in flight.
ChildWrites(x) ==
    /\ child = "run" /\ Len(produced) < MaxOut /\ Len(pipe) < PipeRoom /\ pc # "freed"
    /\ produced' = Append(produced, x)
    /\ IF flight.st = "flight"
       THEN flight' = [flight EXCEPT !.st = "full", !.data = <<x>>] /\ UNCHANGED pipe
       ELSE pipe' = Append(pipe, x) /\ UNCHANGED flight
    /\ UNCHANGED <<child, code, writer, scratch, taken, eof, status, open, pc, by, timed, result, calls>>

Broken(f) == IF f.st = "flight" THEN [f EXCEPT !.st = "broken"] ELSE f
Ended(c) ==
    /\ child' = "dead" /\ code' = c
    /\ \/ writer' = FALSE /\ flight' = Broken(flight)
       \/ UNCHANGED <<writer, flight>>
ChildExits ==
    /\ child = "run" /\ pc # "freed" /\ Ended(0)
    /\ UNCHANGED <<pipe, produced, scratch, taken, eof, status, open, pc, by, timed, result, calls>>
----------------------------------------------------------------------------
Calling(t) == /\ pc = "idle" /\ calls < MaxCalls /\ calls' = calls + 1 /\ by' = t

\* nurl__pc_drain_line: the first line of s, and what is left.
FirstNl(s) == CHOOSE i \in DOMAIN s : s[i] = NL /\ \A j \in 1 .. i - 1 : s[j] # NL
\* The newline is left for the next line.
ShortRest(s) == SubSeq(s, FirstNl(s), Len(s))
Rest(s) == SubSeq(s, FirstNl(s) + 1, Len(s))
\* The newline is copied with the line.
EndedLine(s) == SubSeq(s, 1, FirstNl(s))
LineOf(s) == SubSeq(s, 1, FirstNl(s) - 1)
\* Scratch is s: a line of it is handed out, or the call goes on.
HandOut(s) ==
    IF Contains(s, NL)
    THEN /\ result' = [line |-> LineOf(s), why |-> "line"]
         /\ taken' = taken \o SubSeq(s, 1, FirstNl(s)) /\ scratch' = Rest(s) /\ pc' = "idle"
    ELSE scratch' = s /\ pc' = "reading" /\ UNCHANGED <<result, taken>>

\* nurl_proc_spawn_read_line, up to the first read.
ReadLine(t) ==
    /\ Calling(t) /\ timed' \in BOOLEAN
    /\ IF Contains(scratch, NL) THEN HandOut(scratch) /\ UNCHANGED eof
       ELSE IF "out_r" \notin open
       THEN eof' = TRUE /\ result' = NoLine("eof") /\ UNCHANGED <<pc, taken, scratch>>
       ELSE pc' = "reading" /\ UNCHANGED <<eof, result, taken, scratch>>
    /\ UNCHANGED <<outside, pipe, flight, status, open>>

\* The end of the output: what is left in scratch is the last line.
AtEof ==
    /\ eof' = TRUE /\ open' = open \ {"out_r"} /\ pc' = "idle"
    /\ result' = IF scratch = <<>> THEN NoLine("eof") ELSE [line |-> scratch, why |-> "line"]
    /\ taken' = taken \o scratch /\ scratch' = <<>>

\* ReadFile: done at once, pending, or the pipe is closed; or it fails.
Issue ==
    /\ pc = "reading" /\ flight.st = "no"
    /\ \/ /\ pipe # <<>>
          /\ \E k \in 1 .. Len(pipe) :
                HandOut(scratch \o SubSeq(pipe, 1, k)) /\ pipe' = SubSeq(pipe, k + 1, Len(pipe))
          /\ UNCHANGED <<flight, eof, open, errKind>>
       \/ /\ pipe = <<>> /\ writer
          /\ flight' = [st |-> "flight", data |-> <<>>, by |-> by]
          /\ UNCHANGED <<pipe, scratch, taken, eof, open, pc, result, errKind>>
       \/ /\ pipe = <<>> /\ ~writer /\ AtEof
          /\ UNCHANGED <<pipe, flight, errKind>>
       \/ /\ errKind' = "io" /\ result' = NoLine("error") /\ pc' = "idle"
          /\ UNCHANGED <<pipe, flight, scratch, taken, eof, open>>
    /\ UNCHANGED <<outside, waited, exitCode, by, timed, calls>>

\* The wait for the read in flight runs out: the read stays.
TimeOut ==
    /\ pc = "reading" /\ flight.st = "flight" /\ timed
    /\ pc' = "idle" /\ result' = NoLine("timeout")
    /\ UNCHANGED <<outside, flight, pipe, scratch, taken, eof, status, open, by, timed, calls>>

\* GetOverlappedResult.
Completed ==
    /\ pc = "reading" /\ flight.st \in {"full", "broken"}
    /\ flight' = NoRead
    /\ IF flight.st = "broken" THEN AtEof
       ELSE HandOut(scratch \o flight.data) /\ UNCHANGED <<eof, open>>
    /\ UNCHANGED <<outside, pipe, status, by, timed, calls>>
----------------------------------------------------------------------------
\* nurl_proc_spawn_write fails once the child is gone and is nothing without a
\* pipe; nurl_proc_spawn_close_stdin.
CloseStdin(t) ==
    /\ Calling(t) /\ "in_w" \in open /\ open' = open \ {"in_w"}
    /\ UNCHANGED <<outside, pipe, scratch, taken, flight, eof, status, pc, timed, result>>

\* nurl_proc_spawn_wait: until the child is gone; the status is kept.
Wait(t) ==
    /\ Calling(t) /\ ~waited /\ "proc" \in open /\ child = "dead"
    /\ waited' = TRUE /\ exitCode' = code
    /\ UNCHANGED <<outside, pipe, scratch, taken, flight, eof, errKind, open, pc, timed, result>>

\* nurl_proc_spawn_kill: TerminateProcess with 128 + sig; a child that is gone
\* already keeps the status it ended with.
Kill(t) ==
    /\ Calling(t) /\ "proc" \in open
    /\ IF child = "run" THEN Ended(143) ELSE UNCHANGED <<child, code, writer, flight>>
    /\ UNCHANGED <<pipe, produced, scratch, taken, eof, status, open, pc, timed, result>>

\* nurl__proc_child_shutdown: stdin first, then the grace period ...
Free(t) ==
    /\ pc = "idle" /\ by' = t /\ pc' = "grace" /\ open' = open \ {"in_w"}
    /\ UNCHANGED <<outside, pipe, scratch, taken, flight, eof, status, timed, result, calls>>

\* ... which ends with the child's exit or with its termination ...
Grace ==
    /\ pc = "grace" /\ pc' = "settle"
    /\ IF child = "run" THEN Ended(1) ELSE UNCHANGED <<child, code, writer, flight>>
    /\ waited' = (waited \/ "proc" \in open)
    /\ UNCHANGED <<pipe, produced, scratch, taken, eof, exitCode, errKind, open, by, timed, result, calls>>

\* ... then the read in flight is settled: CancelIo aborts the reads of the
\* calling thread, and GetOverlappedResult waits for this one to be over ...
\* Nothing is waited for.
Hasty == TRUE
\* A read that broke is waited for like one in flight.
Deaf == flight.st = "no" \/ flight.by = by
Settled == flight.st # "flight" \/ flight.by = by
Settle ==
    /\ pc = "settle" /\ Settled
    /\ pc' = "freed" /\ open' = {}
    /\ flight' = IF flight.by = by THEN NoRead ELSE flight
    /\ UNCHANGED <<outside, pipe, scratch, taken, eof, status, by, timed, result, calls>>

\* (external) Whoever holds the write end lets it go, sooner or later or never.
HeirExits ==
    /\ child = "dead" /\ writer /\ pc # "freed"
    /\ writer' = FALSE /\ flight' = Broken(flight)
    /\ UNCHANGED <<child, code, pipe, produced, scratch, taken, eof, status, open, pc, by, timed, result, calls>>

Shutdown == Grace \/ Settle
Next ==
    \/ SpawnStep \/ Launch \/ ChildExits \/ HeirExits \/ Issue \/ TimeOut \/ Completed \/ Shutdown
    \/ \E x \in {"a", NL} : ChildWrites(x)
    \/ \E t \in Threads : ReadLine(t) \/ CloseStdin(t) \/ Wait(t) \/ Kill(t) \/ Free(t)
\* A thread that waits goes on once what it waits for has happened.
Spec == Init /\ [][Next]_vars /\ WF_vars(Shutdown) /\ WF_vars(Completed)
----------------------------------------------------------------------------
TypeOK ==
    /\ child \in {"none", "run", "dead"} /\ flight.st \in {"no", "flight", "full", "broken"}
    /\ Len(pipe) <= PipeRoom /\ Len(produced) <= MaxOut /\ calls \in 0..MaxCalls
    /\ exitCode \in {-1, 0, 143} /\ flight.by \in Threads \union {None}

\* No byte of the child's output is lost, doubled or moved, however reads are cut
\* by timeouts and resumed by other threads: what was handed out, what is kept,
\* what the read in flight holds and what is in the pipe make up the output.
BytesKept == pc # "freed" => taken \o scratch \o flight.data \o pipe = produced

\* A line is handed out whole: it holds no newline, and the end of what was
\* handed out so far is that line and its newline, or the end of the output.
LineWhole ==
    pc = "idle" /\ result.why = "line" =>
        /\ ~Contains(result.line, NL)
        /\ IsSuffix(Append(result.line, NL), taken) \/ (eof /\ IsSuffix(result.line, taken))

\* The block that holds the read's buffer is not freed under a read in flight,
\* and no handle outlives it, nor a spawn that failed.
FreedClean ==
    /\ pc = "freed" => flight.st # "flight" /\ open = {}
    /\ errKind \in {"io", "exec"} /\ child = "none" => open = {}

\* Freeing a child ends: the grace period always does, and the read in flight is
\* over once nobody holds the pipe's write end, whichever thread started it.
Freeing == pc = "grace" \/ (pc = "settle" /\ ~writer)

\* Freeing a child ends, whatever processes of its own the child has left behind.
FreeAlwaysEnds == (pc = "grace") ~> (pc = "freed")

\* A read with no timeout that returns no line has met the end of the output or
\* an error.
NoneMeansNone == pc = "idle" /\ ~timed /\ result.why = "line" => result.line # <<>>
=============================================================================
