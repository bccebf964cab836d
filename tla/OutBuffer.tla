------------------------------ MODULE OutBuffer ------------------------------
(***************************************************************************)
(* stdlib/runtime_core.c: printing, and the stack of capture frames.       *)
(*                                                                         *)
(* A print goes to stdout, or into one shared buffer while a frame is      *)
(* open; a frame is an offset into the buffer, and stop hands back what    *)
(* lies past it.  stdout is block-buffered unless it is a terminal; stderr *)
(* is written at once.  One print is one hold of stdout's lock: a line's   *)
(* text and its newline are two writes under one hold.                     *)
(*                                                                         *)
(* What is printed is a token [by, kind, n]: the thread, "bytes" or "text" *)
(* or "newline" or "err", and the place of the call among all calls.  A    *)
(* raw print that begins with a zero byte is a "nul"; one with a zero byte *)
(* inside is a "bytes" and a "nul".                                        *)
(***************************************************************************)
EXTENDS Integers, Sequences, SequencesExt, FiniteSets

CONSTANTS
    Threads,
    StackMax,       \* OUTBUF_STACK_MAX
    MaxPrints,      \* bound: prints made
    MaxFrames,      \* bound: frames opened
    None

VARIABLES
    tty,            \* g_stdout_tty
    lock,           \* the thread that holds NURL_IO_LOCK, or None
    buf,            \* g_outbuf
    frames,         \* g_outbuf_stack: [start, mode], the newest last
    mode,           \* g_outbuf_mode: TRUE while prints are captured
    pending,        \* the bytes in stdout's own buffer
    log,            \* what the reader of the merged streams has seen
    ended,          \* the process is gone
    n, opened,      \* prints and frames so far
    asked,          \* the captures asked for: what each open one is owed, the newest last
    refused,        \* a start was refused for want of a frame
    got             \* the last capture: [gave, owed]

vars == <<tty, lock, buf, frames, mode, pending, log, ended, n, opened, asked, refused, got>>

Token(t, kind) == [by |-> t, kind |-> kind, n |-> n]
Idle == lock = None /\ ~ended

Init ==
    /\ tty \in BOOLEAN /\ lock = None /\ buf = <<>> /\ frames = <<>> /\ mode = FALSE
    /\ pending = <<>> /\ log = <<>> /\ ended = FALSE /\ n = 0 /\ opened = 0
    /\ asked = <<>> /\ refused = FALSE /\ got = [gave |-> <<>>, owed |-> <<>>]
----------------------------------------------------------------------------
\* nurl__print_locked: into the buffer, or to stdout, flushed when a terminal.
\* stdio empties its buffer by itself when it is full.
Written(k) ==
    IF mode
    THEN /\ buf' = Append(buf, k)
         /\ asked' = IF asked = <<>> THEN asked
                     ELSE [asked EXCEPT ![Len(asked)] = Append(@, k)]
         /\ UNCHANGED <<pending, log>>
    ELSE /\ \/ log' = log \o pending \o <<k>> /\ pending' = <<>>
            \/ ~tty /\ pending' = Append(pending, k) /\ UNCHANGED log
         /\ UNCHANGED <<buf, asked>>

\* nurl_print, and nurl_print_bytes, which takes zero bytes as well.
PrintBytes(t) ==
    /\ Idle /\ n < MaxPrints
    /\ \E kind \in {"bytes", "nul"} : Written(Token(t, kind))
    /\ n' = n + 1
    /\ UNCHANGED <<tty, lock, frames, mode, ended, opened, refused, got>>

\* nurl_println: the text, and the newline before the lock is given back.
\* The line as two prints, each with a hold of its own.
LooseText(t) ==
    /\ Idle /\ n < MaxPrints
    /\ Written(Token(t, "text")) /\ n' = n + 1
    /\ UNCHANGED <<tty, lock, frames, mode, ended, opened, refused, got>>
Text(t) ==
    /\ Idle /\ n < MaxPrints
    /\ Written(Token(t, "text")) /\ n' = n + 1
    /\ lock' = t
    /\ UNCHANGED <<tty, frames, mode, ended, opened, refused, got>>

Newline(t) ==
    /\ lock = t /\ ~ended
    /\ Written(Token(t, "newline")) /\ n' = n + 1
    /\ lock' = None
    /\ UNCHANGED <<tty, frames, mode, ended, opened, refused, got>>

\* nurl_eprint, nurl_eprintln: stdout is drained before stderr is written.
\* stderr alone.
PromptEprint(t) ==
    /\ log' = Append(log, Token(t, "err"))
    /\ UNCHANGED pending
Eprint(t) ==
    /\ log' = Append(log \o pending, Token(t, "err"))
    /\ pending' = <<>>

PrintErr(t) ==
    /\ Idle /\ n < MaxPrints
    /\ Eprint(t) /\ n' = n + 1
    /\ UNCHANGED <<tty, lock, buf, frames, mode, ended, opened, asked, refused, got>>

\* nurl_flush_stdout.
Flush ==
    /\ Idle /\ pending # <<>>
    /\ log' = log \o pending /\ pending' = <<>>
    /\ UNCHANGED <<tty, lock, buf, frames, mode, ended, n, opened, asked, refused, got>>
----------------------------------------------------------------------------
\* nurl_print_buf_start.  The capturer is the compiler, whose other threads do
\* not print: no line is half written.
BufStart ==
    /\ Idle /\ opened < MaxFrames
    /\ opened' = opened + 1
    /\ asked' = Append(asked, <<>>)
    /\ IF Len(frames) >= StackMax
       THEN refused' = TRUE /\ UNCHANGED <<frames, mode>>
       ELSE /\ frames' = Append(frames, [start |-> Len(buf), mode |-> mode])
            /\ mode' = TRUE
            /\ UNCHANGED refused
    /\ UNCHANGED <<tty, lock, buf, pending, log, ended, n, got>>

\* Where the newest frame begins, and the mode under it.
Top == IF frames = <<>> THEN [start |-> 0, mode |-> FALSE] ELSE Last(frames)
Under == IF frames = <<>> THEN <<>> ELSE Front(frames)
\* The copy is handed back and the bytes stay.
KeptBytes(f) == buf
Kept(f) == SubSeq(buf, 1, f.start)

\* strdup: up to the first zero byte.
CString(s) ==
    LET nuls == {j \in DOMAIN s : s[j].kind = "nul"}
    IN IF nuls = {} THEN s ELSE SubSeq(s, 1, Min(nuls) - 1)

\* nurl_print_buf_stop.
BufStop ==
    /\ Idle /\ asked # <<>>
    /\ got' = [gave |-> CString(SubSeq(buf, Top.start + 1, Len(buf))), owed |-> Last(asked)]
    /\ asked' = Front(asked)
    /\ buf' = Kept(Top) /\ mode' = Top.mode /\ frames' = Under
    /\ UNCHANGED <<tty, lock, pending, log, ended, n, opened, refused>>

\* nurl_print_buf_reset: only when no frame is open.
\* Whatever is open.
HardReset == buf' = <<>>
Reset == buf' = IF frames = <<>> THEN <<>> ELSE buf
BufReset ==
    /\ Idle /\ opened > 0
    /\ Reset
    /\ UNCHANGED <<tty, lock, frames, mode, pending, log, ended, n, opened, asked, refused, got>>

\* nurl_print_buf_unwind, from a panic's recovery: the frames' stops never run.
BufUnwind ==
    /\ Idle /\ asked # <<>>
    /\ frames' = <<>> /\ buf' = <<>> /\ mode' = FALSE /\ asked' = <<>>
    /\ UNCHANGED <<tty, lock, pending, log, ended, n, opened, refused, got>>
----------------------------------------------------------------------------
\* exit() flushes; nurl__oom and nurl_panic do so before abort().
Emptied == pending' = <<>> /\ log' = log \o pending
Exit ==
    /\ Idle /\ n > 0
    /\ Emptied /\ ended' = TRUE
    /\ UNCHANGED <<tty, lock, buf, frames, mode, n, opened, asked, refused, got>>

\* The abort paths without a flush: an exhausted panic journal, and memory
\* running out in the cycle collector or an Rc release.
AbortUnflushed ==
    /\ Idle /\ n > 0
    /\ ended' = TRUE
    /\ UNCHANGED <<tty, lock, buf, frames, mode, pending, log, n, opened, asked, refused, got>>

Next ==
    \/ \E t \in Threads : PrintBytes(t) \/ Text(t) \/ Newline(t) \/ PrintErr(t)
    \/ Flush \/ BufStart \/ BufStop \/ BufReset \/ BufUnwind \/ Exit \/ AbortUnflushed
Spec == Init /\ [][Next]_vars
----------------------------------------------------------------------------
TypeOK ==
    /\ tty \in BOOLEAN /\ lock \in Threads \union {None} /\ mode \in BOOLEAN
    /\ Len(frames) <= StackMax /\ n \in 0 .. MaxPrints + 1 /\ opened \in 0..MaxFrames
    /\ \A j \in DOMAIN frames : frames[j].start \in 0 .. Len(buf)

\* A line is whole wherever it ends up: the newline of a println follows its
\* text, and nothing another thread prints lands between them.
LinesWhole ==
    \A s \in {log \o pending, buf} : \A j \in DOMAIN s :
        s[j].kind = "text" /\ (j < Len(s) \/ lock # s[j].by) =>
            j < Len(s) /\ s[j + 1].kind = "newline" /\ s[j + 1].by = s[j].by

\* A reader of both streams sees what was printed in the order it was printed,
\* on a terminal, a pipe or a file: a diagnostic never overtakes output printed
\* before it.
OrderKept == \A i, j \in DOMAIN log : i < j => log[i].n < log[j].n

\* A capture is what was printed while it was the innermost one, whatever captures
\* were opened and closed inside it and whatever resets were asked for: all of it, or
\* what comes before a zero byte (the copy is a C string, so a raw print's zero byte
\* ends it); unless a start was refused because the stack was full.
CaptureExact ==
    ~refused =>
        /\ IsPrefix(got.gave, got.owed)
        /\ got.gave # got.owed => got.owed[Len(got.gave) + 1].kind = "nul"
        /\ \A j \in DOMAIN got.gave : got.gave[j].kind # "nul"

\* What was printed reaches the reader even when the process dies: every way out
\* empties stdout's buffer first.
NothingLost == ended => pending = <<>>
=============================================================================
