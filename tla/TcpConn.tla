------------------------------- MODULE TcpConn -------------------------------
(***************************************************************************)
(* stdlib/runtime_ffi.c section 18, a connection: reads, writes of one or  *)
(* two segments, single non-blocking attempts, sendfile and kTLS sends,    *)
(* the idle timeout and the absolute write deadline that are pushed to the *)
(* socket late (timeo_dirty, sndtimeo_deadline), and the wait a read-side  *)
(* shutdown must end.                                                      *)
(*                                                                         *)
(* The clock counts units of 1 / NsPerMs millisecond: socket timeouts are  *)
(* in milliseconds, the deadline is not.                                   *)
(***************************************************************************)
EXTENDS Integers, Sequences

CONSTANTS
    NsPerMs,      \* clock units in a millisecond
    MaxClock,     \* bound: the clock's last value
    Idles,        \* idle timeouts the program sets, in ms; 0 is none
    Budgets,      \* write budgets the program sets, in clock units
    Sizes,        \* <<n1, n2>>: the segments of a write
    MaxOps        \* bound: operations

VARIABLES
    now,       \* nurl_monotonic_ns
    h,         \* the handle's timeouts, flags and mode
    sock,      \* the kernel's: O_NONBLOCK, SO_RCVTIMEO, SO_SNDTIMEO
    op,        \* the operation in progress
    sent,      \* the bytes of the write in progress the kernel has taken
    waiter,    \* a thread in nurl_tcp_wait_io
    ops        \* operations begun

vars == <<now, h, sock, op, sent, waiter, ops>>

NoOp == [kind |-> "none", at |-> "none", n1 |-> 0, n |-> 0, total |-> 0, since |-> 0]

\* A connected handle; on Windows (win) a receive-side shutdown is silent.
Init ==
    /\ now = 0 /\ op = NoOp /\ sent = <<>> /\ ops = 0 /\ waiter = "rest"
    /\ \E win \in BOOLEAN :
         h = [timeout |-> 0, deadline |-> 0, sndDeadline |-> FALSE, dirty |-> FALSE,
              nonblock |-> FALSE, readShut |-> FALSE, rdWake |-> "none", win |-> win]
    /\ sock = [nonblock |-> FALSE, rcv |-> 0, snd |-> 0]

Idle == op.kind = "none" /\ ops < MaxOps
Blocked == op.at = "kernel" /\ ~sock.nonblock
Limit == IF op.kind = "read" THEN sock.rcv ELSE sock.snd
\* The kernel ends a blocked call when its timeout is over.
Overdue == Blocked /\ Limit > 0 /\ now >= op.since + Limit * NsPerMs
Tick ==
    /\ now < MaxClock /\ ~Overdue /\ (op.at = "kernel" => Blocked) /\ op.at # "prepare"
    /\ now' = now + 1 /\ UNCHANGED <<h, sock, op, sent, waiter, ops>>

-----------------------------------------------------------------------------
(* What the program sets between operations.                               *)

SetTimeout(ms) ==
    /\ Idle /\ ops' = ops + 1 /\ h' = [h EXCEPT !.timeout = ms, !.dirty = TRUE]
    /\ UNCHANGED <<now, sock, op, sent, waiter>>

\* A deadline that leaves the idle timeout as the kernel has it.
ForgetfulDeadline(d) == [h EXCEPT !.deadline = d]
\* nurl_tcp_set_write_deadline: the idle timeout is restored only where a
\* remainder of the old deadline has replaced it.
Deadline(d) == [h EXCEPT !.deadline = d, !.dirty = @ \/ h.sndDeadline]
SetWriteDeadline(b) ==
    /\ Idle /\ ops' = ops + 1 /\ h' = Deadline(IF b > 0 THEN now + b ELSE 0)
    /\ UNCHANGED <<now, sock, op, sent, waiter>>

SetNonblock(on) ==
    /\ Idle /\ ops' = ops + 1 /\ h.nonblock # on
    /\ h' = [h EXCEPT !.nonblock = on] /\ sock' = [sock EXCEPT !.nonblock = on]
    /\ UNCHANGED <<now, op, sent, waiter>>

-----------------------------------------------------------------------------
(* Reads and writes.                                                       *)

\* nurl__tcp_apply_timeo.
Applied == [h |-> [h EXCEPT !.dirty = FALSE, !.sndDeadline = FALSE],
            sock |-> [sock EXCEPT !.rcv = h.timeout, !.snd = h.timeout]]
Fresh == IF h.dirty /\ ~h.nonblock THEN Applied ELSE [h |-> h, sock |-> sock]

\* The time left to the deadline, rounded up to a millisecond.
Left == (h.deadline - now - 1) \div NsPerMs + 1

\* nurl_tcp_write_wait_ms: -1 unlimited, 0 expired.
WriteWaitMs ==
    LET idle == IF h.timeout > 0 THEN h.timeout ELSE -1 IN
    IF h.deadline = 0 THEN idle
    ELSE IF now >= h.deadline THEN 0
    ELSE IF idle < 0 \/ Left < idle THEN Left ELSE idle

\* nurl_tcp_read and nurl_ktls_recv: the idle timeout, then recv.
Read ==
    /\ Idle /\ ops' = ops + 1
    /\ h' = Fresh.h /\ sock' = Fresh.sock
    /\ op' = [NoOp EXCEPT !.kind = "read", !.at = "kernel", !.since = now]
    /\ UNCHANGED <<now, sent, waiter>>

\* nurl_tcp_write, nurl_tcp_write2, nurl_tcp_sendfile.
Write(kind, size) ==
    /\ Idle /\ ops' = ops + 1
    /\ op' = [NoOp EXCEPT !.kind = kind, !.at = "prepare", !.n1 = size[1], !.n = size[1] + size[2]]
    /\ sent' = <<>> /\ UNCHANGED <<now, h, sock, waiter>>

\* nurl_ktls_send: one record, with no preparation.
KtlsSend ==
    /\ Idle /\ ops' = ops + 1
    /\ op' = [NoOp EXCEPT !.kind = "ktls", !.at = "kernel", !.n1 = 1, !.n = 1, !.since = now]
    /\ sent' = <<>> /\ UNCHANGED <<now, h, sock, waiter>>

Ended == op' = NoOp /\ UNCHANGED <<now, waiter, ops>>

\* A deadline checked only where the write begins.
OncePrepare ==
    /\ op.at = "prepare"
    /\ LET f == Fresh
           timed == h.deadline > 0 /\ ~h.nonblock /\ op.total = 0 IN
         /\ h' = IF timed THEN [f.h EXCEPT !.sndDeadline = TRUE] ELSE f.h
         /\ sock' = IF timed THEN [f.sock EXCEPT !.snd = WriteWaitMs] ELSE f.sock
    /\ op' = IF WriteWaitMs = 0 /\ op.total = 0 THEN NoOp
             ELSE [op EXCEPT !.at = "kernel", !.since = now]
    /\ UNCHANGED <<now, sent, waiter, ops>>
\* nurl__tcp_prepare_write before every send: the stored timeout, then what
\* the deadline leaves; an expired one ends the write.
Prepare ==
    /\ op.at = "prepare"
    /\ LET f == Fresh
           timed == WriteWaitMs # 0 /\ h.deadline > 0 /\ ~h.nonblock IN
         /\ h' = IF timed THEN [f.h EXCEPT !.sndDeadline = TRUE] ELSE f.h
         /\ sock' = IF timed THEN [f.sock EXCEPT !.snd = WriteWaitMs] ELSE f.sock
    /\ op' = IF WriteWaitMs = 0 THEN NoOp ELSE [op EXCEPT !.at = "kernel", !.since = now]
    /\ UNCHANGED <<now, sent, waiter, ops>>

\* The second segment not advanced by what of it went out.
StaleVector(total) ==
    IF total < op.n1 THEN <<[from |-> total, to |-> op.n1], [from |-> op.n1, to |-> op.n]>>
    ELSE <<[from |-> op.n1, to |-> op.n]>>
\* The vector re-pointed at what is still unsent of head and body.
Vector(total) ==
    IF total < op.n1 THEN <<[from |-> total, to |-> op.n1], [from |-> op.n1, to |-> op.n]>>
    ELSE <<[from |-> total, to |-> op.n]>>
\* The bytes of a vector, in the order the kernel takes them.
BytesOf(v) == LET seg(s) == [i \in 1 .. s.to - s.from |-> s.from + i]
              IN  IF Len(v) = 1 THEN seg(v[1]) ELSE seg(v[1]) \o seg(v[2])

Writing == op.kind \in {"write", "sendfile", "ktls"} /\ op.at = "kernel"

\* send / sendmsg / sendfile took k bytes; the loops go on until all are
\* out, the single calls return.
Took ==
    /\ Writing
    /\ \E k \in 1 .. Len(BytesOf(Vector(op.total))) :
         /\ sent' = sent \o SubSeq(BytesOf(Vector(op.total)), 1, k)
         /\ op' = IF op.total + k >= op.n \/ op.kind # "write" THEN NoOp
                  ELSE [op EXCEPT !.at = "prepare", !.total = @ + k]
    /\ UNCHANGED <<now, h, sock, waiter, ops>>

\* EINTR: a write prepares again, sendfile and kTLS just call again.
Interrupted ==
    /\ Writing
    /\ op' = IF op.kind = "write" THEN [op EXCEPT !.at = "prepare"] ELSE [op EXCEPT !.since = now]
    /\ UNCHANGED <<now, h, sock, sent, waiter, ops>>

\* nurl__tcp_short_send: would block, timed out, or a dead connection.
Short ==
    /\ Writing /\ UNCHANGED <<h, sock, sent>> /\ Ended
ReadEnds ==
    /\ op.kind = "read" /\ UNCHANGED <<h, sock, sent>> /\ Ended

\* An attempt that leaves the socket blocking whatever it was.
ForcedMode == FALSE
\* The mode an attempt without MSG_DONTWAIT puts back.
RestoredMode == h.nonblock
\* nurl_tcp_write_nowait and nurl_tcp_read_nowait: one attempt in
\* non-blocking mode; an expired deadline fails the write first.
NowaitBegin ==
    /\ Idle /\ ops' = ops + 1
    /\ \E kind \in {"readNow", "writeNow"} :
         /\ kind = "writeNow" => WriteWaitMs # 0
         /\ op' = [NoOp EXCEPT !.kind = kind, !.at = "kernel", !.since = now]
    /\ sock' = [sock EXCEPT !.nonblock = TRUE] /\ UNCHANGED <<now, h, sent, waiter>>
NowaitEnd ==
    /\ op.kind \in {"readNow", "writeNow"}
    /\ sock' = [sock EXCEPT !.nonblock = RestoredMode] /\ UNCHANGED <<h, sent>> /\ Ended

-----------------------------------------------------------------------------
(* nurl_tcp_wait_io for reading, against nurl_tcp_conn_shutdown.           *)

\* Under nurl__rd_wake_lock: the flag, and the signal opened.
WaitBegin ==
    /\ waiter = "rest"
    /\ waiter' = IF h.win /\ h.readShut THEN "back" ELSE "polling"
    /\ h' = IF h.win /\ ~h.readShut /\ h.rdWake = "none" THEN [h EXCEPT !.rdWake = "quiet"] ELSE h
    /\ UNCHANGED <<now, sock, op, sent, ops>>
\* POSIX reports the shut side itself, Windows through the signal.
WaitEnds ==
    /\ waiter = "polling" /\ (IF h.win THEN h.rdWake = "raised" ELSE h.readShut)
    /\ waiter' = "back" /\ UNCHANGED <<now, h, sock, op, sent, ops>>
WaitReady ==
    /\ waiter = "polling" /\ waiter' = "back" /\ UNCHANGED <<now, h, sock, op, sent, ops>>
\* A shutdown that raises no signal.
MuteShutdown ==
    /\ ~h.readShut /\ h' = [h EXCEPT !.readShut = TRUE]
    /\ UNCHANGED <<now, sock, op, sent, waiter, ops>>
ConnShutdown ==
    /\ ~h.readShut
    /\ h' = [h EXCEPT !.readShut = TRUE, !.rdWake = IF @ = "quiet" THEN "raised" ELSE @]
    /\ UNCHANGED <<now, sock, op, sent, waiter, ops>>

Next ==
    \/ Tick
    \/ \E ms \in Idles : SetTimeout(ms)
    \/ \E b \in Budgets : SetWriteDeadline(b)
    \/ \E on \in BOOLEAN : SetNonblock(on)
    \/ Read \/ ReadEnds \/ NowaitBegin \/ NowaitEnd \/ KtlsSend
    \/ \E size \in Sizes : Write("write", size) \/ Write("sendfile", size)
    \/ Prepare \/ Took \/ Interrupted \/ Short
    \/ WaitBegin \/ WaitEnds \/ WaitReady \/ ConnShutdown

\* A poll that has something to report returns.
Fairness == WF_vars(WaitEnds)

Spec == Init /\ [][Next]_vars /\ Fairness

-----------------------------------------------------------------------------
\* A write never stays in the kernel a millisecond past its deadline,
\* whatever partial progress and interruptions there were.
WriteWithinDeadline ==
    (op.kind = "write" /\ Blocked /\ h.deadline > 0) => now < h.deadline + NsPerMs

\* The same of every call that sends.
EverySendWithinDeadline == (Writing /\ Blocked /\ h.deadline > 0) => now < h.deadline + NsPerMs

\* A call that blocks with no deadline over it blocks for the idle timeout
\* the program last set, not for the remainder of an old deadline.
IdleTimeoutInForce ==
    /\ (op.kind = "read" /\ Blocked) => sock.rcv = h.timeout
    /\ (op.kind = "write" /\ Blocked /\ h.deadline = 0) => sock.snd = h.timeout

\* The kernel got a prefix of head and body, in order, nothing twice.
PrefixSent == sent = [i \in 1 .. Len(sent) |-> i]

\* Between operations the descriptor is in the mode the handle remembers.
ModeRemembered == op.kind = "none" => sock.nonblock = h.nonblock

\* A thread waiting for the connection to turn readable, whose read side is
\* shut before or after the wait began: it returns.
ShutInWait == h.readShut /\ waiter = "polling"
WaitOver == waiter = "back"
=============================================================================
