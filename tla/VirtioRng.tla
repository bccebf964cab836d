------------------------------ MODULE VirtioRng ------------------------------
(***************************************************************************)
(* unikernel/boot/virtio_rng.c, and getrandom of                           *)
(* unikernel/boot/platform_riscv64.c: random bytes from a virtio device.   *)
(*                                                                         *)
(* The driver looks for the first entropy device among the bases of the    *)
(* device tree, brings it up, and asks for bytes one request at a time:    *)
(* it publishes a descriptor in the available ring and polls the used ring *)
(* for the device's answer, for a bounded time.  The device is external:   *)
(* it answers each request once, with any number of bytes, or never.       *)
(*                                                                         *)
(* A device's answer is known by the number of the request it is for, so   *)
(* two deliveries of one answer's bytes can be told apart.                 *)
(***************************************************************************)
EXTENDS Integers, Sequences, SequencesExt, FiniteSets

CONSTANTS
    Machines,       \* what may lie at the bases: sequences of [kind, offers, ready, max]
    QSize,          \* QSIZE
    IdxMod,         \* one past the largest ring index (2^16 in the code)
    BufLen,         \* the size of rng_buf
    Wants,          \* bytes a caller may ask for
    MaxReads        \* bound: requests made

VARIABLES
    bases,          \* the machine: one device per base, <<>>-like kind "none" for a zero base
    status,         \* per base, the device's status register
    base,           \* rng_base: 0 until one is ready
    num,            \* the queue size the device was given
    avail, used,    \* rng_avail.idx and rng_used.idx
    ring,           \* rng_used.ring: per slot, the length of the answer
    lastUsed,       \* rng_last_used
    asked,          \* the length in the descriptor
    req,            \* requests published so far
    buf,            \* the request whose answer rng_buf holds, 0 before the first
    want,           \* what the caller still waits for, 0 when there is no call
    pc,             \* "idle", "probe", "ask", "poll" or "panic"
    at,             \* the base under the probe
    took,           \* the requests whose bytes callers were given, in order
    silent          \* the device has not answered within the bound, or claimed too much

vars == <<bases, status, base, num, avail, used, ring, lastUsed, asked, req, buf, want,
          pc, at, took, silent>>
device == <<bases, status, base, num>>

Init ==
    /\ bases \in Machines /\ status = [i \in DOMAIN bases |-> "off"]
    /\ base = 0 /\ num = 0 /\ avail = 0 /\ used = 0 /\ lastUsed = 0
    /\ ring = [s \in 0 .. QSize - 1 |-> 0]
    /\ asked = 0 /\ req = 0 /\ buf = 0 /\ want = 0 /\ pc = "idle" /\ at = 0 /\ took = <<>>
    /\ silent = FALSE
----------------------------------------------------------------------------
\* getrandom: the device is looked for on the first call.
GetRandom(n) ==
    /\ pc = "idle" /\ req < MaxReads
    /\ want' = n
    /\ IF base # 0 THEN pc' = "ask" /\ UNCHANGED at ELSE pc' = "probe" /\ at' = 1
    /\ UNCHANGED <<device, avail, used, ring, lastUsed, asked, req, buf, took, silent>>

\* Whatever answers to the magic number.
AnyDevice(d) == TRUE
Entropy(d) == d.kind = "entropy"
\* rng_init_at: what is left in the status register of a device that is touched.
Brought(d) ==
    CASE ~d.offers -> "failed"       \* FEATURES_OK did not stick
      [] d.ready -> "failed"         \* the queue is in use already
      [] d.max = 0 -> "failed"
      [] OTHER -> "driver_ok"
QueueNum(d) == IF d.max < QSize THEN d.max ELSE QSize

\* The search ends at the first device that does not come up.
GivingUp(i) == Len(bases) + 1
After(i) == i + 1
\* virtio_rng_start: the next base.  A zero base, another device and a legacy one
\* are passed over untouched.
Probe ==
    /\ pc = "probe" /\ at <= Len(bases)
    /\ LET d == bases[at] IN
       IF ~Entropy(d)
       THEN at' = at + 1 /\ UNCHANGED <<status, base, num, pc, avail, used, ring, lastUsed>>
       ELSE /\ status' = [status EXCEPT ![at] = Brought(d)]
            /\ IF Brought(d) = "failed"
               THEN at' = After(at) /\ UNCHANGED <<base, num, pc, avail, used, ring, lastUsed>>
               ELSE /\ base' = at /\ num' = QueueNum(d) /\ pc' = "ask"
                    /\ avail' = 0 /\ used' = 0 /\ lastUsed' = 0
                    /\ UNCHANGED <<at, ring>>
    /\ UNCHANGED <<bases, asked, req, buf, want, took, silent>>

NoSource ==
    /\ pc = "probe" /\ at > Len(bases)
    /\ pc' = "panic"
    /\ UNCHANGED <<device, avail, used, ring, lastUsed, asked, req, buf, want, at, took, silent>>

\* virtio_rng_read: the descriptor, the available ring, the notification.
Ask ==
    /\ pc = "ask" /\ req < MaxReads
    /\ asked' = IF want > BufLen THEN BufLen ELSE want
    /\ avail' = (avail + 1) % IdxMod /\ req' = req + 1
    /\ pc' = "poll"
    /\ UNCHANGED <<device, used, ring, lastUsed, buf, want, at, took, silent>>

\* The device (external): it takes the newest request, writes the buffer and then
\* the used ring, whose size is the one it was told.  A broken one claims more
\* than it was given room for.
Answer(got) ==
    /\ used # avail
    /\ buf' = req
    /\ ring' = [ring EXCEPT ![used % num] = got]
    /\ used' = (used + 1) % IdxMod
    /\ UNCHANGED <<device, avail, lastUsed, asked, req, want, pc, at, took, silent>>

\* The answer's place is read and not passed.
StayingNext == lastUsed
NextUsed == (lastUsed + 1) % IdxMod

\* The answer is there: its length is judged, its bytes are copied.
Collect ==
    /\ pc = "poll" /\ used # lastUsed
    /\ LET got == ring[lastUsed % QSize] IN
       IF got > asked \/ got = 0
       THEN pc' = "panic" /\ silent' = (ring[lastUsed % num] = got) /\ UNCHANGED <<want, took>>
       ELSE /\ want' = want - got /\ took' = Append(took, buf)
            /\ pc' = IF want = got THEN "idle" ELSE "ask"
            /\ UNCHANGED silent
    /\ lastUsed' = NextUsed
    /\ UNCHANGED <<device, avail, used, ring, asked, req, buf, at>>

\* The bound on the wait.
TimeOut ==
    /\ pc = "poll" /\ used = lastUsed
    /\ pc' = "panic" /\ silent' = TRUE
    /\ UNCHANGED <<device, avail, used, ring, lastUsed, asked, req, buf, want, at, took>>

Next ==
    \/ \E n \in Wants : GetRandom(n)
    \/ Probe \/ NoSource \/ Ask \/ Collect \/ TimeOut
    \/ \E got \in 0 .. BufLen + 1 : Answer(got)
Spec == Init /\ [][Next]_vars
----------------------------------------------------------------------------
TypeOK ==
    /\ base \in 0 .. Len(bases) /\ num \in 0..QSize /\ want \in Nat /\ req \in 0..MaxReads
    /\ {avail, used, lastUsed} \subseteq 0 .. IdxMod - 1
    /\ pc \in {"idle", "probe", "ask", "poll", "panic"}
    /\ (pc \in {"ask", "poll"} => base # 0 /\ want > 0)

\* Every byte a caller is given was written by the device for the request made
\* on its behalf, wherever the ring indices wrapped: no answer is delivered
\* twice, and none to a later request.
FreshBytes == took' # took => Last(took') = req

\* The device in use is the first entropy device that came up, every one before
\* it is marked failed, and no device of another kind was touched.
FirstWorking ==
    /\ base # 0 => status[base] = "driver_ok"
    /\ \A i \in DOMAIN bases :
          IF bases[i].kind # "entropy" THEN status[i] = "off"
          ELSE base > i => status[i] = "failed"

\* The guest stops for want of entropy only where the device gave none: there is
\* no entropy device that comes up, or the one in use did not answer in time or
\* misstated its answer.
NoFalsePanic ==
    pc = "panic" => silent \/ \A i \in DOMAIN bases : Entropy(bases[i]) => Brought(bases[i]) = "failed"
=============================================================================
