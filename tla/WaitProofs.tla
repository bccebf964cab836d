----------------------------- MODULE WaitProofs -----------------------------
(***************************************************************************)
(* Proofs about the times and the answers that waiters get, for every      *)
(* value of the constants.                                                 *)
(*                                                                         *)
(* The guest's clock: no sleep is short and no halt is without a wakeup.   *)
(* Connections: a write leaves the kernel by its deadline, and what was    *)
(* sent is a prefix.  The poll(2) reactor: a wait entry is in one list,    *)
(* its fiber is woken once, and the answer is true.                        *)
(***************************************************************************)
EXTENDS LifetimeProofs

-----------------------------------------------------------------------------
(* The unikernel's clock.                                                  *)

Sleeps == [deadline : Nat, count : Nat, want : Nat, from : Nat]

\* The machine, the timer and the sleep in progress.
ClockType ==
    /\ mach \in Machines /\ perMs \in Counts \cup {0} /\ tsc \in 0 .. MaxTsc /\ lag \in 0 .. MaxLag
    /\ fires \in 0 .. MaxTsc /\ pending \in BOOLEAN /\ sleep \in Sleeps /\ early = FALSE
    /\ gpc \in {"run", "loop", "arm", "armed", "halt", "spin"} /\ sleeps \in 0 .. MaxSleeps

\* A sleep in progress ends, in ticks, no earlier than the clock's reading at its call
\* and its length say, and its laps stay within the bound of the TSC; the timer of a CPU
\* about to halt, or halted, is armed or has fired; a one-shot has a count.
SleepRight ==
    /\ gpc # "run" => /\ GC!TscKhz(mach) # 0
                      /\ (sleep.from + sleep.want) * GC!PerUs <= sleep.deadline
                      /\ sleep.deadline + MaxCount * ApicPeriod + 4 * MaxLag <= MaxTsc
    /\ gpc \in {"loop", "arm", "armed", "halt"} => GC!HasTimer /\ (~GC!DeadlineMode => perMs # 0)
    /\ gpc = "arm" => tsc - lag < sleep.deadline /\ (~GC!DeadlineMode => sleep.count \in 1 .. MaxCount)
    /\ gpc \in {"armed", "halt"} => pending \/ fires # 0
ClockInv == ClockType /\ SleepRight

\* The greater of two numbers.
LEMMA MaxOfTwo ==
    ASSUME NEW a \in Int, NEW b \in Int
    PROVE  GC!Max({a, b}) \in {a, b} /\ GC!Max({a, b}) >= a /\ GC!Max({a, b}) >= b
  <1>1. \E x \in {a, b} : \A y \in {a, b} : x >= y
    <2>1. CASE a >= b BY <2>1
    <2>2. CASE b >= a BY <2>2
    <2> QED BY <2>1, <2>2
  <1> QED BY <1>1 DEF GC!Max

\* The smaller of two numbers.
LEMMA MinOfTwo ==
    ASSUME NEW a \in Int, NEW b \in Int
    PROVE  GC!Min({a, b}) \in {a, b} /\ GC!Min({a, b}) <= a /\ GC!Min({a, b}) <= b
  <1>1. \E x \in {a, b} : \A y \in {a, b} : x <= y
    <2>1. CASE a >= b BY <2>1
    <2>2. CASE b >= a BY <2>2
    <2> QED BY <2>1, <2>2
  <1> QED BY <1>1 DEF GC!Min

\* Division by a positive number rounds down.
LEMMA DivRounds ==
    ASSUME NEW a \in Nat, NEW d \in Nat \ {0}
    PROVE  a \div d \in Nat /\ (a \div d) * d <= a /\ a < (a \div d + 1) * d
  OBVIOUS

\* Products grow with their factors.
LEMMA ProductGrows ==
    ASSUME NEW a \in Nat, NEW b \in Nat, NEW d \in Nat, a <= b
    PROVE  a * d <= b * d
  OBVIOUS

\* A number that is a multiple or more divides into no less.
LEMMA DivReaches ==
    ASSUME NEW a \in Nat, NEW d \in Nat \ {0}, NEW n \in Nat, n * d <= a
    PROVE  n <= a \div d
  <1> DEFINE q == a \div d
  <1>1. q \in Nat /\ a < (q + 1) * d
    BY DivRounds
  <1> HIDE DEF q
  <1>2. CASE n <= q
    BY <1>2 DEF q
  <1>3. CASE q + 1 <= n
    <2>1. (q + 1) * d <= n * d
      BY <1>1, <1>3, ProductGrows
    <2>2. (q + 1) * d \in Nat /\ n * d \in Nat
      BY <1>1
    <2> QED BY <1>1, <2>1, <2>2
  <1> QED BY <1>1, <1>2, <1>3

\* The frequency is a number, and a microsecond at least one tick.
LEMMA Frequency ==
    ASSUME mach \in Machines
    PROVE  GC!TscKhz(mach) \in Nat /\ GC!PerUs \in Nat \ {0}
  <1>1. mach \in [hypervisor : Nat, crystal : Nat, cmdline : Nat, nameplate : Nat, pit : Nat,
                  mb2 : BOOLEAN, apic : BOOLEAN, deadline : BOOLEAN] /\ Milli \in Nat \ {0}
    BY GuestAssumption
  <1>2. GC!TscKhz(mach) \in Nat
    BY <1>1 DEF GC!TscKhz
  <1>3. GC!TscKhz(mach) \div Milli \in Nat
    BY <1>1, <1>2, DivRounds
  <1> QED BY <1>2, <1>3, MaxOfTwo DEF GC!PerUs

\* A machine that has just booted.
LEMMA ClockBegins == GC!Init => ClockInv
  <1> SUFFICES ASSUME GC!Init PROVE ClockInv
    OBVIOUS
  <1>1. GC!NoSleep \in Sleeps
    BY DEF GC!NoSleep, Sleeps
  <1>2. perMs = 0 /\ tsc = 0 /\ lag = 0 /\ fires = 0 /\ sleeps = 0 /\ pending = FALSE /\ gpc = "run"
    BY DEF GC!Init
  <1>3. tsc \in 0 .. MaxTsc /\ lag \in 0 .. MaxLag /\ fires \in 0 .. MaxTsc /\ sleeps \in 0 .. MaxSleeps
    BY <1>2, GuestAssumption
  <1>4. ClockType
    BY <1>1, <1>2, <1>3 DEF GC!Init, ClockType
  <1> QED BY <1>2, <1>4 DEF ClockInv, SleepRight

\* Time passes.
LEMMA TickKeeps == ASSUME ClockInv, GC!Tick PROVE ClockInv'
  <1>1. /\ UNCHANGED <<mach, perMs, gpc, sleep, early, sleeps>> /\ tsc < MaxTsc /\ tsc' = tsc + 1
        /\ \/ (gpc = "spin" \/ gpc = "halt") /\ lag' = lag
           \/ lag < MaxLag /\ lag' = lag + 1
        /\ (pending' = TRUE /\ fires' = 0) \/ UNCHANGED <<pending, fires>>
    BY DEF GC!Tick
  <1>2. tsc' \in 0 .. MaxTsc /\ lag' \in 0 .. MaxLag
    BY <1>1, GuestAssumption DEF ClockInv, ClockType
  <1>8. pending' \in BOOLEAN
    BY <1>1, Zenon DEF ClockInv, ClockType
  <1>9. fires' \in 0 .. MaxTsc
    BY <1>1, GuestAssumption DEF ClockInv, ClockType
  <1>3. ClockType'
    BY <1>1, <1>2, <1>8, <1>9 DEF ClockInv, ClockType
  <1>4. GC!PerUs' = GC!PerUs /\ (GC!HasTimer)' = GC!HasTimer /\ (GC!DeadlineMode)' = GC!DeadlineMode
    BY <1>1 DEF GC!PerUs, GC!HasTimer, GC!DeadlineMode
  <1>5. gpc = "arm" => tsc' - lag' = tsc - lag
    BY <1>1 DEF ClockInv, ClockType
  <1>6. gpc \in {"armed", "halt"} => pending' \/ fires' # 0
    BY <1>1 DEF ClockInv, SleepRight
  <1>7. SleepRight'
    BY <1>1, <1>4, <1>5, <1>6 DEF ClockInv, SleepRight
  <1> QED BY <1>3, <1>7 DEF ClockInv

\* A sleep begins: its deadline is at least its length after the clock's reading.
LEMMA NanosleepKeeps == ASSUME ClockInv, NEW want \in Wants, GC!Nanosleep(want) PROVE ClockInv'
  <1>0. ClockType /\ want \in Nat /\ GC!PerUs \in Nat \ {0} /\ tsc \in Nat
    BY Frequency, GuestAssumption DEF ClockInv, ClockType
  <1> DEFINE d == tsc + want * GC!PerUs
             c == GC!Clock(tsc)
  <1>1. /\ UNCHANGED <<mach, tsc, fires, pending, early>> /\ GC!TscKhz(mach) # 0 /\ gpc = "run"
        /\ d + MaxCount * ApicPeriod + 4 * MaxLag <= MaxTsc
        /\ lag' = 0 /\ sleep' = [deadline |-> d, count |-> 0, want |-> want, from |-> c]
        /\ IF GC!HasTimer /\ ~GC!DeadlineMode /\ perMs = 0 THEN perMs' \in Counts ELSE perMs' = perMs
        /\ gpc' = (IF GC!HasTimer THEN "loop" ELSE "spin") /\ sleeps < MaxSleeps /\ sleeps' = sleeps + 1
    BY DEF GC!Nanosleep
  <1>2. c \in Nat /\ c * GC!PerUs <= tsc
    BY <1>0, DivRounds DEF GC!Clock
  <1>3. d \in Nat /\ (c + want) * GC!PerUs <= d
    BY <1>0, <1>2
  <1> HIDE DEF d, c
  <1>4. sleep' \in Sleeps /\ sleep'.deadline = d /\ sleep'.want = want /\ sleep'.from = c
    BY <1>0, <1>1, <1>2, <1>3 DEF Sleeps
  <1>5. sleeps' \in 0 .. MaxSleeps /\ lag' \in 0 .. MaxLag
    BY <1>0, <1>1, GuestAssumption DEF ClockType
  <1>6. ClockType'
    BY <1>0, <1>1, <1>4, <1>5 DEF ClockType
  <1>7. /\ GC!PerUs' = GC!PerUs /\ (GC!HasTimer)' = GC!HasTimer /\ (GC!DeadlineMode)' = GC!DeadlineMode
        /\ GC!TscKhz(mach') = GC!TscKhz(mach)
    BY <1>1 DEF GC!PerUs, GC!HasTimer, GC!DeadlineMode
  <1>8. gpc' \in {"loop", "spin"} /\ (gpc' = "loop" => GC!HasTimer)
    BY <1>1
  <1>9. GC!HasTimer /\ ~GC!DeadlineMode => perMs' # 0
    BY <1>1, GuestAssumption
  <1>10. SleepRight'
    BY <1>1, <1>3, <1>4, <1>7, <1>8, <1>9 DEF SleepRight
  <1> QED BY <1>6, <1>10 DEF ClockInv

\* A sleep whose deadline has come is not short on the clock the program reads.
LEMMA NotShort ==
    ASSUME ClockInv, gpc # "run", tsc >= sleep.deadline
    PROVE  (GC!Clock(tsc) - sleep.from < sleep.want) = FALSE
  <1>1. /\ tsc \in Nat /\ sleep.from \in Nat /\ sleep.want \in Nat /\ sleep.deadline \in Nat
        /\ GC!PerUs \in Nat \ {0} /\ (sleep.from + sleep.want) * GC!PerUs <= sleep.deadline
    BY Frequency, GuestAssumption DEF ClockInv, ClockType, SleepRight, Sleeps
  <1>2. (sleep.from + sleep.want) * GC!PerUs <= tsc
    BY <1>1
  <1>3. sleep.from + sleep.want <= tsc \div GC!PerUs /\ tsc \div GC!PerUs \in Nat
    BY <1>1, <1>2, DivReaches, DivRounds
  <1> QED BY <1>1, <1>3 DEF GC!Clock

\* Back from a sleep.
LEMMA ReturnsKeep ==
    ASSUME ClockInv, gpc # "run", tsc >= sleep.deadline, GC!Return, lag' = 0,
           UNCHANGED <<mach, perMs, tsc, fires, pending, sleeps>>
    PROVE  ClockInv'
  <1>0. (GC!Clock(tsc) - sleep.from < sleep.want) = FALSE
    BY NotShort
  <1>1. gpc' = "run" /\ sleep' = GC!NoSleep /\ early' = FALSE
    <2>1. gpc' = "run" /\ sleep' = GC!NoSleep /\ early' = (GC!Clock(tsc) - sleep.from < sleep.want)
      BY DEF GC!Return
    <2>2. early' = FALSE
      BY ONLY <1>0, <2>1, Zenon
    <2> QED BY <2>1, <2>2
  <1>2. GC!NoSleep \in Sleeps
    BY DEF GC!NoSleep, Sleeps
  <1>3. ClockType'
    BY <1>1, <1>2, GuestAssumption DEF ClockInv, ClockType
  <1> QED BY <1>1, <1>3 DEF ClockInv, SleepRight

\* A lap of the one-shot timer counts at least once and at most to its limit.
LEMMA LapBounds ==
    ASSUME ClockInv, gpc = "loop", tsc < sleep.deadline, ~GC!DeadlineMode
    PROVE  GC!LapCount \in 1 .. MaxCount
  <1>1. /\ sleep.deadline - tsc \in Nat /\ GC!TscKhz(mach) \in Nat \ {0} /\ perMs \in Nat \ {0}
        /\ MaxCount \in Nat \ {0}
    BY Frequency, GuestAssumption DEF ClockInv, ClockType, SleepRight, Sleeps
  <1> DEFINE q == (sleep.deadline - tsc) \div GC!TscKhz(mach)
             m == GC!Max({q, 1})
  <1>2. q \in Nat
    BY <1>1, DivRounds
  <1>3. m \in Nat /\ m >= 1
    BY <1>2, MaxOfTwo
  <1> HIDE DEF q, m
  <1>4. m * perMs \in Nat /\ m * perMs >= 1
    BY <1>1, <1>3
  <1>5. GC!Min({m * perMs, MaxCount}) \in 1 .. MaxCount
    BY <1>1, <1>4, MinOfTwo
  <1> QED BY <1>5 DEF GC!LapCount, m, q

\* The test of the loop: another lap, or back.
LEMMA CheckKeepsSleep == ASSUME ClockInv, GC!Check PROVE ClockInv'
  <1>0. ClockType
    BY DEF ClockInv
  <1>1. UNCHANGED <<mach, perMs, tsc, fires, pending, sleeps>> /\ gpc = "loop" /\ lag' = 0
    BY DEF GC!Check
  <1>2. CASE tsc < sleep.deadline
    <2>1. gpc' = "arm" /\ early' = early
      BY <1>2 DEF GC!Check
    <2>2. /\ sleep' \in Sleeps /\ sleep'.deadline = sleep.deadline /\ sleep'.want = sleep.want /\ sleep'.from = sleep.from
          /\ ~GC!DeadlineMode => sleep'.count \in 1 .. MaxCount
      <3>1. CASE GC!DeadlineMode
        BY <1>0, <1>2, <3>1 DEF GC!Check, ClockType
      <3>2. CASE ~GC!DeadlineMode
        <4>1. GC!LapCount \in 1 .. MaxCount
          BY <1>1, <1>2, <3>2, LapBounds
        <4>2. sleep' = [sleep EXCEPT !.count = GC!LapCount]
          BY <1>2, <3>2 DEF GC!Check
        <4> QED BY <1>0, <4>1, <4>2, GuestAssumption DEF ClockType, Sleeps
      <3> QED BY <3>1, <3>2
    <2>3. ClockType'
      BY <1>0, <1>1, <2>1, <2>2, GuestAssumption DEF ClockType
    <2>4. GC!PerUs' = GC!PerUs /\ (GC!HasTimer)' = GC!HasTimer /\ (GC!DeadlineMode)' = GC!DeadlineMode
      BY <1>1 DEF GC!PerUs, GC!HasTimer, GC!DeadlineMode
    <2>5. tsc' - lag' < sleep'.deadline
      BY <1>0, <1>1, <1>2, <2>2 DEF ClockType
    <2>6. SleepRight'
      BY <1>1, <2>1, <2>2, <2>4, <2>5 DEF ClockInv, SleepRight
    <2> QED BY <2>3, <2>6 DEF ClockInv
  <1>3. CASE ~(tsc < sleep.deadline)
    <2>1. tsc >= sleep.deadline
      BY <1>0, <1>3 DEF ClockType, Sleeps
    <2>2. GC!Return
      BY <1>3 DEF GC!Check
    <2> QED BY <1>1, <2>1, <2>2, ReturnsKeep
  <1> QED BY <1>2, <1>3

\* The timer is armed, or fires at once.
LEMMA ArmKeeps == ASSUME ClockInv, GC!Arm PROVE ClockInv'
  <1>0. ClockType
    BY DEF ClockInv
  <1>1. UNCHANGED <<mach, perMs, tsc, sleep, early, sleeps>> /\ gpc = "arm" /\ gpc' = "armed" /\ lag' = 0
    BY DEF GC!Arm
  <1>2. PICK w : /\ w = IF GC!DeadlineMode THEN sleep.deadline ELSE tsc + sleep.count * ApicPeriod
                 /\ (pending' = TRUE /\ fires' = 0) \/ (~(w <= tsc) /\ fires' = w /\ pending' = pending)
    BY DEF GC!Arm
  <1>3. w \in 0 .. MaxTsc
    <2>1. /\ tsc \in Nat /\ lag \in 0 .. MaxLag /\ sleep.deadline \in Nat /\ tsc - lag < sleep.deadline
          /\ sleep.deadline + MaxCount * ApicPeriod + 4 * MaxLag <= MaxTsc
          /\ MaxCount \in Nat /\ ApicPeriod \in Nat /\ MaxLag \in Nat /\ MaxTsc \in Nat
      BY <1>0, <1>1, GuestAssumption DEF ClockInv, ClockType, SleepRight, Sleeps
    <2>2. MaxCount * ApicPeriod \in Nat
      BY <2>1
    <2>3. CASE GC!DeadlineMode
      BY <1>2, <2>1, <2>2, <2>3
    <2>4. CASE ~GC!DeadlineMode
      <3>1. sleep.count \in 1 .. MaxCount
        BY <1>1, <2>4 DEF ClockInv, SleepRight
      <3>2. sleep.count * ApicPeriod \in Nat /\ sleep.count * ApicPeriod <= MaxCount * ApicPeriod
        BY <2>1, <3>1, ProductGrows
      <3> QED BY <1>2, <2>1, <2>2, <2>4, <3>2
    <2> QED BY <2>3, <2>4
  <1>8. pending' \in BOOLEAN
    BY <1>0, <1>2, Zenon DEF ClockType
  <1>9. fires' \in 0 .. MaxTsc /\ lag' \in 0 .. MaxLag
    BY <1>1, <1>2, <1>3, GuestAssumption
  <1>4. pending' \/ fires' # 0
    BY <1>0, <1>2, <1>3 DEF ClockType
  <1>5. ClockType'
    BY <1>0, <1>1, <1>8, <1>9 DEF ClockType
  <1>6. GC!PerUs' = GC!PerUs /\ (GC!HasTimer)' = GC!HasTimer /\ (GC!DeadlineMode)' = GC!DeadlineMode
    BY <1>1 DEF GC!PerUs, GC!HasTimer, GC!DeadlineMode
  <1>7. SleepRight'
    BY <1>1, <1>4, <1>6 DEF ClockInv, SleepRight
  <1> QED BY <1>5, <1>7 DEF ClockInv

\* The halt, and the interrupt that ends it.
LEMMA HaltKeeps == ASSUME ClockInv, GC!Idle \/ GC!Wake PROVE ClockInv'
  <1>0. ClockType
    BY DEF ClockInv
  <1>1. /\ UNCHANGED <<mach, perMs, tsc, sleep, early, sleeps>> /\ gpc \in {"armed", "halt"} /\ lag' = 0
        /\ \/ gpc' = "loop" /\ pending' = FALSE /\ fires' \in {fires, 0}
           \/ gpc' = "halt" /\ UNCHANGED <<pending, fires>>
    BY DEF GC!Idle, GC!Wake, GC!Halt
  <1>5. pending' \in BOOLEAN
    BY <1>0, <1>1, Zenon DEF ClockType
  <1>6. fires' \in 0 .. MaxTsc /\ lag' \in 0 .. MaxLag
    BY <1>0, <1>1, GuestAssumption DEF ClockType
  <1>2. ClockType'
    BY <1>0, <1>1, <1>5, <1>6 DEF ClockType
  <1>3. GC!PerUs' = GC!PerUs /\ (GC!HasTimer)' = GC!HasTimer /\ (GC!DeadlineMode)' = GC!DeadlineMode
    BY <1>1 DEF GC!PerUs, GC!HasTimer, GC!DeadlineMode
  <1>4. SleepRight'
    BY <1>1, <1>3 DEF ClockInv, SleepRight
  <1> QED BY <1>2, <1>4 DEF ClockInv

\* Every step of the guest and of time.
LEMMA ClockStep == ASSUME ClockInv, GC!Next PROVE ClockInv'
  <1>1. CASE GC!Spin
    BY <1>1, ReturnsKeep DEF GC!Spin
  <1> QED BY <1>1, TickKeeps, NanosleepKeeps, CheckKeepsSleep, ArmKeeps, HaltKeeps DEF GC!Next, GC!Cpu

\* No sleep is short, and a halted CPU will be woken.
LEMMA ClockSound == ClockInv => GC!TypeOK /\ GC!NeverShort /\ GC!HaltHasWakeup
  BY DEF ClockInv, ClockType, SleepRight, GC!TypeOK, GC!NeverShort, GC!HaltHasWakeup

\* Nothing the clock's invariant speaks of changed.
LEMMA ClockStands == ASSUME ClockInv, UNCHANGED clockVars PROVE ClockInv'
  <1>1. GC!PerUs' = GC!PerUs /\ (GC!HasTimer)' = GC!HasTimer /\ (GC!DeadlineMode)' = GC!DeadlineMode
    BY DEF clockVars, GC!PerUs, GC!HasTimer, GC!DeadlineMode
  <1> QED BY <1>1 DEF ClockInv, clockVars, ClockType, SleepRight
-----------------------------------------------------------------------------
(* A connection.                                                           *)

ConnHandles == [timeout : Nat, deadline : Nat, sndDeadline : BOOLEAN, dirty : BOOLEAN, nonblock : BOOLEAN,
                readShut : BOOLEAN, rdWake : {"none", "quiet", "raised"}, win : BOOLEAN]
Sockets == [nonblock : BOOLEAN, rcv : Nat, snd : Nat]
Sends == {"write", "sendfile", "ktls"}
OneShots == {"readNow", "writeNow"}
ConnOps == [kind : {"none", "read"} \cup Sends \cup OneShots, at : {"none", "prepare", "kernel"},
            n1 : Nat, n : Nat, total : Nat, since : Nat]

\* The clock, the handle, the kernel's socket and the operation in progress.
ConnType ==
    /\ now \in Nat /\ h \in ConnHandles /\ sock \in Sockets /\ op \in ConnOps /\ sent \in Seq(Nat)

\* What the kernel has of the timeouts is the idle timeout, unless it is marked stale or
\* a deadline's remainder; a remainder left over from a deadline is marked stale.
TimeoutsRight(hd, sk) ==
    /\ ~hd.dirty => sk.rcv = hd.timeout /\ (~hd.sndDeadline => sk.snd = hd.timeout)
    /\ hd.sndDeadline /\ hd.deadline = 0 => hd.dirty

\* A call in the kernel blocks for the timeout that is due; the remainder of a deadline
\* is rounded up by less than a millisecond.
CallRight(o, hd, sk, t) ==
    /\ o.kind \notin OneShots => sk.nonblock = hd.nonblock
    /\ o.kind = "none" => o.at = "none"
    /\ o.at = "prepare" => o.kind \in {"write", "sendfile"}
    /\ o.kind = "read" /\ ~hd.nonblock => ~hd.dirty
    /\ o.kind = "write" /\ o.at = "kernel" /\ ~hd.nonblock =>
         /\ hd.deadline = 0 => ~hd.dirty /\ ~hd.sndDeadline
         /\ hd.deadline > 0 => /\ sk.snd > 0 /\ t <= o.since + sk.snd * NsPerMs
                               /\ o.since + sk.snd * NsPerMs < hd.deadline + NsPerMs

\* The bytes sent so far are the first of head and body.
SentRight(o, s) ==
    /\ \A i \in 1 .. Len(s) : s[i] = i
    /\ o.kind \in Sends => Len(s) = o.total /\ o.total <= o.n /\ o.n1 <= o.n

ConnInv == ConnType /\ TimeoutsRight(h, sock) /\ CallRight(op, h, sock, now) /\ SentRight(op, sent)

\* Of the handle, what the invariant speaks of.
LimitsAre(r, timeout, deadline, sndDeadline, dirty, nonblock) ==
    /\ r \in ConnHandles /\ r.timeout = timeout /\ r.deadline = deadline
    /\ r.sndDeadline = sndDeadline /\ r.dirty = dirty /\ r.nonblock = nonblock

\* The handle after the program's settings ...
LEMMA HandleSet ==
    ASSUME NEW r \in ConnHandles, NEW n \in Nat, NEW b \in BOOLEAN
    PROVE  /\ LimitsAre([r EXCEPT !.timeout = n, !.dirty = TRUE], n, r.deadline, r.sndDeadline, TRUE, r.nonblock)
           /\ LimitsAre([r EXCEPT !.deadline = n, !.dirty = b], r.timeout, n, r.sndDeadline, b, r.nonblock)
           /\ LimitsAre([r EXCEPT !.nonblock = b], r.timeout, r.deadline, r.sndDeadline, r.dirty, b)
  BY DEF ConnHandles, LimitsAre

\* ... after its timeouts were given to the kernel ...
LEMMA HandleApplied ==
    ASSUME NEW r \in ConnHandles
    PROVE  /\ LimitsAre([r EXCEPT !.dirty = FALSE, !.sndDeadline = FALSE], r.timeout, r.deadline, FALSE, FALSE, r.nonblock)
           /\ LimitsAre([r EXCEPT !.sndDeadline = TRUE], r.timeout, r.deadline, TRUE, r.dirty, r.nonblock)
  BY DEF ConnHandles, LimitsAre

\* ... and after a shutdown or a wait.
LEMMA HandleShut ==
    ASSUME NEW r \in ConnHandles, NEW w \in {"none", "quiet", "raised"}
    PROVE  /\ LimitsAre([r EXCEPT !.rdWake = w], r.timeout, r.deadline, r.sndDeadline, r.dirty, r.nonblock)
           /\ LimitsAre([r EXCEPT !.readShut = TRUE, !.rdWake = w], r.timeout, r.deadline, r.sndDeadline, r.dirty, r.nonblock)
  BY DEF ConnHandles, LimitsAre

\* The kernel's socket.
SocketIs(s, nonblock, rcv, snd) == s \in Sockets /\ s.nonblock = nonblock /\ s.rcv = rcv /\ s.snd = snd

\* Its mode and its timeouts, set.
LEMMA SocketSet ==
    ASSUME NEW s \in Sockets, NEW n \in Nat, NEW b \in BOOLEAN
    PROVE  /\ SocketIs([s EXCEPT !.nonblock = b], b, s.rcv, s.snd)
           /\ SocketIs([s EXCEPT !.rcv = n, !.snd = n], s.nonblock, n, n)
           /\ SocketIs([s EXCEPT !.snd = n], s.nonblock, s.rcv, n)
  BY DEF Sockets, SocketIs

\* The operation in progress.
OpIs(o, kind, place, n1, n, total, since) ==
    /\ o \in ConnOps /\ o.kind = kind /\ o.at = place /\ o.n1 = n1 /\ o.n = n /\ o.total = total /\ o.since = since

\* None.
LEMMA NoOpIs == OpIs(TC!NoOp, "none", "none", 0, 0, 0, 0)
  BY DEF TC!NoOp, ConnOps, OpIs, Sends, OneShots

\* One that begins.
LEMMA OpBegins ==
    ASSUME NEW k \in {"read"} \cup Sends \cup OneShots, NEW m \in Nat, NEW n \in Nat, NEW t \in Nat
    PROVE  /\ OpIs([TC!NoOp EXCEPT !.kind = k, !.at = "kernel", !.since = t], k, "kernel", 0, 0, 0, t)
           /\ OpIs([TC!NoOp EXCEPT !.kind = k, !.at = "prepare", !.n1 = m, !.n = n], k, "prepare", m, n, 0, 0)
           /\ OpIs([TC!NoOp EXCEPT !.kind = k, !.at = "kernel", !.n1 = m, !.n = n, !.since = t], k, "kernel", m, n, 0, t)
  BY DEF TC!NoOp, ConnOps, OpIs

\* One that goes on.
LEMMA OpGoesOn ==
    ASSUME NEW o \in ConnOps, NEW t \in Nat
    PROVE  /\ OpIs([o EXCEPT !.at = "kernel", !.since = t], o.kind, "kernel", o.n1, o.n, o.total, t)
           /\ OpIs([o EXCEPT !.at = "prepare", !.total = t], o.kind, "prepare", o.n1, o.n, t, o.since)
           /\ OpIs([o EXCEPT !.at = "prepare"], o.kind, "prepare", o.n1, o.n, o.total, o.since)
           /\ OpIs([o EXCEPT !.since = t], o.kind, o.at, o.n1, o.n, o.total, t)
  BY DEF ConnOps, OpIs

\* The fields the invariant speaks of have their types.
LEMMA ConnFields ==
    ASSUME ConnInv
    PROVE  /\ now \in Nat /\ h \in ConnHandles /\ sock \in Sockets /\ op \in ConnOps /\ sent \in Seq(Nat)
           /\ h.timeout \in Nat /\ h.deadline \in Nat /\ h.sndDeadline \in BOOLEAN /\ h.dirty \in BOOLEAN
           /\ h.nonblock \in BOOLEAN /\ sock.nonblock \in BOOLEAN /\ sock.rcv \in Nat /\ sock.snd \in Nat
           /\ op.n1 \in Nat /\ op.n \in Nat /\ op.total \in Nat /\ op.since \in Nat
  BY DEF ConnInv, ConnType, ConnHandles, Sockets, ConnOps

\* A connected handle.
LEMMA ConnBegins == TC!Init => ConnInv
  <1> SUFFICES ASSUME TC!Init PROVE ConnInv
    OBVIOUS
  <1>1. PICK win \in BOOLEAN :
          h = [timeout |-> 0, deadline |-> 0, sndDeadline |-> FALSE, dirty |-> FALSE,
               nonblock |-> FALSE, readShut |-> FALSE, rdWake |-> "none", win |-> win]
    BY DEF TC!Init
  <1>2. LimitsAre(h, 0, 0, FALSE, FALSE, FALSE)
    BY <1>1 DEF LimitsAre, ConnHandles
  <1>3. SocketIs(sock, FALSE, 0, 0)
    BY DEF TC!Init, SocketIs, Sockets
  <1>4. OpIs(op, "none", "none", 0, 0, 0, 0)
    BY NoOpIs DEF TC!Init
  <1>5. now = 0 /\ sent = <<>> /\ sent \in Seq(Nat) /\ Len(sent) = 0
    BY DEF TC!Init
  <1>6. ConnType
    BY <1>2, <1>3, <1>4, <1>5 DEF ConnType, LimitsAre, SocketIs, OpIs
  <1>7. TimeoutsRight(h, sock) /\ CallRight(op, h, sock, now)
    BY <1>2, <1>3, <1>4 DEF TimeoutsRight, CallRight, LimitsAre, SocketIs, OpIs, OneShots
  <1>8. SentRight(op, sent)
    BY <1>4, <1>5 DEF SentRight, OpIs, Sends
  <1> QED BY <1>6, <1>7, <1>8 DEF ConnInv

\* The program sets a timeout, a deadline or the mode.
LEMMA SettingsKeep ==
    ASSUME ConnInv, (\E ms \in Idles : TC!SetTimeout(ms)) \/ (\E b \in Budgets : TC!SetWriteDeadline(b))
                    \/ \E on \in BOOLEAN : TC!SetNonblock(on)
    PROVE  ConnInv'
  <1>0. UNCHANGED <<now, op, sent>> /\ op.kind = "none" /\ op.at = "none"
    BY DEF TC!SetTimeout, TC!SetWriteDeadline, TC!SetNonblock, TC!Idle, ConnInv, CallRight
  <1>1. /\ now \in Nat /\ h \in ConnHandles /\ sock \in Sockets /\ h.sndDeadline \in BOOLEAN /\ h.dirty \in BOOLEAN
        /\ h.nonblock = sock.nonblock /\ TimeoutsRight(h, sock)
    BY <1>0, ConnFields DEF ConnInv, CallRight, OneShots
  <1>2. ASSUME h' \in ConnHandles, sock' \in Sockets, sock'.nonblock = h'.nonblock, TimeoutsRight(h', sock')
        PROVE  ConnInv'
    <2>1. ConnType' /\ SentRight(op', sent')
      BY <1>0, <1>2 DEF ConnInv, ConnType
    <2>2. CallRight(op', h', sock', now')
      BY <1>0, <1>2 DEF CallRight
    <2> QED BY <1>2, <2>1, <2>2 DEF ConnInv
  <1>3. ASSUME NEW ms \in Idles, TC!SetTimeout(ms) PROVE ConnInv'
    <2>1. h' = [h EXCEPT !.timeout = ms, !.dirty = TRUE] /\ sock' = sock /\ ms \in Nat
      BY <1>3, ConnAssumption DEF TC!SetTimeout
    <2>2. LimitsAre(h', ms, h.deadline, h.sndDeadline, TRUE, h.nonblock)
      BY <1>1, <2>1, HandleSet
    <2> QED BY <1>1, <1>2, <2>1, <2>2 DEF LimitsAre, TimeoutsRight
  <1>4. ASSUME NEW b \in Budgets, TC!SetWriteDeadline(b) PROVE ConnInv'
    <2>0. PICK d : d = (IF b > 0 THEN now + b ELSE 0) /\ h' = TC!Deadline(d) /\ sock' = sock
      BY <1>4, Zenon DEF TC!SetWriteDeadline
    <2>1. d \in Nat /\ h' = [h EXCEPT !.deadline = d, !.dirty = h.dirty \/ h.sndDeadline] /\ sock' = sock
      <3>1. d \in Nat
        BY <1>1, <2>0, ConnAssumption
      <3>2. TC!Deadline(d) = [h EXCEPT !.deadline = d, !.dirty = h.dirty \/ h.sndDeadline]
        BY Zenon DEF TC!Deadline
      <3> QED BY <2>0, <3>1, <3>2
    <2>2. (h.dirty \/ h.sndDeadline) \in BOOLEAN
      BY <1>1
    <2>3. LimitsAre(h', h.timeout, d, h.sndDeadline, h.dirty \/ h.sndDeadline, h.nonblock)
      BY <1>1, <2>1, <2>2, HandleSet
    <2>4. TimeoutsRight(h', sock')
      BY <1>1, <2>1, <2>3 DEF LimitsAre, TimeoutsRight
    <2> QED BY <1>1, <1>2, <2>1, <2>3, <2>4 DEF LimitsAre
  <1>5. ASSUME NEW on \in BOOLEAN, TC!SetNonblock(on) PROVE ConnInv'
    <2>1. h' = [h EXCEPT !.nonblock = on] /\ sock' = [sock EXCEPT !.nonblock = on]
      BY <1>5 DEF TC!SetNonblock
    <2>2. LimitsAre(h', h.timeout, h.deadline, h.sndDeadline, h.dirty, on) /\ SocketIs(sock', on, sock.rcv, sock.snd)
      BY <1>1, <2>1, HandleSet, SocketSet
    <2> QED BY <1>1, <1>2, <2>2 DEF LimitsAre, SocketIs, TimeoutsRight
  <1> QED BY <1>3, <1>4, <1>5

\* The timeouts given to the kernel before a call.
LEMMA FreshRight ==
    ASSUME ConnInv
    PROVE  /\ TC!Fresh.h \in ConnHandles /\ TC!Fresh.sock \in Sockets
           /\ TC!Fresh.h.timeout = h.timeout /\ TC!Fresh.h.deadline = h.deadline
           /\ TC!Fresh.h.nonblock = h.nonblock /\ TC!Fresh.sock.nonblock = sock.nonblock
           /\ TimeoutsRight(TC!Fresh.h, TC!Fresh.sock)
           /\ ~h.nonblock => ~TC!Fresh.h.dirty
  <1>0. h \in ConnHandles /\ sock \in Sockets /\ h.timeout \in Nat /\ h.nonblock \in BOOLEAN /\ h.dirty \in BOOLEAN
    BY ConnFields
  <1>1. CASE h.dirty /\ ~h.nonblock
    <2>1. /\ TC!Fresh.h = [h EXCEPT !.dirty = FALSE, !.sndDeadline = FALSE]
          /\ TC!Fresh.sock = [sock EXCEPT !.rcv = h.timeout, !.snd = h.timeout]
      BY <1>1 DEF TC!Fresh, TC!Applied
    <2>2. /\ LimitsAre(TC!Fresh.h, h.timeout, h.deadline, FALSE, FALSE, h.nonblock)
          /\ SocketIs(TC!Fresh.sock, sock.nonblock, h.timeout, h.timeout)
      BY <1>0, <2>1, HandleApplied, SocketSet
    <2> QED BY <2>2 DEF LimitsAre, SocketIs, TimeoutsRight
  <1>2. CASE ~(h.dirty /\ ~h.nonblock)
    <2>1. TC!Fresh.h = h /\ TC!Fresh.sock = sock
      BY <1>2 DEF TC!Fresh
    <2> QED BY <1>0, <1>2, <2>1 DEF ConnInv
  <1> QED BY <1>1, <1>2

\* A read enters the kernel with the idle timeout in force.
LEMMA ReadEnters == ASSUME ConnInv, TC!Read PROVE ConnInv'
  <1>1. /\ h' = TC!Fresh.h /\ sock' = TC!Fresh.sock /\ UNCHANGED <<now, sent>> /\ op.kind = "none"
        /\ op' = [TC!NoOp EXCEPT !.kind = "read", !.at = "kernel", !.since = now]
    BY DEF TC!Read, TC!Idle
  <1>2. OpIs(op', "read", "kernel", 0, 0, 0, now)
    BY <1>1, ConnFields, OpBegins
  <1>3. sock.nonblock = h.nonblock
    BY <1>1 DEF ConnInv, CallRight, OneShots
  <1>4. ConnType' /\ TimeoutsRight(h', sock')
    BY <1>1, <1>2, FreshRight, ConnFields DEF ConnType, OpIs
  <1>5. CallRight(op', h', sock', now')
    BY <1>1, <1>2, <1>3, FreshRight DEF CallRight, OpIs, OneShots
  <1>6. SentRight(op', sent')
    BY <1>1, <1>2 DEF ConnInv, SentRight, OpIs, Sends
  <1> QED BY <1>4, <1>5, <1>6 DEF ConnInv

\* A send begins with nothing sent; kTLS goes straight to the kernel.
LEMMA SendBegins ==
    ASSUME ConnInv, TC!KtlsSend \/ \E size \in Sizes : TC!Write("write", size) \/ TC!Write("sendfile", size)
    PROVE  ConnInv'
  <1>1. UNCHANGED <<now, h, sock>> /\ sent' = <<>> /\ op.kind = "none"
    BY DEF TC!KtlsSend, TC!Write, TC!Idle
  <1>2. sock.nonblock = h.nonblock
    BY <1>1 DEF ConnInv, CallRight, OneShots
  <1>3. PICK k \in Sends, place \in {"prepare", "kernel"}, m \in Nat, n \in Nat, t \in Nat :
          /\ OpIs(op', k, place, m, n, 0, t) /\ m <= n
          /\ place = "prepare" => k \in {"write", "sendfile"}
          /\ place = "kernel" => k = "ktls"
    <2>1. CASE TC!KtlsSend
      <3>1. op' = [TC!NoOp EXCEPT !.kind = "ktls", !.at = "kernel", !.n1 = 1, !.n = 1, !.since = now]
        BY <2>1 DEF TC!KtlsSend
      <3>2. OpIs(op', "ktls", "kernel", 1, 1, 0, now)
        BY <3>1, ConnFields, OpBegins DEF Sends
      <3> QED BY <3>2, ConnFields DEF Sends
    <2>2. ASSUME NEW k \in {"write", "sendfile"}, NEW size \in Sizes, TC!Write(k, size)
          PROVE  \E m \in Nat, n \in Nat : OpIs(op', k, "prepare", m, n, 0, 0) /\ m <= n
      <3>1. size[1] \in Nat /\ size[1] + size[2] \in Nat /\ size[1] <= size[1] + size[2]
        BY ConnAssumption
      <3>2. op' = [TC!NoOp EXCEPT !.kind = k, !.at = "prepare", !.n1 = size[1], !.n = size[1] + size[2]]
        BY <2>2 DEF TC!Write
      <3>3. OpIs(op', k, "prepare", size[1], size[1] + size[2], 0, 0)
        BY <3>1, <3>2, OpBegins DEF Sends
      <3> QED BY <3>1, <3>3
    <2> QED BY <2>1, <2>2 DEF Sends
  <1>4. ConnType'
    BY <1>1, <1>3, ConnFields DEF ConnType, OpIs
  <1>5. TimeoutsRight(h', sock')
    BY <1>1 DEF ConnInv
  <1>6. CallRight(op', h', sock', now')
    BY <1>1, <1>2, <1>3 DEF CallRight, OpIs, OneShots, Sends
  <1>7. SentRight(op', sent')
    BY <1>1, <1>3 DEF SentRight, OpIs
  <1> QED BY <1>4, <1>5, <1>6, <1>7 DEF ConnInv

\* The remainder of the deadline, rounded up by less than a millisecond.
LEMMA LeftRounds ==
    ASSUME ConnInv, now < h.deadline
    PROVE  TC!Left \in Nat \ {0} /\ now + TC!Left * NsPerMs < h.deadline + NsPerMs
  <1>1. now \in Nat /\ h.deadline \in Nat /\ NsPerMs \in Nat \ {0} /\ h.deadline - now - 1 \in Nat
    BY ConnFields, ConnAssumption
  <1> DEFINE q == (h.deadline - now - 1) \div NsPerMs
  <1>2. q \in Nat /\ q * NsPerMs <= h.deadline - now - 1
    BY <1>1, DivRounds
  <1> HIDE DEF q
  <1>3. (q + 1) * NsPerMs = q * NsPerMs + NsPerMs /\ q * NsPerMs \in Nat
    BY <1>1, <1>2
  <1>4. TC!Left = q + 1
    BY DEF TC!Left, q
  <1> QED BY <1>1, <1>2, <1>3, <1>4

\* What nurl_tcp_write_wait_ms answers.
LEMMA WriteWaits ==
    ASSUME ConnInv, TC!WriteWaitMs # 0, h.deadline > 0
    PROVE  /\ TC!WriteWaitMs \in Nat \ {0}
           /\ now + TC!WriteWaitMs * NsPerMs < h.deadline + NsPerMs
  <1>1. now \in Nat /\ h.deadline \in Nat /\ h.timeout \in Nat /\ NsPerMs \in Nat \ {0}
    BY ConnFields, ConnAssumption
  <1>2. now < h.deadline
    BY <1>1 DEF TC!WriteWaitMs
  <1>3. TC!Left \in Nat \ {0} /\ now + TC!Left * NsPerMs < h.deadline + NsPerMs
    BY <1>2, LeftRounds
  <1>4. TC!WriteWaitMs = TC!Left \/ (TC!WriteWaitMs = h.timeout /\ h.timeout > 0 /\ h.timeout <= TC!Left)
    BY <1>1, <1>2, <1>3 DEF TC!WriteWaitMs
  <1>5. ASSUME h.timeout <= TC!Left PROVE now + h.timeout * NsPerMs < h.deadline + NsPerMs
    <2>1. h.timeout * NsPerMs <= TC!Left * NsPerMs
      BY <1>1, <1>3, <1>5, ProductGrows
    <2>2. h.timeout * NsPerMs \in Nat /\ TC!Left * NsPerMs \in Nat
      BY <1>1, <1>3
    <2> QED BY <1>1, <1>3, <2>1, <2>2
  <1> QED BY <1>1, <1>3, <1>4, <1>5

\* Before every send: the stored timeout, then what the deadline leaves.
LEMMA PrepareKeeps == ASSUME ConnInv, TC!Prepare PROVE ConnInv'
  <1>0. /\ now \in Nat /\ op \in ConnOps /\ op.at = "prepare" /\ op.kind \in {"write", "sendfile"}
        /\ h.deadline \in Nat /\ h.nonblock \in BOOLEAN /\ h.nonblock = sock.nonblock
    BY ConnFields DEF ConnInv, CallRight, TC!Prepare, OneShots
  <1>1. UNCHANGED <<now, sent>>
    BY DEF TC!Prepare
  <1> DEFINE timed0 == TC!WriteWaitMs # 0 /\ h.deadline > 0 /\ ~h.nonblock
  <1>2. CASE timed0
    <2>1. h' = [TC!Fresh.h EXCEPT !.sndDeadline = TRUE] /\ sock' = [TC!Fresh.sock EXCEPT !.snd = TC!WriteWaitMs]
          /\ op' = [op EXCEPT !.at = "kernel", !.since = now]
      BY <1>2, Zenon DEF TC!Prepare
    <2>2. TC!WriteWaitMs \in Nat \ {0} /\ now + TC!WriteWaitMs * NsPerMs < h.deadline + NsPerMs
      BY <1>2, WriteWaits
    <2>3. LimitsAre(h', h.timeout, h.deadline, TRUE, TC!Fresh.h.dirty, h.nonblock)
      BY <2>1, FreshRight, HandleApplied DEF LimitsAre
    <2>4. SocketIs(sock', sock.nonblock, TC!Fresh.sock.rcv, TC!WriteWaitMs)
      <3>1. \A s \in Sockets, n \in Nat : SocketIs([s EXCEPT !.snd = n], s.nonblock, s.rcv, n)
        BY SocketSet
      <3>2. TC!Fresh.sock \in Sockets /\ TC!Fresh.sock.nonblock = sock.nonblock /\ TC!WriteWaitMs \in Nat
        BY <2>2, FreshRight
      <3>3. SocketIs(sock', TC!Fresh.sock.nonblock, TC!Fresh.sock.rcv, TC!WriteWaitMs)
        BY <2>1, <3>1, <3>2, Zenon
      <3> QED BY <3>2, <3>3
    <2>5. OpIs(op', op.kind, "kernel", op.n1, op.n, op.total, now)
      BY <1>0, <2>1, OpGoesOn
    <2>6. ConnType'
      BY <1>0, <1>1, <2>3, <2>4, <2>5, ConnFields DEF ConnType, LimitsAre, SocketIs, OpIs
    <2>7. TimeoutsRight(h', sock')
      <3>1. TimeoutsRight(TC!Fresh.h, TC!Fresh.sock) /\ TC!Fresh.h.timeout = h.timeout
        BY FreshRight
      <3>2. ~TC!Fresh.h.dirty => TC!Fresh.sock.rcv = h.timeout
        BY <3>1 DEF TimeoutsRight
      <3>3. h'.dirty = TC!Fresh.h.dirty /\ h'.sndDeadline /\ h'.timeout = h.timeout /\ sock'.rcv = TC!Fresh.sock.rcv
        BY <2>3, <2>4 DEF LimitsAre, SocketIs
      <3>4. h'.deadline # 0
        BY <1>0, <1>2, <2>3 DEF LimitsAre
      <3> QED BY <3>2, <3>3, <3>4 DEF TimeoutsRight
    <2>8. now <= now + TC!WriteWaitMs * NsPerMs
      <3>1. TC!WriteWaitMs * NsPerMs \in Nat
        BY <2>2, ConnAssumption
      <3> QED BY <1>0, <3>1
    <2>9. CallRight(op', h', sock', now')
      BY <1>0, <1>1, <1>2, <2>2, <2>3, <2>4, <2>5, <2>8 DEF CallRight, LimitsAre, SocketIs, OpIs, OneShots
    <2>10. SentRight(op', sent')
      BY <1>1, <2>5 DEF ConnInv, SentRight, OpIs
    <2> QED BY <2>6, <2>7, <2>9, <2>10 DEF ConnInv
  <1>3. CASE ~timed0
    <2>1. h' = TC!Fresh.h /\ sock' = TC!Fresh.sock
          /\ op' = IF TC!WriteWaitMs = 0 THEN TC!NoOp ELSE [op EXCEPT !.at = "kernel", !.since = now]
      BY <1>3, Zenon DEF TC!Prepare
    <2>2. /\ h' \in ConnHandles /\ sock' \in Sockets /\ h'.nonblock = sock'.nonblock /\ TimeoutsRight(h', sock')
          /\ h'.nonblock = h.nonblock /\ h'.deadline = h.deadline /\ (~h.nonblock => ~h'.dirty)
      BY <1>0, <2>1, FreshRight
    <2>3. CASE TC!WriteWaitMs = 0
      <3>1. OpIs(op', "none", "none", 0, 0, 0, 0)
        BY <2>1, <2>3, NoOpIs
      <3>2. ConnType'
        BY <1>1, <2>2, <3>1, ConnFields DEF ConnType, OpIs
      <3>3. CallRight(op', h', sock', now') /\ SentRight(op', sent')
        BY <1>1, <2>2, <3>1 DEF ConnInv, CallRight, SentRight, OpIs, Sends
      <3> QED BY <2>2, <3>2, <3>3 DEF ConnInv
    <2>4. CASE TC!WriteWaitMs # 0
      <3>1. OpIs(op', op.kind, "kernel", op.n1, op.n, op.total, now)
        BY <1>0, <2>1, <2>4, OpGoesOn
      <3>2. ConnType'
        BY <1>1, <2>2, <3>1, ConnFields DEF ConnType, OpIs
      <3>3. ~h.nonblock => h'.deadline = 0
        BY <1>0, <1>3, <2>2, <2>4
      <3>4. CallRight(op', h', sock', now')
        BY <1>0, <2>2, <3>1, <3>3 DEF CallRight, OpIs, TimeoutsRight
      <3>5. SentRight(op', sent')
        BY <1>1, <3>1 DEF ConnInv, SentRight, OpIs
      <3> QED BY <2>2, <3>2, <3>4, <3>5 DEF ConnInv
    <2> QED BY <2>3, <2>4
  <1> QED BY <1>2, <1>3

\* The bytes of one segment.
LEMMA BytesOfOne ==
    ASSUME NEW from, NEW to
    PROVE  TC!BytesOf(<<[from |-> from, to |-> to]>>) = [i \in 1 .. to - from |-> from + i]
  <1> DEFINE r == [from |-> from, to |-> to]
             v == <<r>>
  <1>1. r.from = from /\ r.to = to
    OBVIOUS
  <1> HIDE DEF r
  <1>2. Len(v) = 1 /\ v[1] = r
    OBVIOUS
  <1> HIDE DEF v
  <1>3. TC!BytesOf(v) = [i \in 1 .. v[1].to - v[1].from |-> v[1].from + i]
    BY <1>2, Zenon DEF TC!BytesOf
  <1>4. TC!BytesOf(v) = [i \in 1 .. to - from |-> from + i]
    BY <1>1, <1>2, <1>3, Zenon
  <1> QED BY <1>4 DEF v, r

\* The bytes of two segments.
LEMMA BytesOfTwo ==
    ASSUME NEW from, NEW to, NEW end
    PROVE  TC!BytesOf(<<[from |-> from, to |-> to], [from |-> to, to |-> end]>>)
             = [i \in 1 .. to - from |-> from + i] \o [i \in 1 .. end - to |-> to + i]
  <1> DEFINE r == [from |-> from, to |-> to]
             s == [from |-> to, to |-> end]
             v == <<r, s>>
  <1>1. r.from = from /\ r.to = to /\ s.from = to /\ s.to = end
    OBVIOUS
  <1> HIDE DEF r, s
  <1>2. Len(v) # 1 /\ v[1] = r /\ v[2] = s
    OBVIOUS
  <1> HIDE DEF v
  <1>3. TC!BytesOf(v) = [i \in 1 .. v[1].to - v[1].from |-> v[1].from + i] \o [i \in 1 .. v[2].to - v[2].from |-> v[2].from + i]
    BY <1>2, Zenon DEF TC!BytesOf
  <1>4. TC!BytesOf(v) = [i \in 1 .. to - from |-> from + i] \o [i \in 1 .. end - to |-> to + i]
    BY <1>1, <1>2, <1>3, Zenon
  <1> QED BY <1>4 DEF v, r, s

\* Two sequences joined, place by place.
LEMMA JoinAt ==
    ASSUME NEW u \in Seq(Nat), NEW v \in Seq(Nat)
    PROVE  /\ u \o v \in Seq(Nat) /\ Len(u \o v) = Len(u) + Len(v)
           /\ \A i \in 1 .. Len(u) + Len(v) : (u \o v)[i] = IF i <= Len(u) THEN u[i] ELSE v[i - Len(u)]
  OBVIOUS

\* The vector holds what of head and body is still unsent.
LEMMA VectorBytes ==
    ASSUME NEW n1 \in Nat, NEW n \in Nat, NEW total \in Nat, total <= n, n1 <= n, op.n1 = n1, op.n = n
    PROVE  \E b \in Seq(Nat) : /\ TC!BytesOf(TC!Vector(total)) = b
                               /\ Len(b) = n - total /\ \A i \in 1 .. Len(b) : b[i] = total + i
  <1>1. ASSUME NEW from \in Nat, NEW to \in Nat, from <= to
        PROVE  LET s == [i \in 1 .. to - from |-> from + i]
               IN  s \in Seq(Nat) /\ Len(s) = to - from /\ \A i \in 1 .. to - from : s[i] = from + i
    BY <1>1
  <1>2. CASE total < n1
    <2> DEFINE u == [i \in 1 .. n1 - total |-> total + i]
               v == [i \in 1 .. n - n1 |-> n1 + i]
    <2>1. u \in Seq(Nat) /\ Len(u) = n1 - total /\ \A i \in 1 .. n1 - total : u[i] = total + i
      BY <1>1, <1>2
    <2>2. v \in Seq(Nat) /\ Len(v) = n - n1 /\ \A i \in 1 .. n - n1 : v[i] = n1 + i
      BY <1>1
    <2>3. TC!BytesOf(TC!Vector(total)) = u \o v
      <3>1. TC!Vector(total) = <<[from |-> total, to |-> n1], [from |-> n1, to |-> n]>>
        BY <1>2 DEF TC!Vector
      <3>2. TC!BytesOf(<<[from |-> total, to |-> n1], [from |-> n1, to |-> n]>>) = u \o v
        BY BytesOfTwo
      <3> QED BY <3>1, <3>2
    <2> HIDE DEF u, v
    <2>e. (n1 - total) + (n - n1) = n - total /\ n1 - total \in Nat /\ n - n1 \in Nat
      BY <1>2
    <2>4. u \o v \in Seq(Nat) /\ Len(u \o v) = n - total
      BY <2>1, <2>2, <2>e, JoinAt
    <2>5. ASSUME NEW i \in 1 .. n - total PROVE (u \o v)[i] = total + i
      <3>0. Len(u) + Len(v) = n - total /\ n1 - total \in Nat /\ n - n1 \in Nat
        BY <2>1, <2>2, <2>e
      <3>1. (u \o v)[i] = IF i <= Len(u) THEN u[i] ELSE v[i - Len(u)]
        <4>1. \A k \in 1 .. Len(u) + Len(v) : (u \o v)[k] = IF k <= Len(u) THEN u[k] ELSE v[k - Len(u)]
          BY <2>1, <2>2, JoinAt
        <4>2. i \in 1 .. Len(u) + Len(v)
          BY <3>0
        <4> QED BY <4>1, <4>2, Zenon
      <3>2. CASE i <= Len(u)
        BY <1>2, <2>1, <3>0, <3>1, <3>2
      <3>3. CASE ~(i <= Len(u))
        <4>1. i - Len(u) \in 1 .. n - n1 /\ n1 + (i - Len(u)) = total + i
          BY <2>1, <3>0, <3>3
        <4>2. v[i - Len(u)] = n1 + (i - Len(u))
          BY <2>2, <4>1
        <4> QED BY <3>1, <3>3, <4>1, <4>2
      <3> QED BY <3>2, <3>3
    <2> QED BY <2>3, <2>4, <2>5
  <1>3. CASE ~(total < n1)
    <2> DEFINE u == [i \in 1 .. n - total |-> total + i]
    <2>1. u \in Seq(Nat) /\ Len(u) = n - total /\ \A i \in 1 .. n - total : u[i] = total + i
      BY <1>1, <1>3
    <2>2. TC!BytesOf(TC!Vector(total)) = u
      <3>1. TC!Vector(total) = <<[from |-> total, to |-> n]>>
        BY <1>3 DEF TC!Vector
      <3>2. TC!BytesOf(<<[from |-> total, to |-> n]>>) = u
        BY BytesOfOne
      <3> QED BY <3>1, <3>2
    <2> QED BY <2>1, <2>2
  <1> QED BY <1>2, <1>3

\* Bytes sent are appended: the next of head and body, in order.
LEMMA SentGrows ==
    ASSUME NEW s \in Seq(Nat), NEW b \in Seq(Nat), NEW k \in 1 .. Len(b),
           \A i \in 1 .. Len(s) : s[i] = i, \A i \in 1 .. Len(b) : b[i] = Len(s) + i
    PROVE  /\ s \o SubSeq(b, 1, k) \in Seq(Nat) /\ Len(s \o SubSeq(b, 1, k)) = Len(s) + k
           /\ \A i \in 1 .. Len(s) + k : (s \o SubSeq(b, 1, k))[i] = i
  <1> DEFINE c == SubSeq(b, 1, k)
  <1>0. Len(s) \in Nat /\ k \in Nat
    OBVIOUS
  <1>1. c \in Seq(Nat) /\ Len(c) = k /\ \A i \in 1 .. k : c[i] = b[i]
    OBVIOUS
  <1> HIDE DEF c
  <1>2. s \o c \in Seq(Nat) /\ Len(s \o c) = Len(s) + k
    BY <1>1, JoinAt
  <1>3. ASSUME NEW i \in 1 .. Len(s) + k PROVE (s \o c)[i] = i
    <2>1. (s \o c)[i] = IF i <= Len(s) THEN s[i] ELSE c[i - Len(s)]
      BY <1>1, JoinAt
    <2>2. CASE i <= Len(s)
      BY <1>0, <2>1, <2>2
    <2>3. CASE ~(i <= Len(s))
      <3>1. i - Len(s) \in 1 .. k /\ i - Len(s) \in 1 .. Len(b) /\ Len(s) + (i - Len(s)) = i
        BY <1>0, <2>3
      <3>2. c[i - Len(s)] = Len(s) + (i - Len(s))
        BY <1>1, <3>1
      <3> QED BY <2>1, <2>3, <3>1, <3>2
    <2> QED BY <2>2, <2>3
  <1> QED BY <1>2, <1>3 DEF c

\* The kernel takes some of the bytes.
LEMMA TookKeeps == ASSUME ConnInv, TC!Took PROVE ConnInv'
  <1>0. /\ op \in ConnOps /\ op.n1 \in Nat /\ op.n \in Nat /\ op.total \in Nat /\ op.total <= op.n /\ op.n1 <= op.n
        /\ sent \in Seq(Nat) /\ Len(sent) = op.total /\ (\A i \in 1 .. Len(sent) : sent[i] = i)
        /\ op.kind \in Sends
    BY ConnFields DEF ConnInv, SentRight, TC!Took, TC!Writing, Sends
  <1>1. UNCHANGED <<now, h, sock>> /\ op.at = "kernel" /\ sock.nonblock = h.nonblock
    BY <1>0 DEF ConnInv, CallRight, TC!Took, TC!Writing, Sends, OneShots
  <1>2. PICK b \in Seq(Nat) : /\ TC!BytesOf(TC!Vector(op.total)) = b
                              /\ Len(b) = op.n - op.total /\ \A i \in 1 .. Len(b) : b[i] = op.total + i
    BY <1>0, VectorBytes
  <1>3. PICK k \in 1 .. Len(b) :
          /\ sent' = sent \o SubSeq(b, 1, k)
          /\ op' = IF op.total + k >= op.n \/ op.kind # "write" THEN TC!NoOp
                   ELSE [op EXCEPT !.at = "prepare", !.total = @ + k]
    BY <1>2, Zenon DEF TC!Took
  <1>4. sent' \in Seq(Nat) /\ Len(sent') = op.total + k /\ \A i \in 1 .. Len(sent') : sent'[i] = i
    <2>1. \A i \in 1 .. Len(b) : b[i] = Len(sent) + i
      BY <1>0, <1>2
    <2>2. /\ sent \o SubSeq(b, 1, k) \in Seq(Nat) /\ Len(sent \o SubSeq(b, 1, k)) = Len(sent) + k
          /\ \A i \in 1 .. Len(sent) + k : (sent \o SubSeq(b, 1, k))[i] = i
      BY <1>0, <1>2, <1>3, <2>1, SentGrows
    <2>3. sent' = sent \o SubSeq(b, 1, k)
      BY <1>3
    <2> QED BY <1>0, <2>2, <2>3, Zenon
  <1>5. \/ OpIs(op', "none", "none", 0, 0, 0, 0)
        \/ OpIs(op', "write", "prepare", op.n1, op.n, op.total + k, op.since) /\ op.total + k <= op.n
    <2>1. CASE op.total + k >= op.n \/ op.kind # "write"
      BY <1>3, <2>1, NoOpIs
    <2>2. CASE ~(op.total + k >= op.n) /\ op.kind = "write"
      <3>1. op' = [op EXCEPT !.at = "prepare", !.total = op.total + k]
        BY <1>3, <2>2, Zenon
      <3>2. op.total + k \in Nat /\ op.total + k <= op.n
        BY <1>0, <2>2
      <3> QED BY <1>0, <2>2, <3>1, <3>2, OpGoesOn
    <2> QED BY <2>1, <2>2
  <1>6. ConnType'
    BY <1>1, <1>4, <1>5, ConnFields DEF ConnType, OpIs
  <1>7. TimeoutsRight(h', sock')
    BY <1>1 DEF ConnInv
  <1>8. CallRight(op', h', sock', now')
    BY <1>1, <1>5 DEF CallRight, OpIs
  <1>9. SentRight(op', sent')
    BY <1>0, <1>4, <1>5 DEF SentRight, OpIs, Sends
  <1> QED BY <1>6, <1>7, <1>8, <1>9 DEF ConnInv

\* A call that was interrupted is prepared again or made again; one that is made again
\* is no plain write.
LEMMA InterruptKeeps == ASSUME ConnInv, TC!Interrupted PROVE ConnInv'
  <1>0. UNCHANGED <<now, h, sock, sent>> /\ op \in ConnOps /\ op.kind \in Sends /\ op.at = "kernel" /\ now \in Nat
    BY ConnFields DEF TC!Interrupted, TC!Writing, Sends
  <1>1. \/ op.kind = "write" /\ OpIs(op', op.kind, "prepare", op.n1, op.n, op.total, op.since)
        \/ op.kind # "write" /\ OpIs(op', op.kind, "kernel", op.n1, op.n, op.total, now)
    <2>1. CASE op.kind = "write"
      <3>1. op' = [op EXCEPT !.at = "prepare"]
        BY <2>1 DEF TC!Interrupted
      <3> QED BY <1>0, <2>1, <3>1, OpGoesOn
    <2>2. CASE op.kind # "write"
      <3>1. op' = [op EXCEPT !.since = now]
        BY <2>2 DEF TC!Interrupted
      <3>2. OpIs(op', op.kind, op.at, op.n1, op.n, op.total, now)
        BY <1>0, <3>1, OpGoesOn
      <3> QED BY <1>0, <2>2, <3>2
    <2> QED BY <2>1, <2>2
  <1>2. ConnType'
    BY <1>0, <1>1, ConnFields DEF ConnType, OpIs
  <1>3. TimeoutsRight(h', sock') /\ SentRight(op', sent')
    BY <1>0, <1>1 DEF ConnInv, SentRight, OpIs
  <1>4. CallRight(op', h', sock', now')
    BY <1>0, <1>1 DEF ConnInv, CallRight, OpIs, Sends, OneShots
  <1> QED BY <1>2, <1>3, <1>4 DEF ConnInv

\* A read or a send that ends.
LEMMA EndKeeps == ASSUME ConnInv, TC!Short \/ TC!ReadEnds PROVE ConnInv'
  <1>0. UNCHANGED <<now, h, sock, sent>> /\ op.kind \notin OneShots /\ op' = TC!NoOp
    BY DEF TC!Short, TC!ReadEnds, TC!Ended, TC!Writing, OneShots
  <1>1. OpIs(op', "none", "none", 0, 0, 0, 0)
    BY <1>0, NoOpIs
  <1>2. ConnType'
    BY <1>0, <1>1, ConnFields DEF ConnType, OpIs
  <1>3. TimeoutsRight(h', sock') /\ SentRight(op', sent')
    BY <1>0, <1>1 DEF ConnInv, SentRight, OpIs, Sends
  <1>4. CallRight(op', h', sock', now')
    BY <1>0, <1>1 DEF ConnInv, CallRight, OpIs
  <1> QED BY <1>2, <1>3, <1>4 DEF ConnInv

\* A single attempt turns the socket non-blocking, and back to what the handle remembers.
LEMMA OneShotKeeps == ASSUME ConnInv, TC!NowaitBegin \/ TC!NowaitEnd PROVE ConnInv'
  <1>0. /\ UNCHANGED <<now, h, sent>> /\ sock \in Sockets /\ h.nonblock \in BOOLEAN /\ now \in Nat
        /\ TimeoutsRight(h, sock) /\ \A i \in 1 .. Len(sent) : sent[i] = i
    BY ConnFields DEF ConnInv, SentRight, TC!NowaitBegin, TC!NowaitEnd, TC!Ended
  <1>s. \A s \in Sockets, b \in BOOLEAN : SocketIs([s EXCEPT !.nonblock = b], b, s.rcv, s.snd)
    BY SocketSet
  <1>1. CASE TC!NowaitBegin
    <2>1. PICK k \in OneShots : op' = [TC!NoOp EXCEPT !.kind = k, !.at = "kernel", !.since = now]
      BY <1>1 DEF TC!NowaitBegin, OneShots
    <2>2. sock' = [sock EXCEPT !.nonblock = TRUE]
      BY <1>1 DEF TC!NowaitBegin
    <2>3. SocketIs(sock', TRUE, sock.rcv, sock.snd)
      BY <1>0, <1>s, <2>2
    <2>4. OpIs(op', k, "kernel", 0, 0, 0, now)
      BY <1>0, <2>1, OpBegins
    <2>5. ConnType'
      BY <1>0, <2>3, <2>4, ConnFields DEF ConnType, SocketIs, OpIs
    <2>6. TimeoutsRight(h', sock')
      BY <1>0, <2>3 DEF TimeoutsRight, SocketIs
    <2>7. CallRight(op', h', sock', now') /\ SentRight(op', sent')
      BY <1>0, <2>4 DEF CallRight, SentRight, OpIs, OneShots, Sends
    <2> QED BY <2>5, <2>6, <2>7 DEF ConnInv
  <1>2. CASE TC!NowaitEnd
    <2>1. sock' = [sock EXCEPT !.nonblock = h.nonblock] /\ op' = TC!NoOp
      BY <1>2 DEF TC!NowaitEnd, TC!RestoredMode, TC!Ended
    <2>3. SocketIs(sock', h.nonblock, sock.rcv, sock.snd)
      BY <1>0, <1>s, <2>1
    <2>4. OpIs(op', "none", "none", 0, 0, 0, 0)
      BY <2>1, NoOpIs
    <2>5. ConnType'
      BY <1>0, <2>3, <2>4, ConnFields DEF ConnType, SocketIs, OpIs
    <2>6. TimeoutsRight(h', sock')
      BY <1>0, <2>3 DEF TimeoutsRight, SocketIs
    <2>7. CallRight(op', h', sock', now') /\ SentRight(op', sent')
      BY <1>0, <2>3, <2>4 DEF CallRight, SentRight, SocketIs, OpIs, OneShots, Sends
    <2> QED BY <2>5, <2>6, <2>7 DEF ConnInv
  <1> QED BY <1>1, <1>2

\* Time passes only while the call in the kernel is not overdue.
LEMMA ConnTicks == ASSUME ConnInv, TC!Tick PROVE ConnInv'
  <1>0. UNCHANGED <<h, sock, op, sent>> /\ now' = now + 1 /\ now \in Nat /\ ~TC!Overdue
    BY ConnFields DEF TC!Tick
  <1>1. ConnType' /\ TimeoutsRight(h', sock') /\ SentRight(op', sent')
    BY <1>0 DEF ConnInv, ConnType
  <1>2. ASSUME op.kind = "write", op.at = "kernel", ~h.nonblock, h.deadline > 0
        PROVE  now + 1 <= op.since + sock.snd * NsPerMs
    <2>1. sock.snd > 0 /\ ~sock.nonblock
      BY <1>2 DEF ConnInv, CallRight, OneShots
    <2>2. ~(now >= op.since + sock.snd * NsPerMs)
      BY <1>0, <1>2, <2>1 DEF TC!Overdue, TC!Blocked, TC!Limit
    <2>3. sock.snd * NsPerMs \in Nat /\ op.since \in Nat
      BY ConnFields, ConnAssumption
    <2> QED BY <1>0, <2>2, <2>3
  <1>3. CallRight(op', h', sock', now')
    BY <1>0, <1>2 DEF ConnInv, CallRight
  <1> QED BY <1>1, <1>3 DEF ConnInv

\* A wait for reading and the shutdown that ends it leave the limits alone.
LEMMA WaitKeeps ==
    ASSUME ConnInv, TC!WaitBegin \/ TC!WaitEnds \/ TC!WaitReady \/ TC!ConnShutdown
    PROVE  ConnInv'
  <1>0. UNCHANGED <<now, sock, op, sent>> /\ h \in ConnHandles /\ h.rdWake \in {"none", "quiet", "raised"}
    BY ConnFields DEF TC!WaitBegin, TC!WaitEnds, TC!WaitReady, TC!ConnShutdown, ConnHandles
  <1>1. LimitsAre(h', h.timeout, h.deadline, h.sndDeadline, h.dirty, h.nonblock)
    <2>0. LimitsAre(h, h.timeout, h.deadline, h.sndDeadline, h.dirty, h.nonblock)
      BY <1>0 DEF LimitsAre
    <2>1. CASE TC!WaitBegin
      <3>1. h' = h \/ h' = [h EXCEPT !.rdWake = "quiet"]
        BY <2>1 DEF TC!WaitBegin
      <3> QED BY <1>0, <2>0, <3>1, HandleShut
    <2>2. CASE TC!WaitEnds \/ TC!WaitReady
      <3>1. h' = h
        BY <2>2 DEF TC!WaitEnds, TC!WaitReady
      <3> QED BY <2>0, <3>1
    <2>3. CASE TC!ConnShutdown
      <3> DEFINE w == IF h.rdWake = "quiet" THEN "raised" ELSE h.rdWake
      <3>1. h' = [h EXCEPT !.readShut = TRUE, !.rdWake = w]
        BY <2>3, Zenon DEF TC!ConnShutdown
      <3>2. w \in {"none", "quiet", "raised"}
        BY <1>0
      <3> HIDE DEF w
      <3> QED BY <1>0, <3>1, <3>2, HandleShut
    <2> QED BY <2>1, <2>2, <2>3
  <1>2. ConnType'
    BY <1>0, <1>1 DEF ConnInv, ConnType, LimitsAre
  <1>3. TimeoutsRight(h', sock') /\ CallRight(op', h', sock', now') /\ SentRight(op', sent')
    BY <1>0, <1>1 DEF ConnInv, TimeoutsRight, CallRight, LimitsAre
  <1> QED BY <1>2, <1>3 DEF ConnInv

\* Every step of a connection keeps the invariant.
LEMMA ConnStep == ASSUME ConnInv, TC!Next PROVE ConnInv'
  BY SettingsKeep, ReadEnters, SendBegins, PrepareKeeps, TookKeeps, InterruptKeeps, EndKeeps, OneShotKeeps,
     ConnTicks, WaitKeeps
  DEF TC!Next

\* What the run checks of a connection follows.
LEMMA ConnSound ==
    ASSUME ConnInv
    PROVE  TC!WriteWithinDeadline /\ TC!IdleTimeoutInForce /\ TC!PrefixSent /\ TC!ModeRemembered
  <1>1. TC!ModeRemembered
    BY DEF ConnInv, CallRight, TC!ModeRemembered, OneShots
  <1>2. TC!IdleTimeoutInForce
    BY DEF ConnInv, CallRight, TimeoutsRight, TC!IdleTimeoutInForce, TC!Blocked, OneShots
  <1>3. TC!WriteWithinDeadline
    <2> SUFFICES ASSUME op.kind = "write", TC!Blocked, h.deadline > 0 PROVE now < h.deadline + NsPerMs
      BY DEF TC!WriteWithinDeadline
    <2>1. now <= op.since + sock.snd * NsPerMs /\ op.since + sock.snd * NsPerMs < h.deadline + NsPerMs
      BY DEF ConnInv, CallRight, TC!Blocked, OneShots
    <2>2. sock.snd * NsPerMs \in Nat /\ op.since \in Nat /\ now \in Nat /\ h.deadline \in Nat /\ NsPerMs \in Nat
      BY ConnFields, ConnAssumption
    <2> QED BY <2>1, <2>2
  <1>4. TC!PrefixSent
    <2>1. sent \in Seq(Nat) /\ \A i \in 1 .. Len(sent) : sent[i] = i
      BY DEF ConnInv, ConnType, SentRight
    <2> QED BY <2>1 DEF TC!PrefixSent
  <1> QED BY <1>1, <1>2, <1>3, <1>4

\* Nothing the invariant of a connection speaks of changed.
LEMMA ConnStands == ASSUME ConnInv, UNCHANGED tcpVars PROVE ConnInv'
  BY DEF ConnInv, tcpVars, ConnType
-----------------------------------------------------------------------------
(* The poll(2) reactor.                                                    *)

Parkers == [pc : {"run", "reg", "parked", "runnable"}, e : Entries \cup {None},
            kind : {"fd", "sleep", "mutex", None}, fd : PollFds \cup {None}, due : Nat \cup {-1}, seen : BOOLEAN,
            result : {-1, 0, 1}]
WaitEntries == [fd : PollFds \cup {None}, due : Nat \cup {-1}, fiber : Fibers \cup {None}, active : BOOLEAN,
                mutex : BOOLEAN, ps : {0, 1, 2}, pidx : Nat]

\* The entries in the reactor's list, and those it has taken off to unpark.
Listed == ToSet(waits)
TakenOff == {todo[i][1] : i \in DOMAIN todo}

\* The clock, the fibers, the entries and the lists.
ReactorType ==
    /\ clock \in 0 .. PollClock /\ ready \subseteq PollFds /\ parks \in 0 .. MaxParks /\ pokes \in Nat
    /\ fib \in [Fibers -> Parkers] /\ armed \in [Fibers -> Entries \cup {None}]
    /\ ent \in [Entries -> WaitEntries] /\ waker \in Fibers \cup {None}
    /\ rpc \in {"build", "poll", "drain", "walk", "unpark", "ended"} /\ batch \in Seq(Entries)
    /\ waits \in Seq(Entries) /\ freelist \in Seq(Entries) /\ recycle \in Seq(Entries)
    /\ todo \in Seq(Entries \X {0, 1}) /\ till \in Int /\ ~misfired

\* An entry is in one list and once in it; the reactor has entries in its hands only
\* while it unparks.
ListsRight ==
    /\ IsInjective(waits) /\ IsInjective(freelist) /\ IsInjective(recycle)
    /\ \A i, j \in DOMAIN todo : todo[i][1] = todo[j][1] => i = j
    /\ Listed \cap (ToSet(freelist) \cup ToSet(recycle) \cup TakenOff) = {}
    /\ TakenOff \cap (ToSet(freelist) \cup ToSet(recycle)) = {} /\ ToSet(freelist) \cap ToSet(recycle) = {}
    /\ rpc # "unpark" => todo = <<>> /\ recycle = <<>>

\* Entry e is the wait of its fiber, which no nurl_fiber_wake has claimed.
OfFiber(e) ==
    /\ ent[e].fiber \in Fibers /\ fib[ent[e].fiber].e = e /\ fib[ent[e].fiber].fd = ent[e].fd
    /\ fib[ent[e].fiber].due = ent[e].due /\ waker # ent[e].fiber
    /\ fib[ent[e].fiber].pc = IF ent[e].active THEN "parked" ELSE "reg"

\* A listed entry; a timed mutex park woken before the switch away (ps 2) is not armed.
ListedRight ==
    \A e \in Listed :
        /\ OfFiber(e) /\ (ent[e].active <=> ent[e].ps = 1)
        /\ ent[e].mutex <=> fib[ent[e].fiber].kind = "mutex"
        /\ ent[e].mutex => ent[e].fd = None
        /\ ent[e].ps = 2 => armed[ent[e].fiber] = None

\* The deadline or the descriptor has ended the wait of an entry taken off.
TakenRight ==
    \A i \in DOMAIN todo :
        LET e == todo[i][1]
            f == ent[e].fiber IN
        /\ OfFiber(e) /\ ent[e].active /\ armed[f] = None
        /\ todo[i][2] = 1 /\ fib[f].kind = "fd" => fib[f].seen
        /\ todo[i][2] = 0 => fib[f].due >= 0 /\ clock >= fib[f].due

\* A fiber's side: whoever waits has its entry, unless nurl_fiber_wake has claimed it.
FiberRight ==
    \A f \in Fibers :
        /\ fib[f].pc \in {"reg", "parked"} /\ waker # f =>
             fib[f].e \in Listed \cup TakenOff /\ ent[fib[f].e].fiber = f
        /\ armed[f] # None => armed[f] \in Listed /\ ent[armed[f]].fiber = f /\ ent[armed[f]].mutex
        /\ waker = f => fib[f].pc = "parked" /\ fib[f].kind = "mutex"
        /\ fib[f].fd \in ready => fib[f].seen
        /\ fib[f].pc = "runnable" =>
             /\ fib[f].result = 1 /\ fib[f].kind = "fd" => fib[f].seen
             /\ fib[f].result = 0 => fib[f].due >= 0 /\ clock >= fib[f].due

\* The entries of the poll set stay listed until the walk, and a place that had an event
\* is that of a fiber whose descriptor was ready.
RoundRight ==
    /\ rpc \in {"poll", "drain", "walk"} =>
         \A i \in DOMAIN batch : batch[i] \in Listed /\ ent[batch[i]].active /\ ent[batch[i]].fd # None
    /\ rpc \in {"drain", "walk"} =>
         /\ got.fds \subseteq DOMAIN batch
         /\ \A i \in got.fds : fib[ent[batch[i]].fiber].seen

\* The poll covers every active entry, or is about to be ended by a poke.
PollRight ==
    rpc = "poll" /\ ~pipe /\ pokes = 0 =>
        \A e \in Listed : ent[e].active =>
            /\ ent[e].fd # None => e \in ToSet(batch)
            /\ ent[e].due >= 0 => till >= 0 /\ (till <= ent[e].due \/ till <= clock)

ReactorInv ==
    ReactorType /\ ListsRight /\ ListedRight /\ TakenRight /\ FiberRight /\ RoundRight /\ PollRight

-----------------------------------------------------------------------------
(* Its lists.                                                              *)

\* The filter's recursion over the first n places of a list.
KeptIs(G, s, S, n) ==
    G = [i \in 0 .. n |-> IF i = 0 THEN <<>> ELSE IF s[i] \in S THEN Append(G[i - 1], s[i]) ELSE G[i - 1]]

\* A function satisfies it.
LEMMA KeptExists ==
    ASSUME NEW s, NEW S, NEW n \in Nat
    PROVE  \E G : KeptIs(G, s, S, n)
  <1> DEFINE B(G, i) == IF i = 0 THEN <<>> ELSE IF s[i] \in S THEN Append(G[i - 1], s[i]) ELSE G[i - 1]
             Bad == {m \in Nat : ~ \E G : G = [i \in 0 .. m |-> B(G, i)]}
  <1> SUFFICES ASSUME Bad # {} PROVE FALSE
    BY DEF KeptIs
  <1>1. PICK m \in Bad : \A k \in Bad : m <= k
    BY LeastOf
  <1>2. ASSUME m = 0 PROVE FALSE
    <2> DEFINE G == [i \in 0 .. 0 |-> <<>>]
    <2>1. G = [i \in 0 .. 0 |-> B(G, i)]
      OBVIOUS
    <2> QED BY <1>1, <1>2, <2>1
  <1>3. ASSUME m # 0 PROVE FALSE
    <2>1. m - 1 \in Nat /\ ~(m <= m - 1)
      BY <1>1, <1>3
    <2>2. m - 1 \notin Bad
      BY <1>1, <2>1
    <2>3. PICK G : G = [i \in 0 .. m - 1 |-> B(G, i)]
      BY <2>1, <2>2
    <2> DEFINE top == IF s[m] \in S THEN Append(G[m - 1], s[m]) ELSE G[m - 1]
               H == [i \in 0 .. m |-> IF i < m THEN G[i] ELSE top]
    <2>4. ASSUME NEW i \in 0 .. m PROVE H[i] = B(H, i)
      <3>1. CASE i = 0
        <4>1. G[0] = <<>>
          BY <2>1, <2>3
        <4> QED BY <1>1, <1>3, <3>1, <4>1
      <3>2. CASE i # 0 /\ i < m
        <4>1. i \in 0 .. m - 1 /\ i - 1 \in 0 .. m /\ i - 1 < m
          BY <1>1, <3>2
        <4>2. H[i] = G[i] /\ H[i - 1] = G[i - 1]
          BY <3>2, <4>1
        <4>3. G[i] = B(G, i)
          BY <2>3, <4>1
        <4> QED BY <3>2, <4>2, <4>3
      <3>3. CASE i # 0 /\ i = m
        <4>1. m - 1 \in 0 .. m /\ m - 1 < m /\ ~(m < m)
          BY <1>1, <3>3
        <4>2. H[m] = top /\ H[m - 1] = G[m - 1]
          BY <3>3, <4>1
        <4> QED BY <3>3, <4>2
      <3> QED BY <1>1, <3>1, <3>2, <3>3
    <2>5. H = [i \in 0 .. m |-> B(H, i)]
      BY <2>4
    <2> QED BY <1>1, <2>5
  <1> QED BY <1>2, <1>3

\* What is kept of a list: the members that are in S, each once.
LEMMA OnlyKeeps ==
    ASSUME NEW s \in Seq(Entries), NEW S, IsInjective(s)
    PROVE  /\ PR!Only(s, S) \in Seq(Entries) /\ IsInjective(PR!Only(s, S))
           /\ ToSet(PR!Only(s, S)) = ToSet(s) \cap S
  <1> DEFINE B(G, i) == IF i = 0 THEN <<>> ELSE IF s[i] \in S THEN Append(G[i - 1], s[i]) ELSE G[i - 1]
             K == CHOOSE G : KeptIs(G, s, S, Len(s))
  <1>0. Len(s) \in Nat /\ DOMAIN s = 1 .. Len(s)
    OBVIOUS
  <1>1. K = [i \in 0 .. Len(s) |-> B(K, i)]
    <2>1. \E G : KeptIs(G, s, S, Len(s))
      BY <1>0, KeptExists
    <2>2. KeptIs(K, s, S, Len(s))
      BY <2>1, Zenon
    <2> HIDE DEF K
    <2> QED BY <2>2 DEF KeptIs
  <1>2. PR!Only(s, S) = K[Len(s)]
    BY DEF PR!Only, KeptIs
  <1> HIDE DEF K
  <1>3. K[0] = <<>> /\ \A i \in 1 .. Len(s) : K[i] = IF s[i] \in S THEN Append(K[i - 1], s[i]) ELSE K[i - 1]
    <2>1. K[0] = B(K, 0)
      BY <1>0, <1>1
    <2>2. ASSUME NEW i \in 1 .. Len(s) PROVE K[i] = B(K, i)
      <3>1. i \in 0 .. Len(s)
        BY <1>0
      <3> QED BY <1>1, <3>1
    <2> QED BY <1>0, <2>1, <2>2
  <1> DEFINE Right(i) == /\ K[i] \in Seq(Entries) /\ IsInjective(K[i])
                         /\ ToSet(K[i]) = {s[j] : j \in 1 .. i} \cap S
             Bad == {i \in 0 .. Len(s) : ~Right(i)}
  <1>4. Bad = {}
    <2> SUFFICES ASSUME Bad # {} PROVE FALSE
      OBVIOUS
    <2>1. PICK m \in Bad : \A k \in Bad : m <= k
      <3>1. Bad \subseteq Nat
        BY <1>0
      <3> QED BY <3>1, LeastOf
    <2>2. m # 0
      <3>1. <<>> \in Seq(Entries) /\ IsInjective(<<>>) /\ ToSet(<<>>) = {}
        BY DEF IsInjective, ToSet
      <3>2. {s[j] : j \in 1 .. 0} \cap S = {}
        OBVIOUS
      <3>3. Right(0)
        BY <1>3, <3>1, <3>2
      <3> QED BY <2>1, <3>3
    <2>3. m \in 1 .. Len(s) /\ m - 1 \in 0 .. Len(s) /\ ~(m <= m - 1)
      BY <1>0, <2>1, <2>2
    <2>4. Right(m - 1)
      BY <2>1, <2>3
    <2> DEFINE T == {s[j] : j \in 1 .. m - 1}
    <2>5. {s[j] : j \in 1 .. m} = T \cup {s[m]} /\ s[m] \in Entries
      BY <1>0, <2>3
    <2>6. s[m] \notin T
      BY <1>0, <2>3 DEF IsInjective
    <2>7. Right(m)
      <3>1. CASE s[m] \in S
        <4>1. K[m] = Append(K[m - 1], s[m])
          BY <1>3, <2>3, <3>1
        <4>2. s[m] \notin ToSet(K[m - 1])
          BY <2>4, <2>6
        <4>3. /\ Append(K[m - 1], s[m]) \in Seq(Entries) /\ IsInjective(Append(K[m - 1], s[m]))
              /\ ToSet(Append(K[m - 1], s[m])) = ToSet(K[m - 1]) \cup {s[m]}
          BY <2>4, <2>5, <4>2, QueueAppend
        <4> HIDE DEF T
        <4>4. ToSet(K[m]) = (T \cup {s[m]}) \cap S
          BY <2>4, <3>1, <4>1, <4>3 DEF T
        <4> QED BY <2>5, <4>1, <4>3, <4>4
      <3>2. CASE s[m] \notin S
        <4>1. K[m] = K[m - 1]
          BY <1>3, <2>3, <3>2
        <4>2. (T \cup {s[m]}) \cap S = T \cap S
          BY <3>2
        <4> QED BY <2>4, <2>5, <4>1, <4>2
      <3> QED BY <3>1, <3>2
    <2> QED BY <2>1, <2>7
  <1>5. Right(Len(s))
    <2>1. Len(s) \in 0 .. Len(s)
      BY <1>0
    <2> HIDE DEF Right
    <2> QED BY <1>4, <2>1
  <1>6. {s[j] : j \in 1 .. Len(s)} = ToSet(s)
    BY <1>0 DEF ToSet
  <1> QED BY <1>2, <1>5, <1>6

\* Lists joined.
LEMMA ListsJoin ==
    ASSUME NEW s \in Seq(Entries), NEW t \in Seq(Entries), IsInjective(s), IsInjective(t),
           ToSet(s) \cap ToSet(t) = {}
    PROVE  s \o t \in Seq(Entries) /\ IsInjective(s \o t) /\ ToSet(s \o t) = ToSet(s) \cup ToSet(t)
  <1> DEFINE r == s \o t
  <1>0. Len(s) \in Nat /\ Len(t) \in Nat /\ DOMAIN s = 1 .. Len(s) /\ DOMAIN t = 1 .. Len(t)
    OBVIOUS
  <1>1. /\ r \in Seq(Entries) /\ Len(r) = Len(s) + Len(t) /\ DOMAIN r = 1 .. Len(s) + Len(t)
        /\ \A i \in 1 .. Len(s) : r[i] = s[i]
    OBVIOUS
  <1>2. \A i \in 1 .. Len(s) + Len(t) : ~(i <= Len(s)) => i - Len(s) \in 1 .. Len(t) /\ r[i] = t[i - Len(s)]
    OBVIOUS
  <1> HIDE DEF r
  <1>3. \A i \in 1 .. Len(s), j \in 1 .. Len(t) : s[i] # t[j]
    BY <1>0 DEF ToSet
  <1>4. IsInjective(r)
    <2> SUFFICES ASSUME NEW i \in 1 .. Len(s) + Len(t), NEW j \in 1 .. Len(s) + Len(t), r[i] = r[j] PROVE i = j
      BY <1>1 DEF IsInjective
    <2>1. CASE i <= Len(s) /\ j <= Len(s)
      <3>1. i \in DOMAIN s /\ j \in DOMAIN s
        BY <1>0, <2>1
      <3> QED BY <1>0, <1>1, <3>1 DEF IsInjective
    <2>2. CASE ~(i <= Len(s)) /\ ~(j <= Len(s))
      <3>1. i - Len(s) = j - Len(s)
        BY <1>0, <1>2, <2>2 DEF IsInjective
      <3> QED BY <1>0, <3>1
    <2>3. CASE i <= Len(s) /\ ~(j <= Len(s))
      <3>1. i \in 1 .. Len(s)
        BY <1>0, <2>3
      <3> QED BY <1>1, <1>2, <1>3, <2>3, <3>1
    <2>4. CASE ~(i <= Len(s)) /\ j <= Len(s)
      <3>1. j \in 1 .. Len(s)
        BY <1>0, <2>4
      <3> QED BY <1>1, <1>2, <1>3, <2>4, <3>1
    <2> QED BY <2>1, <2>2, <2>3, <2>4
  <1>5. ASSUME NEW x PROVE x \in ToSet(r) <=> x \in ToSet(s) \cup ToSet(t)
    <2>1. ASSUME NEW i \in 1 .. Len(s) + Len(t), r[i] = x PROVE x \in ToSet(s) \cup ToSet(t)
      <3>1. CASE i <= Len(s)
        <4>1. i \in 1 .. Len(s)
          BY <1>0, <3>1
        <4> QED BY <1>0, <1>1, <2>1, <4>1 DEF ToSet
      <3>2. CASE ~(i <= Len(s))
        BY <1>0, <1>2, <2>1, <3>2 DEF ToSet
      <3> QED BY <3>1, <3>2
    <2>2. ASSUME NEW i \in 1 .. Len(s), s[i] = x PROVE x \in ToSet(r)
      <3>1. i \in 1 .. Len(s) + Len(t) /\ r[i] = x
        BY <1>0, <1>1, <2>2
      <3> QED BY <1>1, <3>1 DEF ToSet
    <2>3. ASSUME NEW i \in 1 .. Len(t), t[i] = x PROVE x \in ToSet(r)
      <3>1. i + Len(s) \in 1 .. Len(s) + Len(t) /\ ~(i + Len(s) <= Len(s)) /\ (i + Len(s)) - Len(s) = i
        BY <1>0
      <3>2. r[i + Len(s)] = x
        BY <1>2, <2>3, <3>1
      <3> QED BY <1>1, <3>1, <3>2 DEF ToSet
    <2> QED BY <1>0, <1>1, <2>1, <2>2, <2>3 DEF ToSet
  <1>6. ToSet(r) = ToSet(s) \cup ToSet(t)
    BY <1>5
  <1> QED BY <1>1, <1>4, <1>6 DEF r

\* An entry put before a list.
LEMMA ListPrepend ==
    ASSUME NEW s \in Seq(Entries), NEW e \in Entries, IsInjective(s), e \notin ToSet(s)
    PROVE  <<e>> \o s \in Seq(Entries) /\ IsInjective(<<e>> \o s) /\ ToSet(<<e>> \o s) = {e} \cup ToSet(s)
  <1>1. <<e>> \in Seq(Entries) /\ IsInjective(<<e>>) /\ ToSet(<<e>>) = {e}
    BY DEF IsInjective, ToSet
  <1>2. {e} \cap ToSet(s) = {}
    OBVIOUS
  <1> QED BY <1>1, <1>2, ListsJoin

-----------------------------------------------------------------------------
(* What the steps do to a fiber and to an entry.                           *)

\* A fiber's wait.
ParkerIs(p, where, e, kind, fd, due, seen, res) ==
    /\ p \in Parkers /\ p.pc = where /\ p.e = e /\ p.kind = kind /\ p.fd = fd /\ p.due = due
    /\ p.seen = seen /\ p.result = res

\* A wait that goes on, is woken, or sees its descriptor ready.
LEMMA ParkerSet ==
    ASSUME NEW r \in Parkers, NEW x \in {-1, 0, 1}
    PROVE  /\ ParkerIs([r EXCEPT !.pc = "runnable", !.result = x, !.e = None],
                       "runnable", None, r.kind, r.fd, r.due, r.seen, x)
           /\ ParkerIs([r EXCEPT !.pc = "parked"], "parked", r.e, r.kind, r.fd, r.due, r.seen, r.result)
           /\ ParkerIs([r EXCEPT !.seen = TRUE], r.pc, r.e, r.kind, r.fd, r.due, TRUE, r.result)
  BY DEF Parkers, ParkerIs

\* No wait.
LEMMA RunningIs == ParkerIs(PR!Running, "run", None, None, None, -1, FALSE, -1)
  BY DEF PR!Running, Parkers, ParkerIs

\* A wait entry.
EntryIs(r, fd, due, fiber, active, mx, ps) ==
    /\ r \in WaitEntries /\ r.fd = fd /\ r.due = due /\ r.fiber = fiber /\ r.active = active
    /\ r.mutex = mx /\ r.ps = ps

\* An entry activated, woken too early, given its place in the poll set, or released.
LEMMA EntrySet ==
    ASSUME NEW r \in WaitEntries, NEW n \in Nat
    PROVE  /\ EntryIs([r EXCEPT !.active = TRUE, !.ps = 1], r.fd, r.due, r.fiber, TRUE, r.mutex, 1)
           /\ EntryIs([r EXCEPT !.ps = 2], r.fd, r.due, r.fiber, r.active, r.mutex, 2)
           /\ EntryIs([r EXCEPT !.pidx = n], r.fd, r.due, r.fiber, r.active, r.mutex, r.ps)
           /\ EntryIs(PR!Released(r), None, -1, None, FALSE, FALSE, 0)
  <1>1. EntryIs([r EXCEPT !.active = TRUE, !.ps = 1], r.fd, r.due, r.fiber, TRUE, r.mutex, 1)
    BY DEF WaitEntries, EntryIs
  <1>2. EntryIs([r EXCEPT !.ps = 2], r.fd, r.due, r.fiber, r.active, r.mutex, 2)
    BY DEF WaitEntries, EntryIs
  <1>3. EntryIs([r EXCEPT !.pidx = n], r.fd, r.due, r.fiber, r.active, r.mutex, r.ps)
    BY DEF WaitEntries, EntryIs
  <1>4. EntryIs(PR!Released(r), None, -1, None, FALSE, FALSE, 0)
    <2>1. r.pidx \in Nat
      BY DEF WaitEntries
    <2>2. EntryIs(PR!Blank, None, -1, None, FALSE, FALSE, 0)
      BY DEF WaitEntries, EntryIs, PR!Blank
    <2>3. \A b \in WaitEntries, k \in Nat : EntryIs([b EXCEPT !.pidx = k], b.fd, b.due, b.fiber, b.active, b.mutex, b.ps)
      BY DEF WaitEntries, EntryIs
    <2> HIDE DEF PR!Blank
    <2> QED BY <2>1, <2>2, <2>3 DEF PR!Released, EntryIs
  <1> QED BY <1>1, <1>2, <1>3, <1>4

\* Waits have entries of their own.
LEMMA WaitsApart ==
    ASSUME ReactorInv
    PROVE  /\ Listed \cup TakenOff \subseteq Entries
           /\ \A e \in Listed \cup TakenOff : OfFiber(e) /\ fib[ent[e].fiber].pc \in {"reg", "parked"}
           /\ \A f \in Fibers : armed[f] # None => /\ fib[f].pc \in {"reg", "parked"} /\ waker # f
                                                   /\ fib[f].e = armed[f]
           /\ \A e \in Listed : ent[e].active => fib[ent[e].fiber].pc = "parked"
           /\ None \notin Fibers /\ None \notin Entries /\ None \notin PollFds
  <1>1. Listed \cup TakenOff \subseteq Entries
    BY DEF ReactorInv, ReactorType, Listed, TakenOff, ToSet
  <1>2. \A e \in Listed \cup TakenOff : OfFiber(e)
    BY DEF ReactorInv, ListedRight, TakenRight, TakenOff
  <1>3. \A e \in Listed \cup TakenOff : OfFiber(e) /\ fib[ent[e].fiber].pc \in {"reg", "parked"}
    BY <1>2 DEF OfFiber
  <1>4. \A f \in Fibers : armed[f] # None => /\ fib[f].pc \in {"reg", "parked"} /\ waker # f
                                             /\ fib[f].e = armed[f]
    BY <1>2, <1>3 DEF ReactorInv, FiberRight, OfFiber
  <1>5. \A e \in Listed : ent[e].active => fib[ent[e].fiber].pc = "parked"
    BY <1>2 DEF OfFiber
  <1> QED BY <1>1, <1>3, <1>4, <1>5, ReactorAssumption

\* The fields of fibers and entries have their types.
LEMMA ReactorFields ==
    ASSUME ReactorInv
    PROVE  /\ \A f \in Fibers : /\ fib[f] \in Parkers /\ fib[f].due \in Int /\ fib[f].seen \in BOOLEAN
                                /\ fib[f].fd \in PollFds \cup {None}
           /\ \A e \in Entries : /\ ent[e] \in WaitEntries /\ ent[e].due \in Nat \cup {-1} /\ ent[e].active \in BOOLEAN
                                 /\ ent[e].mutex \in BOOLEAN /\ ent[e].ps \in {0, 1, 2} /\ ent[e].pidx \in Nat
           /\ clock \in Nat /\ pokes \in Nat /\ till \in Int
  BY ReactorAssumption DEF ReactorInv, ReactorType, Parkers, WaitEntries

\* The reactor begins.
LEMMA ReactorBegins == PR!Init => ReactorInv
  <1> SUFFICES ASSUME PR!Init PROVE ReactorInv
    OBVIOUS
  <1>1. /\ fib = [f \in Fibers |-> PR!Running] /\ armed = [f \in Fibers |-> None]
        /\ ent = [e \in Entries |-> PR!Blank] /\ waits = <<>> /\ freelist = <<>> /\ recycle = <<>> /\ todo = <<>>
        /\ rpc = "build" /\ batch = <<>> /\ till = -1 /\ waker = None /\ clock = 0 /\ ready = {} /\ parks = 0
        /\ pokes = 0 /\ misfired = FALSE
    BY DEF PR!Init
  <1>2. \A f \in Fibers : ParkerIs(fib[f], "run", None, None, None, -1, FALSE, -1)
    BY <1>1, RunningIs
  <1>3. ReactorType
    <2>1. PR!Blank \in WaitEntries
      BY DEF WaitEntries, PR!Blank
    <2>2. fib \in [Fibers -> Parkers]
      BY <1>1, RunningIs DEF ParkerIs
    <2>3. ent \in [Entries -> WaitEntries]
      BY <1>1, <2>1
    <2>4. clock \in 0 .. PollClock /\ parks \in 0 .. MaxParks /\ till \in Int /\ pokes \in Nat
      BY <1>1, ReactorAssumption
    <2> QED BY <1>1, <2>2, <2>3, <2>4 DEF ReactorType
  <1>4. Listed = {} /\ TakenOff = {}
    BY <1>1 DEF Listed, TakenOff, ToSet
  <1>5. ListsRight
    BY <1>1, <1>4 DEF ListsRight, IsInjective, ToSet
  <1>6. ListedRight /\ TakenRight
    BY <1>1, <1>4 DEF ListedRight, TakenRight
  <1>7. FiberRight
    BY <1>1, <1>2, ReactorAssumption DEF FiberRight, ParkerIs
  <1>8. RoundRight /\ PollRight
    BY <1>1 DEF RoundRight, PollRight
  <1> QED BY <1>3, <1>5, <1>6, <1>7, <1>8 DEF ReactorInv

-----------------------------------------------------------------------------
(* The steps that leave the lists alone.                                   *)

\* A poke, time passing and the stop flag.
LEMMA PokeKeeps == ASSUME ReactorInv, PR!Poke \/ PR!Tick \/ PR!Shutdown PROVE ReactorInv'
  <1>0. UNCHANGED <<ready, fib, armed, ent, waits, freelist, waker, rpc, batch, till, got, todo, recycle, misfired, parks>>
    BY DEF PR!Poke, PR!Tick, PR!Shutdown, PR!StopReactor, PR!rvars
  <1>1. clock' \in 0 .. PollClock /\ clock' >= clock /\ pokes' \in Nat /\ clock \in Nat
    BY ReactorAssumption DEF ReactorInv, ReactorType, PR!Poke, PR!Tick, PR!Shutdown
  <1>2. ReactorType'
    BY <1>0, <1>1 DEF ReactorInv, ReactorType
  <1>3. ListsRight' /\ ListedRight'
    BY <1>0 DEF ReactorInv, ListsRight, ListedRight, Listed, TakenOff, OfFiber
  <1>t. \A f \in Fibers : fib[f].due >= 0 /\ clock >= fib[f].due => clock' >= fib[f].due
    BY <1>1, ReactorFields
  <1>4. TakenRight'
    <2> SUFFICES ASSUME NEW i \in DOMAIN todo
                 PROVE  LET e == todo[i][1]
                            f == ent[e].fiber IN
                        /\ OfFiber(e)' /\ ent[e].active /\ armed[f] = None
                        /\ todo[i][2] = 1 /\ fib[f].kind = "fd" => fib[f].seen
                        /\ todo[i][2] = 0 => fib[f].due >= 0 /\ clock' >= fib[f].due
      BY <1>0 DEF TakenRight
    <2>1. /\ OfFiber(todo[i][1]) /\ ent[todo[i][1]].active /\ armed[ent[todo[i][1]].fiber] = None
          /\ todo[i][2] = 1 /\ fib[ent[todo[i][1]].fiber].kind = "fd" => fib[ent[todo[i][1]].fiber].seen
          /\ todo[i][2] = 0 => fib[ent[todo[i][1]].fiber].due >= 0 /\ clock >= fib[ent[todo[i][1]].fiber].due
      BY DEF ReactorInv, TakenRight
    <2>2. OfFiber(todo[i][1])' /\ ent[todo[i][1]].fiber \in Fibers
      BY <1>0, <2>1 DEF OfFiber
    <2> QED BY <1>t, <2>1, <2>2
  <1>5. FiberRight'
    BY <1>0, <1>t DEF ReactorInv, FiberRight, Listed, TakenOff
  <1>6. RoundRight'
    BY <1>0 DEF ReactorInv, RoundRight, Listed
  <1>7. PollRight'
    <2>1. CASE PR!Poke
      <3>1. pipe' = TRUE
        BY <2>1 DEF PR!Poke
      <3> QED BY <3>1 DEF PollRight
    <2>2. CASE PR!Tick
      <3>1. pipe' = pipe /\ pokes' = pokes /\ till \in Int
        BY <2>2, ReactorFields DEF PR!Tick
      <3> QED BY <1>0, <1>1, <3>1 DEF ReactorInv, PollRight, Listed
    <2>3. CASE PR!Shutdown
      <3>1. pipe' = TRUE
        BY <2>3 DEF PR!Shutdown, PR!StopReactor
      <3> QED BY <3>1 DEF PollRight
    <2> QED BY <2>1, <2>2, <2>3
  <1> QED BY <1>2, <1>3, <1>4, <1>5, <1>6, <1>7 DEF ReactorInv

\* Poll returns or fails, and the pipe is drained.
LEMMA PollKeeps == ASSUME ReactorInv, PR!PollReturns \/ PR!PollFails \/ PR!Drain PROVE ReactorInv'
  <1>0. UNCHANGED <<clock, ready, fib, armed, ent, waits, freelist, pokes, waker, batch, till, todo, recycle, misfired, parks>>
    BY DEF PR!PollReturns, PR!PollFails, PR!Drain
  <1>1. /\ rpc \in {"poll", "drain"} /\ rpc' \in {"build", "drain", "walk"}
        /\ rpc' = "drain" => rpc = "poll" /\ got'.fds = PR!ReadyPlaces
        /\ rpc' = "walk" => rpc = "drain" /\ got' = got
    BY DEF PR!PollReturns, PR!PollFails, PR!Drain
  <1>2. ReactorType'
    BY <1>0, <1>1 DEF ReactorInv, ReactorType
  <1>3. ListsRight' /\ ListedRight' /\ TakenRight' /\ FiberRight'
    BY <1>0, <1>1 DEF ReactorInv, ListsRight, ListedRight, TakenRight, FiberRight, Listed, TakenOff, OfFiber
  <1>4. RoundRight'
    <2>1. \A i \in DOMAIN batch : batch[i] \in Listed /\ ent[batch[i]].active /\ ent[batch[i]].fd # None
      BY <1>1 DEF ReactorInv, RoundRight
    <2>2. ASSUME NEW i \in PR!ReadyPlaces PROVE i \in DOMAIN batch /\ fib[ent[batch[i]].fiber].seen
      <3>1. i \in DOMAIN batch /\ ent[batch[i]].fd \in ready
        BY DEF PR!ReadyPlaces
      <3>2. OfFiber(batch[i])
        BY <2>1, <3>1, WaitsApart
      <3> QED BY <3>1, <3>2 DEF OfFiber, ReactorInv, FiberRight
    <2>3. rpc' = "drain" => got'.fds \subseteq DOMAIN batch /\ \A i \in got'.fds : fib[ent[batch[i]].fiber].seen
      BY <1>1, <2>2
    <2>4. rpc' = "walk" => got'.fds \subseteq DOMAIN batch /\ \A i \in got'.fds : fib[ent[batch[i]].fiber].seen
      BY <1>1 DEF ReactorInv, RoundRight
    <2> QED BY <1>0, <1>1, <2>1, <2>3, <2>4 DEF RoundRight, Listed
  <1>5. PollRight'
    BY <1>1 DEF PollRight
  <1> QED BY <1>2, <1>3, <1>4, <1>5 DEF ReactorInv

\* Data arrives.
LEMMA ArriveKeeps == ASSUME ReactorInv, NEW fd \in PollFds, PR!Arrive(fd) PROVE ReactorInv'
  <1>0. UNCHANGED <<clock, armed, ent, waits, freelist, pipe, pokes, waker, rpc, batch, till, got, todo, recycle, misfired, parks>>
    BY DEF PR!Arrive, PR!rvars
  <1>1. /\ ready' = ready \cup {fd}
        /\ fib' = [f \in Fibers |-> IF fib[f].fd = fd THEN [fib[f] EXCEPT !.seen = TRUE] ELSE fib[f]]
    BY DEF PR!Arrive
  <1>2. ASSUME NEW f \in Fibers
        PROVE  /\ fib'[f] \in Parkers /\ fib'[f].pc = fib[f].pc /\ fib'[f].e = fib[f].e /\ fib'[f].kind = fib[f].kind
               /\ fib'[f].fd = fib[f].fd /\ fib'[f].due = fib[f].due /\ fib'[f].result = fib[f].result
               /\ fib[f].seen \/ fib[f].fd = fd => fib'[f].seen
    <2>1. CASE fib[f].fd = fd
      <3>1. fib'[f] = [fib[f] EXCEPT !.seen = TRUE]
        BY <1>1, <2>1
      <3>2. ParkerIs(fib'[f], fib[f].pc, fib[f].e, fib[f].kind, fib[f].fd, fib[f].due, TRUE, fib[f].result)
        BY <3>1, ParkerSet, ReactorFields
      <3> QED BY <3>2 DEF ParkerIs
    <2>2. CASE fib[f].fd # fd
      <3>1. fib'[f] = fib[f]
        BY <1>1, <2>2
      <3> QED BY <2>2, <3>1, ReactorFields
    <2> QED BY <2>1, <2>2
  <1>3. ReactorType'
    <2>1. fib' \in [Fibers -> Parkers]
      BY <1>1, <1>2
    <2>2. ready' \subseteq PollFds
      BY <1>1 DEF ReactorInv, ReactorType
    <2> QED BY <1>0, <2>1, <2>2 DEF ReactorInv, ReactorType
  <1>4. ListsRight'
    BY <1>0 DEF ReactorInv, ListsRight, Listed, TakenOff
  <1>5. \A e : OfFiber(e) => OfFiber(e)'
    BY <1>0, <1>2 DEF OfFiber
  <1>6. ListedRight'
    BY <1>0, <1>2, <1>5 DEF ReactorInv, ListedRight, Listed, OfFiber
  <1>7. TakenRight'
    BY <1>0, <1>2, <1>5 DEF ReactorInv, TakenRight, OfFiber
  <1>8. FiberRight'
    BY <1>0, <1>1, <1>2 DEF ReactorInv, FiberRight, Listed, TakenOff
  <1>9. RoundRight'
    <2>1. \A e \in Listed : ent[e].fiber \in Fibers
      BY WaitsApart DEF OfFiber
    <2> QED BY <1>0, <1>2, <2>1 DEF ReactorInv, RoundRight, Listed
  <1>10. PollRight'
    BY <1>0 DEF ReactorInv, PollRight, Listed
  <1> QED BY <1>3, <1>4, <1>6, <1>7, <1>8, <1>9, <1>10 DEF ReactorInv

\* A fiber runs again.
LEMMA ResumesKeeps == ASSUME ReactorInv, NEW f \in Fibers, PR!Resume(f) PROVE ReactorInv'
  <1>0. UNCHANGED <<clock, armed, ent, waits, freelist, pipe, pokes, waker, rpc, batch, till, got, todo, recycle, misfired, parks>>
    BY DEF PR!Resume, PR!rvars
  <1>1. fib' = [fib EXCEPT ![f] = PR!Running] /\ ready' \subseteq ready /\ fib[f].pc = "runnable"
    BY DEF PR!Resume
  <1>2. ParkerIs(fib'[f], "run", None, None, None, -1, FALSE, -1) /\ \A g \in Fibers \ {f} : fib'[g] = fib[g]
    BY <1>1, RunningIs DEF ReactorInv, ReactorType
  <1>3. ReactorType'
    <2>1. fib' \in [Fibers -> Parkers]
      BY <1>1, RunningIs DEF ReactorInv, ReactorType, ParkerIs
    <2>2. ready' \subseteq PollFds
      BY <1>1 DEF ReactorInv, ReactorType
    <2> QED BY <1>0, <2>1, <2>2 DEF ReactorInv, ReactorType
  <1>4. ListsRight'
    BY <1>0 DEF ReactorInv, ListsRight, Listed, TakenOff
  <1>5. \A e \in Listed \cup TakenOff : ent[e].fiber \in Fibers \ {f} /\ fib'[ent[e].fiber] = fib[ent[e].fiber] /\ OfFiber(e)'
    BY <1>0, <1>1, <1>2, WaitsApart DEF OfFiber
  <1>6. ListedRight'
    BY <1>0, <1>5 DEF ReactorInv, ListedRight, Listed
  <1>7. TakenRight'
    BY <1>0, <1>5 DEF ReactorInv, TakenRight, TakenOff
  <1>8. FiberRight'
    <2>1. armed[f] = None /\ waker # f
      BY <1>1, WaitsApart DEF ReactorInv, FiberRight
    <2>2. None \notin ready'
      BY <1>1, ReactorAssumption DEF ReactorInv, ReactorType
    <2> QED BY <1>0, <1>1, <1>2, <2>1, <2>2 DEF ReactorInv, FiberRight, Listed, TakenOff, ParkerIs
  <1>9. RoundRight'
    BY <1>0, <1>5 DEF ReactorInv, RoundRight, Listed
  <1>10. PollRight'
    BY <1>0 DEF ReactorInv, PollRight, Listed
  <1> QED BY <1>3, <1>4, <1>6, <1>7, <1>8, <1>9, <1>10 DEF ReactorInv

-----------------------------------------------------------------------------
(* The fiber's side and nurl_fiber_wake.                                   *)

\* The entry of a new wait: off the free list, or one nobody has.
FreshEntry == IF freelist # <<>> THEN Head(freelist) ELSE PR!Min(Entries \ PR!InUse)

\* It is in no list.
LEMMA FreshIsFree ==
    ASSUME ReactorInv, freelist = <<>> => Entries \ PR!InUse # {}
    PROVE  /\ FreshEntry \in Entries /\ FreshEntry \notin Listed /\ FreshEntry \notin TakenOff
           /\ FreshEntry \notin ToSet(recycle)
           /\ LET t == IF freelist # <<>> THEN Tail(freelist) ELSE freelist
              IN  t \in Seq(Entries) /\ IsInjective(t) /\ ToSet(t) = ToSet(freelist) \ {FreshEntry}
  <1>0. freelist \in Seq(Entries) /\ IsInjective(freelist)
    BY DEF ReactorInv, ReactorType, ListsRight
  <1>1. CASE freelist # <<>>
    <2>1. /\ Tail(freelist) \in Seq(Entries) /\ IsInjective(Tail(freelist)) /\ Head(freelist) \in ToSet(freelist)
          /\ ToSet(Tail(freelist)) = ToSet(freelist) \ {Head(freelist)}
      BY <1>0, <1>1, QueueTail
    <2>2. FreshEntry = Head(freelist) /\ ToSet(freelist) \subseteq Entries
      BY <1>0, <1>1, ToSetType DEF FreshEntry
    <2> QED BY <1>1, <2>1, <2>2 DEF ReactorInv, ListsRight
  <1>2. CASE freelist = <<>>
    <2>1. FreshEntry = PR!Min(Entries \ PR!InUse)
      BY <1>2 DEF FreshEntry
    <2>2. \E x \in Entries \ PR!InUse : \A y \in Entries \ PR!InUse : x <= y
      BY <1>2, LeastOf, ReactorAssumption
    <2>3. FreshEntry \in Entries \ PR!InUse
      BY <2>1, <2>2 DEF PR!Min
    <2>4. Listed \cup TakenOff \cup ToSet(recycle) \cup ToSet(freelist) \subseteq PR!InUse
      <3>1. ToSet(waits) = PR!Range(waits) /\ ToSet(recycle) = PR!Range(recycle) /\ ToSet(freelist) = PR!Range(freelist)
        BY DEF ReactorInv, ReactorType, ToSet, PR!Range
      <3> QED BY <3>1 DEF Listed, TakenOff, PR!InUse
    <2> QED BY <1>0, <1>2, <2>3, <2>4
  <1> QED BY <1>1, <1>2

\* A wait registered: its entry is listed and inactive.
LEMMA RegisterKeeps ==
    ASSUME ReactorInv, NEW f \in Fibers, NEW kind \in {"fd", "sleep", "mutex"}, NEW fd \in PollFds \cup {None},
           NEW t \in PollTimeouts, kind # "fd" => fd = None, PR!Register(f, kind, fd, t)
    PROVE  ReactorInv'
  <1>1. fib[f].pc = "run" /\ (freelist = <<>> => Entries \ PR!InUse # {}) /\ parks' = parks + 1 /\ parks < MaxParks
    BY DEF PR!Register
  <1>e. PICK e \in Entries : e = FreshEntry
    BY <1>1, FreshIsFree
  <1> DEFINE due == IF t = None THEN -1 ELSE clock + t
             w == [fd |-> fd, due |-> due, fiber |-> f, active |-> FALSE, mutex |-> (kind = "mutex"), ps |-> 0,
                   pidx |-> ent[e].pidx]
             p == [pc |-> "reg", e |-> e, kind |-> kind, fd |-> fd, due |-> due, seen |-> fd \in ready, result |-> -1]
  <1>0. UNCHANGED <<clock, ready, pipe, pokes, waker, rpc, batch, till, got, todo, recycle, misfired>>
    BY DEF PR!Register, PR!rvars
  <1>2. /\ freelist' = IF freelist # <<>> THEN Tail(freelist) ELSE freelist
        /\ ent' = [ent EXCEPT ![e] = w] /\ waits' = <<e>> \o waits
        /\ armed' = [armed EXCEPT ![f] = IF kind = "mutex" THEN e ELSE armed[f]]
        /\ fib' = [fib EXCEPT ![f] = p]
    BY <1>e, Zenon DEF PR!Register, FreshEntry
  <1>3. /\ e \in Entries /\ e \notin Listed /\ e \notin TakenOff /\ e \notin ToSet(recycle)
        /\ freelist' \in Seq(Entries) /\ IsInjective(freelist') /\ ToSet(freelist') = ToSet(freelist) \ {e}
    BY <1>1, <1>2, <1>e, FreshIsFree
  <1>4. /\ waits' \in Seq(Entries) /\ IsInjective(waits') /\ Listed' = {e} \cup Listed
    BY <1>2, <1>3, ListPrepend DEF ReactorInv, ReactorType, ListsRight, Listed
  <1>d. due \in Nat \cup {-1}
    BY ReactorFields, ReactorAssumption
  <1> HIDE DEF due
  <1>5. EntryIs(w, fd, due, f, FALSE, (kind = "mutex"), 0)
    <2>1. ent[e].pidx \in Nat
      BY <1>3, ReactorFields
    <2> QED BY <1>d, <2>1 DEF EntryIs, WaitEntries
  <1>6. ParkerIs(p, "reg", e, kind, fd, due, fd \in ready, -1)
    BY <1>d, <1>3 DEF ParkerIs, Parkers
  <1> HIDE DEF w, p
  <1>7. EntryIs(ent'[e], fd, due, f, FALSE, (kind = "mutex"), 0) /\ \A d \in Entries \ {e} : ent'[d] = ent[d]
    BY <1>2, <1>3, <1>5 DEF ReactorInv, ReactorType
  <1>8. ParkerIs(fib'[f], "reg", e, kind, fd, due, fd \in ready, -1) /\ \A g \in Fibers \ {f} : fib'[g] = fib[g]
    BY <1>2, <1>6 DEF ReactorInv, ReactorType
  <1>9. armed[f] = None /\ waker # f
    BY <1>1, WaitsApart DEF ReactorInv, FiberRight
  <1>10. /\ armed' \in [Fibers -> Entries \cup {None}] /\ (armed'[f] # None => kind = "mutex" /\ armed'[f] = e)
         /\ \A g \in Fibers \ {f} : armed'[g] = armed[g]
    BY <1>2, <1>3, <1>9 DEF ReactorInv, ReactorType
  <1>11. ReactorType'
    <2>1. fib' \in [Fibers -> Parkers]
      BY <1>2, <1>6 DEF ReactorInv, ReactorType, ParkerIs
    <2>2. ent' \in [Entries -> WaitEntries]
      BY <1>2, <1>5 DEF ReactorInv, ReactorType, EntryIs
    <2>3. parks' \in 0 .. MaxParks
      BY <1>1, ReactorAssumption DEF ReactorInv, ReactorType
    <2> QED BY <1>0, <1>3, <1>4, <1>10, <2>1, <2>2, <2>3 DEF ReactorInv, ReactorType
  <1>12. TakenOff' = TakenOff
    BY <1>0 DEF TakenOff
  <1>13. ListsRight'
    BY <1>0, <1>3, <1>4, <1>12 DEF ReactorInv, ListsRight
  <1>14. \A d \in Listed \cup TakenOff : /\ d \in Entries \ {e} /\ ent'[d] = ent[d] /\ ent[d].fiber \in Fibers \ {f}
                                         /\ fib'[ent[d].fiber] = fib[ent[d].fiber] /\ OfFiber(d)'
    BY <1>0, <1>1, <1>3, <1>7, <1>8, WaitsApart DEF OfFiber
  <1>15. ListedRight'
    <2>1. ASSUME NEW d \in Listed
          PROVE  /\ OfFiber(d)' /\ (ent'[d].active <=> ent'[d].ps = 1)
                 /\ ent'[d].mutex <=> fib'[ent'[d].fiber].kind = "mutex"
                 /\ ent'[d].mutex => ent'[d].fd = None
                 /\ ent'[d].ps = 2 => armed'[ent'[d].fiber] = None
      BY <1>10, <1>14 DEF ReactorInv, ListedRight
    <2>2. /\ OfFiber(e)' /\ (ent'[e].active <=> ent'[e].ps = 1)
          /\ ent'[e].mutex <=> fib'[ent'[e].fiber].kind = "mutex"
          /\ ent'[e].mutex => ent'[e].fd = None
          /\ ent'[e].ps = 2 => armed'[ent'[e].fiber] = None
      <3>1. /\ ent'[e].fd = fd /\ ent'[e].due = due /\ ent'[e].fiber = f /\ ent'[e].active = FALSE
            /\ ent'[e].mutex = (kind = "mutex") /\ ent'[e].ps = 0
        BY <1>7 DEF EntryIs
      <3>2. fib'[f].pc = "reg" /\ fib'[f].e = e /\ fib'[f].kind = kind /\ fib'[f].fd = fd /\ fib'[f].due = due
        BY <1>8 DEF ParkerIs
      <3>3. OfFiber(e)'
        BY <1>0, <1>9, <3>1, <3>2 DEF OfFiber
      <3>4. ~ent'[e].active /\ ent'[e].ps # 1 /\ ent'[e].ps # 2
        BY <3>1
      <3>5. (ent'[e].mutex <=> fib'[ent'[e].fiber].kind = "mutex") /\ (ent'[e].mutex => ent'[e].fd = None)
        BY <3>1, <3>2, Zenon
      <3> QED BY <3>3, <3>4, <3>5
    <2> QED BY <1>4, <2>1, <2>2 DEF ListedRight
  <1>16. TakenRight'
    BY <1>0, <1>10, <1>14 DEF ReactorInv, TakenRight, TakenOff
  <1>17. FiberRight'
    <2>1. ASSUME NEW g \in Fibers \ {f}
          PROVE  /\ fib'[g].pc \in {"reg", "parked"} /\ waker' # g =>
                      fib'[g].e \in Listed' \cup TakenOff' /\ ent'[fib'[g].e].fiber = g
                 /\ armed'[g] # None => armed'[g] \in Listed' /\ ent'[armed'[g]].fiber = g /\ ent'[armed'[g]].mutex
                 /\ waker' = g => fib'[g].pc = "parked" /\ fib'[g].kind = "mutex"
                 /\ fib'[g].fd \in ready' => fib'[g].seen
                 /\ fib'[g].pc = "runnable" =>
                      /\ fib'[g].result = 1 /\ fib'[g].kind = "fd" => fib'[g].seen
                      /\ fib'[g].result = 0 => fib'[g].due >= 0 /\ clock' >= fib'[g].due
      BY <1>0, <1>4, <1>8, <1>10, <1>12, <1>14 DEF ReactorInv, FiberRight
    <2>2. /\ fib'[f].e \in Listed' /\ ent'[fib'[f].e].fiber = f
          /\ armed'[f] # None => armed'[f] \in Listed' /\ ent'[armed'[f]].fiber = f /\ ent'[armed'[f]].mutex
          /\ waker' # f /\ fib'[f].pc = "reg" /\ (fib'[f].fd \in ready' => fib'[f].seen)
      BY <1>0, <1>4, <1>7, <1>8, <1>9, <1>10 DEF EntryIs, ParkerIs
    <2> QED BY <2>1, <2>2 DEF FiberRight
  <1>18. RoundRight'
    BY <1>0, <1>4, <1>14 DEF ReactorInv, RoundRight
  <1>19. PollRight'
    BY <1>0, <1>4, <1>7, <1>14 DEF ReactorInv, PollRight, EntryIs
  <1> QED BY <1>11, <1>13, <1>15, <1>16, <1>17, <1>18, <1>19 DEF ReactorInv

\* A timed mutex park woken before the switch away, or claimed after it: its entry goes to the free
\* list, and its fiber is runnable or in the waker's hands.
LEMMA LeavesList ==
    ASSUME ReactorInv, NEW e \in Listed, waits' = PR!Only(waits, Entries \ {e}), freelist' = <<e>> \o freelist,
           ent' = [ent EXCEPT ![e] = PR!Released(ent[e])], UNCHANGED <<recycle, todo, rpc>>
    PROVE  /\ e \in Entries
           /\ waits' \in Seq(Entries) /\ freelist' \in Seq(Entries) /\ Listed' = Listed \ {e} /\ TakenOff' = TakenOff
           /\ ListsRight' /\ ent' \in [Entries -> WaitEntries] /\ \A d \in Entries \ {e} : ent'[d] = ent[d]
           /\ e \notin TakenOff
  <1>0. /\ waits \in Seq(Entries) /\ freelist \in Seq(Entries) /\ e \in Entries /\ e \in ToSet(waits)
        /\ IsInjective(waits) /\ IsInjective(freelist) /\ ent \in [Entries -> WaitEntries]
    BY WaitsApart DEF ReactorInv, ReactorType, ListsRight, Listed
  <1>1. e \notin ToSet(freelist) /\ e \notin ToSet(recycle) /\ e \notin TakenOff
    BY DEF ReactorInv, ListsRight
  <1>2. waits' \in Seq(Entries) /\ IsInjective(waits') /\ ToSet(waits') = ToSet(waits) \cap (Entries \ {e})
    BY <1>0, OnlyKeeps
  <1>3. Listed' = Listed \ {e}
    BY <1>2, WaitsApart DEF Listed
  <1>4. freelist' \in Seq(Entries) /\ IsInjective(freelist') /\ ToSet(freelist') = {e} \cup ToSet(freelist)
    BY <1>0, <1>1, ListPrepend
  <1>5. TakenOff' = TakenOff
    BY DEF TakenOff
  <1>6. ListsRight'
    BY <1>1, <1>2, <1>3, <1>4, <1>5 DEF ReactorInv, ListsRight
  <1>7. PR!Released(ent[e]) \in WaitEntries
    <2>1. \A r \in WaitEntries : EntryIs(PR!Released(r), None, -1, None, FALSE, FALSE, 0)
      BY EntrySet
    <2> QED BY <1>0, <2>1 DEF EntryIs
  <1> HIDE DEF PR!Released
  <1>8. ent' \in [Entries -> WaitEntries] /\ \A d \in Entries \ {e} : ent'[d] = ent[d]
    BY <1>0, <1>7
  <1> QED BY <1>0, <1>1, <1>2, <1>3, <1>4, <1>5, <1>6, <1>8

\* A park woken before its fiber was switched out is taken back.
LEMMA ActivateTaken ==
    ASSUME ReactorInv, NEW f \in Fibers, NEW e \in Listed, e = fib[f].e, fib[f].pc = "reg", ent[e].fiber = f,
           ent[e].mutex, ent[e].ps = 2, ~ent[e].active,
           waits' = PR!Only(waits, Entries \ {e}), freelist' = <<e>> \o freelist,
           ent' = [ent EXCEPT ![e] = PR!Released(ent[e])],
           fib' = [fib EXCEPT ![f] = [fib[f] EXCEPT !.pc = "runnable", !.result = 1, !.e = None]],
           UNCHANGED <<clock, ready, armed, pokes, pipe, waker, rpc, batch, till, got, todo, recycle, misfired, parks>>
    PROVE  ReactorInv'
  <1>1. /\ e \in Entries /\ waits' \in Seq(Entries) /\ freelist' \in Seq(Entries) /\ Listed' = Listed \ {e}
        /\ TakenOff' = TakenOff /\ ListsRight' /\ ent' \in [Entries -> WaitEntries] /\ e \notin TakenOff
        /\ \A d \in Entries \ {e} : ent'[d] = ent[d]
    BY LeavesList
  <1>2. ParkerIs(fib'[f], "runnable", None, fib[f].kind, fib[f].fd, fib[f].due, fib[f].seen, 1)
    <2> DEFINE p == [fib[f] EXCEPT !.pc = "runnable", !.result = 1, !.e = None]
    <2>1. ParkerIs(p, "runnable", None, fib[f].kind, fib[f].fd, fib[f].due, fib[f].seen, 1)
      BY ParkerSet, ReactorFields
    <2> HIDE DEF p
    <2>2. fib' = [fib EXCEPT ![f] = p]
      BY DEF p
    <2> QED BY <2>1, <2>2 DEF ReactorInv, ReactorType
  <1>3. \A g \in Fibers \ {f} : fib'[g] = fib[g]
    BY DEF ReactorInv, ReactorType
  <1>4. ReactorType'
    <2>1. fib' \in [Fibers -> Parkers]
      <3> DEFINE p == [fib[f] EXCEPT !.pc = "runnable", !.result = 1, !.e = None]
      <3>1. p \in Parkers /\ fib \in [Fibers -> Parkers]
        BY ParkerSet, ReactorFields DEF ParkerIs, ReactorInv, ReactorType
      <3>2. fib' = [fib EXCEPT ![f] = p]
        OBVIOUS
      <3> HIDE DEF p
      <3> QED BY <3>1, <3>2
    <2> QED BY <1>1, <2>1 DEF ReactorInv, ReactorType
  <1>5. \A d \in Listed' \cup TakenOff : /\ d \in Entries \ {e} /\ ent'[d] = ent[d] /\ ent[d].fiber \in Fibers \ {f}
                                         /\ fib'[ent[d].fiber] = fib[ent[d].fiber] /\ OfFiber(d)'
    BY <1>1, <1>3, WaitsApart DEF OfFiber
  <1>6. fib[f].kind = "mutex" /\ armed[f] = None /\ waker # f
    BY DEF ReactorInv, ListedRight, OfFiber
  <1>7. ListedRight'
    BY <1>1, <1>5 DEF ReactorInv, ListedRight
  <1>8. TakenRight'
    BY <1>1, <1>5 DEF ReactorInv, TakenRight, TakenOff
  <1>9. FiberRight'
    <2>1. ASSUME NEW g \in Fibers \ {f}
          PROVE  /\ fib'[g].pc \in {"reg", "parked"} /\ waker' # g =>
                      fib'[g].e \in Listed' \cup TakenOff' /\ ent'[fib'[g].e].fiber = g
                 /\ armed'[g] # None => armed'[g] \in Listed' /\ ent'[armed'[g]].fiber = g /\ ent'[armed'[g]].mutex
                 /\ waker' = g => fib'[g].pc = "parked" /\ fib'[g].kind = "mutex"
                 /\ fib'[g].fd \in ready' => fib'[g].seen
                 /\ fib'[g].pc = "runnable" =>
                      /\ fib'[g].result = 1 /\ fib'[g].kind = "fd" => fib'[g].seen
                      /\ fib'[g].result = 0 => fib'[g].due >= 0 /\ clock' >= fib'[g].due
      <3>1. fib[g].pc \in {"reg", "parked"} /\ waker # g => fib[g].e # e
        BY DEF ReactorInv, FiberRight
      <3>2. armed[g] # None => armed[g] # e
        BY DEF ReactorInv, FiberRight
      <3> QED BY <1>1, <1>3, <1>5, <3>1, <3>2 DEF ReactorInv, FiberRight
    <2>2. /\ fib'[f].pc = "runnable" /\ armed'[f] = None /\ waker' # f /\ fib'[f].kind = "mutex"
          /\ fib'[f].result = 1 /\ (fib'[f].fd \in ready' => fib'[f].seen)
      BY <1>2, <1>6 DEF ParkerIs, ReactorInv, FiberRight
    <2> QED BY <2>1, <2>2 DEF FiberRight
  <1>10. RoundRight'
    BY <1>1, <1>5 DEF ReactorInv, RoundRight
  <1>11. PollRight'
    BY <1>1, <1>5 DEF ReactorInv, PollRight
  <1> QED BY <1>1, <1>4, <1>7, <1>8, <1>9, <1>10, <1>11 DEF ReactorInv

\* An entry turned active as its fiber is switched out, and a poke on the way.
LEMMA ActivateGoes ==
    ASSUME ReactorInv, NEW f \in Fibers, NEW e \in Listed, e = fib[f].e, fib[f].pc = "reg", ent[e].fiber = f,
           ~(ent[e].mutex /\ ent[e].ps = 2),
           ParkerIs(fib'[f], "parked", e, fib[f].kind, fib[f].fd, fib[f].due, fib[f].seen, fib[f].result),
           fib' \in [Fibers -> Parkers], \A g \in Fibers \ {f} : fib'[g] = fib[g],
           EntryIs(ent'[e], ent[e].fd, ent[e].due, f, TRUE, ent[e].mutex, 1),
           ent' \in [Entries -> WaitEntries], \A d \in Entries \ {e} : ent'[d] = ent[d], pokes' = pokes + 1,
           UNCHANGED <<clock, ready, armed, waits, freelist, pipe, waker, rpc, batch, till, got, todo, recycle, misfired, parks>>
    PROVE  ReactorInv'
  <1>0. e \in Entries /\ Listed' = Listed /\ TakenOff' = TakenOff /\ e \notin TakenOff
    BY WaitsApart DEF Listed, TakenOff, ReactorInv, ListsRight
  <1>1. /\ fib'[f].pc = "parked" /\ fib'[f].e = e /\ fib'[f].kind = fib[f].kind /\ fib'[f].fd = fib[f].fd
        /\ fib'[f].due = fib[f].due /\ fib'[f].seen = fib[f].seen /\ \A g \in Fibers \ {f} : fib'[g] = fib[g]
    BY DEF ParkerIs
  <1>2. /\ ent'[e].fd = ent[e].fd /\ ent'[e].due = ent[e].due /\ ent'[e].fiber = f /\ ent'[e].active
        /\ ent'[e].mutex = ent[e].mutex /\ ent'[e].ps = 1 /\ \A d \in Entries \ {e} : ent'[d] = ent[d]
    BY DEF EntryIs
  <1>3. ReactorType'
    BY ReactorFields DEF ReactorInv, ReactorType
  <1>4. ListsRight'
    BY <1>0 DEF ReactorInv, ListsRight
  <1>5. \A d \in (Listed \cup TakenOff) \ {e} : /\ d \in Entries \ {e} /\ ent'[d] = ent[d] /\ ent[d].fiber \in Fibers \ {f}
                                                /\ fib'[ent[d].fiber] = fib[ent[d].fiber] /\ OfFiber(d)'
    BY <1>0, <1>1, <1>2, WaitsApart DEF OfFiber
  <1>6. /\ OfFiber(e) /\ (ent[e].mutex <=> fib[f].kind = "mutex") /\ (ent[e].mutex => ent[e].fd = None) /\ waker # f
    BY DEF ReactorInv, ListedRight, OfFiber
  <1>7. OfFiber(e)' /\ ent'[e].fiber = f /\ ent'[e].active /\ ent'[e].ps = 1 /\ ent'[e].mutex = ent[e].mutex /\ ent'[e].fd = ent[e].fd
    BY <1>1, <1>2, <1>6 DEF OfFiber
  <1>8. ListedRight'
    <2>1. ASSUME NEW d \in Listed, d # e
          PROVE  /\ OfFiber(d)' /\ (ent'[d].active <=> ent'[d].ps = 1)
                 /\ ent'[d].mutex <=> fib'[ent'[d].fiber].kind = "mutex"
                 /\ ent'[d].mutex => ent'[d].fd = None
                 /\ ent'[d].ps = 2 => armed'[ent'[d].fiber] = None
      BY <1>5, <2>1 DEF ReactorInv, ListedRight
    <2>2. /\ OfFiber(e)' /\ (ent'[e].active <=> ent'[e].ps = 1) /\ ent'[e].ps # 2
          /\ ent'[e].mutex <=> fib'[ent'[e].fiber].kind = "mutex"
          /\ ent'[e].mutex => ent'[e].fd = None
      BY <1>1, <1>6, <1>7
    <2> QED BY <1>0, <2>1, <2>2 DEF ListedRight
  <1>9. TakenRight'
    BY <1>0, <1>5 DEF ReactorInv, TakenRight, TakenOff
  <1>10. FiberRight'
    <2>1. \A d \in Entries : ent'[d].fiber = ent[d].fiber /\ ent'[d].mutex = ent[d].mutex
      BY <1>2, <1>7
    <2>2. \A g \in Fibers : armed[g] # None => armed[g] \in Entries
      BY DEF ReactorInv, ReactorType
    <2> QED BY <1>0, <1>1, <1>6, <2>1, <2>2, WaitsApart DEF ReactorInv, FiberRight
  <1>11. RoundRight'
    <2>1. ~ent[e].active
      BY <1>6 DEF OfFiber
    <2> QED BY <1>0, <1>5, <2>1 DEF ReactorInv, RoundRight
  <1>12. PollRight'
    <2>1. pokes' # 0
      BY ReactorFields
    <2> QED BY <2>1 DEF PollRight
  <1> QED BY <1>3, <1>4, <1>8, <1>9, <1>10, <1>11, <1>12 DEF ReactorInv

\* The worker's side of a park.
LEMMA ActivateKeeps == ASSUME ReactorInv, NEW f \in Fibers, PR!Activate(f) PROVE ReactorInv'
  <1>0. fib[f].pc = "reg" /\ UNCHANGED <<clock, ready, armed, waker, rpc, batch, till, got, todo, recycle, misfired, parks>>
    BY DEF PR!Activate, PR!rvars
  <1>1. fib[f].e \in Listed /\ ent[fib[f].e].fiber = f
    <2>1. fib[f].e \in Listed \cup TakenOff /\ ent[fib[f].e].fiber = f
      BY <1>0 DEF ReactorInv, FiberRight
    <2>2. \A e \in TakenOff : fib[ent[e].fiber].pc = "parked"
      BY DEF ReactorInv, TakenRight, TakenOff, OfFiber
    <2> QED BY <1>0, <2>1, <2>2
  <1>2. PICK e \in Listed : e = fib[f].e
    BY <1>1
  <1>3. ent[e].fiber = f /\ ~ent[e].active
    BY <1>0, <1>1, <1>2 DEF ReactorInv, ListedRight, OfFiber
  <1>6. e \in Entries
    BY WaitsApart
  <1>4. CASE ent[e].mutex /\ ent[e].ps = 2
    <2>1. /\ waits' = PR!Only(waits, Entries \ {e}) /\ freelist' = <<e>> \o freelist
          /\ ent' = [ent EXCEPT ![e] = PR!Released(ent[e])]
          /\ fib' = [fib EXCEPT ![f] = [fib[f] EXCEPT !.pc = "runnable", !.result = 1, !.e = None]]
          /\ UNCHANGED <<pokes, pipe>>
      BY <1>2, <1>4, Zenon DEF PR!Activate
    <2> HIDE DEF PR!Released
    <2> QED BY <1>0, <1>2, <1>3, <1>4, <2>1, ActivateTaken
  <1>5. CASE ~(ent[e].mutex /\ ent[e].ps = 2)
    <2>1. /\ ent' = [ent EXCEPT ![e].active = TRUE, ![e].ps = 1] /\ pokes' = pokes + 1 /\ pipe' = pipe
          /\ fib' = [fib EXCEPT ![f].pc = "parked"] /\ UNCHANGED <<waits, freelist>>
      BY <1>2, <1>5, Zenon DEF PR!Activate, PR!Active
    <2>2. /\ ParkerIs(fib'[f], "parked", e, fib[f].kind, fib[f].fd, fib[f].due, fib[f].seen, fib[f].result)
          /\ fib' \in [Fibers -> Parkers] /\ \A g \in Fibers \ {f} : fib'[g] = fib[g]
      <3> DEFINE p == [fib[f] EXCEPT !.pc = "parked"]
      <3>1. ParkerIs(p, "parked", fib[f].e, fib[f].kind, fib[f].fd, fib[f].due, fib[f].seen, fib[f].result)
        <4>1. \A r \in Parkers : ParkerIs([r EXCEPT !.pc = "parked"], "parked", r.e, r.kind, r.fd, r.due, r.seen, r.result)
          BY ParkerSet
        <4> QED BY <4>1, ReactorFields
      <3>2. fib' = [fib EXCEPT ![f] = p] /\ fib \in [Fibers -> Parkers]
        BY <2>1 DEF ReactorInv, ReactorType
      <3> HIDE DEF p
      <3> QED BY <1>2, <3>1, <3>2 DEF ParkerIs
    <2>3. /\ EntryIs(ent'[e], ent[e].fd, ent[e].due, f, TRUE, ent[e].mutex, 1)
          /\ ent' \in [Entries -> WaitEntries] /\ \A d \in Entries \ {e} : ent'[d] = ent[d]
      <3> DEFINE w == [ent[e] EXCEPT !.active = TRUE, !.ps = 1]
      <3>1. EntryIs(w, ent[e].fd, ent[e].due, ent[e].fiber, TRUE, ent[e].mutex, 1)
        <4>1. \A r \in WaitEntries : EntryIs([r EXCEPT !.active = TRUE, !.ps = 1], r.fd, r.due, r.fiber, TRUE, r.mutex, 1)
          BY EntrySet
        <4> QED BY <1>6, <4>1, ReactorFields
      <3>2. ent' = [ent EXCEPT ![e] = w] /\ ent \in [Entries -> WaitEntries]
        BY <1>6, <2>1 DEF ReactorInv, ReactorType
      <3> HIDE DEF w
      <3> QED BY <1>3, <1>6, <3>1, <3>2 DEF EntryIs
    <2> QED BY <1>0, <1>2, <1>3, <1>5, <2>1, <2>2, <2>3, ActivateGoes
  <1> QED BY <1>4, <1>5

\* nurl_fiber_wake before the switch away: the park is marked.
LEMMA WakeMarks ==
    ASSUME ReactorInv, NEW f \in Fibers, NEW e \in Listed, armed[f] = e, ent[e].ps = 0,
           armed' = [armed EXCEPT ![f] = None], ent' = [ent EXCEPT ![e].ps = 2],
           UNCHANGED <<clock, ready, fib, waits, freelist, pipe, pokes, waker, rpc, batch, till, got, todo, recycle, misfired, parks>>
    PROVE  ReactorInv'
  <1>0. e \in Entries /\ Listed' = Listed /\ TakenOff' = TakenOff /\ e \notin TakenOff /\ ent[e].fiber = f /\ ent[e].mutex
    BY WaitsApart DEF Listed, TakenOff, ReactorInv, ListsRight, FiberRight
  <1>1. /\ EntryIs(ent'[e], ent[e].fd, ent[e].due, f, ent[e].active, ent[e].mutex, 2)
        /\ ent' \in [Entries -> WaitEntries] /\ \A d \in Entries \ {e} : ent'[d] = ent[d]
    <2> DEFINE w == [ent[e] EXCEPT !.ps = 2]
    <2>1. EntryIs(w, ent[e].fd, ent[e].due, ent[e].fiber, ent[e].active, ent[e].mutex, 2)
      <3>1. \A r \in WaitEntries : EntryIs([r EXCEPT !.ps = 2], r.fd, r.due, r.fiber, r.active, r.mutex, 2)
        BY EntrySet
      <3> QED BY <1>0, <3>1, ReactorFields
    <2>2. ent' = [ent EXCEPT ![e] = w] /\ ent \in [Entries -> WaitEntries]
      BY <1>0 DEF ReactorInv, ReactorType
    <2> HIDE DEF w
    <2> QED BY <1>0, <2>1, <2>2 DEF EntryIs
  <1>2. /\ armed' \in [Fibers -> Entries \cup {None}] /\ armed'[f] = None /\ \A g \in Fibers \ {f} : armed'[g] = armed[g]
    BY DEF ReactorInv, ReactorType
  <1>3. ReactorType'
    BY <1>1, <1>2 DEF ReactorInv, ReactorType
  <1>4. ListsRight'
    BY <1>0 DEF ReactorInv, ListsRight
  <1>5. \A d \in Entries : /\ ent'[d].fiber = ent[d].fiber /\ ent'[d].mutex = ent[d].mutex /\ ent'[d].fd = ent[d].fd
                           /\ ent'[d].due = ent[d].due /\ ent'[d].active = ent[d].active /\ (d # e => ent'[d].ps = ent[d].ps)
    BY <1>0, <1>1 DEF EntryIs
  <1>6. \A d \in Listed \cup TakenOff : OfFiber(d)' /\ d \in Entries
    BY <1>5, WaitsApart DEF OfFiber
  <1>n. \A g \in Fibers : armed[g] = None => armed'[g] = None
    BY <1>2
  <1>7. ListedRight'
    <2>0. \A d \in Listed : ent[d].fiber \in Fibers
      BY WaitsApart DEF OfFiber
    <2>1. ASSUME NEW d \in Listed, d # e
          PROVE  /\ OfFiber(d)' /\ (ent'[d].active <=> ent'[d].ps = 1)
                 /\ ent'[d].mutex <=> fib'[ent'[d].fiber].kind = "mutex"
                 /\ ent'[d].mutex => ent'[d].fd = None
                 /\ ent'[d].ps = 2 => armed'[ent'[d].fiber] = None
      BY <1>n, <1>5, <1>6, <2>0, <2>1 DEF ReactorInv, ListedRight
    <2>2. ent'[e].ps = 2 /\ ~ent[e].active
      BY <1>1 DEF EntryIs, ReactorInv, ListedRight
    <2>3. /\ OfFiber(e)' /\ (ent'[e].active <=> ent'[e].ps = 1) /\ armed'[ent'[e].fiber] = None
          /\ ent'[e].mutex <=> fib'[ent'[e].fiber].kind = "mutex"
          /\ ent'[e].mutex => ent'[e].fd = None
      BY <1>0, <1>2, <1>5, <1>6, <2>2 DEF ReactorInv, ListedRight
    <2> QED BY <1>0, <2>1, <2>3 DEF ListedRight
  <1>8. TakenRight'
    <2>1. \A i \in DOMAIN todo : todo[i][1] \in TakenOff /\ ent[todo[i][1]].fiber \in Fibers
      BY WaitsApart DEF TakenOff, OfFiber
    <2> QED BY <1>0, <1>n, <1>5, <1>6, <2>1 DEF ReactorInv, TakenRight
  <1>9. FiberRight'
    <2>2. \A g \in Fibers : armed[g] # None => armed[g] \in Entries
      BY DEF ReactorInv, ReactorType
    <2> QED BY <1>0, <1>2, <1>5, <2>2, WaitsApart DEF ReactorInv, FiberRight
  <1>10. RoundRight'
    BY <1>0, <1>5, <1>6 DEF ReactorInv, RoundRight
  <1>11. PollRight'
    BY <1>0, <1>5, <1>6 DEF ReactorInv, PollRight
  <1> QED BY <1>3, <1>4, <1>7, <1>8, <1>9, <1>10, <1>11 DEF ReactorInv

\* nurl_fiber_wake after the switch away: the entry leaves the list and the fiber is
\* the waker's to unpark.
LEMMA WakeClaims ==
    ASSUME ReactorInv, NEW f \in Fibers, NEW e \in Listed, armed[f] = e, ent[e].ps # 0, waker = None, waker' = f,
           armed' = [armed EXCEPT ![f] = None],
           waits' = PR!Only(waits, Entries \ {e}), freelist' = <<e>> \o freelist,
           ent' = [ent EXCEPT ![e] = PR!Released(ent[e])],
           UNCHANGED <<clock, ready, fib, pipe, pokes, rpc, batch, till, got, todo, recycle, misfired, parks>>
    PROVE  ReactorInv'
  <1>1. /\ e \in Entries /\ waits' \in Seq(Entries) /\ freelist' \in Seq(Entries) /\ Listed' = Listed \ {e}
        /\ TakenOff' = TakenOff /\ ListsRight' /\ ent' \in [Entries -> WaitEntries] /\ e \notin TakenOff
        /\ \A d \in Entries \ {e} : ent'[d] = ent[d]
    BY LeavesList
  <1>2. /\ ent[e].fiber = f /\ ent[e].mutex /\ ent[e].fd = None /\ ent[e].active /\ fib[f].pc = "parked"
        /\ fib[f].kind = "mutex" /\ fib[f].e = e
    <2>1. ent[e].fiber = f /\ ent[e].mutex /\ e # None
      BY WaitsApart, <1>1 DEF ReactorInv, FiberRight
    <2>2. ent[e].ps \in {0, 1, 2}
      BY <1>1, ReactorFields
    <2>3. ent[e].ps = 1
      BY <2>1, <2>2 DEF ReactorInv, ListedRight
    <2> QED BY <2>1, <2>3 DEF ReactorInv, ListedRight, OfFiber
  <1>3. /\ armed' \in [Fibers -> Entries \cup {None}] /\ armed'[f] = None /\ \A g \in Fibers \ {f} : armed'[g] = armed[g]
    BY DEF ReactorInv, ReactorType
  <1>4. ReactorType'
    BY <1>1, <1>3 DEF ReactorInv, ReactorType
  <1>5. \A d \in Listed' \cup TakenOff : /\ d \in Entries \ {e} /\ ent'[d] = ent[d] /\ ent[d].fiber \in Fibers \ {f}
                                         /\ OfFiber(d)'
    BY <1>1, <1>2, WaitsApart DEF OfFiber
  <1>6. ListedRight'
    BY <1>1, <1>3, <1>5 DEF ReactorInv, ListedRight
  <1>7. TakenRight'
    BY <1>1, <1>3, <1>5 DEF ReactorInv, TakenRight, TakenOff
  <1>8. FiberRight'
    <2>1. ASSUME NEW g \in Fibers \ {f}
          PROVE  /\ fib'[g].pc \in {"reg", "parked"} /\ waker' # g =>
                      fib'[g].e \in Listed' \cup TakenOff' /\ ent'[fib'[g].e].fiber = g
                 /\ armed'[g] # None => armed'[g] \in Listed' /\ ent'[armed'[g]].fiber = g /\ ent'[armed'[g]].mutex
                 /\ waker' # g
      <3>1. fib[g].pc \in {"reg", "parked"} => fib[g].e # e /\ fib[g].e \in Listed \cup TakenOff /\ ent[fib[g].e].fiber = g
        BY <1>2, ReactorAssumption DEF ReactorInv, FiberRight
      <3>2. armed[g] # None => armed[g] # e /\ armed[g] \in Listed /\ ent[armed[g]].fiber = g /\ ent[armed[g]].mutex
        BY <1>2 DEF ReactorInv, FiberRight
      <3> QED BY <1>1, <1>3, <1>5, <3>1, <3>2
    <2> QED BY <1>2, <1>3, <2>1 DEF ReactorInv, FiberRight
  <1>9. RoundRight'
    BY <1>1, <1>2, <1>5 DEF ReactorInv, RoundRight
  <1>10. PollRight'
    BY <1>1, <1>5 DEF ReactorInv, PollRight
  <1> QED BY <1>1, <1>4, <1>6, <1>7, <1>8, <1>9, <1>10 DEF ReactorInv

\* nurl_fiber_wake up to its unlock.
LEMMA WakesKeeps == ASSUME ReactorInv, NEW f \in Fibers, PR!Wake(f) PROVE ReactorInv'
  <1>0. waker = None /\ UNCHANGED <<clock, ready, fib, pipe, pokes, rpc, batch, till, got, todo, recycle, misfired, parks>>
    BY DEF PR!Wake, PR!rvars
  <1>1. armed[f] \in Listed /\ armed' = [armed EXCEPT ![f] = None]
    BY DEF PR!Wake, ReactorInv, FiberRight
  <1>2. PICK e \in Listed : e = armed[f]
    BY <1>1
  <1>3. CASE ent[e].ps = 0
    <2>1. ent' = [ent EXCEPT ![e].ps = 2] /\ UNCHANGED <<waits, freelist, waker>>
      BY <1>2, <1>3, Zenon DEF PR!Wake
    <2> QED BY <1>0, <1>1, <1>2, <1>3, <2>1, WakeMarks
  <1>4. CASE ent[e].ps # 0
    <2>1. /\ waits' = PR!Only(waits, Entries \ {e}) /\ freelist' = <<e>> \o freelist
          /\ ent' = [ent EXCEPT ![e] = PR!Released(ent[e])] /\ waker' = f
      BY <1>2, <1>4, Zenon DEF PR!Wake
    <2> HIDE DEF PR!Released
    <2> QED BY <1>0, <1>1, <1>2, <1>4, <2>1, WakeClaims
  <1> QED BY <1>3, <1>4

\* A fiber made runnable with result r, whose entry has left every list.
LEMMA UnparkedIs ==
    ASSUME ReactorInv, NEW f \in Fibers, NEW r \in {0, 1}, PR!Unparked(f, r), fib[f].pc = "parked"
    PROVE  /\ fib' \in [Fibers -> Parkers] /\ \A g \in Fibers \ {f} : fib'[g] = fib[g]
           /\ fib'[f].pc = "runnable" /\ fib'[f].e = None /\ fib'[f].kind = fib[f].kind /\ fib'[f].fd = fib[f].fd
           /\ fib'[f].due = fib[f].due /\ fib'[f].seen = fib[f].seen /\ fib'[f].result = r /\ ~misfired'
  <1> DEFINE p == [fib[f] EXCEPT !.pc = "runnable", !.result = r, !.e = None]
  <1>1. ParkerIs(p, "runnable", None, fib[f].kind, fib[f].fd, fib[f].due, fib[f].seen, r)
    BY ParkerSet, ReactorFields
  <1>2. fib' = [fib EXCEPT ![f] = p] /\ fib \in [Fibers -> Parkers]
    BY DEF PR!Unparked, ReactorInv, ReactorType
  <1> HIDE DEF p
  <1>3. ~misfired'
    BY DEF PR!Unparked, ReactorInv, ReactorType
  <1>4. fib' \in [Fibers -> Parkers] /\ fib'[f] = p /\ \A g \in Fibers \ {f} : fib'[g] = fib[g]
    BY <1>1, <1>2 DEF ParkerIs
  <1> QED BY <1>1, <1>3, <1>4 DEF ParkerIs

\* nurl_fiber_wake unparks the fiber it has claimed.
LEMMA WakeEndsKeeps == ASSUME ReactorInv, PR!WakeEnds PROVE ReactorInv'
  <1>0. UNCHANGED <<clock, ready, armed, ent, waits, freelist, pipe, pokes, rpc, batch, till, got, todo, recycle, parks>>
        /\ waker' = None
    BY DEF PR!WakeEnds, PR!rvars
  <1>1. PICK f \in Fibers : f = waker
    BY DEF PR!WakeEnds, ReactorInv, ReactorType
  <1>2. fib[f].pc = "parked" /\ fib[f].kind = "mutex" /\ PR!Unparked(f, 1)
    BY <1>1 DEF ReactorInv, FiberRight, PR!WakeEnds
  <1>3. /\ fib' \in [Fibers -> Parkers] /\ \A g \in Fibers \ {f} : fib'[g] = fib[g]
        /\ fib'[f].pc = "runnable" /\ fib'[f].kind = fib[f].kind /\ fib'[f].fd = fib[f].fd
        /\ fib'[f].due = fib[f].due /\ fib'[f].seen = fib[f].seen /\ fib'[f].result = 1 /\ ~misfired'
    BY <1>2, UnparkedIs
  <1>4. ReactorType'
    BY <1>0, <1>3 DEF ReactorInv, ReactorType
  <1>5. Listed' = Listed /\ TakenOff' = TakenOff
    BY <1>0 DEF Listed, TakenOff
  <1>6. ListsRight'
    BY <1>0, <1>5 DEF ReactorInv, ListsRight
  <1>7. \A d \in Listed \cup TakenOff : ent[d].fiber \in Fibers \ {f} /\ fib'[ent[d].fiber] = fib[ent[d].fiber] /\ OfFiber(d)'
    BY <1>0, <1>1, <1>3, WaitsApart, ReactorAssumption DEF OfFiber
  <1>8. ListedRight'
    BY <1>0, <1>5, <1>7 DEF ReactorInv, ListedRight
  <1>9. TakenRight'
    BY <1>0, <1>7 DEF ReactorInv, TakenRight, TakenOff
  <1>10. FiberRight'
    <2>1. armed[f] = None
      BY <1>1, WaitsApart
    <2> QED BY <1>0, <1>1, <1>2, <1>3, <1>5, <2>1, ReactorAssumption DEF ReactorInv, FiberRight
  <1>11. RoundRight'
    BY <1>0, <1>5, <1>7 DEF ReactorInv, RoundRight
  <1>12. PollRight'
    BY <1>0, <1>5 DEF ReactorInv, PollRight
  <1> QED BY <1>4, <1>6, <1>8, <1>9, <1>10, <1>11, <1>12 DEF ReactorInv

-----------------------------------------------------------------------------
(* The reactor's round.                                                    *)

\* The active entries of the list.
LEMMA ActivesAre ==
    ASSUME ReactorInv
    PROVE  /\ PR!Actives \in Seq(Entries) /\ IsInjective(PR!Actives)
           /\ ToSet(PR!Actives) = {e \in Listed : ent[e].active} /\ PR!Range(PR!Actives) = {e \in Listed : ent[e].active}
  <1> DEFINE S == {e \in Entries : ent[e].active}
  <1>1. PR!Actives = PR!Only(waits, S)
    BY DEF PR!Actives
  <1>2. waits \in Seq(Entries) /\ IsInjective(waits)
    BY DEF ReactorInv, ReactorType, ListsRight
  <1>3. PR!Actives \in Seq(Entries) /\ IsInjective(PR!Actives) /\ ToSet(PR!Actives) = Listed \cap S
    BY <1>1, <1>2, OnlyKeeps DEF Listed
  <1>4. Listed \cap S = {e \in Listed : ent[e].active}
    BY WaitsApart
  <1>5. PR!Range(PR!Actives) = ToSet(PR!Actives)
    BY <1>3 DEF PR!Range, ToSet
  <1> QED BY <1>3, <1>4, <1>5

\* When the poll gives up: no later than the first deadline, or at once.
LEMMA TillCovers ==
    ASSUME NEW D, D \subseteq Nat, D # {}, clock \in Nat
    PROVE  /\ PR!Max({PR!Min(D), clock}) \in Nat
           /\ \A d \in D : PR!Max({PR!Min(D), clock}) <= d \/ PR!Max({PR!Min(D), clock}) <= clock
  <1>1. \E x \in D : \A y \in D : x <= y
    BY LeastOf
  <1>2. PR!Min(D) \in D /\ \A y \in D : PR!Min(D) <= y
    BY <1>1 DEF PR!Min
  <1> DEFINE m == PR!Min(D)
  <1> HIDE DEF m
  <1>3. m \in Nat /\ \A y \in D : m <= y
    BY <1>2 DEF m
  <1>4. \E x \in {m, clock} : \A y \in {m, clock} : x >= y
    <2>1. CASE m >= clock BY <1>3, <2>1
    <2>2. CASE clock >= m BY <1>3, <2>2
    <2> QED BY <1>3, <2>1, <2>2
  <1>5. PR!Max({m, clock}) \in {m, clock}
    BY <1>4 DEF PR!Max
  <1>6. PR!Max({m, clock}) = m \/ PR!Max({m, clock}) = clock
    BY <1>5
  <1>7. PR!Max({m, clock}) \in Nat /\ \A d \in D : PR!Max({m, clock}) <= d \/ PR!Max({m, clock}) <= clock
    BY <1>3, <1>6
  <1> QED BY <1>7 DEF m

\* The poll set and its timeout; only the indexes of entries change.
LEMMA BuildKeeps == ASSUME ReactorInv, PR!Build PROVE ReactorInv'
  <1>0. UNCHANGED <<clock, ready, fib, armed, waits, freelist, pipe, pokes, waker, got, todo, recycle, misfired, parks>>
        /\ rpc = "build"
    BY DEF PR!Build
  <1>1. Listed' = Listed /\ TakenOff' = TakenOff /\ todo = <<>> /\ recycle = <<>>
    BY <1>0 DEF Listed, TakenOff, ReactorInv, ListsRight
  <1> DEFINE A == {e \in Listed : ent[e].active}
             fds == PR!Only(PR!Actives, {e \in Entries : ent[e].fd # None})
             dues == {ent[e].due : e \in A} \ {-1}
  <1>2. fds \in Seq(Entries) /\ ToSet(fds) = {e \in A : ent[e].fd # None}
    <2>1. ToSet(fds) = ToSet(PR!Actives) \cap {e \in Entries : ent[e].fd # None} /\ fds \in Seq(Entries)
      BY ActivesAre, OnlyKeeps
    <2> QED BY <2>1, ActivesAre, WaitsApart
  <1>3. \/ /\ rpc' = "ended" /\ batch' = <<>> /\ till' = -1 /\ ent' = ent
        \/ /\ rpc' = "poll" /\ batch' = fds
           /\ till' = IF dues = {} THEN -1 ELSE PR!Max({PR!Min(dues), clock})
           /\ ent' = [e \in Entries |-> IF PR!Contains(fds, e)
                                        THEN [ent[e] EXCEPT !.pidx = CHOOSE i \in DOMAIN fds : fds[i] = e]
                                        ELSE ent[e]]
    <2>1. PR!Range(PR!Actives) = A
      BY ActivesAre
    <2> QED BY <2>1, Zenon DEF PR!Build
  <1> HIDE DEF fds
  <1>4. ASSUME NEW e \in Entries
        PROVE  /\ ent'[e] \in WaitEntries /\ ent'[e].fd = ent[e].fd /\ ent'[e].due = ent[e].due
               /\ ent'[e].fiber = ent[e].fiber /\ ent'[e].active = ent[e].active /\ ent'[e].mutex = ent[e].mutex
               /\ ent'[e].ps = ent[e].ps
    <2>1. CASE rpc' # "ended" /\ PR!Contains(fds, e)
      <3> DEFINE k == CHOOSE i \in DOMAIN fds : fds[i] = e
      <3>1. k \in Nat
        <4>1. \E i \in DOMAIN fds : fds[i] = e
          BY <1>2, <2>1 DEF PR!Contains
        <4>2. k \in DOMAIN fds
          BY <4>1
        <4> QED BY <1>2, <4>2
      <3>2. ent'[e] = [ent[e] EXCEPT !.pidx = k]
        BY <1>3, <2>1
      <3> HIDE DEF k
      <3>3. EntryIs(ent'[e], ent[e].fd, ent[e].due, ent[e].fiber, ent[e].active, ent[e].mutex, ent[e].ps)
        <4>1. \A r \in WaitEntries, n \in Nat :
                EntryIs([r EXCEPT !.pidx = n], r.fd, r.due, r.fiber, r.active, r.mutex, r.ps)
          BY EntrySet
        <4>2. ent[e] \in WaitEntries
          BY ReactorFields
        <4> QED BY <3>1, <3>2, <4>1, <4>2, Zenon
      <3> QED BY <3>3 DEF EntryIs
    <2>2. CASE ~(rpc' # "ended" /\ PR!Contains(fds, e))
      <3>1. ent'[e] = ent[e]
        BY <1>3, <2>2
      <3> QED BY <3>1, ReactorFields
    <2> QED BY <2>1, <2>2
  <1>5. till' \in Int /\ (rpc' = "poll" => \A e \in A : ent[e].due >= 0 => till' >= 0 /\ (till' <= ent[e].due \/ till' <= clock))
    <2>1. dues \subseteq Nat /\ clock \in Nat /\ \A e \in A : ent[e].due >= 0 => ent[e].due \in dues
      BY ReactorFields, WaitsApart
    <2> HIDE DEF dues
    <2>2. CASE dues = {}
      BY <1>3, <2>1, <2>2
    <2>3. CASE dues # {}
      <3> DEFINE m == PR!Max({PR!Min(dues), clock})
      <3>1. m \in Nat /\ \A d \in dues : m <= d \/ m <= clock
        BY <2>1, <2>3, TillCovers
      <3>2. till' = -1 \/ till' = m
        BY <1>3, <2>3
      <3>3. rpc' = "poll" => till' = m
        BY <1>3, <2>3
      <3> HIDE DEF m
      <3>4. till' \in Int
        BY <3>1, <3>2
      <3>5. ASSUME rpc' = "poll", NEW e \in A, ent[e].due >= 0
            PROVE  till' >= 0 /\ (till' <= ent[e].due \/ till' <= clock)
        <4>1. ent[e].due \in dues /\ till' = m
          BY <2>1, <3>3, <3>5
        <4> QED BY <3>1, <4>1
      <3> QED BY <3>4, <3>5
    <2> QED BY <2>2, <2>3
  <1>6. rpc' \in {"poll", "ended"} /\ batch' \in Seq(Entries) /\ ent' \in [Entries -> WaitEntries]
    <2>1. rpc' \in {"poll", "ended"} /\ batch' \in Seq(Entries)
      <3>1. <<>> \in Seq(Entries)
        OBVIOUS
      <3>2. (rpc' = "ended" /\ batch' = <<>>) \/ (rpc' = "poll" /\ batch' = fds)
        BY <1>3
      <3> QED BY <1>2, <3>1, <3>2
    <2>2. ent' \in [Entries -> WaitEntries]
      <3>1. CASE ent' = ent
        BY <3>1 DEF ReactorInv, ReactorType
      <3>2. CASE ent' # ent
        <4>1. DOMAIN ent' = Entries /\ ent' = [e \in Entries |-> ent'[e]]
          BY <1>3, <3>2
        <4> QED BY <1>4, <4>1
      <3> QED BY <3>1, <3>2
    <2> QED BY <2>1, <2>2
  <1>7. ReactorType'
    BY <1>0, <1>5, <1>6 DEF ReactorInv, ReactorType
  <1>8. ListsRight'
    BY <1>0, <1>1 DEF ReactorInv, ListsRight
  <1>9. \A d \in Listed : OfFiber(d)' /\ d \in Entries
    BY <1>0, <1>4, WaitsApart DEF OfFiber
  <1>10. ListedRight'
    BY <1>0, <1>1, <1>4, <1>9 DEF ReactorInv, ListedRight
  <1>11. TakenRight'
    BY <1>0, <1>1 DEF TakenRight
  <1>12. FiberRight'
    <2>1. TakenOff = {}
      BY <1>1 DEF TakenOff
    <2> QED BY <1>0, <1>1, <1>4, <1>9, <2>1 DEF ReactorInv, FiberRight
  <1>13. RoundRight'
    <2>1. rpc' = "poll" => \A i \in DOMAIN batch' : batch'[i] \in {e \in A : ent[e].fd # None}
      BY <1>2, <1>3 DEF ToSet
    <2> QED BY <1>1, <1>4, <1>6, <1>9, <2>1 DEF RoundRight
  <1>14. PollRight'
    <2>1. rpc' = "poll" => ToSet(batch') = {e \in A : ent[e].fd # None}
      BY <1>2, <1>3
    <2> QED BY <1>0, <1>1, <1>4, <1>5, <1>9, <2>1 DEF PollRight
  <1> QED BY <1>7, <1>8, <1>10, <1>11, <1>12, <1>13, <1>14 DEF ReactorInv

\* q is the queue of fibers to unpark: the entries of s in reverse, each with its result.
QueueOf(q, s, H) ==
    /\ q = PR!Reverse([i \in DOMAIN s |-> <<s[i], IF s[i] \in H THEN 1 ELSE 0>>])
    /\ {q[i][1] : i \in DOMAIN q} = ToSet(s)
    /\ \A i \in DOMAIN q : q[i][2] = IF q[i][1] \in H THEN 1 ELSE 0
    /\ \A i, j \in DOMAIN q : q[i][1] = q[j][1] => i = j

\* The walk makes such a queue of the entries it takes off.
LEMMA QueueToUnpark ==
    ASSUME NEW s \in Seq(Entries), IsInjective(s), NEW H
    PROVE  \E q \in Seq(Entries \X {0, 1}) : QueueOf(q, s, H)
  <1> DEFINE t == [i \in DOMAIN s |-> <<s[i], IF s[i] \in H THEN 1 ELSE 0>>]
             q == PR!Reverse(t)
  <1>0. Len(s) \in Nat /\ DOMAIN s = 1 .. Len(s)
    OBVIOUS
  <1>1. /\ t \in Seq(Entries \X {0, 1}) /\ Len(t) = Len(s)
        /\ \A i \in 1 .. Len(s) : t[i][1] = s[i] /\ t[i][2] = IF s[i] \in H THEN 1 ELSE 0
    OBVIOUS
  <1> HIDE DEF t
  <1>2. /\ q \in Seq(Entries \X {0, 1}) /\ DOMAIN q = 1 .. Len(s)
        /\ \A i \in 1 .. Len(s) : (Len(s) - i) + 1 \in 1 .. Len(s) /\ q[i] = t[(Len(s) - i) + 1]
    <2>1. q = [i \in 1 .. Len(s) |-> t[(Len(s) - i) + 1]]
      BY <1>1 DEF PR!Reverse
    <2> HIDE DEF q
    <2>2. \A i \in 1 .. Len(s) : (Len(s) - i) + 1 \in 1 .. Len(s)
      BY <1>0
    <2>3. \A i \in 1 .. Len(s) : t[i] \in Entries \X {0, 1}
      BY <1>1
    <2> QED BY <1>0, <2>1, <2>2, <2>3
  <1> HIDE DEF q
  <1>3. \A i \in 1 .. Len(s) : q[i][1] = s[(Len(s) - i) + 1] /\ q[i][2] = IF q[i][1] \in H THEN 1 ELSE 0
    <2> SUFFICES ASSUME NEW i \in 1 .. Len(s)
                 PROVE  q[i][1] = s[(Len(s) - i) + 1] /\ q[i][2] = IF q[i][1] \in H THEN 1 ELSE 0
      OBVIOUS
    <2>1. PICK k \in 1 .. Len(s) : k = (Len(s) - i) + 1 /\ q[i] = t[k]
      BY <1>2
    <2>2. t[k][1] = s[k] /\ t[k][2] = IF s[k] \in H THEN 1 ELSE 0
      BY <1>1
    <2>3. q[i][1] = s[k] /\ q[i][2] = IF q[i][1] \in H THEN 1 ELSE 0
      BY <2>1, <2>2, Zenon
    <2> QED BY <2>1, <2>3, Zenon
  <1>4. \A i, j \in DOMAIN q : q[i][1] = q[j][1] => i = j
    <2> SUFFICES ASSUME NEW i \in 1 .. Len(s), NEW j \in 1 .. Len(s), q[i][1] = q[j][1] PROVE i = j
      BY <1>2
    <2>1. PICK k \in DOMAIN s : k = (Len(s) - i) + 1 /\ q[i][1] = s[k]
      BY <1>0, <1>2, <1>3
    <2>2. PICK l \in DOMAIN s : l = (Len(s) - j) + 1 /\ q[j][1] = s[l]
      BY <1>0, <1>2, <1>3
    <2>3. k = l
      BY <2>1, <2>2 DEF IsInjective
    <2> QED BY <1>0, <2>1, <2>2, <2>3
  <1>5. {q[i][1] : i \in DOMAIN q} = ToSet(s)
    <2>1. \A i \in DOMAIN q : q[i][1] \in ToSet(s)
      BY <1>0, <1>2, <1>3 DEF ToSet
    <2>2. ASSUME NEW j \in 1 .. Len(s) PROVE \E i \in DOMAIN q : q[i][1] = s[j]
      <3>1. (Len(s) - j) + 1 \in 1 .. Len(s) /\ (Len(s) - ((Len(s) - j) + 1)) + 1 = j
        BY <1>0
      <3>2. q[(Len(s) - j) + 1][1] = s[j]
        BY <1>3, <3>1
      <3> QED BY <1>2, <3>1, <3>2
    <2> QED BY <1>0, <2>1, <2>2 DEF ToSet
  <1>6. \A i \in DOMAIN q : q[i][2] = IF q[i][1] \in H THEN 1 ELSE 0
    BY <1>2, <1>3
  <1>7. q = PR!Reverse([i \in DOMAIN s |-> <<s[i], IF s[i] \in H THEN 1 ELSE 0>>])
    BY DEF q, t
  <1>8. QueueOf(q, s, H)
    BY <1>4, <1>5, <1>6, <1>7, Zenon DEF QueueOf
  <1> QED BY <1>2, <1>8

\* The walk over the list: the waits that have ended are taken off it, and a deadline claims its
\* timed mutex park.
LEMMA WalkKeeps == ASSUME ReactorInv, PR!Walk PROVE ReactorInv'
  <1> DEFINE A == {e \in Listed : ent[e].active}
             W == {e \in A : PR!Hit(e) \/ PR!Expired(e)}
             H == {e \in Entries : PR!Hit(e)}
             out == PR!Only(waits, W)
  <1>0. /\ rpc = "walk" /\ rpc' = "unpark"
        /\ UNCHANGED <<clock, ready, fib, ent, freelist, pipe, pokes, waker, batch, till, got, recycle, misfired, parks>>
    BY DEF PR!Walk
  <1>1. /\ waits' = PR!Only(waits, Entries \ W) /\ armed' = PR!ClaimedTimed(W)
        /\ todo' = PR!Reverse([i \in DOMAIN out |-> <<out[i], IF PR!Hit(out[i]) THEN 1 ELSE 0>>])
    <2>1. PR!Range(PR!Actives) = A
      BY ActivesAre
    <2> QED BY <2>1, Zenon DEF PR!Walk
  <1>2. waits \in Seq(Entries) /\ IsInjective(waits) /\ W \subseteq Listed /\ Listed \subseteq Entries
    BY WaitsApart DEF ReactorInv, ReactorType, ListsRight
  <1>3. /\ waits' \in Seq(Entries) /\ IsInjective(waits') /\ Listed' = Listed \ W
        /\ out \in Seq(Entries) /\ IsInjective(out) /\ ToSet(out) = W
    <2>1. /\ waits' \in Seq(Entries) /\ IsInjective(waits') /\ ToSet(waits') = ToSet(waits) \cap (Entries \ W)
          /\ out \in Seq(Entries) /\ IsInjective(out) /\ ToSet(out) = ToSet(waits) \cap W
      BY <1>1, <1>2, OnlyKeeps
    <2> HIDE DEF W, out
    <2> QED BY <1>2, <2>1 DEF Listed
  <1>4. /\ todo' \in Seq(Entries \X {0, 1}) /\ TakenOff' = W
        /\ \A i \in DOMAIN todo' : todo'[i][2] = IF PR!Hit(todo'[i][1]) THEN 1 ELSE 0
        /\ \A i, j \in DOMAIN todo' : todo'[i][1] = todo'[j][1] => i = j
    <2>1. \A i \in DOMAIN out : PR!Hit(out[i]) <=> out[i] \in H
      BY <1>3
    <2>2. todo' = PR!Reverse([i \in DOMAIN out |-> <<out[i], IF out[i] \in H THEN 1 ELSE 0>>])
      <3> HIDE DEF W, H, out
      <3>1. [i \in DOMAIN out |-> <<out[i], IF out[i] \in H THEN 1 ELSE 0>>]
              = [i \in DOMAIN out |-> <<out[i], IF PR!Hit(out[i]) THEN 1 ELSE 0>>]
        BY <2>1
      <3> QED BY <1>1, <3>1, Zenon
    <2> HIDE DEF W, H, out
    <2>3. PICK q \in Seq(Entries \X {0, 1}) : QueueOf(q, out, H)
      BY <1>3, QueueToUnpark
    <2>4. todo' = q
      BY <2>2, <2>3, Zenon DEF QueueOf
    <2>5. \A i \in DOMAIN q : q[i][1] \in Entries
      OBVIOUS
    <2>6. \A i \in DOMAIN q : q[i][2] = IF PR!Hit(q[i][1]) THEN 1 ELSE 0
      BY <2>3, <2>5 DEF H, QueueOf
    <2>7. TakenOff' = {q[i][1] : i \in DOMAIN q}
      BY <2>4 DEF TakenOff
    <2> QED BY <1>3, <2>3, <2>4, <2>6, <2>7, Zenon DEF QueueOf
  <1>5. \A e \in W : /\ e \in Listed /\ ent[e].active /\ OfFiber(e) /\ ent[e].fiber \in Fibers
                     /\ PR!Hit(e) => fib[ent[e].fiber].seen /\ ~ent[e].mutex
                     /\ ~PR!Hit(e) => ent[e].due >= 0 /\ clock >= ent[e].due
    <2> SUFFICES ASSUME NEW e \in W
                 PROVE  /\ e \in Listed /\ ent[e].active /\ OfFiber(e) /\ ent[e].fiber \in Fibers
                        /\ PR!Hit(e) => fib[ent[e].fiber].seen /\ ~ent[e].mutex
                        /\ ~PR!Hit(e) => ent[e].due >= 0 /\ clock >= ent[e].due
      BY Zenon
    <2>1. e \in Listed /\ ent[e].active /\ OfFiber(e) /\ ent[e].fiber \in Fibers
      BY WaitsApart DEF OfFiber
    <2>2. ASSUME PR!Hit(e) PROVE fib[ent[e].fiber].seen /\ ~ent[e].mutex
      <3>1. PICK i \in got.fds : batch[i] = e /\ i \in DOMAIN batch
        BY <1>0, <2>2 DEF PR!Hit, ReactorInv, RoundRight
      <3>2. fib[ent[e].fiber].seen /\ ent[e].fd # None
        BY <1>0, <3>1 DEF ReactorInv, RoundRight
      <3> QED BY <2>1, <3>2 DEF ReactorInv, ListedRight
    <2>3. ASSUME ~PR!Hit(e) PROVE ent[e].due >= 0 /\ clock >= ent[e].due
      BY <2>3 DEF PR!Expired
    <2> QED BY <2>1, <2>2, <2>3
  <1> HIDE DEF W, H, out
  <1>6. /\ armed' \in [Fibers -> Entries \cup {None}] /\ \A f \in Fibers : armed'[f] \in {armed[f], None}
        /\ \A e \in W : armed'[ent[e].fiber] = None
    <2>1. armed \in [Fibers -> Entries \cup {None}]
      BY DEF ReactorInv, ReactorType
    <2>2. \A f \in Fibers : armed'[f] = IF \E e \in W : ent[e].mutex /\ ent[e].fiber = f /\ ~PR!Hit(e) THEN None ELSE armed[f]
      BY <1>1 DEF PR!ClaimedTimed
    <2>3. DOMAIN armed' = Fibers /\ armed' = [f \in Fibers |-> armed'[f]]
      BY <1>1 DEF PR!ClaimedTimed
    <2>4. \A f \in Fibers : armed'[f] \in {armed[f], None}
      BY <2>2
    <2>5. ASSUME NEW e \in W PROVE armed'[ent[e].fiber] = None
      <3>1. CASE ent[e].mutex
        BY <1>5, <2>2, <3>1
      <3>2. CASE ~ent[e].mutex
        <4>1. armed[ent[e].fiber] # None => armed[ent[e].fiber] = e
          BY <1>5, WaitsApart DEF OfFiber
        <4>2. armed[ent[e].fiber] = None
          BY <1>5, <3>2, <4>1 DEF ReactorInv, FiberRight
        <4> QED BY <1>5, <2>4, <4>2
      <3> QED BY <3>1, <3>2
    <2> QED BY <2>1, <2>3, <2>4, <2>5
  <1>7. ReactorType'
    BY <1>0, <1>3, <1>4, <1>6 DEF ReactorInv, ReactorType
  <1>8. ListsRight'
    BY <1>0, <1>2, <1>3, <1>4 DEF ReactorInv, ListsRight
  <1>9. \A e \in Listed : OfFiber(e) /\ OfFiber(e)'
    BY <1>0, WaitsApart DEF OfFiber
  <1>10. ListedRight'
    BY <1>0, <1>3, <1>6, <1>9 DEF ReactorInv, ListedRight, OfFiber
  <1>11. TakenRight'
    <2> SUFFICES ASSUME NEW i \in DOMAIN todo', NEW e \in W, e = todo'[i][1]
                 PROVE  /\ OfFiber(e)' /\ ent[e].active /\ armed'[ent[e].fiber] = None
                        /\ todo'[i][2] = 1 /\ fib[ent[e].fiber].kind = "fd" => fib[ent[e].fiber].seen
                        /\ todo'[i][2] = 0 => fib[ent[e].fiber].due >= 0 /\ clock >= fib[ent[e].fiber].due
      <3>1. \A i \in DOMAIN todo' : todo'[i][1] \in W
        BY <1>4 DEF TakenOff
      <3> QED BY <1>0, <3>1 DEF TakenRight
    <2>1. todo'[i][2] = IF PR!Hit(e) THEN 1 ELSE 0
      BY <1>4
    <2>2. fib[ent[e].fiber].due = ent[e].due
      BY <1>5 DEF OfFiber
    <2>3. CASE PR!Hit(e)
      BY <1>5, <1>6, <1>9, <2>1, <2>3
    <2>4. CASE ~PR!Hit(e)
      BY <1>5, <1>6, <1>9, <2>1, <2>2, <2>4
    <2> QED BY <2>3, <2>4
  <1>12. FiberRight'
    <2>1. TakenOff = {}
      BY <1>0 DEF ReactorInv, ListsRight, TakenOff
    <2>2. ASSUME NEW f \in Fibers, armed'[f] # None PROVE armed'[f] \in Listed' /\ ent[armed'[f]].fiber = f /\ ent[armed'[f]].mutex
      <3>1. armed'[f] = armed[f] /\ armed[f] \in Listed /\ ent[armed[f]].fiber = f /\ ent[armed[f]].mutex
        BY <1>6, <2>2 DEF ReactorInv, FiberRight
      <3> QED BY <1>3, <1>6, <2>2, <3>1
    <2>3. Listed' \cup TakenOff' = Listed
      BY <1>2, <1>3, <1>4
    <2> QED BY <1>0, <2>1, <2>2, <2>3 DEF ReactorInv, FiberRight
  <1>13. RoundRight' /\ PollRight'
    BY <1>0 DEF RoundRight, PollRight
  <1> QED BY <1>7, <1>8, <1>10, <1>11, <1>12, <1>13 DEF ReactorInv

\* One fiber of the queue is unparked, and its entry kept for the free list.
LEMMA UnparkOneKeeps == ASSUME ReactorInv, PR!UnparkOne PROVE ReactorInv'
  <1>0. /\ rpc = "unpark" /\ todo # <<>> /\ todo' = Tail(todo)
        /\ UNCHANGED <<clock, ready, armed, waits, freelist, pipe, pokes, waker, rpc, batch, till, got, parks>>
    BY DEF PR!UnparkOne
  <1>1. /\ todo \in Seq(Entries \X {0, 1}) /\ recycle \in Seq(Entries) /\ IsInjective(recycle)
        /\ ent \in [Entries -> WaitEntries]
    BY DEF ReactorInv, ReactorType, ListsRight
  <1>2. 1 \in DOMAIN todo /\ todo[1] \in Entries \X {0, 1}
    BY <1>0, <1>1
  <1>3. PICK e \in Entries : e = todo[1][1]
    BY <1>2
  <1>4. PICK r \in {0, 1} : r = todo[1][2]
    BY <1>2
  <1>5. /\ OfFiber(e) /\ ent[e].active /\ armed[ent[e].fiber] = None
        /\ r = 1 /\ fib[ent[e].fiber].kind = "fd" => fib[ent[e].fiber].seen
        /\ r = 0 => fib[ent[e].fiber].due >= 0 /\ clock >= fib[ent[e].fiber].due
    BY <1>2, <1>3, <1>4 DEF ReactorInv, TakenRight
  <1>6. PICK f \in Fibers : f = ent[e].fiber
    BY <1>5 DEF OfFiber
  <1>7. /\ fib[f].pc = "parked" /\ fib[f].e = e /\ waker # f /\ armed[f] = None
        /\ r = 1 /\ fib[f].kind = "fd" => fib[f].seen
        /\ r = 0 => fib[f].due >= 0 /\ clock >= fib[f].due
    BY <1>5, <1>6 DEF OfFiber
  <1>8. /\ recycle' = <<e>> \o recycle /\ ent' = [ent EXCEPT ![e] = PR!Released(ent[e])] /\ PR!Unparked(f, r)
    <2>1. f # None
      BY ReactorAssumption
    <2> QED BY <1>3, <1>4, <1>6, <2>1, Zenon DEF PR!UnparkOne
  <1>9. /\ fib' \in [Fibers -> Parkers] /\ \A g \in Fibers \ {f} : fib'[g] = fib[g]
        /\ fib'[f].pc = "runnable" /\ fib'[f].e = None /\ fib'[f].kind = fib[f].kind /\ fib'[f].fd = fib[f].fd
        /\ fib'[f].due = fib[f].due /\ fib'[f].seen = fib[f].seen /\ fib'[f].result = r /\ ~misfired'
    BY <1>7, <1>8, UnparkedIs
  <1>10. /\ todo' \in Seq(Entries \X {0, 1}) /\ Len(todo) \in Nat \ {0} /\ DOMAIN todo = 1 .. Len(todo)
         /\ DOMAIN todo' = 1 .. Len(todo) - 1 /\ \A i \in DOMAIN todo' : i + 1 \in DOMAIN todo /\ todo'[i] = todo[i + 1]
    <2>1. Len(todo) \in Nat \ {0} /\ DOMAIN todo = 1 .. Len(todo)
      BY <1>0, <1>1
    <2>2. Tail(todo) \in Seq(Entries \X {0, 1}) /\ Len(Tail(todo)) = Len(todo) - 1
      BY <1>0, <1>1
    <2>3. \A i \in 1 .. Len(todo) - 1 : i + 1 \in 1 .. Len(todo) /\ Tail(todo)[i] = todo[i + 1]
      BY <1>0, <1>1, <2>1
    <2> QED BY <1>0, <2>1, <2>2, <2>3
  <1>11. /\ TakenOff' = TakenOff \ {e} /\ e \in TakenOff
         /\ \A i, j \in DOMAIN todo' : todo'[i][1] = todo'[j][1] => i = j
    <2>1. \A i, j \in DOMAIN todo : todo[i][1] = todo[j][1] => i = j
      BY DEF ReactorInv, ListsRight
    <2>2. \A i, j \in DOMAIN todo' : todo'[i][1] = todo'[j][1] => i = j
      <3> SUFFICES ASSUME NEW i \in DOMAIN todo', NEW j \in DOMAIN todo', todo'[i][1] = todo'[j][1] PROVE i = j
        OBVIOUS
      <3>1. i + 1 = j + 1
        BY <1>10, <2>1
      <3> QED BY <1>10, <3>1
    <2>3. \A i \in DOMAIN todo' : todo'[i][1] \in TakenOff \ {e}
      <3> SUFFICES ASSUME NEW i \in DOMAIN todo' PROVE todo'[i][1] \in TakenOff \ {e}
        OBVIOUS
      <3>1. i + 1 \in DOMAIN todo /\ i + 1 # 1 /\ todo'[i][1] = todo[i + 1][1]
        BY <1>10
      <3> QED BY <1>2, <1>3, <2>1, <3>1 DEF TakenOff
    <2>4. ASSUME NEW k \in DOMAIN todo, todo[k][1] # e PROVE \E i \in DOMAIN todo' : todo'[i][1] = todo[k][1]
      <3>1. k # 1
        BY <1>3, <2>4
      <3>2. k - 1 \in DOMAIN todo' /\ (k - 1) + 1 = k
        BY <1>10, <3>1
      <3> QED BY <1>10, <3>2
    <2>5. e \in TakenOff
      BY <1>2, <1>3 DEF TakenOff
    <2>6. TakenOff' = {todo'[i][1] : i \in DOMAIN todo'}
      BY DEF TakenOff
    <2> QED BY <2>2, <2>3, <2>4, <2>5, <2>6 DEF TakenOff
  <1>12. e \notin Listed /\ e \notin ToSet(freelist) /\ e \notin ToSet(recycle)
    BY <1>11 DEF ReactorInv, ListsRight
  <1>13. recycle' \in Seq(Entries) /\ IsInjective(recycle') /\ ToSet(recycle') = {e} \cup ToSet(recycle)
    BY <1>1, <1>8, <1>12, ListPrepend
  <1>14. ent' \in [Entries -> WaitEntries] /\ \A d \in Entries \ {e} : ent'[d] = ent[d]
    <2>1. PR!Released(ent[e]) \in WaitEntries
      <3>1. \A w \in WaitEntries : EntryIs(PR!Released(w), None, -1, None, FALSE, FALSE, 0)
        BY EntrySet
      <3> QED BY <1>1, <3>1 DEF EntryIs
    <2> HIDE DEF PR!Released
    <2> QED BY <1>1, <1>8, <2>1
  <1>15. ReactorType'
    BY <1>0, <1>9, <1>10, <1>13, <1>14 DEF ReactorInv, ReactorType
  <1>16. Listed' = Listed
    BY <1>0 DEF Listed
  <1>17. ListsRight'
    BY <1>0, <1>11, <1>12, <1>13, <1>16 DEF ReactorInv, ListsRight
  <1>18. \A d \in Listed \cup TakenOff' : /\ d \in Entries \ {e} /\ ent'[d] = ent[d] /\ ent[d].fiber \in Fibers \ {f}
                                          /\ fib'[ent[d].fiber] = fib[ent[d].fiber] /\ OfFiber(d)'
    BY <1>0, <1>7, <1>9, <1>11, <1>12, <1>14, WaitsApart DEF OfFiber
  <1>19. ListedRight'
    BY <1>0, <1>16, <1>18 DEF ReactorInv, ListedRight
  <1>20. TakenRight'
    <2> SUFFICES ASSUME NEW i \in DOMAIN todo', NEW d \in TakenOff', d = todo'[i][1]
                 PROVE  /\ OfFiber(d)' /\ ent'[d].active /\ armed'[ent'[d].fiber] = None
                        /\ todo'[i][2] = 1 /\ fib'[ent'[d].fiber].kind = "fd" => fib'[ent'[d].fiber].seen
                        /\ todo'[i][2] = 0 => fib'[ent'[d].fiber].due >= 0 /\ clock' >= fib'[ent'[d].fiber].due
      BY DEF TakenRight, TakenOff
    <2>1. PICK k \in DOMAIN todo : todo'[i] = todo[k]
      BY <1>10
    <2>2. /\ ent[d].active /\ armed[ent[d].fiber] = None
          /\ todo[k][2] = 1 /\ fib[ent[d].fiber].kind = "fd" => fib[ent[d].fiber].seen
          /\ todo[k][2] = 0 => fib[ent[d].fiber].due >= 0 /\ clock >= fib[ent[d].fiber].due
      BY <2>1 DEF ReactorInv, TakenRight
    <2>3. ent'[d] = ent[d] /\ fib'[ent[d].fiber] = fib[ent[d].fiber] /\ OfFiber(d)'
      BY <1>18, Zenon
    <2>4. todo'[i][2] = todo[k][2] /\ armed' = armed /\ clock' = clock
      BY <1>0, <2>1
    <2> QED BY <2>2, <2>3, <2>4, Zenon
  <1>21. FiberRight'
    <2>1. ASSUME NEW g \in Fibers \ {f}
          PROVE  /\ fib'[g].pc \in {"reg", "parked"} /\ waker' # g =>
                      fib'[g].e \in Listed' \cup TakenOff' /\ ent'[fib'[g].e].fiber = g
                 /\ armed'[g] # None => armed'[g] \in Listed' /\ ent'[armed'[g]].fiber = g /\ ent'[armed'[g]].mutex
      <3>1. fib[g].pc \in {"reg", "parked"} /\ waker # g =>
              fib[g].e # e /\ fib[g].e \in Listed \cup TakenOff /\ ent[fib[g].e].fiber = g
        BY <1>6 DEF ReactorInv, FiberRight
      <3>2. armed[g] # None => armed[g] \in Listed /\ ent[armed[g]].fiber = g /\ ent[armed[g]].mutex
        BY DEF ReactorInv, FiberRight
      <3> QED BY <1>0, <1>9, <1>11, <1>16, <1>18, <3>1, <3>2
    <2> QED BY <1>0, <1>7, <1>9, <2>1 DEF ReactorInv, FiberRight
  <1>22. RoundRight' /\ PollRight'
    BY <1>0 DEF RoundRight, PollRight
  <1> QED BY <1>15, <1>17, <1>19, <1>20, <1>21, <1>22 DEF ReactorInv

\* The entries of the round go to the free list.
LEMMA RecycleKeeps == ASSUME ReactorInv, PR!Recycle PROVE ReactorInv'
  <1>0. /\ rpc = "unpark" /\ todo = <<>> /\ rpc' = "build" /\ freelist' = recycle \o freelist /\ recycle' = <<>>
        /\ batch' = <<>> /\ till' = -1
        /\ UNCHANGED <<clock, ready, fib, armed, ent, waits, pipe, pokes, waker, todo, misfired, parks>>
    BY DEF PR!Recycle
  <1>1. freelist' \in Seq(Entries) /\ IsInjective(freelist') /\ ToSet(freelist') = ToSet(recycle) \cup ToSet(freelist)
    <2>1. /\ recycle \in Seq(Entries) /\ freelist \in Seq(Entries) /\ IsInjective(recycle) /\ IsInjective(freelist)
          /\ ToSet(recycle) \cap ToSet(freelist) = {}
      BY DEF ReactorInv, ReactorType, ListsRight
    <2> QED BY <1>0, <2>1, ListsJoin
  <1>2. recycle' \in Seq(Entries) /\ IsInjective(recycle') /\ ToSet(recycle') = {} /\ Listed' = Listed /\ TakenOff' = TakenOff
    BY <1>0 DEF IsInjective, ToSet, Listed, TakenOff
  <1>3. ReactorType'
    BY <1>0, <1>1, <1>2 DEF ReactorInv, ReactorType
  <1>4. ListsRight'
    BY <1>0, <1>1, <1>2 DEF ReactorInv, ListsRight
  <1>5. ListedRight' /\ TakenRight'
    BY <1>0, <1>2 DEF ReactorInv, ListedRight, TakenRight, OfFiber
  <1>6. FiberRight'
    BY <1>0, <1>2 DEF ReactorInv, FiberRight
  <1>7. RoundRight' /\ PollRight'
    BY <1>0 DEF RoundRight, PollRight
  <1> QED BY <1>3, <1>4, <1>5, <1>6, <1>7 DEF ReactorInv

-----------------------------------------------------------------------------
(* What follows from it.                                                   *)

\* A wait on a descriptor, a sleep and a timed mutex park.
LEMMA ParksKeep == ASSUME ReactorInv, NEW f \in Fibers, PR!WaitFd(f) \/ PR!SleepMs(f) \/ PR!ParkMutex(f) PROVE ReactorInv'
  <1>1. CASE PR!WaitFd(f)
    <2>1. PICK fd \in PollFds, t \in PollTimeouts : PR!Register(f, "fd", fd, t)
      BY <1>1, Zenon DEF PR!WaitFd
    <2> QED BY <2>1, RegisterKeeps
  <1>2. CASE PR!SleepMs(f)
    <2>1. PICK t \in PollTimeouts : PR!Register(f, "sleep", None, t)
      BY <1>2, Zenon DEF PR!SleepMs
    <2> QED BY <2>1, RegisterKeeps
  <1>3. CASE PR!ParkMutex(f)
    <2>1. PICK t \in PollTimeouts : PR!Register(f, "mutex", None, t)
      BY <1>3, Zenon DEF PR!ParkMutex
    <2> QED BY <2>1, RegisterKeeps
  <1> QED BY <1>1, <1>2, <1>3

\* Every step of the workers, the wakers and the reactor's thread keeps the invariant.
LEMMA ReactorStep == ASSUME ReactorInv, PR!Next PROVE ReactorInv'
  <1>1. ASSUME NEW f \in Fibers,
               PR!WaitFd(f) \/ PR!SleepMs(f) \/ PR!ParkMutex(f) \/ PR!Activate(f) \/ PR!Resume(f) \/ PR!Wake(f)
        PROVE  ReactorInv'
    BY <1>1, ParksKeep, ActivateKeeps, ResumesKeeps, WakesKeeps
  <1>2. ASSUME NEW fd \in PollFds, PR!Arrive(fd) PROVE ReactorInv'
    BY <1>2, ArriveKeeps
  <1>3. CASE PR!Reactor
    BY <1>3, BuildKeeps, PollKeeps, WalkKeeps, UnparkOneKeeps, RecycleKeeps DEF PR!Reactor
  <1> QED BY <1>1, <1>2, <1>3, PokeKeeps, WakeEndsKeeps DEF PR!Next

\* The waits answer truly, a fiber is woken once, and the poll covers who sleeps.
LEMMA ReactorSound == ASSUME ReactorInv PROVE PR!ResultIsTrue /\ PR!WokenOnce /\ PR!ActiveIsCovered
  <1>1. PR!ResultIsTrue
    BY DEF ReactorInv, FiberRight, PR!ResultIsTrue
  <1>2. PR!WokenOnce
    BY DEF ReactorInv, ReactorType, PR!WokenOnce
  <1>3. ASSUME rpc = "poll", ~pipe, pokes = 0, NEW e \in PR!Range(PR!Actives)
        PROVE  /\ ent[e].fd # None => PR!Contains(batch, e)
               /\ ent[e].due >= 0 => till >= 0 /\ till <= PR!Max({ent[e].due, clock})
    <2>1. e \in Listed /\ ent[e].active /\ e \in Entries
      BY ActivesAre, WaitsApart
    <2>2. /\ ent[e].fd # None => e \in ToSet(batch)
          /\ ent[e].due >= 0 => till >= 0 /\ (till <= ent[e].due \/ till <= clock)
      BY <1>3, <2>1 DEF ReactorInv, PollRight
    <2>3. e \in ToSet(batch) => PR!Contains(batch, e)
      BY DEF ToSet, PR!Contains
    <2>4. ASSUME ent[e].due >= 0 PROVE till <= PR!Max({ent[e].due, clock})
      <3> DEFINE d == ent[e].due
      <3>1. d \in Nat /\ clock \in Nat /\ till \in Int
        BY <2>1, <2>4, ReactorFields
      <3> HIDE DEF d
      <3>2. \E x \in {d, clock} : \A y \in {d, clock} : x >= y
        <4>1. CASE d >= clock BY <3>1, <4>1
        <4>2. CASE clock >= d BY <3>1, <4>2
        <4> QED BY <3>1, <4>1, <4>2
      <3>3. PR!Max({d, clock}) \in {d, clock} /\ \A y \in {d, clock} : PR!Max({d, clock}) >= y
        BY <3>2 DEF PR!Max
      <3>4. PR!Max({d, clock}) \in Int /\ PR!Max({d, clock}) >= d /\ PR!Max({d, clock}) >= clock
        BY <3>1, <3>3
      <3>5. till <= d \/ till <= clock
        BY <2>2, <2>4 DEF d
      <3>6. till <= PR!Max({d, clock})
        BY <3>1, <3>4, <3>5
      <3> QED BY <3>6 DEF d
    <2> QED BY <2>2, <2>3, <2>4
  <1>4. PR!ActiveIsCovered
    BY <1>3 DEF PR!ActiveIsCovered
  <1> QED BY <1>1, <1>2, <1>4

\* Nothing the reactor's invariant speaks of changed.
LEMMA ReactorStands == ASSUME ReactorInv, UNCHANGED reactorVars PROVE ReactorInv'
  <1>0. UNCHANGED <<clock, ready, fib, armed, ent, waits, freelist, pipe, pokes, waker, rpc, batch, till, got, todo,
                    recycle, misfired, parks>>
    BY DEF reactorVars
  <1>1. ReactorType' /\ ListsRight' /\ ListedRight'
    BY <1>0 DEF ReactorInv, ReactorType, ListsRight, ListedRight, Listed, TakenOff, OfFiber
  <1>2. TakenRight' /\ FiberRight'
    BY <1>0 DEF ReactorInv, TakenRight, FiberRight, Listed, TakenOff, OfFiber
  <1>3. RoundRight' /\ PollRight'
    BY <1>0 DEF ReactorInv, RoundRight, PollRight, Listed
  <1> QED BY <1>1, <1>2, <1>3 DEF ReactorInv
-----------------------------------------------------------------------------
(* The reactor's pokes and lists, counted.                                 *)

\* The fibers whose worker has yet to activate their entry.
Registering == {f \in Fibers : fib[f].pc = "reg"}

\* Every poke on its way is of a park activated: the pokes and the parks yet to be
\* activated are no more than the parks.
PokesRight == pokes + Cardinality(Registering) <= parks

\* There are finitely many.
LEMMA RegisteringFinite ==
    /\ IsFiniteSet(Registering) /\ Cardinality(Registering) \in Nat
    /\ IsFiniteSet(Registering') /\ Cardinality(Registering') \in Nat
  <1>1. IsFiniteSet(Fibers)
    BY FCondAssumption, FS_Subset DEF Waiters
  <1>2. Registering \subseteq Fibers /\ Registering' \subseteq Fibers
    BY DEF Registering
  <1> QED BY <1>1, <1>2, FS_Subset, FS_CardinalityType

\* Nobody new registers, and no poke is added.
LEMMA FewerRegister ==
    ASSUME PokesRight, pokes \in Nat, pokes' \in Nat, parks \in Nat, Registering' \subseteq Registering,
           pokes' <= pokes, parks' = parks
    PROVE  PokesRight'
  <1>1. Cardinality(Registering') <= Cardinality(Registering)
    BY RegisteringFinite, FS_Subset
  <1>2. pokes' + Cardinality(Registering') <= parks'
    BY <1>1, RegisteringFinite DEF PokesRight
  <1> QED BY <1>2 DEF PokesRight

\* A park adds one to both sides.
LEMMA RegisterCounts ==
    ASSUME ReactorInv, PokesRight, NEW f \in Fibers, NEW kind, NEW fd, NEW t, PR!Register(f, kind, fd, t)
    PROVE  PokesRight'
  <1>1. fib[f].pc = "run" /\ parks' = parks + 1 /\ pokes' = pokes
    BY DEF PR!Register
  <1>2. PICK p : fib' = [fib EXCEPT ![f] = p]
    BY Zenon DEF PR!Register
  <1>3. Registering' \subseteq Registering \cup {f}
    BY <1>2 DEF Registering, ReactorInv, ReactorType
  <1>4. Cardinality(Registering \cup {f}) <= Cardinality(Registering) + 1 /\ IsFiniteSet(Registering \cup {f})
        /\ Cardinality(Registering \cup {f}) \in Nat
    <2>1. Cardinality(Registering \cup {f}) = IF f \in Registering THEN Cardinality(Registering) ELSE Cardinality(Registering) + 1
      BY RegisteringFinite, FS_AddElement
    <2>2. IsFiniteSet(Registering \cup {f})
      BY RegisteringFinite, FS_AddElement
    <2> QED BY <2>1, <2>2, RegisteringFinite
  <1>5. Cardinality(Registering') <= Cardinality(Registering \cup {f})
    BY <1>3, <1>4, FS_Subset
  <1>6. pokes \in Nat /\ parks \in Nat
    BY DEF ReactorInv, ReactorType
  <1>7. pokes' + Cardinality(Registering') <= parks'
    BY <1>1, <1>4, <1>5, <1>6, RegisteringFinite DEF PokesRight
  <1> QED BY <1>7 DEF PokesRight

\* The worker's poke takes the place of the park it activates.
LEMMA ActivateCounts ==
    ASSUME ReactorInv, PokesRight, NEW f \in Fibers, PR!Activate(f)
    PROVE  PokesRight'
  <1>1. fib[f].pc = "reg" /\ parks' = parks
    BY DEF PR!Activate
  <1>2. pokes \in Nat /\ parks \in Nat /\ fib \in [Fibers -> Parkers]
    BY DEF ReactorInv, ReactorType
  <1>3. pokes' = pokes \/ pokes' = pokes + 1
    BY DEF PR!Activate, PR!Active
  <1>4. PICK p : fib' = [fib EXCEPT ![f] = p] /\ p.pc # "reg"
    <2>1. fib' = [fib EXCEPT ![f] = [@ EXCEPT !.pc = "runnable", !.result = 1, !.e = None]]
            \/ fib' = [fib EXCEPT ![f].pc = "parked"]
      BY DEF PR!Activate
    <2>2. fib[f] \in Parkers
      BY <1>2
    <2>3. [fib[f] EXCEPT !.pc = "runnable", !.result = 1, !.e = None].pc # "reg" /\ [fib[f] EXCEPT !.pc = "parked"].pc # "reg"
      BY <2>2 DEF Parkers
    <2>4. CASE fib' = [fib EXCEPT ![f] = [@ EXCEPT !.pc = "runnable", !.result = 1, !.e = None]]
      <3>1. fib' = [fib EXCEPT ![f] = [fib[f] EXCEPT !.pc = "runnable", !.result = 1, !.e = None]]
        BY <2>4
      <3> QED BY <3>1, <2>3
    <2>5. CASE fib' = [fib EXCEPT ![f].pc = "parked"]
      <3>1. fib' = [fib EXCEPT ![f] = [fib[f] EXCEPT !.pc = "parked"]]
        BY <2>5
      <3> QED BY <3>1, <2>3
    <2> QED BY <2>1, <2>4, <2>5
  <1>5. Registering' = Registering \ {f} /\ f \in Registering
    BY <1>1, <1>2, <1>4 DEF Registering
  <1>6. Cardinality(Registering') = Cardinality(Registering) - 1
    BY <1>5, RegisteringFinite, FS_RemoveElement
  <1>7. pokes' + Cardinality(Registering') <= parks'
    BY <1>1, <1>2, <1>3, <1>6, RegisteringFinite DEF PokesRight
  <1> QED BY <1>7 DEF PokesRight

\* No other step registers a fiber or adds a poke.
LEMMA OthersCount ==
    ASSUME ReactorInv, PokesRight, PR!Next,
           \A f \in Fibers : ~PR!WaitFd(f) /\ ~PR!SleepMs(f) /\ ~PR!ParkMutex(f) /\ ~PR!Activate(f)
    PROVE  PokesRight'
  <1>1. pokes \in Nat /\ parks \in Nat /\ fib \in [Fibers -> Parkers] /\ waker \in Fibers \cup {None}
    BY DEF ReactorInv, ReactorType
  <1>2. ASSUME fib' = fib, parks' = parks, pokes' = pokes \/ PR!Poke PROVE PokesRight'
    <2>1. pokes' \in Nat /\ pokes' <= pokes
      BY <1>1, <1>2 DEF PR!Poke
    <2>2. Registering' = Registering
      BY <1>2 DEF Registering
    <2> QED BY <1>1, <1>2, <2>1, <2>2, FewerRegister
  <1>3. ASSUME NEW f \in Fibers, NEW p, fib' = [fib EXCEPT ![f] = p], p.pc # "reg", parks' = parks, pokes' = pokes
        PROVE  PokesRight'
    <2>1. Registering' \subseteq Registering
      BY <1>1, <1>3 DEF Registering
    <2> QED BY <1>1, <1>3, <2>1, FewerRegister
  <1>4. ASSUME NEW f \in Fibers, NEW r, PR!Unparked(f, r), parks' = parks, pokes' = pokes PROVE PokesRight'
    <2>1. fib' = [fib EXCEPT ![f] = [fib[f] EXCEPT !.pc = "runnable", !.result = r, !.e = None]]
      BY <1>4 DEF PR!Unparked
    <2>2. [fib[f] EXCEPT !.pc = "runnable", !.result = r, !.e = None].pc # "reg"
      BY <1>1 DEF Parkers
    <2> QED BY <1>3, <1>4, <2>1, <2>2
  <1>5. ASSUME NEW f \in Fibers, PR!Resume(f) \/ PR!Wake(f) PROVE PokesRight'
    <2>1. CASE PR!Resume(f)
      <3>1. PR!Running.pc # "reg"
        BY DEF PR!Running
      <3> QED BY <1>3, <2>1, <3>1 DEF PR!Resume
    <2>2. CASE PR!Wake(f)
      BY <1>2, <2>2 DEF PR!Wake
    <2> QED BY <1>5, <2>1, <2>2
  <1>6. ASSUME NEW fd \in PollFds, PR!Arrive(fd) PROVE PokesRight'
    <2>1. fib' = [f \in Fibers |-> IF fib[f].fd = fd THEN [fib[f] EXCEPT !.seen = TRUE] ELSE fib[f]]
      BY <1>6 DEF PR!Arrive
    <2>2. \A f \in Fibers : fib'[f].pc = fib[f].pc
      BY <1>1, <2>1 DEF Parkers
    <2>3. Registering' = Registering /\ pokes' = pokes /\ parks' = parks
      BY <1>6, <2>2 DEF Registering, PR!Arrive
    <2> QED BY <1>1, <2>3, FewerRegister
  <1>7. CASE PR!WakeEnds
    <2>1. waker \in Fibers /\ PR!Unparked(waker, 1) /\ parks' = parks /\ pokes' = pokes
      BY <1>1, <1>7 DEF PR!WakeEnds
    <2> QED BY <1>4, <2>1
  <1>8. CASE PR!Poke \/ PR!Tick \/ PR!Shutdown
    BY <1>2, <1>8 DEF PR!Poke, PR!Tick, PR!Shutdown
  <1>9. CASE PR!Build \/ PR!PollReturns \/ PR!PollFails \/ PR!Drain \/ PR!Walk \/ PR!Recycle
    BY <1>2, <1>9 DEF PR!Build, PR!PollReturns, PR!PollFails, PR!Drain, PR!Walk, PR!Recycle
  <1>10. CASE PR!UnparkOne
    <2> DEFINE f == ent[todo[1][1]].fiber
    <2>1. parks' = parks /\ pokes' = pokes /\ todo # <<>>
          /\ ((f # None /\ PR!Unparked(f, todo[1][2])) \/ fib' = fib)
      BY <1>10 DEF PR!UnparkOne
    <2>2. f \in Fibers
      <3>1. 1 \in DOMAIN todo
        BY <2>1 DEF ReactorInv, ReactorType
      <3> QED BY <3>1 DEF ReactorInv, TakenRight, OfFiber
    <2> QED BY <1>2, <1>4, <2>1, <2>2
  <1> QED BY <1>5, <1>6, <1>7, <1>8, <1>9, <1>10 DEF PR!Next, PR!Reactor

\* Every step keeps the count.
LEMMA PokesStep == ASSUME ReactorInv, PokesRight, PR!Next PROVE PokesRight'
  <1>1. ASSUME NEW f \in Fibers, PR!WaitFd(f) \/ PR!SleepMs(f) \/ PR!ParkMutex(f) PROVE PokesRight'
    <2>1. PICK kind, fd, t : PR!Register(f, kind, fd, t)
      BY <1>1, Zenon DEF PR!WaitFd, PR!SleepMs, PR!ParkMutex
    <2> QED BY <2>1, RegisterCounts
  <1> QED BY <1>1, ActivateCounts, OthersCount

\* At the start nobody waits.
LEMMA PokesBegin == PR!Init => PokesRight
  <1> SUFFICES ASSUME PR!Init PROVE PokesRight
    OBVIOUS
  <1>1. \A f \in Fibers : fib[f].pc = "run"
    BY DEF PR!Init, PR!Running
  <1>2. Registering = {}
    BY <1>1 DEF Registering
  <1>3. pokes = 0 /\ parks = 0 /\ Cardinality(Registering) = 0
    BY <1>2, FS_EmptySet DEF PR!Init
  <1> QED BY <1>3 DEF PokesRight

\* A list without repetition has as many members as places.
LEMMA CountList ==
    ASSUME NEW s \in Seq(Entries), IsInjective(s)
    PROVE  Cardinality(ToSet(s)) = Len(s)
  <1>1. /\ s \in [1 .. Len(s) -> ToSet(s)] /\ Len(s) \in Nat
        /\ \A i, j \in 1 .. Len(s) : s[i] = s[j] => i = j
        /\ \A x \in ToSet(s) : \E i \in 1 .. Len(s) : s[i] = x
    BY DEF IsInjective, ToSet
  <1>2. s \in Bijection(1 .. Len(s), ToSet(s))
    BY <1>1 DEF Bijection, Injection, Surjection, IsInjective
  <1>3. ExistsBijection(1 .. Len(s), ToSet(s))
    BY <1>2 DEF ExistsBijection
  <1>4. IsFiniteSet(1 .. Len(s)) /\ Cardinality(1 .. Len(s)) = Len(s)
    <2> DEFINE n == Len(s)
    <2>1. n \in Int /\ 1 \in Int /\ n >= 0
      BY <1>1
    <2> HIDE DEF n
    <2>2. IsFiniteSet(1 .. n) /\ Cardinality(1 .. n) = IF 1 > n THEN 0 ELSE n - 1 + 1
      BY <2>1, FS_Interval
    <2>3. Cardinality(1 .. n) = n
      BY <2>1, <2>2
    <2> QED BY <2>2, <2>3 DEF n
  <1> QED BY <1>3, <1>4, FS_Bijection

\* An entry is in one list, and what the reactor keeps is in range.
LEMMA ReactorLists == ASSUME ReactorInv, PokesRight PROVE PR!TypeOK /\ PR!EntryOnce
  <1>0. ReactorType /\ ListsRight
    BY DEF ReactorInv
  <1>1. PR!TypeOK
    <2>1. pokes \in 0 .. MaxParks
      BY <1>0, ReactorAssumption, RegisteringFinite DEF ReactorType, PokesRight
    <2>2. \A f \in Fibers : fib[f].pc \in {"run", "reg", "parked", "runnable"} /\ armed[f] \in Entries \cup {None}
      BY <1>0 DEF ReactorType, Parkers
    <2>3. PR!Range(waits) \cup PR!Range(freelist) \cup PR!Range(batch) \subseteq Entries
      BY <1>0 DEF ReactorType, PR!Range
    <2> QED BY <1>0, <2>1, <2>2, <2>3 DEF PR!TypeOK, ReactorType
  <1> DEFINE out == [i \in DOMAIN todo |-> todo[i][1]]
             every == waits \o freelist \o recycle \o out
  <1>2. out \in Seq(Entries) /\ IsInjective(out) /\ ToSet(out) = TakenOff
    <2>1. todo \in Seq(Entries \X {0, 1}) /\ \A i, j \in DOMAIN todo : todo[i][1] = todo[j][1] => i = j
      BY <1>0 DEF ReactorType, ListsRight
    <2>2. out \in Seq(Entries) /\ DOMAIN out = DOMAIN todo
      BY <2>1
    <2> QED BY <2>1, <2>2 DEF IsInjective, ToSet, TakenOff
  <1> HIDE DEF out
  <1>3. /\ waits \in Seq(Entries) /\ freelist \in Seq(Entries) /\ recycle \in Seq(Entries)
        /\ IsInjective(waits) /\ IsInjective(freelist) /\ IsInjective(recycle)
    BY <1>0 DEF ReactorType, ListsRight
  <1>4. /\ waits \o freelist \in Seq(Entries) /\ IsInjective(waits \o freelist)
        /\ ToSet(waits \o freelist) = ToSet(waits) \cup ToSet(freelist)
    <2>1. ToSet(waits) \cap ToSet(freelist) = {}
      BY <1>0 DEF ListsRight, Listed
    <2> QED BY <1>3, <2>1, ListsJoin
  <1>5. /\ waits \o freelist \o recycle \in Seq(Entries) /\ IsInjective(waits \o freelist \o recycle)
        /\ ToSet(waits \o freelist \o recycle) = ToSet(waits) \cup ToSet(freelist) \cup ToSet(recycle)
    <2>1. ToSet(waits \o freelist) \cap ToSet(recycle) = {}
      BY <1>0, <1>4 DEF ListsRight, Listed
    <2> QED BY <1>3, <1>4, <2>1, ListsJoin
  <1>6. every \in Seq(Entries) /\ IsInjective(every)
    <2>1. ToSet(waits \o freelist \o recycle) \cap ToSet(out) = {}
      BY <1>0, <1>2, <1>5 DEF ListsRight, Listed
    <2> QED BY <1>2, <1>5, <2>1, ListsJoin
  <1>7. Cardinality(ToSet(every)) = Len(every)
    BY <1>6, CountList
  <1> HIDE DEF every
  <1>8. PR!Range(every) = ToSet(every)
    BY DEF PR!Range, ToSet
  <1>9. PR!Cardinality(PR!Range(every)) = Len(every)
    BY <1>7, <1>8, Zenon DEF PR!Cardinality, Cardinality
  <1>10. \A e : PR!Contains(freelist, e) => e \in ToSet(freelist)
    BY <1>3 DEF PR!Contains, ToSet
  <1>11. \A f \in Fibers : armed[f] # None => ~PR!Contains(freelist, armed[f])
    BY <1>0, <1>10 DEF ReactorInv, FiberRight, ListsRight
  <1>12. \A f \in Fibers : fib[f].pc \in {"reg", "parked"} /\ waker # f => ~PR!Contains(freelist, fib[f].e)
    BY <1>0, <1>10 DEF ReactorInv, FiberRight, ListsRight
  <1>13. PR!EntryOnce
    BY <1>9, <1>11, <1>12 DEF PR!EntryOnce, every, out
  <1> QED BY <1>1, <1>13

\* Nothing the count speaks of changed.
LEMMA PokesStand == ASSUME PokesRight, UNCHANGED reactorVars PROVE PokesRight'
  BY DEF PokesRight, Registering, reactorVars

-----------------------------------------------------------------------------
(* The components together.                                                *)

\* In a behaviour of a connection no other component moves.
LEMMA OnlyConnMoves ==
    ASSUME part = "tcp", [SuiteNext]_Suitevars
    PROVE  part' = part /\ (TC!Next \/ UNCHANGED tcpVars)
  BY DEF SuiteNext, Suitevars, Rest

\* In a behaviour of the guest's clock no other component moves.
LEMMA OnlyClockMoves ==
    ASSUME part = "clock", [SuiteNext]_Suitevars
    PROVE  part' = part /\ (GC!Next \/ UNCHANGED clockVars)
  BY DEF SuiteNext, Suitevars, Rest

\* Of a connection (nurl__tcp_prepare_write, nurl__tcp_apply_timeo): what the kernel has
\* of the timeouts is the idle timeout last set or is marked stale, the remainder of a
\* deadline is rounded up by less than a millisecond, and what was sent are the first
\* bytes of head and body.
THEOREM ConnHolds == SuiteSpec => [](part = "tcp" => ConnInv)
  <1>1. SuiteInit => (part = "tcp" => ConnInv)
    BY ConnBegins DEF SuiteInit
  <1>2. (part = "tcp" => ConnInv) /\ [SuiteNext]_Suitevars => (part = "tcp" => ConnInv)'
    BY PartKept, OnlyConnMoves, ConnStep, ConnStands
  <1> QED BY <1>1, <1>2, PTL DEF SuiteSpec

\* Of the guest's clock (nanosleep of platform_x86.c): a sleep's deadline in ticks is no
\* earlier than the clock's reading at the call and the length asked for say, and the
\* timer of a CPU about to halt, or halted, is armed or its interrupt is pending.
THEOREM ClockHolds == SuiteSpec => [](part = "clock" => ClockInv)
  <1>1. SuiteInit => (part = "clock" => ClockInv)
    BY ClockBegins DEF SuiteInit
  <1>2. (part = "clock" => ClockInv) /\ [SuiteNext]_Suitevars => (part = "clock" => ClockInv)'
    BY PartKept, OnlyClockMoves, ClockStep, ClockStands
  <1> QED BY <1>1, <1>2, PTL DEF SuiteSpec

\* In a behaviour of the poll(2) reactor no other component moves.
LEMMA OnlyReactorMoves ==
    ASSUME part = "reactor", [SuiteNext]_Suitevars
    PROVE  part' = part /\ (PR!Next \/ UNCHANGED reactorVars)
  BY DEF SuiteNext, Suitevars, Rest

\* Of the poll(2) reactor (nurl__reactor_loop, nurl__reactor_activate, nurl_fiber_wake): a wait
\* entry is in one list and belongs to one parked fiber, which the poll round, the deadline
\* or nurl_fiber_wake wakes, and never two of them; an event counts for the entry whose
\* place in the poll set it was, however often the entry was recycled; and the poll covers
\* every active entry or is about to be ended by a poke.
THEOREM ReactorHolds == SuiteSpec => [](part = "reactor" => ReactorInv /\ PokesRight)
  <1>1. SuiteInit => (part = "reactor" => ReactorInv /\ PokesRight)
    BY ReactorBegins, PokesBegin DEF SuiteInit
  <1>2. (part = "reactor" => ReactorInv /\ PokesRight) /\ [SuiteNext]_Suitevars
          => (part = "reactor" => ReactorInv /\ PokesRight)'
    BY PartKept, OnlyReactorMoves, ReactorStep, ReactorStands, PokesStep, PokesStand
  <1> QED BY <1>1, <1>2, PTL DEF SuiteSpec

\* A time limit means what it says, for any number of fibers, descriptors, entries, writes
\* and sleeps: a write leaves the kernel by its deadline (nurl_tcp_write2), a wait says
\* ready or timed out only when it was (nurl__reactor_wait_k), and a guest's sleep is never
\* short (nanosleep of platform_x86.c).
THEOREM TimeoutsMeanHolds == SuiteSpec => []TimeoutsMean
  <1>1. (part = "tcp" => ConnInv) /\ (part = "reactor" => ReactorInv /\ PokesRight) /\ (part = "clock" => ClockInv)
          => TimeoutsMean
    BY ConnSound, ReactorSound, ClockSound DEF TimeoutsMean
  <1> QED BY <1>1, ConnHolds, ReactorHolds, ClockHolds, PTL

\* Whichever component a behaviour is of, the condition variable's state moves by the
\* condition variable's steps.
LEMMA OnlyCondMoves ==
    ASSUME [SuiteNext]_Suitevars
    PROVE  [Next]_vars
  BY Zenon DEF SuiteNext, Suitevars, Rest

\* A park is claimed once, beside whatever else the suite checks.
LEMMA CondHolds == SuiteSpec => []WakeInv
  <1>1. SuiteInit => WakeInv
    BY WakeInit DEF SuiteInit
  <1>2. WakeInv /\ [SuiteNext]_Suitevars => WakeInv'
    BY OnlyCondMoves, WakeStep
  <1> QED BY <1>1, <1>2, PTL DEF SuiteSpec

\* Whoever is parked is made runnable once and is in one list, for any number of fibers,
\* threads, posters, descriptors and entries: on a condition variable, where a signal may
\* race the deadline (nurl_fiber_wake), and in the poll(2) reactor, where the poll
\* round, the deadline and nurl_fiber_wake share one claim (nurl__reactor_loop).  Of the
\* unikernel's scheduler it is only model-checked.
THEOREM ParksWokenOnce == SuiteSpec => [](part # "sched" => WokenOnce)
  <1>1. WakeInv => RunnableOnce /\ NodeAlive
    BY DEF WakeInv, TypeOK, ParkInv, RunnableOnce, ListInv, NodeAlive, InWait
  <1>2. WakeInv /\ (part = "reactor" => ReactorInv /\ PokesRight) => (part # "sched" => WokenOnce)
    BY <1>1, ReactorLists, ReactorSound DEF WokenOnce
  <1> QED BY <1>2, CondHolds, ReactorHolds, PTL

\* Whoever sleeps can still be woken: a fiber parked on a condition variable is where a
\* signal under the mutex finds it (nurl__fcond_wake_fiber), the reactor's poll covers every
\* active entry or has a poke coming (nurl__reactor_activate), and a halted CPU has its
\* timer armed (nanosleep).  Of the unikernel's scheduler it is only model-checked.
THEOREM SleepersWoken ==
    ASSUME ~LateSignal
    PROVE  SuiteSpec => [](part # "sched" => WakeIsComing)
  <1>1. SuiteInit => WakeInv /\ TokenInv
    BY WakeInit, TokenInit DEF SuiteInit
  <1>2. WakeInv /\ TokenInv /\ [SuiteNext]_Suitevars => (WakeInv /\ TokenInv)'
    BY OnlyCondMoves, WakeStep, TokenStep
  <1>3. TokenInv => ParkedReachable
    BY DEF TokenInv, Found, ParkedReachable
  <1>4. TokenInv /\ (part = "reactor" => ReactorInv /\ PokesRight) /\ (part = "clock" => ClockInv)
          => (part # "sched" => WakeIsComing)
    BY <1>3, ReactorSound, ClockSound DEF WakeIsComing
  <1> QED BY <1>1, <1>2, <1>4, ReactorHolds, ClockHolds, PTL DEF SuiteSpec
=============================================================================
