----------------------------- MODULE GuestClock -----------------------------
(***************************************************************************)
(* unikernel/boot/platform_x86.c: the clock of a guest, read off the TSC,  *)
(* and the tickless idle: nanosleep arms the local APIC timer (in          *)
(* TSC-deadline mode, or as a calibrated one-shot) and halts, with a       *)
(* polling spin where there is no timer.                                   *)
(*                                                                         *)
(* Time passes by Tick, between any two instructions of the CPU.  The      *)
(* interrupt flag is clear except in `sti; hlt`, so a timer that fires     *)
(* earlier is held pending.                                                *)
(***************************************************************************)
EXTENDS Integers, FiniteSets, FiniteSetsExt

CONSTANTS
    Machines,     \* [hypervisor, crystal, cmdline, nameplate, pit, mb2, apic, deadline]
    Milli,        \* the factor between kHz and MHz, and between ms and us (1000)
    Wants,        \* the lengths of sleep asked for, in us
    ApicPeriod,   \* TSC ticks of one count of the APIC timer
    Counts,       \* the counts per ms a calibration may measure
    MaxCount,     \* the largest one-shot count (2^32 - 1)
    MaxLag,       \* bound: ticks that pass between two instructions of nanosleep
    MaxTsc,       \* bound: the TSC
    MaxSleeps     \* bound: sleeps

VARIABLES
    mach,         \* the machine the guest booted on
    perMs,        \* apic_counts_per_ms, 0 until calibrated
    tsc,
    lag,          \* ticks since the last instruction
    fires,        \* the TSC at which the armed timer fires, 0 for none
    pending,      \* a timer interrupt is held pending
    pc,           \* "run", "loop", "arm", "armed", "halt", "spin"
    sleep,        \* [deadline, count, want, from]: the locals of nanosleep, and the clock at its call
    early,        \* the last sleep returned before the program's clock had moved that far
    sleeps

vars == <<mach, perMs, tsc, lag, fires, pending, pc, sleep, early, sleeps>>
----------------------------------------------------------------------------
\* time_init: the hypervisor's leaf, the crystal, the command line, the
\* nameplate, then a measurement against the PIT on a Multiboot2 machine.
TscKhz(m) ==
    CASE m.hypervisor # 0 -> m.hypervisor
      [] m.hypervisor = 0 /\ m.crystal # 0 -> m.crystal
      [] m.hypervisor = 0 /\ m.crystal = 0 /\ m.cmdline # 0 -> m.cmdline
      [] m.hypervisor = 0 /\ m.crystal = 0 /\ m.cmdline = 0 /\ m.nameplate # 0 -> m.nameplate
      [] OTHER -> IF m.mb2 THEN m.pit ELSE 0

\* The TSC ticks of a microsecond: truncated, at least one.
PerUs == Max({TscKhz(mach) \div Milli, 1})

\* The clock divides by the frequency the machine stated.
ExactClock(t) == (t * Milli) \div TscKhz(mach)
\* clock_gettime, in us since boot; without a frequency it panics.
Clock(t) == t \div PerUs

\* lapic_init.
HasTimer == mach.apic
DeadlineMode == mach.apic /\ mach.deadline

NoSleep == [deadline |-> 0, count |-> 0, want |-> 0, from |-> 0]

Init ==
    /\ mach \in Machines /\ perMs = 0
    /\ tsc = 0 /\ lag = 0 /\ fires = 0 /\ pending = FALSE
    /\ pc = "run" /\ sleep = NoSleep /\ early = FALSE /\ sleeps = 0
----------------------------------------------------------------------------
\* The TSC moves on, and the armed timer fires when it is reached.
Tick ==
    /\ tsc < MaxTsc
    /\ tsc' = tsc + 1
    /\ IF pc = "spin" \/ (pc = "halt" /\ ~pending) THEN UNCHANGED lag
       ELSE lag < MaxLag /\ lag' = lag + 1
    /\ IF fires # 0 /\ tsc' >= fires THEN pending' = TRUE /\ fires' = 0
       ELSE UNCHANGED <<pending, fires>>
    /\ UNCHANGED <<mach, perMs, pc, sleep, early, sleeps>>

\* nanosleep up to its loop, lapic_calibrate included.  Without a frequency it
\* returns at once, where clock_gettime stops the machine.
Nanosleep(want) ==
    /\ pc = "run" /\ sleeps < MaxSleeps /\ TscKhz(mach) # 0
    /\ tsc + want * PerUs + MaxCount * ApicPeriod + 4 * MaxLag <= MaxTsc
    /\ lag' = 0
    /\ sleep' = [deadline |-> tsc + want * PerUs, count |-> 0, want |-> want, from |-> Clock(tsc)]
    /\ IF HasTimer /\ ~DeadlineMode /\ perMs = 0 THEN perMs' \in Counts ELSE UNCHANGED perMs
    /\ pc' = IF HasTimer THEN "loop" ELSE "spin"
    /\ sleeps' = sleeps + 1
    /\ UNCHANGED <<mach, tsc, fires, pending, early>>

Return ==
    /\ pc' = "run" /\ sleep' = NoSleep
    /\ early' = (Clock(tsc) - sleep.from < sleep.want)

\* The count of a one-shot lap: whole milliseconds, at least one.
LapCount == Min({Max({(sleep.deadline - tsc) \div TscKhz(mach), 1}) * perMs, MaxCount})

\* The test of either loop.
Check ==
    /\ pc = "loop" /\ lag' = 0
    /\ IF tsc < sleep.deadline
       THEN /\ pc' = "arm"
            /\ sleep' = IF DeadlineMode THEN sleep ELSE [sleep EXCEPT !.count = LapCount]
            /\ UNCHANGED early
       ELSE Return
    /\ UNCHANGED <<mach, perMs, tsc, fires, pending, sleeps>>

\* wrmsr(MSR_TSC_DEADLINE), which fires at once for a deadline that has passed;
\* or the one-shot's count.
Arm ==
    LET at == IF DeadlineMode THEN sleep.deadline ELSE tsc + sleep.count * ApicPeriod IN
    /\ pc = "arm" /\ pc' = "armed" /\ lag' = 0
    /\ IF at <= tsc THEN pending' = TRUE /\ fires' = 0
       ELSE fires' = at /\ UNCHANGED pending
    /\ UNCHANGED <<mach, perMs, tsc, sleep, early, sleeps>>

\* sti opens the machine before hlt: a pending interrupt is taken between them.
TornHalt == pc' = "halt" /\ pending' = FALSE /\ UNCHANGED fires
\* `sti; hlt`: the shadow of sti keeps a pending interrupt until the halt, which
\* it ends.  pf_irq acknowledges; the one-shot loop stops the count.
Halt ==
    IF pending
    THEN /\ pc' = "loop" /\ pending' = FALSE
         /\ fires' = IF DeadlineMode THEN fires ELSE 0
    ELSE pc' = "halt" /\ UNCHANGED <<pending, fires>>

Idle == pc = "armed" /\ Halt /\ lag' = 0 /\ UNCHANGED <<mach, perMs, tsc, sleep, early, sleeps>>

Wake ==
    /\ pc = "halt" /\ pending /\ lag' = 0
    /\ pc' = "loop" /\ pending' = FALSE
    /\ fires' = IF DeadlineMode THEN fires ELSE 0
    /\ UNCHANGED <<mach, perMs, tsc, sleep, early, sleeps>>

\* The polling fallback.
Spin ==
    /\ pc = "spin" /\ tsc >= sleep.deadline
    /\ Return /\ lag' = 0
    /\ UNCHANGED <<mach, perMs, tsc, fires, pending, sleeps>>

Cpu == Check \/ Arm \/ Idle \/ Wake \/ Spin
Next == Tick \/ (\E w \in Wants : Nanosleep(w)) \/ Cpu

\* Time passes, and the CPU executes what it can.
Fairness == WF_vars(Tick) /\ WF_vars(Cpu)
Spec == Init /\ [][Next]_vars /\ Fairness
----------------------------------------------------------------------------
TypeOK ==
    /\ mach \in Machines /\ perMs \in Counts \union {0}
    /\ tsc \in 0..MaxTsc /\ lag \in 0..MaxLag /\ fires \in 0..MaxTsc /\ pending \in BOOLEAN
    /\ pc \in {"run", "loop", "arm", "armed", "halt", "spin"}
    /\ early \in BOOLEAN /\ sleeps \in 0..MaxSleeps

\* A sleep is never shorter than asked for on the clock the program reads: both
\* sides divide by the same truncated frequency, and an early interrupt or a
\* truncated one-shot only costs a lap.
NeverShort == ~early

\* The timer of a halted CPU is armed or its interrupt is pending: it never
\* sleeps past its own wakeup, at whatever instant between the test of the
\* deadline and the halt the timer fires.
HaltHasWakeup == pc = "halt" => (pending \/ fires # 0)

\* Every nanosleep returns.
Asleep == pc # "run"
=============================================================================
