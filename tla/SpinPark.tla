------------------------------ MODULE SpinPark ------------------------------
(***************************************************************************)
(* stdlib/runtime_ffi.c: how many threads may run at once for this         *)
(* process, and the spin before a park: a fiber about to wait for a        *)
(* descriptor may probe it for a while instead, when the estimate of its   *)
(* own waits says that pays.                                               *)
(*                                                                         *)
(* The environment decides how long each wait takes; other work for the    *)
(* worker may appear at any probe.                                         *)
(***************************************************************************)
EXTENDS Integers, FiniteSets, FiniteSetsExt

CONSTANTS
    Hosts,        \* [cpus, affinity, quota, period, asked]: the limits of the process, 0 for none;
                  \* asked is NURL_SPIN_US or -1
    DefaultCap,   \* 100 us
    Margin,       \* 10 us
    Lengths,      \* how long waits take
    Steady,       \* the short waits in a row that make a steady peer
    MaxWaits      \* bound: waits

VARIABLES
    host,
    est,          \* wait_ewma_ns
    burnt,        \* the time probed in the last wait
    steady,       \* the short waits in a row before the last long one
    last,         \* how long the last wait took
    spun,         \* the last wait was allowed to probe
    waits

vars == <<host, est, burnt, steady, last, spun, waits>>

\* ceil(quota / period) of nurl__cgroup_cpu_limit, 0 for no limit.
CgroupCpuLimit(h) ==
    IF h.quota > 0 /\ h.period > 0 THEN (h.quota + h.period - 1) \div h.period ELSE 0

\* nurl_available_parallelism.
AvailableParallelism(h) ==
    Max({1, Min({h.cpus} \union ({h.affinity, CgroupCpuLimit(h)} \ {0}))})

\* The quota only sizes the worker pool.
QuotaBlindCap(h) ==
    IF h.asked >= 0 THEN h.asked ELSE IF AvailableParallelism(h) < 2 THEN 0 ELSE DefaultCap
\* nurl__spin_cap.
SpinCap(h) ==
    IF h.asked >= 0 THEN h.asked
    ELSE IF AvailableParallelism(h) < 2 \/ CgroupCpuLimit(h) > 0 THEN 0
    ELSE DefaultCap

\* Division truncates toward zero.
Quarter(n) == IF n >= 0 THEN n \div 4 ELSE -((-n) \div 4)

\* A long wait counts in full.
RawObserve(e, w, cap) == e + Quarter(w - e)
\* nurl__spin_observe: a sample is clamped at twice the cap.
Observe(e, w, cap) == e + Quarter(Min({w, 2 * cap}) - e)

\* The window of nurl__spin_ready: none for an estimate past the cap, the whole
\* cap without an estimate.
Budget(e, cap) ==
    IF cap <= 0 \/ e >= cap THEN 0
    ELSE IF e = 0 THEN cap ELSE Min({2 * e + Margin, cap})

Init ==
    /\ host \in Hosts
    /\ est = 0 /\ burnt = 0 /\ steady = 0 /\ last = 0 /\ spun = TRUE /\ waits = 0

\* One wait of length w: probing ends at readiness, at the end of the window, or
\* earlier at `busy` when the worker has other work (or more than four fibers
\* are alive: busy = 0); the wait is folded into the estimate either way.
Wait(w, busy) ==
    LET cap == SpinCap(host)
        window == Min({Budget(est, cap), busy}) IN
    /\ waits < MaxWaits
    /\ burnt' = Min({w, window})
    /\ spun' = (Budget(est, cap) > 0)
    /\ est' = IF cap > 0 THEN Observe(est, w, cap) ELSE est
    /\ steady' = CASE 8 * w <= cap /\ 8 * last <= cap -> Min({steady + 1, Steady})
                   [] 8 * w <= cap /\ 8 * last > cap -> 1
                   [] 8 * w > cap /\ 8 * last <= cap -> steady
                   [] OTHER -> 0
    /\ last' = w
    /\ waits' = waits + 1
    /\ UNCHANGED host

Next == \E w \in Lengths, busy \in {0, Margin, 2 * DefaultCap} : Wait(w, busy)
Spec == Init /\ [][Next]_vars
----------------------------------------------------------------------------
TypeOK ==
    /\ host \in Hosts /\ est \in 0 .. 2 * Max({SpinCap(host), 0})
    /\ burnt \in Nat /\ steady \in 0..Steady /\ waits \in 0..MaxWaits

\* A wait never burns more than the cap, and nothing at all where a burned core
\* is somebody else's time: under a CPU quota, or with one usable CPU.
BurnBounded ==
    /\ burnt <= SpinCap(host)
    /\ (host.asked < 0 /\ (host.quota > 0 \/ AvailableParallelism(host) = 1)) => burnt = 0

\* "one stray stall must not keep a steady peer unspun for long": after Steady
\* short waits in a row, whatever came before them, one long one leaves the estimate under the cap and the
\* fiber still probes.
StallForgotten ==
    (steady = Steady /\ 8 * last > SpinCap(host) /\ SpinCap(host) > 0) => est < SpinCap(host)
=============================================================================
