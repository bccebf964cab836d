--------------------------- MODULE LifetimeProofs ---------------------------
(***************************************************************************)
(* Proofs that what waiters lend and share outlives its use, for every     *)
(* value of the constants.                                                 *)
(*                                                                         *)
(* Condition variables: parks are claimed once, a waker reaches only nodes *)
(* of fibers still in the wait, and with signals under the mutex no token  *)
(* is left beside a sleeping waiter.  The resolver: a job has an owner     *)
(* until it is freed.  The listener: the descriptor and the struct outlive *)
(* every accept that uses them.  Children: the buffer is there while the   *)
(* kernel writes to it, and every byte arrives once and in order.          *)
(***************************************************************************)
EXTENDS WaitMC, FiniteSetTheorems, SequenceTheorems, TLAPS

(* Queues without repetition.                                              *)

\* Membership in a queue, by position.
LEMMA InToSet ==
    ASSUME NEW S, NEW s \in Seq(S), NEW x
    PROVE  x \in ToSet(s) <=> \E i \in 1 .. Len(s) : s[i] = x
  BY DEF ToSet

\* Only the empty queue has no elements.
LEMMA ToSetType ==
    ASSUME NEW S, NEW s \in Seq(S)
    PROVE  ToSet(s) \subseteq S /\ (ToSet(s) = {} <=> s = <<>>)
  BY DEF ToSet

\* A node queued at the tail.
LEMMA QueueAppend ==
    ASSUME NEW S, NEW s \in Seq(S), NEW e \in S, IsInjective(s), e \notin ToSet(s)
    PROVE  /\ Append(s, e) \in Seq(S) /\ IsInjective(Append(s, e))
           /\ ToSet(Append(s, e)) = ToSet(s) \cup {e}
  <1> DEFINE t == Append(s, e)
  <1>1. t \in Seq(S) /\ Len(t) = Len(s) + 1 /\ t[Len(s) + 1] = e /\ \A i \in 1 .. Len(s) : t[i] = s[i]
    OBVIOUS
  <1>0. Len(s) \in Nat /\ DOMAIN s = 1 .. Len(s) /\ DOMAIN t = 1 .. Len(s) + 1
    OBVIOUS
  <1> HIDE DEF t
  <1>2. \A x : x \in ToSet(t) <=> x \in ToSet(s) \/ x = e
    BY <1>1, InToSet, SMT
  <1>3. \A i \in 1 .. Len(s) : s[i] # e
    BY InToSet
  <1>4. IsInjective(t)
    <2> SUFFICES ASSUME NEW i \in 1 .. Len(s) + 1, NEW j \in 1 .. Len(s) + 1, t[i] = t[j] PROVE i = j
      BY <1>0 DEF IsInjective
    <2>1. CASE i \in 1 .. Len(s) /\ j \in 1 .. Len(s)
      BY <2>1, <1>0, <1>1 DEF IsInjective
    <2>2. CASE i = Len(s) + 1 \/ j = Len(s) + 1
      BY <2>2, <1>0, <1>1, <1>3
    <2> QED BY <2>1, <2>2, <1>0
  <1> QED BY <1>1, <1>2, <1>4 DEF t

\* The oldest node taken off.
LEMMA QueueTail ==
    ASSUME NEW S, NEW s \in Seq(S), IsInjective(s), s # <<>>
    PROVE  /\ Tail(s) \in Seq(S) /\ IsInjective(Tail(s))
           /\ Head(s) \in ToSet(s)
           /\ ToSet(Tail(s)) = ToSet(s) \ {Head(s)}
  <1> DEFINE t == Tail(s)
  <1>1. t \in Seq(S) /\ Len(s) >= 1 /\ Len(t) = Len(s) - 1 /\ s[1] = Head(s) /\ \A i \in 1 .. Len(t) : t[i] = s[i + 1]
    OBVIOUS
  <1>0. Len(s) \in Nat /\ DOMAIN s = 1 .. Len(s) /\ DOMAIN t = 1 .. Len(s) - 1
    OBVIOUS
  <1> HIDE DEF t
  <1>2. IsInjective(t)
    <2> SUFFICES ASSUME NEW i \in DOMAIN t, NEW j \in DOMAIN t, t[i] = t[j] PROVE i = j
      BY DEF IsInjective
    <2>1. i + 1 \in DOMAIN s /\ j + 1 \in DOMAIN s /\ s[i + 1] = s[j + 1]
      BY <1>0, <1>1
    <2>2. i + 1 = j + 1
      BY <2>1 DEF IsInjective
    <2> QED BY <2>2, <1>0
  <1>3. ASSUME NEW x PROVE x \in ToSet(t) <=> x \in ToSet(s) /\ x # s[1]
    <2>1. ASSUME NEW i \in 1 .. Len(t), t[i] = x PROVE x \in ToSet(s) /\ x # s[1]
      <3>1. i + 1 \in 1 .. Len(s) /\ s[i + 1] = x /\ 1 \in 1 .. Len(s) /\ i + 1 # 1
        BY <2>1, <1>0, <1>1
      <3> QED BY <3>1, <1>0, InToSet DEF IsInjective
    <2>2. ASSUME NEW i \in 1 .. Len(s), s[i] = x, x # s[1] PROVE x \in ToSet(t)
      <3>1. i - 1 \in 1 .. Len(t) /\ t[i - 1] = x
        BY <2>2, <1>0, <1>1
      <3> QED BY <3>1, <1>1, InToSet
    <2> QED BY <2>1, <2>2, <1>1, InToSet
  <1>4. Head(s) \in ToSet(s)
    BY <1>1, InToSet
  <1> QED BY <1>1, <1>2, <1>3, <1>4 DEF t

\* A node taken out wherever it is, if it is queued at all.
LEMMA QueueRemove ==
    ASSUME NEW S, NEW s \in Seq(S), IsInjective(s), NEW e
    PROVE  /\ RemoveFirst(s, e) \in Seq(S) /\ IsInjective(RemoveFirst(s, e))
           /\ ToSet(RemoveFirst(s, e)) = ToSet(s) \ {e}
  <1>1. CASE e \notin ToSet(s)
    <2>1. ~ \E i \in 1 .. Len(s) : s[i] = e
      BY <1>1, InToSet
    <2>2. RemoveFirst(s, e) = s
      BY <2>1 DEF RemoveFirst
    <2> QED BY <1>1, <2>2
  <1>2. CASE e \in ToSet(s)
    <2>0. Len(s) \in Nat /\ DOMAIN s = 1 .. Len(s)
      OBVIOUS
    <2>1. PICK k \in 1 .. Len(s) : s[k] = e
      BY <1>2, InToSet
    <2> DEFINE I == {i \in 1 .. Len(s) : s[i] = e}
    <2>2. I = {k}
      BY <2>0, <2>1 DEF IsInjective
    <2> DEFINE u == SubSeq(s, 1, k - 1)
               v == SubSeq(s, k + 1, Len(s))
               r == u \o v
    <2>3. RemoveFirst(s, e) = r
      <3>1. \E i \in 1 .. Len(s) : s[i] = e
        BY <2>1
      <3>2. I # {} /\ Min(I) = k
        BY <2>2, <2>1 DEF Min
      <3>3. SelectInSeq(s, LAMBDA x : x = e) = k
        BY <3>2 DEF SelectInSeq
      <3> QED BY <3>1, <3>3 DEF RemoveFirst, RemoveAt
    <2>4. u \in Seq(S) /\ Len(u) = k - 1 /\ \A i \in 1 .. k - 1 : u[i] = s[i]
      OBVIOUS
    <2>5. v \in Seq(S) /\ Len(v) = Len(s) - k /\ \A i \in 1 .. Len(s) - k : v[i] = s[k + i]
      OBVIOUS
    <2> HIDE DEF u, v
    <2>t. u \in Seq(S) /\ v \in Seq(S)
      BY <2>4, <2>5
    <2>6. r \in Seq(S) /\ Len(r) = Len(u) + Len(v)
      BY <2>t
    <2>7. Len(r) = Len(s) - 1 /\ DOMAIN r = 1 .. Len(s) - 1
      BY <2>4, <2>5, <2>6
    <2>8. \A i \in 1 .. k - 1 : r[i] = s[i]
      BY <2>4, <2>5
    <2>9. \A i \in k .. Len(s) - 1 : i - (k - 1) \in 1 .. Len(s) - k /\ r[i] = v[i - (k - 1)]
      BY <2>4, <2>5
    <2> HIDE DEF r
    <2>10. \A i \in k .. Len(s) - 1 : r[i] = s[i + 1]
      <3> SUFFICES ASSUME NEW i \in k .. Len(s) - 1 PROVE r[i] = s[i + 1]
        OBVIOUS
      <3>1. i - (k - 1) \in 1 .. Len(s) - k /\ r[i] = v[i - (k - 1)] /\ k + (i - (k - 1)) = i + 1
        BY <2>0, <2>9
      <3> QED BY <3>1, <2>5
    <2>11. IsInjective(r)
      <3> DEFINE kept(i) == IF i < k THEN i ELSE i + 1
      <3>1. \A i \in DOMAIN r : kept(i) \in DOMAIN s /\ r[i] = s[kept(i)]
        BY <2>0, <2>7, <2>8, <2>10
      <3>2. \A i, j \in DOMAIN r : kept(i) = kept(j) => i = j
        BY <2>0, <2>7
      <3> HIDE DEF kept
      <3> QED BY <3>1, <3>2 DEF IsInjective
    <2>12. ASSUME NEW x PROVE x \in ToSet(r) <=> x \in ToSet(s) /\ x # e
      <3>1. ASSUME NEW i \in 1 .. Len(r), r[i] = x PROVE x \in ToSet(s) /\ x # e
        <4>1. CASE i < k
          <5>1. i \in 1 .. k - 1 /\ i \in 1 .. Len(s) /\ i # k
            BY <4>1, <2>7
          <5>2. s[i] = x
            BY <5>1, <3>1, <2>8
          <5>3. s[i] # s[k]
            BY <5>1, <2>0 DEF IsInjective
          <5> QED BY <5>1, <5>2, <5>3, <2>1, InToSet
        <4>2. CASE i >= k
          <5>1. i \in k .. Len(s) - 1 /\ i + 1 \in 1 .. Len(s) /\ i + 1 # k
            BY <4>2, <2>7
          <5>2. s[i + 1] = x
            BY <5>1, <3>1, <2>10
          <5>3. s[i + 1] # s[k]
            BY <5>1, <2>0 DEF IsInjective
          <5> QED BY <5>1, <5>2, <5>3, <2>1, InToSet
        <4> QED BY <4>1, <4>2, <2>7
      <3>2. ASSUME NEW i \in 1 .. Len(s), s[i] = x, x # e PROVE x \in ToSet(r)
        <4>1. CASE i < k
          <5>1. i \in 1 .. k - 1 /\ i \in 1 .. Len(r)
            BY <4>1, <2>7
          <5> QED BY <5>1, <3>2, <2>6, <2>8, InToSet
        <4>2. CASE i > k
          <5>1. i - 1 \in k .. Len(s) - 1 /\ i - 1 \in 1 .. Len(r) /\ (i - 1) + 1 = i
            BY <4>2, <2>7
          <5>2. r[i - 1] = x
            BY <5>1, <3>2, <2>10
          <5> QED BY <5>1, <5>2, <2>6, InToSet
        <4> QED BY <4>1, <4>2, <3>2, <2>1
      <3> QED BY <3>1, <3>2, <2>6, InToSet
    <2> QED BY <2>3, <2>6, <2>11, <2>12 DEF r
  <1> QED BY <1>1, <1>2

-----------------------------------------------------------------------------
(* The inductive invariant.                                                *)

\* Where a fiber, a thread and a poster can be; cv is the threads that wait.
PcInv ==
    /\ \A f \in Fibers : pc[f] \in {"idle", "pred", "park", "swap", "activate", "parked", "back", "relock"}
    /\ \A t \in Threads : pc[t] \in {"idle", "pred", "cvwait", "relock"} /\ (t \in cv <=> pc[t] = "cvwait")
    /\ \A p \in Posters : pc[p] \in PosterPcs

\* Who holds the caller's mutex; a poster under it still has a post to make.
MutexInv ==
    /\ \A a \in Waiters : mutex = a <=> pc[a] \in {"pred", "park", "swap"}
    /\ \A p \in Posters : pc[p] = "add" => mutex = p /\ posts < MaxPosts
    /\ tokens <= posts

\* The spinlock belongs to the waker that takes nodes off; only it has one in hand.
LockInv ==
    \A p \in Posters :
        /\ lk = p <=> pc[p] \in {"unlink", "wake"}
        /\ node[p] # NoFiber <=> pc[p] = "wake"

\* A fiber whose node can be reached is inside the wait; it has one node.
InWait == {"park", "swap", "activate", "parked", "back"}
ListInv ==
    /\ IsInjective(list)
    /\ \A f \in ToSet(list) : pc[f] \in InWait
    /\ \A p \in Posters : node[p] \in Fibers => pc[node[p]] \in InWait

\* The claim on a park: to be had from its registration on, taken once, and the
\* fiber then made runnable once, at the activation if that is still to come.
ParkInv ==
    \A f \in Fibers :
        /\ pc[f] # "parked" => runnable[f] = 0
        /\ timed_park[f] => pc[f] \in {"swap", "activate", "parked"}
        /\ pc[f] \in {"swap", "activate"} => park_state[f] = (IF timed_park[f] THEN 0 ELSE 2)
        /\ pc[f] = "parked" /\ timed_park[f] => park_state[f] = 1 /\ runnable[f] = 0
        /\ pc[f] = "parked" /\ ~timed_park[f] => runnable[f] = 1

WakeInv == TypeOK /\ PcInv /\ MutexInv /\ LockInv /\ ListInv /\ ParkInv

\* With signals under the mutex: a poster holds it to the end of its signal ...
HeldBySignal ==
    \A p \in Posters : pc[p] \in {"add", "probe", "unlink", "wake", "cvsignal", "end"} => mutex = p

\* ... an unclaimed fiber can be found, no fiber once the signal turns to the threads ...
Found ==
    /\ \A f \in Fibers : pc[f] = "park" => f \in ToSet(list)
    /\ \A f \in Fibers : timed_park[f] => f \in ToSet(list) \/ \E p \in Posters : node[p] = f
    /\ \A p \in Posters : pc[p] = "cvsignal" => list = <<>>

\* ... and from the moment somebody is bound to sleep, enough others will look.
SomeoneWaits == cv # {} \/ \E f \in Fibers : pc[f] = "park" \/ timed_park[f]
EnoughLook == SomeoneWaits => tokens <= Cardinality(Coming) + Cardinality(Signalling)

TokenInv == HeldBySignal /\ Found /\ EnoughLook

-----------------------------------------------------------------------------
\* A caller that takes the mutex keeps WakeInv.
LEMMA EnterStep ==
    ASSUME WakeInv, NEW a \in Waiters, Enter(a)
    PROVE  WakeInv'
  <1>t. TypeOK /\ PcInv /\ MutexInv /\ LockInv /\ ListInv /\ ParkInv
    BY DEF WakeInv
  <1>1. TypeOK'
    <2>1. timed' \in [Fibers -> BOOLEAN]
      <3>1. timed' = timed \/ \E d \in BOOLEAN : timed' = [timed EXCEPT ![a] = d]
        BY DEF Enter
      <3> QED BY <1>t, <3>1 DEF TypeOK
    <2>2. result' \in [Fibers -> 0 .. 1]
      <3>1. result' = result \/ result' = [result EXCEPT ![a] = 1]
        BY DEF Enter
      <3>2. result \in [Fibers -> 0 .. 1]
        BY <1>t DEF TypeOK
      <3> QED BY <3>1, <3>2
    <2> QED BY <2>2, <1>t, <2>1, FCondAssumption, SMT DEF TypeOK, Enter, Goto, Waiters, WaiterPcs
  <1>2. PcInv'
    BY <1>t, FCondAssumption, SMT DEF TypeOK, PcInv, LockInv, Enter, Goto, Waiters, WaiterPcs, PosterPcs
  <1>3. MutexInv'
    BY <1>t, FCondAssumption, SMT DEF TypeOK, PcInv, MutexInv, Enter, Goto, Waiters, PosterPcs
  <1>4. LockInv'
    BY <1>t, FCondAssumption, SMT DEF TypeOK, PcInv, LockInv, Enter, Goto, Waiters, PosterPcs
  <1>5. ListInv'
    BY <1>t, FCondAssumption, SMT DEF TypeOK, PcInv, ListInv, LockInv, InWait, Enter, Goto, Waiters, PosterPcs
  <1>6. ParkInv'
    BY <1>t, FCondAssumption, SMT DEF TypeOK, PcInv, ParkInv, ListInv, LockInv, Enter, Goto, parkVars, Waiters, PosterPcs
  <1> QED BY <1>1, <1>2, <1>3, <1>4, <1>5, <1>6 DEF WakeInv

\* A waiter that leaves keeps WakeInv.
LEMMA DoneStep ==
    ASSUME WakeInv, NEW a \in Waiters, Done(a)
    PROVE  WakeInv'
  <1>t. TypeOK /\ PcInv /\ MutexInv /\ LockInv /\ ListInv /\ ParkInv
    BY DEF WakeInv
  <1>1. TypeOK'
    BY <1>t, FCondAssumption, SMT DEF TypeOK, PcInv, MutexInv, ParkInv, LockInv, Done, Goto, parkVars, Waiters, WaiterPcs, PosterPcs
  <1>2. PcInv'
    BY <1>t, FCondAssumption, SMT DEF TypeOK, PcInv, LockInv, Done, Goto, Waiters, WaiterPcs, PosterPcs
  <1>3. MutexInv'
    BY <1>t, FCondAssumption, SMT DEF TypeOK, PcInv, MutexInv, Done, Goto, Waiters, PosterPcs
  <1>4. LockInv'
    BY <1>t, FCondAssumption, SMT DEF TypeOK, PcInv, LockInv, Done, Goto, Waiters, PosterPcs
  <1>5. ListInv'
    BY <1>t, FCondAssumption, SMT DEF TypeOK, PcInv, ListInv, LockInv, InWait, Done, Goto, Waiters, PosterPcs
  <1>6. ParkInv'
    BY <1>t, FCondAssumption, SMT DEF TypeOK, PcInv, ParkInv, ListInv, LockInv, Done, Goto, parkVars, Waiters, PosterPcs
  <1> QED BY <1>1, <1>2, <1>3, <1>4, <1>5, <1>6 DEF WakeInv

\* A thread that starts to wait keeps WakeInv.
LEMMA ThreadWaitStep ==
    ASSUME WakeInv, NEW t \in Threads, ThreadWait(t)
    PROVE  WakeInv'
  <1>t. TypeOK /\ PcInv /\ MutexInv /\ LockInv /\ ListInv /\ ParkInv
    BY DEF WakeInv
  <1>1. TypeOK'
    BY <1>t, FCondAssumption, SMT DEF TypeOK, PcInv, MutexInv, ParkInv, LockInv, ThreadWait, Goto, parkVars, Waiters, WaiterPcs, PosterPcs
  <1>2. PcInv'
    BY <1>t, FCondAssumption, SMT DEF TypeOK, PcInv, LockInv, ThreadWait, Goto, Waiters, WaiterPcs, PosterPcs
  <1>3. MutexInv'
    BY <1>t, FCondAssumption, SMT DEF TypeOK, PcInv, MutexInv, ThreadWait, Goto, Waiters, PosterPcs
  <1>4. LockInv'
    BY <1>t, FCondAssumption, SMT DEF TypeOK, PcInv, LockInv, ThreadWait, Goto, Waiters, PosterPcs
  <1>5. ListInv'
    BY <1>t, FCondAssumption, SMT DEF TypeOK, PcInv, ListInv, LockInv, InWait, ThreadWait, Goto, Waiters, PosterPcs
  <1>6. ParkInv'
    BY <1>t, FCondAssumption, SMT DEF TypeOK, PcInv, ParkInv, ListInv, LockInv, ThreadWait, Goto, parkVars, Waiters, PosterPcs
  <1> QED BY <1>1, <1>2, <1>3, <1>4, <1>5, <1>6 DEF WakeInv

\* A thread that wakes by itself keeps WakeInv.
LEMMA SpuriousWakeStep ==
    ASSUME WakeInv, NEW t \in Threads, SpuriousWake(t)
    PROVE  WakeInv'
  <1>t. TypeOK /\ PcInv /\ MutexInv /\ LockInv /\ ListInv /\ ParkInv
    BY DEF WakeInv
  <1>1. TypeOK'
    BY <1>t, FCondAssumption, SMT DEF TypeOK, PcInv, MutexInv, ParkInv, LockInv, SpuriousWake, Goto, parkVars, Waiters, WaiterPcs, PosterPcs
  <1>2. PcInv'
    BY <1>t, FCondAssumption, SMT DEF TypeOK, PcInv, LockInv, SpuriousWake, Goto, Waiters, WaiterPcs, PosterPcs
  <1>3. MutexInv'
    <2>1. pc'[t] = "relock" /\ \A a \in Waiters \cup Posters : a # t => pc'[a] = pc[a]
      <3>1. t \in Waiters \cup Posters
        BY DEF Waiters
      <3> QED BY <1>t, <3>1 DEF TypeOK, SpuriousWake, Goto
    <2>2. mutex # t /\ t \in Waiters /\ t \notin Posters
      BY <1>t, FCondAssumption DEF MutexInv, SpuriousWake, Waiters
    <2> QED BY <1>t, <2>1, <2>2, SMT DEF MutexInv, SpuriousWake, Waiters
  <1>4. LockInv'
    BY <1>t, FCondAssumption, SMT DEF TypeOK, PcInv, LockInv, SpuriousWake, Goto, Waiters, PosterPcs
  <1>5. ListInv'
    BY <1>t, FCondAssumption, SMT DEF TypeOK, PcInv, ListInv, LockInv, InWait, SpuriousWake, Goto, Waiters, PosterPcs
  <1>6. ParkInv'
    BY <1>t, FCondAssumption, SMT DEF TypeOK, PcInv, ParkInv, ListInv, LockInv, SpuriousWake, Goto, parkVars, Waiters, PosterPcs
  <1> QED BY <1>1, <1>2, <1>3, <1>4, <1>5, <1>6 DEF WakeInv

\* Queueing a node keeps WakeInv.
LEMMA FiberQueueStep ==
    ASSUME WakeInv, NEW f \in Fibers, FiberQueue(f)
    PROVE  WakeInv'
  <1>t. TypeOK /\ PcInv /\ MutexInv /\ LockInv /\ ListInv /\ ParkInv
    BY DEF WakeInv
  <1>q. list' \in Seq(Fibers) /\ IsInjective(list') /\ ToSet(list') = ToSet(list) \cup {f}
    <2>1. list \in Seq(Fibers) /\ IsInjective(list) /\ f \notin ToSet(list)
      BY <1>t DEF TypeOK, ListInv, InWait, FiberQueue
    <2> QED BY <2>1, QueueAppend DEF FiberQueue
  <1>1. TypeOK'
    BY <1>t, <1>q, FCondAssumption, SMT DEF TypeOK, PcInv, MutexInv, ParkInv, LockInv, FiberQueue, Goto, parkVars, Waiters, WaiterPcs, PosterPcs
  <1>2. PcInv'
    BY <1>t, FCondAssumption, SMT DEF TypeOK, PcInv, LockInv, FiberQueue, Goto, Waiters, WaiterPcs, PosterPcs
  <1>3. MutexInv'
    BY <1>t, FCondAssumption, SMT DEF TypeOK, PcInv, MutexInv, FiberQueue, Goto, Waiters, PosterPcs
  <1>4. LockInv'
    BY <1>t, <1>q, FCondAssumption, SMT DEF TypeOK, PcInv, LockInv, FiberQueue, Goto, Waiters, PosterPcs
  <1>5. ListInv'
    BY <1>t, <1>q, FCondAssumption, SMT DEF TypeOK, PcInv, ListInv, LockInv, InWait, FiberQueue, Goto, Waiters, PosterPcs
  <1>6. ParkInv'
    BY <1>t, FCondAssumption, SMT DEF TypeOK, PcInv, ParkInv, ListInv, LockInv, FiberQueue, Goto, parkVars, Waiters, PosterPcs
  <1> QED BY <1>1, <1>2, <1>3, <1>4, <1>5, <1>6 DEF WakeInv

\* Registering a park keeps WakeInv.
LEMMA FiberParkStep ==
    ASSUME WakeInv, NEW f \in Fibers, FiberPark(f)
    PROVE  WakeInv'
  <1>t. TypeOK /\ PcInv /\ MutexInv /\ LockInv /\ ListInv /\ ParkInv
    BY DEF WakeInv
  <1>1. TypeOK'
    BY <1>t, FCondAssumption, SMT DEF TypeOK, PcInv, MutexInv, ParkInv, LockInv, FiberPark, Goto, parkVars, Waiters, WaiterPcs, PosterPcs
  <1>2. PcInv'
    BY <1>t, FCondAssumption, SMT DEF TypeOK, PcInv, LockInv, FiberPark, Goto, Waiters, WaiterPcs, PosterPcs
  <1>3. MutexInv'
    BY <1>t, FCondAssumption, SMT DEF TypeOK, PcInv, MutexInv, FiberPark, Goto, Waiters, PosterPcs
  <1>4. LockInv'
    BY <1>t, FCondAssumption, SMT DEF TypeOK, PcInv, LockInv, FiberPark, Goto, Waiters, PosterPcs
  <1>5. ListInv'
    BY <1>t, FCondAssumption, SMT DEF TypeOK, PcInv, ListInv, LockInv, InWait, FiberPark, Goto, Waiters, PosterPcs
  <1>6. ParkInv'
    BY <1>t, FCondAssumption, SMT DEF TypeOK, PcInv, ParkInv, ListInv, LockInv, FiberPark, Goto, parkVars, Waiters, PosterPcs
  <1> QED BY <1>1, <1>2, <1>3, <1>4, <1>5, <1>6 DEF WakeInv

\* The worker loop's unlock keeps WakeInv.
LEMMA LoopUnlockStep ==
    ASSUME WakeInv, NEW f \in Fibers, LoopUnlock(f)
    PROVE  WakeInv'
  <1>t. TypeOK /\ PcInv /\ MutexInv /\ LockInv /\ ListInv /\ ParkInv
    BY DEF WakeInv
  <1>1. TypeOK'
    BY <1>t, FCondAssumption, SMT DEF TypeOK, PcInv, MutexInv, ParkInv, LockInv, LoopUnlock, Goto, parkVars, Waiters, WaiterPcs, PosterPcs
  <1>2. PcInv'
    BY <1>t, FCondAssumption, SMT DEF TypeOK, PcInv, LockInv, LoopUnlock, Goto, Waiters, WaiterPcs, PosterPcs
  <1>3. MutexInv'
    BY <1>t, FCondAssumption, SMT DEF TypeOK, PcInv, MutexInv, LoopUnlock, Goto, Waiters, PosterPcs
  <1>4. LockInv'
    BY <1>t, FCondAssumption, SMT DEF TypeOK, PcInv, LockInv, LoopUnlock, Goto, Waiters, PosterPcs
  <1>5. ListInv'
    BY <1>t, FCondAssumption, SMT DEF TypeOK, PcInv, ListInv, LockInv, InWait, LoopUnlock, Goto, Waiters, PosterPcs
  <1>6. ParkInv'
    BY <1>t, FCondAssumption, SMT DEF TypeOK, PcInv, ParkInv, ListInv, LockInv, LoopUnlock, Goto, parkVars, Waiters, PosterPcs
  <1> QED BY <1>1, <1>2, <1>3, <1>4, <1>5, <1>6 DEF WakeInv

\* An activation keeps WakeInv.
LEMMA ActivateStep ==
    ASSUME WakeInv, NEW f \in Fibers, Activate(f)
    PROVE  WakeInv'
  <1>t. TypeOK /\ PcInv /\ MutexInv /\ LockInv /\ ListInv /\ ParkInv
    BY DEF WakeInv
  <1>1. TypeOK'
    <2>1. result' \in [Fibers -> 0 .. 1]
      <3>1. result' = result \/ result' = [result EXCEPT ![f] = 1]
        BY DEF Activate
      <3>2. result \in [Fibers -> 0 .. 1]
        BY <1>t DEF TypeOK
      <3> QED BY <3>1, <3>2
    <2>2. runnable' \in [Fibers -> Nat]
      BY <1>t DEF TypeOK, Activate, MakeRunnable
    <2>3. park_state' \in [Fibers -> 0 .. 2]
      BY <1>t DEF TypeOK, Activate
    <2> QED BY <1>t, <2>1, <2>2, <2>3, SMT DEF TypeOK, Activate, Goto, Waiters, WaiterPcs
  <1>2. PcInv'
    BY <1>t, FCondAssumption, SMT DEF TypeOK, PcInv, LockInv, Activate, Goto, MakeRunnable, Waiters, WaiterPcs, PosterPcs
  <1>3. MutexInv'
    BY <1>t, FCondAssumption, SMT DEF TypeOK, PcInv, MutexInv, Activate, Goto, MakeRunnable, Waiters, PosterPcs
  <1>4. LockInv'
    BY <1>t, FCondAssumption, SMT DEF TypeOK, PcInv, LockInv, Activate, Goto, MakeRunnable, Waiters, PosterPcs
  <1>5. ListInv'
    BY <1>t, FCondAssumption, SMT DEF TypeOK, PcInv, ListInv, LockInv, InWait, Activate, Goto, MakeRunnable, Waiters, PosterPcs
  <1>6. ParkInv'
    BY <1>t, FCondAssumption, SMT DEF TypeOK, PcInv, ParkInv, ListInv, LockInv, Activate, Goto, MakeRunnable, parkVars, Waiters, PosterPcs
  <1> QED BY <1>1, <1>2, <1>3, <1>4, <1>5, <1>6 DEF WakeInv

\* A deadline keeps WakeInv.
LEMMA ExpireStep ==
    ASSUME WakeInv, NEW f \in Fibers, Expire(f)
    PROVE  WakeInv'
  <1>t. TypeOK /\ PcInv /\ MutexInv /\ LockInv /\ ListInv /\ ParkInv
    BY DEF WakeInv
  <1>1. TypeOK'
    BY <1>t, FCondAssumption, SMT DEF TypeOK, PcInv, MutexInv, ParkInv, LockInv, Expire, Goto, MakeRunnable, parkVars, Waiters, WaiterPcs, PosterPcs
  <1>2. PcInv'
    BY <1>t, FCondAssumption, SMT DEF TypeOK, PcInv, LockInv, Expire, Goto, MakeRunnable, Waiters, WaiterPcs, PosterPcs
  <1>3. MutexInv'
    BY <1>t, FCondAssumption, SMT DEF TypeOK, PcInv, MutexInv, Expire, Goto, MakeRunnable, Waiters, PosterPcs
  <1>4. LockInv'
    BY <1>t, FCondAssumption, SMT DEF TypeOK, PcInv, LockInv, Expire, Goto, MakeRunnable, Waiters, PosterPcs
  <1>5. ListInv'
    BY <1>t, FCondAssumption, SMT DEF TypeOK, PcInv, ListInv, LockInv, InWait, Expire, Goto, MakeRunnable, Waiters, PosterPcs
  <1>6. ParkInv'
    BY <1>t, FCondAssumption, SMT DEF TypeOK, PcInv, ParkInv, ListInv, LockInv, Expire, Goto, MakeRunnable, parkVars, Waiters, PosterPcs
  <1> QED BY <1>1, <1>2, <1>3, <1>4, <1>5, <1>6 DEF WakeInv

\* Resuming a fiber keeps WakeInv.
LEMMA ResumeStep ==
    ASSUME WakeInv, NEW f \in Fibers, Resume(f)
    PROVE  WakeInv'
  <1>t. TypeOK /\ PcInv /\ MutexInv /\ LockInv /\ ListInv /\ ParkInv
    BY DEF WakeInv
  <1>1. TypeOK'
    BY <1>t, FCondAssumption, SMT DEF TypeOK, PcInv, MutexInv, ParkInv, LockInv, Resume, Goto, parkVars, Waiters, WaiterPcs, PosterPcs
  <1>2. PcInv'
    BY <1>t, FCondAssumption, SMT DEF TypeOK, PcInv, LockInv, Resume, Goto, Waiters, WaiterPcs, PosterPcs
  <1>3. MutexInv'
    BY <1>t, FCondAssumption, SMT DEF TypeOK, PcInv, MutexInv, Resume, Goto, Waiters, PosterPcs
  <1>4. LockInv'
    BY <1>t, FCondAssumption, SMT DEF TypeOK, PcInv, LockInv, Resume, Goto, Waiters, PosterPcs
  <1>5. ListInv'
    BY <1>t, FCondAssumption, SMT DEF TypeOK, PcInv, ListInv, LockInv, InWait, Resume, Goto, Waiters, PosterPcs
  <1>6. ParkInv'
    BY <1>t, FCondAssumption, SMT DEF TypeOK, PcInv, ParkInv, ListInv, LockInv, Resume, Goto, parkVars, Waiters, PosterPcs
  <1> QED BY <1>1, <1>2, <1>3, <1>4, <1>5, <1>6 DEF WakeInv

\* Taking the own node off keeps WakeInv.
LEMMA BackStep ==
    ASSUME WakeInv, NEW f \in Fibers, Back(f)
    PROVE  WakeInv'
  <1>t. TypeOK /\ PcInv /\ MutexInv /\ LockInv /\ ListInv /\ ParkInv
    BY DEF WakeInv
  <1>q. list' \in Seq(Fibers) /\ IsInjective(list') /\ ToSet(list') = ToSet(list) \ {f}
    <2>1. list \in Seq(Fibers) /\ IsInjective(list)
      BY <1>t DEF TypeOK, ListInv
    <2> QED BY <2>1, QueueRemove DEF Back
  <1>1. TypeOK'
    BY <1>t, <1>q, FCondAssumption, SMT DEF TypeOK, PcInv, MutexInv, ParkInv, LockInv, Back, Goto, parkVars, Waiters, WaiterPcs, PosterPcs
  <1>2. PcInv'
    BY <1>t, FCondAssumption, SMT DEF TypeOK, PcInv, LockInv, Back, Goto, Waiters, WaiterPcs, PosterPcs
  <1>3. MutexInv'
    BY <1>t, FCondAssumption, SMT DEF TypeOK, PcInv, MutexInv, Back, Goto, Waiters, PosterPcs
  <1>4. LockInv'
    BY <1>t, <1>q, FCondAssumption, SMT DEF TypeOK, PcInv, LockInv, Back, Goto, Waiters, PosterPcs
  <1>5. ListInv'
    BY <1>t, <1>q, FCondAssumption, SMT DEF TypeOK, PcInv, ListInv, LockInv, InWait, Back, Goto, Waiters, PosterPcs
  <1>6. ParkInv'
    BY <1>t, FCondAssumption, SMT DEF TypeOK, PcInv, ParkInv, ListInv, LockInv, Back, Goto, parkVars, Waiters, PosterPcs
  <1> QED BY <1>1, <1>2, <1>3, <1>4, <1>5, <1>6 DEF WakeInv

\* Taking the mutex again keeps WakeInv.
LEMMA RelockStep ==
    ASSUME WakeInv, NEW a \in Waiters, Relock(a)
    PROVE  WakeInv'
  <1>t. TypeOK /\ PcInv /\ MutexInv /\ LockInv /\ ListInv /\ ParkInv
    BY DEF WakeInv
  <1>1. TypeOK'
    BY <1>t, FCondAssumption, SMT DEF TypeOK, PcInv, MutexInv, ParkInv, LockInv, Relock, Goto, parkVars, Waiters, WaiterPcs, PosterPcs
  <1>2. PcInv'
    BY <1>t, FCondAssumption, SMT DEF TypeOK, PcInv, LockInv, Relock, Goto, Waiters, WaiterPcs, PosterPcs
  <1>3. MutexInv'
    BY <1>t, FCondAssumption, SMT DEF TypeOK, PcInv, MutexInv, Relock, Goto, Waiters, PosterPcs
  <1>4. LockInv'
    BY <1>t, FCondAssumption, SMT DEF TypeOK, PcInv, LockInv, Relock, Goto, Waiters, PosterPcs
  <1>5. ListInv'
    BY <1>t, FCondAssumption, SMT DEF TypeOK, PcInv, ListInv, LockInv, InWait, Relock, Goto, Waiters, PosterPcs
  <1>6. ParkInv'
    BY <1>t, FCondAssumption, SMT DEF TypeOK, PcInv, ParkInv, ListInv, LockInv, Relock, Goto, parkVars, Waiters, PosterPcs
  <1> QED BY <1>1, <1>2, <1>3, <1>4, <1>5, <1>6 DEF WakeInv

\* A poster that takes the mutex keeps WakeInv.
LEMMA PostLockStep ==
    ASSUME WakeInv, NEW p \in Posters, NEW b \in BOOLEAN, PostLock(p, b)
    PROVE  WakeInv'
  <1>t. TypeOK /\ PcInv /\ MutexInv /\ LockInv /\ ListInv /\ ParkInv
    BY DEF WakeInv
  <1>1. TypeOK'
    BY <1>t, FCondAssumption, SMT DEF TypeOK, PcInv, MutexInv, ParkInv, LockInv, PostLock, Goto, parkVars, Waiters, WaiterPcs, PosterPcs
  <1>2. PcInv'
    BY <1>t, FCondAssumption, SMT DEF TypeOK, PcInv, LockInv, PostLock, Goto, Waiters, WaiterPcs, PosterPcs
  <1>3. MutexInv'
    BY <1>t, FCondAssumption, SMT DEF TypeOK, PcInv, MutexInv, PostLock, Goto, Waiters, PosterPcs
  <1>4. LockInv'
    BY <1>t, FCondAssumption, SMT DEF TypeOK, PcInv, LockInv, PostLock, Goto, Waiters, PosterPcs
  <1>5. ListInv'
    BY <1>t, FCondAssumption, SMT DEF TypeOK, PcInv, ListInv, LockInv, InWait, PostLock, Goto, Waiters, PosterPcs
  <1>6. ParkInv'
    BY <1>t, FCondAssumption, SMT DEF TypeOK, PcInv, ParkInv, ListInv, LockInv, PostLock, Goto, parkVars, Waiters, PosterPcs
  <1> QED BY <1>1, <1>2, <1>3, <1>4, <1>5, <1>6 DEF WakeInv

\* A post keeps WakeInv.
LEMMA PostStep ==
    ASSUME WakeInv, NEW p \in Posters, NEW late \in BOOLEAN, Post(p, late)
    PROVE  WakeInv'
  <1>t. TypeOK /\ PcInv /\ MutexInv /\ LockInv /\ ListInv /\ ParkInv
    BY DEF WakeInv
  <1>1. TypeOK'
    BY <1>t, FCondAssumption, SMT DEF TypeOK, PcInv, MutexInv, ParkInv, LockInv, Post, Goto, parkVars, Waiters, WaiterPcs, PosterPcs
  <1>2. PcInv'
    BY <1>t, FCondAssumption, SMT DEF TypeOK, PcInv, LockInv, Post, Goto, Waiters, WaiterPcs, PosterPcs
  <1>3. MutexInv'
    BY <1>t, FCondAssumption, SMT DEF TypeOK, PcInv, MutexInv, Post, Goto, Waiters, PosterPcs
  <1>4. LockInv'
    BY <1>t, FCondAssumption, SMT DEF TypeOK, PcInv, LockInv, Post, Goto, Waiters, PosterPcs
  <1>5. ListInv'
    BY <1>t, FCondAssumption, SMT DEF TypeOK, PcInv, ListInv, LockInv, InWait, Post, Goto, Waiters, PosterPcs
  <1>6. ParkInv'
    BY <1>t, FCondAssumption, SMT DEF TypeOK, PcInv, ParkInv, ListInv, LockInv, Post, Goto, parkVars, Waiters, PosterPcs
  <1> QED BY <1>1, <1>2, <1>3, <1>4, <1>5, <1>6 DEF WakeInv

\* The look at the list keeps WakeInv.
LEMMA ProbeStep ==
    ASSUME WakeInv, NEW p \in Posters, Probe(p)
    PROVE  WakeInv'
  <1>t. TypeOK /\ PcInv /\ MutexInv /\ LockInv /\ ListInv /\ ParkInv
    BY DEF WakeInv
  <1>p. PICK l \in {"cvsignal", "unlink"} : pc' = [pc EXCEPT ![p] = l]
    BY DEF Probe, Goto
  <1>c. /\ pc'[p] = l /\ p \notin Waiters
        /\ \A a \in Waiters \cup Posters : a # p => pc'[a] = pc[a]
    BY <1>t, <1>p, FCondAssumption DEF TypeOK
  <1>1. TypeOK'
    <2>1. pc' \in [Waiters \cup Posters -> WaiterPcs \cup PosterPcs]
      BY <1>t, <1>p DEF TypeOK, PosterPcs
    <2>2. lk' \in Posters \cup {Nobody}
      BY <1>t DEF TypeOK, Probe
    <2> QED BY <1>t, <2>1, <2>2 DEF TypeOK, Probe, parkVars
  <1>2. PcInv'
    BY <1>t, <1>c DEF PcInv, Probe, Waiters, PosterPcs
  <1>3. MutexInv'
    BY <1>t, <1>c DEF MutexInv, Probe, Waiters
  <1>4. LockInv'
    BY <1>t, FCondAssumption, SMT DEF TypeOK, PcInv, LockInv, Probe, Goto, Waiters, PosterPcs
  <1>5. ListInv'
    <2>1. ToSet(list) \subseteq Waiters
      BY <1>t, ToSetType DEF TypeOK, Waiters
    <2> QED BY <1>t, <1>c, <2>1 DEF ListInv, Probe, Waiters
  <1>6. ParkInv'
    BY <1>t, FCondAssumption, SMT DEF TypeOK, PcInv, ParkInv, ListInv, LockInv, Probe, Goto, parkVars, Waiters, PosterPcs
  <1> QED BY <1>1, <1>2, <1>3, <1>4, <1>5, <1>6 DEF WakeInv

\* Taking a node off keeps WakeInv.
LEMMA UnlinkHeadStep ==
    ASSUME WakeInv, NEW p \in Posters, UnlinkHead(p)
    PROVE  WakeInv'
  <1>t. TypeOK /\ PcInv /\ MutexInv /\ LockInv /\ ListInv /\ ParkInv
    BY DEF WakeInv
  <1>q. list' \in Seq(Fibers) /\ IsInjective(list') /\ ToSet(list') \subseteq ToSet(list)
        /\ (list # <<>> => Head(list) \in ToSet(list) /\ Head(list) \in Fibers)
    <2>1. list \in Seq(Fibers) /\ IsInjective(list) /\ ToSet(list) \subseteq Fibers
      BY <1>t, ToSetType DEF TypeOK, ListInv
    <2>2. list # <<>> => /\ Tail(list) \in Seq(Fibers) /\ IsInjective(Tail(list))
                         /\ Head(list) \in ToSet(list) /\ ToSet(Tail(list)) \subseteq ToSet(list)
      BY <2>1, QueueTail
    <2> QED BY <2>1, <2>2 DEF UnlinkHead
  <1>p. PICK l \in {"cvsignal", "wake"} : pc' = [pc EXCEPT ![p] = l]
    BY DEF UnlinkHead, Goto
  <1>c. /\ pc'[p] = l /\ p \notin Waiters
        /\ \A a \in Waiters \cup Posters : a # p => pc'[a] = pc[a]
    BY <1>t, <1>p, FCondAssumption DEF TypeOK
  <1>1. TypeOK'
    <2>1. pc' \in [Waiters \cup Posters -> WaiterPcs \cup PosterPcs]
      BY <1>t, <1>p DEF TypeOK, PosterPcs
    <2>2. lk' \in Posters \cup {Nobody} /\ node' \in [Posters -> Fibers \cup {NoFiber}]
      BY <1>t, <1>q DEF TypeOK, UnlinkHead
    <2> QED BY <1>t, <1>q, <2>1, <2>2 DEF TypeOK, UnlinkHead, parkVars
  <1>2. PcInv'
    BY <1>t, <1>c DEF PcInv, UnlinkHead, Waiters, PosterPcs
  <1>3. MutexInv'
    BY <1>t, <1>c DEF MutexInv, UnlinkHead, Waiters
  <1>4. LockInv'
    BY <1>t, <1>q, FCondAssumption, SMT DEF TypeOK, PcInv, LockInv, UnlinkHead, Goto, Waiters, PosterPcs
  <1>5. ListInv'
    <2>1. ToSet(list) \subseteq Waiters
      BY <1>t, ToSetType DEF TypeOK, Waiters
    <2>2. \A f \in ToSet(list') : pc'[f] \in InWait
      BY <1>t, <1>q, <1>c, <2>1 DEF ListInv
    <2>3. \A r \in Posters : node'[r] \in Fibers => pc'[node'[r]] \in InWait
      BY <1>t, <1>q, <1>c, <2>1 DEF TypeOK, ListInv, UnlinkHead, Waiters
    <2> QED BY <1>q, <2>2, <2>3 DEF ListInv
  <1>6. ParkInv'
    BY <1>t, FCondAssumption, SMT DEF TypeOK, PcInv, ParkInv, ListInv, LockInv, UnlinkHead, Goto, parkVars, Waiters, PosterPcs
  <1> QED BY <1>1, <1>2, <1>3, <1>4, <1>5, <1>6 DEF WakeInv

\* A wake keeps WakeInv.
LEMMA WakeFiberStep ==
    ASSUME WakeInv, NEW p \in Posters, WakeFiber(p)
    PROVE  WakeInv'
  <1>t. TypeOK /\ PcInv /\ MutexInv /\ LockInv /\ ListInv /\ ParkInv
    BY DEF WakeInv
  <1>n. node[p] \in Fibers
    BY <1>t DEF TypeOK, LockInv, WakeFiber
  <1>p. PICK l \in {"unlink", "end"} : pc' = [pc EXCEPT ![p] = l]
    BY DEF WakeFiber, Goto
  <1>c. /\ pc'[p] = l /\ p \notin Waiters
        /\ \A a \in Waiters \cup Posters : a # p => pc'[a] = pc[a]
    BY <1>t, <1>p, FCondAssumption DEF TypeOK
  <1>1. TypeOK'
    <2>1. pc' \in [Waiters \cup Posters -> WaiterPcs \cup PosterPcs]
      BY <1>t, <1>p DEF TypeOK, PosterPcs
    <2>2. lk' \in Posters \cup {Nobody} /\ node' \in [Posters -> Fibers \cup {NoFiber}]
      BY <1>t DEF TypeOK, WakeFiber
    <2>3. timed_park' \in [Fibers -> BOOLEAN]
      <3>1. timed_park' = timed_park \/ timed_park' = [timed_park EXCEPT ![node[p]] = FALSE]
        BY DEF WakeFiber
      <3> QED BY <1>t, <3>1 DEF TypeOK
    <2>4. park_state' \in [Fibers -> 0 .. 2]
      <3>1. park_state' = park_state \/ park_state' = [park_state EXCEPT ![node[p]] = 2]
        BY DEF WakeFiber
      <3>2. park_state \in [Fibers -> 0 .. 2]
        BY <1>t DEF TypeOK
      <3> QED BY <3>1, <3>2
    <2>5. result' \in [Fibers -> 0 .. 1]
      <3>1. result' = result \/ result' = [result EXCEPT ![node[p]] = 1]
        BY DEF WakeFiber
      <3>2. result \in [Fibers -> 0 .. 1]
        BY <1>t DEF TypeOK
      <3> QED BY <3>1, <3>2
    <2>6. runnable' \in [Fibers -> Nat]
      <3>1. runnable' = runnable \/ runnable' = [runnable EXCEPT ![node[p]] = @ + 1]
        BY DEF WakeFiber, MakeRunnable
      <3>2. runnable \in [Fibers -> Nat]
        BY <1>t DEF TypeOK
      <3> QED BY <3>1, <3>2
    <2> QED BY <1>t, <2>1, <2>2, <2>3, <2>4, <2>5, <2>6 DEF TypeOK, WakeFiber
  <1>2. PcInv'
    BY <1>t, <1>c DEF PcInv, WakeFiber, Waiters, PosterPcs
  <1>3. MutexInv'
    BY <1>t, <1>c DEF MutexInv, WakeFiber, Waiters
  <1>4. LockInv'
    BY <1>t, FCondAssumption, SMT DEF TypeOK, PcInv, LockInv, WakeFiber, Goto, MakeRunnable, Waiters, PosterPcs
  <1>5. ListInv'
    <2>1. ToSet(list) \subseteq Waiters
      BY <1>t, ToSetType DEF TypeOK, Waiters
    <2>2. \A r \in Posters : node'[r] \in Fibers => node'[r] = node[r]
      BY <1>t, FCondAssumption DEF TypeOK, WakeFiber
    <2> QED BY <1>t, <1>c, <2>1, <2>2 DEF ListInv, WakeFiber, Waiters
  <1>6. ParkInv'
    BY <1>t, FCondAssumption, SMT DEF TypeOK, PcInv, ParkInv, ListInv, LockInv, WakeFiber, Goto, MakeRunnable, parkVars, Waiters, PosterPcs
  <1> QED BY <1>1, <1>2, <1>3, <1>4, <1>5, <1>6 DEF WakeInv

\* The signal to the threads keeps WakeInv.
LEMMA CvSignalStep ==
    ASSUME WakeInv, NEW p \in Posters, CvSignal(p)
    PROVE  WakeInv'
  <1>t. TypeOK /\ PcInv /\ MutexInv /\ LockInv /\ ListInv /\ ParkInv
    BY DEF WakeInv
  <1>1. TypeOK'
    BY <1>t, FCondAssumption, SMT DEF TypeOK, PcInv, MutexInv, ParkInv, LockInv, CvSignal, parkVars, Waiters, WaiterPcs, PosterPcs
  <1>2. PcInv'
    BY <1>t, FCondAssumption, SMT DEF TypeOK, PcInv, LockInv, CvSignal, Waiters, WaiterPcs, PosterPcs
  <1>3. MutexInv'
    BY <1>t, FCondAssumption, SMT DEF TypeOK, PcInv, MutexInv, CvSignal, Waiters, PosterPcs
  <1>4. LockInv'
    BY <1>t, FCondAssumption, SMT DEF TypeOK, PcInv, LockInv, CvSignal, Waiters, PosterPcs
  <1>5. ListInv'
    <2>1. ToSet(list) \subseteq Fibers
      BY <1>t, ToSetType DEF TypeOK
    <2>2. \A f \in Fibers : pc'[f] = pc[f]
      BY <1>t, FCondAssumption DEF TypeOK, CvSignal, Waiters
    <2> QED BY <1>t, <2>1, <2>2 DEF ListInv, CvSignal
  <1>6. ParkInv'
    BY <1>t, FCondAssumption, SMT DEF TypeOK, PcInv, ParkInv, ListInv, LockInv, CvSignal, parkVars, Waiters, PosterPcs
  <1> QED BY <1>1, <1>2, <1>3, <1>4, <1>5, <1>6 DEF WakeInv

\* A poster's unlock keeps WakeInv.
LEMMA PostUnlockStep ==
    ASSUME WakeInv, NEW p \in Posters, PostUnlock(p)
    PROVE  WakeInv'
  <1>t. TypeOK /\ PcInv /\ MutexInv /\ LockInv /\ ListInv /\ ParkInv
    BY DEF WakeInv
  <1>1. TypeOK'
    BY <1>t, FCondAssumption, SMT DEF TypeOK, PcInv, MutexInv, ParkInv, LockInv, PostUnlock, Goto, parkVars, Waiters, WaiterPcs, PosterPcs
  <1>2. PcInv'
    BY <1>t, FCondAssumption, SMT DEF TypeOK, PcInv, LockInv, PostUnlock, Goto, Waiters, WaiterPcs, PosterPcs
  <1>3. MutexInv'
    BY <1>t, FCondAssumption, SMT DEF TypeOK, PcInv, MutexInv, PostUnlock, Goto, Waiters, PosterPcs
  <1>4. LockInv'
    BY <1>t, FCondAssumption, SMT DEF TypeOK, PcInv, LockInv, PostUnlock, Goto, Waiters, PosterPcs
  <1>5. ListInv'
    BY <1>t, FCondAssumption, SMT DEF TypeOK, PcInv, ListInv, LockInv, InWait, PostUnlock, Goto, Waiters, PosterPcs
  <1>6. ParkInv'
    BY <1>t, FCondAssumption, SMT DEF TypeOK, PcInv, ParkInv, ListInv, LockInv, PostUnlock, Goto, parkVars, Waiters, PosterPcs
  <1> QED BY <1>1, <1>2, <1>3, <1>4, <1>5, <1>6 DEF WakeInv

\* nurl_fcond_init establishes the invariant.
LEMMA WakeInit == Init => WakeInv
  <1> SUFFICES ASSUME Init PROVE WakeInv
    OBVIOUS
  <1>0. ToSet(<<>>) = {} /\ IsInjective(<<>>)
    BY DEF ToSet, IsInjective
  <1>1. TypeOK
    BY FCondAssumption DEF Init, TypeOK, WaiterPcs, PosterPcs
  <1>2. PcInv
    BY DEF Init, PcInv, PosterPcs, Waiters
  <1>3. MutexInv
    BY FCondAssumption DEF Init, MutexInv, Waiters
  <1>4. LockInv
    BY FCondAssumption DEF Init, LockInv
  <1>5. ListInv
    BY <1>0, FCondAssumption DEF Init, ListInv
  <1>6. ParkInv
    BY DEF Init, ParkInv, Waiters
  <1> QED BY <1>1, <1>2, <1>3, <1>4, <1>5, <1>6 DEF WakeInv

\* Every step keeps the invariant.
LEMMA WakeStep ==
    ASSUME WakeInv, [Next]_vars
    PROVE  WakeInv'
  <1>1. CASE UNCHANGED vars
    BY <1>1 DEF vars, parkVars, WakeInv, TypeOK, PcInv, MutexInv, LockInv, ListInv, ParkInv
  <1>2. ASSUME NEW a \in Waiters, Enter(a) PROVE WakeInv'
    BY <1>2, EnterStep
  <1>3. ASSUME NEW a \in Waiters, Wait(a) PROVE WakeInv'
    BY <1>3, DoneStep, RelockStep, FiberQueueStep, FiberParkStep, LoopUnlockStep, ActivateStep, ExpireStep,
       ResumeStep, BackStep, ThreadWaitStep DEF Wait, FiberStep
  <1>4. ASSUME NEW t \in Threads, SpuriousWake(t) PROVE WakeInv'
    BY <1>4, SpuriousWakeStep
  <1>5. ASSUME NEW p \in Posters, PosterStep(p) PROVE WakeInv'
    BY <1>5, PostStep, ProbeStep, UnlinkHeadStep, WakeFiberStep, CvSignalStep, PostUnlockStep DEF PosterStep
  <1>6. ASSUME NEW p \in Posters, NEW b \in BOOLEAN, PostLock(p, b) PROVE WakeInv'
    BY <1>6, PostLockStep
  <1> QED BY <1>1, <1>2, <1>3, <1>4, <1>5, <1>6 DEF Next

\* The claims on parks, the locks and the nodes are as WakeInv says, for every
\* set of fibers, threads and posters, with signals under the mutex or after it.
THEOREM WakesHold == Spec => []WakeInv
  <1>1. WakeInv /\ [Next]_vars => WakeInv'
    BY WakeStep
  <1> QED BY WakeInit, <1>1, PTL DEF Spec

\* A parked fiber is made runnable at most once, whether a wake, a deadline or its
\* own activation comes first (nurl_fiber_wake, nurl__np_expire_locked).
THEOREM RunnableOnceHolds == Spec => []RunnableOnce
  <1>1. WakeInv => RunnableOnce
    BY DEF WakeInv, TypeOK, ParkInv, RunnableOnce
  <1> QED BY WakesHold, <1>1, PTL

\* A waker only reaches nodes of fibers that are still inside the wait
\* (runtime_ffi.c:5630), late signals included.
THEOREM NodeAliveHolds == Spec => []NodeAlive
  <1>1. WakeInv => NodeAlive
    BY DEF WakeInv, ListInv, NodeAlive, InWait
  <1> QED BY WakesHold, <1>1, PTL

-----------------------------------------------------------------------------
\* The waiters on their way and the signals to come are finitely many.
LEMMA LookingFinite ==
    /\ IsFiniteSet(Coming) /\ IsFiniteSet(Coming') /\ Cardinality(Coming) \in Nat /\ Cardinality(Coming') \in Nat
    /\ IsFiniteSet(Signalling) /\ IsFiniteSet(Signalling')
    /\ Cardinality(Signalling) \in Nat /\ Cardinality(Signalling') \in Nat
  <1>1. Coming \subseteq Waiters /\ Coming' \subseteq Waiters /\ Signalling \subseteq Posters /\ Signalling' \subseteq Posters
    BY DEF Coming, Signalling
  <1>2. IsFiniteSet(Waiters) /\ IsFiniteSet(Posters)
    BY FCondAssumption
  <1>3. IsFiniteSet(Coming) /\ IsFiniteSet(Coming') /\ IsFiniteSet(Signalling) /\ IsFiniteSet(Signalling')
    BY <1>1, <1>2, FS_Subset
  <1> QED BY <1>3, FS_CardinalityType

\* Taking one element away loses at most one.
LEMMA CountLess ==
    ASSUME NEW A, NEW B, IsFiniteSet(A), IsFiniteSet(B), NEW x, A \ {x} \subseteq B
    PROVE  Cardinality(A) <= Cardinality(B) + 1
  <1>1. Cardinality(A) \in Nat /\ Cardinality(B) \in Nat
    BY FS_CardinalityType
  <1>2. Cardinality(A \ {x}) \in {Cardinality(A), Cardinality(A) - 1}
    BY <1>1, FS_RemoveElement
  <1>3. Cardinality(A \ {x}) <= Cardinality(B)
    BY FS_Subset
  <1> QED BY <1>1, <1>2, <1>3

\* A set with an element its part lacks has more elements.
LEMMA CountMore ==
    ASSUME NEW A, NEW B, IsFiniteSet(A), IsFiniteSet(B), A \subseteq B, NEW x \in B, x \notin A
    PROVE  Cardinality(A) + 1 <= Cardinality(B)
  <1>1. Cardinality(A) \in Nat /\ Cardinality(B) \in Nat
    BY FS_CardinalityType
  <1>2. Cardinality(A \cup {x}) = Cardinality(A) + 1
    BY <1>1, FS_AddElement
  <1>3. A \cup {x} \subseteq B
    OBVIOUS
  <1>4. Cardinality(A \cup {x}) <= Cardinality(B)
    BY <1>3, FS_Subset
  <1> QED BY <1>2, <1>4

\* A step that takes nobody off his way and adds no token and no sleeper.
LEMMA LooksKept ==
    ASSUME TypeOK, EnoughLook, Coming \subseteq Coming', Signalling \subseteq Signalling',
           tokens' = tokens, SomeoneWaits' => SomeoneWaits
    PROVE  EnoughLook'
  <1>1. Cardinality(Coming) <= Cardinality(Coming')
    BY LookingFinite, FS_Subset
  <1>2. Cardinality(Signalling) <= Cardinality(Signalling')
    BY LookingFinite, FS_Subset
  <1>3. tokens \in Nat
    BY FCondAssumption DEF TypeOK
  <1> QED BY <1>1, <1>2, <1>3, LookingFinite DEF EnoughLook

\* Without a token nobody can be left behind.
LEMMA NothingToTake ==
    ASSUME tokens' = 0
    PROVE  EnoughLook'
  BY LookingFinite DEF EnoughLook

\* A caller that takes the mutex keeps TokenInv.
LEMMA EnterToken ==
    ASSUME ~LateSignal, WakeInv, TokenInv, NEW a \in Waiters, Enter(a)
    PROVE  TokenInv'
  <1>t. TypeOK /\ PcInv /\ MutexInv /\ LockInv /\ ListInv /\ ParkInv /\ HeldBySignal /\ Found /\ EnoughLook
    BY DEF WakeInv, TokenInv
  <1>1. HeldBySignal'
    BY <1>t, FCondAssumption, SMT DEF TypeOK, PcInv, MutexInv, HeldBySignal, Enter, Goto, Waiters, PosterPcs
  <1>2. Found'
    <2>1. \A g \in Fibers : pc'[g] = "park" => g \in ToSet(list')
      BY <1>t, FCondAssumption, SMT DEF TypeOK, PcInv, MutexInv, HeldBySignal, Found, Enter, Goto, Waiters, PosterPcs
    <2>2. \A g \in Fibers : timed_park'[g] => g \in ToSet(list') \/ \E r \in Posters : node'[r] = g
      BY <1>t, FCondAssumption, SMT DEF TypeOK, PcInv, MutexInv, LockInv, ParkInv, HeldBySignal, Found, Enter, Goto, parkVars, Waiters, PosterPcs
    <2>3. \A r \in Posters : pc'[r] = "cvsignal" => list' = <<>>
      BY <1>t, FCondAssumption, SMT DEF TypeOK, PcInv, MutexInv, HeldBySignal, Found, Enter, Goto, Waiters, PosterPcs
    <2> QED BY <2>1, <2>2, <2>3 DEF Found
  <1>3. EnoughLook'
    <2>1. Coming \subseteq Coming'
      BY <1>t, FCondAssumption, SMT DEF TypeOK, PcInv, ParkInv, LockInv, Coming, Enter, Goto, parkVars, Waiters, PosterPcs
    <2>2. Signalling \subseteq Signalling'
      BY <1>t, FCondAssumption, SMT DEF TypeOK, PcInv, Signalling, Enter, Goto, Waiters, PosterPcs
    <2>3. SomeoneWaits' => SomeoneWaits
      BY <1>t, FCondAssumption, SMT DEF TypeOK, PcInv, ParkInv, LockInv, SomeoneWaits, Enter, Goto, parkVars, Waiters, PosterPcs
    <2> QED BY <1>t, <2>1, <2>2, <2>3, LooksKept DEF Enter
  <1> QED BY <1>1, <1>2, <1>3 DEF TokenInv

\* A waiter that leaves keeps TokenInv.
LEMMA DoneToken ==
    ASSUME ~LateSignal, WakeInv, TokenInv, NEW a \in Waiters, Done(a)
    PROVE  TokenInv'
  <1>t. TypeOK /\ PcInv /\ MutexInv /\ LockInv /\ ListInv /\ ParkInv /\ HeldBySignal /\ Found /\ EnoughLook
    BY DEF WakeInv, TokenInv
  <1>1. HeldBySignal'
    BY <1>t, FCondAssumption, SMT DEF TypeOK, PcInv, MutexInv, HeldBySignal, Done, Goto, Waiters, PosterPcs
  <1>2. Found'
    <2>1. \A g \in Fibers : pc'[g] = "park" => g \in ToSet(list')
      BY <1>t, FCondAssumption, SMT DEF TypeOK, PcInv, MutexInv, HeldBySignal, Found, Done, Goto, Waiters, PosterPcs
    <2>2. \A g \in Fibers : timed_park'[g] => g \in ToSet(list') \/ \E r \in Posters : node'[r] = g
      BY <1>t, FCondAssumption, SMT DEF TypeOK, PcInv, MutexInv, LockInv, ParkInv, HeldBySignal, Found, Done, Goto, parkVars, Waiters, PosterPcs
    <2>3. \A r \in Posters : pc'[r] = "cvsignal" => list' = <<>>
      BY <1>t, FCondAssumption, SMT DEF TypeOK, PcInv, MutexInv, HeldBySignal, Found, Done, Goto, Waiters, PosterPcs
    <2> QED BY <2>1, <2>2, <2>3 DEF Found
  <1>3. EnoughLook'
    <2>1. CASE tokens = 0
      BY <2>1, NothingToTake DEF Done
    <2>2. CASE tokens > 0
      <3>1. Coming \ {a} \subseteq Coming'
        BY <1>t, SMT DEF TypeOK, Coming, Done, Goto, parkVars
      <3>2. Cardinality(Coming) <= Cardinality(Coming') + 1
        BY <3>1, LookingFinite, CountLess
      <3>3. Signalling \subseteq Signalling'
        BY <1>t, FCondAssumption, SMT DEF TypeOK, Signalling, Done, Goto
      <3>4. Cardinality(Signalling) <= Cardinality(Signalling')
        BY <3>3, LookingFinite, FS_Subset
      <3>5. SomeoneWaits' => SomeoneWaits
        BY <1>t, SMT DEF TypeOK, SomeoneWaits, Done, Goto, parkVars, Waiters
      <3>6. tokens \in Nat /\ tokens' = tokens - 1
        BY <1>t, <2>2 DEF TypeOK, Done
      <3> QED BY <1>t, <3>2, <3>4, <3>5, <3>6, LookingFinite DEF EnoughLook
    <2>3. tokens \in Nat
      BY <1>t, FCondAssumption DEF TypeOK
    <2> QED BY <2>1, <2>2, <2>3
  <1> QED BY <1>1, <1>2, <1>3 DEF TokenInv

\* A thread that starts to wait keeps TokenInv.
LEMMA ThreadWaitToken ==
    ASSUME ~LateSignal, WakeInv, TokenInv, NEW t \in Threads, ThreadWait(t)
    PROVE  TokenInv'
  <1>t. TypeOK /\ PcInv /\ MutexInv /\ LockInv /\ ListInv /\ ParkInv /\ HeldBySignal /\ Found /\ EnoughLook
    BY DEF WakeInv, TokenInv
  <1>1. HeldBySignal'
    BY <1>t, FCondAssumption, SMT DEF TypeOK, PcInv, MutexInv, HeldBySignal, ThreadWait, Goto, Waiters, PosterPcs
  <1>2. Found'
    <2>1. \A g \in Fibers : pc'[g] = "park" => g \in ToSet(list')
      BY <1>t, FCondAssumption, SMT DEF TypeOK, PcInv, MutexInv, HeldBySignal, Found, ThreadWait, Goto, Waiters, PosterPcs
    <2>2. \A g \in Fibers : timed_park'[g] => g \in ToSet(list') \/ \E r \in Posters : node'[r] = g
      BY <1>t, FCondAssumption, SMT DEF TypeOK, PcInv, MutexInv, LockInv, ParkInv, HeldBySignal, Found, ThreadWait, Goto, parkVars, Waiters, PosterPcs
    <2>3. \A r \in Posters : pc'[r] = "cvsignal" => list' = <<>>
      BY <1>t, FCondAssumption, SMT DEF TypeOK, PcInv, MutexInv, HeldBySignal, Found, ThreadWait, Goto, Waiters, PosterPcs
    <2> QED BY <2>1, <2>2, <2>3 DEF Found
  <1>3. EnoughLook'
    BY NothingToTake DEF ThreadWait
  <1> QED BY <1>1, <1>2, <1>3 DEF TokenInv

\* A thread that wakes by itself keeps TokenInv.
LEMMA SpuriousWakeToken ==
    ASSUME ~LateSignal, WakeInv, TokenInv, NEW t \in Threads, SpuriousWake(t)
    PROVE  TokenInv'
  <1>t. TypeOK /\ PcInv /\ MutexInv /\ LockInv /\ ListInv /\ ParkInv /\ HeldBySignal /\ Found /\ EnoughLook
    BY DEF WakeInv, TokenInv
  <1>1. HeldBySignal'
    BY <1>t, FCondAssumption, SMT DEF TypeOK, PcInv, MutexInv, HeldBySignal, SpuriousWake, Goto, Waiters, PosterPcs
  <1>2. Found'
    <2>1. \A g \in Fibers : pc'[g] = "park" => g \in ToSet(list')
      BY <1>t, FCondAssumption, SMT DEF TypeOK, PcInv, MutexInv, HeldBySignal, Found, SpuriousWake, Goto, Waiters, PosterPcs
    <2>2. \A g \in Fibers : timed_park'[g] => g \in ToSet(list') \/ \E r \in Posters : node'[r] = g
      BY <1>t, FCondAssumption, SMT DEF TypeOK, PcInv, MutexInv, LockInv, ParkInv, HeldBySignal, Found, SpuriousWake, Goto, parkVars, Waiters, PosterPcs
    <2>3. \A r \in Posters : pc'[r] = "cvsignal" => list' = <<>>
      BY <1>t, FCondAssumption, SMT DEF TypeOK, PcInv, MutexInv, HeldBySignal, Found, SpuriousWake, Goto, Waiters, PosterPcs
    <2> QED BY <2>1, <2>2, <2>3 DEF Found
  <1>3. EnoughLook'
    <2>1. Coming \subseteq Coming'
      BY <1>t, FCondAssumption, SMT DEF TypeOK, PcInv, ParkInv, LockInv, Coming, SpuriousWake, Goto, parkVars, Waiters, PosterPcs
    <2>2. Signalling \subseteq Signalling'
      BY <1>t, FCondAssumption, SMT DEF TypeOK, PcInv, Signalling, SpuriousWake, Goto, Waiters, PosterPcs
    <2>3. SomeoneWaits' => SomeoneWaits
      BY <1>t, FCondAssumption, SMT DEF TypeOK, PcInv, ParkInv, LockInv, SomeoneWaits, SpuriousWake, Goto, parkVars, Waiters, PosterPcs
    <2> QED BY <1>t, <2>1, <2>2, <2>3, LooksKept DEF SpuriousWake
  <1> QED BY <1>1, <1>2, <1>3 DEF TokenInv

\* Queueing a node keeps TokenInv: there is no token.
LEMMA FiberQueueToken ==
    ASSUME ~LateSignal, WakeInv, TokenInv, NEW f \in Fibers, FiberQueue(f)
    PROVE  TokenInv'
  <1>t. TypeOK /\ PcInv /\ MutexInv /\ LockInv /\ ListInv /\ ParkInv /\ HeldBySignal /\ Found /\ EnoughLook
    BY DEF WakeInv, TokenInv
  <1>q. ToSet(list') = ToSet(list) \cup {f}
    <2>1. list \in Seq(Fibers) /\ IsInjective(list) /\ f \notin ToSet(list)
      BY <1>t DEF TypeOK, ListInv, InWait, FiberQueue
    <2> QED BY <2>1, QueueAppend DEF FiberQueue
  <1>1. HeldBySignal'
    BY <1>t, FCondAssumption, SMT DEF TypeOK, PcInv, MutexInv, HeldBySignal, FiberQueue, Goto, Waiters, PosterPcs
  <1>2. Found'
    <2>1. \A g \in Fibers : pc'[g] = "park" => g \in ToSet(list')
      BY <1>t, <1>q, FCondAssumption, SMT DEF TypeOK, PcInv, MutexInv, HeldBySignal, Found, FiberQueue, Goto, Waiters, PosterPcs
    <2>2. \A g \in Fibers : timed_park'[g] => g \in ToSet(list') \/ \E r \in Posters : node'[r] = g
      BY <1>t, <1>q, FCondAssumption, SMT DEF TypeOK, PcInv, MutexInv, LockInv, ParkInv, HeldBySignal, Found, FiberQueue, Goto, parkVars, Waiters, PosterPcs
    <2>3. \A r \in Posters : pc'[r] = "cvsignal" => list' = <<>>
      BY <1>t, <1>q, FCondAssumption, SMT DEF TypeOK, PcInv, MutexInv, HeldBySignal, Found, FiberQueue, Goto, Waiters, PosterPcs
    <2> QED BY <2>1, <2>2, <2>3 DEF Found
  <1>3. EnoughLook'
    BY NothingToTake DEF FiberQueue
  <1> QED BY <1>1, <1>2, <1>3 DEF TokenInv

\* Registering a park keeps TokenInv.
LEMMA FiberParkToken ==
    ASSUME ~LateSignal, WakeInv, TokenInv, NEW f \in Fibers, FiberPark(f)
    PROVE  TokenInv'
  <1>t. TypeOK /\ PcInv /\ MutexInv /\ LockInv /\ ListInv /\ ParkInv /\ HeldBySignal /\ Found /\ EnoughLook
    BY DEF WakeInv, TokenInv
  <1>1. HeldBySignal'
    BY <1>t, FCondAssumption, SMT DEF TypeOK, PcInv, MutexInv, HeldBySignal, FiberPark, Goto, Waiters, PosterPcs
  <1>2. Found'
    <2>1. \A g \in Fibers : pc'[g] = "park" => g \in ToSet(list')
      BY <1>t, FCondAssumption, SMT DEF TypeOK, PcInv, MutexInv, HeldBySignal, Found, FiberPark, Goto, Waiters, PosterPcs
    <2>2. \A g \in Fibers : timed_park'[g] => g \in ToSet(list') \/ \E r \in Posters : node'[r] = g
      BY <1>t, FCondAssumption, SMT DEF TypeOK, PcInv, MutexInv, LockInv, ParkInv, HeldBySignal, Found, FiberPark, Goto, parkVars, Waiters, PosterPcs
    <2>3. \A r \in Posters : pc'[r] = "cvsignal" => list' = <<>>
      BY <1>t, FCondAssumption, SMT DEF TypeOK, PcInv, MutexInv, HeldBySignal, Found, FiberPark, Goto, Waiters, PosterPcs
    <2> QED BY <2>1, <2>2, <2>3 DEF Found
  <1>3. EnoughLook'
    <2>1. Coming \subseteq Coming'
      BY <1>t, FCondAssumption, SMT DEF TypeOK, PcInv, ParkInv, LockInv, Coming, FiberPark, Goto, parkVars, Waiters, PosterPcs
    <2>2. Signalling \subseteq Signalling'
      BY <1>t, FCondAssumption, SMT DEF TypeOK, PcInv, Signalling, FiberPark, Goto, Waiters, PosterPcs
    <2>3. SomeoneWaits' => SomeoneWaits
      BY <1>t, FCondAssumption, SMT DEF TypeOK, PcInv, ParkInv, LockInv, SomeoneWaits, FiberPark, Goto, parkVars, Waiters, PosterPcs
    <2> QED BY <1>t, <2>1, <2>2, <2>3, LooksKept DEF FiberPark
  <1> QED BY <1>1, <1>2, <1>3 DEF TokenInv

\* The worker loop's unlock keeps TokenInv.
LEMMA LoopUnlockToken ==
    ASSUME ~LateSignal, WakeInv, TokenInv, NEW f \in Fibers, LoopUnlock(f)
    PROVE  TokenInv'
  <1>t. TypeOK /\ PcInv /\ MutexInv /\ LockInv /\ ListInv /\ ParkInv /\ HeldBySignal /\ Found /\ EnoughLook
    BY DEF WakeInv, TokenInv
  <1>1. HeldBySignal'
    BY <1>t, FCondAssumption, SMT DEF TypeOK, PcInv, MutexInv, HeldBySignal, LoopUnlock, Goto, Waiters, PosterPcs
  <1>2. Found'
    <2>1. \A g \in Fibers : pc'[g] = "park" => g \in ToSet(list')
      BY <1>t, FCondAssumption, SMT DEF TypeOK, PcInv, MutexInv, HeldBySignal, Found, LoopUnlock, Goto, Waiters, PosterPcs
    <2>2. \A g \in Fibers : timed_park'[g] => g \in ToSet(list') \/ \E r \in Posters : node'[r] = g
      BY <1>t, FCondAssumption, SMT DEF TypeOK, PcInv, MutexInv, LockInv, ParkInv, HeldBySignal, Found, LoopUnlock, Goto, parkVars, Waiters, PosterPcs
    <2>3. \A r \in Posters : pc'[r] = "cvsignal" => list' = <<>>
      BY <1>t, FCondAssumption, SMT DEF TypeOK, PcInv, MutexInv, HeldBySignal, Found, LoopUnlock, Goto, Waiters, PosterPcs
    <2> QED BY <2>1, <2>2, <2>3 DEF Found
  <1>3. EnoughLook'
    <2>1. Coming \subseteq Coming'
      BY <1>t, FCondAssumption, SMT DEF TypeOK, PcInv, ParkInv, LockInv, Coming, LoopUnlock, Goto, parkVars, Waiters, PosterPcs
    <2>2. Signalling \subseteq Signalling'
      BY <1>t, FCondAssumption, SMT DEF TypeOK, PcInv, Signalling, LoopUnlock, Goto, Waiters, PosterPcs
    <2>3. SomeoneWaits' => SomeoneWaits
      BY <1>t, FCondAssumption, SMT DEF TypeOK, PcInv, ParkInv, LockInv, SomeoneWaits, LoopUnlock, Goto, parkVars, Waiters, PosterPcs
    <2> QED BY <1>t, <2>1, <2>2, <2>3, LooksKept DEF LoopUnlock
  <1> QED BY <1>1, <1>2, <1>3 DEF TokenInv

\* An activation keeps TokenInv.
LEMMA ActivateToken ==
    ASSUME ~LateSignal, WakeInv, TokenInv, NEW f \in Fibers, Activate(f)
    PROVE  TokenInv'
  <1>t. TypeOK /\ PcInv /\ MutexInv /\ LockInv /\ ListInv /\ ParkInv /\ HeldBySignal /\ Found /\ EnoughLook
    BY DEF WakeInv, TokenInv
  <1>1. HeldBySignal'
    BY <1>t, FCondAssumption, SMT DEF TypeOK, PcInv, MutexInv, HeldBySignal, Activate, Goto, MakeRunnable, Waiters, PosterPcs
  <1>2. Found'
    <2>1. \A g \in Fibers : pc'[g] = "park" => g \in ToSet(list')
      BY <1>t, FCondAssumption, SMT DEF TypeOK, PcInv, MutexInv, HeldBySignal, Found, Activate, Goto, MakeRunnable, Waiters, PosterPcs
    <2>2. \A g \in Fibers : timed_park'[g] => g \in ToSet(list') \/ \E r \in Posters : node'[r] = g
      BY <1>t, FCondAssumption, SMT DEF TypeOK, PcInv, MutexInv, LockInv, ParkInv, HeldBySignal, Found, Activate, Goto, MakeRunnable, parkVars, Waiters, PosterPcs
    <2>3. \A r \in Posters : pc'[r] = "cvsignal" => list' = <<>>
      BY <1>t, FCondAssumption, SMT DEF TypeOK, PcInv, MutexInv, HeldBySignal, Found, Activate, Goto, MakeRunnable, Waiters, PosterPcs
    <2> QED BY <2>1, <2>2, <2>3 DEF Found
  <1>3. EnoughLook'
    <2>1. Coming \subseteq Coming'
      <3>1. pc'[f] = "parked" /\ \A a \in Waiters : a # f => pc'[a] = pc[a]
        BY <1>t DEF TypeOK, Activate, Goto, Waiters
      <3>2. \A a \in Fibers : a # f => runnable'[a] = runnable[a] /\ park_state'[a] = park_state[a]
        BY <1>t DEF TypeOK, Activate, MakeRunnable
      <3>3. park_state[f] = 2 => runnable'[f] > 0
        <4>1. park_state[f] = 2 => runnable' = [runnable EXCEPT ![f] = @ + 1]
          BY DEF Activate, MakeRunnable
        <4>2. runnable \in [Fibers -> Nat]
          BY <1>t DEF TypeOK
        <4> QED BY <4>1, <4>2
      <3>4. \A a \in Waiters : pc[a] \in {"swap", "activate", "parked"} => a \in Fibers
        BY <1>t DEF PcInv, Waiters
      <3>5. pc[f] = "activate"
        BY DEF Activate
      <3> QED BY <3>1, <3>2, <3>3, <3>4, <3>5 DEF Coming
    <2>2. Signalling \subseteq Signalling'
      BY <1>t, FCondAssumption, SMT DEF TypeOK, PcInv, Signalling, Activate, Goto, MakeRunnable, Waiters, PosterPcs
    <2>3. SomeoneWaits' => SomeoneWaits
      BY <1>t, FCondAssumption, SMT DEF TypeOK, PcInv, ParkInv, LockInv, SomeoneWaits, Activate, Goto, MakeRunnable, parkVars, Waiters, PosterPcs
    <2> QED BY <1>t, <2>1, <2>2, <2>3, LooksKept DEF Activate
  <1> QED BY <1>1, <1>2, <1>3 DEF TokenInv

\* A deadline keeps TokenInv.
LEMMA ExpireToken ==
    ASSUME ~LateSignal, WakeInv, TokenInv, NEW f \in Fibers, Expire(f)
    PROVE  TokenInv'
  <1>t. TypeOK /\ PcInv /\ MutexInv /\ LockInv /\ ListInv /\ ParkInv /\ HeldBySignal /\ Found /\ EnoughLook
    BY DEF WakeInv, TokenInv
  <1>1. HeldBySignal'
    BY <1>t, FCondAssumption, SMT DEF TypeOK, PcInv, MutexInv, HeldBySignal, Expire, Goto, MakeRunnable, Waiters, PosterPcs
  <1>2. Found'
    <2>1. \A g \in Fibers : pc'[g] = "park" => g \in ToSet(list')
      BY <1>t, FCondAssumption, SMT DEF TypeOK, PcInv, MutexInv, HeldBySignal, Found, Expire, Goto, MakeRunnable, Waiters, PosterPcs
    <2>2. \A g \in Fibers : timed_park'[g] => g \in ToSet(list') \/ \E r \in Posters : node'[r] = g
      BY <1>t, FCondAssumption, SMT DEF TypeOK, PcInv, MutexInv, LockInv, ParkInv, HeldBySignal, Found, Expire, Goto, MakeRunnable, parkVars, Waiters, PosterPcs
    <2>3. \A r \in Posters : pc'[r] = "cvsignal" => list' = <<>>
      BY <1>t, FCondAssumption, SMT DEF TypeOK, PcInv, MutexInv, HeldBySignal, Found, Expire, Goto, MakeRunnable, Waiters, PosterPcs
    <2> QED BY <2>1, <2>2, <2>3 DEF Found
  <1>3. EnoughLook'
    <2>1. Coming \subseteq Coming'
      BY <1>t, FCondAssumption, SMT DEF TypeOK, PcInv, ParkInv, LockInv, Coming, Expire, Goto, MakeRunnable, parkVars, Waiters, PosterPcs
    <2>2. Signalling \subseteq Signalling'
      BY <1>t, FCondAssumption, SMT DEF TypeOK, PcInv, Signalling, Expire, Goto, MakeRunnable, Waiters, PosterPcs
    <2>3. SomeoneWaits' => SomeoneWaits
      BY <1>t, FCondAssumption, SMT DEF TypeOK, PcInv, ParkInv, LockInv, SomeoneWaits, Expire, Goto, MakeRunnable, parkVars, Waiters, PosterPcs
    <2> QED BY <1>t, <2>1, <2>2, <2>3, LooksKept DEF Expire
  <1> QED BY <1>1, <1>2, <1>3 DEF TokenInv

\* Resuming a fiber keeps TokenInv.
LEMMA ResumeToken ==
    ASSUME ~LateSignal, WakeInv, TokenInv, NEW f \in Fibers, Resume(f)
    PROVE  TokenInv'
  <1>t. TypeOK /\ PcInv /\ MutexInv /\ LockInv /\ ListInv /\ ParkInv /\ HeldBySignal /\ Found /\ EnoughLook
    BY DEF WakeInv, TokenInv
  <1>1. HeldBySignal'
    BY <1>t, FCondAssumption, SMT DEF TypeOK, PcInv, MutexInv, HeldBySignal, Resume, Goto, Waiters, PosterPcs
  <1>2. Found'
    <2>1. \A g \in Fibers : pc'[g] = "park" => g \in ToSet(list')
      BY <1>t, FCondAssumption, SMT DEF TypeOK, PcInv, MutexInv, HeldBySignal, Found, Resume, Goto, Waiters, PosterPcs
    <2>2. \A g \in Fibers : timed_park'[g] => g \in ToSet(list') \/ \E r \in Posters : node'[r] = g
      BY <1>t, FCondAssumption, SMT DEF TypeOK, PcInv, MutexInv, LockInv, ParkInv, HeldBySignal, Found, Resume, Goto, parkVars, Waiters, PosterPcs
    <2>3. \A r \in Posters : pc'[r] = "cvsignal" => list' = <<>>
      BY <1>t, FCondAssumption, SMT DEF TypeOK, PcInv, MutexInv, HeldBySignal, Found, Resume, Goto, Waiters, PosterPcs
    <2> QED BY <2>1, <2>2, <2>3 DEF Found
  <1>3. EnoughLook'
    <2>1. Coming \subseteq Coming'
      BY <1>t, FCondAssumption, SMT DEF TypeOK, PcInv, ParkInv, LockInv, Coming, Resume, Goto, parkVars, Waiters, PosterPcs
    <2>2. Signalling \subseteq Signalling'
      BY <1>t, FCondAssumption, SMT DEF TypeOK, PcInv, Signalling, Resume, Goto, Waiters, PosterPcs
    <2>3. SomeoneWaits' => SomeoneWaits
      BY <1>t, FCondAssumption, SMT DEF TypeOK, PcInv, ParkInv, LockInv, SomeoneWaits, Resume, Goto, parkVars, Waiters, PosterPcs
    <2> QED BY <1>t, <2>1, <2>2, <2>3, LooksKept DEF Resume
  <1> QED BY <1>1, <1>2, <1>3 DEF TokenInv

\* Taking the own node off keeps TokenInv.
LEMMA BackToken ==
    ASSUME ~LateSignal, WakeInv, TokenInv, NEW f \in Fibers, Back(f)
    PROVE  TokenInv'
  <1>t. TypeOK /\ PcInv /\ MutexInv /\ LockInv /\ ListInv /\ ParkInv /\ HeldBySignal /\ Found /\ EnoughLook
    BY DEF WakeInv, TokenInv
  <1>q. ToSet(list') = ToSet(list) \ {f} /\ (list = <<>> => list' = <<>>)
    <2>1. list \in Seq(Fibers) /\ IsInjective(list)
      BY <1>t DEF TypeOK, ListInv
    <2>2. list' \in Seq(Fibers) /\ ToSet(list') = ToSet(list) \ {f}
      BY <2>1, QueueRemove DEF Back
    <2>3. list = <<>> => ToSet(list') = {}
      BY <2>1, <2>2, ToSetType
    <2> QED BY <2>2, <2>3, ToSetType
  <1>1. HeldBySignal'
    BY <1>t, FCondAssumption, SMT DEF TypeOK, PcInv, MutexInv, HeldBySignal, Back, Goto, Waiters, PosterPcs
  <1>2. Found'
    <2>1. \A g \in Fibers : pc'[g] = "park" => g \in ToSet(list')
      BY <1>t, <1>q, FCondAssumption, SMT DEF TypeOK, PcInv, MutexInv, HeldBySignal, Found, Back, Goto, Waiters, PosterPcs
    <2>2. \A g \in Fibers : timed_park'[g] => g \in ToSet(list') \/ \E r \in Posters : node'[r] = g
      BY <1>t, <1>q, FCondAssumption, SMT DEF TypeOK, PcInv, MutexInv, LockInv, ParkInv, HeldBySignal, Found, Back, Goto, parkVars, Waiters, PosterPcs
    <2>3. \A r \in Posters : pc'[r] = "cvsignal" => list' = <<>>
      BY <1>t, <1>q, FCondAssumption, SMT DEF TypeOK, PcInv, MutexInv, HeldBySignal, Found, Back, Goto, Waiters, PosterPcs
    <2> QED BY <2>1, <2>2, <2>3 DEF Found
  <1>3. EnoughLook'
    <2>1. Coming \subseteq Coming'
      BY <1>t, FCondAssumption, SMT DEF TypeOK, PcInv, ParkInv, LockInv, Coming, Back, Goto, parkVars, Waiters, PosterPcs
    <2>2. Signalling \subseteq Signalling'
      BY <1>t, FCondAssumption, SMT DEF TypeOK, PcInv, Signalling, Back, Goto, Waiters, PosterPcs
    <2>3. SomeoneWaits' => SomeoneWaits
      BY <1>t, FCondAssumption, SMT DEF TypeOK, PcInv, ParkInv, LockInv, SomeoneWaits, Back, Goto, parkVars, Waiters, PosterPcs
    <2> QED BY <1>t, <2>1, <2>2, <2>3, LooksKept DEF Back
  <1> QED BY <1>1, <1>2, <1>3 DEF TokenInv

\* Taking the mutex again keeps TokenInv.
LEMMA RelockToken ==
    ASSUME ~LateSignal, WakeInv, TokenInv, NEW a \in Waiters, Relock(a)
    PROVE  TokenInv'
  <1>t. TypeOK /\ PcInv /\ MutexInv /\ LockInv /\ ListInv /\ ParkInv /\ HeldBySignal /\ Found /\ EnoughLook
    BY DEF WakeInv, TokenInv
  <1>1. HeldBySignal'
    BY <1>t, FCondAssumption, SMT DEF TypeOK, PcInv, MutexInv, HeldBySignal, Relock, Goto, Waiters, PosterPcs
  <1>2. Found'
    <2>1. \A g \in Fibers : pc'[g] = "park" => g \in ToSet(list')
      BY <1>t, FCondAssumption, SMT DEF TypeOK, PcInv, MutexInv, HeldBySignal, Found, Relock, Goto, Waiters, PosterPcs
    <2>2. \A g \in Fibers : timed_park'[g] => g \in ToSet(list') \/ \E r \in Posters : node'[r] = g
      BY <1>t, FCondAssumption, SMT DEF TypeOK, PcInv, MutexInv, LockInv, ParkInv, HeldBySignal, Found, Relock, Goto, parkVars, Waiters, PosterPcs
    <2>3. \A r \in Posters : pc'[r] = "cvsignal" => list' = <<>>
      BY <1>t, FCondAssumption, SMT DEF TypeOK, PcInv, MutexInv, HeldBySignal, Found, Relock, Goto, Waiters, PosterPcs
    <2> QED BY <2>1, <2>2, <2>3 DEF Found
  <1>3. EnoughLook'
    <2>1. Coming \subseteq Coming'
      BY <1>t, FCondAssumption, SMT DEF TypeOK, PcInv, ParkInv, LockInv, Coming, Relock, Goto, parkVars, Waiters, PosterPcs
    <2>2. Signalling \subseteq Signalling'
      BY <1>t, FCondAssumption, SMT DEF TypeOK, PcInv, Signalling, Relock, Goto, Waiters, PosterPcs
    <2>3. SomeoneWaits' => SomeoneWaits
      BY <1>t, FCondAssumption, SMT DEF TypeOK, PcInv, ParkInv, LockInv, SomeoneWaits, Relock, Goto, parkVars, Waiters, PosterPcs
    <2> QED BY <1>t, <2>1, <2>2, <2>3, LooksKept DEF Relock
  <1> QED BY <1>1, <1>2, <1>3 DEF TokenInv

\* A poster that takes the mutex keeps TokenInv.
LEMMA PostLockToken ==
    ASSUME ~LateSignal, WakeInv, TokenInv, NEW p \in Posters, NEW b \in BOOLEAN, PostLock(p, b)
    PROVE  TokenInv'
  <1>t. TypeOK /\ PcInv /\ MutexInv /\ LockInv /\ ListInv /\ ParkInv /\ HeldBySignal /\ Found /\ EnoughLook
    BY DEF WakeInv, TokenInv
  <1>1. HeldBySignal'
    BY <1>t, FCondAssumption, SMT DEF TypeOK, PcInv, MutexInv, HeldBySignal, PostLock, Goto, Waiters, PosterPcs
  <1>2. Found'
    <2>1. \A g \in Fibers : pc'[g] = "park" => g \in ToSet(list')
      BY <1>t, FCondAssumption, SMT DEF TypeOK, PcInv, MutexInv, HeldBySignal, Found, PostLock, Goto, Waiters, PosterPcs
    <2>2. \A g \in Fibers : timed_park'[g] => g \in ToSet(list') \/ \E r \in Posters : node'[r] = g
      BY <1>t, FCondAssumption, SMT DEF TypeOK, PcInv, MutexInv, LockInv, ParkInv, HeldBySignal, Found, PostLock, Goto, parkVars, Waiters, PosterPcs
    <2>3. \A r \in Posters : pc'[r] = "cvsignal" => list' = <<>>
      BY <1>t, FCondAssumption, SMT DEF TypeOK, PcInv, MutexInv, HeldBySignal, Found, PostLock, Goto, Waiters, PosterPcs
    <2> QED BY <2>1, <2>2, <2>3 DEF Found
  <1>3. EnoughLook'
    <2>1. Coming \subseteq Coming'
      BY <1>t, FCondAssumption, SMT DEF TypeOK, PcInv, ParkInv, LockInv, Coming, PostLock, Goto, parkVars, Waiters, PosterPcs
    <2>2. Signalling \subseteq Signalling'
      BY <1>t, FCondAssumption, SMT DEF TypeOK, PcInv, Signalling, PostLock, Goto, Waiters, PosterPcs
    <2>3. SomeoneWaits' => SomeoneWaits
      BY <1>t, FCondAssumption, SMT DEF TypeOK, PcInv, ParkInv, LockInv, SomeoneWaits, PostLock, Goto, parkVars, Waiters, PosterPcs
    <2> QED BY <1>t, <2>1, <2>2, <2>3, LooksKept DEF PostLock
  <1> QED BY <1>1, <1>2, <1>3 DEF TokenInv

\* A post keeps TokenInv.
LEMMA PostToken ==
    ASSUME ~LateSignal, WakeInv, TokenInv, NEW p \in Posters, NEW late \in BOOLEAN, Post(p, late)
    PROVE  TokenInv'
  <1>t. TypeOK /\ PcInv /\ MutexInv /\ LockInv /\ ListInv /\ ParkInv /\ HeldBySignal /\ Found /\ EnoughLook
    BY DEF WakeInv, TokenInv
  <1>1. HeldBySignal'
    BY <1>t, FCondAssumption, SMT DEF TypeOK, PcInv, MutexInv, HeldBySignal, Post, Goto, Waiters, PosterPcs
  <1>2. Found'
    <2>1. \A g \in Fibers : pc'[g] = "park" => g \in ToSet(list')
      BY <1>t, FCondAssumption, SMT DEF TypeOK, PcInv, MutexInv, HeldBySignal, Found, Post, Goto, Waiters, PosterPcs
    <2>2. \A g \in Fibers : timed_park'[g] => g \in ToSet(list') \/ \E r \in Posters : node'[r] = g
      BY <1>t, FCondAssumption, SMT DEF TypeOK, PcInv, MutexInv, LockInv, ParkInv, HeldBySignal, Found, Post, Goto, parkVars, Waiters, PosterPcs
    <2>3. \A r \in Posters : pc'[r] = "cvsignal" => list' = <<>>
      BY <1>t, FCondAssumption, SMT DEF TypeOK, PcInv, MutexInv, HeldBySignal, Found, Post, Goto, Waiters, PosterPcs
    <2> QED BY <2>1, <2>2, <2>3 DEF Found
  <1>3. EnoughLook'
    <2>1. Coming \subseteq Coming'
      BY <1>t, FCondAssumption, SMT DEF TypeOK, Coming, Post, Goto, parkVars, Waiters
    <2>2. Cardinality(Coming) <= Cardinality(Coming')
      BY <2>1, LookingFinite, FS_Subset
    <2>3. Signalling \subseteq Signalling' /\ p \in Signalling' /\ p \notin Signalling
      BY <1>t, FCondAssumption, SMT DEF TypeOK, Signalling, Post, Goto
    <2>4. Cardinality(Signalling) + 1 <= Cardinality(Signalling')
      BY <2>3, LookingFinite, CountMore
    <2>5. SomeoneWaits' => SomeoneWaits
      BY <1>t, FCondAssumption, SMT DEF TypeOK, SomeoneWaits, Post, Goto, parkVars, Waiters
    <2>6. tokens \in Nat /\ tokens' = tokens + 1
      BY <1>t, FCondAssumption DEF TypeOK, Post
    <2> QED BY <1>t, <2>2, <2>4, <2>5, <2>6, LookingFinite DEF EnoughLook
  <1> QED BY <1>1, <1>2, <1>3 DEF TokenInv

\* The look at the list keeps TokenInv.
LEMMA ProbeToken ==
    ASSUME ~LateSignal, WakeInv, TokenInv, NEW p \in Posters, Probe(p)
    PROVE  TokenInv'
  <1>t. TypeOK /\ PcInv /\ MutexInv /\ LockInv /\ ListInv /\ ParkInv /\ HeldBySignal /\ Found /\ EnoughLook
    BY DEF WakeInv, TokenInv
  <1>1. HeldBySignal'
    BY <1>t, FCondAssumption, SMT DEF TypeOK, PcInv, MutexInv, HeldBySignal, Probe, Goto, Waiters, PosterPcs
  <1>2. Found'
    <2>1. \A g \in Fibers : pc'[g] = "park" => g \in ToSet(list')
      BY <1>t, FCondAssumption, SMT DEF TypeOK, PcInv, MutexInv, HeldBySignal, Found, Probe, Goto, Waiters, PosterPcs
    <2>2. \A g \in Fibers : timed_park'[g] => g \in ToSet(list') \/ \E r \in Posters : node'[r] = g
      BY <1>t, FCondAssumption, SMT DEF TypeOK, PcInv, MutexInv, LockInv, ParkInv, HeldBySignal, Found, Probe, Goto, parkVars, Waiters, PosterPcs
    <2>3. \A r \in Posters : pc'[r] = "cvsignal" => list' = <<>>
      BY <1>t, FCondAssumption, SMT DEF TypeOK, PcInv, MutexInv, HeldBySignal, Found, Probe, Goto, Waiters, PosterPcs
    <2> QED BY <2>1, <2>2, <2>3 DEF Found
  <1>3. EnoughLook'
    <2>1. Coming \subseteq Coming'
      BY <1>t, FCondAssumption, SMT DEF TypeOK, PcInv, ParkInv, LockInv, Coming, Probe, Goto, parkVars, Waiters, PosterPcs
    <2>2. Signalling \subseteq Signalling'
      BY <1>t, FCondAssumption, SMT DEF TypeOK, PcInv, Signalling, Probe, Goto, Waiters, PosterPcs
    <2>3. SomeoneWaits' => SomeoneWaits
      BY <1>t, FCondAssumption, SMT DEF TypeOK, PcInv, ParkInv, LockInv, SomeoneWaits, Probe, Goto, parkVars, Waiters, PosterPcs
    <2> QED BY <1>t, <2>1, <2>2, <2>3, LooksKept DEF Probe
  <1> QED BY <1>1, <1>2, <1>3 DEF TokenInv

\* Taking a node off keeps TokenInv.
LEMMA UnlinkHeadToken ==
    ASSUME ~LateSignal, WakeInv, TokenInv, NEW p \in Posters, UnlinkHead(p)
    PROVE  TokenInv'
  <1>t. TypeOK /\ PcInv /\ MutexInv /\ LockInv /\ ListInv /\ ParkInv /\ HeldBySignal /\ Found /\ EnoughLook
    BY DEF WakeInv, TokenInv
  <1>q. list # <<>> => /\ Head(list) \in ToSet(list) /\ Head(list) \in Fibers
                       /\ ToSet(Tail(list)) = ToSet(list) \ {Head(list)}
    <2>1. list \in Seq(Fibers) /\ IsInjective(list) /\ ToSet(list) \subseteq Fibers
      BY <1>t, ToSetType DEF TypeOK, ListInv
    <2> QED BY <2>1, QueueTail
  <1>1. HeldBySignal'
    BY <1>t, FCondAssumption, SMT DEF TypeOK, PcInv, MutexInv, HeldBySignal, UnlinkHead, Goto, Waiters, PosterPcs
  <1>2. Found'
    <2>1. \A g \in Fibers : pc'[g] = "park" => g \in ToSet(list')
      BY <1>t, <1>q, FCondAssumption, SMT DEF TypeOK, PcInv, MutexInv, HeldBySignal, Found, UnlinkHead, Goto, Waiters, PosterPcs
    <2>2. \A g \in Fibers : timed_park'[g] => g \in ToSet(list') \/ \E r \in Posters : node'[r] = g
      <3>1. \A r \in Posters : r # p => node[r] = NoFiber
        BY <1>t, FCondAssumption DEF LockInv, UnlinkHead
      <3>2. node[p] = NoFiber
        BY <1>t DEF LockInv, UnlinkHead
      <3>3. \A g \in Fibers : timed_park[g] => g \in ToSet(list)
        BY <1>t, <3>1, <3>2, FCondAssumption DEF Found
      <3>4. CASE list = <<>>
        BY <3>3, <3>4 DEF UnlinkHead, parkVars
      <3>5. CASE list # <<>>
        <4>1. ToSet(list') = ToSet(list) \ {Head(list)} /\ node'[p] = Head(list) /\ timed_park' = timed_park
          BY <1>t, <1>q, <3>5 DEF TypeOK, UnlinkHead, parkVars
        <4> QED BY <3>3, <4>1
      <3> QED BY <3>4, <3>5
    <2>3. \A r \in Posters : pc'[r] = "cvsignal" => list' = <<>>
      BY <1>t, <1>q, FCondAssumption, SMT DEF TypeOK, PcInv, MutexInv, HeldBySignal, Found, UnlinkHead, Goto, Waiters, PosterPcs
    <2> QED BY <2>1, <2>2, <2>3 DEF Found
  <1>3. EnoughLook'
    <2>1. Coming \subseteq Coming'
      BY <1>t, FCondAssumption, SMT DEF TypeOK, PcInv, ParkInv, LockInv, Coming, UnlinkHead, Goto, parkVars, Waiters, PosterPcs
    <2>2. Signalling \subseteq Signalling'
      BY <1>t, FCondAssumption, SMT DEF TypeOK, PcInv, Signalling, UnlinkHead, Goto, Waiters, PosterPcs
    <2>3. SomeoneWaits' => SomeoneWaits
      BY <1>t, FCondAssumption, SMT DEF TypeOK, PcInv, ParkInv, LockInv, SomeoneWaits, UnlinkHead, Goto, parkVars, Waiters, PosterPcs
    <2> QED BY <1>t, <2>1, <2>2, <2>3, LooksKept DEF UnlinkHead
  <1> QED BY <1>1, <1>2, <1>3 DEF TokenInv

\* A wake keeps TokenInv: a signal ends only with a fiber on its way.
LEMMA WakeFiberToken ==
    ASSUME ~LateSignal, WakeInv, TokenInv, NEW p \in Posters, WakeFiber(p)
    PROVE  TokenInv'
  <1>t. TypeOK /\ PcInv /\ MutexInv /\ LockInv /\ ListInv /\ ParkInv /\ HeldBySignal /\ Found /\ EnoughLook
    BY DEF WakeInv, TokenInv
  <1>1. HeldBySignal'
    BY <1>t, FCondAssumption, SMT DEF TypeOK, PcInv, MutexInv, HeldBySignal, WakeFiber, Goto, MakeRunnable, Waiters, PosterPcs
  <1>2. Found'
    <2>1. \A g \in Fibers : pc'[g] = "park" => g \in ToSet(list')
      BY <1>t, FCondAssumption, SMT DEF TypeOK, PcInv, MutexInv, HeldBySignal, Found, WakeFiber, Goto, MakeRunnable, Waiters, PosterPcs
    <2>2. \A g \in Fibers : timed_park'[g] => g \in ToSet(list') \/ \E r \in Posters : node'[r] = g
      <3>0. node[p] \in Fibers /\ timed_park \in [Fibers -> BOOLEAN]
        BY <1>t DEF TypeOK, LockInv, WakeFiber
      <3>1. ~timed_park'[node[p]]
        <4>1. CASE timed_park[node[p]]
          BY <3>0, <4>1 DEF WakeFiber
        <4>2. CASE ~timed_park[node[p]]
          BY <4>2 DEF WakeFiber
        <4> QED BY <4>1, <4>2
      <3>2. \A g \in Fibers : g # node[p] => timed_park'[g] = timed_park[g]
        <4>1. timed_park' = timed_park \/ timed_park' = [timed_park EXCEPT ![node[p]] = FALSE]
          BY DEF WakeFiber
        <4> QED BY <3>0, <4>1
      <3>3. list' = list /\ \A r \in Posters : r # p => node'[r] = node[r]
        BY <1>t DEF TypeOK, WakeFiber
      <3> QED BY <1>t, <3>1, <3>2, <3>3 DEF Found
    <2>3. \A r \in Posters : pc'[r] = "cvsignal" => list' = <<>>
      BY <1>t, FCondAssumption, SMT DEF TypeOK, PcInv, MutexInv, HeldBySignal, Found, WakeFiber, Goto, MakeRunnable, Waiters, PosterPcs
    <2> QED BY <2>1, <2>2, <2>3 DEF Found
  <1>3. EnoughLook'
    <2> DEFINE g == node[p]
    <2>g. g \in Fibers /\ g \in Waiters /\ g # p
      BY <1>t, FCondAssumption DEF TypeOK, LockInv, WakeFiber, Waiters
    <2>p. /\ \A a \in Waiters : pc'[a] = pc[a]
          /\ \A r \in Posters : r # p => pc'[r] = pc[r]
      BY <1>t, FCondAssumption DEF TypeOK, WakeFiber, Goto
    <2>s. SomeoneWaits' => SomeoneWaits
      BY <1>t, <2>g, <2>p DEF TypeOK, SomeoneWaits, WakeFiber, Waiters
    <2>k. tokens \in Nat /\ tokens' = tokens
      BY <1>t, FCondAssumption DEF TypeOK, WakeFiber
    <2>r. runnable \in [Fibers -> Nat] /\ park_state \in [Fibers -> 0 .. 2]
      BY <1>t DEF TypeOK
    <2>x. /\ runnable' = runnable \/ runnable' = [runnable EXCEPT ![g] = @ + 1]
          /\ park_state' = park_state \/ park_state' = [park_state EXCEPT ![g] = 2]
      BY DEF WakeFiber, MakeRunnable
    <2>f. \A a \in Waiters : pc[a] \in {"swap", "activate", "parked"} => a \in Fibers
      BY <1>t DEF PcInv, Waiters
    <2> HIDE DEF g
    <2>1. CASE ~timed_park[g] \/ all[p]
      <3>1. pc'[p] = "unlink"
        BY <1>t, <2>1 DEF TypeOK, WakeFiber, Goto, g
      <3>2. Signalling \subseteq Signalling'
        BY <3>1, <2>p DEF Signalling
      <3>4. \A a \in Fibers : runnable[a] > 0 => runnable'[a] > 0
        BY <2>r, <2>x
      <3>5. \A a \in Fibers : park_state[a] = 2 => park_state'[a] = 2
        BY <2>r, <2>x
      <3>6. Coming \subseteq Coming'
        BY <2>p, <2>f, <3>4, <3>5 DEF Coming
      <3> QED BY <1>t, <2>s, <2>k, <3>2, <3>6, LooksKept
    <2>2. CASE timed_park[g] /\ ~all[p]
      <3>1. Signalling \ {p} \subseteq Signalling'
        BY <2>p DEF Signalling
      <3>2. Cardinality(Signalling) <= Cardinality(Signalling') + 1
        BY <3>1, LookingFinite, CountLess
      <3>3. g \notin Coming
        BY <1>t, <2>g, <2>2 DEF Coming, ParkInv
      <3>4. g \in Coming'
        <4>1. pc[g] \in {"swap", "activate"} => park_state'[g] = 2
          BY <1>t, <2>g, <2>2 DEF TypeOK, ParkInv, WakeFiber, g
        <4>2. pc[g] = "parked" => runnable'[g] > 0
          BY <1>t, <2>g, <2>2 DEF TypeOK, ParkInv, WakeFiber, MakeRunnable, g
        <4>3. pc[g] \in {"swap", "activate", "parked"}
          BY <1>t, <2>g, <2>2 DEF ParkInv
        <4> QED BY <2>g, <2>p, <4>1, <4>2, <4>3 DEF Coming
      <3>5. \A a \in Fibers : a # g => runnable'[a] = runnable[a] /\ park_state'[a] = park_state[a]
        BY <2>r, <2>x
      <3>6. Coming \subseteq Coming'
        BY <2>p, <2>f, <3>3, <3>5 DEF Coming
      <3>7. Cardinality(Coming) + 1 <= Cardinality(Coming')
        BY <3>3, <3>4, <3>6, LookingFinite, CountMore
      <3> QED BY <1>t, <2>s, <2>k, <3>2, <3>7, LookingFinite DEF EnoughLook
    <2> QED BY <2>1, <2>2
  <1> QED BY <1>1, <1>2, <1>3 DEF TokenInv

\* The signal to the threads keeps TokenInv: it wakes one, or nobody sleeps.
LEMMA CvSignalToken ==
    ASSUME ~LateSignal, WakeInv, TokenInv, NEW p \in Posters, CvSignal(p)
    PROVE  TokenInv'
  <1>t. TypeOK /\ PcInv /\ MutexInv /\ LockInv /\ ListInv /\ ParkInv /\ HeldBySignal /\ Found /\ EnoughLook
    BY DEF WakeInv, TokenInv
  <1>1. HeldBySignal'
    BY <1>t, FCondAssumption, SMT DEF TypeOK, PcInv, MutexInv, HeldBySignal, CvSignal, Waiters, PosterPcs
  <1>2. Found'
    <2>1. \A g \in Fibers : pc'[g] = "park" => g \in ToSet(list')
      BY <1>t, FCondAssumption, SMT DEF TypeOK, PcInv, MutexInv, HeldBySignal, Found, CvSignal, Waiters, PosterPcs
    <2>2. \A g \in Fibers : timed_park'[g] => g \in ToSet(list') \/ \E r \in Posters : node'[r] = g
      BY <1>t, FCondAssumption, SMT DEF TypeOK, PcInv, MutexInv, LockInv, ParkInv, HeldBySignal, Found, CvSignal, parkVars, Waiters, PosterPcs
    <2>3. \A r \in Posters : pc'[r] = "cvsignal" => list' = <<>>
      BY <1>t, FCondAssumption, SMT DEF TypeOK, PcInv, MutexInv, HeldBySignal, Found, CvSignal, Waiters, PosterPcs
    <2> QED BY <2>1, <2>2, <2>3 DEF Found
  <1>3. EnoughLook'
    <2>0. PICK woken \in SUBSET cv :
              /\ IF all[p] THEN woken = cv ELSE Cardinality(woken) = IF cv = {} THEN 0 ELSE 1
              /\ cv' = cv \ woken
              /\ pc' = [a \in Waiters \cup Posters |->
                            IF a \in woken THEN "relock" ELSE IF a = p THEN "end" ELSE pc[a]]
      BY DEF CvSignal
    <2>k. tokens \in Nat /\ tokens' = tokens
      BY <1>t, FCondAssumption DEF TypeOK, CvSignal
    <2>1. CASE cv = {}
      <3>1. cv' = {}
        BY <2>0, <2>1
      <3>2. mutex = p /\ list = <<>>
        BY <1>t DEF HeldBySignal, Found, CvSignal
      <3>3. ToSet(list) = {}
        BY <1>t, <3>2, ToSetType DEF TypeOK
      <3>4. \A r \in Posters : node[r] = NoFiber
        BY <1>t, <3>2 DEF LockInv, HeldBySignal, CvSignal
      <3>5. \A g \in Fibers : pc[g] # "park" /\ ~timed_park[g]
        BY <1>t, <3>3, <3>4, FCondAssumption DEF Found
      <3>6. \A g \in Fibers : pc'[g] # "park" /\ ~timed_park'[g]
        BY <2>0, <3>5, FCondAssumption DEF CvSignal, parkVars, Waiters
      <3> QED BY <3>1, <3>6 DEF EnoughLook, SomeoneWaits
    <2>2. CASE cv # {}
      <3>1. woken # {}
        BY <2>0, <2>2, FS_EmptySet
      <3>2. PICK t \in woken : TRUE
        BY <3>1
      <3>3. t \in Threads /\ pc[t] = "cvwait" /\ t \in Waiters
        BY <1>t, <3>2 DEF TypeOK, PcInv, Waiters
      <3>4. t \notin Coming /\ t \in Coming'
        BY <2>0, <3>2, <3>3 DEF Coming
      <3>5. Coming \subseteq Coming'
        <4>1. \A a \in Waiters : a \notin woken => pc'[a] = pc[a]
          BY <2>0, FCondAssumption
        <4>2. \A a \in woken : a \in Waiters /\ pc'[a] = "relock"
          BY <1>t, <2>0 DEF TypeOK, Waiters
        <4> QED BY <4>1, <4>2 DEF Coming, CvSignal, parkVars
      <3>6. Cardinality(Coming) + 1 <= Cardinality(Coming')
        BY <3>4, <3>5, LookingFinite, CountMore
      <3>7. Signalling \ {p} \subseteq Signalling'
        <4>1. \A r \in Posters : r \notin woken
          BY <1>t, FCondAssumption DEF TypeOK, Waiters
        <4> QED BY <2>0, <4>1 DEF Signalling
      <3>8. Cardinality(Signalling) <= Cardinality(Signalling') + 1
        BY <3>7, LookingFinite, CountLess
      <3>9. SomeoneWaits
        BY <2>2 DEF SomeoneWaits
      <3> QED BY <1>t, <2>k, <3>6, <3>8, <3>9, LookingFinite DEF EnoughLook
    <2> QED BY <2>1, <2>2
  <1> QED BY <1>1, <1>2, <1>3 DEF TokenInv

\* A poster's unlock keeps TokenInv.
LEMMA PostUnlockToken ==
    ASSUME ~LateSignal, WakeInv, TokenInv, NEW p \in Posters, PostUnlock(p)
    PROVE  TokenInv'
  <1>t. TypeOK /\ PcInv /\ MutexInv /\ LockInv /\ ListInv /\ ParkInv /\ HeldBySignal /\ Found /\ EnoughLook
    BY DEF WakeInv, TokenInv
  <1>1. HeldBySignal'
    BY <1>t, FCondAssumption, SMT DEF TypeOK, PcInv, MutexInv, HeldBySignal, PostUnlock, Goto, Waiters, PosterPcs
  <1>2. Found'
    <2>1. \A g \in Fibers : pc'[g] = "park" => g \in ToSet(list')
      BY <1>t, FCondAssumption, SMT DEF TypeOK, PcInv, MutexInv, HeldBySignal, Found, PostUnlock, Goto, Waiters, PosterPcs
    <2>2. \A g \in Fibers : timed_park'[g] => g \in ToSet(list') \/ \E r \in Posters : node'[r] = g
      BY <1>t, FCondAssumption, SMT DEF TypeOK, PcInv, MutexInv, LockInv, ParkInv, HeldBySignal, Found, PostUnlock, Goto, parkVars, Waiters, PosterPcs
    <2>3. \A r \in Posters : pc'[r] = "cvsignal" => list' = <<>>
      BY <1>t, FCondAssumption, SMT DEF TypeOK, PcInv, MutexInv, HeldBySignal, Found, PostUnlock, Goto, Waiters, PosterPcs
    <2> QED BY <2>1, <2>2, <2>3 DEF Found
  <1>3. EnoughLook'
    <2>1. Coming \subseteq Coming'
      BY <1>t, FCondAssumption, SMT DEF TypeOK, PcInv, ParkInv, LockInv, Coming, PostUnlock, Goto, parkVars, Waiters, PosterPcs
    <2>2. Signalling \subseteq Signalling'
      BY <1>t, FCondAssumption, SMT DEF TypeOK, PcInv, Signalling, PostUnlock, Goto, Waiters, PosterPcs
    <2>3. SomeoneWaits' => SomeoneWaits
      BY <1>t, FCondAssumption, SMT DEF TypeOK, PcInv, ParkInv, LockInv, SomeoneWaits, PostUnlock, Goto, parkVars, Waiters, PosterPcs
    <2> QED BY <1>t, <2>1, <2>2, <2>3, LooksKept DEF PostUnlock
  <1> QED BY <1>1, <1>2, <1>3 DEF TokenInv

\* At the start nobody waits.
LEMMA TokenInit == Init => TokenInv
  <1> SUFFICES ASSUME Init PROVE TokenInv
    OBVIOUS
  <1>1. HeldBySignal
    BY FCondAssumption DEF Init, HeldBySignal
  <1>2. Found
    BY FCondAssumption DEF Init, Found, Waiters
  <1>3. EnoughLook
    BY LookingFinite DEF Init, EnoughLook
  <1> QED BY <1>1, <1>2, <1>3 DEF TokenInv

\* Every step keeps the invariant, with signals under the mutex.
LEMMA TokenStep ==
    ASSUME ~LateSignal, WakeInv, TokenInv, [Next]_vars
    PROVE  TokenInv'
  <1>1. CASE UNCHANGED vars
    BY <1>1 DEF vars, parkVars, TokenInv, HeldBySignal, Found, EnoughLook, SomeoneWaits, Coming, Signalling
  <1>2. ASSUME NEW a \in Waiters, Enter(a) PROVE TokenInv'
    BY <1>2, EnterToken
  <1>3. ASSUME NEW a \in Waiters, Wait(a) PROVE TokenInv'
    BY <1>3, DoneToken, RelockToken, FiberQueueToken, FiberParkToken, LoopUnlockToken, ActivateToken, ExpireToken,
       ResumeToken, BackToken, ThreadWaitToken DEF Wait, FiberStep
  <1>4. ASSUME NEW t \in Threads, SpuriousWake(t) PROVE TokenInv'
    BY <1>4, SpuriousWakeToken
  <1>5. ASSUME NEW p \in Posters, PosterStep(p) PROVE TokenInv'
    BY <1>5, PostToken, ProbeToken, UnlinkHeadToken, WakeFiberToken, CvSignalToken, PostUnlockToken DEF PosterStep
  <1>6. ASSUME NEW p \in Posters, NEW b \in BOOLEAN, PostLock(p, b) PROVE TokenInv'
    BY <1>6, PostLockToken
  <1> QED BY <1>1, <1>2, <1>3, <1>4, <1>5, <1>6 DEF Next

\* With signals under the mutex TokenInv holds as well.
THEOREM TokensHold ==
    ASSUME ~LateSignal
    PROVE  Spec => [](WakeInv /\ TokenInv)
  <1>1. Init => WakeInv /\ TokenInv
    BY WakeInit, TokenInit
  <1>2. WakeInv /\ TokenInv /\ [Next]_vars => (WakeInv /\ TokenInv)'
    BY WakeStep, TokenStep
  <1> QED BY <1>1, <1>2, PTL DEF Spec

\* With signals under the mutex no wake-up is lost: while a waiter sleeps, at least
\* as many waiters and signals are on their way as there are tokens, for any number
\* of fibers, threads and posters (nurl_fcond_signal, nurl_fcond_broadcast).
THEOREM NoTokenStrandedHolds ==
    ASSUME ~LateSignal
    PROVE  Spec => []NoTokenStranded
  <1>1. WakeInv /\ TokenInv => NoTokenStranded
    <2> SUFFICES ASSUME WakeInv, TokenInv, Asleep # {} PROVE SomeoneWaits
      BY DEF TokenInv, EnoughLook, NoTokenStranded
    <2>1. PICK a \in Waiters : pc[a] = "cvwait" \/ (pc[a] = "parked" /\ runnable[a] = 0)
      BY DEF Asleep
    <2>2. CASE a \in Threads
      BY <2>1, <2>2 DEF WakeInv, PcInv, SomeoneWaits
    <2>3. CASE a \in Fibers
      BY <2>1, <2>3 DEF WakeInv, PcInv, ParkInv, SomeoneWaits
    <2> QED BY <2>2, <2>3 DEF Waiters
  <1> QED BY TokensHold, <1>1, PTL

\* With signals under the mutex a parked, unclaimed fiber is on the list or in a
\* waker's hand ("a wake that comes before the park completes is not lost").
THEOREM ParkedReachableHolds ==
    ASSUME ~LateSignal
    PROVE  Spec => []ParkedReachable
  <1>1. TokenInv => ParkedReachable
    BY DEF TokenInv, Found, ParkedReachable
  <1> QED BY TokensHold, <1>1, PTL
-----------------------------------------------------------------------------
(* The resolver.                                                           *)

Jobs == [live : BOOLEAN, done : BOOLEAN, abandoned : BOOLEAN, signal : BOOLEAN]
CallPlaces == {"rest", "submit", "inline", "check", "wait", "take", "try", "pending", "connected",
               "failed"}
Callings == [at : CallPlaces, fiber : BOOLEAN, deadline : Int, addrs : Int, fd : {"none", "open"}, err : {"none", "other", "timeout"}]
Lookers == [at : {"none", "loop", "idle", "woken", "over", "look"}, job : Fibers \cup {"none"}]

\* The records of jobs, calls and pool threads.
LookupType ==
    /\ rnow \in Int /\ rq \in Seq(Fibers) /\ worker \in [Pool -> Lookers]
    /\ job \in [Fibers -> Jobs] /\ caller \in [Fibers -> Callings]

\* A pool thread looks a name up for one job, which has left the queue.
LooksUp(w, c) == worker[w].at = "look" /\ worker[w].job = c
LookupOnce ==
    /\ IsInjective(rq)
    /\ \A w \in Pool : worker[w].at = "look" => worker[w].job \in Fibers /\ worker[w].job \notin ToSet(rq)
    /\ \A v, w \in Pool, c \in Fibers : LooksUp(v, c) /\ LooksUp(w, c) => v = w

\* The pool has c's job, in its queue or in a thread's hands.
InPool(c) == c \in ToSet(rq) \/ \E w \in Pool : LooksUp(w, c)

\* Whose job j is, by the place of its caller and whether the pool has it: the
\* caller's until it is submitted and from when it is done, the pool's alone once
\* it is abandoned, and nobody's only after it was freed.
JobHeld(place, j, pooled) ==
    /\ pooled => j.live /\ ~j.done
    /\ place \in {"submit", "inline"} => j.live /\ ~pooled /\ ~j.abandoned /\ ~j.done
    /\ place \in {"check", "wait"} => j.live /\ ~j.abandoned /\ (j.done \/ pooled)
    /\ place = "take" => j.live /\ ~pooled
    /\ place = "failed" => (j.live => j.abandoned /\ pooled)
    /\ place \in {"rest", "try", "pending", "connected"} => ~j.live

LookupInv ==
    /\ LookupType /\ LookupOnce /\ bad = {}
    /\ \A c \in Fibers : JobHeld(caller[c].at, job[c], InPool(c))

\* One field of a call's record at a time.
LEMMA CallField ==
    ASSUME NEW r \in Callings
    PROVE  /\ \A v \in CallPlaces : [r EXCEPT !.at = v] \in Callings /\ [r EXCEPT !.at = v].at = v
           /\ \A v \in BOOLEAN : [r EXCEPT !.fiber = v] \in Callings /\ [r EXCEPT !.fiber = v].at = r.at
           /\ \A v \in Int : [r EXCEPT !.deadline = v] \in Callings /\ [r EXCEPT !.deadline = v].at = r.at
           /\ \A v \in Int : [r EXCEPT !.addrs = v] \in Callings /\ [r EXCEPT !.addrs = v].at = r.at
           /\ \A v \in {"none", "open"} : [r EXCEPT !.fd = v] \in Callings /\ [r EXCEPT !.fd = v].at = r.at
           /\ \A v \in {"none", "other", "timeout"} :
                 [r EXCEPT !.err = v] \in Callings /\ [r EXCEPT !.err = v].at = r.at
  BY DEF Callings, CallPlaces

\* The records a call begins and ends with.
LEMMA CallEnds ==
    /\ RS!AtRest \in Callings /\ RS!AtRest.at = "rest"
    /\ RS!Connected \in Callings /\ RS!Connected.at = "connected"
    /\ \A why \in {"other", "timeout"} : RS!Failed(why) \in Callings /\ RS!Failed(why).at = "failed"
  <1>1. RS!AtRest \in Callings /\ RS!AtRest.at = "rest"
    BY DEF RS!AtRest, Callings, CallPlaces
  <1>0. {"connected", "failed"} \subseteq CallPlaces /\ "open" \in {"none", "open"}
        /\ {"other", "timeout"} \subseteq {"none", "other", "timeout"}
    BY DEF CallPlaces
  <1>2. RS!Connected \in Callings /\ RS!Connected.at = "connected"
    <2>1. [RS!AtRest EXCEPT !.at = "connected"] \in Callings
          /\ [RS!AtRest EXCEPT !.at = "connected"].at = "connected"
      BY <1>0, <1>1, CallField, Zenon
    <2> QED BY <1>0, <2>1, CallField, Zenon DEF RS!Connected
  <1>3. ASSUME NEW why \in {"other", "timeout"} PROVE RS!Failed(why) \in Callings /\ RS!Failed(why).at = "failed"
    <2>1. [RS!AtRest EXCEPT !.at = "failed"] \in Callings
          /\ [RS!AtRest EXCEPT !.at = "failed"].at = "failed"
      BY <1>0, <1>1, CallField, Zenon
    <2>2. why \in {"none", "other", "timeout"}
      BY <1>0
    <2> QED BY <2>2, <2>1, CallField, Zenon DEF RS!Failed
  <1> QED BY <1>1, <1>2, <1>3

\* The record of a call under way.
LEMMA CallStart ==
    ASSUME NEW fiber \in BOOLEAN, NEW d \in Int
    PROVE  [RS!AtRest EXCEPT !.fiber = fiber, !.deadline = d] \in Callings
  <1> DEFINE one == [RS!AtRest EXCEPT !.fiber = fiber]
  <1>1. one \in Callings
    BY CallEnds, CallField, Zenon
  <1>2. [one EXCEPT !.deadline = d] \in Callings
    <2> HIDE DEF one
    <2> QED BY <1>1, CallField, Zenon
  <1> QED BY <1>2, Zenon

\* The addresses are there.
LEMMA CallTries ==
    ASSUME NEW r \in Callings, NEW n \in Int
    PROVE  /\ [r EXCEPT !.at = "try", !.addrs = n] \in Callings
           /\ [r EXCEPT !.at = "try", !.addrs = n].at = "try"
  <1> DEFINE tries == [r EXCEPT !.at = "try"]
  <1>1. tries \in Callings /\ tries.at = "try"
    BY CallField, Zenon DEF CallPlaces
  <1>2. [tries EXCEPT !.addrs = n] \in Callings /\ [tries EXCEPT !.addrs = n].at = "try"
    <2> HIDE DEF tries
    <2> QED BY <1>1, CallField, Zenon
  <1> QED BY <1>2, Zenon

\* A step of one caller, which leaves the pool alone.
LEMMA CallerMoves ==
    ASSUME LookupInv, NEW c \in Fibers, NEW j \in Jobs, NEW k \in Callings,
           rnow' = rnow, rq' = rq, worker' = worker, bad' = {},
           job' = [job EXCEPT ![c] = j], caller' = [caller EXCEPT ![c] = k],
           JobHeld(k.at, j, InPool(c))
    PROVE  LookupInv'
  <1>1. LookupType'
    BY DEF LookupInv, LookupType
  <1>2. LookupOnce'
    BY DEF LookupInv, LookupOnce, LooksUp
  <1>3. \A d \in Fibers : InPool(d)' = InPool(d)
    BY DEF InPool, LooksUp
  <1>4. ASSUME NEW d \in Fibers PROVE JobHeld(caller'[d].at, job'[d], InPool(d)')
    <2>1. JobHeld(caller[d].at, job[d], InPool(d))
      BY DEF LookupInv
    <2>2. CASE d = c
      <3>1. caller'[d] = k /\ job'[d] = j /\ InPool(d)' = InPool(c)
        BY <2>2, <1>3 DEF LookupInv, LookupType
      <3> QED BY <3>1
    <2>3. CASE d # c
      <3>1. caller'[d] = caller[d] /\ job'[d] = job[d]
        BY <2>3 DEF LookupInv, LookupType
      <3> QED BY <3>1, <2>1, <1>3
    <2> QED BY <2>2, <2>3
  <1> QED BY <1>1, <1>2, <1>4 DEF LookupInv

\* nurl__resolve: a job of its own, or the answer at once.
LEMMA BeginKeeps ==
    ASSUME LookupInv, NEW c \in Fibers, RS!Begin(c)
    PROVE  LookupInv'
  <1>1. caller[c].at = "rest" /\ caller[c] \in Callings /\ job[c] \in Jobs /\ bad = {}
    BY DEF RS!Begin, LookupInv, LookupType
  <1>2. ~InPool(c) /\ ~job[c].live
    BY <1>1 DEF LookupInv, JobHeld
  <1>3. PICK fiber \in BOOLEAN, t \in ConnectTimeouts, numeric \in BOOLEAN, d \in Int :
          LET start == [RS!AtRest EXCEPT !.fiber = fiber, !.deadline = d]
          IN  \/ /\ \E n \in 0 .. MaxAddrs :
                       caller' = [caller EXCEPT ![c] =
                         IF n = 0 THEN RS!Failed("other")
                         ELSE [start EXCEPT !.at = "try", !.addrs = n]]
                 /\ UNCHANGED job
              \/ /\ caller' = [caller EXCEPT ![c] = [start EXCEPT !.at = "submit"]]
                 /\ job' = [job EXCEPT ![c] = [RS!NoJob EXCEPT !.live = TRUE]]
    <2>1. \A t \in ConnectTimeouts : (IF t > 0 THEN rnow + t ELSE -1) \in Int
      BY LookupAssumption DEF LookupInv, LookupType
    <2> QED BY <2>1 DEF RS!Begin
  <1>0. rnow' = rnow /\ rq' = rq /\ worker' = worker /\ bad' = {}
    BY <1>1 DEF RS!Begin
  <1>7. PICK start : start = [RS!AtRest EXCEPT !.fiber = fiber, !.deadline = d]
    OBVIOUS
  <1>6. \A m \in Int : [start EXCEPT !.at = "try", !.addrs = m] \in Callings
                       /\ [start EXCEPT !.at = "try", !.addrs = m].at = "try"
                       /\ [start EXCEPT !.at = "submit"] \in Callings /\ [start EXCEPT !.at = "submit"].at = "submit"
    <2>1. start \in Callings
      BY <1>7, CallStart, Zenon
    <2>2. "submit" \in CallPlaces
      BY DEF CallPlaces
    <2> QED BY <2>1, <2>2, CallField, CallTries, Zenon
  <1>4. ASSUME NEW n \in 0 .. MaxAddrs, UNCHANGED job,
               caller' = [caller EXCEPT ![c] = IF n = 0 THEN RS!Failed("other")
                                               ELSE [start EXCEPT !.at = "try", !.addrs = n]]
        PROVE  LookupInv'
    <2> DEFINE k == IF n = 0 THEN RS!Failed("other") ELSE [start EXCEPT !.at = "try", !.addrs = n]
    <2>1. k \in Callings /\ k.at \in {"failed", "try"}
      <3>1. n \in Int
        BY LookupAssumption
      <3>2. RS!Failed("other") \in Callings /\ RS!Failed("other").at = "failed"
        BY CallEnds
      <3> QED BY <3>1, <3>2, <1>6, Zenon
    <2>2. job' = [job EXCEPT ![c] = job[c]]
      BY <1>4 DEF LookupInv, LookupType
    <2>3. JobHeld(k.at, job[c], InPool(c))
      BY <2>1, <1>2 DEF JobHeld
    <2>4. caller' = [caller EXCEPT ![c] = k]
      BY <1>4
    <2> HIDE DEF k
    <2> QED BY <1>0, <1>1, <2>1, <2>2, <2>3, <2>4, CallerMoves
  <1>5. ASSUME caller' = [caller EXCEPT ![c] = [start EXCEPT !.at = "submit"]],
               job' = [job EXCEPT ![c] = [RS!NoJob EXCEPT !.live = TRUE]]
        PROVE  LookupInv'
    <2> DEFINE k == [start EXCEPT !.at = "submit"]
               j == [RS!NoJob EXCEPT !.live = TRUE]
    <2>1. k \in Callings /\ k.at = "submit" /\ j \in Jobs /\ j.live /\ ~j.abandoned /\ ~j.done
      <3>1. j \in Jobs /\ j.live /\ ~j.abandoned /\ ~j.done
        BY DEF Jobs, RS!NoJob
      <3>2. 0 \in Int
        OBVIOUS
      <3> QED BY <3>1, <3>2, <1>6, Zenon
    <2>3. JobHeld(k.at, j, InPool(c))
      BY <2>1, <1>2 DEF JobHeld
    <2>4. caller' = [caller EXCEPT ![c] = k] /\ job' = [job EXCEPT ![c] = j]
      BY <1>5
    <2> HIDE DEF k, j
    <2> QED BY <1>0, <2>1, <2>3, <2>4, CallerMoves
  <1> QED BY <1>3, <1>4, <1>5, <1>7, Zenon


\* No use of a job that is live.
LEMMA UseOfLive ==
    ASSUME NEW c, job[c].live, bad = {} PROVE bad \cup RS!Use(c) = {}
  BY DEF RS!Use

\* The two ends of a lookup whose job is the caller's: it is freed, and the
\* addresses are tried.
LEMMA AnswerTaken ==
    ASSUME LookupInv, NEW c \in Fibers, caller[c].at \in {"inline", "take"},
           rnow' = rnow, rq' = rq, worker' = worker, bad' = {}, job' = RS!FreeJob(c),
           NEW n \in 0 .. MaxAddrs,
           caller' = [caller EXCEPT ![c] = IF n = 0 THEN RS!Failed("other")
                                           ELSE [@ EXCEPT !.at = "try", !.addrs = n]]
    PROVE  LookupInv'
  <1> DEFINE k == IF n = 0 THEN RS!Failed("other") ELSE [caller[c] EXCEPT !.at = "try", !.addrs = n]
  <1>1. caller[c] \in Callings /\ caller \in [Fibers -> Callings] /\ n \in Int
    BY LookupAssumption DEF LookupInv, LookupType
  <1>4. k \in Callings /\ k.at \in {"failed", "try"}
    BY <1>1, CallTries, CallEnds, Zenon
  <1>5. RS!NoJob \in Jobs /\ ~RS!NoJob.live
    BY DEF RS!NoJob, Jobs
  <1>6. ~InPool(c)
    BY DEF LookupInv, JobHeld
  <1>7. job' = [job EXCEPT ![c] = RS!NoJob]
    BY DEF RS!FreeJob
  <1>8. caller' = [caller EXCEPT ![c] = k]
    BY Zenon
  <1> HIDE DEF k
  <1>9. JobHeld(k.at, RS!NoJob, InPool(c))
    BY <1>4, <1>5, <1>6 DEF JobHeld
  <1> QED BY <1>4, <1>5, <1>7, <1>8, <1>9, CallerMoves

\* nurl__resolve where it could not offload.
LEMMA InlineKeeps ==
    ASSUME LookupInv, NEW c \in Fibers, RS!Inline(c)
    PROVE  LookupInv'
  <1>1. bad' = {}
    BY DEF RS!Inline, LookupInv
  <1> QED BY <1>1, AnswerTaken, Zenon DEF RS!Inline

\* nurl__resolve with an answer of the pool: the job it reads is still there.
LEMMA TakeKeeps ==
    ASSUME LookupInv, NEW c \in Fibers, RS!Take(c)
    PROVE  LookupInv'
  <1>1. job[c].live /\ bad = {}
    BY DEF RS!Take, LookupInv, JobHeld
  <1>2. bad' = {}
    BY <1>1, UseOfLive DEF RS!Take
  <1> QED BY <1>2, AnswerTaken, Zenon DEF RS!Take

\* nurl__dns_offload's loop: a job that is not done is abandoned to the pool,
\* which has it.
LEMMA CheckKeeps ==
    ASSUME LookupInv, NEW c \in Fibers, RS!Check(c)
    PROVE  LookupInv'
  <1>0. caller[c].at = "check" /\ caller[c] \in Callings /\ caller \in [Fibers -> Callings]
        /\ job[c] \in Jobs /\ job \in [Fibers -> Jobs]
    BY DEF RS!Check, LookupInv, LookupType
  <1>1. job[c].live /\ ~job[c].abandoned /\ (job[c].done \/ InPool(c)) /\ (InPool(c) => ~job[c].done) /\ bad = {}
    BY <1>0 DEF LookupInv, JobHeld
  <1>2. rnow' = rnow /\ rq' = rq /\ worker' = worker /\ bad' = {}
    BY <1>1, UseOfLive DEF RS!Check
  <1>3. ASSUME NEW p \in {"take", "wait"}, caller' = [caller EXCEPT ![c].at = p], job' = job,
               p = "take" => job[c].done
        PROVE  LookupInv'
    <2>1. p \in CallPlaces
      BY DEF CallPlaces
    <2> DEFINE k == [caller[c] EXCEPT !.at = p]
    <2>2. k \in Callings /\ k.at = p
      BY <1>0, <2>1, CallField, Zenon
    <2>3. caller' = [caller EXCEPT ![c] = k] /\ job' = [job EXCEPT ![c] = job[c]]
      BY <1>0, <1>3
    <2>4. JobHeld(k.at, job[c], InPool(c))
      BY <2>2, <1>1, <1>3 DEF JobHeld
    <2> HIDE DEF k
    <2> QED BY <1>0, <1>2, <2>2, <2>3, <2>4, CallerMoves
  <1>4. ASSUME caller' = [caller EXCEPT ![c] = RS!Failed("timeout")], ~job[c].done,
               job' = [job EXCEPT ![c].abandoned = TRUE]
        PROVE  LookupInv'
    <2> DEFINE j == [job[c] EXCEPT !.abandoned = TRUE]
    <2>1. j \in Jobs /\ j.live /\ j.abandoned /\ ~j.done
      BY <1>0, <1>1, <1>4 DEF Jobs
    <2>2. job' = [job EXCEPT ![c] = j]
      BY <1>0, <1>4
    <2>3. RS!Failed("timeout") \in Callings /\ RS!Failed("timeout").at = "failed"
      BY CallEnds
    <2> HIDE DEF j
    <2>4. JobHeld(RS!Failed("timeout").at, j, InPool(c))
      BY <2>1, <2>3, <1>1, <1>4 DEF JobHeld
    <2> QED BY <1>2, <1>4, <2>1, <2>2, <2>3, <2>4, CallerMoves
  <1> QED BY <1>3, <1>4 DEF RS!Check

\* The wait ends, at a job that is still there.
LEMMA WokenKeeps ==
    ASSUME LookupInv, NEW c \in Fibers, RS!Woken(c)
    PROVE  LookupInv'
  <1>0. caller[c].at = "wait" /\ caller[c] \in Callings /\ caller \in [Fibers -> Callings]
        /\ job[c] \in Jobs /\ job \in [Fibers -> Jobs]
    BY DEF RS!Woken, LookupInv, LookupType
  <1>1. job[c].live /\ ~job[c].abandoned /\ (job[c].done \/ InPool(c)) /\ (InPool(c) => ~job[c].done) /\ bad = {}
    BY <1>0 DEF LookupInv, JobHeld
  <1>2. rnow' = rnow /\ rq' = rq /\ worker' = worker /\ bad' = {}
    BY <1>1, UseOfLive DEF RS!Woken
  <1> DEFINE k == [caller[c] EXCEPT !.at = "check"]
  <1>3. k \in Callings /\ k.at = "check"
    BY <1>0, CallField, Zenon DEF CallPlaces
  <1>4. caller' = [caller EXCEPT ![c] = k] /\ job' = [job EXCEPT ![c] = job[c]]
    BY <1>0 DEF RS!Woken
  <1>5. JobHeld(k.at, job[c], InPool(c))
    BY <1>3, <1>1 DEF JobHeld
  <1> HIDE DEF k
  <1> QED BY <1>0, <1>2, <1>3, <1>4, <1>5, CallerMoves

\* After the lookup the call has no job.
LEMMA CallMoves ==
    ASSUME LookupInv, NEW c \in Fibers, NEW k \in Callings,
           caller[c].at \in {"try", "pending"} \/ (caller[c].at \in {"connected", "failed"} /\ ~job[c].live),
           k.at \in {"rest", "try", "pending", "connected", "failed"},
           caller' = [caller EXCEPT ![c] = k],
           UNCHANGED <<rnow, rq, idle, threads, worker, job, bad, calls, forked>>
    PROVE  LookupInv'
  <1>1. ~job[c].live /\ ~InPool(c) /\ job[c] \in Jobs /\ bad' = {} /\ job' = [job EXCEPT ![c] = job[c]]
    BY DEF LookupInv, JobHeld, LookupType
  <1>2. JobHeld(k.at, job[c], InPool(c))
    BY <1>1 DEF JobHeld
  <1> QED BY <1>1, <1>2, CallerMoves

\* The next address, or none.
LEMMA NextAddrType ==
    ASSUME LookupInv, NEW c \in Fibers
    PROVE  RS!NextAddr(c, "other") \in Callings /\ RS!NextAddr(c, "other").at \in {"try", "failed"}
  <1> DEFINE a == [caller[c] EXCEPT !.at = "try"]
             b == [a EXCEPT !.addrs = @ - 1]
             d == [b EXCEPT !.fd = "none"]
  <1>1. caller[c] \in Callings /\ "try" \in CallPlaces /\ "none" \in {"none", "open"}
        /\ "other" \in {"none", "other", "timeout"}
    BY DEF LookupInv, LookupType, CallPlaces
  <1>2. a \in Callings /\ a.at = "try"
    BY <1>1, CallField, Zenon
  <1>3. a.addrs - 1 \in Int
    <2> HIDE DEF a
    <2> QED BY <1>2 DEF Callings
  <1>4. b \in Callings /\ b.at = "try"
    <2> HIDE DEF a
    <2> QED BY <1>2, <1>3, CallField, Zenon
  <1>5. d \in Callings /\ d.at = "try"
    <2> HIDE DEF b
    <2> QED BY <1>1, <1>4, CallField, Zenon
  <1>6. [d EXCEPT !.err = "other"] \in Callings /\ [d EXCEPT !.err = "other"].at = "try"
    <2> HIDE DEF d
    <2> QED BY <1>1, <1>5, CallField, Zenon
  <1> QED BY <1>6, CallEnds, Zenon DEF RS!NextAddr

\* nurl__connect_start.
LEMMA StartKeeps ==
    ASSUME LookupInv, NEW c \in Fibers, RS!Start(c)
    PROVE  LookupInv'
  <1> DEFINE a == [caller[c] EXCEPT !.at = "pending"]
             b == [a EXCEPT !.fd = "open"]
  <1>1. caller[c] \in Callings /\ caller \in [Fibers -> Callings] /\ "pending" \in CallPlaces
        /\ "open" \in {"none", "open"}
    BY DEF LookupInv, LookupType, CallPlaces
  <1>2. a \in Callings /\ a.at = "pending"
    BY <1>1, CallField, Zenon
  <1>3. b \in Callings /\ b.at = "pending"
    <2> HIDE DEF a
    <2> QED BY <1>1, <1>2, CallField, Zenon
  <1>4. \/ caller' = [caller EXCEPT ![c] = RS!Connected]
        \/ caller' = [caller EXCEPT ![c] = b]
        \/ caller' = [caller EXCEPT ![c] = RS!NextAddr(c, "other")]
    BY Zenon DEF RS!Start
  <1>5. PICK k \in Callings : k.at \in {"connected", "pending", "try", "failed"} /\ caller' = [caller EXCEPT ![c] = k]
    <2> HIDE DEF b
    <2> QED BY <1>3, <1>4, CallEnds, NextAddrType, Zenon
  <1> QED BY <1>5, CallMoves DEF RS!Start

\* nurl__connect_finish.
LEMMA PendingKeeps ==
    ASSUME LookupInv, NEW c \in Fibers, RS!Pending(c)
    PROVE  LookupInv'
  <1>1. PICK k \in Callings : k.at \in {"connected", "pending", "try", "failed"} /\ caller' = [caller EXCEPT ![c] = k]
    BY CallEnds, NextAddrType, Zenon DEF RS!Pending
  <1> QED BY <1>1, CallMoves DEF RS!Pending

\* The caller's next connect waits until the pool has let its old job go.
LEMMA ReturnKeeps ==
    ASSUME LookupInv, NEW c \in Fibers, RS!Return(c)
    PROVE  LookupInv'
  BY CallEnds, CallMoves DEF RS!Return


\* The pool's threads keep what they look up.
SameLooks ==
    \A w \in Pool : /\ worker'[w].at = "look" <=> worker[w].at = "look"
                    /\ worker[w].at = "look" => worker'[w].job = worker[w].job

\* Then the same lookups are in the pool's hands.
LEMMA SameLooksUp ==
    ASSUME SameLooks, NEW w \in Pool, NEW c PROVE LooksUp(w, c)' = LooksUp(w, c)
  BY DEF SameLooks, LooksUp

\* A step of a pool thread that takes up and answers nothing, or of the clock.
LEMMA PoolMoves ==
    ASSUME LookupInv, rnow' \in Int, worker' \in [Pool -> Lookers], SameLooks,
           rq' = rq, job' = job, caller' = caller, bad' = bad
    PROVE  LookupInv'
  <1>1. LookupType'
    BY DEF LookupInv, LookupType
  <1>2. LookupOnce'
    BY SameLooksUp DEF LookupInv, LookupOnce, SameLooks
  <1>3. \A d \in Fibers : InPool(d)' = InPool(d)
    BY SameLooksUp DEF InPool
  <1> QED BY <1>1, <1>2, <1>3 DEF LookupInv

\* A pool thread that resumes, or ends its idle wait.
LEMMA ResumeKeeps ==
    ASSUME LookupInv, NEW w \in Pool, RS!Resume(w) \/ RS!IdleOver(w) \/ RS!IdleTimeout(w)
    PROVE  LookupInv'
  <1>1. worker \in [Pool -> Lookers] /\ rnow' \in Int /\ rq' = rq /\ job' = job /\ caller' = caller /\ bad' = bad
    BY DEF LookupInv, LookupType, RS!Resume, RS!IdleOver, RS!IdleTimeout
  <1>2. PICK p \in {"loop", "over", "none"} : worker' = [worker EXCEPT ![w].at = p] /\ worker[w].at # "look"
    BY DEF RS!Resume, RS!IdleOver, RS!IdleTimeout
  <1>3. worker' \in [Pool -> Lookers] /\ SameLooks
    BY <1>1, <1>2 DEF Lookers, SameLooks
  <1> QED BY <1>1, <1>3, PoolMoves

\* The oldest job goes from the queue into a thread's hands.
LEMMA LoopKeeps ==
    ASSUME LookupInv, NEW w \in Pool, RS!Loop(w)
    PROVE  LookupInv'
  <1>1. /\ worker \in [Pool -> Lookers] /\ rnow' = rnow /\ rnow' \in Int /\ job' = job /\ caller' = caller
        /\ worker[w].at = "loop" /\ rq \in Seq(Fibers) /\ IsInjective(rq)
    BY DEF LookupInv, LookupType, LookupOnce, RS!Loop
  <1>2. CASE rq = <<>>
    <2>1. worker' = [worker EXCEPT ![w].at = "idle"] /\ rq' = rq /\ bad' = bad
      BY <1>2 DEF RS!Loop
    <2>2. worker' \in [Pool -> Lookers] /\ SameLooks
      BY <1>1, <2>1 DEF Lookers, SameLooks
    <2> QED BY <1>1, <2>1, <2>2, PoolMoves
  <1>3. CASE rq # <<>>
    <2> DEFINE c == Head(rq)
    <2>1. worker' = [worker EXCEPT ![w] = [at |-> "look", job |-> c]] /\ rq' = Tail(rq) /\ bad' = bad \cup RS!Use(c)
      BY <1>3 DEF RS!Loop
    <2>2. /\ c \in Fibers /\ rq' \in Seq(Fibers) /\ IsInjective(rq') /\ c \in ToSet(rq)
          /\ ToSet(rq') = ToSet(rq) \ {c}
      BY <1>1, <1>3, <2>1, QueueTail
    <2> HIDE DEF c
    <2>3. worker' \in [Pool -> Lookers] /\ worker'[w].at = "look" /\ worker'[w].job = c
          /\ \A v \in Pool : v # w => worker'[v] = worker[v]
      BY <1>1, <2>1, <2>2 DEF Lookers
    <2>4. \A v \in Pool, d \in Fibers : LooksUp(v, d)' <=> LooksUp(v, d) \/ (v = w /\ d = c)
      BY <1>1, <2>3 DEF LooksUp
    <2>5. \A d \in Fibers : InPool(d)' = InPool(d)
      BY <2>2, <2>4 DEF InPool
    <2>6. \A v \in Pool : ~LooksUp(v, c)
      BY <2>2 DEF LooksUp, LookupInv, LookupOnce
    <2>7. LookupOnce'
      <3>1. \A v \in Pool : worker'[v].at = "look" => worker'[v].job \in Fibers /\ worker'[v].job \notin ToSet(rq')
        BY <2>2, <2>3 DEF LookupInv, LookupOnce
      <3>2. \A v, u \in Pool, d \in Fibers : LooksUp(v, d)' /\ LooksUp(u, d)' => v = u
        BY <2>4, <2>6 DEF LookupInv, LookupOnce
      <3> QED BY <3>1, <3>2, <2>2 DEF LookupOnce
    <2>8. bad' = {}
      <3>1. job[c].live /\ bad = {}
        BY <2>2 DEF LookupInv, InPool, JobHeld
      <3> QED BY <3>1, <2>1, UseOfLive
    <2> QED BY <1>1, <2>2, <2>3, <2>5, <2>7, <2>8 DEF LookupInv, LookupType
  <1> QED BY <1>2, <1>3

\* The answer of a lookup: the job is freed if it was abandoned, else its caller's
\* again.
LEMMA AnswerKeeps ==
    ASSUME LookupInv, NEW w \in Pool, RS!Answer(w)
    PROVE  LookupInv'
  <1>0. PICK c : c = worker[w].job
    OBVIOUS
  <1>1. /\ worker \in [Pool -> Lookers] /\ rnow' = rnow /\ rq' = rq /\ caller' = caller
        /\ worker[w].at = "look" /\ c \in Fibers /\ c \notin ToSet(rq)
        /\ job \in [Fibers -> Jobs] /\ caller \in [Fibers -> Callings]
        /\ worker' = [worker EXCEPT ![w] = [at |-> "loop", job |-> "none"]]
    BY <1>0 DEF LookupInv, LookupType, LookupOnce, RS!Answer
  <1>2. InPool(c) /\ job[c].live /\ ~job[c].done /\ bad = {}
    <2>1. InPool(c)
      BY <1>0, <1>1 DEF InPool, LooksUp
    <2> QED BY <1>1, <2>1 DEF LookupInv, JobHeld
  <1>3. bad' = {}
    BY <1>0, <1>2, UseOfLive DEF RS!Answer
  <1>4. \/ job[c].abandoned /\ job' = [job EXCEPT ![c] = RS!NoJob]
        \/ ~job[c].abandoned /\ job' = [job EXCEPT ![c].done = TRUE, ![c].signal = TRUE]
    BY <1>0 DEF RS!Answer, RS!FreeJob
  <1>5. PICK j \in Jobs :
          /\ job' = [job EXCEPT ![c] = j]
          /\ job[c].abandoned => ~j.live
          /\ ~job[c].abandoned => j.live /\ j.done /\ ~j.abandoned
    <2>1. CASE job[c].abandoned
      <3>1. RS!NoJob \in Jobs /\ ~RS!NoJob.live
        BY DEF RS!NoJob, Jobs
      <3> QED BY <3>1, <2>1, <1>4
    <2>2. CASE ~job[c].abandoned
      <3> DEFINE j1 == [job[c] EXCEPT !.done = TRUE]
      <3> DEFINE j2 == [j1 EXCEPT !.signal = TRUE]
      <3>1. j1 \in Jobs /\ j1.live /\ j1.done /\ ~j1.abandoned
        BY <1>1, <1>2, <2>2 DEF Jobs
      <3>2. j2 \in Jobs /\ j2.live /\ j2.done /\ ~j2.abandoned
        <4> HIDE DEF j1
        <4> QED BY <3>1 DEF Jobs
      <3>3. job' = [job EXCEPT ![c] = j2]
        BY <1>1, <1>4, <2>2
      <3> HIDE DEF j2
      <3> QED BY <3>2, <3>3, <2>2
    <2> QED BY <2>1, <2>2
  <1>6. worker' \in [Pool -> Lookers] /\ worker'[w].at # "look" /\ \A v \in Pool : v # w => worker'[v] = worker[v]
    BY <1>1 DEF Lookers
  <1>7. \A v \in Pool, d \in Fibers : LooksUp(v, d)' <=> LooksUp(v, d) /\ v # w
    BY <1>6 DEF LooksUp
  <1>8. LooksUp(w, c) /\ \A v \in Pool : LooksUp(v, c) => v = w
    BY <1>0, <1>1 DEF LooksUp, LookupInv, LookupOnce
  <1>9. ~InPool(c)' /\ \A d \in Fibers : d # c => InPool(d)' = InPool(d)
    BY <1>1, <1>7, <1>8 DEF InPool, LooksUp
  <1>10. LookupOnce'
    <2>1. \A v \in Pool : worker'[v].at = "look" => worker'[v].job \in Fibers /\ worker'[v].job \notin ToSet(rq')
      BY <1>1, <1>6 DEF LookupInv, LookupOnce
    <2>2. \A v, u \in Pool, d \in Fibers : LooksUp(v, d)' /\ LooksUp(u, d)' => v = u
      BY <1>7 DEF LookupInv, LookupOnce
    <2> QED BY <2>1, <2>2, <1>1 DEF LookupInv, LookupOnce
  <1>11. ASSUME NEW d \in Fibers PROVE JobHeld(caller'[d].at, job'[d], InPool(d)')
    <2>1. JobHeld(caller[d].at, job[d], InPool(d)) /\ caller[d].at \in CallPlaces
      BY <1>1 DEF LookupInv, Callings
    <2>2. CASE d = c
      <3>1. job'[d] = j /\ ~InPool(d)' /\ caller'[d] = caller[d] /\ InPool(d)
        <4>1. job'[d] = j
          BY <2>2, <1>1, <1>5
        <4>2. caller'[d] = caller[d]
          BY <1>1
        <4>3. InPool(d)
          BY <2>2, <1>2
        <4>4. ~InPool(d)'
          BY <2>2, <1>9
        <4> QED BY <4>1, <4>2, <4>3, <4>4
      <3>2. CASE job[c].abandoned
        BY <3>1, <3>2, <2>1, <2>2, <1>5 DEF JobHeld, CallPlaces
      <3>3. CASE ~job[c].abandoned
        BY <3>1, <3>3, <2>1, <2>2, <1>5, <1>2 DEF JobHeld, CallPlaces
      <3> QED BY <3>2, <3>3
    <2>3. CASE d # c
      <3>1. caller'[d] = caller[d] /\ job'[d] = job[d] /\ InPool(d)' = InPool(d)
        BY <2>3, <1>1, <1>5, <1>9
      <3> QED BY <3>1, <2>1
    <2> QED BY <2>2, <2>3
  <1> QED BY <1>1, <1>3, <1>5, <1>6, <1>10, <1>11 DEF LookupInv, LookupType


\* nurl__dns_submit: the job joins the queue, unless there is no thread at all.
LEMMA SubmitKeeps ==
    ASSUME LookupInv, NEW c \in Fibers, RS!Submit(c)
    PROVE  LookupInv'
  <1>1. /\ caller[c].at = "submit" /\ caller \in [Fibers -> Callings] /\ caller[c] \in Callings
        /\ job \in [Fibers -> Jobs] /\ job[c] \in Jobs /\ worker \in [Pool -> Lookers]
        /\ rnow' = rnow /\ rnow \in Int /\ bad' = {} /\ job' = job /\ rq \in Seq(Fibers)
    BY DEF LookupInv, LookupType, RS!Submit
  <1>2. job[c].live /\ ~InPool(c) /\ ~job[c].abandoned /\ ~job[c].done
    BY <1>1 DEF LookupInv, JobHeld
  <1> DEFINE k(p) == [caller[c] EXCEPT !.at = p]
  <1>3. \A p \in {"inline", "check"} : k(p) \in Callings /\ k(p).at = p
    <2>1. {"inline", "check"} \subseteq CallPlaces
      BY DEF CallPlaces
    <2> QED BY <1>1, <2>1, CallField, Zenon
  <1>4. PICK created \in BOOLEAN :
          /\ RS!Grow(created)
          /\ IF threads' = 0
             THEN /\ caller' = [caller EXCEPT ![c].at = "inline"]
                  /\ UNCHANGED <<rq, worker>>
             ELSE /\ rq' = Append(rq, c)
                  /\ caller' = [caller EXCEPT ![c].at = "check"]
                  /\ LET w == CHOOSE w \in Pool : worker[w].at = "none"
                         woken == {v \in Pool : worker[v].at = "idle"}
                         grown == IF created THEN [worker EXCEPT ![w].at = "loop"] ELSE worker
                     IN  IF woken = {} THEN worker' = grown
                         ELSE \E v \in woken : worker' = [grown EXCEPT ![v].at = "woken"]
    BY DEF RS!Submit
  <1>5. CASE threads' = 0
    <2>1. caller' = [caller EXCEPT ![c] = k("inline")] /\ rq' = rq /\ worker' = worker
          /\ job' = [job EXCEPT ![c] = job[c]]
      BY <1>1, <1>4, <1>5
    <2>2. JobHeld(k("inline").at, job[c], InPool(c))
      BY <1>2, <1>3 DEF JobHeld
    <2> HIDE DEF k
    <2> QED BY <1>1, <1>3, <2>1, <2>2, CallerMoves
  <1>6. CASE threads' # 0
    <2>1. worker' \in [Pool -> Lookers] /\ SameLooks
      <3>1. PICK grown \in [Pool -> Lookers] :
               /\ \A w \in Pool : grown[w] = worker[w] \/ (worker[w].at = "none" /\ grown[w].at = "loop")
               /\ \/ worker' = grown
                  \/ \E v \in Pool : worker[v].at = "idle" /\ worker' = [grown EXCEPT ![v].at = "woken"]
        <4> DEFINE w == CHOOSE w \in Pool : worker[w].at = "none"
                   grown == IF created THEN [worker EXCEPT ![w].at = "loop"] ELSE worker
        <4>1. created => w \in Pool /\ worker[w].at = "none"
          BY <1>4, Zenon DEF RS!Grow
        <4>2. \/ worker' = grown
              \/ \E v \in Pool : worker[v].at = "idle" /\ worker' = [grown EXCEPT ![v].at = "woken"]
          BY <1>4, <1>6
        <4>3. grown \in [Pool -> Lookers]
              /\ \A u \in Pool : grown[u] = worker[u] \/ (worker[u].at = "none" /\ grown[u].at = "loop")
          <5> HIDE DEF w
          <5> QED BY <4>1, <1>1 DEF Lookers
        <4> HIDE DEF grown
        <4> QED BY <4>2, <4>3
      <3>2. CASE worker' = grown
        BY <3>1, <3>2, <1>1 DEF Lookers, SameLooks
      <3>3. ASSUME NEW v \in Pool, worker[v].at = "idle", worker' = [grown EXCEPT ![v].at = "woken"]
            PROVE  worker' \in [Pool -> Lookers] /\ SameLooks
        BY <3>1, <3>3, <1>1 DEF Lookers, SameLooks
      <3> QED BY <3>1, <3>2, <3>3
    <2>2. rq' = Append(rq, c) /\ c \notin ToSet(rq) /\ IsInjective(rq)
      BY <1>2, <1>4, <1>6 DEF InPool, LookupInv, LookupOnce
    <2>3. rq' \in Seq(Fibers) /\ IsInjective(rq') /\ ToSet(rq') = ToSet(rq) \cup {c}
      BY <1>1, <2>2, QueueAppend
    <2>4. caller' = [caller EXCEPT ![c] = k("check")]
      BY <1>1, <1>4, <1>6
    <2> HIDE DEF k
    <2>5. caller' \in [Fibers -> Callings] /\ caller'[c].at = "check"
          /\ \A d \in Fibers : d # c => caller'[d] = caller[d]
      BY <1>1, <1>3, <2>4
    <2>6. \A v \in Pool : ~LooksUp(v, c)
      BY <1>2 DEF InPool
    <2>7. LookupOnce'
      <3>1. \A v \in Pool : worker'[v].at = "look" => worker'[v].job \in Fibers /\ worker'[v].job \notin ToSet(rq')
        BY <2>1, <2>3, <2>6 DEF SameLooks, LookupInv, LookupOnce, LooksUp
      <3>2. \A v, u \in Pool, d \in Fibers : LooksUp(v, d)' /\ LooksUp(u, d)' => v = u
        BY <2>1, SameLooksUp DEF LookupInv, LookupOnce
      <3> QED BY <3>1, <3>2, <2>3 DEF LookupOnce
    <2>8. \A d \in Fibers : InPool(d)' <=> InPool(d) \/ d = c
      BY <2>1, <2>3, SameLooksUp DEF InPool
    <2>9. ASSUME NEW d \in Fibers PROVE JobHeld(caller'[d].at, job'[d], InPool(d)')
      <3>1. JobHeld(caller[d].at, job[d], InPool(d))
        BY DEF LookupInv
      <3>2. CASE d = c
        BY <3>1, <3>2, <1>1, <1>2, <2>5, <2>8 DEF JobHeld
      <3>3. CASE d # c
        <4>1. caller'[d] = caller[d] /\ job'[d] = job[d] /\ InPool(d)' = InPool(d)
          BY <3>3, <1>1, <2>5, <2>8 DEF InPool
        <4> QED BY <3>1, <4>1
      <3> QED BY <3>2, <3>3
    <2> QED BY <1>1, <2>1, <2>3, <2>5, <2>7, <2>9 DEF LookupInv, LookupType
  <1> QED BY <1>5, <1>6

\* A pool without threads, and nobody who has begun.
LEMMA LookupsBegin == RS!Init => LookupInv
  <1> SUFFICES ASSUME RS!Init PROVE LookupInv
    OBVIOUS
  <1>1. /\ rnow = 0 /\ rq = <<>> /\ bad = {} /\ job = [d \in Fibers |-> RS!NoJob]
        /\ worker = [w \in Pool |-> [at |-> "none", job |-> "none"]]
        /\ caller = [d \in Fibers |-> RS!AtRest]
    BY DEF RS!Init
  <1>2. RS!NoJob \in Jobs /\ ~RS!NoJob.live
    BY DEF RS!NoJob, Jobs
  <1>3. LookupType
    BY <1>1, <1>2, CallEnds DEF LookupType, Lookers
  <1>4. IsInjective(rq) /\ ToSet(rq) = {}
    BY <1>1 DEF IsInjective, ToSet
  <1>5. \A w \in Pool : worker[w].at = "none"
    BY <1>1
  <1>6. LookupOnce /\ \A d \in Fibers : ~InPool(d)
    BY <1>4, <1>5 DEF LookupOnce, LooksUp, InPool
  <1>7. \A d \in Fibers : JobHeld(caller[d].at, job[d], InPool(d))
    BY <1>1, <1>2, <1>6, CallEnds DEF JobHeld
  <1> QED BY <1>1, <1>3, <1>6, <1>7 DEF LookupInv

\* nurl__dns_atfork_child.
LEMMA ForkKeeps ==
    ASSUME LookupInv, NEW c \in Fibers, RS!Fork(c)
    PROVE  LookupInv'
  <1>1. /\ rnow' \in Int /\ rq' = <<>> /\ bad' = {} /\ job' = [d \in Fibers |-> RS!NoJob]
        /\ worker' = [w \in Pool |-> [at |-> "none", job |-> "none"]]
        /\ caller' = [d \in Fibers |-> RS!AtRest]
    BY DEF RS!Fork, LookupInv, LookupType
  <1>2. RS!NoJob \in Jobs /\ ~RS!NoJob.live
    BY DEF RS!NoJob, Jobs
  <1>3. LookupType'
    BY <1>1, <1>2, CallEnds DEF LookupType, Lookers
  <1>4. IsInjective(rq') /\ ToSet(rq') = {}
    BY <1>1 DEF IsInjective, ToSet
  <1>5. \A w \in Pool : worker'[w].at = "none"
    BY <1>1
  <1>6. LookupOnce' /\ \A d \in Fibers : ~InPool(d)'
    BY <1>4, <1>5 DEF LookupOnce, LooksUp, InPool
  <1>7. \A d \in Fibers : JobHeld(caller'[d].at, job'[d], InPool(d)')
    BY <1>1, <1>2, <1>6, CallEnds DEF JobHeld
  <1> QED BY <1>1, <1>3, <1>6, <1>7 DEF LookupInv

\* Every step of the resolver.
LEMMA LookupsStep ==
    ASSUME LookupInv, RS!Next
    PROVE  LookupInv'
  <1>1. CASE RS!Tick
    <2>1. rnow' \in Int /\ worker' \in [Pool -> Lookers] /\ SameLooks
      BY <1>1 DEF RS!Tick, LookupInv, LookupType, SameLooks
    <2> QED BY <1>1, <2>1, PoolMoves DEF RS!Tick
  <1>2. ASSUME NEW c \in Fibers, RS!Begin(c) \/ RS!Proceeds(c) \/ RS!Pending(c) \/ RS!Return(c) \/ RS!Fork(c)
        PROVE  LookupInv'
    BY <1>2, BeginKeeps, SubmitKeeps, InlineKeeps, CheckKeeps, WokenKeeps, TakeKeeps, StartKeeps,
       PendingKeeps, ReturnKeeps, ForkKeeps DEF RS!Proceeds
  <1>3. ASSUME NEW w \in Pool,
               RS!Loop(w) \/ RS!Resume(w) \/ RS!IdleOver(w) \/ RS!IdleTimeout(w) \/ RS!Answer(w)
        PROVE  LookupInv'
    BY <1>3, LoopKeeps, ResumeKeeps, AnswerKeeps
  <1> QED BY <1>1, <1>2, <1>3 DEF RS!Next

\* No job is used after it was freed, and none is forgotten.
LEMMA LookupsSound == LookupInv => RS!NoStaleJob /\ RS!NoJobLeaked
  <1> SUFFICES ASSUME LookupInv PROVE RS!NoStaleJob /\ RS!NoJobLeaked
    OBVIOUS
  <1>1. ASSUME NEW c \in Fibers, job[c].live
        PROVE  \/ c \in ToSet(rq)
               \/ \E w \in Pool : worker[w].job = c
               \/ caller[c].at \in {"submit", "inline", "check", "wait", "take"}
    <2>1. JobHeld(caller[c].at, job[c], InPool(c)) /\ caller[c].at \in CallPlaces
      BY DEF LookupInv, LookupType, Callings
    <2>2. InPool(c) => c \in ToSet(rq) \/ \E w \in Pool : worker[w].job = c
      BY DEF InPool, LooksUp
    <2> QED BY <1>1, <2>1, <2>2 DEF JobHeld, CallPlaces
  <1>2. RS!NoJobLeaked
    BY <1>1 DEF RS!NoJobLeaked, RS!ToSet, ToSet
  <1>3. RS!NoStaleJob
    BY DEF LookupInv, RS!NoStaleJob
  <1> QED BY <1>2, <1>3
-----------------------------------------------------------------------------
(* The listener.                                                           *)

Stoppers == Posters \cup Threads
\* Where an acceptor counts itself in `accepting`.
Counted == {"test", "poll", "accept", "reclaim", "leave", "again", "peek", "peeking"}
AcceptPlaces == Counted \cup {"rest", "enter", "wait", "parked", "collect", "raise", "spin", "done", "ended"}
Accepts == [at : AcceptPlaces, fd : ListenFds \cup {0}]
Handles == [fd : ListenFds \cup {0}, shutting : BOOLEAN, wake : {"none", "quiet", "raised"},
            accepting : Int, refs : Int, freed : BOOLEAN, nonblock : BOOLEAN]

\* The records of the handle, the acceptors and the stops.
ListenType ==
    /\ owner \in [ListenFds -> {"none", "listener", "other"}] /\ lst \in Handles
    /\ acc \in [Fibers -> Accepts]
    /\ stop \in [Stoppers -> {"rest", "raise", "spin", "stopped", "closed"}]

\* Who is counted, who may still call, and whether the owner has let go.
Accepting == {a \in Fibers : acc[a].at \in Counted}
Serving == {a \in Fibers : acc[a].at # "ended"}
Closed == \E s \in Stoppers : stop[s] = "closed"

\* A place that uses the descriptor finds the listener's.
UsesFd(place) == place \in {"poll", "accept", "peeking"}
FdRight ==
    /\ lst.fd # 0 => owner[lst.fd] = "listener"
    /\ lst.fd = 0 => lst.shutting
    /\ \A s \in Stoppers : stop[s] \in {"raise", "spin"} => lst.shutting
    /\ \A a \in Fibers : acc[a].at \in {"raise", "spin"} => lst.shutting
    /\ \A a \in Fibers : acc[a].at = "poll" => lst.wake # "none"
    /\ \A a \in Fibers : UsesFd(acc[a].at) /\ lst.wake # "none" => lst.fd # 0

\* The counts are right, and the struct is freed with its last reference.
CountsRight ==
    /\ lst.accepting = Cardinality(Accepting)
    /\ lst.refs = (IF lst.nonblock THEN Cardinality(Serving) ELSE 0) + (IF Closed THEN 0 ELSE 1)
    /\ lst.freed <=> lst.refs = 0
    /\ Closed => \A s \in Stoppers : stop[s] # "raise" /\ stop[s] # "spin"
    /\ Closed /\ ~lst.nonblock => Serving = {}

ListenInv == ListenType /\ FdRight /\ CountsRight /\ ~badFd /\ ~badMem

\* Acceptors are finitely many.
LEMMA ListenersFinite ==
    /\ IsFiniteSet(Fibers)
    /\ \A A : A \subseteq Fibers => IsFiniteSet(A) /\ Cardinality(A) \in Nat /\ (Cardinality(A) = 0 <=> A = {})
  <1>1. IsFiniteSet(Fibers)
    BY FCondAssumption, FS_Subset DEF Waiters
  <1> QED BY <1>1, FS_Subset, FS_CardinalityType, FS_EmptySet

\* The struct is there while an acceptor has not ended, and until the owner's close.
LEMMA NotFreed ==
    ASSUME ListenInv, (\E a \in Fibers : acc[a].at # "ended") \/ ~Closed
    PROVE  lst.freed = FALSE
  <1>1. lst.nonblock \in BOOLEAN /\ lst.freed \in BOOLEAN /\ (lst.freed <=> lst.refs = 0)
    BY DEF ListenInv, ListenType, Handles, CountsRight
  <1>2. Serving \subseteq Fibers
    BY DEF Serving
  <1>3. Cardinality(Serving) \in Nat /\ (Cardinality(Serving) = 0 <=> Serving = {})
    BY <1>2, ListenersFinite
  <1>4. CASE ~Closed
    BY <1>1, <1>3, <1>4 DEF ListenInv, CountsRight
  <1>5. CASE Closed
    <2>1. Serving # {} /\ lst.nonblock
      BY <1>1, <1>5 DEF Serving, ListenInv, CountsRight
    <2> QED BY <1>1, <1>3, <1>5, <2>1 DEF ListenInv, CountsRight
  <1> QED BY <1>4, <1>5

\* One element more or less.
LEMMA CountOne ==
    ASSUME NEW A, NEW B, A \subseteq Fibers, B \subseteq Fibers, NEW x \in Fibers,
           \A y \in Fibers : y # x => (y \in A <=> y \in B)
    PROVE  Cardinality(B) = Cardinality(A) + (IF x \in B THEN 1 ELSE 0) - (IF x \in A THEN 1 ELSE 0)
  <1>1. IsFiniteSet(A) /\ IsFiniteSet(B) /\ Cardinality(A) \in Nat /\ Cardinality(B) \in Nat
    BY ListenersFinite
  <1>2. CASE (x \in A) <=> (x \in B)
    <2>1. A = B
      BY <1>2
    <2> QED BY <1>1, <1>2, <2>1
  <1>3. CASE x \in A /\ x \notin B
    <2>1. B = A \ {x}
      BY <1>3
    <2>2. Cardinality(B) = Cardinality(A) - 1
      BY <1>1, <1>3, <2>1, FS_RemoveElement
    <2> QED BY <1>1, <1>3, <2>2
  <1>4. CASE x \notin A /\ x \in B
    <2>1. B = A \cup {x}
      BY <1>4
    <2>2. Cardinality(B) = Cardinality(A) + 1
      BY <1>1, <1>4, <2>1, FS_AddElement
    <2> QED BY <1>1, <1>4, <2>2
  <1> QED BY <1>2, <1>3, <1>4

\* The handle after a step that leaves its descriptor and its references alone.
HandleKept ==
    /\ lst' \in Handles /\ lst'.fd = lst.fd /\ (lst.shutting => lst'.shutting)
    /\ (lst'.wake = "none" <=> lst.wake = "none")
    /\ lst'.refs = lst.refs /\ lst'.freed = lst.freed /\ lst'.nonblock = lst.nonblock
\* What a place needs of the handle.
PlaceAllowed(p) == /\ p # "ended" /\ (p = "poll" => lst.wake # "none")
                   /\ (p \in {"raise", "spin"} => lst'.shutting)
                   /\ (UsesFd(p) /\ lst.wake # "none" => lst.fd # 0)
\* The change of the count as an acceptor goes from one place to another.
CountChange(p, q) == (IF q \in Counted THEN 1 ELSE 0) - (IF p \in Counted THEN 1 ELSE 0)

\* A step of one acceptor that has not ended: the handle keeps its descriptor and
\* its references, and the count follows the acceptor.
LEMMA AcceptorMoves ==
    ASSUME ListenInv, NEW a \in Fibers, NEW r \in Accepts, acc[a].at # "ended", PlaceAllowed(r.at),
           acc' = [acc EXCEPT ![a] = r], owner' = owner, stop' = stop, ~badFd', ~badMem', HandleKept,
           lst'.accepting = lst.accepting + CountChange(acc[a].at, r.at)
    PROVE  ListenInv'
  <1>0. /\ acc \in [Fibers -> Accepts] /\ acc' \in [Fibers -> Accepts] /\ acc'[a] = r
        /\ \A b \in Fibers : b # a => acc'[b] = acc[b]
    BY DEF ListenInv, ListenType
  <1>1. ListenType'
    BY <1>0 DEF ListenInv, ListenType, HandleKept
  <1>2. FdRight'
    BY <1>0 DEF ListenInv, FdRight, HandleKept, PlaceAllowed
  <1>3. Cardinality(Accepting') = Cardinality(Accepting) + (IF r.at \in Counted THEN 1 ELSE 0)
                                  - (IF acc[a].at \in Counted THEN 1 ELSE 0)
    <2>1. Accepting \subseteq Fibers /\ Accepting' \subseteq Fibers /\ (a \in Accepting' <=> r.at \in Counted)
          /\ (a \in Accepting <=> acc[a].at \in Counted)
          /\ \A b \in Fibers : b # a => (b \in Accepting <=> b \in Accepting')
      BY <1>0 DEF Accepting
    <2> QED BY <2>1, CountOne
  <1>4. Serving' = Serving
    BY <1>0 DEF Serving, PlaceAllowed
  <1>5. Closed' = Closed
    BY DEF Closed
  <1>6. CountsRight'
    <2>1. lst'.accepting = Cardinality(Accepting')
      <3>1. Cardinality(Accepting) \in Nat
        BY ListenersFinite DEF Accepting
      <3> QED BY <1>3, <3>1 DEF ListenInv, CountsRight, CountChange
    <2> QED BY <2>1, <1>4, <1>5 DEF ListenInv, CountsRight, HandleKept
  <1> QED BY <1>1, <1>2, <1>6 DEF ListenInv


\* An acceptor moves on and stays in the count, or out of it.
LEMMA PlaceMoves ==
    ASSUME ListenInv, NEW a \in Fibers, NEW p \in AcceptPlaces, acc[a].at # "ended", PlaceAllowed(p),
           acc' = [acc EXCEPT ![a].at = p], lst' = lst, owner' = owner, stop' = stop, ~badFd', ~badMem',
           p \in Counted <=> acc[a].at \in Counted
    PROVE  ListenInv'
  <1>1. PICK r \in Accepts : r.at = p /\ acc' = [acc EXCEPT ![a] = r]
    <2> DEFINE r == [acc[a] EXCEPT !.at = p]
    <2>1. r \in Accepts /\ r.at = p /\ acc' = [acc EXCEPT ![a] = r]
      BY DEF ListenInv, ListenType, Accepts
    <2> QED BY <2>1, Zenon
  <1>2. lst \in Handles /\ lst.accepting \in Int
    BY DEF ListenInv, ListenType, Handles
  <1>3. HandleKept /\ lst'.accepting = lst.accepting + CountChange(acc[a].at, r.at)
    BY <1>1, <1>2 DEF HandleKept, CountChange
  <1>4. PlaceAllowed(r.at)
    BY <1>1
  <1> QED BY <1>1, <1>3, <1>4, AcceptorMoves, Zenon

\* An acceptor counts itself in or out.
LEMMA CountMoves ==
    ASSUME ListenInv, NEW a \in Fibers, NEW p \in AcceptPlaces, acc[a].at # "ended", PlaceAllowed(p),
           acc' = [acc EXCEPT ![a].at = p], owner' = owner, stop' = stop, ~badFd', ~badMem',
           \/ p \in Counted /\ acc[a].at \notin Counted /\ lst' = [lst EXCEPT !.accepting = @ + 1]
           \/ p \notin Counted /\ acc[a].at \in Counted /\ lst' = [lst EXCEPT !.accepting = @ - 1]
    PROVE  ListenInv'
  <1>1. PICK r \in Accepts : r.at = p /\ acc' = [acc EXCEPT ![a] = r]
    <2> DEFINE r == [acc[a] EXCEPT !.at = p]
    <2>1. r \in Accepts /\ r.at = p /\ acc' = [acc EXCEPT ![a] = r]
      BY DEF ListenInv, ListenType, Accepts
    <2> QED BY <2>1, Zenon
  <1>2. lst \in Handles /\ lst.accepting \in Int
    BY DEF ListenInv, ListenType, Handles
  <1>3. HandleKept
    BY <1>2 DEF Handles, HandleKept
  <1>4. lst'.accepting = lst.accepting + CountChange(acc[a].at, r.at)
    BY <1>1, <1>2 DEF Handles, CountChange
  <1>5. PlaceAllowed(r.at)
    BY <1>1
  <1> QED BY <1>1, <1>3, <1>4, <1>5, AcceptorMoves, Zenon

\* Whoever touches the struct finds it there.
LEMMA TouchKeeps ==
    ASSUME ListenInv, LS!Touch, (\E a \in Fibers : acc[a].at # "ended") \/ ~Closed
    PROVE  ~badMem'
  BY NotFreed DEF LS!Touch, ListenInv

\* The start of a call reads the descriptor.
LEMMA CallKeeps ==
    ASSUME ListenInv, NEW a \in Fibers, LS!Call(a)
    PROVE  ListenInv'
  <1> DEFINE r == [at |-> "enter", fd |-> lst.fd]
  <1>1. lst \in Handles /\ lst.accepting \in Int /\ acc[a].at = "rest" /\ ~badMem' /\ ~badFd'
    BY TouchKeeps DEF ListenInv, ListenType, Handles, LS!Call
  <1>2. r \in Accepts /\ r.at = "enter" /\ acc' = [acc EXCEPT ![a] = r]
    BY <1>1 DEF Accepts, AcceptPlaces, Handles, LS!Call
  <1>3. HandleKept /\ lst'.accepting = lst.accepting + CountChange(acc[a].at, r.at) /\ PlaceAllowed(r.at)
    <2> HIDE DEF r
    <2> QED BY <1>1, <1>2 DEF HandleKept, CountChange, PlaceAllowed, Counted, UsesFd, LS!Call
  <1>4. owner' = owner /\ stop' = stop
    BY DEF LS!Call
  <1> HIDE DEF r
  <1> QED BY <1>1, <1>2, <1>3, <1>4, AcceptorMoves

\* An accept or a peek counts itself in, out for a collection and in again, and out
\* at its end.
LEMMA CountingKeeps ==
    ASSUME ListenInv, NEW a \in Fibers,
           LS!Enter(a) \/ LS!StepOut(a) \/ LS!StepIn(a) \/ LS!Leave(a)
    PROVE  ListenInv'
  <1>1. acc[a].at # "ended" /\ ~badMem' /\ ~badFd' /\ owner' = owner /\ stop' = stop
    <2>1. acc[a].at # "ended" /\ LS!Touch
      BY DEF LS!Enter, LS!StepOut, LS!StepIn, LS!Leave, LS!At
    <2> QED BY <2>1, TouchKeeps DEF ListenInv, LS!Enter, LS!StepOut, LS!StepIn, LS!Leave
  <1>2. lst.fd = 0 => lst.shutting
    BY DEF ListenInv, FdRight
  <1>3. PICK p \in AcceptPlaces :
          /\ acc' = [acc EXCEPT ![a].at = p] /\ PlaceAllowed(p)
          /\ \/ p \in Counted /\ acc[a].at \notin Counted /\ lst' = [lst EXCEPT !.accepting = @ + 1]
             \/ p \notin Counted /\ acc[a].at \in Counted /\ lst' = [lst EXCEPT !.accepting = @ - 1]
    <2>1. CASE LS!Enter(a)
      BY <2>1 DEF LS!Enter, LS!At, AcceptPlaces, Counted, UsesFd, PlaceAllowed
    <2>2. CASE LS!StepOut(a)
      BY <2>2 DEF LS!StepOut, LS!At, AcceptPlaces, Counted, UsesFd, PlaceAllowed
    <2>3. CASE LS!StepIn(a)
      BY <2>3, <1>2 DEF LS!StepIn, AcceptPlaces, Counted, UsesFd, PlaceAllowed
    <2>4. CASE LS!Leave(a)
      <3>1. acc \in [Fibers -> Accepts]
        BY DEF ListenInv, ListenType
      <3>2. PICK p \in {"wait", "done"} : acc' = [acc EXCEPT ![a].at = p]
        BY <2>4, <3>1 DEF LS!Leave
      <3> QED BY <2>4, <3>2 DEF LS!Leave, AcceptPlaces, Counted, UsesFd, PlaceAllowed
    <2> QED BY <2>1, <2>2, <2>3, <2>4
  <1> QED BY <1>1, <1>3, CountMoves

\* Counted in, the flag is looked at before the descriptor is used, and the
\* descriptor used is the listener's.
LEMMA AcceptingKeeps ==
    ASSUME ListenInv, NEW a \in Fibers, LS!Test(a) \/ LS!Poll(a) \/ LS!Accept(a)
    PROVE  ListenInv'
  <1>0. acc \in [Fibers -> Accepts] /\ lst \in Handles /\ ~badFd
    BY DEF ListenInv, ListenType
  <1>1. acc[a].at # "ended" /\ ~badMem' /\ owner' = owner /\ stop' = stop /\ lst' = lst
    <2>1. acc[a].at # "ended" /\ LS!Touch
      BY DEF LS!Test, LS!Poll, LS!Accept
    <2> QED BY <2>1, TouchKeeps DEF ListenInv, LS!Test, LS!Poll, LS!Accept
  <1>2. /\ lst.fd # 0 => owner[lst.fd] = "listener"
        /\ acc[a].at = "poll" => lst.wake # "none"
        /\ UsesFd(acc[a].at) /\ lst.wake # "none" => lst.fd # 0
    BY DEF ListenInv, FdRight
  <1>3. ~badFd'
    BY <1>0, <1>2 DEF LS!Test, LS!Poll, LS!Accept, LS!NoNumber, UsesFd
  <1>4. PICK p \in AcceptPlaces :
          /\ acc' = [acc EXCEPT ![a].at = p] /\ p \in Counted /\ acc[a].at \in Counted /\ PlaceAllowed(p)
    <2>1. CASE LS!Test(a)
      <3>1. PICK p \in {"leave", "accept", "poll"} :
               /\ acc' = [acc EXCEPT ![a].at = p] /\ (p # "leave" => lst.fd # 0) /\ (p = "poll" => lst.wake # "none")
        BY <2>1 DEF LS!Test, LS!NoNumber
      <3> QED BY <2>1, <3>1 DEF LS!Test, AcceptPlaces, Counted, UsesFd, PlaceAllowed
    <2>2. CASE LS!Poll(a)
      <3>1. PICK p \in {"leave", "accept"} : acc' = [acc EXCEPT ![a].at = p]
        BY <2>2 DEF LS!Poll
      <3> QED BY <2>2, <1>2, <3>1 DEF LS!Poll, AcceptPlaces, Counted, UsesFd, PlaceAllowed
    <2>3. CASE LS!Accept(a)
      <3>1. PICK p \in {"leave", "reclaim", "again", "test"} : acc' = [acc EXCEPT ![a].at = p]
        BY <2>3, <1>0 DEF LS!Accept
      <3> QED BY <2>3, <3>1 DEF LS!Accept, AcceptPlaces, Counted, UsesFd, PlaceAllowed
    <2> QED BY <2>1, <2>2, <2>3
  <1> QED BY <1>1, <1>3, <1>4, PlaceMoves

\* Outside the count nothing but the acceptor's own place changes.
LEMMA OutsideKeeps ==
    ASSUME ListenInv, NEW a \in Fibers, LS!Wait(a) \/ LS!Ready(a) \/ LS!Skip(a)
    PROVE  ListenInv'
  <1>1. ~badFd' /\ ~badMem' /\ owner' = owner /\ stop' = stop /\ lst' = lst
    BY DEF ListenInv, LS!Wait, LS!Ready, LS!Skip
  <1>2. PICK p \in {"enter", "parked", "done"} :
          acc' = [acc EXCEPT ![a].at = p] /\ acc[a].at \in {"wait", "parked", "rest"}
    BY DEF LS!Wait, LS!Ready, LS!Skip
  <1> QED BY <1>1, <1>2, PlaceMoves DEF AcceptPlaces, Counted, UsesFd, PlaceAllowed

\* nurl_tcp_listener_pending.
LEMMA PeekKeeps ==
    ASSUME ListenInv, NEW a \in Fibers, LS!Pending(a)
    PROVE  ListenInv'
  <1>0. acc \in [Fibers -> Accepts] /\ lst \in Handles /\ ~badFd
    BY DEF ListenInv, ListenType
  <1>1. acc[a].at # "ended" /\ ~badMem' /\ owner' = owner /\ stop' = stop
    <2>1. acc[a].at # "ended" /\ LS!Touch
      BY DEF LS!Pending
    <2> QED BY <2>1, TouchKeeps DEF ListenInv, LS!Pending
  <1>2. /\ lst.fd # 0 => owner[lst.fd] = "listener"
        /\ UsesFd(acc[a].at) /\ lst.wake # "none" => lst.fd # 0
    BY DEF ListenInv, FdRight
  <1>3. CASE acc[a].at = "rest"
    <2>1. lst' = [lst EXCEPT !.accepting = @ + 1] /\ acc' = [acc EXCEPT ![a].at = "peek"] /\ ~badFd'
      BY <1>0, <1>3 DEF LS!Pending
    <2> QED BY <1>1, <1>3, <2>1, CountMoves DEF AcceptPlaces, Counted, UsesFd, PlaceAllowed
  <1>4. CASE acc[a].at = "peek"
    <2>1. PICK p \in {"leave", "peeking"} :
            acc' = [acc EXCEPT ![a].at = p] /\ lst' = lst /\ ~badFd' /\ (p = "peeking" => lst.fd # 0)
      BY <1>0, <1>4 DEF LS!Pending, LS!NoNumber
    <2> QED BY <1>1, <1>4, <2>1, PlaceMoves DEF AcceptPlaces, Counted, UsesFd, PlaceAllowed
  <1>5. CASE acc[a].at = "peeking"
    <2>1. acc' = [acc EXCEPT ![a].at = "leave"] /\ lst' = lst
          /\ badFd' = (badFd \/ (lst.wake # "none" /\ (lst.fd = 0 \/ owner[lst.fd] # "listener")))
      BY <1>5 DEF LS!Pending, LS!NoNumber
    <2>2. ~badFd'
      BY <1>0, <1>2, <1>5, <2>1 DEF UsesFd
    <2> QED BY <1>1, <1>5, <2>1, <2>2, PlaceMoves DEF AcceptPlaces, Counted, UsesFd, PlaceAllowed
  <1> QED BY <1>3, <1>4, <1>5 DEF LS!Pending


\* A destructor run by a collection stops the listener.
LEMMA DestructorKeeps ==
    ASSUME ListenInv, NEW a \in Fibers, LS!Destructor(a) \/ LS!DestructorRaise(a)
    PROVE  ListenInv'
  <1>0. acc \in [Fibers -> Accepts] /\ lst \in Handles /\ lst.accepting \in Int
    BY DEF ListenInv, ListenType, Handles
  <1>1. acc[a].at # "ended" /\ ~badMem' /\ ~badFd' /\ owner' = owner /\ stop' = stop
    <2>1. acc[a].at # "ended" /\ LS!Touch
      BY DEF LS!Destructor, LS!DestructorRaise, LS!At
    <2> QED BY <2>1, TouchKeeps DEF ListenInv, LS!Destructor, LS!DestructorRaise
  <1>2. PICK p \in {"raise", "spin"} : acc' = [acc EXCEPT ![a].at = p] /\ acc[a].at \in {"collect", "raise"}
    BY DEF LS!Destructor, LS!DestructorRaise, LS!At
  <1>3. PICK r \in Accepts : r.at = p /\ acc' = [acc EXCEPT ![a] = r]
    <2> DEFINE r == [acc[a] EXCEPT !.at = p]
    <2>1. r \in Accepts /\ r.at = p /\ acc' = [acc EXCEPT ![a] = r]
      BY <1>0, <1>2 DEF Accepts, AcceptPlaces
    <2> QED BY <2>1, Zenon
  <1>6. acc[a].at = "raise" => lst.shutting
    BY DEF ListenInv, FdRight
  <1>4. HandleKept /\ lst'.accepting = lst.accepting /\ lst'.shutting
    BY <1>0, <1>6 DEF HandleKept, Handles, LS!Destructor, LS!DestructorRaise, LS!Raised, LS!At
  <1>5. PlaceAllowed(r.at) /\ lst'.accepting = lst.accepting + CountChange(acc[a].at, r.at)
    BY <1>0, <1>2, <1>3, <1>4 DEF PlaceAllowed, CountChange, Counted, UsesFd
  <1> QED BY <1>1, <1>3, <1>4, <1>5, AcceptorMoves, Zenon

\* A stop begins: not once the owner has closed.
LEMMA ShutKeeps ==
    ASSUME ListenInv, NEW s \in Stoppers, LS!Shut(s) \/ LS!Raise(s)
    PROVE  ListenInv'
  <1>0. /\ lst \in Handles /\ stop \in [Stoppers -> {"rest", "raise", "spin", "stopped", "closed"}]
        /\ acc' = acc /\ owner' = owner /\ ~badFd'
    BY DEF ListenInv, ListenType, LS!Shut, LS!Raise
  <1>1. ~Closed
    BY DEF ListenInv, CountsRight, Closed, LS!Shut, LS!Raise, Stoppers
  <1>2. ~badMem'
    BY <1>1, TouchKeeps DEF LS!Shut, LS!Raise
  <1>3. PICK p \in {"raise", "spin"} : stop' = [stop EXCEPT ![s] = p]
    BY DEF LS!Shut, LS!Raise
  <1>4. /\ lst' \in Handles /\ lst'.fd = lst.fd /\ (lst.shutting => lst'.shutting)
        /\ (lst'.wake = "none" <=> lst.wake = "none") /\ lst'.accepting = lst.accepting
        /\ lst'.refs = lst.refs /\ lst'.freed = lst.freed /\ lst'.nonblock = lst.nonblock
    BY <1>0 DEF Handles, LS!Shut, LS!Raise, LS!Raised
  <1>5. ~Closed'
    BY <1>0, <1>1, <1>3 DEF Closed
  <1>6. ListenType'
    BY <1>0, <1>3, <1>4 DEF ListenInv, ListenType
  <1>7. FdRight'
    <2>1. stop[s] = "raise" => lst.shutting
      BY DEF ListenInv, FdRight
    <2>2. lst'.shutting
      BY <1>0, <2>1 DEF Handles, LS!Shut, LS!Raise, LS!Raised
    <2> QED BY <1>0, <1>4, <2>2 DEF ListenInv, FdRight
  <1>8. Accepting' = Accepting /\ Serving' = Serving
    BY <1>0 DEF Accepting, Serving
  <1>9. CountsRight'
    BY <1>1, <1>4, <1>5, <1>8 DEF ListenInv, CountsRight
  <1> QED BY <1>0, <1>2, <1>6, <1>7, <1>9 DEF ListenInv


\* What a close does to an acceptor's place.
GoesOn(p, q) == q = p \/ (p \in {"parked", "spin"} /\ q \in {"enter", "collect"})

\* The close of the descriptor, by a stop or by a destructor's: nobody is counted who
\* could be woken, and who was parked goes on.
LEMMA CloseMoves ==
    ASSUME ListenInv, LS!NoneAccepting, lst.shutting,
           owner' = LS!CloseFd, lst' = [lst EXCEPT !.fd = LS!NoNumber],
           acc' \in [Fibers -> Accepts],
           \A b \in Fibers : GoesOn(acc[b].at, acc'[b].at),
           stop' \in [Stoppers -> {"rest", "raise", "spin", "stopped", "closed"}],
           Closed' = Closed, \A s \in Stoppers : stop'[s] \in {"raise", "spin"} => stop'[s] = stop[s],
           ~badFd', ~badMem'
    PROVE  ListenInv'
  <1>0. lst \in Handles /\ owner \in [ListenFds -> {"none", "listener", "other"}]
    BY DEF ListenInv, ListenType
  <1>1. /\ lst' \in Handles /\ lst'.fd = 0 /\ lst'.shutting /\ lst'.wake = lst.wake /\ lst'.accepting = lst.accepting
        /\ lst'.refs = lst.refs /\ lst'.freed = lst.freed /\ lst'.nonblock = lst.nonblock
    BY <1>0 DEF Handles, LS!NoNumber
  <1>2. owner' \in [ListenFds -> {"none", "listener", "other"}]
    BY <1>0 DEF LS!CloseFd, Handles
  <1>3. ListenType'
    BY <1>1, <1>2 DEF ListenType
  <1>4. Accepting' = Accepting /\ Serving' = Serving
    BY DEF Accepting, Serving, Counted, GoesOn
  <1>5. lst.wake # "none" => Accepting = {}
    <2>1. Accepting \subseteq Fibers
      BY DEF Accepting
    <2> QED BY <2>1, ListenersFinite DEF LS!NoneAccepting, ListenInv, CountsRight
  <1>6. \A b \in Fibers : UsesFd(acc'[b].at) => b \in Accepting'
    BY DEF Accepting, UsesFd, Counted
  <1>7. FdRight'
    <2>1. \A b \in Fibers : acc'[b].at = "poll" => lst'.wake # "none"
      BY <1>1 DEF ListenInv, FdRight, GoesOn
    <2> QED BY <1>1, <1>4, <1>5, <1>6, <2>1 DEF FdRight
  <1>8. CountsRight'
    BY <1>1, <1>4 DEF ListenInv, CountsRight
  <1> QED BY <1>3, <1>7, <1>8 DEF ListenInv

\* Who was parked on the closed descriptor goes on.
LEMMA ClosedAccType ==
    ASSUME ListenInv
    PROVE  /\ LS!ClosedAcc \in [Fibers -> Accepts]
           /\ \A b \in Fibers : LS!ClosedAcc[b] = acc[b] \/ (acc[b].at = "parked" /\ LS!ClosedAcc[b].at = "enter")
  <1>1. acc \in [Fibers -> Accepts]
    BY DEF ListenInv, ListenType
  <1>2. ASSUME NEW b \in Fibers
        PROVE  [acc[b] EXCEPT !.at = "enter"] \in Accepts /\ [acc[b] EXCEPT !.at = "enter"].at = "enter"
    BY <1>1 DEF Accepts, AcceptPlaces
  <1> QED BY <1>1, <1>2 DEF LS!ClosedAcc

\* The stop's close, once no accept uses the descriptor.
LEMMA CloseKeeps ==
    ASSUME ListenInv, NEW s \in Stoppers, LS!Close(s)
    PROVE  ListenInv'
  <1>0. stop \in [Stoppers -> {"rest", "raise", "spin", "stopped", "closed"}] /\ ~badFd' /\ stop[s] = "spin"
    BY DEF ListenInv, ListenType, LS!Close
  <1>1. ~Closed /\ lst.shutting
    BY <1>0 DEF ListenInv, CountsRight, FdRight
  <1>2. ~badMem'
    BY <1>1, TouchKeeps DEF LS!Close
  <1>3. /\ stop' = [stop EXCEPT ![s] = "stopped"] /\ owner' = LS!CloseFd /\ acc' = LS!ClosedAcc
        /\ lst' = [lst EXCEPT !.fd = LS!NoNumber] /\ LS!NoneAccepting
    BY DEF LS!Close
  <1>4. Closed' = Closed
    BY <1>0, <1>1, <1>3 DEF Closed
  <1>5. /\ stop' \in [Stoppers -> {"rest", "raise", "spin", "stopped", "closed"}]
        /\ \A t \in Stoppers : stop'[t] \in {"raise", "spin"} => stop'[t] = stop[t]
    BY <1>0, <1>3
  <1>6. /\ acc' \in [Fibers -> Accepts]
        /\ \A b \in Fibers : GoesOn(acc[b].at, acc'[b].at)
    BY <1>3, ClosedAccType DEF GoesOn
  <1> QED BY <1>0, <1>1, <1>2, <1>3, <1>4, <1>5, <1>6, CloseMoves

\* The same close, by the destructor of the handle.
LEMMA DestructorCloseKeeps ==
    ASSUME ListenInv, NEW a \in Fibers, LS!DestructorClose(a)
    PROVE  ListenInv'
  <1>0. /\ stop \in [Stoppers -> {"rest", "raise", "spin", "stopped", "closed"}] /\ stop' = stop /\ ~badFd'
        /\ acc[a].at = "spin"
    BY DEF ListenInv, ListenType, LS!DestructorClose
  <1>1. ~badMem' /\ lst.shutting
    BY <1>0, TouchKeeps DEF LS!DestructorClose, ListenInv, FdRight
  <1>2. /\ owner' = LS!CloseFd /\ lst' = [lst EXCEPT !.fd = LS!NoNumber] /\ LS!NoneAccepting
        /\ acc' = [LS!ClosedAcc EXCEPT ![a].at = "collect"]
    BY DEF LS!DestructorClose
  <1>3. Closed' = Closed
    BY <1>0 DEF Closed
  <1>4. PICK g \in [Fibers -> Accepts] :
          /\ acc' = [g EXCEPT ![a].at = "collect"]
          /\ \A b \in Fibers : g[b] = acc[b] \/ (acc[b].at = "parked" /\ g[b].at = "enter")
    BY <1>2, ClosedAccType
  <1>5. /\ acc' \in [Fibers -> Accepts]
        /\ \A b \in Fibers : GoesOn(acc[b].at, acc'[b].at)
    BY <1>0, <1>4 DEF Accepts, AcceptPlaces, GoesOn
  <1> QED BY <1>0, <1>1, <1>2, <1>3, <1>5, CloseMoves


\* A reference less, and the struct freed with the last.
OneRefLess ==
    /\ lst' \in Handles /\ lst'.fd = lst.fd /\ lst'.shutting = lst.shutting /\ lst'.wake = lst.wake
    /\ lst'.accepting = lst.accepting /\ lst'.nonblock = lst.nonblock
    /\ lst'.refs = lst.refs - 1 /\ (lst'.freed <=> lst'.refs = 0)

\* A reference dropped: the struct is freed with the last.
LEMMA DropRef ==
    ASSUME lst \in Handles, lst' = [lst EXCEPT !.refs = @ - 1, !.freed = (lst.refs = 1)]
    PROVE  OneRefLess
  <1> DEFINE m == [lst EXCEPT !.refs = @ - 1]
             b == lst.refs = 1
  <1>1. /\ m \in Handles /\ m.fd = lst.fd /\ m.shutting = lst.shutting /\ m.wake = lst.wake
        /\ m.accepting = lst.accepting /\ m.refs = lst.refs - 1 /\ m.nonblock = lst.nonblock
        /\ lst.refs \in Int
    BY DEF Handles
  <1>2. b \in BOOLEAN /\ (b <=> m.refs = 0)
    <2>1. b <=> lst.refs - 1 = 0
      BY <1>1
    <2> QED BY <1>1, <2>1
  <1>3. lst' = [m EXCEPT !.freed = b]
    BY Zenon
  <1> HIDE DEF m, b
  <1>4. [m EXCEPT !.freed = b] \in Handles /\ [m EXCEPT !.freed = b].freed = b
        /\ [m EXCEPT !.freed = b].refs = m.refs /\ [m EXCEPT !.freed = b].fd = m.fd
        /\ [m EXCEPT !.freed = b].shutting = m.shutting /\ [m EXCEPT !.freed = b].wake = m.wake
        /\ [m EXCEPT !.freed = b].accepting = m.accepting /\ [m EXCEPT !.freed = b].nonblock = m.nonblock
    BY <1>1, <1>2 DEF Handles
  <1> QED BY <1>1, <1>2, <1>3, <1>4 DEF OneRefLess

\* The owner lets its reference go.
LEMMA UnrefKeeps ==
    ASSUME ListenInv, NEW s \in Stoppers, LS!Unref(s)
    PROVE  ListenInv'
  <1>0. /\ stop \in [Stoppers -> {"rest", "raise", "spin", "stopped", "closed"}] /\ ~badFd' /\ lst \in Handles
        /\ acc' = acc /\ owner' = owner /\ stop[s] = "stopped" /\ stop' = [stop EXCEPT ![s] = "closed"]
        /\ ~Closed /\ lst.refs \in Int
    BY DEF ListenInv, ListenType, LS!Unref, Closed, Handles, Stoppers
  <1>1. /\ \A t \in Stoppers : stop[t] \in {"rest", "stopped", "closed"}
        /\ lst.nonblock \/ \A a \in Fibers : acc[a].at = "ended"
    BY DEF LS!Unref, Stoppers
  <1>2. ~badMem'
    BY <1>0, TouchKeeps DEF LS!Unref
  <1>5. OneRefLess
    BY <1>0, DropRef DEF LS!Unref
  <1>6. Closed' /\ \A t \in Stoppers : stop'[t] # "raise" /\ stop'[t] # "spin"
    BY <1>0, <1>1 DEF Closed
  <1>7. Accepting' = Accepting /\ Serving' = Serving
    BY <1>0 DEF Accepting, Serving
  <1>8. ~lst.nonblock => Serving = {}
    BY <1>1 DEF Serving
  <1>9. ListenType'
    BY <1>0, <1>5 DEF ListenInv, ListenType, OneRefLess
  <1>10. FdRight'
    BY <1>0, <1>5, <1>6 DEF ListenInv, FdRight, OneRefLess
  <1>11. CountsRight'
    <2>1. lst'.refs = (IF lst'.nonblock THEN Cardinality(Serving') ELSE 0) + (IF Closed' THEN 0 ELSE 1)
      <3>1. Cardinality(Serving) \in Nat
        BY ListenersFinite DEF Serving
      <3> QED BY <1>0, <1>5, <1>6, <1>7, <3>1 DEF ListenInv, CountsRight, OneRefLess
    <2> QED BY <1>5, <1>6, <1>7, <1>8, <2>1 DEF ListenInv, CountsRight, OneRefLess
  <1> QED BY <1>0, <1>2, <1>9, <1>10, <1>11 DEF ListenInv

\* An acceptor's call returns: to the next one, or for good, when a fiber lets its
\* reference go.
LEMMA ReturnKept ==
    ASSUME ListenInv, NEW a \in Fibers, LS!Return(a)
    PROVE  ListenInv'
  <1>0. /\ acc \in [Fibers -> Accepts] /\ lst \in Handles /\ lst.refs \in Int /\ lst.accepting \in Int
        /\ acc[a].at = "done" /\ owner' = owner /\ stop' = stop /\ ~badFd' /\ ~badMem'
        /\ lst.nonblock \in BOOLEAN
    BY DEF ListenInv, ListenType, LS!Return, Handles
  <1>1. CASE ~lst.shutting
    <2>1. LS!Resting \in Accepts /\ LS!Resting.at = "rest"
      BY DEF LS!Resting, Accepts, AcceptPlaces, LS!NoNumber
    <2>2. acc' = [acc EXCEPT ![a] = LS!Resting] /\ lst' = lst
      BY <1>1 DEF LS!Return
    <2>3. HandleKept /\ PlaceAllowed(LS!Resting.at)
          /\ lst'.accepting = lst.accepting + CountChange(acc[a].at, LS!Resting.at)
      BY <1>0, <2>1, <2>2 DEF HandleKept, PlaceAllowed, CountChange, Counted, UsesFd
    <2> QED BY <1>0, <2>1, <2>2, <2>3, AcceptorMoves
  <1>2. CASE lst.shutting
    <2>1. acc' = [acc EXCEPT ![a].at = "ended"]
          /\ lst' = IF lst.nonblock THEN [lst EXCEPT !.refs = @ - 1, !.freed = (lst.refs = 1)] ELSE lst
      BY <1>2 DEF LS!Return
    <2>2. /\ acc' \in [Fibers -> Accepts] /\ acc'[a].at = "ended"
          /\ \A b \in Fibers : b # a => acc'[b] = acc[b]
      BY <1>0, <2>1 DEF Accepts, AcceptPlaces
    <2>3. /\ lst' \in Handles /\ lst'.fd = lst.fd /\ lst'.shutting = lst.shutting /\ lst'.wake = lst.wake
          /\ lst'.accepting = lst.accepting /\ lst'.nonblock = lst.nonblock
          /\ lst'.refs = (IF lst.nonblock THEN lst.refs - 1 ELSE lst.refs) /\ (lst'.freed <=> lst'.refs = 0)
      <3>1. CASE lst.nonblock
        <4>1. OneRefLess
          BY <1>0, <2>1, <3>1, DropRef
        <4> QED BY <3>1, <4>1 DEF OneRefLess
      <3>2. CASE ~lst.nonblock
        BY <1>0, <2>1, <3>2 DEF ListenInv, CountsRight
      <3> QED BY <3>1, <3>2
    <2>4. Accepting' = Accepting
      BY <1>0, <2>2 DEF Accepting, Counted
    <2>5. Cardinality(Serving') = Cardinality(Serving) - 1 /\ Cardinality(Serving) \in Nat /\ Serving' \subseteq Serving
      <3>1. Serving \subseteq Fibers /\ Serving' \subseteq Fibers /\ a \notin Serving' /\ a \in Serving
            /\ \A b \in Fibers : b # a => (b \in Serving <=> b \in Serving')
        BY <1>0, <2>2 DEF Serving
      <3>2. Cardinality(Serving) \in Nat
        BY <3>1, ListenersFinite
      <3> QED BY <3>1, <3>2, CountOne
    <2>6. Closed' = Closed
      BY <1>0 DEF Closed
    <2>7. ListenType'
      BY <1>0, <2>2, <2>3 DEF ListenInv, ListenType
    <2>8. FdRight'
      BY <1>0, <2>2, <2>3 DEF ListenInv, FdRight, UsesFd
    <2>9. CountsRight'
      <3>1. lst'.refs = (IF lst'.nonblock THEN Cardinality(Serving') ELSE 0) + (IF Closed' THEN 0 ELSE 1)
        BY <1>0, <2>3, <2>5, <2>6 DEF ListenInv, CountsRight
      <3> QED BY <1>0, <2>3, <2>4, <2>5, <2>6, <3>1 DEF ListenInv, CountsRight
    <2> QED BY <1>0, <2>7, <2>8, <2>9 DEF ListenInv
  <1> QED BY <1>1, <1>2

\* A connection arrives; another part of the program is given a free number.
LEMMA OthersKeep ==
    ASSUME ListenInv, LS!Arrive \/ LS!OpenOther
    PROVE  ListenInv'
  <1>0. /\ lst' = lst /\ acc' = acc /\ stop' = stop /\ badFd' = badFd /\ badMem' = badMem
        /\ owner \in [ListenFds -> {"none", "listener", "other"}]
    BY DEF ListenInv, ListenType, LS!Arrive, LS!OpenOther
  <1>1. \/ owner' = owner
        \/ \E f \in ListenFds : owner[f] = "none" /\ owner' = [owner EXCEPT ![f] = "other"]
    BY DEF LS!Arrive, LS!OpenOther
  <1>2. /\ owner' \in [ListenFds -> {"none", "listener", "other"}]
        /\ \A f \in ListenFds : owner[f] = "listener" => owner'[f] = "listener"
    BY <1>0, <1>1
  <1>3. ListenType' /\ FdRight'
    BY <1>0, <1>2 DEF ListenInv, ListenType, FdRight, Handles
  <1>4. Accepting' = Accepting /\ Serving' = Serving /\ Closed' = Closed
    BY <1>0 DEF Accepting, Serving, Closed
  <1>5. CountsRight'
    BY <1>0, <1>4 DEF ListenInv, CountsRight
  <1> QED BY <1>0, <1>3, <1>5 DEF ListenInv


\* The listener's Cardinality is Cardinality.
LEMMA SameCardinality == ASSUME NEW S PROVE LS!Cardinality(S) = Cardinality(S)
  BY Zenon DEF LS!Cardinality, Cardinality

\* nurl_tcp_listen_opts.
LEMMA ListenBegins ==
    ASSUME LS!Init PROVE ListenInv
  <1>0. PICK fd \in ListenFds, fiber \in BOOLEAN, wake \in {"none", "quiet"} :
          /\ owner = [f \in ListenFds |-> IF f = fd THEN "listener" ELSE "none"]
          /\ lst = [fd |-> fd, shutting |-> FALSE, wake |-> wake, accepting |-> 0,
                    refs |-> IF fiber THEN 1 + Cardinality(Fibers) ELSE 1,
                    freed |-> FALSE, nonblock |-> fiber]
    BY SameCardinality DEF LS!Init
  <1>1. /\ acc = [a \in Fibers |-> LS!Resting] /\ stop = [s \in Stoppers |-> "rest"] /\ ~badFd /\ ~badMem
    BY DEF LS!Init, Stoppers
  <1>2. LS!Resting \in Accepts /\ LS!Resting.at = "rest"
    BY DEF LS!Resting, Accepts, AcceptPlaces, LS!NoNumber
  <1>3. Cardinality(Fibers) \in Nat /\ Cardinality({}) = 0
    BY ListenersFinite, FS_EmptySet
  <1>4. /\ lst \in Handles /\ lst.fd = fd /\ ~lst.shutting /\ lst.accepting = 0 /\ ~lst.freed /\ lst.nonblock = fiber
        /\ lst.refs = (IF fiber THEN 1 + Cardinality(Fibers) ELSE 1)
    BY <1>0, <1>3 DEF Handles
  <1>5. ListenType
    BY <1>0, <1>1, <1>2, <1>4 DEF ListenType
  <1>6. fd # 0 /\ owner[fd] = "listener"
    BY <1>0, ListenAssumption
  <1>7. Accepting = {} /\ Serving = Fibers /\ ~Closed
    BY <1>1, <1>2 DEF Accepting, Serving, Closed, Counted
  <1>8. FdRight
    BY <1>1, <1>2, <1>4, <1>6 DEF FdRight, UsesFd
  <1>9. CountsRight
    BY <1>3, <1>4, <1>7 DEF CountsRight
  <1> QED BY <1>1, <1>5, <1>8, <1>9 DEF ListenInv

\* Every step of the listener.
LEMMA ListenStep ==
    ASSUME ListenInv, LS!Next
    PROVE  ListenInv'
  <1>1. ASSUME NEW a \in Fibers,
               LS!Call(a) \/ LS!Pending(a) \/ LS!Proceeds(a) \/ LS!Destructor(a) \/ LS!Ready(a)
        PROVE  ListenInv'
    BY <1>1, CallKeeps, CountingKeeps, AcceptingKeeps, OutsideKeeps, PeekKeeps, DestructorKeeps,
       DestructorCloseKeeps, ReturnKept DEF LS!Proceeds
  <1>2. ASSUME NEW s \in Stoppers, LS!Shut(s) \/ LS!Stops(s) \/ LS!Unref(s)
        PROVE  ListenInv'
    BY <1>2, ShutKeeps, CloseKeeps, UnrefKeeps DEF LS!Stops
  <1>3. CASE LS!Arrive \/ LS!OpenOther
    BY <1>3, OthersKeep
  <1> QED BY <1>1, <1>2, <1>3 DEF LS!Next, Stoppers

\* No accept on a descriptor not the listener's, no use of a freed struct.
LEMMA ListenSound == ListenInv => LS!OwnFdOnly /\ LS!NotFreedInUse
  BY DEF ListenInv, LS!OwnFdOnly, LS!NotFreedInUse

-----------------------------------------------------------------------------
(* Runs of a child process to its end.                                     *)

RunStreams == {"out", "err"}
BeforeLaunch == {"new", "piped", "kept"}
RunPlaces == BeforeLaunch \cup {"begin", "feed", "wait", "done"}
Holders == Runs \cup {Us}

\* The callers, the pipes, the reader threads and the children.
RunType ==
    /\ rnpc \in [Runs -> RunPlaces]
    /\ inPipe \in [Runs -> 0 .. RunRoom] /\ inHeld \in [Runs -> SUBSET Holders]
    /\ pipes \in [Runs -> [RunStreams -> 0 .. RunRoom]] /\ outHeld \in [Runs -> SUBSET Holders]
    /\ wrote \in [Runs -> [RunStreams -> Int]] /\ collected \in [Runs -> [RunStreams -> Int]]
    /\ reader \in [Runs -> [RunStreams -> {"none", "reads", "done", "failed", "refused"}]]
    /\ process \in [Runs -> {"none", "runs", "gone"}]
    /\ err \in [Runs -> {"none", "failed", "io"}]

\* We hold a write end only while it must be open, the child holds its own until it
\* exits, and so a reader that has met the end of its pipe has met the child's end too.
EndsRight(place, in, out, proc) ==
    /\ Us \in out => place \in {"piped", "kept"}
    /\ Us \in in => place \in {"piped", "kept", "begin", "feed"}
    /\ place \in BeforeLaunch => proc = "none"
\* What was collected and what is in the pipe is what was written; a reader begins
\* with the feeding, or its start is refused and it collects nothing, and it is done once
\* the pipe is empty for good.
StreamRight(place, e, proc, rd, gotten, piped, written) ==
    /\ gotten + piped = written
    /\ rd = "none" <=> place \in BeforeLaunch \cup {"begin"} \/ (place = "done" /\ e = "failed")
    /\ rd \in {"none", "refused"} => gotten = 0
    /\ rd = "done" => piped = 0 /\ proc # "runs"
    /\ place = "done" /\ e = "none" => rd \in {"done", "refused"}
    /\ e # "none" => place = "done"

RunInv ==
    /\ RunType
    /\ \A r \in Runs :
         /\ EndsRight(rnpc[r], inHeld[r], outHeld[r], process[r])
         /\ process[r] = "runs" => r \in outHeld[r]
         /\ \A s \in RunStreams :
              StreamRight(rnpc[r], err[r], process[r], reader[r][s], collected[r][s], pipes[r][s], wrote[r][s])

\* Both streams begin alike.
LEMMA BothAlike ==
    ASSUME NEW x
    PROVE  RN!Both(x) \in [RunStreams -> {x}] /\ \A s \in RunStreams : RN!Both(x)[s] = x
  BY DEF RN!Both, RunStreams, RN!Streams

\* Before anything has run.
LEMMA RunsBegin == RN!Init => RunInv
  <1> SUFFICES ASSUME RN!Init PROVE RunInv
    OBVIOUS
  <1>1. RN!Both(0) \in [RunStreams -> {0}] /\ RN!Both("none") \in [RunStreams -> {"none"}]
        /\ \A s \in RunStreams : RN!Both(0)[s] = 0 /\ RN!Both("none")[s] = "none"
    BY BothAlike
  <1>2. RunType
    BY <1>1, RunAssumption DEF RN!Init, RunType, RunPlaces, BeforeLaunch, Holders
  <1>3. ASSUME NEW r \in Runs
        PROVE  /\ rnpc[r] = "new" /\ inHeld[r] = {} /\ outHeld[r] = {} /\ process[r] = "none" /\ err[r] = "none"
               /\ reader[r] = RN!Both("none") /\ collected[r] = RN!Both(0)
               /\ pipes[r] = RN!Both(0) /\ wrote[r] = RN!Both(0)
    BY DEF RN!Init
  <1> QED BY <1>1, <1>2, <1>3 DEF RunInv, EndsRight, StreamRight, BeforeLaunch

\* A run that others' steps leave alone, but for handles a child of theirs got or gave up.
RunAlone(q) ==
    /\ rnpc'[q] = rnpc[q] /\ process'[q] = process[q] /\ err'[q] = err[q]
    /\ reader'[q] = reader[q] /\ collected'[q] = collected[q] /\ pipes'[q] = pipes[q] /\ wrote'[q] = wrote[q]
    /\ Us \in outHeld'[q] => Us \in outHeld[q]
    /\ Us \in inHeld'[q] => Us \in inHeld[q]
    /\ q \in outHeld[q] => q \in outHeld'[q]

\* One run moves.
LEMMA RunMoves ==
    ASSUME RunInv, NEW r \in Runs, RunType', \A q \in Runs \ {r} : RunAlone(q),
           EndsRight(rnpc'[r], inHeld'[r], outHeld'[r], process'[r]),
           process'[r] = "runs" => r \in outHeld'[r],
           \A s \in RunStreams :
             StreamRight(rnpc'[r], err'[r], process'[r], reader'[r][s], collected'[r][s], pipes'[r][s], wrote'[r][s])
    PROVE  RunInv'
  <1>1. ASSUME NEW q \in Runs \ {r}
        PROVE  /\ EndsRight(rnpc'[q], inHeld'[q], outHeld'[q], process'[q])
               /\ process'[q] = "runs" => q \in outHeld'[q]
               /\ \A s \in RunStreams :
                    StreamRight(rnpc'[q], err'[q], process'[q], reader'[q][s], collected'[q][s], pipes'[q][s], wrote'[q][s])
    BY DEF RunInv, RunAlone, EndsRight
  <1> QED BY <1>1 DEF RunInv

\* The pipes are made, or the run fails.
LEMMA MakePipesKeeps ==
    ASSUME RunInv, NEW r \in Runs, RN!MakePipes(r)
    PROVE  RunInv'
  <1>0. RunType
    BY DEF RunInv
  <1>1. rnpc[r] = "new" /\ UNCHANGED <<inPipe, pipes, wrote, reader, collected, process>>
    BY DEF RN!MakePipes, RN!At, RN!pipes
  <1>2. CASE /\ rnpc' = [rnpc EXCEPT ![r] = "piped"] /\ err' = err
             /\ inHeld' = [inHeld EXCEPT ![r] = {Us}] /\ outHeld' = [outHeld EXCEPT ![r] = {Us}]
    <2>1. RunType'
      BY <1>0, <1>1, <1>2 DEF RunType, RunPlaces, BeforeLaunch, Holders
    <2> QED BY <1>0, <1>1, <1>2, <2>1, RunMoves DEF RunInv, RunType, RunAlone, EndsRight, StreamRight, BeforeLaunch
  <1>3. CASE /\ rnpc' = [rnpc EXCEPT ![r] = "done"] /\ err' = [err EXCEPT ![r] = "failed"]
             /\ inHeld' = inHeld /\ outHeld' = outHeld
    <2>1. RunType'
      BY <1>0, <1>1, <1>3 DEF RunType, RunPlaces, BeforeLaunch, Holders
    <2> QED BY <1>0, <1>1, <1>3, <2>1, RunMoves DEF RunInv, RunType, RunAlone, EndsRight, StreamRight, BeforeLaunch
  <1> QED BY <1>2, <1>3 DEF RN!MakePipes, RN!At

\* Our ends are kept from the children of others.
LEMMA KeepOursKeeps ==
    ASSUME RunInv, NEW r \in Runs, RN!KeepOurs(r)
    PROVE  RunInv'
  <1>0. RunType
    BY DEF RunInv
  <1>1. rnpc[r] = "piped" /\ rnpc' = [rnpc EXCEPT ![r] = "kept"]
        /\ UNCHANGED <<inPipe, pipes, wrote, reader, collected, process, inHeld, outHeld, err>>
    BY DEF RN!KeepOurs, RN!At, RN!pipes
  <1>2. RunType'
    BY <1>0, <1>1 DEF RunType, RunPlaces, BeforeLaunch, Holders
  <1> QED BY <1>0, <1>1, <1>2, RunMoves DEF RunInv, RunType, RunAlone, EndsRight, StreamRight, BeforeLaunch

\* The child is created with what it inherits, and our copies of its ends are closed.
LEMMA LaunchKeeps ==
    ASSUME RunInv, NEW r \in Runs, RN!Launch(r)
    PROVE  RunInv'
  <1>0. RunType
    BY DEF RunInv
  <1>1. rnpc[r] = "kept" /\ UNCHANGED <<inPipe, pipes, wrote, reader, collected>>
    BY DEF RN!Launch, RN!At, RN!pipes
  <1>2. CASE /\ rnpc' = [rnpc EXCEPT ![r] = "begin"] /\ err' = err
             /\ process' = [process EXCEPT ![r] = "runs"]
             /\ inHeld' = [q \in Runs |-> IF RN!Inherits(r, q) THEN inHeld[q] \union {r} ELSE inHeld[q]]
             /\ outHeld' = RN!CloseEnds(r, [q \in Runs |-> IF RN!InheritsOut(r, q) THEN outHeld[q] \union {r} ELSE outHeld[q]])
    <2>1. /\ outHeld' \in [Runs -> SUBSET Holders] /\ inHeld' \in [Runs -> SUBSET Holders]
          /\ outHeld'[r] = (outHeld[r] \cup {r}) \ {Us} /\ inHeld'[r] = inHeld[r]
          /\ \A q \in Runs \ {r} : outHeld[q] \subseteq outHeld'[q] /\ outHeld'[q] \subseteq outHeld[q] \cup {r}
          /\ \A q \in Runs \ {r} : inHeld'[q] \subseteq inHeld[q] \cup {r}
      BY <1>0, <1>2 DEF RunType, Holders, RN!CloseEnds, RN!Inherits, RN!InheritsOut
    <2>2. RunType'
      BY <1>0, <1>1, <1>2, <2>1 DEF RunType, RunPlaces, BeforeLaunch
    <2>3. Us # r
      BY RunAssumption
    <2>4. \A q \in Runs \ {r} : RunAlone(q)
      BY <1>0, <1>1, <1>2, <2>1, <2>3 DEF RunType, RunAlone
    <2>5. rnpc'[r] = "begin" /\ process'[r] = "runs" /\ r \in outHeld'[r] /\ Us \notin outHeld'[r]
      BY <1>0, <1>2, <2>1, <2>3 DEF RunType
    <2>6. EndsRight(rnpc'[r], inHeld'[r], outHeld'[r], process'[r])
      BY <2>5 DEF EndsRight, BeforeLaunch
    <2>7. ASSUME NEW s \in RunStreams
          PROVE  StreamRight(rnpc'[r], err'[r], process'[r], reader'[r][s], collected'[r][s], pipes'[r][s], wrote'[r][s])
      BY <1>0, <1>1, <1>2, <2>5 DEF RunInv, RunType, StreamRight, BeforeLaunch
    <2> QED BY <2>2, <2>4, <2>5, <2>6, <2>7, RunMoves
  <1>3. CASE /\ rnpc' = [rnpc EXCEPT ![r] = "done"] /\ err' = [err EXCEPT ![r] = "failed"]
             /\ inHeld' = [inHeld EXCEPT ![r] = @ \ {Us}] /\ outHeld' = RN!CloseEnds(r, outHeld) /\ process' = process
    <2>1. RunType'
      BY <1>0, <1>1, <1>3 DEF RunType, RunPlaces, BeforeLaunch, Holders, RN!CloseEnds
    <2> QED BY <1>0, <1>1, <1>3, <2>1, RunMoves DEF RunInv, RunType, RunAlone, EndsRight, StreamRight, BeforeLaunch, RN!CloseEnds
  <1> QED BY <1>2, <1>3 DEF RN!Launch, RN!At

\* The reader threads begin, each unless its start is refused.
LEMMA BeginReadersKeeps ==
    ASSUME RunInv, NEW r \in Runs, RN!BeginReaders(r)
    PROVE  RunInv'
  <1>0. RunType
    BY DEF RunInv
  <1>1. /\ rnpc[r] = "begin" /\ rnpc' = [rnpc EXCEPT ![r] = "feed"] /\ RN!Begun(r)
        /\ UNCHANGED <<inPipe, pipes, wrote, collected, process, inHeld, outHeld, err>>
    BY DEF RN!BeginReaders, RN!At, RN!pipes, RN!Readers
  <1>2. PICK began \in [RunStreams -> {"reads", "refused"}] : reader' = [reader EXCEPT ![r] = began]
    BY <1>1 DEF RN!Begun, RN!Streams, RunStreams
  <1>3. RunType'
    BY <1>0, <1>1, <1>2 DEF RunType, RunPlaces, BeforeLaunch, Holders
  <1> QED BY <1>0, <1>1, <1>2, <1>3, RunMoves DEF RunInv, RunType, RunAlone, EndsRight, StreamRight, BeforeLaunch

\* A byte of stdin is written, or nobody reads it any more.
LEMMA FeedKeeps ==
    ASSUME RunInv, NEW r \in Runs, RN!Feed(r)
    PROVE  RunInv'
  <1>0. RunType
    BY DEF RunInv
  <1>1. /\ inPipe' = inPipe \/ (inPipe[r] < RunRoom /\ inPipe' = [inPipe EXCEPT ![r] = @ + 1])
        /\ UNCHANGED <<rnpc, pipes, wrote, reader, collected, process, inHeld, outHeld, err>>
    BY DEF RN!Feed, RN!At, RN!pipes
  <1>2. inPipe' \in [Runs -> 0 .. RunRoom]
    <2>1. inPipe[r] \in 0 .. RunRoom /\ inPipe \in [Runs -> 0 .. RunRoom]
      BY <1>0 DEF RunType
    <2>2. inPipe[r] < RunRoom => inPipe[r] + 1 \in 0 .. RunRoom
      BY <2>1, RunAssumption
    <2> QED BY <1>1, <2>1, <2>2
  <1>3. RunType'
    BY <1>0, <1>1, <1>2 DEF RunType
  <1> QED BY <1>0, <1>1, <1>3, RunMoves DEF RunInv, RunType, RunAlone

\* Our end of the stdin pipe is closed.
LEMMA CloseStdinKeeps ==
    ASSUME RunInv, NEW r \in Runs, RN!CloseStdin(r)
    PROVE  RunInv'
  <1>0. RunType
    BY DEF RunInv
  <1>1. /\ rnpc[r] = "feed" /\ rnpc' = [rnpc EXCEPT ![r] = "wait"] /\ inHeld' = [inHeld EXCEPT ![r] = @ \ {Us}]
        /\ UNCHANGED <<inPipe, pipes, wrote, reader, collected, process, outHeld, err>>
    BY DEF RN!CloseStdin, RN!At, RN!pipes
  <1>2. RunType'
    BY <1>0, <1>1 DEF RunType, RunPlaces, BeforeLaunch, Holders
  <1> QED BY <1>0, <1>1, <1>2, RunMoves DEF RunInv, RunType, RunAlone, EndsRight, StreamRight, BeforeLaunch

\* The child is gone and the readers are over.
LEMMA CollectKeeps ==
    ASSUME RunInv, NEW r \in Runs, RN!Collect(r)
    PROVE  RunInv'
  <1>0. RunType
    BY DEF RunInv
  <1>1. /\ rnpc[r] = "wait" /\ rnpc' = [rnpc EXCEPT ![r] = "done"] /\ process[r] = "gone"
        /\ \A s \in RunStreams : reader[r][s] # "reads"
        /\ \/ err' = [err EXCEPT ![r] = "io"]
           \/ err' = err /\ \A s \in RunStreams : reader[r][s] # "failed"
        /\ UNCHANGED <<inPipe, pipes, wrote, reader, collected, process, inHeld, outHeld>>
    BY DEF RN!Collect, RN!At, RN!pipes, RN!Over, RN!Streams, RunStreams
  <1>2. RunType'
    BY <1>0, <1>1 DEF RunType, RunPlaces, BeforeLaunch, Holders
  <1> QED BY <1>0, <1>1, <1>2, RunMoves DEF RunInv, RunType, RunAlone, EndsRight, StreamRight, BeforeLaunch

\* A reader takes what is there, or meets the end of its pipe, or fails.
LEMMA ReadKeeps ==
    ASSUME RunInv, NEW r \in Runs, NEW s \in RunStreams, RN!Read(r, s) \/ RN!ReadFails(r, s)
    PROVE  RunInv'
  <1>0. RunType
    BY DEF RunInv
  <1>1. reader[r][s] = "reads" /\ UNCHANGED <<rnpc, inPipe, wrote, inHeld, outHeld, process, err>>
    BY DEF RN!Read, RN!ReadFails, RN!pipes
  <1>2. CASE pipes' = [pipes EXCEPT ![r][s] = 0] /\ collected' = [collected EXCEPT ![r][s] = @ + pipes[r][s]] /\ reader' = reader
    <2>1. RunType'
      BY <1>0, <1>1, <1>2, RunAssumption DEF RunType
    <2> QED BY <1>0, <1>1, <1>2, <2>1, RunMoves DEF RunInv, RunType, RunAlone, EndsRight, StreamRight
  <1>3. CASE pipes[r][s] = 0 /\ outHeld[r] = {} /\ reader' = [reader EXCEPT ![r][s] = "done"] /\ UNCHANGED <<pipes, collected>>
    <2>1. RunType'
      BY <1>0, <1>1, <1>3 DEF RunType
    <2> QED BY <1>0, <1>1, <1>3, <2>1, RunMoves DEF RunInv, RunType, RunAlone, EndsRight, StreamRight
  <1>4. CASE reader' = [reader EXCEPT ![r][s] = "failed"] /\ UNCHANGED <<pipes, collected>>
    <2>1. RunType'
      BY <1>0, <1>1, <1>4 DEF RunType
    <2> QED BY <1>0, <1>1, <1>4, <2>1, RunMoves DEF RunInv, RunType, RunAlone, EndsRight, StreamRight
  <1> QED BY <1>2, <1>3, <1>4 DEF RN!Read, RN!ReadFails, RN!pipes

\* The child reads a byte of stdin.
LEMMA ChildReadsKeeps ==
    ASSUME RunInv, NEW r \in Runs, RN!ChildReads(r)
    PROVE  RunInv'
  <1>0. RunType
    BY DEF RunInv
  <1>1. /\ inPipe[r] > 0 /\ inPipe' = [inPipe EXCEPT ![r] = @ - 1]
        /\ UNCHANGED <<rnpc, pipes, wrote, reader, collected, process, inHeld, outHeld, err>>
    BY DEF RN!ChildReads, RN!At, RN!pipes
  <1>2. RunType'
    BY <1>0, <1>1, RunAssumption DEF RunType, RunPlaces, BeforeLaunch, Holders
  <1> QED BY <1>0, <1>1, <1>2, RunMoves, RunAssumption DEF RunInv, RunType, RunAlone, EndsRight, StreamRight, BeforeLaunch

\* The child is about to write.
LEMMA ChildBeginsKeeps ==
    ASSUME RunInv, NEW r \in Runs, NEW s \in RunStreams, RN!ChildBegins(r, s)
    PROVE  RunInv'
  <1>0. RunType
    BY DEF RunInv
  <1>1. UNCHANGED <<rnpc, inPipe, pipes, wrote, reader, collected, process, inHeld, outHeld, err>>
    BY DEF RN!ChildBegins, RN!At, RN!pipes
  <1>2. RunType'
    BY <1>0, <1>1 DEF RunType, RunPlaces, BeforeLaunch, Holders
  <1> QED BY <1>0, <1>1, <1>2, RunMoves DEF RunInv, RunType, RunAlone, EndsRight, StreamRight, BeforeLaunch

\* The child writes a byte.
LEMMA ChildWritesKeeps ==
    ASSUME RunInv, NEW r \in Runs, NEW s \in RunStreams, RN!ChildWrites(r, s)
    PROVE  RunInv'
  <1>0. RunType
    BY DEF RunInv
  <1>1. /\ process[r] = "runs" /\ pipes[r][s] < RunRoom
        /\ pipes' = [pipes EXCEPT ![r][s] = @ + 1] /\ wrote' = [wrote EXCEPT ![r][s] = @ + 1]
        /\ UNCHANGED <<rnpc, inPipe, reader, collected, process, inHeld, outHeld, err>>
    BY DEF RN!ChildWrites, RN!At, RN!pipes
  <1>2. RunType'
    BY <1>0, <1>1, RunAssumption DEF RunType, RunPlaces, BeforeLaunch, Holders
  <1> QED BY <1>0, <1>1, <1>2, RunMoves, RunAssumption DEF RunInv, RunType, RunAlone, EndsRight, StreamRight, BeforeLaunch

\* The child exits, and all it holds is closed.
LEMMA ExitsKeeps ==
    ASSUME RunInv, NEW r \in Runs, RN!Exits(r)
    PROVE  RunInv'
  <1>0. RunType
    BY DEF RunInv
  <1>1. /\ process[r] = "runs" /\ process' = [process EXCEPT ![r] = "gone"]
        /\ inHeld' = [q \in Runs |-> inHeld[q] \ {r}] /\ outHeld' = [q \in Runs |-> outHeld[q] \ {r}]
        /\ UNCHANGED <<rnpc, inPipe, pipes, wrote, reader, collected, err>>
    BY DEF RN!Exits, RN!At, RN!pipes
  <1>2. RunType'
    BY <1>0, <1>1 DEF RunType, RunPlaces, BeforeLaunch, Holders
  <1> QED BY <1>0, <1>1, <1>2, RunMoves DEF RunInv, RunType, RunAlone, EndsRight, StreamRight, BeforeLaunch

\* Every step of a run, its readers and its child.
LEMMA RunsStep ==
    ASSUME RunInv, RN!Next
    PROVE  RunInv'
  <1>1. PICK r \in Runs : RN!Caller(r) \/ RN!Child(r) \/ RN!Exits(r) \/ \E s \in RN!Streams : RN!Read(r, s) \/ RN!ReadFails(r, s)
    BY DEF RN!Next
  <1>2. RN!Streams = RunStreams
    BY DEF RN!Streams, RunStreams
  <1>3. CASE RN!Caller(r)
    BY <1>3, MakePipesKeeps, KeepOursKeeps, LaunchKeeps, BeginReadersKeeps, FeedKeeps, CloseStdinKeeps, CollectKeeps DEF RN!Caller
  <1>4. CASE RN!Child(r)
    BY <1>2, <1>4, ChildReadsKeeps, ChildBeginsKeeps, ChildWritesKeeps DEF RN!Child
  <1> QED BY <1>1, <1>2, <1>3, <1>4, ExitsKeeps, ReadKeeps

\* A run that returns without an error has the whole of each stream it had a reader for.
LEMMA RunsSound == RunInv => RN!TypeOK /\ RN!OutputWhole
  <1> SUFFICES ASSUME RunInv PROVE RN!TypeOK /\ RN!OutputWhole
    OBVIOUS
  <1>1. RN!TypeOK
    BY DEF RN!TypeOK, RunInv, RunType, Holders, EndsRight, RN!Streams, RunStreams
  <1>2. ASSUME NEW r \in Runs, NEW s \in RunStreams, rnpc[r] = "done", err[r] = "none"
        PROVE  collected[r][s] = IF reader[r][s] = "refused" THEN 0 ELSE wrote[r][s]
    BY <1>2 DEF RunInv, RunType, StreamRight
  <1> QED BY <1>1, <1>2 DEF RN!OutputWhole, RN!Streams, RunStreams

\* Nothing the runs' invariant speaks of changed.
LEMMA RunsStand ==
    ASSUME RunInv, UNCHANGED runVars
    PROVE  RunInv'
  BY DEF RunInv, runVars, RunType
-----------------------------------------------------------------------------
(* A child with live stdin and stdout.                                     *)

Bytes == {"a", PC!NL}
SpawnStages == {"new", "piped", "listening", "launch"}
Flights == [st : {"no", "flight", "full", "broken"}, data : Seq(Bytes), by : Fibers \cup {None}]
Returned == [line : Seq(Bytes), why : {"", "line", "eof", "timeout", "error"}]

\* The output on its way, the call in progress and what is known of the child.
ChildType ==
    /\ child \in {"none", "run", "dead"} /\ produced \in Seq(Bytes) /\ outPipe \in Seq(Bytes)
    /\ scratch \in Seq(Bytes) /\ taken \in Seq(Bytes) /\ flight \in Flights /\ line \in Returned
    /\ hpc \in SpawnStages \cup {"idle", "reading", "grace", "settle", "freed"}
    /\ by \in Fibers \cup {None} /\ reads \in 0 .. MaxReads /\ exitCode \in {-1, 0, 143}
    /\ Len(outPipe) <= PipeRoom /\ Len(produced) <= MaxOut

\* Only a completed read has bytes, and one in flight waits at an empty pipe.
FlightRight ==
    /\ flight.st # "full" => flight.data = <<>>
    /\ flight.st = "flight" => outPipe = <<>>

\* The line returned last is the end of what was handed out, whatever call is next.
WholeLine(l, handed, over) ==
    l.why = "line" =>
        /\ ~PC!Contains(l.line, PC!NL)
        /\ PC!IsSuffix(Append(l.line, PC!NL), handed) \/ (over /\ PC!IsSuffix(l.line, handed))

\* Which handles are open, by how far the spawn got and how it went.
HandlesRight ==
    /\ hpc \in SpawnStages => errKind = "none" /\ child = "none"
    /\ child = "none" /\ hpc \notin SpawnStages => open = {}
    /\ hpc = "freed" => open = {} /\ flight.st # "flight"
    /\ hpc = "reading" => child # "none"
    /\ hpc \notin {"settle", "freed"} => code \in {0, 143}

ChildInv ==
    /\ ChildType /\ FlightRight /\ HandlesRight /\ WholeLine(line, taken, eof)
    /\ hpc = "reading" => ~PC!Contains(scratch, PC!NL)
    /\ hpc # "freed" => taken \o scratch \o flight.data \o outPipe = produced

\* A set of numbers has a least one.
LEMMA LeastOf ==
    ASSUME NEW T, T \subseteq Nat, T # {}
    PROVE  \E x \in T : \A y \in T : x <= y
  <1>1. PICK x \in T : \A y \in T : ~(<<y, x>> \in OpToRel(<, Nat))
    BY WFMin, NatLessThanWellFounded
  <1>2. ASSUME NEW y \in T PROVE x <= y
    <2>1. ~(y < x)
      BY <1>1 DEF OpToRel
    <2> QED BY <2>1
  <1> QED BY <1>2

\* nurl__pc_drain_line finds the first newline.
LEMMA FirstNewline ==
    ASSUME NEW s \in Seq(Bytes), PC!Contains(s, PC!NL)
    PROVE  /\ PC!FirstNl(s) \in 1 .. Len(s) /\ s[PC!FirstNl(s)] = PC!NL
           /\ \A j \in 1 .. PC!FirstNl(s) - 1 : s[j] # PC!NL
  <1> DEFINE T == {i \in 1 .. Len(s) : s[i] = PC!NL}
  <1>1. T \subseteq Nat /\ T # {}
    BY DEF PC!Contains
  <1>2. PICK i \in T : \A j \in T : i <= j
    BY <1>1, LeastOf
  <1>3. i \in DOMAIN s /\ s[i] = PC!NL /\ \A j \in 1 .. i - 1 : s[j] # PC!NL
    BY <1>2
  <1> QED BY <1>3 DEF PC!FirstNl

\* What comes last is a suffix.
LEMMA ConcatSuffix ==
    ASSUME NEW s \in Seq(Bytes), NEW t \in Seq(Bytes)
    PROVE  PC!IsSuffix(t, s \o t)
  <1> DEFINE u == s \o t
             p == PC!Reverse(t)
             q == PC!Reverse(u)
  <1>1. u \in Seq(Bytes) /\ Len(u) = Len(s) + Len(t) /\ \A i \in 1 .. Len(t) : u[Len(s) + i] = t[i]
    OBVIOUS
  <1>2. p \in Seq(Bytes) /\ Len(p) = Len(t) /\ \A i \in 1 .. Len(t) : p[i] = t[(Len(t) - i) + 1]
    BY DEF PC!Reverse
  <1> HIDE DEF u
  <1>3. q \in Seq(Bytes) /\ Len(q) = Len(u) /\ \A i \in 1 .. Len(u) : q[i] = u[(Len(u) - i) + 1]
    BY <1>1 DEF PC!Reverse
  <1> HIDE DEF p, q
  <1>4. \A i \in 1 .. Len(t) : p[i] = q[i]
    <2> TAKE i \in 1 .. Len(t)
    <2>1. q[i] = u[(Len(u) - i) + 1]
      BY <1>1, <1>3
    <2>2. (Len(u) - i) + 1 = Len(s) + ((Len(t) - i) + 1) /\ (Len(t) - i) + 1 \in 1 .. Len(t)
      BY <1>1
    <2> QED BY <1>1, <1>2, <2>1, <2>2
  <1>5. SubSeq(p, 1, Len(p)) = SubSeq(q, 1, Len(p))
    BY <1>1, <1>2, <1>3, <1>4
  <1> QED BY <1>1, <1>2, <1>3, <1>5 DEF PC!IsSuffix, PC!IsPrefix, p, q, u

\* The first line of s, its newline and the rest are s.
LEMMA LineCut ==
    ASSUME NEW s \in Seq(Bytes), PC!Contains(s, PC!NL)
    PROVE  /\ PC!LineOf(s) \in Seq(Bytes) /\ ~PC!Contains(PC!LineOf(s), PC!NL)
           /\ SubSeq(s, 1, PC!FirstNl(s)) \in Seq(Bytes) /\ PC!Rest(s) \in Seq(Bytes)
           /\ Append(PC!LineOf(s), PC!NL) = SubSeq(s, 1, PC!FirstNl(s))
           /\ SubSeq(s, 1, PC!FirstNl(s)) \o PC!Rest(s) = s
  <1> DEFINE n == PC!FirstNl(s)
             l == SubSeq(s, 1, n - 1)
  <1>1. n \in 1 .. Len(s) /\ s[n] = PC!NL /\ \A j \in 1 .. n - 1 : s[j] # PC!NL
    BY FirstNewline
  <1> HIDE DEF n
  <1>2. l \in Seq(Bytes) /\ Len(l) = n - 1 /\ \A j \in 1 .. n - 1 : l[j] = s[j]
    BY <1>1
  <1>3. SubSeq(s, 1, n) \in Seq(Bytes) /\ SubSeq(s, n + 1, Len(s)) \in Seq(Bytes)
    BY <1>1
  <1>4. SubSeq(s, 1, n) = l \o <<s[n]>>
    BY <1>1, SubSeqRecursiveSecond
  <1>5. SubSeq(s, 1, n) \o SubSeq(s, n + 1, Len(s)) = SubSeq(s, 1, Len(s))
    BY <1>1, ConcatAdjacentSubSeq
  <1>6. SubSeq(s, 1, Len(s)) = s
    BY SubSeqFull
  <1> HIDE DEF l
  <1>7. Append(l, PC!NL) = l \o <<PC!NL>>
    BY <1>2, AppendIsConcat DEF Bytes
  <1>8. ~PC!Contains(l, PC!NL)
    BY <1>1, <1>2 DEF PC!Contains
  <1>9. PC!LineOf(s) = l /\ PC!Rest(s) = SubSeq(s, n + 1, Len(s))
    BY DEF PC!LineOf, PC!Rest, l, n
  <1> QED BY <1>1, <1>2, <1>3, <1>4, <1>5, <1>6, <1>7, <1>8, <1>9 DEF n

\* Three pieces in a row.
LEMMA Regroup ==
    ASSUME NEW s \in Seq(Bytes), NEW t \in Seq(Bytes), NEW u \in Seq(Bytes)
    PROVE  (s \o t) \o u = s \o (t \o u) /\ s \o t \in Seq(Bytes)
  BY ConcatAssociative, ConcatProperties

\* Handing out a line moves it from scratch to what was handed out; without one the
\* call goes on.
LEMMA HandsOut ==
    ASSUME taken \in Seq(Bytes), line \in Returned, WholeLine(line, taken, eof),
           NEW s \in Seq(Bytes), PC!HandOut(s), eof' = eof
    PROVE  /\ taken' \in Seq(Bytes) /\ scratch' \in Seq(Bytes) /\ line' \in Returned
           /\ taken' \o scratch' = taken \o s /\ WholeLine(line', taken', eof')
           /\ hpc' \in {"idle", "reading"}
           /\ hpc' = "reading" => ~PC!Contains(scratch', PC!NL)
  <1>1. CASE ~PC!Contains(s, PC!NL)
    <2>1. scratch' = s /\ hpc' = "reading" /\ line' = line /\ taken' = taken
      BY <1>1 DEF PC!HandOut
    <2> QED BY <1>1, <2>1
  <1>2. CASE PC!Contains(s, PC!NL)
    <2> DEFINE l == PC!LineOf(s)
               f == SubSeq(s, 1, PC!FirstNl(s))
               r == PC!Rest(s)
    <2>1. line' = [line |-> l, why |-> "line"] /\ taken' = taken \o f /\ scratch' = r /\ hpc' = "idle"
      BY <1>2 DEF PC!HandOut
    <2>2. l \in Seq(Bytes) /\ ~PC!Contains(l, PC!NL) /\ f \in Seq(Bytes) /\ r \in Seq(Bytes)
          /\ Append(l, PC!NL) = f /\ f \o r = s
      BY <1>2, LineCut
    <2> HIDE DEF l, f, r
    <2>3. taken \o f \in Seq(Bytes) /\ (taken \o f) \o r = taken \o s
      <3>1. f \in Seq(Bytes) /\ r \in Seq(Bytes)
        BY <2>2
      <3>2. taken \o f \in Seq(Bytes) /\ (taken \o f) \o r = taken \o (f \o r)
        BY ONLY <3>1, taken \in Seq(Bytes), Regroup
      <3> QED BY <2>2, <3>2
    <2>4. PC!IsSuffix(f, taken \o f)
      BY <2>2, ConcatSuffix
    <2>5. line' \in Returned /\ line'.line = l
      BY <2>1, <2>2 DEF Returned
    <2>6. WholeLine(line', taken', eof')
      BY <2>1, <2>2, <2>4, <2>5 DEF WholeLine
    <2> QED BY <2>1, <2>2, <2>3, <2>5, <2>6
  <1> QED BY <1>1, <1>2

\* The end of the output hands out what is left.
LEMMA EofHandsOut ==
    ASSUME taken \in Seq(Bytes), scratch \in Seq(Bytes), ~PC!Contains(scratch, PC!NL), PC!AtEof
    PROVE  /\ taken' \in Seq(Bytes) /\ scratch' = <<>> /\ line' \in Returned
           /\ taken' \o scratch' = taken \o scratch /\ WholeLine(line', taken', eof')
           /\ hpc' = "idle"
  <1>1. taken' = taken \o scratch /\ scratch' = <<>> /\ hpc' = "idle" /\ eof' = TRUE
    BY DEF PC!AtEof
  <1>2. taken' \in Seq(Bytes) /\ taken' \o <<>> = taken'
    BY <1>1, ConcatProperties, ConcatEmptySeq
  <1>3. CASE scratch = <<>>
    <2>1. line' = [line |-> <<>>, why |-> "eof"]
      BY <1>3 DEF PC!AtEof, PC!NoLine
    <2>2. line' \in Returned /\ line'.why = "eof"
      BY <2>1 DEF Returned
    <2> QED BY <1>1, <1>2, <2>2 DEF WholeLine
  <1>4. CASE scratch # <<>>
    <2>1. line' = [line |-> scratch, why |-> "line"]
      BY <1>4 DEF PC!AtEof
    <2>2. line' \in Returned /\ line'.line = scratch
      BY <2>1 DEF Returned
    <2>3. PC!IsSuffix(scratch, taken \o scratch)
      BY ConcatSuffix
    <2>4. WholeLine(line', taken', eof')
      BY <1>1, <2>2, <2>3 DEF WholeLine
    <2> QED BY <1>1, <1>2, <2>2, <2>4
  <1> QED BY <1>3, <1>4

\* Four pieces in a row, the middle ones joined.
LEMMA JoinMiddle ==
    ASSUME NEW s \in Seq(Bytes), NEW t \in Seq(Bytes), NEW u \in Seq(Bytes), NEW v \in Seq(Bytes)
    PROVE  s \o t \o u \o v = (s \o (t \o u)) \o v
  BY ConcatAssociative, ConcatProperties

\* An empty piece in the middle.
LEMMA JoinEmpty ==
    ASSUME NEW s \in Seq(Bytes), NEW t \in Seq(Bytes), NEW v \in Seq(Bytes)
    PROVE  s \o t \o <<>> \o v = (s \o t) \o v
  BY ConcatEmptySeq, ConcatProperties

\* The spawn, step by step, or its failure.
LEMMA SpawnStepKeeps == ASSUME ChildInv, PC!SpawnStep PROVE ChildInv'
  <1>0. hpc \in {"new", "piped", "listening"}
    BY DEF PC!SpawnStep, PC!SpawnSteps
  <1>1. /\ UNCHANGED <<child, code, writer, produced, outPipe, scratch, taken, flight, eof, waited, exitCode, by, htimed, line, reads>>
        /\ \/ hpc' \in {"piped", "listening", "launch"} /\ UNCHANGED errKind
           \/ open' = {} /\ hpc' = "idle"
    BY <1>0 DEF PC!SpawnStep, PC!SpawnSteps, PC!AfterStep, PC!outside
  <1>2. ChildType' /\ FlightRight' /\ WholeLine(line', taken', eof')
    BY <1>1 DEF ChildInv, ChildType, FlightRight, SpawnStages
  <1>3. HandlesRight'
    BY <1>0, <1>1 DEF ChildInv, HandlesRight, SpawnStages
  <1> QED BY <1>0, <1>1, <1>2, <1>3 DEF ChildInv

\* The child is created, or everything is closed again.
LEMMA LaunchesKeep == ASSUME ChildInv, PC!Launch PROVE ChildInv'
  <1>1. /\ UNCHANGED <<code, produced, outPipe, scratch, taken, flight, eof, waited, exitCode, by, htimed, line, reads>>
        /\ hpc = "launch" /\ hpc' = "idle"
        /\ (child' = "run" \/ (child' = child /\ open' = {}))
    BY DEF PC!Launch
  <1>2. ChildType' /\ FlightRight' /\ WholeLine(line', taken', eof')
    BY <1>1 DEF ChildInv, ChildType, FlightRight, SpawnStages
  <1>3. HandlesRight'
    BY <1>1 DEF ChildInv, HandlesRight, SpawnStages
  <1> QED BY <1>1, <1>2, <1>3 DEF ChildInv

\* A read in flight breaks, or it does not.
LEMMA FlightBreaks ==
    ASSUME NEW f \in Flights, NEW g, g = f \/ g = PC!Broken(f)
    PROVE  /\ g \in Flights /\ g.data = f.data /\ g.by = f.by
           /\ g.st = f.st \/ (f.st = "flight" /\ g.st = "broken")
  BY DEF Flights, PC!Broken

\* No read, and one just begun.
LEMMA FreshFlight ==
    /\ PC!NoRead \in Flights /\ PC!NoRead.st = "no" /\ PC!NoRead.data = <<>>
    /\ \A t \in Fibers \cup {None} : [st |-> "flight", data |-> <<>>, by |-> t] \in Flights
  <1>1. <<>> \in Seq(Bytes)
    OBVIOUS
  <1> QED BY <1>1 DEF Flights, PC!NoRead

\* One field of the read's record at a time.
LEMMA FlightField ==
    ASSUME NEW f \in Flights
    PROVE  /\ [f EXCEPT !.st = "full"] \in Flights /\ [f EXCEPT !.st = "full"].st = "full"
           /\ \A d \in Seq(Bytes) : [f EXCEPT !.data = d] \in Flights /\ [f EXCEPT !.data = d].data = d
                                    /\ [f EXCEPT !.data = d].st = f.st
  BY DEF Flights

\* A read that completes with a byte.
LEMMA FullFlight ==
    ASSUME NEW f \in Flights, NEW x \in Bytes
    PROVE  /\ [f EXCEPT !.st = "full", !.data = <<x>>] \in Flights
           /\ [f EXCEPT !.st = "full", !.data = <<x>>].st = "full"
           /\ [f EXCEPT !.st = "full", !.data = <<x>>].data = <<x>>
  <1> DEFINE g == [f EXCEPT !.st = "full"]
  <1>0. <<x>> \in Seq(Bytes)
    OBVIOUS
  <1>1. g \in Flights /\ g.st = "full"
    BY FlightField, Zenon
  <1>2. /\ [g EXCEPT !.data = <<x>>] \in Flights /\ [g EXCEPT !.data = <<x>>].st = "full"
        /\ [g EXCEPT !.data = <<x>>].data = <<x>>
    <2> HIDE DEF g
    <2> QED BY <1>0, <1>1, FlightField, Zenon
  <1> QED BY <1>2, Zenon

\* A step that moves no byte and returns no line.
LEMMA BytesStay ==
    ASSUME ChildInv, UNCHANGED <<produced, outPipe, scratch, taken, eof>>,
           child' \in {"none", "run", "dead"}, exitCode' \in {-1, 0, 143}, reads' \in 0 .. MaxReads,
           by' \in Fibers \cup {None}, hpc # "freed",
           hpc' \in SpawnStages \cup {"idle", "reading", "grace", "settle", "freed"}, hpc' = "reading" => hpc = "reading",
           line' = line \/ (line' \in Returned /\ line'.why # "line"),
           flight' = flight \/ flight' = PC!Broken(flight), HandlesRight'
    PROVE  ChildInv'
  <1>1. /\ flight' \in Flights /\ flight'.data = flight.data
        /\ flight'.st = flight.st \/ (flight.st = "flight" /\ flight'.st = "broken")
    BY FlightBreaks DEF ChildInv, ChildType
  <1>2. ChildType'
    BY <1>1 DEF ChildInv, ChildType
  <1>3. FlightRight'
    BY <1>1 DEF ChildInv, FlightRight
  <1>4. WholeLine(line', taken', eof')
    BY DEF ChildInv, WholeLine
  <1> QED BY <1>1, <1>2, <1>3, <1>4 DEF ChildInv

\* A number of calls below the bound.
LEMMA OneMoreCall ==
    ASSUME ChildInv, NEW t \in Fibers, PC!Calling(t)
    PROVE  reads' \in 0 .. MaxReads /\ by' = t /\ hpc = "idle"
  BY ChildAssumption DEF ChildInv, ChildType, PC!Calling

\* Breaking leaves no read in flight, or nothing is broken.
LEMMA EndedBreaks ==
    ASSUME NEW c, PC!Ended(c)
    PROVE  child' = "dead" /\ code' = c /\ (flight' = flight \/ flight' = PC!Broken(flight))
  BY DEF PC!Ended

\* The child exits, and the last holder of the pipe's write end lets it go.
LEMMA OthersEndKeeps == ASSUME ChildInv, PC!ChildExits \/ PC!HeirExits PROVE ChildInv'
  <1>1. CASE PC!ChildExits
    <2>1. /\ UNCHANGED <<outPipe, produced, scratch, taken, eof, exitCode, errKind, open, hpc, by, line, reads>>
          /\ child = "run" /\ hpc # "freed" /\ child' = "dead" /\ code' = 0 /\ (flight' = flight \/ flight' = PC!Broken(flight))
      BY <1>1, EndedBreaks DEF PC!ChildExits, PC!status
    <2>2. HandlesRight'
      BY <2>1 DEF ChildInv, HandlesRight
    <2> QED BY <2>1, <2>2, BytesStay DEF ChildInv, ChildType
  <1>2. CASE PC!HeirExits
    <2>1. /\ UNCHANGED <<child, code, outPipe, produced, scratch, taken, eof, exitCode, errKind, open, hpc, by, line, reads>>
          /\ hpc # "freed" /\ flight' = PC!Broken(flight)
      BY <1>2 DEF PC!HeirExits, PC!status
    <2>2. HandlesRight'
      BY <2>1 DEF ChildInv, HandlesRight
    <2> QED BY <2>1, <2>2, BytesStay DEF ChildInv, ChildType
  <1> QED BY <1>1, <1>2

\* A read's wait runs out: the read stays in flight.
LEMMA TimeOutKeeps == ASSUME ChildInv, PC!TimeOut PROVE ChildInv'
  <1>1. /\ UNCHANGED <<child, code, outPipe, produced, scratch, taken, eof, exitCode, errKind, open, flight, by, reads>>
        /\ hpc = "reading" /\ hpc' = "idle" /\ line' = [line |-> <<>>, why |-> "timeout"]
    BY DEF PC!TimeOut, PC!status, PC!outside, PC!NoLine
  <1>2. line' \in Returned /\ line'.why # "line"
    BY <1>1 DEF Returned
  <1>3. HandlesRight'
    BY <1>1 DEF ChildInv, HandlesRight, SpawnStages
  <1> QED BY <1>1, <1>2, <1>3, BytesStay DEF ChildInv, ChildType

\* Calls that read nothing: stdin is closed, the child waited for or killed.
LEMMA OtherCallsKeep ==
    ASSUME ChildInv, NEW t \in Fibers, PC!CloseStdin(t) \/ PC!Wait(t) \/ PC!Kill(t)
    PROVE  ChildInv'
  <1>1. /\ UNCHANGED <<outPipe, produced, scratch, taken, eof, errKind, hpc, line>>
        /\ reads' \in 0 .. MaxReads /\ by' = t /\ hpc = "idle"
    BY OneMoreCall DEF PC!CloseStdin, PC!Wait, PC!Kill, PC!status, PC!outside
  <1>2. CASE PC!CloseStdin(t)
    <2>1. UNCHANGED <<child, code, flight, exitCode>> /\ open' = open \ {"in_w"}
      BY <1>2 DEF PC!CloseStdin, PC!status, PC!outside
    <2>2. HandlesRight'
      BY <1>1, <2>1 DEF ChildInv, HandlesRight
    <2> QED BY <1>1, <2>1, <2>2, BytesStay DEF ChildInv, ChildType
  <1>3. CASE PC!Wait(t)
    <2>1. UNCHANGED <<child, code, flight, open>> /\ exitCode' = code
      BY <1>3 DEF PC!Wait, PC!outside
    <2>2. HandlesRight' /\ code \in {0, 143}
      BY <1>1, <2>1 DEF ChildInv, HandlesRight
    <2> QED BY <1>1, <2>1, <2>2, BytesStay DEF ChildInv, ChildType
  <1>4. CASE PC!Kill(t)
    <2>1. /\ UNCHANGED <<open, exitCode>> /\ (flight' = flight \/ flight' = PC!Broken(flight))
          /\ (child = "run" /\ child' = "dead" /\ code' = 143) \/ UNCHANGED <<child, code>>
      BY <1>4, EndedBreaks DEF PC!Kill, PC!status
    <2>2. HandlesRight'
      BY <1>1, <2>1 DEF ChildInv, HandlesRight
    <2> QED BY <1>1, <2>1, <2>2, BytesStay DEF ChildInv, ChildType
  <1> QED BY <1>2, <1>3, <1>4

\* nurl_proc_spawn_free, up to the read in flight.
LEMMA FreeKeeps ==
    ASSUME ChildInv, PC!Grace \/ \E t \in Fibers : PC!Free(t)
    PROVE  ChildInv'
  <1>1. UNCHANGED <<outPipe, produced, scratch, taken, eof, errKind, line, exitCode, reads>>
    BY DEF PC!Free, PC!Grace, PC!status, PC!outside
  <1>2. CASE PC!Grace
    <2>1. /\ UNCHANGED <<open, by>> /\ (flight' = flight \/ flight' = PC!Broken(flight))
          /\ (child = "run" /\ child' = "dead") \/ UNCHANGED <<child, code>>
          /\ hpc = "grace" /\ hpc' = "settle"
      BY <1>2, EndedBreaks DEF PC!Grace
    <2>2. HandlesRight'
      BY <1>1, <2>1 DEF ChildInv, HandlesRight, SpawnStages
    <2> QED BY <1>1, <2>1, <2>2, BytesStay DEF ChildInv, ChildType
  <1>3. ASSUME NEW t \in Fibers, PC!Free(t) PROVE ChildInv'
    <2>1. UNCHANGED <<child, code, flight>> /\ open' = open \ {"in_w"} /\ hpc = "idle" /\ hpc' = "grace" /\ by' = t
      BY <1>3 DEF PC!Free, PC!outside
    <2>2. HandlesRight'
      BY <1>1, <2>1 DEF ChildInv, HandlesRight, SpawnStages
    <2> QED BY <1>1, <2>1, <2>2, BytesStay DEF ChildInv, ChildType
  <1> QED BY <1>2, <1>3

\* The read in flight is settled before the block is freed.
LEMMA SettleKeeps == ASSUME ChildInv, PC!Settle PROVE ChildInv'
  <1>1. /\ UNCHANGED <<child, code, outPipe, produced, scratch, taken, eof, exitCode, errKind, by, line, reads>>
        /\ hpc = "settle" /\ hpc' = "freed" /\ open' = {}
        /\ flight' = PC!NoRead \/ (flight' = flight /\ flight.st # "flight")
    BY DEF PC!Settle, PC!Settled, PC!status, PC!outside
  <1>2. flight' \in Flights /\ FlightRight' /\ flight'.st # "flight"
    BY <1>1, FreshFlight DEF ChildInv, ChildType, FlightRight
  <1>3. ChildType'
    BY <1>1, <1>2 DEF ChildInv, ChildType
  <1>4. HandlesRight'
    BY <1>1, <1>2 DEF ChildInv, HandlesRight, SpawnStages
  <1> QED BY <1>1, <1>2, <1>3, <1>4 DEF ChildInv

\* A byte written goes to the read in flight, or to the end of the pipe.
LEMMA ProducesKeeps == ASSUME ChildInv, NEW x \in Bytes, PC!ChildWrites(x) PROVE ChildInv'
  <1>0. /\ produced \in Seq(Bytes) /\ outPipe \in Seq(Bytes) /\ taken \in Seq(Bytes) /\ scratch \in Seq(Bytes)
        /\ flight \in Flights /\ flight.data \in Seq(Bytes) /\ Len(outPipe) <= PipeRoom /\ Len(produced) <= MaxOut
    BY DEF ChildInv, ChildType, Flights
  <1>1. /\ UNCHANGED <<child, code, scratch, taken, eof, exitCode, errKind, open, hpc, by, line, reads>>
        /\ child = "run" /\ Len(produced) < MaxOut /\ Len(outPipe) < PipeRoom /\ hpc # "freed"
        /\ produced' = Append(produced, x)
    BY DEF PC!ChildWrites, PC!status
  <1>2. produced' \in Seq(Bytes) /\ Len(produced') <= MaxOut /\ produced' = produced \o <<x>>
    BY <1>0, <1>1, ChildAssumption, AppendProperties, AppendIsConcat
  <1>3. taken \o scratch \o flight.data \o outPipe = produced
    BY <1>1 DEF ChildInv
  <1>4. CASE flight.st = "flight"
    <2>1. flight' = [flight EXCEPT !.st = "full", !.data = <<x>>] /\ outPipe' = outPipe
      BY <1>4 DEF PC!ChildWrites
    <2>2. flight' \in Flights /\ flight'.st = "full" /\ flight'.data = <<x>>
      BY <1>0, <2>1, FullFlight
    <2>3. flight.data = <<>> /\ outPipe = <<>>
      BY <1>4 DEF ChildInv, FlightRight
    <2>4. taken \o scratch \o <<x>> \o <<>> = produced'
      <3>1. taken \o scratch \in Seq(Bytes) /\ <<x>> \in Seq(Bytes)
        BY <1>0, Regroup
      <3>2. taken \o scratch = produced
        BY <1>3, <2>3, <3>1, ConcatEmptySeq
      <3>3. produced \o <<x>> \o <<>> = produced \o <<x>>
        BY <1>2, ConcatEmptySeq
      <3> QED BY <1>2, <3>2, <3>3
    <2>5. ChildType'
      BY <1>0, <1>1, <1>2, <2>1, <2>2 DEF ChildInv, ChildType
    <2>6. FlightRight' /\ HandlesRight'
      BY <1>1, <2>2 DEF ChildInv, FlightRight, HandlesRight
    <2> QED BY <1>1, <2>1, <2>2, <2>3, <2>4, <2>5, <2>6 DEF ChildInv
  <1>5. CASE flight.st # "flight"
    <2>1. outPipe' = Append(outPipe, x) /\ flight' = flight
      BY <1>5 DEF PC!ChildWrites
    <2>2. outPipe' \in Seq(Bytes) /\ Len(outPipe') <= PipeRoom /\ outPipe' = outPipe \o <<x>>
      BY <1>0, <1>1, <2>1, ChildAssumption, AppendProperties, AppendIsConcat
    <2>3. taken \o scratch \o flight.data \o outPipe' = produced'
      <3>1. taken \o scratch \in Seq(Bytes) /\ <<x>> \in Seq(Bytes)
        BY <1>0, Regroup
      <3>2. taken \o scratch \o flight.data \in Seq(Bytes)
        BY <1>0, <3>1, Regroup
      <3>3. ASSUME NEW u \in Seq(Bytes), NEW v \in Seq(Bytes), NEW w \in Seq(Bytes) PROVE (u \o v) \o w = u \o (v \o w)
        BY Regroup
      <3>4. (taken \o scratch \o flight.data \o outPipe) \o <<x>> = taken \o scratch \o flight.data \o (outPipe \o <<x>>)
        BY <1>0, <3>1, <3>2, <3>3, Zenon
      <3> QED BY <1>2, <1>3, <2>2, <3>4
    <2>4. ChildType'
      BY <1>0, <1>1, <1>2, <2>1, <2>2 DEF ChildInv, ChildType
    <2>5. FlightRight' /\ HandlesRight'
      BY <1>1, <1>5, <2>1 DEF ChildInv, FlightRight, HandlesRight
    <2> QED BY <1>1, <2>1, <2>2, <2>3, <2>4, <2>5 DEF ChildInv
  <1> QED BY <1>4, <1>5

\* A read that took s of the output into scratch, of which a line may be handed out.
LEMMA ScratchKeeps ==
    ASSUME ChildInv, hpc = "reading" \/ (hpc = "idle" /\ hpc' = "idle"), NEW s \in Seq(Bytes), PC!HandOut(s), eof' = eof,
           UNCHANGED <<child, code, produced, exitCode, errKind, open>>,
           reads' \in 0 .. MaxReads, by' \in Fibers \cup {None},
           flight' \in Flights, FlightRight', outPipe' \in Seq(Bytes), Len(outPipe') <= PipeRoom,
           taken \o s \o flight'.data \o outPipe' = produced
    PROVE  ChildInv'
  <1>1. /\ taken' \in Seq(Bytes) /\ scratch' \in Seq(Bytes) /\ line' \in Returned
        /\ taken' \o scratch' = taken \o s /\ WholeLine(line', taken', eof')
        /\ hpc' \in {"idle", "reading"}
        /\ hpc' = "reading" => ~PC!Contains(scratch', PC!NL)
    BY HandsOut DEF ChildInv, ChildType
  <1>2. ChildType'
    BY <1>1 DEF ChildInv, ChildType
  <1>3. HandlesRight'
    BY <1>1 DEF ChildInv, HandlesRight, SpawnStages
  <1>4. taken' \o scratch' \o flight'.data \o outPipe' = produced'
    BY <1>1
  <1> QED BY <1>1, <1>2, <1>3, <1>4 DEF ChildInv

\* The end of the output is met.
LEMMA EofKeeps ==
    ASSUME ChildInv, hpc = "reading", PC!AtEof, flight.data = <<>>,
           UNCHANGED <<child, code, produced, outPipe, exitCode, errKind, reads, by>>,
           flight' \in Flights, flight'.data = <<>>, flight'.st # "flight"
    PROVE  ChildInv'
  <1>0. taken \in Seq(Bytes) /\ scratch \in Seq(Bytes) /\ ~PC!Contains(scratch, PC!NL) /\ outPipe \in Seq(Bytes)
    BY DEF ChildInv, ChildType
  <1>1. /\ taken' \in Seq(Bytes) /\ scratch' = <<>> /\ line' \in Returned
        /\ taken' \o scratch' = taken \o scratch /\ WholeLine(line', taken', eof') /\ hpc' = "idle"
    BY <1>0, EofHandsOut
  <1>2. ChildType'
    BY <1>1 DEF ChildInv, ChildType
  <1>3. FlightRight'
    BY DEF ChildInv, FlightRight
  <1>4. HandlesRight'
    BY <1>1 DEF ChildInv, HandlesRight, SpawnStages
  <1>5. taken' \o scratch' \o flight'.data \o outPipe' = produced'
    BY <1>1 DEF ChildInv
  <1> QED BY <1>1, <1>2, <1>3, <1>4, <1>5 DEF ChildInv

\* A line is asked for: scratch has one, or a read is needed, or the output has ended.
LEMMA ReadLineKeeps == ASSUME ChildInv, NEW t \in Fibers, PC!ReadLine(t) PROVE ChildInv'
  <1>0. ChildType /\ FlightRight
    BY DEF ChildInv
  <1>1. /\ UNCHANGED <<child, code, produced, outPipe, flight, exitCode, errKind, open>>
        /\ reads' \in 0 .. MaxReads /\ by' = t /\ hpc = "idle"
    BY OneMoreCall DEF PC!ReadLine, PC!status, PC!outside
  <1>2. taken \o scratch \o flight.data \o outPipe = produced
    BY <1>1 DEF ChildInv
  <1>3. CASE PC!Contains(scratch, PC!NL) /\ PC!HandOut(scratch) /\ eof' = eof
    <2>1. hpc' = "idle"
      BY <1>3 DEF PC!HandOut
    <2>2. scratch \in Seq(Bytes) /\ flight' \in Flights /\ FlightRight' /\ outPipe' \in Seq(Bytes) /\ Len(outPipe') <= PipeRoom
      BY <1>0, <1>1 DEF ChildType, FlightRight
    <2>3. taken \o scratch \o flight'.data \o outPipe' = produced
      BY <1>1, <1>2
    <2> QED BY <1>1, <1>3, <2>1, <2>2, <2>3, ScratchKeeps
  <1>4. CASE eof' = TRUE /\ line' = PC!NoLine("eof") /\ UNCHANGED <<hpc, taken, scratch>>
    <2>1. line' \in Returned /\ line'.why # "line"
      <3>1. <<>> \in Seq(Bytes)
        OBVIOUS
      <3> QED BY <1>4, <3>1 DEF Returned, PC!NoLine
    <2>2. ChildType' /\ FlightRight' /\ HandlesRight'
      BY <1>0, <1>1, <1>4, <2>1 DEF ChildInv, ChildType, FlightRight, HandlesRight
    <2> QED BY <1>1, <1>2, <1>4, <2>1, <2>2 DEF ChildInv, WholeLine
  <1>5. CASE ~PC!Contains(scratch, PC!NL) /\ hpc' = "reading" /\ "out_r" \in open /\ UNCHANGED <<eof, line, taken, scratch>>
    <2>1. ChildType' /\ FlightRight'
      BY <1>0, <1>1, <1>5 DEF ChildType, FlightRight
    <2>2. HandlesRight'
      BY <1>1, <1>5 DEF ChildInv, HandlesRight, SpawnStages
    <2> QED BY <1>1, <1>2, <1>5, <2>1, <2>2 DEF ChildInv, WholeLine
  <1> QED BY <1>3, <1>4, <1>5 DEF PC!ReadLine

\* The read completes: with bytes, or with the end of the output.
LEMMA CompletedKeeps == ASSUME ChildInv, PC!Completed PROVE ChildInv'
  <1>0. ChildType /\ flight.data \in Seq(Bytes) /\ scratch \in Seq(Bytes) /\ taken \in Seq(Bytes) /\ outPipe \in Seq(Bytes)
    BY DEF ChildInv, ChildType, Flights
  <1>1. /\ UNCHANGED <<child, code, produced, outPipe, exitCode, errKind, reads, by>>
        /\ hpc = "reading" /\ flight' = PC!NoRead
    BY DEF PC!Completed, PC!status, PC!outside
  <1>2. flight' \in Flights /\ flight'.data = <<>> /\ flight'.st = "no"
    BY <1>1, FreshFlight
  <1>3. taken \o scratch \o flight.data \o outPipe = produced
    BY <1>1 DEF ChildInv
  <1>4. CASE flight.st = "broken" /\ PC!AtEof
    BY <1>1, <1>2, <1>4, EofKeeps DEF ChildInv, FlightRight
  <1>5. CASE PC!HandOut(scratch \o flight.data) /\ UNCHANGED <<eof, open>>
    <2>1. scratch \o flight.data \in Seq(Bytes) /\ taken \o (scratch \o flight.data) \in Seq(Bytes)
      BY <1>0, Regroup
    <2>2. taken \o (scratch \o flight.data) \o <<>> \o outPipe = produced
      <3>1. taken \o (scratch \o flight.data) \o <<>> = taken \o (scratch \o flight.data)
        BY <2>1, ConcatEmptySeq
      <3>2. taken \o scratch \o flight.data = taken \o (scratch \o flight.data)
        BY <1>0, Regroup
      <3> QED BY <1>3, <3>1, <3>2
    <2>3. FlightRight'
      BY <1>2 DEF FlightRight
    <2>4. outPipe' \in Seq(Bytes) /\ Len(outPipe') <= PipeRoom /\ by' \in Fibers \cup {None} /\ reads' \in 0 .. MaxReads
      BY <1>0, <1>1 DEF ChildType
    <2>5. taken \o (scratch \o flight.data) \o flight'.data \o outPipe' = produced
      BY <1>1, <1>2, <2>2
    <2> QED BY <1>1, <1>2, <1>5, <2>1, <2>3, <2>4, <2>5, ScratchKeeps
  <1> QED BY <1>4, <1>5 DEF PC!Completed

\* A read is begun: it takes what is there, or stays in flight, or meets the end, or fails.
LEMMA IssueKeeps == ASSUME ChildInv, PC!Issue PROVE ChildInv'
  <1>0. ChildType /\ FlightRight /\ scratch \in Seq(Bytes) /\ taken \in Seq(Bytes) /\ outPipe \in Seq(Bytes)
    BY DEF ChildInv, ChildType
  <1>1. UNCHANGED <<child, code, produced, exitCode, reads, by>> /\ hpc = "reading" /\ flight.st = "no"
    BY DEF PC!Issue, PC!outside
  <1>2. flight.data = <<>> /\ taken \o scratch \o <<>> \o outPipe = produced
    BY <1>0, <1>1 DEF ChildInv, FlightRight
  <1>3. ASSUME NEW k \in 1 .. Len(outPipe), PC!HandOut(scratch \o SubSeq(outPipe, 1, k)),
               outPipe' = SubSeq(outPipe, k + 1, Len(outPipe)), UNCHANGED <<flight, eof, open, errKind>>
        PROVE  ChildInv'
    <2> DEFINE d == SubSeq(outPipe, 1, k)
               e == SubSeq(outPipe, k + 1, Len(outPipe))
    <2>1. d \in Seq(Bytes) /\ e \in Seq(Bytes) /\ Len(e) <= Len(outPipe)
      BY <1>0
    <2>2. d \o e = outPipe
      <3>1. d \o e = SubSeq(outPipe, 1, Len(outPipe))
        BY <1>0, ConcatAdjacentSubSeq
      <3> QED BY <1>0, <3>1, SubSeqFull
    <2>3. outPipe' = e /\ PC!HandOut(scratch \o d)
      BY <1>3
    <2> HIDE DEF d, e
    <2>4. scratch \o d \in Seq(Bytes) /\ taken \o (scratch \o d) \in Seq(Bytes) /\ taken \o scratch \in Seq(Bytes)
      BY <1>0, <2>1, Regroup
    <2>5. taken \o (scratch \o d) \o <<>> \o e = produced
      <3>1. taken \o (scratch \o d) \o <<>> = taken \o (scratch \o d) /\ taken \o scratch \o <<>> = taken \o scratch
        BY <2>4, ConcatEmptySeq
      <3>2. ASSUME NEW u \in Seq(Bytes), NEW v \in Seq(Bytes), NEW w \in Seq(Bytes) PROVE (u \o v) \o w = u \o (v \o w)
        BY Regroup
      <3>3. taken \o (scratch \o d) = (taken \o scratch) \o d
        BY <1>0, <2>1, <3>2, Zenon
      <3>4. ((taken \o scratch) \o d) \o e = (taken \o scratch) \o (d \o e)
        BY <2>1, <2>4, <3>2, Zenon
      <3> QED BY <1>2, <2>2, <3>1, <3>3, <3>4
    <2>6. FlightRight' /\ flight' \in Flights
      BY <1>0, <1>1, <1>2, <1>3 DEF FlightRight, ChildType
    <2>7. outPipe' \in Seq(Bytes) /\ Len(outPipe') <= PipeRoom /\ by' \in Fibers \cup {None} /\ reads' \in 0 .. MaxReads
      <3>1. Len(e) \in Nat /\ Len(outPipe) \in Nat /\ Len(outPipe) <= PipeRoom
        BY <1>0, <2>1 DEF ChildType
      <3> QED BY <1>0, <1>1, <2>1, <2>3, <3>1, ChildAssumption DEF ChildType
    <2>8. taken \o (scratch \o d) \o flight'.data \o outPipe' = produced
      BY <1>2, <1>3, <2>3, <2>5
    <2> QED BY <1>1, <1>3, <2>3, <2>4, <2>6, <2>7, <2>8, ScratchKeeps
  <1>4. CASE outPipe = <<>> /\ flight' = [st |-> "flight", data |-> <<>>, by |-> by]
             /\ UNCHANGED <<outPipe, scratch, taken, eof, open, hpc, line, errKind>>
    <2>1. flight' \in Flights /\ flight'.data = <<>> /\ flight'.st = "flight"
      BY <1>0, <1>4, FreshFlight DEF ChildType
    <2>2. ChildType' /\ FlightRight' /\ HandlesRight'
      BY <1>0, <1>1, <1>4, <2>1 DEF ChildInv, ChildType, FlightRight, HandlesRight
    <2> QED BY <1>1, <1>2, <1>4, <2>1, <2>2 DEF ChildInv
  <1>5. CASE PC!AtEof /\ UNCHANGED <<outPipe, flight, errKind>>
    BY <1>0, <1>1, <1>2, <1>5, EofKeeps DEF ChildType
  <1>6. CASE line' = PC!NoLine("error") /\ hpc' = "idle" /\ UNCHANGED <<outPipe, flight, scratch, taken, eof, open>>
    <2>1. line' \in Returned /\ line'.why # "line"
      <3>1. <<>> \in Seq(Bytes)
        OBVIOUS
      <3> QED BY <1>6, <3>1 DEF Returned, PC!NoLine
    <2>2. HandlesRight'
      BY <1>1, <1>6 DEF ChildInv, HandlesRight, SpawnStages
    <2> QED BY <1>0, <1>1, <1>6, <2>1, <2>2, BytesStay DEF ChildType
  <1> QED BY <1>3, <1>4, <1>5, <1>6 DEF PC!Issue

\* Before the spawn.
LEMMA ChildBegins == PC!Init => ChildInv
  <1> SUFFICES ASSUME PC!Init PROVE ChildInv
    OBVIOUS
  <1>1. <<>> \in Seq(Bytes) /\ Len(<<>>) = 0
    OBVIOUS
  <1>2. line \in Returned /\ line.why # "line"
    BY <1>1 DEF PC!Init, PC!NoLine, Returned
  <1>3. flight \in Flights /\ flight.st = "no" /\ flight.data = <<>>
    BY FreshFlight DEF PC!Init
  <1>7. /\ child = "none" /\ produced = <<>> /\ outPipe = <<>> /\ scratch = <<>> /\ taken = <<>>
        /\ hpc = "new" /\ by = None /\ reads = 0 /\ exitCode = -1
    BY DEF PC!Init
  <1>8. Len(outPipe) <= PipeRoom /\ Len(produced) <= MaxOut /\ reads \in 0 .. MaxReads
    BY <1>1, <1>7, ChildAssumption
  <1>4. ChildType /\ FlightRight
    BY <1>1, <1>2, <1>3, <1>7, <1>8 DEF ChildType, FlightRight, SpawnStages
  <1>5. <<>> \o <<>> \o <<>> \o <<>> = <<>>
    BY ConcatEmptySeq
  <1>6. taken \o scratch \o flight.data \o outPipe = produced
    BY <1>3, <1>5 DEF PC!Init
  <1> QED BY <1>2, <1>3, <1>4, <1>6 DEF ChildInv, PC!Init, HandlesRight, WholeLine, SpawnStages

\* Every step of the child, its pipe and its callers.
LEMMA ChildStep == ASSUME ChildInv, PC!Next PROVE ChildInv'
  <1>1. \A x \in {"a", PC!NL} : x \in Bytes
    BY DEF Bytes
  <1> QED BY <1>1, SpawnStepKeeps, LaunchesKeep, OthersEndKeeps, IssueKeeps, TimeOutKeeps, CompletedKeeps, FreeKeeps,
             SettleKeeps, ProducesKeeps, ReadLineKeeps, OtherCallsKeep DEF PC!Next, PC!Shutdown

\* Every byte arrives once and in order, lines are whole, and nothing is freed in use.
LEMMA ChildSound == ChildInv => PC!TypeOK /\ PC!BytesKept /\ PC!LineWhole /\ PC!FreedClean
  <1> SUFFICES ASSUME ChildInv PROVE PC!TypeOK /\ PC!BytesKept /\ PC!LineWhole /\ PC!FreedClean
    OBVIOUS
  <1>1. PC!TypeOK
    BY DEF ChildInv, ChildType, Flights, PC!TypeOK
  <1>2. PC!BytesKept
    BY DEF ChildInv, PC!BytesKept
  <1>3. PC!LineWhole
    BY DEF ChildInv, WholeLine, PC!LineWhole
  <1>4. PC!FreedClean
    BY DEF ChildInv, HandlesRight, PC!FreedClean
  <1> QED BY <1>1, <1>2, <1>3, <1>4

\* Nothing the child's invariant speaks of changed.
LEMMA ChildStands ==
    ASSUME ChildInv, UNCHANGED childVars
    PROVE  ChildInv'
  <1>1. ChildType' /\ FlightRight' /\ HandlesRight'
    BY DEF ChildInv, childVars, ChildType, FlightRight, HandlesRight
  <1>2. WholeLine(line', taken', eof') /\ (hpc' = "reading" => ~PC!Contains(scratch', PC!NL))
    BY DEF ChildInv, childVars
  <1>3. hpc' # "freed" => taken' \o scratch' \o flight'.data \o outPipe' = produced'
    BY DEF ChildInv, childVars
  <1> QED BY <1>1, <1>2, <1>3 DEF ChildInv
-----------------------------------------------------------------------------
(* The components together.                                                *)

\* In a behaviour of the resolver no other component moves.
LEMMA OnlyLookupsMove ==
    ASSUME part = "resolver", [SuiteNext]_Suitevars
    PROVE  part' = part /\ (RS!Next \/ UNCHANGED resolverVars)
  BY DEF SuiteNext, Suitevars, Rest

\* In a behaviour of the listener no other component moves.
LEMMA OnlyListenerMoves ==
    ASSUME part = "listener", [SuiteNext]_Suitevars
    PROVE  part' = part /\ (LS!Next \/ UNCHANGED listenerVars)
  BY DEF SuiteNext, Suitevars, Rest

\* The component is chosen once.
LEMMA PartKept ==
    ASSUME [SuiteNext]_Suitevars
    PROVE  part' = part
  BY DEF SuiteNext, Suitevars, Rest

\* Nothing the resolver's invariant speaks of changed.
LEMMA LookupsStand ==
    ASSUME LookupInv, UNCHANGED resolverVars
    PROVE  LookupInv'
  BY DEF LookupInv, resolverVars, LookupType, LookupOnce, LooksUp, InPool

\* Nothing the listener's invariant speaks of changed.
LEMMA ListenStands ==
    ASSUME ListenInv, UNCHANGED listenerVars
    PROVE  ListenInv'
  BY DEF ListenInv, listenerVars, ListenType, FdRight, CountsRight, Accepting, Serving, Closed

\* Of the resolver (nurl__dns_offload, nurl__dns_thread): every lookup's job belongs to
\* its caller, to the pool's queue or to one pool thread until the last of them frees it,
\* whatever times out or forks meanwhile.
THEOREM LookupsHold == SuiteSpec => [](part = "resolver" => LookupInv)
  <1>1. SuiteInit => (part = "resolver" => LookupInv)
    BY LookupsBegin DEF SuiteInit
  <1>2. (part = "resolver" => LookupInv) /\ [SuiteNext]_Suitevars => (part = "resolver" => LookupInv)'
    BY PartKept, OnlyLookupsMove, LookupsStep, LookupsStand
  <1> QED BY <1>1, <1>2, PTL DEF SuiteSpec

\* Of the listener (nurl__tcp_listener_stop, nurl_tcp_accept): the accepts in progress are
\* counted exactly, the descriptor is the listener's while one of them may use it, and
\* the struct is freed with its last reference.
THEOREM ListenHolds == SuiteSpec => [](part = "listener" => ListenInv)
  <1>1. SuiteInit => (part = "listener" => ListenInv)
    BY ListenBegins DEF SuiteInit
  <1>2. (part = "listener" => ListenInv) /\ [SuiteNext]_Suitevars => (part = "listener" => ListenInv)'
    BY PartKept, OnlyListenerMoves, ListenStep, ListenStands
  <1> QED BY <1>1, <1>2, PTL DEF SuiteSpec

\* Shared state is used by those who still own it, for any number of connects, pool
\* threads, accepts and stops: a lookup's job is neither used after the last of waiter
\* and pool thread freed it nor forgotten (nurl__dns_offload), and no accept uses a
\* descriptor that is not the listener's or a freed listener (nurl__tcp_listener_stop).
THEOREM UsesWhatIsOwnHolds == SuiteSpec => []UsesWhatIsOwn
  <1>1. (part = "resolver" => LookupInv) /\ (part = "listener" => ListenInv) => UsesWhatIsOwn
    BY LookupsSound, ListenSound DEF UsesWhatIsOwn
  <1> QED BY <1>1, LookupsHold, ListenHolds, PTL

\* In a behaviour of a run of children no other component moves.
LEMMA OnlyRunsMove ==
    ASSUME part = "run", [SuiteNext]_Suitevars
    PROVE  part' = part /\ (RN!Next \/ UNCHANGED runVars)
  BY DEF SuiteNext, Suitevars, Rest

\* In a behaviour of a live child no other component moves.
LEMMA OnlyChildMoves ==
    ASSUME part = "child", [SuiteNext]_Suitevars
    PROVE  part' = part /\ (PC!Next \/ UNCHANGED childVars)
  BY DEF SuiteNext, Suitevars, Rest

\* Of runs to the end (nurl__proc_run_mode): what the readers have collected and what is
\* in the pipe is what the child wrote, a reader that has met the end of the pipe has met
\* the child's, whoever else inherited its handles, and a stream whose reader thread could
\* not be started has nothing collected.
THEOREM RunsHold == SuiteSpec => [](part = "run" => RunInv)
  <1>1. SuiteInit => (part = "run" => RunInv)
    BY RunsBegin DEF SuiteInit
  <1>2. (part = "run" => RunInv) /\ [SuiteNext]_Suitevars => (part = "run" => RunInv)'
    BY PartKept, OnlyRunsMove, RunsStep, RunsStand
  <1> QED BY <1>1, <1>2, PTL DEF SuiteSpec

\* Of a live child (nurl_proc_spawn_read_line): what was handed out, what is kept, what
\* the read in flight holds and what is in the pipe make up the output, whatever calls
\* time out and whichever thread makes the next one.
THEOREM ChildHolds == SuiteSpec => [](part = "child" => ChildInv)
  <1>1. SuiteInit => (part = "child" => ChildInv)
    BY ChildBegins DEF SuiteInit
  <1>2. (part = "child" => ChildInv) /\ [SuiteNext]_Suitevars => (part = "child" => ChildInv)'
    BY PartKept, OnlyChildMoves, ChildStep, ChildStands
  <1> QED BY <1>1, <1>2, PTL DEF SuiteSpec

\* A child's output arrives whole, for pipes of any size, any number of runs and calls and
\* any output: every byte once and in order however reads are cut by timeouts, lines
\* whole, the read's buffer kept while the kernel writes to it (nurl_proc_spawn_read_line,
\* nurl_proc_spawn_free), each stream of a run drained to its end, or not at all when its
\* reader thread could not be started (nurl__proc_run_mode).
THEOREM OutputArrivesHolds == SuiteSpec => []OutputArrives
  <1>1. (part = "child" => ChildInv) /\ (part = "run" => RunInv) => OutputArrives
    BY ChildSound, RunsSound DEF OutputArrives
  <1> QED BY <1>1, ChildHolds, RunsHold, PTL

=============================================================================
