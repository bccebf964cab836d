--------------------------- MODULE RunQueuesProofs ---------------------------
(***************************************************************************)
(* Proofs about RunQueues, for every set of fibers, workers and threads,   *)
(* and every batch and share size.                                         *)
(***************************************************************************)
EXTENDS RunQueues, FiniteSetTheorems, NaturalsInduction, SequenceTheorems, WellFoundedInduction, TLAPS

(* Queues: sequences without repetition.                                   *)

\* Membership in a queue, by position.
LEMMA InToSet ==
    ASSUME NEW S, NEW s \in Seq(S), NEW x
    PROVE  x \in ToSet(s) <=> \E i \in 1 .. Len(s) : s[i] = x
  BY DEF ToSet

\* The empty queue; the elements of a queue.
LEMMA EmptyQueue ==
    /\ ToSet(<<>>) = {} /\ IsInjective(<<>>)
    /\ \A S : <<>> \in Seq(S)
    /\ \A S : \A s \in Seq(S) : ToSet(s) \subseteq S /\ (ToSet(s) = {} <=> s = <<>>)
  <1>1. ToSet(<<>>) = {} /\ IsInjective(<<>>) /\ \A S : <<>> \in Seq(S)
    BY DEF ToSet, IsInjective
  <1>2. ASSUME NEW S, NEW s \in Seq(S) PROVE ToSet(s) \subseteq S /\ (ToSet(s) = {} <=> s = <<>>)
    BY DEF ToSet
  <1> QED BY <1>1, <1>2

\* A queue of one fiber.
LEMMA OneQueue ==
    ASSUME NEW S, NEW x \in S
    PROVE  <<x>> \in Seq(S) /\ ToSet(<<x>>) = {x} /\ IsInjective(<<x>>)
  <1>1. <<x>> \in Seq(S) /\ DOMAIN <<x>> = {1} /\ <<x>>[1] = x
    OBVIOUS
  <1> QED BY <1>1 DEF ToSet, IsInjective

\* Two queues without a common fiber, spliced.
LEMMA JoinQueues ==
    ASSUME NEW S, NEW s \in Seq(S), NEW t \in Seq(S), IsInjective(s), IsInjective(t),
           ToSet(s) \cap ToSet(t) = {}
    PROVE  s \o t \in Seq(S) /\ IsInjective(s \o t) /\ ToSet(s \o t) = ToSet(s) \cup ToSet(t)
  <1> DEFINE u == s \o t
  <1>1. /\ u \in Seq(S)
        /\ Len(u) = Len(s) + Len(t)
        /\ \A i \in 1 .. Len(u) : u[i] = IF i <= Len(s) THEN s[i] ELSE t[i - Len(s)]
    BY ConcatProperties
  <1>2. ToSet(u) = ToSet(s) \cup ToSet(t)
    <2>1. Range(u) = Range(s) \cup Range(t)
      BY RangeConcatenation
    <2>2. \A r : Range(r) = ToSet(r)
      BY DEF Range, ToSet
    <2> QED BY <2>1, <2>2
  <1> HIDE DEF u
  <1>3. Len(s) \in Nat /\ Len(t) \in Nat /\ DOMAIN s = 1 .. Len(s) /\ DOMAIN t = 1 .. Len(t) /\ DOMAIN u = 1 .. Len(u)
    BY <1>1
  <1>4. ASSUME NEW i \in 1 .. Len(u), NEW j \in 1 .. Len(u), u[i] = u[j], i <= j PROVE i = j
    <2>1. CASE j <= Len(s)
      <3>1. i \in DOMAIN s /\ j \in DOMAIN s /\ s[i] = s[j]
        BY <1>1, <1>3, <1>4, <2>1
      <3> QED BY <3>1 DEF IsInjective
    <2>2. CASE i > Len(s)
      <3>1. i - Len(s) \in DOMAIN t /\ j - Len(s) \in DOMAIN t /\ t[i - Len(s)] = t[j - Len(s)]
        BY <1>1, <1>3, <1>4, <2>2
      <3>2. i - Len(s) = j - Len(s)
        BY <3>1 DEF IsInjective
      <3> QED BY <3>2, <1>3
    <2>3. CASE i <= Len(s) /\ j > Len(s)
      <3>1. i \in DOMAIN s /\ j - Len(s) \in DOMAIN t /\ s[i] = t[j - Len(s)]
        BY <1>1, <1>3, <1>4, <2>3
      <3> QED BY <3>1 DEF ToSet
    <2> QED BY <2>1, <2>2, <2>3, <1>3
  <1>5. IsInjective(u)
    <2> SUFFICES ASSUME NEW i \in 1 .. Len(u), NEW j \in 1 .. Len(u), u[i] = u[j] PROVE i = j
      BY <1>3 DEF IsInjective
    <2> QED BY <1>3, <1>4
  <1> QED BY <1>1, <1>2, <1>5 DEF u

\* A part of a queue: what a batch or a steal takes and what it leaves.
LEMMA PartQueue ==
    ASSUME NEW S, NEW s \in Seq(S), IsInjective(s), NEW m \in Nat \ {0}, NEW n \in 0 .. Len(s)
    PROVE  /\ SubSeq(s, m, n) \in Seq(S)
           /\ IsInjective(SubSeq(s, m, n))
           /\ ToSet(SubSeq(s, m, n)) = {s[i] : i \in m .. n}
           /\ Len(SubSeq(s, m, n)) = IF m <= n THEN n - m + 1 ELSE 0
           /\ \A i \in 1 .. n - m + 1 : SubSeq(s, m, n)[i] = s[m + i - 1]
  <1> DEFINE u == SubSeq(s, m, n)
  <1>0. Len(s) \in Nat /\ DOMAIN s = 1 .. Len(s) /\ m .. n \subseteq 1 .. Len(s)
    OBVIOUS
  <1>1. /\ u \in Seq(S)
        /\ Len(u) = IF m <= n THEN n - m + 1 ELSE 0
        /\ \A i \in 1 .. n - m + 1 : u[i] = s[m + i - 1]
    <2>1. \A i \in m .. n : s[i] \in S
      BY <1>0
    <2> QED BY <2>1, SubSeqProperties
  <1> HIDE DEF u
  <1>2. DOMAIN u = 1 .. Len(u) /\ \A i \in 1 .. Len(u) : i \in 1 .. n - m + 1
    BY <1>1
  <1>3. IsInjective(u)
    <2> SUFFICES ASSUME NEW i \in 1 .. Len(u), NEW j \in 1 .. Len(u), u[i] = u[j] PROVE i = j
      BY <1>2 DEF IsInjective
    <2>1. m + i - 1 \in DOMAIN s /\ m + j - 1 \in DOMAIN s /\ s[m + i - 1] = s[m + j - 1]
      BY <1>0, <1>1, <1>2
    <2>2. m + i - 1 = m + j - 1
      BY <2>1 DEF IsInjective
    <2> QED BY <2>2
  <1>4. \A x : x \in ToSet(u) <=> \E i \in m .. n : s[i] = x
    <2> SUFFICES ASSUME NEW x PROVE x \in ToSet(u) <=> \E i \in m .. n : s[i] = x
      OBVIOUS
    <2>1. ASSUME x \in ToSet(u) PROVE \E i \in m .. n : s[i] = x
      <3>1. PICK i \in 1 .. Len(u) : u[i] = x
        BY <2>1, <1>2 DEF ToSet
      <3>2. m + i - 1 \in m .. n /\ s[m + i - 1] = x
        BY <3>1, <1>1, <1>2
      <3> QED BY <3>2
    <2>2. ASSUME NEW i \in m .. n, s[i] = x PROVE x \in ToSet(u)
      <3>1. i - m + 1 \in 1 .. Len(u) /\ i - m + 1 \in 1 .. n - m + 1 /\ m + (i - m + 1) - 1 = i
        BY <1>1
      <3>2. u[i - m + 1] = x
        BY <3>1, <1>1, <2>2
      <3> QED BY <3>1, <3>2, <1>2 DEF ToSet
    <2> QED BY <2>1, <2>2
  <1>5. ToSet(u) = {s[i] : i \in m .. n}
    BY <1>4
  <1> QED BY <1>1, <1>3, <1>5 DEF u

\* A queue cut after its first k fibers.
LEMMA CutQueue ==
    ASSUME NEW S, NEW s \in Seq(S), IsInjective(s), NEW k \in 0 .. Len(s)
    PROVE  /\ ToSet(SubSeq(s, 1, k)) \cap ToSet(SubSeq(s, k + 1, Len(s))) = {}
           /\ ToSet(SubSeq(s, 1, k)) \cup ToSet(SubSeq(s, k + 1, Len(s))) = ToSet(s)
  <1>0. Len(s) \in Nat /\ DOMAIN s = 1 .. Len(s)
    OBVIOUS
  <1>1. ToSet(SubSeq(s, 1, k)) = {s[i] : i \in 1 .. k}
    BY <1>0, PartQueue
  <1>2. ToSet(SubSeq(s, k + 1, Len(s))) = {s[i] : i \in k + 1 .. Len(s)}
    BY <1>0, PartQueue
  <1>3. \A i \in 1 .. k, j \in k + 1 .. Len(s) : i \in DOMAIN s /\ j \in DOMAIN s /\ s[i] # s[j]
    BY <1>0 DEF IsInjective
  <1>4. \A i \in DOMAIN s : i \in 1 .. k \/ i \in k + 1 .. Len(s)
    BY <1>0
  <1>5. ToSet(s) = {s[i] : i \in DOMAIN s}
    BY DEF ToSet
  <1> DEFINE A == ToSet(SubSeq(s, 1, k))
             B == ToSet(SubSeq(s, k + 1, Len(s)))
             C == ToSet(s)
  <1> HIDE DEF A, B, C
  <1>6. A = {s[i] : i \in 1 .. k} /\ B = {s[i] : i \in k + 1 .. Len(s)} /\ C = {s[i] : i \in DOMAIN s}
    BY <1>1, <1>2, <1>5 DEF A, B, C
  <1>7. A \cap B = {}
    BY <1>3, <1>6
  <1>8. A \cup B = C
    BY <1>3, <1>4, <1>6
  <1> QED BY <1>7, <1>8 DEF A, B, C

\* The head and the rest of a queue.
LEMMA HeadOff ==
    ASSUME NEW S, NEW s \in Seq(S), IsInjective(s), s # <<>>
    PROVE  /\ Head(s) \in S /\ Head(s) \in ToSet(s) /\ Len(s) >= 1
           /\ Tail(s) \in Seq(S) /\ IsInjective(Tail(s))
           /\ ToSet(Tail(s)) = ToSet(s) \ {Head(s)}
  <1>0. Len(s) \in Nat /\ Len(s) >= 1 /\ DOMAIN s = 1 .. Len(s) /\ Head(s) = s[1] /\ Head(s) \in S
    OBVIOUS
  <1>1. Tail(s) = SubSeq(s, 2, Len(s))
    BY TailIsSubSeq
  <1>2. ToSet(SubSeq(s, 2, Len(s))) = {s[i] : i \in 2 .. Len(s)}
    BY <1>0, PartQueue
  <1>3. \A i \in 2 .. Len(s) : i \in DOMAIN s /\ s[i] # s[1]
    BY <1>0 DEF IsInjective
  <1>4. \A i \in DOMAIN s : i = 1 \/ i \in 2 .. Len(s)
    BY <1>0
  <1>5. ToSet(SubSeq(s, 2, Len(s))) = ToSet(s) \ {s[1]}
    BY <1>2, <1>3, <1>4 DEF ToSet
  <1>6. SubSeq(s, 2, Len(s)) \in Seq(S) /\ IsInjective(SubSeq(s, 2, Len(s)))
    BY <1>0, PartQueue
  <1>7. s[1] \in ToSet(s)
    BY <1>0 DEF ToSet
  <1> QED BY <1>0, <1>1, <1>5, <1>6, <1>7

\* A batch off a queue: its head, the k - 1 behind it and what stays.
LEMMA BatchOff ==
    ASSUME NEW S, NEW s \in Seq(S), IsInjective(s), NEW k \in 1 .. Len(s)
    PROVE  /\ Head(s) \in S /\ Head(s) \in ToSet(s)
           /\ SubSeq(s, 2, k) \in Seq(S) /\ IsInjective(SubSeq(s, 2, k))
           /\ SubSeq(s, k + 1, Len(s)) \in Seq(S) /\ IsInjective(SubSeq(s, k + 1, Len(s)))
           /\ ToSet(SubSeq(s, 2, k)) \subseteq ToSet(s) \ {Head(s)}
           /\ ToSet(SubSeq(s, k + 1, Len(s))) \subseteq ToSet(s) \ {Head(s)}
           /\ ToSet(SubSeq(s, 2, k)) \cap ToSet(SubSeq(s, k + 1, Len(s))) = {}
           /\ ToSet(SubSeq(s, 2, k)) \cup ToSet(SubSeq(s, k + 1, Len(s))) = ToSet(s) \ {Head(s)}
  <1>0. Len(s) \in Nat /\ k \in Nat /\ DOMAIN s = 1 .. Len(s) /\ s # <<>>
    OBVIOUS
  <1>1. Head(s) \in S /\ Head(s) \in ToSet(s) /\ Head(s) = s[1]
    BY <1>0, HeadOff
  <1>2. /\ ToSet(SubSeq(s, 2, k)) = {s[i] : i \in 2 .. k}
        /\ SubSeq(s, 2, k) \in Seq(S) /\ IsInjective(SubSeq(s, 2, k))
    BY <1>0, PartQueue
  <1>3. /\ ToSet(SubSeq(s, k + 1, Len(s))) = {s[i] : i \in k + 1 .. Len(s)}
        /\ SubSeq(s, k + 1, Len(s)) \in Seq(S) /\ IsInjective(SubSeq(s, k + 1, Len(s)))
    BY <1>0, PartQueue
  <1>4. \A i \in 2 .. k, j \in k + 1 .. Len(s) : i \in DOMAIN s /\ j \in DOMAIN s /\ s[i] # s[j]
    BY <1>0 DEF IsInjective
  <1>5. \A i \in DOMAIN s : i = 1 \/ i \in 2 .. k \/ i \in k + 1 .. Len(s)
    BY <1>0
  <1>6. \A i \in (2 .. k) \cup (k + 1 .. Len(s)) : i \in DOMAIN s /\ s[i] # s[1]
    BY <1>0 DEF IsInjective
  <1>7. \A x : x \in ToSet(s) <=> \E i \in DOMAIN s : s[i] = x
    BY DEF ToSet
  <1> HIDE DEF ToSet
  <1>8. ToSet(SubSeq(s, 2, k)) \cap ToSet(SubSeq(s, k + 1, Len(s))) = {}
    BY <1>2, <1>3, <1>4
  <1>9. ToSet(SubSeq(s, 2, k)) \cup ToSet(SubSeq(s, k + 1, Len(s))) = ToSet(s) \ {Head(s)}
    <2>1. ASSUME NEW x \in ToSet(s) \ {Head(s)}
          PROVE  x \in ToSet(SubSeq(s, 2, k)) \cup ToSet(SubSeq(s, k + 1, Len(s)))
      <3>1. PICK i \in DOMAIN s : s[i] = x
        BY <1>7
      <3> QED BY <3>1, <1>1, <1>2, <1>3, <1>5
    <2>2. ASSUME NEW x \in ToSet(SubSeq(s, 2, k)) \cup ToSet(SubSeq(s, k + 1, Len(s)))
          PROVE  x \in ToSet(s) \ {Head(s)}
      <3>1. PICK i \in (2 .. k) \cup (k + 1 .. Len(s)) : s[i] = x
        BY <1>2, <1>3
      <3> QED BY <3>1, <1>1, <1>6, <1>7
    <2> QED BY <2>1, <2>2
  <1> QED BY <1>1, <1>2, <1>3, <1>8, <1>9

\* A queue without its k-th fiber.
LEMMA OneOut ==
    ASSUME NEW S, NEW s \in Seq(S), IsInjective(s), NEW k \in 1 .. Len(s)
    PROVE  /\ RemoveAt(s, k) \in Seq(S)
           /\ IsInjective(RemoveAt(s, k))
           /\ ToSet(RemoveAt(s, k)) = ToSet(s) \ {s[k]}
  <1> DEFINE u == SubSeq(s, 1, k - 1)
             v == SubSeq(s, k + 1, Len(s))
  <1>0. Len(s) \in Nat /\ k \in Nat /\ DOMAIN s = 1 .. Len(s) /\ k - 1 \in 0 .. Len(s) /\ k + 1 \in Nat \ {0}
    OBVIOUS
  <1>1. u \in Seq(S) /\ IsInjective(u) /\ ToSet(u) = {s[i] : i \in 1 .. k - 1}
    BY <1>0, PartQueue
  <1>2. v \in Seq(S) /\ IsInjective(v) /\ ToSet(v) = {s[i] : i \in k + 1 .. Len(s)}
    BY <1>0, PartQueue
  <1>3. RemoveAt(s, k) = u \o v
    BY DEF RemoveAt
  <1> HIDE DEF u, v
  <1>4. \A i \in 1 .. k - 1, j \in k + 1 .. Len(s) : s[i] # s[j]
    BY <1>0 DEF IsInjective
  <1>5. ToSet(u) \cap ToSet(v) = {}
    BY <1>1, <1>2, <1>4
  <1>t. u \in Seq(S) /\ v \in Seq(S) /\ IsInjective(u) /\ IsInjective(v)
    BY <1>1, <1>2
  <1>6. u \o v \in Seq(S) /\ IsInjective(u \o v) /\ ToSet(u \o v) = ToSet(u) \cup ToSet(v)
    BY <1>t, <1>5, JoinQueues
  <1>7. \A i \in (1 .. k - 1) \cup (k + 1 .. Len(s)) : i \in DOMAIN s /\ s[i] # s[k]
    BY <1>0 DEF IsInjective
  <1>8. \A i \in DOMAIN s : i = k \/ i \in 1 .. k - 1 \/ i \in k + 1 .. Len(s)
    BY <1>0
  <1>9. \A x : x \in ToSet(s) <=> \E i \in DOMAIN s : s[i] = x
    BY DEF ToSet
  <1>10. ToSet(u) \cup ToSet(v) = ToSet(s) \ {s[k]}
    <2>1. ASSUME NEW x \in ToSet(s) \ {s[k]} PROVE x \in ToSet(u) \cup ToSet(v)
      <3>1. PICK i \in DOMAIN s : s[i] = x
        BY <1>9
      <3> QED BY <3>1, <1>1, <1>2, <1>8
    <2>2. ASSUME NEW x \in ToSet(u) \cup ToSet(v) PROVE x \in ToSet(s) \ {s[k]}
      <3>1. PICK i \in (1 .. k - 1) \cup (k + 1 .. Len(s)) : s[i] = x
        BY <1>1, <1>2
      <3> QED BY <3>1, <1>7, <1>9
    <2> QED BY <2>1, <2>2
  <1> QED BY <1>3, <1>6, <1>10

-----------------------------------------------------------------------------
(* The inductive invariant of both builds.                                 *)

\* Where a worker holds a fiber: from the pop to the switch out of it, the
\* signals given on the way included; and a displaced one until the lease is
\* released.
HeldInv ==
    \A w \in Workers :
        /\ pc[w] = "body" \/ (pc[w] \in {"wake", "poke"} /\ ret[w] = "body") => cur[w] # NoFiber
        /\ cur[w] # NoFiber => pc[w] \in {"body", "wake", "poke", "release"}
        /\ direct[w] # NoFiber => pc[w] = "release" \/ (pc[w] \in {"wake", "poke"} /\ ret[w] = "release")

\* The kernel reports only fibers that wait.
ReadyInv == \A f \in ready : io[f] # "no"

\* OnePlace, fiber by fiber, and a worker's two fibers are not the same one.
Apart ==
    /\ IsInjective(gq) /\ \A w \in Workers : IsInjective(rq[w])
    /\ \A f \in Fibers, v, w \in Workers :
           /\ f \in ToSet(rq[v]) /\ f \in ToSet(rq[w]) => v = w
           /\ f \in ToSet(rq[v]) => f # cur[w] /\ f # direct[w]
           /\ f = cur[v] /\ f = cur[w] => v = w
           /\ f = direct[v] /\ f = direct[w] => v = w
           /\ f = cur[v] => f # direct[w]
    /\ \A f \in Fibers :
           /\ f \in ToSet(gq) => io[f] = "no"
           /\ \A w \in Workers : f \in ToSet(rq[w]) \/ f = cur[w] \/ f = direct[w] =>
                  f \notin ToSet(gq) /\ io[f] = "no"

PlaceInv == TypeOK /\ HeldInv /\ ReadyInv /\ Apart /\ IdleCountExact

-----------------------------------------------------------------------------
(* Steps that move no fiber.                                               *)

Resting == {w \in Workers : pc[w] \in {"asleep", "woken"}}

\* The resting workers are finitely many.
LEMMA RestingFinite ==
    /\ IsFiniteSet(Resting) /\ IsFiniteSet(Resting')
    /\ Cardinality(Resting) \in Nat /\ Cardinality(Resting') \in Nat
  <1>1. Resting \in SUBSET Workers /\ Resting' \in SUBSET Workers
    BY DEF Resting
  <1> QED BY <1>1, BoundsAssumption, FS_Subset, FS_CardinalityType

\* A step that lets nobody rest or rise and leaves the count alone keeps it exact.
LEMMA IdleKept ==
    ASSUME IdleCountExact, idle_waiters' = idle_waiters,
           \A w \in Workers : pc'[w] \in {"asleep", "woken"} <=> pc[w] \in {"asleep", "woken"}
    PROVE  IdleCountExact'
  <1>1. Resting' = Resting
    BY DEF Resting
  <1> QED BY <1>1 DEF IdleCountExact, Resting

\* A step that moves no fiber leaves every fiber in its one place.
LEMMA PlacesKept ==
    ASSUME Apart, ReadyInv, UNCHANGED <<rq, gq, cur, direct, io, ready>>
    PROVE  Apart' /\ ReadyInv'
  BY DEF Apart, ReadyInv

\* Worker w, which holds nothing, goes on to look elsewhere.
LEMMA LookElsewhere ==
    ASSUME PlaceInv, NEW w \in Workers,
           NEW l \in WorkerPcs \ {"release", "asleep", "woken"}, Goto(w, l),
           pc[w] \notin {"body", "wake", "poke", "release", "asleep", "woken"},
           UNCHANGED <<queueVars, ioVars, cur, direct, want, ret, idle_waiters>>,
           g' \in [Workers -> Nat], tick' \in [Workers -> BOOLEAN],
           mode' \in [Workers -> {"block", "nowait", "cadence"}],
           {started', sleeping', poked', shutdown'} \subseteq BOOLEAN,
           lease' \in Workers \cup {NoWorker}
    PROVE  PlaceInv'
  <1>p. /\ w \in Actors /\ pc \in [Actors -> WorkerPcs \cup ThreadPcs \cup {"body", "wake", "poke"}]
        /\ \A v \in Workers : v \in Actors
        /\ pc' = [pc EXCEPT ![w] = l]
    BY DEF PlaceInv, TypeOK, Actors, Goto
  <1>l. l \notin {"body", "wake", "poke", "release", "asleep", "woken"}
    BY DEF WorkerPcs
  <1>1. TypeOK'
    <2>1. pc' \in [Actors -> WorkerPcs \cup ThreadPcs \cup {"body", "wake", "poke"}]
      BY <1>p
    <2> QED BY <2>1 DEF PlaceInv, TypeOK, queueVars, ioVars
  <1>2. HeldInv'
    BY <1>p, <1>l DEF PlaceInv, HeldInv
  <1>3. Apart' /\ ReadyInv'
    BY PlacesKept DEF PlaceInv, queueVars, ioVars
  <1>4. IdleCountExact'
    <2>1. \A v \in Workers : pc'[v] \in {"asleep", "woken"} <=> pc[v] \in {"asleep", "woken"}
      BY <1>p, <1>l
    <2> QED BY <2>1, IdleKept DEF PlaceInv
  <1> QED BY <1>1, <1>2, <1>3, <1>4 DEF PlaceInv

\* A worker that looks for work without finding any keeps the invariant.
LEMMA LookingSteps ==
    ASSUME PlaceInv, NEW w \in Workers,
           \/ Exit(w) \/ CadencePoll(w) \/ ReadHead(w) \/ StealNothing(w) \/ PollRefused(w)
           \/ TakeLease(w) \/ Arm(w) \/ CheckShutdown(w) \/ EpollReturn(w)
    PROVE  PlaceInv'
  <1> USE DEF queueVars, ioVars, pollVars
  <1>t. /\ g \in [Workers -> Nat] /\ tick \in [Workers -> BOOLEAN]
        /\ mode \in [Workers -> {"block", "nowait", "cadence"}]
        /\ started \in BOOLEAN /\ sleeping \in BOOLEAN /\ poked \in BOOLEAN /\ shutdown \in BOOLEAN
        /\ lease \in Workers \cup {NoWorker}
    BY DEF PlaceInv, TypeOK
  <1>1. CASE Exit(w)
    <2>1. "exit" \in WorkerPcs \ {"release", "asleep", "woken"}
      BY DEF WorkerPcs
    <2> QED BY <1>1, <1>t, <2>1, LookElsewhere DEF Exit
  <1>2. CASE CadencePoll(w)
    <2>1. "poll" \in WorkerPcs \ {"release", "asleep", "woken"}
      BY DEF WorkerPcs
    <2> QED BY <1>2, <1>t, <2>1, LookElsewhere DEF CadencePoll
  <1>3. CASE ReadHead(w)
    <2>1. "pop" \in WorkerPcs \ {"release", "asleep", "woken"}
      BY DEF WorkerPcs
    <2>2. global_head_rseq \in Nat
      <3>1. gq \in Seq(Fibers) /\ rseq \in [Fibers -> Nat]
        BY DEF PlaceInv, TypeOK
      <3> QED BY <3>1 DEF global_head_rseq
    <2>3. g' \in [Workers -> Nat] /\ tick' \in [Workers -> BOOLEAN]
      BY <1>3, <1>t, <2>2 DEF ReadHead
    <2> QED BY <1>3, <1>t, <2>1, <2>3, LookElsewhere DEF ReadHead
  <1>4. CASE StealNothing(w)
    <2>1. "batch2" \in WorkerPcs \ {"release", "asleep", "woken"}
      BY DEF WorkerPcs
    <2> QED BY <1>4, <1>t, <2>1, LookElsewhere DEF StealNothing
  <1>5. CASE PollRefused(w)
    <2>1. AfterPoll(w, FALSE) \in WorkerPcs \ {"release", "asleep", "woken"}
      BY DEF WorkerPcs, AfterPoll
    <2>2. mode' \in [Workers -> {"block", "nowait", "cadence"}]
      BY <1>5, <1>t DEF PollRefused
    <2> QED BY <1>5, <1>t, <2>1, <2>2, LookElsewhere DEF PollRefused
  <1>6. CASE TakeLease(w)
    <2>1. (IF mode[w] = "block" THEN "arm" ELSE "deliver") \in WorkerPcs \ {"release", "asleep", "woken"}
      BY DEF WorkerPcs
    <2> QED BY <1>6, <1>t, <2>1, LookElsewhere DEF TakeLease
  <1>7. CASE Arm(w)
    <2>1. "check" \in WorkerPcs \ {"release", "asleep", "woken"}
      BY DEF WorkerPcs
    <2> QED BY <1>7, <1>t, <2>1, LookElsewhere DEF Arm
  <1>8. CASE CheckShutdown(w)
    <2>1. (IF shutdown THEN "deliver" ELSE "epoll") \in WorkerPcs \ {"release", "asleep", "woken"}
      BY DEF WorkerPcs
    <2> QED BY <1>8, <1>t, <2>1, LookElsewhere DEF CheckShutdown
  <1>9. CASE EpollReturn(w)
    <2>1. "deliver" \in WorkerPcs \ {"release", "asleep", "woken"}
      BY DEF WorkerPcs
    <2> QED BY <1>9, <1>t, <2>1, LookElsewhere DEF EpollReturn
  <1> QED BY <1>1, <1>2, <1>3, <1>4, <1>5, <1>6, <1>7, <1>8, <1>9

\* Signals and broadcasts: the woken stay counted until they have the lock.
LEMMA WakeSome ==
    ASSUME PlaceInv, NEW a \in Actors, NEW W \in SUBSET Asleep, NEW l, a \notin Asleep,
           l \in WorkerPcs \cup ThreadPcs \cup {"body", "poke"}, l \notin {"asleep", "woken"},
           pc' = [b \in Actors |-> IF b \in W THEN "woken" ELSE IF b = a THEN l ELSE pc[b]],
           \A w \in Workers : w = a =>
               pc[w] = "wake" /\ (l = ret[w] \/ l = "poke"),
           want' \in [Actors -> Nat],
           UNCHANGED <<queueVars, ioVars, pollVars, direct, cur, g, tick, mode, ret, idle_waiters, shutdown>>
    PROVE  PlaceInv'
  <1>p. /\ \A v \in Workers : v \in Actors
        /\ \A v \in W : v \in Workers /\ pc[v] = "asleep"
        /\ pc \in [Actors -> WorkerPcs \cup ThreadPcs \cup {"body", "wake", "poke"}]
    BY DEF PlaceInv, TypeOK, Actors, Asleep
  <1>1. TypeOK'
    <2>1. pc' \in [Actors -> WorkerPcs \cup ThreadPcs \cup {"body", "wake", "poke"}]
      <3>1. "woken" \in WorkerPcs
        BY DEF WorkerPcs
      <3> QED BY <1>p, <3>1
    <2> QED BY <2>1 DEF PlaceInv, TypeOK, queueVars, ioVars, pollVars
  <1>2. HeldInv'
    <2> SUFFICES ASSUME NEW w \in Workers PROVE HeldInv!(w)'
      BY DEF HeldInv
    <2>0. ret'[w] = ret[w] /\ ret[w] \in {"body", "release"} /\ cur'[w] = cur[w] /\ direct'[w] = direct[w]
      BY <1>p DEF PlaceInv, TypeOK
    <2>h. HeldInv!(w)
      BY DEF PlaceInv, HeldInv
    <2>1. CASE w \in W
      BY <2>0, <2>1, <2>h, <1>p
    <2>2. CASE w \notin W /\ w # a
      BY <2>0, <2>2, <2>h, <1>p
    <2>3. CASE w = a
      <3>1. w \notin W /\ pc'[w] = l /\ pc[w] = "wake"
        BY <2>3, <1>p
      <3>2. l = ret[w] \/ l = "poke"
        BY <2>3
      <3> QED BY <2>0, <3>1, <3>2, <2>h
    <2> QED BY <2>1, <2>2, <2>3
  <1>3. Apart' /\ ReadyInv'
    BY PlacesKept DEF PlaceInv, queueVars, ioVars
  <1>4. IdleCountExact'
    <2>1. ASSUME NEW v \in Workers PROVE pc'[v] \in {"asleep", "woken"} <=> pc[v] \in {"asleep", "woken"}
      <3>1. v = a => pc[v] = "wake"
        OBVIOUS
      <3> QED BY <3>1, <1>p
    <2> QED BY <2>1, IdleKept DEF PlaceInv
  <1> QED BY <1>1, <1>2, <1>3, <1>4 DEF PlaceInv

\* A signal keeps the invariant.
LEMMA SignalStep ==
    ASSUME PlaceInv, NEW a \in Actors, Signal(a)
    PROVE  PlaceInv'
  <1> DEFINE l == IF idle_waiters = 0 /\ Netpoller THEN "poke" ELSE ret[a]
  <1>1. PICK W \in SUBSET Asleep :
            pc' = [b \in Actors |-> CASE b \in W -> "woken" [] b = a -> l [] OTHER -> pc[b]]
    BY DEF Signal
  <1>3. a \notin Asleep /\ pc[a] = "wake"
    BY DEF Signal, Asleep
  <1> HIDE DEF l
  <1>2. pc' = [b \in Actors |-> IF b \in W THEN "woken" ELSE IF b = a THEN l ELSE pc[b]]
    <2>1. \A b \in Actors : (CASE b \in W -> "woken" [] b = a -> l [] OTHER -> pc[b])
                             = (IF b \in W THEN "woken" ELSE IF b = a THEN l ELSE pc[b])
      BY <1>3
    <2> QED BY <1>1, <2>1, Zenon
  <1> USE DEF l
  <1>4. ret[a] \in {"body", "release"} /\ want' \in [Actors -> Nat]
    BY DEF PlaceInv, TypeOK, Signal
  <1>5. l \in WorkerPcs \cup ThreadPcs \cup {"body", "poke"} /\ l \notin {"asleep", "woken"} /\ (l = ret[a] \/ l = "poke")
    BY <1>4 DEF WorkerPcs
  <1> HIDE DEF l
  <1>6. UNCHANGED <<queueVars, ioVars, pollVars, direct, cur, g, tick, mode, ret, idle_waiters, shutdown>>
    BY DEF Signal
  <1> QED BY <1>2, <1>3, <1>4, <1>5, <1>6, WakeSome

\* A thread goes on with its call, and the poke of whoever pushed.
LEMMA ThreadOn ==
    ASSUME PlaceInv, NEW t \in Threads,
           NEW l \in ThreadPcs, Goto(t, l), {poked', shutdown'} \subseteq BOOLEAN,
           UNCHANGED <<queueVars, ioVars, started, lease, sleeping, direct, cur, g, tick, mode, want, ret, idle_waiters>>
    PROVE  PlaceInv'
  <1>p. /\ \A v \in Workers : v \in Actors /\ v # t
        /\ pc \in [Actors -> WorkerPcs \cup ThreadPcs \cup {"body", "wake", "poke"}]
        /\ pc' = [pc EXCEPT ![t] = l] /\ t \in Actors
    BY BoundsAssumption DEF PlaceInv, TypeOK, Actors, Goto
  <1>1. TypeOK'
    <2>1. pc' \in [Actors -> WorkerPcs \cup ThreadPcs \cup {"body", "wake", "poke"}]
      BY <1>p
    <2> QED BY <2>1 DEF PlaceInv, TypeOK, queueVars, ioVars
  <1>2. HeldInv'
    BY <1>p DEF PlaceInv, HeldInv
  <1>3. Apart' /\ ReadyInv'
    BY PlacesKept DEF PlaceInv, queueVars, ioVars
  <1>4. IdleCountExact'
    BY <1>p, IdleKept DEF PlaceInv
  <1> QED BY <1>1, <1>2, <1>3, <1>4 DEF PlaceInv

\* The steps of nurl_runtime_shutdown keep the invariant.
LEMMA ShutdownSteps ==
    ASSUME PlaceInv, NEW t \in Threads,
           ShutdownSet(t) \/ ShutdownWakeAll(t) \/ ShutdownPoke(t) \/ ShutdownJoin(t)
    PROVE  PlaceInv'
  <1>t. /\ started \in BOOLEAN /\ poked \in BOOLEAN /\ shutdown \in BOOLEAN
        /\ t \in Actors /\ \A w \in Workers : w # t
    BY BoundsAssumption DEF PlaceInv, TypeOK, Actors
  <1>l. {"sdwake", "sdpoke", "sdjoin", "ended"} \subseteq ThreadPcs
    BY DEF ThreadPcs
  <1>1. CASE ShutdownSet(t)
    BY <1>1, <1>t, <1>l, ThreadOn DEF ShutdownSet, pollVars
  <1>2. CASE ShutdownPoke(t)
    BY <1>2, <1>t, <1>l, ThreadOn DEF ShutdownPoke
  <1>3. CASE ShutdownJoin(t)
    BY <1>3, <1>t, <1>l, ThreadOn DEF ShutdownJoin, pollVars
  <1>4. CASE ShutdownWakeAll(t)
    <2>1. t \notin Asleep /\ want' \in [Actors -> Nat]
      BY <1>4, <1>t DEF Asleep, PlaceInv, TypeOK, ShutdownWakeAll
    <2>2. "sdpoke" \notin {"asleep", "woken"}
      OBVIOUS
    <2>3. /\ pc' = [b \in Actors |-> IF b \in Asleep THEN "woken" ELSE IF b = t THEN "sdpoke" ELSE pc[b]]
          /\ UNCHANGED <<queueVars, ioVars, pollVars, direct, cur, g, tick, mode, ret, idle_waiters, shutdown>>
      BY <1>4 DEF ShutdownWakeAll
    <2> QED BY <2>1, <2>2, <2>3, <1>t, <1>l, WakeSome
  <1> QED BY <1>1, <1>2, <1>3, <1>4

\* A poke keeps the invariant.
LEMMA PokeStep ==
    ASSUME PlaceInv, NEW a \in Actors, PokeIfSleeping(a)
    PROVE  PlaceInv'
  <1>p. /\ \A v \in Workers : v \in Actors
        /\ pc \in [Actors -> WorkerPcs \cup ThreadPcs \cup {"body", "wake", "poke"}]
        /\ pc' = [pc EXCEPT ![a] = ret[a]] /\ pc[a] = "poke"
        /\ ret[a] \in {"body", "release"} /\ poked' \in BOOLEAN
        /\ ret' = ret /\ cur' = cur /\ direct' = direct
    BY DEF PlaceInv, TypeOK, Actors, Goto, PokeIfSleeping
  <1>1. TypeOK'
    <2>1. pc' \in [Actors -> WorkerPcs \cup ThreadPcs \cup {"body", "wake", "poke"}]
      BY <1>p DEF WorkerPcs
    <2> QED BY <2>1, <1>p DEF PlaceInv, TypeOK, queueVars, ioVars, PokeIfSleeping
  <1>2. HeldInv'
    BY <1>p DEF PlaceInv, HeldInv
  <1>3. Apart' /\ ReadyInv'
    BY PlacesKept DEF PlaceInv, queueVars, ioVars, PokeIfSleeping
  <1>4. IdleCountExact'
    <2>1. \A v \in Workers : pc'[v] \in {"asleep", "woken"} <=> pc[v] \in {"asleep", "woken"}
      BY <1>p
    <2>2. idle_waiters' = idle_waiters
      BY DEF PokeIfSleeping
    <2> QED BY <2>1, <2>2, IdleKept DEF PlaceInv
  <1> QED BY <1>1, <1>2, <1>3, <1>4 DEF PlaceInv

-----------------------------------------------------------------------------
(* The idle condition variable.                                            *)

\* A worker that goes to rest or wakes keeps the invariant: the count follows it.
LEMMA RestStep ==
    ASSUME PlaceInv, NEW w \in Workers, IdlePark(w) \/ SpuriousWake(w) \/ Woken(w)
    PROVE  PlaceInv'
  <1> USE DEF queueVars, ioVars, pollVars
  <1>t. /\ w \in Actors /\ \A v \in Workers : v \in Actors
        /\ pc \in [Actors -> WorkerPcs \cup ThreadPcs \cup {"body", "wake", "poke"}]
        /\ idle_waiters \in Nat
        /\ g \in [Workers -> Nat] /\ tick \in [Workers -> BOOLEAN]
        /\ mode \in [Workers -> {"block", "nowait", "cadence"}]
        /\ started \in BOOLEAN /\ sleeping \in BOOLEAN /\ poked \in BOOLEAN /\ shutdown \in BOOLEAN
        /\ lease \in Workers \cup {NoWorker}
    BY DEF PlaceInv, TypeOK, Actors
  <1>f. IsFiniteSet(Resting) /\ idle_waiters = Cardinality(Resting) /\ Cardinality(Resting) \in Nat
    BY RestingFinite DEF PlaceInv, IdleCountExact, Resting
  <1>1. CASE IdlePark(w) /\ idle_waiters' = idle_waiters /\ (Goto(w, "exit") \/ Goto(w, "next"))
    <2>1. {"exit", "next"} \subseteq WorkerPcs \ {"release", "asleep", "woken"}
      BY DEF WorkerPcs
    <2> QED BY <1>1, <1>t, <2>1, LookElsewhere DEF IdlePark
  <1>2. ASSUME NEW l \in {"asleep", "woken", "next"}, Goto(w, l),
               pc[w] \in {"idle", "asleep", "woken"},
               UNCHANGED <<queueVars, ioVars, pollVars, direct, cur, g, tick, mode, want, ret, shutdown>>,
               idle_waiters' \in Nat, IdleCountExact'
        PROVE  PlaceInv'
    <2>1. pc' = [pc EXCEPT ![w] = l]
      BY <1>2 DEF Goto
    <2>2. TypeOK'
      <3>1. pc' \in [Actors -> WorkerPcs \cup ThreadPcs \cup {"body", "wake", "poke"}]
        BY <1>2, <2>1, <1>t DEF WorkerPcs
      <3> QED BY <3>1, <1>2 DEF PlaceInv, TypeOK
    <2>3. HeldInv'
      BY <1>2, <2>1, <1>t DEF PlaceInv, HeldInv
    <2>4. Apart' /\ ReadyInv'
      BY <1>2, PlacesKept DEF PlaceInv
    <2> QED BY <1>2, <2>2, <2>3, <2>4 DEF PlaceInv
  <1>3. CASE IdlePark(w) /\ idle_waiters' = idle_waiters + 1 /\ Goto(w, "asleep")
    <2>1. pc' = [pc EXCEPT ![w] = "asleep"] /\ pc[w] = "idle"
      BY <1>3 DEF Goto, IdlePark
    <2>2. Resting' = Resting \cup {w} /\ w \notin Resting
      BY <2>1, <1>t DEF Resting
    <2>c. Cardinality(Resting') = Cardinality(Resting) + 1
      BY <2>2, <1>f, FS_AddElement
    <2>3. IdleCountExact' /\ idle_waiters' \in Nat
      BY <2>c, <1>3, <1>f DEF IdleCountExact, Resting
    <2>4. UNCHANGED <<queueVars, ioVars, pollVars, direct, cur, g, tick, mode, want, ret, shutdown>>
      BY <1>3 DEF IdlePark
    <2> QED BY <1>2, <1>3, <2>1, <2>3, <2>4
  <1>4. CASE SpuriousWake(w)
    <2>1. pc' = [pc EXCEPT ![w] = "woken"] /\ pc[w] = "asleep" /\ idle_waiters' = idle_waiters /\ Goto(w, "woken")
      BY <1>4 DEF Goto, SpuriousWake
    <2>2. IdleCountExact' /\ idle_waiters' \in Nat
      BY <2>1, <1>t, IdleKept DEF PlaceInv
    <2>4. UNCHANGED <<queueVars, ioVars, pollVars, direct, cur, g, tick, mode, want, ret, shutdown>>
      BY <1>4 DEF SpuriousWake
    <2> QED BY <1>2, <2>1, <2>2, <2>4
  <1>5. CASE Woken(w)
    <2>1. pc' = [pc EXCEPT ![w] = "next"] /\ pc[w] = "woken" /\ idle_waiters' = idle_waiters - 1 /\ Goto(w, "next")
      BY <1>5 DEF Goto, Woken
    <2>2. Resting' = Resting \ {w} /\ w \in Resting
      BY <2>1, <1>t DEF Resting
    <2>3. Cardinality(Resting') = Cardinality(Resting) - 1 /\ Cardinality(Resting') \in Nat
      BY <2>2, <1>f, RestingFinite, FS_RemoveElement
    <2>4. IdleCountExact' /\ idle_waiters' \in Nat
      BY <2>1, <2>3, <1>f DEF IdleCountExact, Resting
    <2>5. UNCHANGED <<queueVars, ioVars, pollVars, direct, cur, g, tick, mode, want, ret, shutdown>>
      BY <1>5 DEF Woken
    <2> QED BY <1>2, <2>1, <2>4, <2>5
  <1> QED BY <1>1, <1>3, <1>4, <1>5 DEF IdlePark

\* Readiness of a descriptor keeps the invariant.
LEMMA IoReadyStep ==
    ASSUME PlaceInv, NEW f \in Fibers, IoReady(f)
    PROVE  PlaceInv'
  <1> USE DEF IoReady, queueVars, pollVars
  <1>1. TypeOK'
    BY DEF PlaceInv, TypeOK
  <1>2. HeldInv' /\ ReadyInv' /\ Apart'
    BY DEF PlaceInv, HeldInv, ReadyInv, Apart
  <1>3. IdleCountExact'
    BY IdleKept DEF PlaceInv
  <1> QED BY <1>1, <1>2, <1>3 DEF PlaceInv

-----------------------------------------------------------------------------
(* Steps that move fibers between the queues and the workers.              *)

\* Some queue holds f.
InQueue(f) == f \in ToSet(gq) \/ \E v \in Workers : f \in ToSet(rq[v])

\* What Apart says of a fiber by where it is.
LEMMA ApartHeld ==
    ASSUME Apart, NEW x \in Fibers, NEW v \in Workers, x = cur[v] \/ x = direct[v]
    PROVE  io[x] = "no" /\ ~InQueue(x)
  <1>1. x \notin ToSet(gq) /\ io[x] = "no"
    BY DEF Apart
  <1>2. \A w \in Workers : x \notin ToSet(rq[w])
    BY DEF Apart
  <1> QED BY <1>1, <1>2 DEF InQueue

\* A queued fiber is on no worker and in no reactor wait.
LEMMA ApartQueued ==
    ASSUME Apart, NEW x \in Fibers, InQueue(x)
    PROVE  io[x] = "no" /\ \A v \in Workers : x # cur[v] /\ x # direct[v]
  <1>1. io[x] = "no"
    BY DEF Apart, InQueue
  <1> QED BY <1>1, ApartHeld

\* The signals given after a push or a hand-out.
LEMMA WakeThenFacts ==
    ASSUME TypeOK, NEW a \in Actors, NEW n \in Nat, NEW l \in {"body", "release"}, WakeThen(a, n, l)
    PROVE  /\ \A b \in Actors : b # a => pc'[b] = pc[b] /\ ret'[b] = ret[b]
           /\ \/ pc'[a] = l
              \/ pc'[a] = "wake" /\ ret'[a] = l
           /\ pc' \in [Actors -> WorkerPcs \cup ThreadPcs \cup {"body", "wake", "poke"}]
           /\ want' \in [Actors -> Nat] /\ ret' \in [Actors -> {"body", "release"}]
  <1>t. /\ pc \in [Actors -> WorkerPcs \cup ThreadPcs \cup {"body", "wake", "poke"}]
        /\ want \in [Actors -> Nat] /\ ret \in [Actors -> {"body", "release"}]
    BY DEF TypeOK
  <1>l. {"release", "body", "wake"} \subseteq WorkerPcs \cup ThreadPcs \cup {"body", "wake", "poke"}
    BY DEF WorkerPcs
  <1>1. CASE n > 0
    BY <1>1, <1>t, <1>l DEF WakeThen, Goto
  <1>2. CASE ~(n > 0)
    BY <1>2, <1>t, <1>l DEF WakeThen, Goto
  <1> QED BY <1>1, <1>2

\* Worker w, with nothing in hand, takes f off the queues, which may be shared
\* out anew.
LEMMA Dispatch ==
    ASSUME PlaceInv, NEW w \in Workers, NEW f \in Fibers, NEW n \in Nat,
           pc[w] \notin {"body", "wake", "poke", "release", "asleep", "woken"},
           WakeThen(w, n, "body"), RunFiber(w, f), InQueue(f),
           UNCHANGED <<rseq, rseq_clock, admits, ioVars, pollVars, direct, tick, mode, idle_waiters, shutdown>>,
           g' \in [Workers -> Nat],
           rq' \in [Workers -> Seq(Fibers)], gq' \in Seq(Fibers),
           IsInjective(gq'), \A v \in Workers : IsInjective(rq'[v]),
           \A x \in Fibers : x \in ToSet(gq') => InQueue(x) /\ x # f,
           \A x \in Fibers, v \in Workers : x \in ToSet(rq'[v]) => InQueue(x) /\ x # f /\ x \notin ToSet(gq'),
           \A x \in Fibers, u, v \in Workers : x \in ToSet(rq'[v]) /\ x \in ToSet(rq'[u]) => u = v
    PROVE  PlaceInv'
  <1>a. w \in Actors /\ \A v \in Workers : v \in Actors
    BY DEF Actors
  <1>k. /\ \A b \in Actors : b # w => pc'[b] = pc[b] /\ ret'[b] = ret[b]
        /\ pc'[w] = "body" \/ (pc'[w] = "wake" /\ ret'[w] = "body")
        /\ pc' \in [Actors -> WorkerPcs \cup ThreadPcs \cup {"body", "wake", "poke"}]
        /\ want' \in [Actors -> Nat] /\ ret' \in [Actors -> {"body", "release"}]
    BY <1>a, WakeThenFacts DEF PlaceInv
  <1>c. /\ cur \in [Workers -> Fibers \cup {NoFiber}] /\ direct \in [Workers -> Fibers \cup {NoFiber}]
        /\ cur' = [cur EXCEPT ![w] = f] /\ direct' = direct
        /\ NoFiber \notin Fibers
    BY BoundsAssumption DEF PlaceInv, TypeOK, RunFiber
  <1>1. TypeOK'
    <2>1. cur' \in [Workers -> Fibers \cup {NoFiber}]
      BY <1>c
    <2> QED BY <2>1, <1>k DEF PlaceInv, TypeOK, ioVars, pollVars
  <1>2. HeldInv'
    <2> SUFFICES ASSUME NEW v \in Workers PROVE HeldInv!(v)'
      BY DEF HeldInv
    <2>1. CASE v # w
      <3>1. cur'[v] = cur[v] /\ direct'[v] = direct[v] /\ pc'[v] = pc[v] /\ ret'[v] = ret[v]
        BY <2>1, <1>a, <1>c, <1>k
      <3> QED BY <3>1 DEF PlaceInv, HeldInv
    <2>2. CASE v = w
      <3>1. cur'[w] = f /\ f # NoFiber /\ direct'[w] = NoFiber
        BY <1>c DEF PlaceInv, HeldInv
      <3> QED BY <2>2, <3>1, <1>k
    <2> QED BY <2>1, <2>2
  <1>3. ReadyInv'
    BY DEF PlaceInv, ReadyInv, ioVars
  <1>4. Apart'
    <2>o. \A x \in Fibers : InQueue(x) => io[x] = "no" /\ \A v \in Workers : x # cur[v] /\ x # direct[v]
      BY ApartQueued DEF PlaceInv
    <2>c. \A v \in Workers : cur'[v] = IF v = w THEN f ELSE cur[v]
      BY <1>c
    <2>i. io' = io /\ direct' = direct
      BY DEF ioVars
    <2>h. \A x \in Fibers, u, v \in Workers :
              /\ x = cur[u] /\ x = cur[v] => u = v
              /\ x = direct[u] /\ x = direct[v] => u = v
              /\ x = cur[u] => x # direct[v]
      BY DEF PlaceInv, Apart
    <2>j. \A x \in Fibers, v \in Workers : x = cur[v] \/ x = direct[v] => io[x] = "no" /\ ~InQueue(x)
      BY ApartHeld DEF PlaceInv
    <2>1. ASSUME NEW x \in Fibers, NEW u \in Workers, NEW v \in Workers
          PROVE  /\ x \in ToSet(rq'[u]) /\ x \in ToSet(rq'[v]) => u = v
                 /\ x \in ToSet(rq'[u]) => x # cur'[v] /\ x # direct'[v]
                 /\ x = cur'[u] /\ x = cur'[v] => u = v
                 /\ x = direct'[u] /\ x = direct'[v] => u = v
                 /\ x = cur'[u] => x # direct'[v]
      <3>1. x \in ToSet(rq'[u]) /\ x \in ToSet(rq'[v]) => u = v
        OBVIOUS
      <3>2. x \in ToSet(rq'[u]) => x # cur'[v] /\ x # direct'[v]
        BY <2>o, <2>c, <2>i
      <3>f. \A b \in Workers : f # cur[b] /\ f # direct[b]
        BY <2>o
      <3>3. x = cur'[u] /\ x = cur'[v] => u = v
        <4>1. CASE u # w /\ v # w
          <5>1. cur'[u] = cur[u] /\ cur'[v] = cur[v]
            BY <4>1, <2>c
          <5> QED BY <5>1, <2>h
        <4>2. CASE u = w \/ v = w
          BY <4>2, <2>c, <3>f
        <4> QED BY <4>1, <4>2
      <3>4. x = direct'[u] /\ x = direct'[v] => u = v
        BY <2>i, <2>h
      <3>5. x = cur'[u] => x # direct'[v]
        <4>1. CASE u # w
          <5>1. cur'[u] = cur[u]
            BY <4>1, <2>c
          <5> QED BY <5>1, <2>h, <2>i
        <4>2. CASE u = w
          BY <4>2, <2>c, <2>i, <3>f
        <4> QED BY <4>1, <4>2
      <3> QED BY <3>1, <3>2, <3>3, <3>4, <3>5
    <2>2. ASSUME NEW x \in Fibers
          PROVE  /\ x \in ToSet(gq') => io'[x] = "no"
                 /\ \A v \in Workers : x \in ToSet(rq'[v]) \/ x = cur'[v] \/ x = direct'[v] =>
                        x \notin ToSet(gq') /\ io'[x] = "no"
      <3>1. x \in ToSet(gq') => io'[x] = "no"
        BY <2>o, <2>i
      <3>2. ASSUME NEW v \in Workers, x \in ToSet(rq'[v]) PROVE x \notin ToSet(gq') /\ io'[x] = "no"
        BY <3>2, <2>o, <2>i
      <3>3. ASSUME NEW v \in Workers, x = cur[v] \/ x = direct[v] PROVE x \notin ToSet(gq') /\ io'[x] = "no"
        BY <3>3, <2>j, <2>i
      <3>4. x = f => x \notin ToSet(gq') /\ io'[x] = "no"
        BY <2>o, <2>i
      <3>5. ASSUME NEW v \in Workers, x = cur'[v] PROVE x \notin ToSet(gq') /\ io'[x] = "no"
        <4>1. x = f \/ x = cur[v]
          BY <3>5, <2>c
        <4> QED BY <4>1, <3>3, <3>4
      <3>6. \A v \in Workers : direct'[v] = direct[v]
        BY <2>i
      <3> QED BY <3>1, <3>2, <3>3, <3>5, <3>6
    <2> QED BY <2>1, <2>2 DEF Apart
  <1>5. IdleCountExact'
    <2>1. \A v \in Workers : pc'[v] \in {"asleep", "woken"} <=> pc[v] \in {"asleep", "woken"}
      BY <1>a, <1>k
    <2> QED BY <2>1, IdleKept DEF PlaceInv
  <1> QED BY <1>1, <1>2, <1>3, <1>4, <1>5 DEF PlaceInv

\* Going on to the body without signals is a wake of none.
LEMMA WakeNone ==
    ASSUME NEW w, Goto(w, "body"), UNCHANGED <<want, ret>>
    PROVE  WakeThen(w, 0, "body")
  BY DEF WakeThen

\* The two ways a worker takes the head of its own queue.
LEMMA OwnHead ==
    ASSUME PlaceInv, NEW w \in Workers, rq[w] # <<>>,
           pc[w] \in {"pop", "popl"}, Goto(w, "body"), RunFiber(w, Head(rq[w])),
           rq' = [rq EXCEPT ![w] = Tail(@)], g' \in [Workers -> Nat],
           UNCHANGED <<gq, rseq, rseq_clock, admits, ioVars, pollVars, direct, tick, mode, want, ret, idle_waiters, shutdown>>
    PROVE  PlaceInv'
  <1> DEFINE f == Head(rq[w])
  <1>0. rq \in [Workers -> Seq(Fibers)] /\ gq \in Seq(Fibers) /\ IsInjective(gq) /\ \A v \in Workers : IsInjective(rq[v])
    BY DEF PlaceInv, TypeOK, Apart
  <1>1. /\ f \in Fibers /\ f \in ToSet(rq[w])
        /\ Tail(rq[w]) \in Seq(Fibers) /\ IsInjective(Tail(rq[w])) /\ ToSet(Tail(rq[w])) = ToSet(rq[w]) \ {f}
    BY <1>0, HeadOff
  <1> HIDE DEF f
  <1>2. /\ rq' \in [Workers -> Seq(Fibers)]
        /\ \A v \in Workers : rq'[v] = IF v = w THEN Tail(rq[w]) ELSE rq[v]
    BY <1>0, <1>1
  <1>3. \A v \in Workers : IsInjective(rq'[v])
    BY <1>0, <1>1, <1>2
  <1>a. \A x \in Fibers, u, v \in Workers :
            /\ x \in ToSet(rq[v]) /\ x \in ToSet(rq[u]) => u = v
            /\ x \in ToSet(rq[v]) => x \notin ToSet(gq)
    BY DEF PlaceInv, Apart
  <1>4. ASSUME NEW v \in Workers, NEW x \in ToSet(rq'[v]) PROVE x \in ToSet(rq[v]) /\ x # f
    <2>1. CASE v = w
      BY <2>1, <1>1, <1>2
    <2>2. CASE v # w
      <3>1. rq'[v] = rq[v]
        BY <2>2, <1>2
      <3>2. x \in Fibers
        BY <1>0, <3>1, EmptyQueue
      <3> QED BY <2>2, <3>1, <3>2, <1>1, <1>a
    <2> QED BY <2>1, <2>2
  <1>5. InQueue(f)
    BY <1>1 DEF InQueue
  <1>6. \A x \in Fibers : x \in ToSet(gq') => InQueue(x) /\ x # f
    BY <1>1, <1>a DEF InQueue
  <1>7. \A x \in Fibers, v \in Workers : x \in ToSet(rq'[v]) => InQueue(x) /\ x # f /\ x \notin ToSet(gq')
    BY <1>4, <1>a DEF InQueue
  <1>8. \A x \in Fibers, u, v \in Workers : x \in ToSet(rq'[v]) /\ x \in ToSet(rq'[u]) => u = v
    BY <1>4, <1>a
  <1>9. WakeThen(w, 0, "body") /\ RunFiber(w, f)
    BY WakeNone DEF f
  <1> QED BY <1>0, <1>1, <1>2, <1>3, <1>5, <1>6, <1>7, <1>8, <1>9, Dispatch

\* A worker takes the first k of the global queue: the head to run, the others
\* behind what its own queue holds.
LEMMA GlobalBatch ==
    ASSUME PlaceInv, NEW w \in Workers, NEW k \in 1 .. Len(gq),
           pc[w] \in {"popg", "batch1", "batch2"}, Goto(w, "body"), RunFiber(w, Head(gq)),
           rq' = [rq EXCEPT ![w] = @ \o SubSeq(gq, 2, k)], gq' = SubSeq(gq, k + 1, Len(gq)),
           UNCHANGED <<rseq, rseq_clock, admits, ioVars, pollVars, direct, g, tick, mode, want, ret, idle_waiters, shutdown>>
    PROVE  PlaceInv'
  <1> DEFINE f == Head(gq)
             own == SubSeq(gq, 2, k)
  <1>0. /\ rq \in [Workers -> Seq(Fibers)] /\ gq \in Seq(Fibers) /\ IsInjective(gq)
        /\ \A v \in Workers : IsInjective(rq[v])
        /\ g \in [Workers -> Nat]
    BY DEF PlaceInv, TypeOK, Apart
  <1>1. /\ f \in Fibers /\ f \in ToSet(gq)
        /\ own \in Seq(Fibers) /\ IsInjective(own) /\ ToSet(own) \subseteq ToSet(gq) \ {f}
        /\ gq' \in Seq(Fibers) /\ IsInjective(gq') /\ ToSet(gq') \subseteq ToSet(gq) \ {f}
        /\ ToSet(own) \cap ToSet(gq') = {}
    BY <1>0, BatchOff
  <1> HIDE DEF f, own
  <1>a. \A x \in Fibers, u, v \in Workers :
            /\ x \in ToSet(rq[v]) /\ x \in ToSet(rq[u]) => u = v
            /\ x \in ToSet(rq[v]) => x \notin ToSet(gq)
    BY DEF PlaceInv, Apart
  <1>b. ToSet(gq) \subseteq Fibers /\ \A v \in Workers : ToSet(rq[v]) \subseteq Fibers
    BY <1>0, EmptyQueue
  <1>c. ToSet(rq[w]) \cap ToSet(own) = {}
    BY <1>1, <1>a, <1>b
  <1>d. /\ rq[w] \o own \in Seq(Fibers) /\ IsInjective(rq[w] \o own)
        /\ ToSet(rq[w] \o own) = ToSet(rq[w]) \cup ToSet(own)
    BY <1>0, <1>1, <1>c, JoinQueues
  <1>2. /\ rq' \in [Workers -> Seq(Fibers)]
        /\ \A v \in Workers : rq'[v] = IF v = w THEN rq[w] \o own ELSE rq[v]
    BY <1>0, <1>d DEF own
  <1>3. \A v \in Workers : IsInjective(rq'[v])
    BY <1>0, <1>d, <1>2
  <1>4. ASSUME NEW v \in Workers, NEW x \in ToSet(rq'[v])
        PROVE  x \in ToSet(rq[v]) \/ (v = w /\ x \in ToSet(own))
    BY <1>d, <1>2
  <1>5. InQueue(f)
    BY <1>1 DEF InQueue
  <1>6. \A x \in Fibers : x \in ToSet(gq') => InQueue(x) /\ x # f
    BY <1>1 DEF InQueue
  <1>7. ASSUME NEW x \in Fibers, NEW v \in Workers, x \in ToSet(rq'[v])
        PROVE  InQueue(x) /\ x # f /\ x \notin ToSet(gq')
    <2>1. CASE x \in ToSet(rq[v])
      <3>1. x \notin ToSet(gq)
        BY <2>1, <1>a
      <3> QED BY <2>1, <3>1, <1>1 DEF InQueue
    <2>2. CASE x \in ToSet(own)
      BY <2>2, <1>1 DEF InQueue
    <2> QED BY <1>4, <1>7, <2>1, <2>2
  <1>8. ASSUME NEW x \in Fibers, NEW u \in Workers, NEW v \in Workers, x \in ToSet(rq'[v]), x \in ToSet(rq'[u])
        PROVE  u = v
    <2>1. ASSUME NEW y \in Workers, x \in ToSet(rq[y]) PROVE x \notin ToSet(own)
      BY <2>1, <1>1, <1>a
    <2> QED BY <1>4, <1>8, <1>a, <2>1
  <1>9. WakeThen(w, 0, "body") /\ RunFiber(w, f)
    BY WakeNone DEF f
  <1> QED BY <1>0, <1>1, <1>2, <1>3, <1>5, <1>6, <1>7, <1>8, <1>9, Dispatch

\* The own queue had nothing to give: on to the next place to look.
LEMMA AfterPopStep ==
    ASSUME PlaceInv, NEW w \in Workers, pc[w] \in {"pop", "popl", "batch1"}, ToAfterPop(w),
           UNCHANGED <<queueVars, ioVars, pollVars, direct, cur, tick, want, ret, idle_waiters, shutdown>>,
           g' \in [Workers -> Nat]
    PROVE  PlaceInv'
  <1> DEFINE l == IF Netpoller THEN "poll" ELSE "steal"
  <1>1. l \in WorkerPcs \ {"release", "asleep", "woken"} /\ Goto(w, l)
    BY DEF WorkerPcs, ToAfterPop
  <1>2. /\ mode \in [Workers -> {"block", "nowait", "cadence"}] /\ tick \in [Workers -> BOOLEAN]
        /\ started \in BOOLEAN /\ sleeping \in BOOLEAN /\ poked \in BOOLEAN /\ shutdown \in BOOLEAN
        /\ lease \in Workers \cup {NoWorker}
    BY DEF PlaceInv, TypeOK
  <1>3. mode' \in [Workers -> {"block", "nowait", "cadence"}]
    BY <1>2 DEF ToAfterPop
  <1> HIDE DEF l
  <1> QED BY <1>1, <1>2, <1>3, LookElsewhere DEF pollVars

\* The three pops keep the invariant.
LEMMA PopSteps ==
    ASSUME PlaceInv, NEW w \in Workers, PopOldest(w) \/ PopGlobal(w) \/ PopLocal(w)
    PROVE  PlaceInv'
  <1>t. /\ g \in [Workers -> Nat] /\ tick \in [Workers -> BOOLEAN]
        /\ mode \in [Workers -> {"block", "nowait", "cadence"}]
        /\ started \in BOOLEAN /\ sleeping \in BOOLEAN /\ poked \in BOOLEAN /\ shutdown \in BOOLEAN
        /\ lease \in Workers \cup {NoWorker}
        /\ gq \in Seq(Fibers) /\ rq \in [Workers -> Seq(Fibers)]
    BY DEF PlaceInv, TypeOK
  <1>l. {"batch1", "popg", "popl"} \subseteq WorkerPcs \ {"release", "asleep", "woken"}
    BY DEF WorkerPcs
  <1>1. CASE PopOldest(w)
    <2>0. /\ g' \in [Workers -> Nat] /\ pc[w] = "pop"
          /\ UNCHANGED <<gq, rseq, rseq_clock, admits, ioVars, pollVars, direct, tick, want, ret, idle_waiters, shutdown>>
      BY <1>1, <1>t DEF PopOldest
    <2>1. CASE /\ rq[w] # <<>> /\ RunFiber(w, Head(rq[w])) /\ rq' = [rq EXCEPT ![w] = Tail(@)]
               /\ Goto(w, "body") /\ UNCHANGED mode
      BY <2>0, <2>1, OwnHead
    <2>2. CASE ToAfterPop(w) /\ UNCHANGED <<rq, cur>>
      BY <2>0, <2>2, AfterPopStep DEF queueVars
    <2>3. CASE Goto(w, IF rq[w] = <<>> THEN "batch1" ELSE "popg") /\ UNCHANGED <<rq, cur, mode>>
      <3>1. (IF rq[w] = <<>> THEN "batch1" ELSE "popg") \in WorkerPcs \ {"release", "asleep", "woken"}
        BY <1>l
      <3> QED BY <2>0, <2>3, <3>1, <1>t, LookElsewhere DEF queueVars, pollVars
    <2> QED BY <1>1, <2>1, <2>2, <2>3 DEF PopOldest
  <1>2. CASE PopGlobal(w)
    <2>0. /\ pc[w] = "popg"
          /\ UNCHANGED <<rq, rseq, rseq_clock, admits, ioVars, pollVars, direct, g, tick, mode, want, ret, idle_waiters, shutdown>>
      BY <1>2 DEF PopGlobal
    <2>1. CASE gq # <<>> /\ RunFiber(w, Head(gq)) /\ gq' = Tail(gq) /\ Goto(w, "body")
      <3>1. 1 \in 1 .. Len(gq) /\ Tail(gq) = SubSeq(gq, 1 + 1, Len(gq))
        BY <2>1, <1>t, TailIsSubSeq
      <3>2. SubSeq(gq, 2, 1) = <<>> /\ rq[w] \o <<>> = rq[w]
        BY <1>t, SubSeqEmpty, ConcatEmptySeq
      <3>3. rq' = [rq EXCEPT ![w] = @ \o SubSeq(gq, 2, 1)]
        BY <2>0, <3>2, <1>t
      <3> QED BY <2>0, <2>1, <3>1, <3>3, GlobalBatch
    <2>2. CASE Goto(w, "popl") /\ UNCHANGED <<gq, cur>>
      BY <2>0, <2>2, <1>l, <1>t, LookElsewhere DEF queueVars, pollVars
    <2> QED BY <1>2, <2>1, <2>2 DEF PopGlobal
  <1>3. CASE PopLocal(w)
    <2>0. /\ pc[w] = "popl"
          /\ UNCHANGED <<gq, rseq, rseq_clock, admits, ioVars, pollVars, direct, tick, g, want, ret, idle_waiters, shutdown>>
      BY <1>3 DEF PopLocal
    <2>1. CASE /\ rq[w] # <<>> /\ RunFiber(w, Head(rq[w])) /\ rq' = [rq EXCEPT ![w] = Tail(@)]
               /\ Goto(w, "body") /\ UNCHANGED mode
      BY <2>0, <2>1, <1>t, OwnHead
    <2>2. CASE ToAfterPop(w) /\ UNCHANGED <<rq, cur>>
      BY <2>0, <2>2, <1>t, AfterPopStep DEF queueVars
    <2> QED BY <1>3, <2>1, <2>2 DEF PopLocal
  <1> QED BY <1>1, <1>2, <1>3

\* The fair share of a global queue that is not empty: one fiber at least, and
\* never more than there are.
LEMMA FairShare ==
    ASSUME TypeOK, gq # <<>>
    PROVE  BatchSize \in 1 .. Len(gq)
  <1>1. Len(gq) \in Nat /\ Len(gq) >= 1
    BY DEF TypeOK
  <1>2. Cardinality(Workers) \in Nat /\ Cardinality(Workers) > 0
    BY BoundsAssumption, FS_CardinalityType, FS_EmptySet
  <1>3. BatchCap \in Nat /\ BatchCap >= 1
    BY BoundsAssumption
  <1> DEFINE m == Len(gq)
             n == Cardinality(Workers)
             c == BatchCap
             q == m \div n
  <1>4. q \in Nat
    <2>1. m \in Nat /\ n \in Nat /\ n > 0
      BY <1>1, <1>2
    <2> HIDE DEF m, n
    <2> QED BY <2>1
  <1>5. m \in Nat /\ m >= 1 /\ c \in Nat /\ c >= 1
    BY <1>1, <1>3
  <1>6. BatchSize = Lesser(Lesser(q + 1, c), m)
    BY DEF BatchSize
  <1> HIDE DEF m, n, c, q
  <1>7. BatchSize \in 1 .. m
    BY <1>4, <1>5, <1>6 DEF Lesser
  <1> QED BY <1>7 DEF m

\* A batch from the global queue keeps the invariant (ffi:7310).
LEMMA BatchStep ==
    ASSUME PlaceInv, NEW w \in Workers, TakeGlobalBatch(w)
    PROVE  PlaceInv'
  <1>t. /\ g \in [Workers -> Nat] /\ tick \in [Workers -> BOOLEAN]
        /\ mode \in [Workers -> {"block", "nowait", "cadence"}]
        /\ started \in BOOLEAN /\ sleeping \in BOOLEAN /\ poked \in BOOLEAN /\ shutdown \in BOOLEAN
        /\ lease \in Workers \cup {NoWorker}
    BY DEF PlaceInv, TypeOK
  <1>0. /\ pc[w] \in {"batch1", "batch2"}
        /\ UNCHANGED <<rseq, rseq_clock, admits, ioVars, pollVars, direct, tick, g, want, ret, idle_waiters, shutdown>>
    BY DEF TakeGlobalBatch
  <1>1. CASE /\ gq # <<>> /\ RunFiber(w, Head(gq)) /\ rq' = [rq EXCEPT ![w] = @ \o SubSeq(gq, 2, BatchSize)]
             /\ gq' = SubSeq(gq, BatchSize + 1, Len(gq)) /\ Goto(w, "body") /\ UNCHANGED mode
    <2>1. BatchSize \in 1 .. Len(gq)
      BY <1>1, FairShare DEF PlaceInv
    <2> QED BY <1>0, <1>1, <2>1, GlobalBatch
  <1>2. CASE pc[w] = "batch1" /\ ToAfterPop(w) /\ UNCHANGED <<rq, gq, cur>>
    BY <1>0, <1>2, <1>t, AfterPopStep DEF queueVars
  <1>3. CASE Goto(w, IF Netpoller THEN "poll" ELSE "idle") /\ UNCHANGED <<rq, gq, cur, mode>>
    <2>1. (IF Netpoller THEN "poll" ELSE "idle") \in WorkerPcs \ {"release", "asleep", "woken"}
      BY DEF WorkerPcs
    <2> QED BY <1>0, <1>3, <2>1, <1>t, LookElsewhere DEF queueVars, pollVars
  <1> QED BY <1>1, <1>2, <1>3 DEF TakeGlobalBatch

\* The thief takes the front half: its head to run, the others behind its own.
LEMMA StealStep ==
    ASSUME PlaceInv, NEW w \in Workers, NEW z \in Workers, Steal(w, z)
    PROVE  PlaceInv'
  <1> DEFINE take == Len(rq[z]) \div 2
             f == Head(rq[z])
             haul == SubSeq(rq[z], 2, take)
             left == SubSeq(rq[z], take + 1, Len(rq[z]))
             n == IF rq[w] # <<>> \/ take > 1 THEN 1 ELSE 0
  <1>0. /\ rq \in [Workers -> Seq(Fibers)] /\ gq \in Seq(Fibers) /\ IsInjective(gq)
        /\ \A v \in Workers : IsInjective(rq[v])
        /\ g \in [Workers -> Nat]
    BY DEF PlaceInv, TypeOK, Apart
  <1>s. /\ pc[w] = "steal" /\ z # w
        /\ rq' = [rq EXCEPT ![z] = left, ![w] = @ \o haul]
        /\ RunFiber(w, f) /\ WakeThen(w, n, "body")
        /\ UNCHANGED <<gq, rseq, rseq_clock, admits, ioVars, pollVars, direct, g, tick, mode, idle_waiters, shutdown>>
    BY <1>0 DEF Steal
  <1>n. n \in Nat
    OBVIOUS
  <1>k. take \in 1 .. Len(rq[z])
    <2>1. Len(rq[z]) \in Nat /\ Len(rq[z]) >= 2
      BY <1>0 DEF Steal
    <2>2. \A m \in Nat : m >= 2 => m \div 2 \in 1 .. m
      OBVIOUS
    <2> QED BY <2>1, <2>2
  <1>1. /\ f \in Fibers /\ f \in ToSet(rq[z])
        /\ haul \in Seq(Fibers) /\ IsInjective(haul) /\ ToSet(haul) \subseteq ToSet(rq[z]) \ {f}
        /\ left \in Seq(Fibers) /\ IsInjective(left) /\ ToSet(left) \subseteq ToSet(rq[z]) \ {f}
        /\ ToSet(haul) \cap ToSet(left) = {}
    <2>1. rq[z] \in Seq(Fibers) /\ IsInjective(rq[z])
      BY <1>0
    <2> HIDE DEF take
    <2> QED BY <2>1, <1>k, BatchOff
  <1> HIDE DEF f, haul, left, n, take
  <1>a. \A x \in Fibers, u, v \in Workers :
            /\ x \in ToSet(rq[v]) /\ x \in ToSet(rq[u]) => u = v
            /\ x \in ToSet(rq[v]) => x \notin ToSet(gq)
    BY DEF PlaceInv, Apart
  <1>b. ToSet(gq) \subseteq Fibers /\ \A v \in Workers : ToSet(rq[v]) \subseteq Fibers
    BY <1>0, EmptyQueue
  <1>c. ToSet(rq[w]) \cap ToSet(haul) = {}
    BY <1>1, <1>a, <1>b, <1>s
  <1>d. /\ rq[w] \o haul \in Seq(Fibers) /\ IsInjective(rq[w] \o haul)
        /\ ToSet(rq[w] \o haul) = ToSet(rq[w]) \cup ToSet(haul)
    BY <1>0, <1>1, <1>c, JoinQueues
  <1>2. /\ rq' \in [Workers -> Seq(Fibers)]
        /\ rq'[w] = rq[w] \o haul /\ rq'[z] = left
        /\ \A v \in Workers : v # w /\ v # z => rq'[v] = rq[v]
    BY <1>0, <1>1, <1>d, <1>s
  <1>3. \A v \in Workers : IsInjective(rq'[v])
    BY <1>0, <1>1, <1>d, <1>2
  <1>4. ASSUME NEW v \in Workers, NEW x \in ToSet(rq'[v])
        PROVE  \/ v = w /\ x \in ToSet(haul)
               \/ v = z /\ x \in ToSet(left)
               \/ v # z /\ x \in ToSet(rq[v])
    BY <1>d, <1>2, <1>s
  <1>5. InQueue(f)
    BY <1>1 DEF InQueue
  <1>6. \A x \in Fibers : x \in ToSet(gq') => InQueue(x) /\ x # f
    BY <1>1, <1>a, <1>s DEF InQueue
  <1>7. ASSUME NEW x \in Fibers, NEW v \in Workers, x \in ToSet(rq'[v])
        PROVE  InQueue(x) /\ x # f /\ x \notin ToSet(gq')
    <2>1. CASE x \in ToSet(haul) \cup ToSet(left)
      BY <2>1, <1>1, <1>a, <1>s DEF InQueue
    <2>2. CASE v # z /\ x \in ToSet(rq[v])
      BY <2>2, <1>1, <1>a, <1>s DEF InQueue
    <2> QED BY <1>4, <1>7, <2>1, <2>2
  <1>8. ASSUME NEW x \in Fibers, NEW u \in Workers, NEW v \in Workers, x \in ToSet(rq'[v]), x \in ToSet(rq'[u])
        PROVE  u = v
    <2>1. ASSUME NEW y \in Workers, y # z, x \in ToSet(rq[y]) PROVE x \notin ToSet(haul) /\ x \notin ToSet(left)
      BY <2>1, <1>1, <1>a
    <2>2. \/ v = w /\ x \in ToSet(haul)
          \/ v = z /\ x \in ToSet(left)
          \/ v # z /\ x \in ToSet(rq[v])
      BY <1>4, <1>8
    <2>3. \/ u = w /\ x \in ToSet(haul)
          \/ u = z /\ x \in ToSet(left)
          \/ u # z /\ x \in ToSet(rq[u])
      BY <1>4, <1>8
    <2>4. ~(x \in ToSet(haul) /\ x \in ToSet(left))
      BY <1>1
    <2> QED BY <2>1, <2>2, <2>3, <2>4, <1>a
  <1> QED BY <1>0, <1>1, <1>2, <1>3, <1>5, <1>6, <1>7, <1>8, <1>n, <1>s, Dispatch

\* The stamps of pushed fibers are past the clock they were drawn from.
LEMMA StampedFacts ==
    ASSUME TypeOK, NEW s \in Seq(Fibers)
    PROVE  /\ Stamped(s) \in [Fibers -> Nat]
           /\ \A f \in Fibers : f \notin ToSet(s) => Stamped(s)[f] = rseq[f]
           /\ \A f \in ToSet(s) : \E i \in 1 .. Len(s) : s[i] = f /\ Stamped(s)[f] = rseq_clock + i
  <1>0. rseq \in [Fibers -> Nat] /\ rseq_clock \in Nat /\ Len(s) \in Nat /\ DOMAIN s = 1 .. Len(s)
        /\ ToSet(s) \subseteq Fibers
    BY EmptyQueue DEF TypeOK
  <1>1. ASSUME NEW f \in ToSet(s) PROVE \E i \in 1 .. Len(s) : s[i] = f /\ Stamped(s)[f] = rseq_clock + i
    <2> DEFINE i == CHOOSE i \in DOMAIN s : s[i] = f
    <2>1. \E j \in DOMAIN s : s[j] = f
      BY <1>0, <1>1, InToSet
    <2>2. i \in 1 .. Len(s) /\ s[i] = f
      BY <2>1, <1>0
    <2>3. Stamped(s)[f] = rseq_clock + i
      BY <1>0, <1>1 DEF Stamped
    <2> QED BY <2>2, <2>3
  <1>2. ASSUME NEW f \in Fibers, f \notin ToSet(s) PROVE Stamped(s)[f] = rseq[f]
    BY <1>2 DEF Stamped
  <1>3. ASSUME NEW f \in Fibers PROVE Stamped(s)[f] \in Nat
    <2>1. CASE f \in ToSet(s)
      <3>1. PICK i \in 1 .. Len(s) : Stamped(s)[f] = rseq_clock + i
        BY <1>1, <2>1
      <3> QED BY <3>1, <1>0
    <2>2. CASE f \notin ToSet(s)
      BY <2>2, <1>2, <1>0
    <2> QED BY <2>1, <2>2
  <1>4. Stamped(s) = [f \in Fibers |-> Stamped(s)[f]]
    BY DEF Stamped
  <1> QED BY <1>1, <1>2, <1>3, <1>4

\* A parked or finished fiber is in none of the places.
LEMMA OutNowhere ==
    ASSUME PlaceInv, NEW f \in Out
    PROVE  /\ f \in Fibers /\ io[f] = "no" /\ ~InQueue(f)
           /\ \A v \in Workers : f # cur[v] /\ f # direct[v]
  <1>0. NoFiber \notin Fibers
    BY BoundsAssumption
  <1>1. f \in Fibers /\ f \notin Queued /\ f \notin Held /\ f \notin Waiting
    BY DEF Out
  <1>2. io[f] = "no"
    BY <1>1 DEF Waiting
  <1>3. ~InQueue(f)
    <2> DEFINE Q == UNION {ToSet(rq[w]) : w \in Workers}
    <2>0. Queued = Q \cup ToSet(gq)
      BY DEF Queued
    <2>2. ASSUME NEW v \in Workers, f \in ToSet(rq[v]) PROVE f \in Q
      BY <2>2
    <2> HIDE DEF Q
    <2>1. f \notin ToSet(gq) /\ f \notin Q
      BY <1>1, <2>0
    <2> QED BY <2>1, <2>2 DEF InQueue
  <1>4. \A v \in Workers : f # cur[v] /\ f # direct[v]
    BY <1>0, <1>1 DEF Held, Running
  <1> QED BY <1>1, <1>2, <1>3, <1>4

\* A fiber that was nowhere enters a queue.
LEMMA Enqueue ==
    ASSUME PlaceInv, NEW a \in Actors, NEW f \in Out, NEW n \in Nat,
           pc[a] = "body", WakeThen(a, n, "body"),
           UNCHANGED <<ioVars, pollVars, direct, cur, g, tick, mode, idle_waiters, shutdown>>,
           rseq' \in [Fibers -> Nat], rseq_clock' \in Nat, admits' \in Nat,
           rq' \in [Workers -> Seq(Fibers)], gq' \in Seq(Fibers),
           IsInjective(gq'), \A v \in Workers : IsInjective(rq'[v]),
           \A x \in Fibers : x \in ToSet(gq') => x \in ToSet(gq) \/ x = f,
           \A x \in Fibers, v \in Workers : x \in ToSet(rq'[v]) => x \in ToSet(rq[v]) \/ x = f,
           \A v \in Workers : f \in ToSet(rq'[v]) => f \notin ToSet(gq'),
           \A u, v \in Workers : f \in ToSet(rq'[v]) /\ f \in ToSet(rq'[u]) => u = v
    PROVE  PlaceInv'
  <1>a. \A v \in Workers : v \in Actors
    BY DEF Actors
  <1>k. /\ \A b \in Actors : b # a => pc'[b] = pc[b] /\ ret'[b] = ret[b]
        /\ pc'[a] = "body" \/ (pc'[a] = "wake" /\ ret'[a] = "body")
        /\ pc' \in [Actors -> WorkerPcs \cup ThreadPcs \cup {"body", "wake", "poke"}]
        /\ want' \in [Actors -> Nat] /\ ret' \in [Actors -> {"body", "release"}]
    BY <1>a, WakeThenFacts DEF PlaceInv
  <1>c. cur' = cur /\ direct' = direct /\ io' = io
    BY DEF ioVars
  <1>1. TypeOK'
    BY <1>k DEF PlaceInv, TypeOK, ioVars, pollVars
  <1>2. HeldInv'
    <2> SUFFICES ASSUME NEW v \in Workers PROVE HeldInv!(v)'
      BY DEF HeldInv
    <2>1. CASE v # a
      <3>1. pc'[v] = pc[v] /\ ret'[v] = ret[v]
        BY <2>1, <1>a, <1>k
      <3> QED BY <3>1, <1>c DEF PlaceInv, HeldInv
    <2>2. CASE v = a
      <3>1. cur[v] # NoFiber /\ direct[v] = NoFiber
        BY <2>2 DEF PlaceInv, HeldInv
      <3> QED BY <2>2, <3>1, <1>c, <1>k
    <2> QED BY <2>1, <2>2
  <1>3. ReadyInv'
    BY DEF PlaceInv, ReadyInv, ioVars
  <1>4. Apart'
    <2>f. f \in Fibers /\ io[f] = "no" /\ ~InQueue(f) /\ \A v \in Workers : f # cur[v] /\ f # direct[v]
      BY OutNowhere
    <2>g. f \notin ToSet(gq) /\ \A v \in Workers : f \notin ToSet(rq[v])
      BY <2>f DEF InQueue
    <2>o. \A x \in Fibers : InQueue(x) => io[x] = "no" /\ \A v \in Workers : x # cur[v] /\ x # direct[v]
      BY ApartQueued DEF PlaceInv
    <2>h. \A x \in Fibers, u, v \in Workers :
              /\ x \in ToSet(rq[u]) /\ x \in ToSet(rq[v]) => u = v
              /\ x \in ToSet(rq[u]) => x \notin ToSet(gq)
              /\ x = cur[u] /\ x = cur[v] => u = v
              /\ x = direct[u] /\ x = direct[v] => u = v
              /\ x = cur[u] => x # direct[v]
      BY DEF PlaceInv, Apart
    <2>j. \A x \in Fibers, v \in Workers : x = cur[v] \/ x = direct[v] => io[x] = "no" /\ ~InQueue(x)
      BY ApartHeld DEF PlaceInv
    <2>q. /\ \A x \in Fibers : x \in ToSet(gq') => InQueue(x) \/ x = f
          /\ \A x \in Fibers, v \in Workers : x \in ToSet(rq'[v]) => InQueue(x) \/ x = f
      BY DEF InQueue
    <2>1. ASSUME NEW x \in Fibers, NEW u \in Workers, NEW v \in Workers
          PROVE  /\ x \in ToSet(rq'[u]) /\ x \in ToSet(rq'[v]) => u = v
                 /\ x \in ToSet(rq'[u]) => x # cur'[v] /\ x # direct'[v]
                 /\ x = cur'[u] /\ x = cur'[v] => u = v
                 /\ x = direct'[u] /\ x = direct'[v] => u = v
                 /\ x = cur'[u] => x # direct'[v]
      <3>1. x \in ToSet(rq'[u]) /\ x \in ToSet(rq'[v]) => u = v
        <4>1. CASE x = f
          BY <4>1
        <4>2. CASE x # f
          BY <4>2, <2>h
        <4> QED BY <4>1, <4>2
      <3>2. x \in ToSet(rq'[u]) => x # cur'[v] /\ x # direct'[v]
        BY <2>f, <2>o, <2>q, <1>c
      <3>3. /\ x = cur'[u] /\ x = cur'[v] => u = v
            /\ x = direct'[u] /\ x = direct'[v] => u = v
            /\ x = cur'[u] => x # direct'[v]
        BY <2>h, <1>c
      <3> QED BY <3>1, <3>2, <3>3
    <2>2. ASSUME NEW x \in Fibers
          PROVE  /\ x \in ToSet(gq') => io'[x] = "no"
                 /\ \A v \in Workers : x \in ToSet(rq'[v]) \/ x = cur'[v] \/ x = direct'[v] =>
                        x \notin ToSet(gq') /\ io'[x] = "no"
      <3>1. CASE x = f
        BY <3>1, <2>f, <1>c
      <3>2. CASE x # f
        <4>1. x \in ToSet(gq') => x \in ToSet(gq) /\ InQueue(x)
          BY <3>2 DEF InQueue
        <4>2. ASSUME NEW v \in Workers PROVE x \in ToSet(rq'[v]) => x \in ToSet(rq[v]) /\ InQueue(x)
          BY <3>2 DEF InQueue
        <4> QED BY <4>1, <4>2, <2>h, <2>o, <2>j, <1>c
      <3> QED BY <3>1, <3>2
    <2> QED BY <2>1, <2>2 DEF Apart
  <1>5. IdleCountExact'
    <2>1. \A v \in Workers : pc'[v] \in {"asleep", "woken"} <=> pc[v] \in {"asleep", "woken"}
      BY <1>a, <1>k
    <2> QED BY <2>1, IdleKept DEF PlaceInv
  <1> QED BY <1>1, <1>2, <1>3, <1>4, <1>5 DEF PlaceInv

\* A fiber joins a queue at its tail, or at its head.
LEMMA JoinOne ==
    ASSUME NEW s \in Seq(Fibers), IsInjective(s), NEW f \in Fibers, f \notin ToSet(s)
    PROVE  /\ Append(s, f) \in Seq(Fibers) /\ IsInjective(Append(s, f)) /\ ToSet(Append(s, f)) = ToSet(s) \cup {f}
           /\ <<f>> \o s \in Seq(Fibers) /\ IsInjective(<<f>> \o s) /\ ToSet(<<f>> \o s) = ToSet(s) \cup {f}
  <1> DEFINE u == <<f>>
  <1>1. u \in Seq(Fibers) /\ ToSet(u) = {f} /\ IsInjective(u)
    BY OneQueue
  <1>2. Append(s, f) = s \o u
    BY AppendIsConcat
  <1> HIDE DEF u
  <1>3. ToSet(s) \cap ToSet(u) = {} /\ ToSet(u) \cap ToSet(s) = {}
    BY <1>1
  <1>4. s \o u \in Seq(Fibers) /\ IsInjective(s \o u) /\ ToSet(s \o u) = ToSet(s) \cup {f}
    BY <1>1, <1>3, JoinQueues
  <1>5. u \o s \in Seq(Fibers) /\ IsInjective(u \o s) /\ ToSet(u \o s) = ToSet(s) \cup {f}
    BY <1>1, <1>3, JoinQueues
  <1> QED BY <1>2, <1>4, <1>5 DEF u

\* A spawn on a worker keeps the invariant.
LEMMA SpawnStep ==
    ASSUME PlaceInv, NEW w \in Workers, NEW f \in Fibers, SpawnLocal(w, f)
    PROVE  PlaceInv'
  <1>0. /\ w \in Actors /\ f \in Out /\ pc[w] = "body" /\ 1 \in Nat /\ WakeThen(w, 1, "body")
        /\ rq' = [rq EXCEPT ![w] = Append(@, f)] /\ gq' = gq /\ rseq' = Stamped(<<f>>)
        /\ rseq_clock' = rseq_clock + 1 /\ admits' = admits
        /\ UNCHANGED <<ioVars, pollVars, direct, cur, g, tick, mode, idle_waiters, shutdown>>
    BY DEF SpawnLocal, PushLocal, Actors
  <1>t. /\ rq \in [Workers -> Seq(Fibers)] /\ gq \in Seq(Fibers) /\ rseq_clock \in Nat /\ admits \in Nat
        /\ IsInjective(gq) /\ \A v \in Workers : IsInjective(rq[v])
    BY DEF PlaceInv, TypeOK, Apart
  <1>f. f \notin ToSet(gq) /\ \A v \in Workers : f \notin ToSet(rq[v])
    BY <1>0, OutNowhere DEF InQueue
  <1>1. rseq' \in [Fibers -> Nat]
    BY <1>0, OneQueue, StampedFacts DEF PlaceInv
  <1>2. /\ Append(rq[w], f) \in Seq(Fibers) /\ IsInjective(Append(rq[w], f))
        /\ ToSet(Append(rq[w], f)) = ToSet(rq[w]) \cup {f}
    BY <1>t, <1>f, JoinOne
  <1>3. /\ rq' \in [Workers -> Seq(Fibers)] /\ rq'[w] = Append(rq[w], f)
        /\ \A v \in Workers : v # w => rq'[v] = rq[v]
    BY <1>0, <1>t, <1>2
  <1>4. \A v \in Workers : IsInjective(rq'[v])
    BY <1>t, <1>2, <1>3
  <1>5. ASSUME NEW v \in Workers, NEW x \in ToSet(rq'[v]) PROVE x \in ToSet(rq[v]) \/ (v = w /\ x = f)
    BY <1>2, <1>3
  <1>6. /\ \A x \in Fibers, v \in Workers : x \in ToSet(rq'[v]) => x \in ToSet(rq[v]) \/ x = f
        /\ \A v \in Workers : f \in ToSet(rq'[v]) => f \notin ToSet(gq')
        /\ \A u, v \in Workers : f \in ToSet(rq'[v]) /\ f \in ToSet(rq'[u]) => u = v
    BY <1>5, <1>f, <1>0
  <1>7. rseq_clock' \in Nat /\ admits' \in Nat
    BY <1>0, <1>t
  <1> QED BY <1>0, <1>t, <1>1, <1>3, <1>4, <1>6, <1>7, Enqueue

\* A push of a parked fiber at either end of the global queue keeps the invariant.
LEMMA GlobalPush ==
    ASSUME PlaceInv, NEW a \in Actors, NEW f \in Out, pc[a] = "body", WakeThen(a, 1, "body"),
           gq' = Append(gq, f) \/ gq' = <<f>> \o gq,
           rseq' \in [Fibers -> Nat], rseq_clock' \in Nat, admits' \in Nat,
           UNCHANGED <<rq, ioVars, pollVars, direct, cur, g, tick, mode, idle_waiters, shutdown>>
    PROVE  PlaceInv'
  <1>t. /\ rq \in [Workers -> Seq(Fibers)] /\ gq \in Seq(Fibers) /\ rq' = rq /\ 1 \in Nat
        /\ IsInjective(gq) /\ \A v \in Workers : IsInjective(rq[v])
        /\ UNCHANGED <<ioVars, pollVars, direct, cur, g, tick, mode, idle_waiters, shutdown>>
    BY DEF PlaceInv, TypeOK, Apart
  <1>f. f \in Fibers /\ f \notin ToSet(gq) /\ \A v \in Workers : f \notin ToSet(rq[v])
    BY OutNowhere DEF InQueue
  <1>1. gq' \in Seq(Fibers) /\ IsInjective(gq') /\ ToSet(gq') = ToSet(gq) \cup {f}
    <2> DEFINE behind == Append(gq, f)
               before == <<f>> \o gq
    <2>1. /\ behind \in Seq(Fibers) /\ IsInjective(behind) /\ ToSet(behind) = ToSet(gq) \cup {f}
          /\ before \in Seq(Fibers) /\ IsInjective(before) /\ ToSet(before) = ToSet(gq) \cup {f}
      BY <1>t, <1>f, JoinOne
    <2>2. gq' = behind \/ gq' = before
      OBVIOUS
    <2> HIDE DEF behind, before
    <2> QED BY <2>1, <2>2
  <1>2. /\ \A x \in Fibers : x \in ToSet(gq') => x \in ToSet(gq) \/ x = f
        /\ \A v \in Workers : f \notin ToSet(rq'[v])
        /\ \A v \in Workers : IsInjective(rq'[v])
        /\ \A x \in Fibers, v \in Workers : x \in ToSet(rq'[v]) => x \in ToSet(rq[v]) \/ x = f
    BY <1>1, <1>t, <1>f
  <1> QED BY <1>t, <1>1, <1>2, Enqueue

\* Both unparks keep the invariant.
LEMMA UnparkSteps ==
    ASSUME PlaceInv, NEW a \in Actors, NEW f \in Fibers, Unpark(a, f) \/ UnparkAdmit(a, f)
    PROVE  PlaceInv'
  <1>t. rseq \in [Fibers -> Nat] /\ rseq_clock \in Nat /\ admits \in Nat
    BY DEF PlaceInv, TypeOK
  <1>1. CASE Unpark(a, f)
    <2>1. Stamped(<<f>>) \in [Fibers -> Nat]
      BY OneQueue, StampedFacts DEF PlaceInv
    <2>3. rseq_clock + 1 \in Nat
      BY <1>t
    <2>2. /\ f \in Out /\ pc[a] = "body" /\ WakeThen(a, 1, "body")
          /\ gq' = Append(gq, f) /\ rseq' = Stamped(<<f>>) /\ rseq_clock' = rseq_clock + 1 /\ admits' = admits
          /\ UNCHANGED <<rq, ioVars, pollVars, direct, cur, g, tick, mode, idle_waiters, shutdown>>
      BY <1>1 DEF Unpark, PushGlobal
    <2> QED BY <1>t, <2>1, <2>2, <2>3, GlobalPush
  <1>2. CASE UnparkAdmit(a, f)
    <2>1. [rseq EXCEPT ![f] = RSEQ_ADMIT] \in [Fibers -> Nat] /\ admits + 1 \in Nat
      BY <1>t DEF RSEQ_ADMIT
    <2> QED BY <1>2, <1>t, <2>1, GlobalPush DEF UnparkAdmit
  <1> QED BY <1>1, <1>2

\* A worker switches out of its fiber f, which goes to the own queue, to a
\* reactor wait or nowhere.
LEMMA PutDown ==
    ASSUME PlaceInv, NEW w \in Workers, NEW f \in Fibers, f = cur[w],
           pc[w] = "body", Goto(w, "next"), cur' = [cur EXCEPT ![w] = NoFiber],
           UNCHANGED <<gq, ready, lease, sleeping, poked, direct, g, tick, mode, want, ret, idle_waiters, shutdown>>,
           rseq' \in [Fibers -> Nat], rseq_clock' \in Nat, admits' \in Nat, started' \in BOOLEAN,
           io' \in [Fibers -> {"no", "io", "accept"}], \A x \in Fibers : x # f => io'[x] = io[x],
           rq' \in [Workers -> Seq(Fibers)], \A v \in Workers : IsInjective(rq'[v]),
           \A x \in Fibers, v \in Workers : x \in ToSet(rq'[v]) => x \in ToSet(rq[v]) \/ (v = w /\ x = f),
           f \in ToSet(rq'[w]) => io'[f] = "no"
    PROVE  PlaceInv'
  <1>p. /\ w \in Actors /\ \A v \in Workers : v \in Actors
        /\ pc \in [Actors -> WorkerPcs \cup ThreadPcs \cup {"body", "wake", "poke"}]
        /\ pc' = [pc EXCEPT ![w] = "next"]
        /\ cur \in [Workers -> Fibers \cup {NoFiber}] /\ NoFiber \notin Fibers
    BY BoundsAssumption DEF PlaceInv, TypeOK, Actors, Goto
  <1>c. \A v \in Workers : cur'[v] = IF v = w THEN NoFiber ELSE cur[v]
    BY <1>p
  <1>1. TypeOK'
    <2>1. pc' \in [Actors -> WorkerPcs \cup ThreadPcs \cup {"body", "wake", "poke"}]
      BY <1>p DEF WorkerPcs
    <2>2. cur' \in [Workers -> Fibers \cup {NoFiber}]
      BY <1>p
    <2>3. TypeOK
      BY DEF PlaceInv
    <2> QED BY <2>1, <2>2, <2>3, SMTT(30) DEF TypeOK
  <1>2. HeldInv'
    <2> SUFFICES ASSUME NEW v \in Workers PROVE HeldInv!(v)'
      BY DEF HeldInv
    <2>1. CASE v # w
      <3>1. cur'[v] = cur[v] /\ direct'[v] = direct[v] /\ pc'[v] = pc[v] /\ ret'[v] = ret[v]
        BY <2>1, <1>p
      <3> QED BY <3>1 DEF PlaceInv, HeldInv
    <2>2. CASE v = w
      <3>1. cur'[w] = NoFiber /\ direct'[w] = NoFiber /\ pc'[w] = "next"
        BY <1>p DEF PlaceInv, HeldInv
      <3> QED BY <2>2, <3>1
    <2> QED BY <2>1, <2>2
  <1>f. io[f] = "no" /\ ~InQueue(f)
    BY ApartHeld DEF PlaceInv
  <1>3. ReadyInv'
    <2>1. ready \subseteq Fibers /\ \A x \in ready : io[x] # "no"
      BY DEF PlaceInv, ReadyInv, TypeOK
    <2>2. \A x \in ready : x # f
      BY <2>1, <1>f
    <2> QED BY <2>1, <2>2 DEF ReadyInv
  <1>4. Apart'
    <2>g. f \notin ToSet(gq) /\ \A v \in Workers : f \notin ToSet(rq[v])
      BY <1>f DEF InQueue
    <2>o. \A x \in Fibers : InQueue(x) => io[x] = "no" /\ \A v \in Workers : x # cur[v] /\ x # direct[v]
      BY ApartQueued DEF PlaceInv
    <2>h. \A x \in Fibers, u, v \in Workers :
              /\ x \in ToSet(rq[u]) /\ x \in ToSet(rq[v]) => u = v
              /\ x \in ToSet(rq[u]) => x \notin ToSet(gq)
              /\ x = cur[u] /\ x = cur[v] => u = v
              /\ x = direct[u] /\ x = direct[v] => u = v
              /\ x = cur[u] => x # direct[v]
      BY DEF PlaceInv, Apart
    <2>j. \A x \in Fibers, v \in Workers : x = cur[v] \/ x = direct[v] => io[x] = "no" /\ ~InQueue(x)
      BY ApartHeld DEF PlaceInv
    <2>n. \A v \in Workers : f # cur'[v] /\ f # direct[v]
      <3>1. ASSUME NEW v \in Workers PROVE f # cur'[v]
        <4>1. CASE v = w
          BY <4>1, <1>c, <1>p
        <4>2. CASE v # w
          BY <4>2, <1>c, <2>h
        <4> QED BY <4>1, <4>2
      <3> QED BY <3>1, <2>h
    <2>d. \A x \in Fibers, v \in Workers : x = cur'[v] => v # w /\ x = cur[v]
      BY <1>c, <1>p
    <2>1. ASSUME NEW x \in Fibers, NEW u \in Workers, NEW v \in Workers
          PROVE  /\ x \in ToSet(rq'[u]) /\ x \in ToSet(rq'[v]) => u = v
                 /\ x \in ToSet(rq'[u]) => x # cur'[v] /\ x # direct'[v]
                 /\ x = cur'[u] /\ x = cur'[v] => u = v
                 /\ x = direct'[u] /\ x = direct'[v] => u = v
                 /\ x = cur'[u] => x # direct'[v]
      <3>1. x \in ToSet(rq'[u]) /\ x \in ToSet(rq'[v]) => u = v
        <4>1. CASE x = f
          BY <4>1, <2>g
        <4>2. CASE x # f
          BY <4>2, <2>h
        <4> QED BY <4>1, <4>2
      <3>2. x \in ToSet(rq'[u]) => x # cur'[v] /\ x # direct'[v]
        <4>1. CASE x = f
          BY <4>1, <2>n
        <4>2. CASE x # f
          <5>1. x \in ToSet(rq'[u]) => InQueue(x)
            BY <4>2 DEF InQueue
          <5> QED BY <5>1, <2>o, <2>d
        <4> QED BY <4>1, <4>2
      <3>3. x = cur'[u] /\ x = cur'[v] => u = v
        BY <2>h, <2>d
      <3>4. x = direct'[u] /\ x = direct'[v] => u = v
        BY <2>h
      <3>5. x = cur'[u] => x # direct'[v]
        BY <2>h, <2>d
      <3> QED BY <3>1, <3>2, <3>3, <3>4, <3>5
    <2>2. ASSUME NEW x \in Fibers
          PROVE  /\ x \in ToSet(gq') => io'[x] = "no"
                 /\ \A v \in Workers : x \in ToSet(rq'[v]) \/ x = cur'[v] \/ x = direct'[v] =>
                        x \notin ToSet(gq') /\ io'[x] = "no"
      <3>1. CASE x = f
        BY <3>1, <2>g, <2>n
      <3>2. CASE x # f
        <4>0. io'[x] = io[x] /\ gq' = gq /\ direct' = direct
          BY <3>2
        <4>1. x \in ToSet(gq) => InQueue(x)
          BY DEF InQueue
        <4>2. ASSUME NEW v \in Workers PROVE x \in ToSet(rq'[v]) => x \in ToSet(rq[v]) /\ InQueue(x)
          BY <3>2 DEF InQueue
        <4> QED BY <4>0, <4>1, <4>2, <2>h, <2>o, <2>j, <2>d
      <3> QED BY <3>1, <3>2
    <2>3. IsInjective(gq')
      BY DEF PlaceInv, Apart
    <2> QED BY <2>1, <2>2, <2>3 DEF Apart
  <1>5. IdleCountExact'
    <2>1. \A v \in Workers : pc'[v] \in {"asleep", "woken"} <=> pc[v] \in {"asleep", "woken"}
      BY <1>p
    <2> QED BY <2>1, IdleKept DEF PlaceInv
  <1> QED BY <1>1, <1>2, <1>3, <1>4, <1>5 DEF PlaceInv

\* A fiber that yields, parks, finishes or waits for I/O keeps the invariant.
LEMMA SwitchOutSteps ==
    ASSUME PlaceInv, NEW w \in Workers,
           YieldTo(w) \/ ParkOrFinish(w) \/ \E kind \in {"io", "accept"} : ReactorWait(w, kind)
    PROVE  PlaceInv'
  <1> DEFINE f == cur[w]
  <1>t. /\ rq \in [Workers -> Seq(Fibers)] /\ gq \in Seq(Fibers) /\ rseq_clock \in Nat /\ admits \in Nat
        /\ rseq \in [Fibers -> Nat] /\ started \in BOOLEAN /\ io \in [Fibers -> {"no", "io", "accept"}]
        /\ \A v \in Workers : IsInjective(rq[v])
    BY DEF PlaceInv, TypeOK, Apart
  <1>0. pc[w] = "body" /\ Goto(w, "next") /\ cur' = [cur EXCEPT ![w] = NoFiber]
    BY DEF YieldTo, ParkOrFinish, ReactorWait, Leave
  <1>f. f \in Fibers
    BY <1>0 DEF PlaceInv, HeldInv, TypeOK
  <1>g. io[f] = "no" /\ ~InQueue(f)
    BY <1>f, ApartHeld DEF PlaceInv
  <1>h. f \notin ToSet(rq[w])
    BY <1>g DEF InQueue
  <1> HIDE DEF f
  <1>1. CASE YieldTo(w)
    <2>0. /\ rq' = [rq EXCEPT ![w] = Append(@, f)]
          /\ rseq_clock' = rseq_clock + 1 /\ admits' = admits
          /\ io' = io /\ started' = started
          /\ UNCHANGED <<gq, ready, lease, sleeping, poked, direct, g, tick, mode, want, ret, idle_waiters, shutdown>>
      BY <1>1 DEF YieldTo, PushLocal, f, ioVars, pollVars
    <2>1. rseq' \in [Fibers -> Nat]
      BY <1>1, <1>f, OneQueue, StampedFacts DEF PlaceInv, YieldTo, PushLocal, f
    <2>2. /\ Append(rq[w], f) \in Seq(Fibers) /\ IsInjective(Append(rq[w], f))
          /\ ToSet(Append(rq[w], f)) = ToSet(rq[w]) \cup {f}
      BY <1>t, <1>f, <1>g, JoinOne DEF InQueue
    <2>3. /\ rq' \in [Workers -> Seq(Fibers)] /\ rq'[w] = Append(rq[w], f)
          /\ \A v \in Workers : v # w => rq'[v] = rq[v]
      BY <2>0, <1>t, <2>2
    <2>4. /\ \A v \in Workers : IsInjective(rq'[v])
          /\ \A x \in Fibers, v \in Workers : x \in ToSet(rq'[v]) => x \in ToSet(rq[v]) \/ (v = w /\ x = f)
          /\ io'[f] = "no"
      BY <1>t, <1>g, <2>0, <2>2, <2>3
    <2>5. rseq_clock' \in Nat /\ admits' \in Nat /\ started' \in BOOLEAN
          /\ io' \in [Fibers -> {"no", "io", "accept"}] /\ \A x \in Fibers : x # f => io'[x] = io[x]
      BY <1>t, <2>0
    <2>6. UNCHANGED <<gq, ready, lease, sleeping, poked, direct, g, tick, mode, want, ret, idle_waiters, shutdown>>
      BY <2>0
    <2>7. f = cur[w]
      BY DEF f
    <2>8. rq' \in [Workers -> Seq(Fibers)]
      BY <2>3
    <2> QED BY <1>0, <1>f, <2>1, <2>4, <2>5, <2>6, <2>7, <2>8, PutDown
  <1>2. CASE ParkOrFinish(w)
    <2>0. /\ rq' = rq /\ rseq' = [rseq EXCEPT ![f] = 0]
          /\ rseq_clock' = rseq_clock /\ admits' = admits
          /\ io' = io /\ started' = started
          /\ UNCHANGED <<gq, ready, lease, sleeping, poked, direct, g, tick, mode, want, ret, idle_waiters, shutdown>>
      BY <1>2 DEF ParkOrFinish, ForgetStamp, f, ioVars, pollVars
    <2>1. rseq' \in [Fibers -> Nat]
      BY <2>0, <1>t
    <2> QED BY <1>0, <1>f, <1>h, <1>t, <2>0, <2>1, PutDown DEF f
  <1>3. ASSUME NEW kind \in {"io", "accept"}, ReactorWait(w, kind) PROVE PlaceInv'
    <2>0. /\ rq' = rq /\ rseq' = [rseq EXCEPT ![f] = 0]
          /\ rseq_clock' = rseq_clock /\ admits' = admits
          /\ io' = [io EXCEPT ![f] = kind] /\ started' = TRUE
          /\ UNCHANGED <<gq, ready, lease, sleeping, poked, direct, g, tick, mode, want, ret, idle_waiters, shutdown>>
      BY <1>3 DEF ReactorWait, ForgetStamp, f
    <2>1. rseq' \in [Fibers -> Nat] /\ started' \in BOOLEAN
          /\ io' \in [Fibers -> {"no", "io", "accept"}] /\ \A x \in Fibers : x # f => io'[x] = io[x]
      BY <2>0, <1>t
    <2> QED BY <1>0, <1>f, <1>h, <1>t, <2>0, <2>1, PutDown DEF f
  <1> QED BY <1>1, <1>2, <1>3

\* The greatest of a bounded set of places.
LEMMA GreatestPlace ==
    ASSUME NEW n \in Nat, NEW T \in SUBSET (1 .. n), T # {}
    PROVE  \E i \in T : \A j \in T : j <= i
  <1> DEFINE R == {ss \in Nat \X Nat : ss[1] < ss[2]}
             D == {n - i : i \in T}
  <1>1. IsWellFoundedOn(R, Nat)
    BY NatLessThanWellFounded DEF OpToRel
  <1>0. \A i \in T : n - i \in Nat
    OBVIOUS
  <1>2. D \in SUBSET Nat /\ D # {}
    BY <1>0
  <1>3. \A i \in T : n - i \in D
    OBVIOUS
  <1>4. \A d \in D : \E i \in T : d = n - i
    OBVIOUS
  <1>5. \A x, y \in Nat : y < x => <<y, x>> \in R
    OBVIOUS
  <1> HIDE DEF R, D
  <1>6. PICK d \in D : \A y \in D : ~(<<y, d>> \in R)
    BY <1>1, <1>2, WFMin
  <1>7. PICK i \in T : d = n - i
    BY <1>4
  <1>8. ASSUME NEW j \in T PROVE j <= i
    <2>1. n - j \in D /\ n - j \in Nat /\ n - i \in Nat /\ i \in Nat /\ j \in Nat
      BY <1>2, <1>3
    <2>2. ~(n - j < n - i)
      BY <1>5, <1>6, <1>7, <2>1
    <2> QED BY <2>1, <2>2
  <1> QED BY <1>8

\* The ready fibers in some order of their events.
LEMMA OrdersFacts ==
    ASSUME PlaceInv, NEW s \in Orders(ready)
    PROVE  s \in Seq(Fibers) /\ IsInjective(s) /\ ToSet(s) \subseteq ready
  <1>1. ready \in SUBSET Fibers /\ IsFiniteSet(ready) /\ Cardinality(ready) \in Nat
    BY BoundsAssumption, FS_Subset, FS_CardinalityType DEF PlaceInv, TypeOK
  <1>2. s \in [1 .. Cardinality(ready) -> ready] /\ \A i, j \in DOMAIN s : s[i] = s[j] => i = j
    BY DEF Orders
  <1> DEFINE n == Cardinality(ready)
  <1> HIDE DEF n
  <1>3. s \in Seq(ready)
    BY <1>1, <1>2 DEF n
  <1>4. s \in Seq(Fibers)
    BY <1>1, <1>2 DEF n
  <1>5. ToSet(s) \subseteq ready
    BY <1>3, EmptyQueue
  <1> QED BY <1>2, <1>4, <1>5 DEF IsInjective

\* Ready fibers leave the reactor for worker w's hands, its queue and the
\* global one.
LEMMA HandOutPlaces ==
    ASSUME PlaceInv, NEW w \in Workers, NEW c \in ready \cup {NoFiber}, NEW d \in ready \cup {NoFiber},
           NEW own \in Seq(Fibers), NEW shared \in Seq(Fibers), IsInjective(own), IsInjective(shared),
           ToSet(own) \subseteq ready, ToSet(shared) \subseteq ready, ToSet(own) \cap ToSet(shared) = {},
           c \notin ToSet(own), c \notin ToSet(shared), d \notin ToSet(own), d \notin ToSet(shared),
           c # NoFiber => c # d, cur[w] = NoFiber, direct[w] = NoFiber,
           cur' = [cur EXCEPT ![w] = c], direct' = [direct EXCEPT ![w] = d],
           rq' = [rq EXCEPT ![w] = @ \o own], gq' = gq \o shared,
           io' = [f \in Fibers |-> IF f \in ready THEN "no" ELSE io[f]]
    PROVE  Apart' /\ rq' \in [Workers -> Seq(Fibers)] /\ gq' \in Seq(Fibers)
  <1>t. /\ rq \in [Workers -> Seq(Fibers)] /\ gq \in Seq(Fibers) /\ ready \subseteq Fibers
        /\ cur \in [Workers -> Fibers \cup {NoFiber}] /\ direct \in [Workers -> Fibers \cup {NoFiber}]
        /\ IsInjective(gq) /\ \A v \in Workers : IsInjective(rq[v])
        /\ NoFiber \notin Fibers
    BY BoundsAssumption DEF PlaceInv, TypeOK, Apart
  <1>b. ToSet(gq) \subseteq Fibers /\ \A v \in Workers : ToSet(rq[v]) \subseteq Fibers
    BY <1>t, EmptyQueue
  <1>o. \A x \in Fibers : InQueue(x) => io[x] = "no" /\ \A v \in Workers : x # cur[v] /\ x # direct[v]
    BY ApartQueued DEF PlaceInv
  <1>h. \A x \in Fibers, u, v \in Workers :
            /\ x \in ToSet(rq[u]) /\ x \in ToSet(rq[v]) => u = v
            /\ x \in ToSet(rq[u]) => x \notin ToSet(gq)
            /\ x = cur[u] /\ x = cur[v] => u = v
            /\ x = direct[u] /\ x = direct[v] => u = v
            /\ x = cur[u] => x # direct[v]
    BY DEF PlaceInv, Apart
  <1>j. \A x \in Fibers, v \in Workers : x = cur[v] \/ x = direct[v] => io[x] = "no" /\ ~InQueue(x)
    BY ApartHeld DEF PlaceInv
  \* A ready fiber is in no other place yet.
  <1>r. \A x \in ready : /\ x \notin ToSet(gq) /\ \A v \in Workers : x \notin ToSet(rq[v])
                         /\ \A v \in Workers : x # cur[v] /\ x # direct[v]
    <2>1. \A x \in ready : io[x] # "no" /\ x \in Fibers
      BY <1>t DEF PlaceInv, ReadyInv
    <2>2. \A x \in ready : ~InQueue(x)
      BY <2>1, <1>o
    <2>3. \A x \in ready, v \in Workers : x # cur[v] /\ x # direct[v]
      BY <2>1, <1>j
    <2> QED BY <2>2, <2>3 DEF InQueue
  <1>1. gq' \in Seq(Fibers) /\ IsInjective(gq') /\ ToSet(gq') = ToSet(gq) \cup ToSet(shared)
    <2>1. ToSet(gq) \cap ToSet(shared) = {}
      BY <1>r
    <2> QED BY <1>t, <2>1, JoinQueues
  <1>2. /\ rq[w] \o own \in Seq(Fibers) /\ IsInjective(rq[w] \o own)
        /\ ToSet(rq[w] \o own) = ToSet(rq[w]) \cup ToSet(own)
    <2>1. ToSet(rq[w]) \cap ToSet(own) = {}
      BY <1>r
    <2> QED BY <1>t, <2>1, JoinQueues
  <1>3. /\ rq' \in [Workers -> Seq(Fibers)] /\ rq'[w] = rq[w] \o own
        /\ \A v \in Workers : v # w => rq'[v] = rq[v]
    BY <1>t, <1>2
  <1>4. \A v \in Workers : IsInjective(rq'[v])
    BY <1>t, <1>2, <1>3
  <1>5. \A x \in Fibers, v \in Workers : x \in ToSet(rq'[v]) => x \in ToSet(rq[v]) \/ (v = w /\ x \in ToSet(own))
    BY <1>2, <1>3
  <1>c. /\ \A v \in Workers : cur'[v] = IF v = w THEN c ELSE cur[v]
        /\ \A v \in Workers : direct'[v] = IF v = w THEN d ELSE direct[v]
    BY <1>t
  <1>d. \A x \in Fibers, v \in Workers :
            /\ x = cur'[v] => (v = w /\ x = c /\ x \in ready) \/ (x = cur[v] /\ x \notin ready)
            /\ x = direct'[v] => (v = w /\ x = d /\ x \in ready) \/ (x = direct[v] /\ x \notin ready)
    BY <1>c, <1>r, <1>t
  <1>q. /\ \A x \in ToSet(own) : x \in ready /\ x \notin ToSet(shared) /\ x # c /\ x # d
        /\ \A x \in ToSet(shared) : x \in ready /\ x # c /\ x # d
    OBVIOUS
  <1>e. \A x \in Fibers : io'[x] = IF x \in ready THEN "no" ELSE io[x]
    OBVIOUS
  <1>6. ASSUME NEW x \in Fibers, NEW u \in Workers, NEW v \in Workers
        PROVE  /\ x \in ToSet(rq'[u]) /\ x \in ToSet(rq'[v]) => u = v
               /\ x \in ToSet(rq'[u]) => x # cur'[v] /\ x # direct'[v]
               /\ x = cur'[u] /\ x = cur'[v] => u = v
               /\ x = direct'[u] /\ x = direct'[v] => u = v
               /\ x = cur'[u] => x # direct'[v]
    <2>q. x \in ToSet(rq[u]) => InQueue(x)
      BY DEF InQueue
    <2>1. x \in ToSet(rq'[u]) /\ x \in ToSet(rq'[v]) => u = v
      BY <1>5, <1>h, <1>r
    <2>2. x \in ToSet(rq'[u]) => x # cur'[v] /\ x # direct'[v]
      BY <2>q, <1>5, <1>d, <1>o, <1>q, <1>r
    <2>3. x = cur'[u] /\ x = cur'[v] => u = v
      BY <1>d, <1>h
    <2>4. x = direct'[u] /\ x = direct'[v] => u = v
      BY <1>d, <1>h
    <2>5. x = cur'[u] => x # direct'[v]
      BY <1>d, <1>h, <1>t
    <2> QED BY <2>1, <2>2, <2>3, <2>4, <2>5
  <1>7. ASSUME NEW x \in Fibers
        PROVE  /\ x \in ToSet(gq') => io'[x] = "no"
               /\ \A v \in Workers : x \in ToSet(rq'[v]) \/ x = cur'[v] \/ x = direct'[v] =>
                      x \notin ToSet(gq') /\ io'[x] = "no"
    <2>q. (x \in ToSet(gq) => InQueue(x)) /\ \A v \in Workers : x \in ToSet(rq[v]) => InQueue(x)
      BY DEF InQueue
    <2>1. x \in ToSet(gq') => io'[x] = "no"
      BY <2>q, <1>1, <1>e, <1>o, <1>q
    <2>2. ASSUME NEW v \in Workers, x \in ToSet(rq'[v]) PROVE x \notin ToSet(gq') /\ io'[x] = "no"
      BY <2>2, <2>q, <1>1, <1>5, <1>e, <1>h, <1>o, <1>q, <1>r
    <2>3. ASSUME NEW v \in Workers, x = cur'[v] \/ x = direct'[v] PROVE x \notin ToSet(gq') /\ io'[x] = "no"
      BY <2>3, <2>q, <1>1, <1>d, <1>e, <1>j, <1>q, <1>r
    <2> QED BY <2>1, <2>2, <2>3
  <1> QED BY <1>1, <1>3, <1>4, <1>6, <1>7 DEF Apart

\* How hand_out parts a batch: the accept, the oldest other one, and the rest.
LEMMA HandOutParts ==
    ASSUME PlaceInv, NEW w \in Workers, NEW events \in Orders(ready), HandOut(w, events)
    PROVE  \E c, d \in ready \cup {NoFiber}, rest \in Seq(Fibers), kept \in Nat, n \in Nat :
               /\ kept \in 0 .. Len(rest) /\ IsInjective(rest) /\ ToSet(rest) \subseteq ready
               /\ c \notin ToSet(rest) /\ d \notin ToSet(rest) /\ (c # NoFiber => c # d)
               /\ rq' = [rq EXCEPT ![w] = @ \o SubSeq(rest, 1, kept)]
               /\ gq' = gq \o SubSeq(rest, kept + 1, Len(rest))
               /\ rseq' = Stamped(rest) /\ rseq_clock' = rseq_clock + Len(rest) /\ admits' = admits
               /\ cur' = [cur EXCEPT ![w] = c] /\ direct' = [direct EXCEPT ![w] = d]
               /\ WakeThen(w, n, "release")
  <1> DEFINE accepts == {i \in DOMAIN events : io[events[i]] = "accept"}
             last == CHOOSE i \in accepts : \A j \in accepts : j <= i
             admit == IF accepts = {} THEN NoFiber ELSE events[last]
             chain == IF accepts = {} THEN events ELSE RemoveAt(events, last)
             now == chain # <<>> /\ rq[w] = <<>> /\ gq = <<>>
             first == IF now THEN Head(chain) ELSE NoFiber
             rest == IF now THEN Tail(chain) ELSE chain
             kept == Lesser(Len(rest), LocalShare)
             spilled == Len(rest) - kept
             n == IF spilled > 0 THEN spilled ELSE IF kept >= 2 THEN 1 ELSE 0
             c == IF admit # NoFiber THEN admit ELSE first
             d == IF admit # NoFiber THEN first ELSE NoFiber
  <1>0. /\ rq' = [rq EXCEPT ![w] = @ \o SubSeq(rest, 1, kept)]
        /\ gq' = gq \o SubSeq(rest, kept + 1, Len(rest))
        /\ rseq' = Stamped(rest) /\ rseq_clock' = rseq_clock + Len(rest) /\ admits' = admits
        /\ cur' = [cur EXCEPT ![w] = c] /\ direct' = [direct EXCEPT ![w] = d]
        /\ WakeThen(w, n, "release")
    BY DEF HandOut, RunFiber
  <1>e. events \in Seq(Fibers) /\ IsInjective(events) /\ ToSet(events) \subseteq ready
    BY OrdersFacts
  <1>n. NoFiber \notin Fibers /\ ready \subseteq Fibers /\ NoFiber \notin ready
    BY BoundsAssumption DEF PlaceInv, TypeOK
  <1>1. /\ admit \in ready \cup {NoFiber} /\ chain \in Seq(Fibers) /\ IsInjective(chain)
        /\ ToSet(chain) \subseteq ready /\ admit \notin ToSet(chain)
    <2>1. CASE accepts = {}
      <3>1. admit = NoFiber /\ chain = events
        BY <2>1
      <3> HIDE DEF admit, chain, accepts
      <3> QED BY <3>1, <1>e, <1>n
    <2>2. CASE accepts # {}
      <3>0. Len(events) \in Nat /\ DOMAIN events = 1 .. Len(events)
        BY <1>e
      <3>1. accepts \in SUBSET (1 .. Len(events))
        BY <3>0
      <3>2. \E i \in accepts : \A j \in accepts : j <= i
        <4> HIDE DEF accepts
        <4> QED BY <2>2, <3>0, <3>1, GreatestPlace
      <3>3. last \in accepts
        <4> HIDE DEF accepts
        <4> QED BY <3>2
      <3>4. last \in 1 .. Len(events)
        <4> HIDE DEF accepts, last
        <4> QED BY <3>1, <3>3
      <3>5. admit = events[last] /\ chain = RemoveAt(events, last)
        BY <2>2
      <3> HIDE DEF admit, chain, accepts, last
      <3>6. /\ RemoveAt(events, last) \in Seq(Fibers) /\ IsInjective(RemoveAt(events, last))
            /\ ToSet(RemoveAt(events, last)) = ToSet(events) \ {events[last]}
        BY <1>e, <3>4, OneOut
      <3>7. events[last] \in ToSet(events)
        BY <1>e, <3>4, InToSet
      <3> QED BY <1>e, <3>5, <3>6, <3>7
    <2> QED BY <2>1, <2>2
  <1> HIDE DEF accepts, last, admit, chain
  <1>2. /\ first \in ready \cup {NoFiber} /\ rest \in Seq(Fibers) /\ IsInjective(rest)
        /\ ToSet(rest) \subseteq ToSet(chain) /\ first \notin ToSet(rest)
        /\ first # NoFiber => first \in ToSet(chain)
    <2>1. CASE now
      <3>1. first = Head(chain) /\ rest = Tail(chain) /\ chain # <<>>
        BY <2>1
      <3> HIDE DEF first, rest, now
      <3>2. /\ Head(chain) \in ToSet(chain) /\ Tail(chain) \in Seq(Fibers) /\ IsInjective(Tail(chain))
            /\ ToSet(Tail(chain)) = ToSet(chain) \ {Head(chain)}
        BY <3>1, <1>1, HeadOff
      <3> QED BY <3>1, <3>2, <1>1
    <2>2. CASE ~now
      <3>1. first = NoFiber /\ rest = chain
        BY <2>2
      <3> HIDE DEF first, rest, now
      <3> QED BY <3>1, <1>1, <1>n
    <2> QED BY <2>1, <2>2
  <1> HIDE DEF first, rest, now
  <1>3. kept \in Nat /\ kept \in 0 .. Len(rest) /\ n \in Nat
    <2>1. Len(rest) \in Nat /\ LocalShare \in Nat
      BY <1>2, BoundsAssumption
    <2>2. kept \in 0 .. Len(rest)
      BY <2>1 DEF Lesser
    <2>3. spilled \in Nat
      BY <2>1, <2>2
    <2> QED BY <2>1, <2>2, <2>3
  <1>4. c \in ready \cup {NoFiber} /\ d \in ready \cup {NoFiber}
    BY <1>1, <1>2
  <1>5. c \notin ToSet(rest) /\ d \notin ToSet(rest) /\ (c # NoFiber => c # d)
    <2>1. NoFiber \notin ToSet(rest) /\ admit \notin ToSet(rest)
      BY <1>1, <1>2, <1>n
    <2> QED BY <2>1, <1>1, <1>2
  <1>6. IsInjective(rest) /\ ToSet(rest) \subseteq ready /\ rest \in Seq(Fibers)
    BY <1>1, <1>2
  <1> HIDE DEF kept, spilled, n, c, d
  <1> QED BY <1>0, <1>3, <1>4, <1>5, <1>6

\* The delivery of ready descriptors keeps the invariant (ffi:9140).
LEMMA DeliverStep ==
    ASSUME PlaceInv, NEW w \in Workers, Deliver(w)
    PROVE  PlaceInv'
  <1>0. /\ pc[w] = "deliver" /\ ready' = {} /\ poked' = FALSE
        /\ io' = [f \in Fibers |-> IF f \in ready THEN "no" ELSE io[f]]
        /\ UNCHANGED <<started, lease, sleeping, g, tick, mode, idle_waiters, shutdown>>
    BY DEF Deliver
  <1>1. PICK events \in Orders(ready) : HandOut(w, events)
    BY DEF Deliver
  <1>2. PICK c \in ready \cup {NoFiber}, d \in ready \cup {NoFiber}, rest \in Seq(Fibers), kept \in Nat, n \in Nat :
            /\ kept \in 0 .. Len(rest) /\ IsInjective(rest) /\ ToSet(rest) \subseteq ready
            /\ c \notin ToSet(rest) /\ d \notin ToSet(rest) /\ (c # NoFiber => c # d)
            /\ rq' = [rq EXCEPT ![w] = @ \o SubSeq(rest, 1, kept)]
            /\ gq' = gq \o SubSeq(rest, kept + 1, Len(rest))
            /\ rseq' = Stamped(rest) /\ rseq_clock' = rseq_clock + Len(rest) /\ admits' = admits
            /\ cur' = [cur EXCEPT ![w] = c] /\ direct' = [direct EXCEPT ![w] = d]
            /\ WakeThen(w, n, "release")
    BY <1>1, HandOutParts
  <1>t. /\ w \in Actors /\ \A v \in Workers : v \in Actors
        /\ cur \in [Workers -> Fibers \cup {NoFiber}] /\ direct \in [Workers -> Fibers \cup {NoFiber}]
        /\ ready \subseteq Fibers /\ rseq_clock \in Nat /\ admits \in Nat
        /\ io \in [Fibers -> {"no", "io", "accept"}]
    BY DEF PlaceInv, TypeOK, Actors
  <1>3. cur[w] = NoFiber /\ direct[w] = NoFiber
    BY <1>0 DEF PlaceInv, HeldInv
  <1> DEFINE own == SubSeq(rest, 1, kept)
             shared == SubSeq(rest, kept + 1, Len(rest))
  <1>4. /\ own \in Seq(Fibers) /\ IsInjective(own) /\ shared \in Seq(Fibers) /\ IsInjective(shared)
    BY <1>2, PartQueue
  <1>5. ToSet(own) \cap ToSet(shared) = {} /\ ToSet(own) \cup ToSet(shared) = ToSet(rest)
    BY <1>2, CutQueue
  <1>6. rq' = [rq EXCEPT ![w] = @ \o own] /\ gq' = gq \o shared
    BY <1>2
  <1> HIDE DEF own, shared
  <1>7. Apart' /\ rq' \in [Workers -> Seq(Fibers)] /\ gq' \in Seq(Fibers)
    <2>1. /\ ToSet(own) \subseteq ready /\ ToSet(shared) \subseteq ready
          /\ c \notin ToSet(own) /\ c \notin ToSet(shared) /\ d \notin ToSet(own) /\ d \notin ToSet(shared)
      BY <1>2, <1>5
    <2>2. cur' = [cur EXCEPT ![w] = c] /\ direct' = [direct EXCEPT ![w] = d] /\ (c # NoFiber => c # d)
      BY <1>2
    <2> QED BY <1>0, <1>3, <1>4, <1>5, <1>6, <2>1, <2>2, HandOutPlaces
  <1>k. /\ \A b \in Actors : b # w => pc'[b] = pc[b] /\ ret'[b] = ret[b]
        /\ pc'[w] = "release" \/ (pc'[w] = "wake" /\ ret'[w] = "release")
        /\ pc' \in [Actors -> WorkerPcs \cup ThreadPcs \cup {"body", "wake", "poke"}]
        /\ want' \in [Actors -> Nat] /\ ret' \in [Actors -> {"body", "release"}]
    BY <1>2, <1>t, WakeThenFacts DEF PlaceInv
  <1>8. TypeOK'
    <2>1. rseq' \in [Fibers -> Nat] /\ rseq_clock' \in Nat /\ admits' \in Nat
      <3>1. rseq' \in [Fibers -> Nat]
        BY <1>2, StampedFacts DEF PlaceInv
      <3> QED BY <3>1, <1>2, <1>t
    <2>2. cur' \in [Workers -> Fibers \cup {NoFiber}] /\ direct' \in [Workers -> Fibers \cup {NoFiber}]
      BY <1>2, <1>t
    <2>3. io' \in [Fibers -> {"no", "io", "accept"}] /\ ready' \in SUBSET Fibers /\ poked' \in BOOLEAN
      BY <1>0, <1>t
    <2> QED BY <1>0, <1>7, <1>k, <2>1, <2>2, <2>3 DEF PlaceInv, TypeOK
  <1>9. HeldInv'
    <2> SUFFICES ASSUME NEW v \in Workers PROVE HeldInv!(v)'
      BY DEF HeldInv
    <2>1. CASE v # w
      <3>1. cur'[v] = cur[v] /\ direct'[v] = direct[v] /\ pc'[v] = pc[v] /\ ret'[v] = ret[v]
        BY <2>1, <1>2, <1>k, <1>t
      <3> QED BY <3>1 DEF PlaceInv, HeldInv
    <2>2. CASE v = w
      BY <2>2, <1>k
    <2> QED BY <2>1, <2>2
  <1>10. ReadyInv'
    BY <1>0 DEF ReadyInv
  <1>11. IdleCountExact'
    <2>1. \A v \in Workers : pc'[v] \in {"asleep", "woken"} <=> pc[v] \in {"asleep", "woken"}
      BY <1>0, <1>k, <1>t
    <2> QED BY <2>1, <1>0, IdleKept DEF PlaceInv
  <1> QED BY <1>7, <1>8, <1>9, <1>10, <1>11 DEF PlaceInv

\* Giving the poll lease back keeps the invariant.
LEMMA ReleaseStep ==
    ASSUME PlaceInv, NEW w \in Workers, ReleaseLease(w)
    PROVE  PlaceInv'
  <1> DEFINE d == direct[w]
             l == IF cur[w] # NoFiber THEN "body" ELSE AfterPoll(w, TRUE)
  <1>0. /\ pc[w] = "release" /\ lease' = NoWorker /\ direct' = [direct EXCEPT ![w] = NoFiber]
        /\ pc' = [pc EXCEPT ![w] = l] /\ mode' = [mode EXCEPT ![w] = "block"]
        /\ UNCHANGED <<gq, rseq_clock, admits, io, ready, started, sleeping, poked, cur, g, tick, want, ret, idle_waiters, shutdown>>
    BY DEF ReleaseLease, Goto, ioVars
  <1>t. /\ w \in Actors /\ \A v \in Workers : v \in Actors
        /\ pc \in [Actors -> WorkerPcs \cup ThreadPcs \cup {"body", "wake", "poke"}]
        /\ cur \in [Workers -> Fibers \cup {NoFiber}] /\ direct \in [Workers -> Fibers \cup {NoFiber}]
        /\ mode \in [Workers -> {"block", "nowait", "cadence"}]
        /\ rseq \in [Fibers -> Nat] /\ rq \in [Workers -> Seq(Fibers)] /\ gq \in Seq(Fibers)
        /\ IsInjective(gq) /\ \A v \in Workers : IsInjective(rq[v])
        /\ NoFiber \notin Fibers
    BY BoundsAssumption DEF PlaceInv, TypeOK, Apart, Actors
  <1>l. /\ l \in WorkerPcs \cup {"body"} /\ l \notin {"wake", "poke", "release", "asleep", "woken"}
        /\ l = "body" <=> cur[w] # NoFiber
    BY DEF AfterPoll, WorkerPcs
  <1> HIDE DEF l
  <1>1. /\ rq' \in [Workers -> Seq(Fibers)] /\ rseq' \in [Fibers -> Nat]
        /\ \A v \in Workers : IsInjective(rq'[v])
        /\ \A x \in Fibers, v \in Workers : x \in ToSet(rq'[v]) => x \in ToSet(rq[v]) \/ (v = w /\ x = d)
    <2>1. CASE d = NoFiber
      <3>1. rq' = rq /\ rseq' = rseq
        BY <2>1 DEF ReleaseLease
      <3> QED BY <3>1, <1>t
    <2>2. CASE d # NoFiber
      <3>1. rq' = [rq EXCEPT ![w] = <<d>> \o @] /\ rseq' = [rseq EXCEPT ![d] = RSEQ_ADMIT]
        BY <2>2 DEF ReleaseLease
      <3>2. d \in Fibers
        BY <2>2, <1>t
      <3>3. d \notin ToSet(rq[w])
        BY <3>2, ApartHeld DEF PlaceInv, InQueue
      <3> HIDE DEF d
      <3>4. /\ <<d>> \o rq[w] \in Seq(Fibers) /\ IsInjective(<<d>> \o rq[w])
            /\ ToSet(<<d>> \o rq[w]) = ToSet(rq[w]) \cup {d}
        BY <1>t, <3>2, <3>3, JoinOne
      <3> DEFINE q == <<d>> \o rq[w]
      <3>5. rq' = [rq EXCEPT ![w] = q]
        BY <3>1
      <3>6. q \in Seq(Fibers) /\ IsInjective(q) /\ ToSet(q) = ToSet(rq[w]) \cup {d}
        BY <3>4
      <3> HIDE DEF q
      <3>7. /\ rq' \in [Workers -> Seq(Fibers)] /\ rq'[w] = q
            /\ \A v \in Workers : v # w => rq'[v] = rq[v]
        BY <3>5, <3>6, <1>t
      <3>8. rseq' \in [Fibers -> Nat]
        BY <3>1, <3>2, <1>t DEF RSEQ_ADMIT
      <3> QED BY <3>6, <3>7, <3>8, <1>t
    <2> QED BY <2>1, <2>2
  <1>2. TypeOK'
    <2>1. pc' \in [Actors -> WorkerPcs \cup ThreadPcs \cup {"body", "wake", "poke"}]
      BY <1>0, <1>t, <1>l
    <2>2. direct' \in [Workers -> Fibers \cup {NoFiber}] /\ mode' \in [Workers -> {"block", "nowait", "cadence"}]
      BY <1>0, <1>t
    <2> QED BY <1>0, <1>1, <2>1, <2>2 DEF PlaceInv, TypeOK
  <1>3. HeldInv'
    <2> SUFFICES ASSUME NEW v \in Workers PROVE HeldInv!(v)'
      BY DEF HeldInv
    <2>1. CASE v # w
      <3>1. cur'[v] = cur[v] /\ direct'[v] = direct[v] /\ pc'[v] = pc[v] /\ ret'[v] = ret[v]
        BY <2>1, <1>0, <1>t
      <3> QED BY <3>1 DEF PlaceInv, HeldInv
    <2>2. CASE v = w
      <3>1. pc'[w] = l /\ direct'[w] = NoFiber /\ cur'[w] = cur[w]
        BY <1>0, <1>t
      <3> QED BY <2>2, <3>1, <1>l
    <2> QED BY <2>1, <2>2
  <1>4. Apart'
    <2>c. /\ \A v \in Workers : direct'[v] = IF v = w THEN NoFiber ELSE direct[v]
          /\ cur' = cur /\ io' = io /\ gq' = gq
      BY <1>0, <1>t
    <2>o. \A x \in Fibers : InQueue(x) => io[x] = "no" /\ \A v \in Workers : x # cur[v] /\ x # direct[v]
      BY ApartQueued DEF PlaceInv
    <2>h. \A x \in Fibers, u, v \in Workers :
              /\ x \in ToSet(rq[u]) /\ x \in ToSet(rq[v]) => u = v
              /\ x \in ToSet(rq[u]) => x \notin ToSet(gq)
              /\ x = cur[u] /\ x = cur[v] => u = v
              /\ x = direct[u] /\ x = direct[v] => u = v
              /\ x = cur[u] => x # direct[v]
      BY DEF PlaceInv, Apart
    <2>j. \A x \in Fibers, v \in Workers : x = cur[v] \/ x = direct[v] => io[x] = "no" /\ ~InQueue(x)
      BY ApartHeld DEF PlaceInv
    <2>d. \A x \in Fibers, v \in Workers : x = direct'[v] => v # w /\ x = direct[v]
      BY <2>c, <1>t
    <2>1. ASSUME NEW x \in Fibers, NEW u \in Workers, NEW v \in Workers
          PROVE  /\ x \in ToSet(rq'[u]) /\ x \in ToSet(rq'[v]) => u = v
                 /\ x \in ToSet(rq'[u]) => x # cur'[v] /\ x # direct'[v]
                 /\ x = cur'[u] /\ x = cur'[v] => u = v
                 /\ x = direct'[u] /\ x = direct'[v] => u = v
                 /\ x = cur'[u] => x # direct'[v]
      <3>q. /\ x \in ToSet(rq[u]) \/ x \in ToSet(rq[v]) => InQueue(x)
            /\ x = d => ~InQueue(x)
        BY <2>j DEF InQueue
      <3>1. x \in ToSet(rq'[u]) /\ x \in ToSet(rq'[v]) => u = v
        <4>1. CASE x = d
          BY <4>1, <3>q, <1>1
        <4>2. CASE x # d
          BY <4>2, <2>h, <1>1
        <4> QED BY <4>1, <4>2
      <3>2. x \in ToSet(rq'[u]) => x # cur'[v] /\ x # direct'[v]
        <4>1. CASE x = d
          BY <4>1, <2>c, <2>d, <2>h
        <4>2. CASE x # d
          BY <4>2, <3>q, <2>c, <2>d, <2>o, <1>1
        <4> QED BY <4>1, <4>2
      <3>3. x = cur'[u] /\ x = cur'[v] => u = v
        <4>1. cur'[u] = cur[u] /\ cur'[v] = cur[v]
          BY <2>c
        <4>2. x = cur[u] /\ x = cur[v] => u = v
          BY <2>h
        <4> QED BY <4>1, <4>2
      <3>4. x = direct'[u] /\ x = direct'[v] => u = v
        BY <2>d, <2>h
      <3>5. x = cur'[u] => x # direct'[v]
        BY <2>c, <2>d, <2>h
      <3> QED BY <3>1, <3>2, <3>3, <3>4, <3>5
    <2>2. ASSUME NEW x \in Fibers
          PROVE  /\ x \in ToSet(gq') => io'[x] = "no"
                 /\ \A v \in Workers : x \in ToSet(rq'[v]) \/ x = cur'[v] \/ x = direct'[v] =>
                        x \notin ToSet(gq') /\ io'[x] = "no"
      <3>q. (x \in ToSet(gq) => InQueue(x)) /\ \A v \in Workers : x \in ToSet(rq[v]) => InQueue(x)
        BY DEF InQueue
      <3>1. ASSUME NEW v \in Workers, x \in ToSet(rq'[v]) PROVE x \notin ToSet(gq') /\ io'[x] = "no"
        <4>1. CASE x = d
          BY <4>1, <3>q, <2>c, <2>j
        <4>2. CASE x # d
          BY <4>2, <3>1, <3>q, <2>c, <2>h, <2>o, <1>1
        <4> QED BY <4>1, <4>2
      <3>2. ASSUME NEW v \in Workers, x = cur'[v] \/ x = direct'[v] PROVE x \notin ToSet(gq') /\ io'[x] = "no"
        <4>1. x = cur[v] \/ x = direct[v]
          BY <3>2, <2>c, <2>d
        <4>2. io[x] = "no" /\ ~InQueue(x)
          BY <4>1, <2>j
        <4> QED BY <4>2, <3>q, <2>c
      <3>3. x \in ToSet(gq') => io'[x] = "no"
        BY <3>q, <2>c, <2>o
      <3> QED BY <3>1, <3>2, <3>3
    <2> QED BY <2>1, <2>2, <2>c, <1>1, <1>t DEF Apart
  <1>5. ReadyInv'
    BY <1>0 DEF PlaceInv, ReadyInv
  <1>6. IdleCountExact'
    <2>1. \A v \in Workers : pc'[v] \in {"asleep", "woken"} <=> pc[v] \in {"asleep", "woken"}
      BY <1>0, <1>t, <1>l
    <2> QED BY <2>1, <1>0, IdleKept DEF PlaceInv
  <1> QED BY <1>2, <1>3, <1>4, <1>5, <1>6 DEF PlaceInv

-----------------------------------------------------------------------------

\* nurl_runtime_init establishes the place invariant.
LEMMA PlaceInit == Init => PlaceInv
  <1> SUFFICES ASSUME Init PROVE PlaceInv
    OBVIOUS
  <1>i. /\ rq = [w \in Workers |-> <<>>] /\ gq = <<>> /\ rseq = [f \in Fibers |-> 0] /\ rseq_clock = 0 /\ admits = 0
        /\ io = [f \in Fibers |-> "no"] /\ ready = {}
        /\ pc = [a \in Actors |-> IF a \in Workers THEN "next" ELSE "body"]
        /\ cur = [w \in Workers |-> NoFiber] /\ direct = [w \in Workers |-> NoFiber]
        /\ idle_waiters = 0
    BY DEF Init
  <1>e. ToSet(<<>>) = {} /\ IsInjective(<<>>) /\ <<>> \in Seq(Fibers)
    BY EmptyQueue
  <1>q. /\ \A w \in Workers : rq[w] = <<>> /\ cur[w] = NoFiber /\ direct[w] = NoFiber /\ pc[w] = "next"
        /\ NoFiber \notin Fibers
    BY <1>i, BoundsAssumption DEF Actors
  <1>1. TypeOK
    <2>1. rq \in [Workers -> Seq(Fibers)] /\ gq \in Seq(Fibers)
      BY <1>i, <1>e
    <2>2. pc \in [Actors -> WorkerPcs \cup ThreadPcs \cup {"body", "wake", "poke"}]
      BY <1>i DEF WorkerPcs
    <2>3. g = [w \in Workers |-> 0] /\ tick = [w \in Workers |-> TRUE] /\ mode = [w \in Workers |-> "block"]
          /\ want = [a \in Actors |-> 0] /\ ret = [a \in Actors |-> "body"]
          /\ started = FALSE /\ sleeping = FALSE /\ poked = FALSE /\ shutdown = FALSE /\ lease = NoWorker
      BY DEF Init
    <2>4. rseq \in [Fibers -> Nat] /\ {rseq_clock, admits} \subseteq Nat
          /\ io \in [Fibers -> {"no", "io", "accept"}] /\ ready \in SUBSET Fibers
          /\ {cur, direct} \subseteq [Workers -> Fibers \cup {NoFiber}]
          /\ idle_waiters \in Nat
      BY <1>i
    <2>5. g \in [Workers -> Nat] /\ tick \in [Workers -> BOOLEAN]
          /\ mode \in [Workers -> {"block", "nowait", "cadence"}]
          /\ want \in [Actors -> Nat] /\ ret \in [Actors -> {"body", "release"}]
          /\ {started, sleeping, poked, shutdown} \subseteq BOOLEAN
          /\ lease \in Workers \cup {NoWorker}
      BY <2>3
    <2> QED BY <2>1, <2>2, <2>4, <2>5 DEF TypeOK
  <1>2. HeldInv
    BY <1>q DEF HeldInv
  <1>3. ReadyInv
    BY <1>i DEF ReadyInv
  <1>4. Apart
    <2>1. /\ IsInjective(gq) /\ \A w \in Workers : IsInjective(rq[w])
          /\ ToSet(gq) = {} /\ \A w \in Workers : ToSet(rq[w]) = {}
      BY <1>i, <1>e, <1>q
    <2> QED BY <1>q, <2>1 DEF Apart
  <1>5. IdleCountExact
    <2>1. {w \in Workers : pc[w] \in {"asleep", "woken"}} = {}
      BY <1>q
    <2>2. Cardinality({w \in Workers : pc[w] \in {"asleep", "woken"}}) = 0
      BY <2>1, FS_EmptySet
    <2> QED BY <1>i, <2>2 DEF IdleCountExact
  <1> QED BY <1>1, <1>2, <1>3, <1>4, <1>5 DEF PlaceInv

\* Every step keeps the place invariant.
LEMMA PlaceNext ==
    ASSUME PlaceInv, [Next]_vars
    PROVE  PlaceInv'
  <1>a. \A w \in Workers : w \in Actors
    BY DEF Actors
  <1>b. \A t \in Threads : t \in Actors
    BY DEF Actors
  <1>1. ASSUME NEW w \in Workers, PlainWorker(w) \/ SpuriousWake(w) PROVE PlaceInv'
    <2>1. CASE Exit(w) \/ ReadHead(w) \/ StealNothing(w)
      BY <2>1, LookingSteps
    <2>2. CASE PopOldest(w) \/ PopGlobal(w) \/ PopLocal(w)
      BY <2>2, PopSteps
    <2>3. CASE TakeGlobalBatch(w)
      BY <2>3, BatchStep
    <2>4. ASSUME NEW v \in Workers, Steal(w, v) PROVE PlaceInv'
      BY <2>4, StealStep
    <2>5. CASE IdlePark(w) \/ SpuriousWake(w) \/ Woken(w)
      BY <2>5, RestStep
    <2>6. ASSUME NEW f \in Fibers, SpawnLocal(w, f) \/ Unpark(w, f) PROVE PlaceInv'
      BY <2>6, <1>a, SpawnStep, UnparkSteps
    <2>7. CASE YieldTo(w) \/ ParkOrFinish(w)
      BY <2>7, SwitchOutSteps
    <2>8. CASE Signal(w)
      BY <2>8, <1>a, SignalStep
    <2> QED BY <1>1, <2>1, <2>2, <2>3, <2>4, <2>5, <2>6, <2>7, <2>8 DEF PlainWorker, Choose, Body
  <1>2. ASSUME NEW t \in Threads, PlainCall(t) \/ ShutdownSet(t) \/ PokeIfSleeping(t) PROVE PlaceInv'
    <2>1. CASE Signal(t)
      BY <2>1, <1>b, SignalStep
    <2>2. CASE PokeIfSleeping(t)
      BY <2>2, <1>b, PokeStep
    <2>3. CASE ShutdownSet(t) \/ ShutdownWakeAll(t) \/ ShutdownPoke(t) \/ ShutdownJoin(t)
      BY <2>3, ShutdownSteps
    <2> QED BY <1>2, <2>1, <2>2, <2>3 DEF PlainCall
  <1>3. ASSUME NEW t \in Threads, NEW f \in Fibers, Unpark(t, f) \/ UnparkAdmit(t, f) PROVE PlaceInv'
    BY <1>3, <1>b, UnparkSteps
  <1>4. ASSUME NEW w \in Workers, Poll(w) PROVE PlaceInv'
    <2>1. CASE CadencePoll(w) \/ PollRefused(w) \/ TakeLease(w) \/ Arm(w) \/ CheckShutdown(w) \/ EpollReturn(w)
      BY <2>1, LookingSteps
    <2>2. CASE Deliver(w)
      BY <2>2, DeliverStep
    <2>3. CASE ReleaseLease(w)
      BY <2>3, ReleaseStep
    <2>4. CASE PokeIfSleeping(w)
      BY <2>4, <1>a, PokeStep
    <2>5. CASE \E kind \in {"io", "accept"} : ReactorWait(w, kind)
      BY <2>5, SwitchOutSteps
    <2> QED BY <1>4, <2>1, <2>2, <2>3, <2>4, <2>5 DEF Poll
  <1>5. ASSUME NEW f \in Fibers, IoReady(f) PROVE PlaceInv'
    BY <1>5, IoReadyStep
  <1>6. CASE UNCHANGED vars
    <2>0. UNCHANGED <<rq, gq, rseq, rseq_clock, admits, io, ready, started, lease, sleeping, poked,
                      pc, cur, direct, g, tick, mode, want, ret, idle_waiters, shutdown>>
      BY <1>6 DEF vars, queueVars, ioVars, pollVars
    <2>1. TypeOK' /\ HeldInv'
      BY <2>0 DEF PlaceInv, TypeOK, HeldInv
    <2>2. Apart' /\ ReadyInv'
      BY <2>0, PlacesKept DEF PlaceInv
    <2>3. IdleCountExact'
      BY <2>0, IdleKept DEF PlaceInv
    <2> QED BY <2>1, <2>2, <2>3 DEF PlaceInv
  <1> QED BY <1>1, <1>2, <1>3, <1>4, <1>5, <1>6 DEF Next, PlainNext

\* The inductive invariant holds of both builds, whatever the batch and share
\* sizes.
THEOREM PlacesHold == Spec => []PlaceInv
  <1>1. PlaceInv /\ [Next]_vars => PlaceInv'
    BY PlaceNext
  <1> QED BY PlaceInit, <1>1, PTL DEF Spec

\* What the invariant says of queues and hands, as sets.
LEMMA PlacesApart ==
    ASSUME PlaceInv
    PROVE  OnePlace
  <1>t. /\ rq \in [Workers -> Seq(Fibers)] /\ gq \in Seq(Fibers)
        /\ cur \in [Workers -> Fibers \cup {NoFiber}] /\ direct \in [Workers -> Fibers \cup {NoFiber}]
        /\ IsInjective(gq) /\ \A v \in Workers : IsInjective(rq[v])
        /\ NoFiber \notin Fibers
    BY BoundsAssumption DEF PlaceInv, TypeOK, Apart
  <1>b. ToSet(gq) \subseteq Fibers /\ \A v \in Workers : ToSet(rq[v]) \subseteq Fibers
    BY <1>t, EmptyQueue
  <1>h. \A x \in Fibers, u, v \in Workers :
            /\ x \in ToSet(rq[u]) /\ x \in ToSet(rq[v]) => u = v
            /\ x \in ToSet(rq[u]) => x \notin ToSet(gq)
            /\ x = cur[u] /\ x = cur[v] => u = v
            /\ x = direct[u] /\ x = direct[v] => u = v
            /\ x = cur[u] => x # direct[v]
    BY DEF PlaceInv, Apart
  <1>1. ASSUME NEW v \in Workers, NEW w \in Workers, v # w
        PROVE  /\ ToSet(rq[v]) \cap ToSet(rq[w]) = {}
               /\ ({cur[v], direct[v]} \cap {cur[w], direct[w]}) \subseteq {NoFiber}
    <2>1. ToSet(rq[v]) \cap ToSet(rq[w]) = {}
      BY <1>1, <1>b, <1>h
    <2>2. ASSUME NEW x \in {cur[v], direct[v]} \cap {cur[w], direct[w]}, x # NoFiber PROVE FALSE
      <3>1. x \in Fibers
        BY <2>2, <1>t
      <3> QED BY <3>1, <1>1, <1>h
    <2> QED BY <2>1, <2>2
  <1>2. \A w \in Workers : ToSet(rq[w]) \cap ToSet(gq) = {}
    BY <1>b, <1>h
  <1>3. ASSUME NEW x \in Queued PROVE x \in Fibers /\ InQueue(x)
    <2>1. CASE x \in ToSet(gq)
      BY <2>1, <1>b DEF InQueue
    <2>2. CASE x \in UNION {ToSet(rq[w]) : w \in Workers}
      <3>1. PICK w \in Workers : x \in ToSet(rq[w])
        BY <2>2
      <3> QED BY <3>1, <1>b DEF InQueue
    <2> QED BY <2>1, <2>2 DEF Queued
  <1>4. ASSUME NEW x \in Held PROVE x \in Fibers /\ io[x] = "no" /\ ~InQueue(x)
    <2>1. PICK v \in Workers : x = cur[v] \/ x = direct[v]
      BY DEF Held, Running
    <2>2. x \in Fibers
      BY <2>1, <1>t DEF Held
    <2> QED BY <2>1, <2>2, ApartHeld DEF PlaceInv
  <1>5. ASSUME NEW x \in Waiting PROVE x \in Fibers /\ io[x] # "no" /\ ~InQueue(x)
    <2>1. x \in Fibers /\ io[x] # "no"
      BY DEF Waiting
    <2> QED BY <2>1, ApartQueued DEF PlaceInv
  <1>6. (Queued \cup Waiting) \cap Held = {}
    BY <1>3, <1>4, <1>5
  <1>7. Queued \cap Waiting = {}
    BY <1>3, <1>5
  <1> QED BY <1>t, <1>1, <1>2, <1>6, <1>7 DEF OnePlace

\* A fiber is in one place, in both builds: whatever interleaving of pushes,
\* pops, steals, fair shares, hand-outs and switches, no queue and no worker
\* ever holds a fiber that another one holds (runtime_ffi.c, sections 24, 25).
THEOREM OnePlaceHolds == Spec => []OnePlace
  <1>1. PlaceInv => OnePlace
    BY PlacesApart
  <1> QED BY PlacesHold, <1>1, PTL

-----------------------------------------------------------------------------
(* The poll(2) build.                                                      *)

PollPcs == {"poll", "arm", "check", "epoll", "deliver", "release", "poke"}

\* It never enters a poller pass.
NoPoller ==
    /\ \A a \in Actors : pc[a] \notin PollPcs /\ ret[a] = "body"
    /\ \A f \in Fibers : io[f] = "no"

\* A worker that found its own queue empty finds it empty until it has a fiber
\* again: nobody else pushes there.
OwnEmpty == \A w \in Workers : pc[w] \in {"batch1", "steal", "batch2", "asleep"} => rq[w] = <<>>

\* Whoever is about to signal has a signal to give.
WantInv == \A a \in Actors : pc[a] = "wake" => want[a] >= 1

\* The global queue holds something only while a worker is up or a signal is
\* on its way.
SomeoneUp ==
    \/ gq = <<>>
    \/ \E w \in Workers : pc[w] # "asleep"
    \/ \E a \in Actors : pc[a] = "wake"

\* A queued fiber's stamp was drawn from the clock, or is an admission's.
Stamps == \A f \in Fibers : InQueue(f) => 1 <= rseq[f] /\ rseq[f] <= rseq_clock + 1

PlainInv == NoPoller /\ OwnEmpty /\ WantInv /\ SomeoneUp /\ Stamps /\ QueuesOrdered


\* Without the netpoller every step is one of the steps of PlainNext.
LEMMA NoPollerStep ==
    ASSUME PlaceInv, NoPoller, ~Netpoller, [Next]_vars
    PROVE  [PlainNext]_vars /\ NoPoller'
  <1>t. /\ pc \in [Actors -> WorkerPcs \cup ThreadPcs \cup {"body", "wake", "poke"}]
        /\ ret \in [Actors -> {"body", "release"}]
        /\ (\A w \in Workers : w \in Actors) /\ (\A t \in Threads : t \in Actors)
    BY DEF PlaceInv, TypeOK, Actors
  <1>n. /\ \A a \in Actors : pc[a] \notin {"poll", "arm", "check", "epoll", "deliver", "release", "poke"} /\ ret[a] = "body"
        /\ \A f \in Fibers : io[f] = "no"
    BY DEF NoPoller, PollPcs
  <1>1. ASSUME NEW w \in Workers, Poll(w) PROVE FALSE
    <2>1. pc[w] \notin {"poll", "arm", "check", "epoll", "deliver", "release", "poke"}
      BY <1>t, <1>n
    <2> QED BY <2>1, <1>1 DEF Poll, CadencePoll, PollRefused, TakeLease, Arm, CheckShutdown, EpollReturn, Deliver,
                   ReleaseLease, PokeIfSleeping, ReactorWait
  <1>2. ASSUME NEW t \in Threads, PokeIfSleeping(t) PROVE FALSE
    BY <1>2, <1>t, <1>n DEF PokeIfSleeping
  <1>3. ASSUME NEW f \in Fibers, IoReady(f) PROVE FALSE
    BY <1>3, <1>n DEF IoReady
  <1>4. [PlainNext]_vars
    BY <1>1, <1>2, <1>3 DEF Next
  <1>g. ASSUME NEW a \in Actors, NEW l, Goto(a, l), l \notin PollPcs, UNCHANGED <<ret, io>> PROVE NoPoller'
    <2>1. pc' = [pc EXCEPT ![a] = l]
      BY <1>g DEF Goto
    <2> QED BY <2>1, <1>g, <1>t DEF NoPoller
  <1>w. ASSUME NEW a \in Actors, NEW n, WakeThen(a, n, "body"), UNCHANGED io PROVE NoPoller'
    <2>1. "wake" \notin PollPcs /\ "body" \notin PollPcs
      BY DEF PollPcs
    <2>2. CASE n > 0
      <3>1. pc' = [pc EXCEPT ![a] = "wake"] /\ ret' = [ret EXCEPT ![a] = "body"]
        BY <1>w, <2>2 DEF WakeThen, Goto
      <3> QED BY <3>1, <2>1, <1>w, <1>t DEF NoPoller
    <2>3. CASE ~(n > 0)
      BY <2>3, <2>1, <1>w, <1>g DEF WakeThen
    <2> QED BY <2>2, <2>3
  <1>p. ASSUME NEW a \in Actors, ToAfterPop(a), UNCHANGED <<ret, io>> PROVE NoPoller'
    <2>1. "steal" \notin PollPcs
      BY DEF PollPcs
    <2> QED BY <2>1, <1>p, <1>g DEF ToAfterPop
  <1>5. CASE UNCHANGED vars
    BY <1>5 DEF vars, ioVars, NoPoller
  <1>6. ASSUME NEW w \in Workers, Choose(w) PROVE NoPoller'
    <2>l. {"exit", "pop", "body", "batch1", "popg", "popl", "batch2", "idle", "next", "asleep"} \cap PollPcs = {}
      BY DEF PollPcs
    <2>1. CASE Exit(w) \/ ReadHead(w) \/ StealNothing(w) \/ IdlePark(w) \/ Woken(w)
      BY <2>1, <2>l, <1>g, <1>t DEF Exit, ReadHead, StealNothing, IdlePark, Woken, ioVars
    <2>2. CASE PopOldest(w)
      BY <2>2, <2>l, <1>g, <1>p, <1>t DEF PopOldest, ioVars
    <2>3. CASE PopGlobal(w) \/ PopLocal(w)
      BY <2>3, <2>l, <1>g, <1>p, <1>t DEF PopGlobal, PopLocal, ioVars
    <2>4. CASE TakeGlobalBatch(w)
      BY <2>4, <2>l, <1>g, <1>p, <1>t DEF TakeGlobalBatch, ioVars
    <2>5. ASSUME NEW v \in Workers, Steal(w, v) PROVE NoPoller'
      BY <2>5, <1>w, <1>t DEF Steal, ioVars
    <2> QED BY <1>6, <2>1, <2>2, <2>3, <2>4, <2>5 DEF Choose
  <1>7. ASSUME NEW w \in Workers, YieldTo(w) \/ ParkOrFinish(w) \/ SpuriousWake(w) PROVE NoPoller'
    <2>l. {"next", "woken"} \cap PollPcs = {}
      BY DEF PollPcs
    <2> QED BY <1>7, <2>l, <1>g, <1>t DEF YieldTo, ParkOrFinish, SpuriousWake, ioVars
  <1>8. ASSUME NEW a \in Actors, NEW f \in Fibers, SpawnLocal(a, f) \/ Unpark(a, f) \/ UnparkAdmit(a, f) PROVE NoPoller'
    BY <1>8, <1>w DEF SpawnLocal, Unpark, UnparkAdmit, ioVars
  <1>9. ASSUME NEW t \in Threads, ShutdownSet(t) \/ ShutdownPoke(t) \/ ShutdownJoin(t) PROVE NoPoller'
    <2>l. {"sdwake", "sdjoin", "ended"} \cap PollPcs = {}
      BY DEF PollPcs
    <2> QED BY <1>9, <2>l, <1>g, <1>t DEF ShutdownSet, ShutdownPoke, ShutdownJoin, ioVars
  <1>10. ASSUME NEW t \in Threads, ShutdownWakeAll(t) PROVE NoPoller'
    <2>1. /\ pc' = [b \in Actors |-> IF b \in Asleep THEN "woken" ELSE IF b = t THEN "sdpoke" ELSE pc[b]]
          /\ ret' = ret /\ io' = io
      BY <1>10 DEF ShutdownWakeAll, ioVars
    <2>2. "woken" \notin PollPcs /\ "sdpoke" \notin PollPcs
      BY DEF PollPcs
    <2> QED BY <2>1, <2>2 DEF NoPoller
  <1>11. ASSUME NEW a \in Actors, Signal(a) PROVE NoPoller'
    <2>1. PICK W \in SUBSET Asleep :
              pc' = [b \in Actors |-> CASE b \in W -> "woken"
                                        [] b = a -> IF idle_waiters = 0 /\ Netpoller THEN "poke" ELSE ret[a]
                                        [] OTHER -> pc[b]]
      BY <1>11 DEF Signal
    <2>2. "woken" \notin PollPcs /\ ret[a] \notin PollPcs /\ ret' = ret /\ io' = io
      BY <1>11, <1>n DEF PollPcs, Signal, ioVars
    <2>3. a \notin W
      BY <1>11 DEF Asleep, Signal
    <2>4. \A b \in Actors : pc'[b] \notin PollPcs
      BY <2>1, <2>2, <2>3 DEF NoPoller
    <2> QED BY <2>2, <2>4 DEF NoPoller
  <1>12. CASE PlainNext
    <2>1. ASSUME NEW w \in Workers, PlainWorker(w) \/ SpuriousWake(w) PROVE NoPoller'
      BY <2>1, <1>6, <1>7, <1>8, <1>11, <1>t DEF PlainWorker, Body
    <2>2. ASSUME NEW t \in Threads, PlainCall(t) \/ ShutdownSet(t) PROVE NoPoller'
      BY <2>2, <1>9, <1>10, <1>11, <1>t DEF PlainCall
    <2>3. ASSUME NEW t \in Threads, NEW f \in Fibers, Unpark(t, f) \/ UnparkAdmit(t, f) PROVE NoPoller'
      BY <2>3, <1>8, <1>t
    <2> QED BY <1>12, <2>1, <2>2, <2>3 DEF PlainNext
  <1> QED BY <1>4, <1>5, <1>12

\* Without the netpoller a worker that left its queue behind left it empty.
LEMMA OwnEmptyStep ==
    ASSUME PlaceInv, OwnEmpty, ~Netpoller, [PlainNext]_vars
    PROVE  OwnEmpty'
  <1> DEFINE E == {"batch1", "steal", "batch2", "asleep"}
  <1>t. /\ pc \in [Actors -> WorkerPcs \cup ThreadPcs \cup {"body", "wake", "poke"}]
        /\ rq \in [Workers -> Seq(Fibers)] /\ ret \in [Actors -> {"body", "release"}]
        /\ (\A w \in Workers : w \in Actors) /\ (\A t \in Threads : t \in Actors /\ t \notin Workers)
    BY BoundsAssumption DEF PlaceInv, TypeOK, Actors
  <1>g. ASSUME NEW a \in Actors, NEW l, Goto(a, l), l \in E => rq'[a] = <<>>,
               \A v \in Workers : v # a => rq'[v] = rq[v]
        PROVE  OwnEmpty'
    <2>1. pc' = [pc EXCEPT ![a] = l]
      BY <1>g DEF Goto
    <2> SUFFICES ASSUME NEW v \in Workers, pc'[v] \in E PROVE rq'[v] = <<>>
      BY DEF OwnEmpty
    <2>2. CASE v = a
      BY <2>1, <2>2, <1>g, <1>t
    <2>3. CASE v # a
      BY <2>1, <2>3, <1>g, <1>t DEF OwnEmpty
    <2> QED BY <2>2, <2>3
  <1>w. ASSUME NEW a \in Actors, NEW n \in Nat, WakeThen(a, n, "body"),
               \A v \in Workers : v # a => rq'[v] = rq[v] \/ rq[v] # <<>>
        PROVE  OwnEmpty'
    <2>1. /\ \A b \in Actors : b # a => pc'[b] = pc[b]
          /\ pc'[a] \in {"body", "wake"}
      BY <1>w, WakeThenFacts DEF PlaceInv
    <2> SUFFICES ASSUME NEW v \in Workers, pc'[v] \in E PROVE rq'[v] = <<>>
      BY DEF OwnEmpty
    <2>2. v # a /\ pc[v] \in E
      BY <2>1, <1>t
    <2> QED BY <2>2, <1>w DEF OwnEmpty
  <1>p. ASSUME NEW a \in Workers, ToAfterPop(a), rq' = rq, rq[a] = <<>> PROVE OwnEmpty'
    BY <1>p, <1>g, <1>t DEF ToAfterPop
  <1>k. ASSUME rq' = rq, \A v \in Workers : pc'[v] \in E => pc[v] \in E PROVE OwnEmpty'
    BY <1>k DEF OwnEmpty
  <1>5. CASE UNCHANGED vars
    BY <1>5 DEF vars, queueVars, OwnEmpty
  <1>6. ASSUME NEW w \in Workers, Choose(w) PROVE OwnEmpty'
    <2>1. CASE Exit(w) \/ ReadHead(w) \/ Woken(w)
      BY <2>1, <1>g, <1>t DEF Exit, ReadHead, Woken, queueVars
    <2>2. CASE PopOldest(w)
      <3>1. CASE Goto(w, "body") /\ rq' = [rq EXCEPT ![w] = Tail(@)]
        BY <3>1, <1>g, <1>t
      <3>2. CASE g[w] = 0 /\ ~(rq[w] # <<>> /\ (g[w] = 0 \/ rseq[Head(rq[w])] < g[w])) /\ ToAfterPop(w) /\ rq' = rq
        BY <3>2, <1>p
      <3>3. CASE Goto(w, IF rq[w] = <<>> THEN "batch1" ELSE "popg") /\ rq' = rq
        BY <3>3, <1>g, <1>t
      <3> QED BY <2>2, <3>1, <3>2, <3>3 DEF PopOldest
    <2>3. CASE PopGlobal(w)
      BY <2>3, <1>g, <1>t DEF PopGlobal
    <2>4. CASE PopLocal(w)
      <3>1. CASE Goto(w, "body") /\ rq' = [rq EXCEPT ![w] = Tail(@)]
        BY <3>1, <1>g, <1>t
      <3>2. CASE rq[w] = <<>> /\ ToAfterPop(w) /\ rq' = rq
        BY <3>2, <1>p
      <3> QED BY <2>4, <3>1, <3>2 DEF PopLocal
    <2>5. CASE TakeGlobalBatch(w)
      <3>0. rq[w] = <<>>
        BY <2>5 DEF TakeGlobalBatch, OwnEmpty
      <3>1. CASE Goto(w, "body") /\ rq' = [rq EXCEPT ![w] = @ \o SubSeq(gq, 2, BatchSize)]
        <4>1. \A v \in Workers : v # w => rq'[v] = rq[v]
          BY <3>1, <1>t
        <4> QED BY <3>1, <4>1, <1>g, <1>t
      <3>2. CASE ToAfterPop(w) /\ rq' = rq
        BY <3>0, <3>2, <1>p
      <3>3. CASE Goto(w, IF Netpoller THEN "poll" ELSE "idle") /\ rq' = rq
        BY <3>3, <1>g, <1>t
      <3> QED BY <2>5, <3>1, <3>2, <3>3 DEF TakeGlobalBatch
    <2>6. CASE StealNothing(w)
      <3>1. rq[w] = <<>> /\ rq' = rq /\ Goto(w, "batch2")
        BY <2>6 DEF StealNothing, OwnEmpty, queueVars
      <3> QED BY <3>1, <1>g, <1>t
    <2>7. ASSUME NEW z \in Workers, Steal(w, z) PROVE OwnEmpty'
      <3>1. \A v \in Workers : v # w => rq'[v] = rq[v] \/ rq[v] # <<>>
        <4>1. rq[z] # <<>>
          BY <2>7, <1>t DEF Steal
        <4>2. \A v \in Workers : v # w /\ v # z => rq'[v] = rq[v]
          BY <2>7, <1>t DEF Steal
        <4> QED BY <4>1, <4>2
      <3> DEFINE n == IF rq[w] # <<>> \/ Len(rq[z]) \div 2 > 1 THEN 1 ELSE 0
      <3>2. n \in Nat /\ WakeThen(w, n, "body")
        BY <2>7 DEF Steal
      <3> HIDE DEF n
      <3> QED BY <3>1, <3>2, <1>w, <1>t
    <2>8. CASE IdlePark(w)
      <3>1. CASE Goto(w, "exit") \/ Goto(w, "next")
        BY <2>8, <3>1, <1>g, <1>t DEF IdlePark, queueVars
      <3>2. CASE Goto(w, "asleep") /\ rq[w] = <<>>
        BY <2>8, <3>2, <1>g, <1>t DEF IdlePark, queueVars
      <3> QED BY <2>8, <3>1, <3>2 DEF IdlePark
    <2> QED BY <1>6, <2>1, <2>2, <2>3, <2>4, <2>5, <2>6, <2>7, <2>8 DEF Choose
  <1>7. ASSUME NEW w \in Workers, YieldTo(w) \/ ParkOrFinish(w) PROVE OwnEmpty'
    <2>1. Goto(w, "next") /\ \A v \in Workers : v # w => rq'[v] = rq[v]
      BY <1>7, <1>t DEF YieldTo, ParkOrFinish, PushLocal
    <2> QED BY <2>1, <1>g, <1>t
  <1>13. ASSUME NEW w \in Workers, SpuriousWake(w) PROVE OwnEmpty'
    BY <1>13, <1>g, <1>t DEF SpuriousWake, queueVars
  <1>8. ASSUME NEW a \in Actors, NEW f \in Fibers, (a \in Workers /\ SpawnLocal(a, f)) \/ Unpark(a, f) \/ UnparkAdmit(a, f)
        PROVE  OwnEmpty'
    <2>1. 1 \in Nat /\ WakeThen(a, 1, "body")
      BY <1>8 DEF SpawnLocal, Unpark, UnparkAdmit
    <2>2. \A v \in Workers : v # a => rq'[v] = rq[v]
      BY <1>8, <1>t DEF SpawnLocal, PushLocal, Unpark, PushGlobal, UnparkAdmit
    <2> QED BY <2>1, <2>2, <1>w
  <1>9. ASSUME NEW t \in Threads, ShutdownSet(t) \/ ShutdownPoke(t) \/ ShutdownJoin(t) PROVE OwnEmpty'
    BY <1>9, <1>g, <1>t DEF ShutdownSet, ShutdownPoke, ShutdownJoin, queueVars
  <1>10. ASSUME NEW t \in Threads, ShutdownWakeAll(t) PROVE OwnEmpty'
    <2>1. /\ pc' = [b \in Actors |-> IF b \in Asleep THEN "woken" ELSE IF b = t THEN "sdpoke" ELSE pc[b]]
          /\ rq' = rq
      BY <1>10 DEF ShutdownWakeAll, queueVars
    <2> QED BY <2>1, <1>k, <1>t
  <1>11. ASSUME NEW a \in Actors, Signal(a) PROVE OwnEmpty'
    <2>1. PICK W \in SUBSET Asleep :
              pc' = [b \in Actors |-> CASE b \in W -> "woken"
                                        [] b = a -> IF idle_waiters = 0 /\ Netpoller THEN "poke" ELSE ret[a]
                                        [] OTHER -> pc[b]]
      BY <1>11 DEF Signal
    <2>2. ret[a] \notin E /\ rq' = rq
      BY <1>11, <1>t DEF Signal, queueVars
    <2>3. a \notin W
      BY <1>11 DEF Asleep, Signal
    <2>4. \A b \in Actors : pc'[b] \in E => pc[b] \in E
      BY <2>1, <2>2, <2>3
    <2> QED BY <2>2, <2>4, <1>k, <1>t
  <1>12. CASE PlainNext
    <2>1. ASSUME NEW w \in Workers, PlainWorker(w) \/ SpuriousWake(w) PROVE OwnEmpty'
      BY <2>1, <1>6, <1>7, <1>8, <1>11, <1>13, <1>t DEF PlainWorker, Body
    <2>2. ASSUME NEW t \in Threads, PlainCall(t) \/ ShutdownSet(t) PROVE OwnEmpty'
      BY <2>2, <1>9, <1>10, <1>11, <1>t DEF PlainCall
    <2>3. ASSUME NEW t \in Threads, NEW f \in Fibers, Unpark(t, f) \/ UnparkAdmit(t, f) PROVE OwnEmpty'
      BY <2>3, <1>8, <1>t
    <2> QED BY <1>12, <2>1, <2>2, <2>3 DEF PlainNext
  <1> QED BY <1>5, <1>12

\* A signal given while every worker sleeps wakes one: the count is right, and
\* there is a signal to give.
LEMMA SignalReaches ==
    ASSUME PlaceInv, WantInv, NEW a \in Actors, Signal(a), \A w \in Workers : pc[w] = "asleep"
    PROVE  \E w \in Workers : pc'[w] # "asleep"
  <1>1. PICK W \in SUBSET Asleep :
            /\ Cardinality(W) = Lesser(Lesser(want[a], idle_waiters), Cardinality(Asleep))
            /\ pc' = [b \in Actors |-> CASE b \in W -> "woken"
                                         [] b = a -> IF idle_waiters = 0 /\ Netpoller THEN "poke" ELSE ret[a]
                                         [] OTHER -> pc[b]]
    BY DEF Signal
  <1>2. Asleep = Workers /\ {w \in Workers : pc[w] \in {"asleep", "woken"}} = Workers
    BY DEF Asleep
  <1>3. idle_waiters = Cardinality(Workers) /\ Cardinality(Asleep) = Cardinality(Workers)
    BY <1>2 DEF PlaceInv, IdleCountExact
  <1>4. Cardinality(Workers) \in Nat /\ Cardinality(Workers) # 0
    BY BoundsAssumption, FS_CardinalityType, FS_EmptySet
  <1>5. want[a] \in Nat /\ want[a] >= 1
    BY DEF PlaceInv, TypeOK, WantInv, Signal
  <1>6. Lesser(Lesser(want[a], idle_waiters), Cardinality(Asleep)) # 0
    BY <1>3, <1>4, <1>5 DEF Lesser
  <1>7. W # {}
    BY <1>1, <1>6, FS_EmptySet
  <1>8. PICK w \in W : TRUE
    BY <1>7
  <1>9. w \in Workers /\ w \in Actors
    BY <1>2, <1>8 DEF Actors
  <1>a. w # a
    <2>1. pc[a] = "wake" /\ pc[w] = "asleep"
      BY <1>9 DEF Signal
    <2> QED BY <2>1
  <1>10. pc'[w] = "woken"
    BY <1>1, <1>8, <1>9, <1>a
  <1> QED BY <1>9, <1>10

\* Every step keeps a worker up for what is queued, or a signal on its way.
LEMMA UpStep ==
    ASSUME PlaceInv, WantInv, SomeoneUp, OwnEmpty, [PlainNext]_vars
    PROVE  WantInv' /\ SomeoneUp'
  <1>t. /\ pc \in [Actors -> WorkerPcs \cup ThreadPcs \cup {"body", "wake", "poke"}]
        /\ want \in [Actors -> Nat] /\ ret \in [Actors -> {"body", "release"}]
        /\ gq \in Seq(Fibers)
        /\ (\A w \in Workers : w \in Actors) /\ (\A t \in Threads : t \in Actors /\ t \notin Workers)
    BY BoundsAssumption DEF PlaceInv, TypeOK, Actors
  \* An actor that is not asleep goes on and gives no signal.
  <1>g. ASSUME NEW a \in Actors, NEW l, Goto(a, l), l # "wake", pc[a] # "wake", want' = want,
               \/ a \in Workers /\ l # "asleep"
               \/ gq' = <<>>
               \/ a \notin Workers /\ gq' = gq
        PROVE  WantInv' /\ SomeoneUp'
    <2>1. pc' = [pc EXCEPT ![a] = l]
      BY <1>g DEF Goto
    <2>2. WantInv'
      BY <2>1, <1>g, <1>t DEF WantInv
    <2>3. CASE a \in Workers /\ l # "asleep"
      BY <2>1, <2>2, <2>3, <1>t DEF SomeoneUp
    <2>4. CASE gq' = <<>>
      BY <2>2, <2>4 DEF SomeoneUp
    <2>5. CASE a \notin Workers /\ gq' = gq
      <3>1. CASE \E w \in Workers : pc[w] # "asleep"
        BY <2>1, <2>2, <2>5, <3>1, <1>t DEF SomeoneUp
      <3>2. CASE \E b \in Actors : pc[b] = "wake"
        BY <2>1, <2>2, <3>2, <1>g, <1>t DEF SomeoneUp
      <3> QED BY <2>2, <2>5, <3>1, <3>2 DEF SomeoneUp
    <2> QED BY <1>g, <2>2, <2>3, <2>4, <2>5
  <1>w. ASSUME NEW a \in Actors, NEW n \in Nat, WakeThen(a, n, "body"), a \in Workers \/ n > 0
        PROVE  WantInv' /\ SomeoneUp'
    <2>1. CASE n > 0
      <3>1. pc' = [pc EXCEPT ![a] = "wake"] /\ want' = [want EXCEPT ![a] = n]
        BY <1>w, <2>1 DEF WakeThen, Goto
      <3> QED BY <3>1, <2>1, <1>w, <1>t DEF WantInv, SomeoneUp
    <2>2. CASE ~(n > 0)
      <3>1. pc' = [pc EXCEPT ![a] = "body"] /\ want' = want /\ a \in Workers
        BY <1>w, <2>2 DEF WakeThen, Goto
      <3> QED BY <3>1, <1>t DEF WantInv, SomeoneUp
    <2> QED BY <2>1, <2>2
  <1>5. CASE UNCHANGED vars
    BY <1>5 DEF vars, queueVars, WantInv, SomeoneUp
  <1>6. ASSUME NEW w \in Workers, Choose(w) PROVE WantInv' /\ SomeoneUp'
    <2>1. CASE Exit(w) \/ ReadHead(w) \/ StealNothing(w) \/ Woken(w)
      BY <2>1, <1>g, <1>t DEF Exit, ReadHead, StealNothing, Woken
    <2>p. ASSUME ToAfterPop(w), pc[w] # "wake", want' = want PROVE WantInv' /\ SomeoneUp'
      BY <2>p, <1>g, <1>t DEF ToAfterPop
    <2>2. CASE PopOldest(w)
      BY <2>2, <2>p, <1>g, <1>t DEF PopOldest
    <2>3. CASE PopGlobal(w)
      BY <2>3, <1>g, <1>t DEF PopGlobal
    <2>4. CASE PopLocal(w)
      BY <2>4, <2>p, <1>g, <1>t DEF PopLocal
    <2>5. CASE TakeGlobalBatch(w)
      BY <2>5, <2>p, <1>g, <1>t DEF TakeGlobalBatch
    <2>7. ASSUME NEW z \in Workers, Steal(w, z) PROVE WantInv' /\ SomeoneUp'
      <3> DEFINE n == IF rq[w] # <<>> \/ Len(rq[z]) \div 2 > 1 THEN 1 ELSE 0
      <3>2. n \in Nat /\ WakeThen(w, n, "body")
        BY <2>7 DEF Steal
      <3> HIDE DEF n
      <3> QED BY <3>2, <1>w, <1>t
    <2>8. CASE IdlePark(w)
      BY <2>8, <1>g, <1>t DEF IdlePark, queueVars
    <2> QED BY <1>6, <2>1, <2>2, <2>3, <2>4, <2>5, <2>7, <2>8 DEF Choose
  <1>7. ASSUME NEW w \in Workers, YieldTo(w) \/ ParkOrFinish(w) \/ SpuriousWake(w) PROVE WantInv' /\ SomeoneUp'
    BY <1>7, <1>g, <1>t DEF YieldTo, ParkOrFinish, SpuriousWake, Leave
  <1>8. ASSUME NEW a \in Actors, NEW f \in Fibers, SpawnLocal(a, f) \/ Unpark(a, f) \/ UnparkAdmit(a, f)
        PROVE  WantInv' /\ SomeoneUp'
    <2>1. 1 \in Nat /\ 1 > 0 /\ WakeThen(a, 1, "body")
      BY <1>8 DEF SpawnLocal, Unpark, UnparkAdmit
    <2> QED BY <2>1, <1>w
  <1>9. ASSUME NEW t \in Threads, ShutdownSet(t) \/ ShutdownPoke(t) \/ ShutdownJoin(t) PROVE WantInv' /\ SomeoneUp'
    BY <1>9, <1>g, <1>t DEF ShutdownSet, ShutdownPoke, ShutdownJoin, queueVars
  <1>10. ASSUME NEW t \in Threads, ShutdownWakeAll(t) PROVE WantInv' /\ SomeoneUp'
    <2>1. /\ pc' = [b \in Actors |-> IF b \in Asleep THEN "woken" ELSE IF b = t THEN "sdpoke" ELSE pc[b]]
          /\ want' = want
      BY <1>10 DEF ShutdownWakeAll
    <2>2. WantInv'
      BY <2>1 DEF WantInv
    <2>3. PICK w \in Workers : TRUE
      BY BoundsAssumption
    <2>4. pc'[w] # "asleep"
      BY <2>1, <2>3, <1>t DEF Asleep
    <2> QED BY <2>2, <2>4 DEF SomeoneUp
  <1>11. ASSUME NEW a \in Actors, Signal(a) PROVE WantInv' /\ SomeoneUp'
    <2>1. PICK W \in SUBSET Asleep :
              pc' = [b \in Actors |-> CASE b \in W -> "woken"
                                        [] b = a -> IF idle_waiters = 0 /\ Netpoller THEN "poke" ELSE ret[a]
                                        [] OTHER -> pc[b]]
      BY <1>11 DEF Signal
    <2>2. ret[a] \in {"body", "release"} /\ want' = [want EXCEPT ![a] = 0]
      BY <1>11, <1>t DEF Signal
    <2>3. a \notin W
      BY <1>11 DEF Asleep, Signal
    <2>4. pc'[a] # "wake" /\ pc'[a] # "asleep" /\ \A b \in Actors : b # a => pc'[b] = "woken" \/ pc'[b] = pc[b]
      BY <2>1, <2>2, <2>3
    <2>5. WantInv'
      BY <2>2, <2>4, <1>t DEF WantInv
    <2>6. CASE \A w \in Workers : pc[w] = "asleep"
      BY <2>5, <2>6, <1>11, SignalReaches DEF SomeoneUp
    <2>7. ASSUME NEW w \in Workers, pc[w] # "asleep" PROVE pc'[w] # "asleep"
      BY <2>4, <2>7, <1>t
    <2> QED BY <2>5, <2>6, <2>7 DEF SomeoneUp
  <1>12. CASE PlainNext
    <2>1. ASSUME NEW w \in Workers, PlainWorker(w) \/ SpuriousWake(w) PROVE WantInv' /\ SomeoneUp'
      BY <2>1, <1>6, <1>7, <1>8, <1>11, <1>t DEF PlainWorker, Body
    <2>2. ASSUME NEW t \in Threads, PlainCall(t) \/ ShutdownSet(t) PROVE WantInv' /\ SomeoneUp'
      BY <2>2, <1>9, <1>10, <1>11, <1>t DEF PlainCall
    <2>3. ASSUME NEW t \in Threads, NEW f \in Fibers, Unpark(t, f) \/ UnparkAdmit(t, f) PROVE WantInv' /\ SomeoneUp'
      BY <2>3, <1>8, <1>t
    <2> QED BY <1>12, <2>1, <2>2, <2>3 DEF PlainNext
  <1> QED BY <1>5, <1>12

-----------------------------------------------------------------------------
(* The order of the queues.                                                *)

InOrder(r, s) == \A i, j \in 1 .. Len(s) : i < j => r[s[i]] <= r[s[j]]

\* QueuesOrdered, said of each queue and of its successor.
LEMMA OrderedIs ==
    ASSUME TypeOK
    PROVE  /\ QueuesOrdered <=> InOrder(rseq, gq) /\ \A w \in Workers : InOrder(rseq, rq[w])
           /\ TypeOK' => (QueuesOrdered' <=> InOrder(rseq', gq') /\ \A w \in Workers : InOrder(rseq', rq'[w]))
  <1>1. ASSUME NEW s \in Seq(Fibers) PROVE DOMAIN s = 1 .. Len(s)
    OBVIOUS
  <1>2. gq \in Seq(Fibers) /\ \A w \in Workers : rq[w] \in Seq(Fibers)
    BY DEF TypeOK
  <1>3. TypeOK' => gq' \in Seq(Fibers) /\ \A w \in Workers : rq'[w] \in Seq(Fibers)
    BY DEF TypeOK
  <1>4. QueuesOrdered <=> InOrder(rseq, gq) /\ \A w \in Workers : InOrder(rseq, rq[w])
    BY <1>1, <1>2 DEF QueuesOrdered, Ordered, InOrder
  <1>5. ASSUME TypeOK' PROVE QueuesOrdered' <=> InOrder(rseq', gq') /\ \A w \in Workers : InOrder(rseq', rq'[w])
    BY <1>1, <1>3, <1>5 DEF QueuesOrdered, Ordered, InOrder
  <1> QED BY <1>4, <1>5

\* Restamping fibers a queue does not hold leaves its order alone.
LEMMA OrderKept ==
    ASSUME NEW r, NEW q, NEW s \in Seq(Fibers), InOrder(r, s), \A x \in ToSet(s) : q[x] = r[x]
    PROVE  InOrder(q, s)
  <1>1. \A i \in 1 .. Len(s) : s[i] \in ToSet(s)
    BY InToSet
  <1> QED BY <1>1 DEF InOrder

\* A part of an ordered queue is ordered.
LEMMA OrderPart ==
    ASSUME NEW r, NEW s \in Seq(Fibers), IsInjective(s), InOrder(r, s), NEW m \in Nat \ {0}, NEW n \in 0 .. Len(s)
    PROVE  InOrder(r, SubSeq(s, m, n))
  <1> DEFINE u == SubSeq(s, m, n)
  <1>1. /\ Len(u) = IF m <= n THEN n - m + 1 ELSE 0
        /\ \A i \in 1 .. n - m + 1 : u[i] = s[m + i - 1]
    BY PartQueue
  <1> HIDE DEF u
  <1>0. Len(s) \in Nat
    OBVIOUS
  <1>2. ASSUME NEW i \in 1 .. Len(u), NEW j \in 1 .. Len(u), i < j PROVE r[u[i]] <= r[u[j]]
    <2>1. i \in 1 .. n - m + 1 /\ j \in 1 .. n - m + 1
      BY <1>1, <1>2
    <2>2. m + i - 1 \in 1 .. Len(s) /\ m + j - 1 \in 1 .. Len(s) /\ m + i - 1 < m + j - 1
      BY <2>1, <1>0, <1>2
    <2> QED BY <2>1, <2>2, <1>1 DEF InOrder
  <1> QED BY <1>2 DEF InOrder, u

\* A fiber stamped last at the tail, or first at the head, keeps the order.
LEMMA OrderJoin ==
    ASSUME NEW r, NEW s \in Seq(Fibers), InOrder(r, s), NEW f \in Fibers
    PROVE  /\ (\A x \in ToSet(s) : r[x] <= r[f]) => InOrder(r, Append(s, f))
           /\ (\A x \in ToSet(s) : r[f] <= r[x]) => InOrder(r, <<f>> \o s)
  <1>0. Len(s) \in Nat /\ \A i \in 1 .. Len(s) : s[i] \in ToSet(s)
    BY InToSet
  <1>1. ASSUME \A x \in ToSet(s) : r[x] <= r[f] PROVE InOrder(r, Append(s, f))
    <2> DEFINE u == Append(s, f)
    <2>1. Len(u) = Len(s) + 1 /\ (\A i \in 1 .. Len(s) : u[i] = s[i]) /\ u[Len(s) + 1] = f
      BY AppendProperties
    <2> HIDE DEF u
    <2>2. ASSUME NEW i \in 1 .. Len(u), NEW j \in 1 .. Len(u), i < j PROVE r[u[i]] <= r[u[j]]
      <3>1. CASE j = Len(s) + 1
        BY <3>1, <2>1, <2>2, <1>0, <1>1
      <3>2. CASE j # Len(s) + 1
        <4>1. i \in 1 .. Len(s) /\ j \in 1 .. Len(s)
          BY <3>2, <2>1, <2>2, <1>0
        <4> QED BY <4>1, <2>1, <2>2 DEF InOrder
      <3> QED BY <3>1, <3>2
    <2> QED BY <2>2 DEF InOrder, u
  <1>2. ASSUME \A x \in ToSet(s) : r[f] <= r[x] PROVE InOrder(r, <<f>> \o s)
    <2> DEFINE h == <<f>>
               u == h \o s
    <2>h. h \in Seq(Fibers) /\ Len(h) = 1 /\ h[1] = f
      OBVIOUS
    <2> HIDE DEF h
    <2>1. /\ Len(u) = Len(h) + Len(s)
          /\ \A i \in 1 .. Len(u) : u[i] = IF i <= Len(h) THEN h[i] ELSE s[i - Len(h)]
      <3>1. h \in Seq(Fibers) /\ s \in Seq(Fibers)
        BY <2>h
      <3> QED BY <3>1, ConcatProperties
    <2> HIDE DEF u
    <2>2. ASSUME NEW i \in 1 .. Len(u), NEW j \in 1 .. Len(u), i < j PROVE r[u[i]] <= r[u[j]]
      <3>0. j - 1 \in 1 .. Len(s) /\ u[j] = s[j - 1]
        BY <2>1, <2>2, <2>h, <1>0
      <3>1. CASE i = 1
        <4>1. u[i] = f
          BY <3>1, <2>1, <2>h
        <4> QED BY <4>1, <3>0, <1>0, <1>2
      <3>2. CASE i # 1
        <4>1. i - 1 \in 1 .. Len(s) /\ u[i] = s[i - 1] /\ i - 1 < j - 1
          BY <3>2, <2>1, <2>2, <2>h, <1>0
        <4> QED BY <4>1, <3>0 DEF InOrder
      <3> QED BY <3>1, <3>2
    <2> QED BY <2>2 DEF InOrder, u, h
  <1> QED BY <1>1, <1>2

\* Fibers move between queues, each queue a part of an old one.
LEMMA MoveKeepsOrder ==
    ASSUME TypeOK, TypeOK', Stamps, UNCHANGED <<rseq, rseq_clock>>,
           \A x \in Fibers : InQueue(x)' => InQueue(x),
           InOrder(rseq, gq'), \A v \in Workers : InOrder(rseq, rq'[v])
    PROVE  Stamps' /\ QueuesOrdered'
  <1>1. Stamps'
    BY DEF Stamps
  <1>2. QueuesOrdered'
    BY OrderedIs
  <1> QED BY <1>1, <1>2

\* Worker w takes the first k of queue s: what stays and what follows the head
\* are parts of it, in its order.
LEMMA PartsInOrder ==
    ASSUME NEW s \in Seq(Fibers), IsInjective(s), InOrder(rseq, s), NEW k \in 1 .. Len(s)
    PROVE  /\ InOrder(rseq, SubSeq(s, 2, k)) /\ InOrder(rseq, SubSeq(s, k + 1, Len(s)))
           /\ ToSet(SubSeq(s, 2, k)) \subseteq ToSet(s) /\ ToSet(SubSeq(s, k + 1, Len(s))) \subseteq ToSet(s)
  <1>1. k \in 0 .. Len(s) /\ Len(s) \in 0 .. Len(s) /\ 2 \in Nat \ {0} /\ k + 1 \in Nat \ {0}
    OBVIOUS
  <1>2. InOrder(rseq, SubSeq(s, 2, k)) /\ InOrder(rseq, SubSeq(s, k + 1, Len(s)))
    BY <1>1, OrderPart
  <1> QED BY <1>2, BatchOff

\* What a pop leaves of an ordered queue is ordered.
LEMMA TailInOrder ==
    ASSUME NEW s \in Seq(Fibers), IsInjective(s), InOrder(rseq, s), s # <<>>
    PROVE  InOrder(rseq, Tail(s)) /\ ToSet(Tail(s)) \subseteq ToSet(s)
  <1>1. 1 \in 1 .. Len(s) /\ 1 + 1 = 2
    OBVIOUS
  <1>2. InOrder(rseq, SubSeq(s, 2, Len(s))) /\ ToSet(SubSeq(s, 2, Len(s))) \subseteq ToSet(s)
    BY <1>1, PartsInOrder
  <1>3. Tail(s) = SubSeq(s, 2, Len(s))
    BY TailIsSubSeq
  <1> QED BY <1>2, <1>3, Zenon

\* A fiber no queue held is pushed at a tail.
LEMMA PushKeepsOrder ==
    ASSUME PlaceInv, TypeOK', Stamps, QueuesOrdered, NEW f \in Fibers, ~InQueue(f),
           rseq' = Stamped(<<f>>), rseq_clock' = rseq_clock + 1,
           \/ gq' = Append(gq, f) /\ rq' = rq
           \/ \E w \in Workers : gq' = gq /\ rq' = [rq EXCEPT ![w] = Append(@, f)]
    PROVE  Stamps' /\ QueuesOrdered'
  <1>t. /\ rq \in [Workers -> Seq(Fibers)] /\ gq \in Seq(Fibers) /\ rseq_clock \in Nat /\ rseq \in [Fibers -> Nat]
        /\ IsInjective(gq) /\ \A v \in Workers : IsInjective(rq[v])
    BY DEF PlaceInv, TypeOK, Apart
  <1>b. ToSet(gq) \subseteq Fibers /\ \A v \in Workers : ToSet(rq[v]) \subseteq Fibers
    BY <1>t, EmptyQueue
  <1>f. f \notin ToSet(gq) /\ \A v \in Workers : f \notin ToSet(rq[v])
    BY DEF InQueue
  <1>r. rseq'[f] = rseq_clock + 1 /\ \A x \in Fibers : x # f => rseq'[x] = rseq[x]
    <2> DEFINE s == <<f>>
    <2>1. s \in Seq(Fibers) /\ ToSet(s) = {f} /\ Len(s) = 1
      BY OneQueue
    <2> HIDE DEF s
    <2>2. /\ \A x \in Fibers : x \notin ToSet(s) => Stamped(s)[x] = rseq[x]
          /\ \A x \in ToSet(s) : \E i \in 1 .. Len(s) : s[i] = x /\ Stamped(s)[x] = rseq_clock + i
      BY <2>1, StampedFacts DEF PlaceInv
    <2>3. Stamped(s)[f] = rseq_clock + 1
      <3>1. PICK i \in 1 .. Len(s) : Stamped(s)[f] = rseq_clock + i
        BY <2>1, <2>2
      <3>2. i = 1
        BY <2>1
      <3> QED BY <3>1, <3>2
    <2>4. rseq' = Stamped(s)
      BY DEF s
    <2> QED BY <2>1, <2>2, <2>3, <2>4
  <1>o. InOrder(rseq, gq) /\ \A w \in Workers : InOrder(rseq, rq[w])
    BY OrderedIs DEF PlaceInv
  <1>u. ASSUME NEW s \in Seq(Fibers), InOrder(rseq, s), \A x \in ToSet(s) : InQueue(x)
        PROVE  InOrder(rseq', s) /\ InOrder(rseq', Append(s, f))
    <2>1. \A x \in ToSet(s) : x \in Fibers /\ x # f /\ rseq'[x] = rseq[x] /\ rseq[x] <= rseq_clock + 1
      <3>1. ToSet(s) \subseteq Fibers
        BY EmptyQueue
      <3> QED BY <3>1, <1>r, <1>u DEF Stamps
    <2>2. InOrder(rseq', s)
      BY <2>1, <1>u, OrderKept
    <2>3. \A x \in ToSet(s) : rseq'[x] <= rseq'[f]
      BY <2>1, <1>r
    <2> QED BY <2>2, <2>3, OrderJoin
  <1>v. /\ \A x \in ToSet(gq) : InQueue(x)
        /\ \A w \in Workers : \A x \in ToSet(rq[w]) : InQueue(x)
    BY DEF InQueue
  <1>g. InOrder(rseq', gq) /\ InOrder(rseq', Append(gq, f))
    BY <1>o, <1>t, <1>u, <1>v
  <1>w. \A v \in Workers : InOrder(rseq', rq[v]) /\ InOrder(rseq', Append(rq[v], f))
    BY <1>o, <1>t, <1>u, <1>v
  <1>s. ASSUME \A x \in Fibers : InQueue(x)' => InQueue(x) \/ x = f PROVE Stamps'
    <2> SUFFICES ASSUME NEW x \in Fibers, InQueue(x)' PROVE 1 <= rseq'[x] /\ rseq'[x] <= rseq_clock' + 1
      BY DEF Stamps
    <2>1. CASE x = f
      BY <2>1, <1>r, <1>t
    <2>2. CASE x # f
      <3>1. 1 <= rseq[x] /\ rseq[x] <= rseq_clock + 1 /\ rseq'[x] = rseq[x]
        BY <2>2, <1>r, <1>s DEF Stamps
      <3> QED BY <3>1, <1>t
    <2> QED BY <2>1, <2>2
  <1>1. CASE gq' = Append(gq, f) /\ rq' = rq
    <2>1. ToSet(gq') = ToSet(gq) \cup {f}
      BY <1>1, <1>t, <1>f, JoinOne
    <2>2. \A x \in Fibers : InQueue(x)' => InQueue(x) \/ x = f
      BY <1>1, <2>1 DEF InQueue
    <2>3. InOrder(rseq', gq') /\ \A v \in Workers : InOrder(rseq', rq'[v])
      BY <1>1, <1>g, <1>w
    <2> QED BY <2>2, <2>3, <1>s, OrderedIs DEF PlaceInv
  <1>2. ASSUME NEW w \in Workers, gq' = gq, rq' = [rq EXCEPT ![w] = Append(@, f)] PROVE Stamps' /\ QueuesOrdered'
    <2>1. ToSet(Append(rq[w], f)) = ToSet(rq[w]) \cup {f}
      BY <1>t, <1>f, JoinOne
    <2>q. rq'[w] = Append(rq[w], f) /\ \A v \in Workers : v # w => rq'[v] = rq[v]
      BY <1>2, <1>t
    <2>2. ASSUME NEW x \in Fibers, InQueue(x)' PROVE InQueue(x) \/ x = f
      <3>1. CASE x \in ToSet(gq')
        BY <3>1, <1>2 DEF InQueue
      <3>2. ASSUME NEW v \in Workers, x \in ToSet(rq'[v]) PROVE x \in ToSet(rq[v]) \/ x = f
        BY <3>2, <2>1, <2>q
      <3> QED BY <2>2, <3>1, <3>2 DEF InQueue
    <2>3. InOrder(rseq', gq') /\ \A v \in Workers : InOrder(rseq', rq'[v])
      BY <1>2, <2>q, <1>g, <1>w
    <2> QED BY <2>2, <2>3, <1>s, OrderedIs DEF PlaceInv
  <1> QED BY <1>1, <1>2

\* Every step without the netpoller keeps the queues ordered and the stamps below the clock.
LEMMA OrderStep ==
    ASSUME PlaceInv, TypeOK', OwnEmpty, Stamps, QueuesOrdered, [PlainNext]_vars
    PROVE  Stamps' /\ QueuesOrdered'
  <1>t. /\ rq \in [Workers -> Seq(Fibers)] /\ gq \in Seq(Fibers) /\ rseq_clock \in Nat /\ rseq \in [Fibers -> Nat]
        /\ IsInjective(gq) /\ \A v \in Workers : IsInjective(rq[v])
        /\ TypeOK /\ (\A w \in Workers : w \in Actors) /\ (\A t \in Threads : t \in Actors)
    BY DEF PlaceInv, TypeOK, Apart, Actors
  <1>o. InOrder(rseq, gq) /\ \A w \in Workers : InOrder(rseq, rq[w])
    BY <1>t, OrderedIs
  <1>q. ASSUME UNCHANGED <<rq, gq, rseq, rseq_clock>> PROVE Stamps' /\ QueuesOrdered'
    <2>1. \A x \in Fibers : InQueue(x)' => InQueue(x)
      BY <1>q DEF InQueue
    <2> QED BY <2>1, <1>o, <1>q, <1>t, MoveKeepsOrder
  <1>v. ASSUME NEW w \in Workers, rq[w] # <<>>, rq' = [rq EXCEPT ![w] = Tail(@)], UNCHANGED <<gq, rseq, rseq_clock>>
        PROVE  Stamps' /\ QueuesOrdered'
    <2>1. ToSet(Tail(rq[w])) \subseteq ToSet(rq[w]) /\ InOrder(rseq, Tail(rq[w]))
      BY <1>o, <1>t, <1>v, TailInOrder
    <2>q. rq'[w] = Tail(rq[w]) /\ \A v \in Workers : v # w => rq'[v] = rq[v]
      BY <1>v, <1>t
    <2>3. ASSUME NEW x \in Fibers, InQueue(x)' PROVE InQueue(x)
      <3>1. ASSUME NEW v \in Workers, x \in ToSet(rq'[v]) PROVE x \in ToSet(rq[v])
        BY <3>1, <2>1, <2>q
      <3> QED BY <2>3, <3>1, <1>v DEF InQueue
    <2>4. InOrder(rseq, gq') /\ \A v \in Workers : InOrder(rseq, rq'[v])
      BY <2>1, <2>q, <1>o, <1>v
    <2> QED BY <2>3, <2>4, <1>t, <1>v, MoveKeepsOrder
  <1>6. ASSUME NEW w \in Workers, Choose(w) PROVE Stamps' /\ QueuesOrdered'
    <2>1. CASE Exit(w) \/ ReadHead(w) \/ StealNothing(w) \/ IdlePark(w) \/ Woken(w)
      BY <2>1, <1>q DEF Exit, ReadHead, StealNothing, IdlePark, Woken, queueVars
    <2>2. CASE PopOldest(w)
      BY <2>2, <1>q, <1>v DEF PopOldest
    <2>3. CASE PopLocal(w)
      BY <2>3, <1>q, <1>v DEF PopLocal
    <2>4. CASE PopGlobal(w)
      <3>1. CASE gq # <<>> /\ gq' = Tail(gq)
        <4>0. UNCHANGED <<rq, rseq, rseq_clock>>
          BY <2>4 DEF PopGlobal
        <4>1. ToSet(Tail(gq)) \subseteq ToSet(gq)
          BY <1>o, <1>t, <3>1, TailInOrder
        <4>2. InOrder(rseq, gq')
          BY <1>o, <1>t, <3>1, TailInOrder
        <4>3. \A x \in Fibers : InQueue(x)' => InQueue(x)
          BY <3>1, <4>0, <4>1 DEF InQueue
        <4> QED BY <4>0, <4>2, <4>3, <1>o, <1>t, MoveKeepsOrder
      <3>2. CASE gq' = gq
        BY <2>4, <3>2, <1>q DEF PopGlobal
      <3> QED BY <2>4, <3>1, <3>2 DEF PopGlobal
    <2>5. CASE TakeGlobalBatch(w)
      <3>1. CASE gq' = gq /\ rq' = rq
        BY <2>5, <3>1, <1>q DEF TakeGlobalBatch
      <3>2. CASE gq # <<>> /\ rq' = [rq EXCEPT ![w] = @ \o SubSeq(gq, 2, BatchSize)] /\ gq' = SubSeq(gq, BatchSize + 1, Len(gq))
        <4> DEFINE k == BatchSize
                   own == SubSeq(gq, 2, k)
        <4>0. UNCHANGED <<rseq, rseq_clock>> /\ rq[w] = <<>>
          BY <2>5 DEF TakeGlobalBatch, OwnEmpty
        <4>1. k \in 1 .. Len(gq)
          BY <3>2, FairShare DEF PlaceInv
        <4>2. InOrder(rseq, own) /\ InOrder(rseq, gq') /\ ToSet(own) \subseteq ToSet(gq) /\ ToSet(gq') \subseteq ToSet(gq)
          BY <3>2, <4>1, <1>o, <1>t, PartsInOrder
        <4>3. own \in Seq(Fibers)
          BY <4>1, <1>t, BatchOff
        <4>4. rq' = [rq EXCEPT ![w] = @ \o own]
          BY <3>2
        <4> HIDE DEF own, k
        <4>5. rq[w] \o own = own
          BY <4>0, <4>3, ConcatEmptySeq
        <4>6. rq'[w] = own /\ \A v \in Workers : v # w => rq'[v] = rq[v]
          BY <4>4, <4>5, <1>t
        <4>7. ASSUME NEW x \in Fibers, InQueue(x)' PROVE InQueue(x)
          <5>1. ASSUME NEW v \in Workers, x \in ToSet(rq'[v]) PROVE InQueue(x)
            BY <5>1, <4>2, <4>6 DEF InQueue
          <5>2. x \in ToSet(gq') => InQueue(x)
            BY <4>2 DEF InQueue
          <5> QED BY <4>7, <5>1, <5>2 DEF InQueue
        <4>8. \A v \in Workers : InOrder(rseq, rq'[v])
          BY <4>2, <4>6, <1>o
        <4> QED BY <4>0, <4>2, <4>7, <4>8, <1>t, MoveKeepsOrder
      <3> QED BY <2>5, <3>1, <3>2 DEF TakeGlobalBatch
    <2>6. ASSUME NEW z \in Workers, Steal(w, z) PROVE Stamps' /\ QueuesOrdered'
      <3> DEFINE k == Len(rq[z]) \div 2
                 own == SubSeq(rq[z], 2, k)
                 left == SubSeq(rq[z], k + 1, Len(rq[z]))
      <3>0. /\ UNCHANGED <<gq, rseq, rseq_clock>> /\ rq[w] = <<>> /\ z # w /\ Len(rq[z]) >= 2
            /\ rq' = [rq EXCEPT ![z] = left, ![w] = @ \o own]
        BY <2>6, <1>t DEF Steal, OwnEmpty
      <3>1. k \in 1 .. Len(rq[z])
        <4>1. Len(rq[z]) \in Nat
          BY <1>t
        <4>2. \A m \in Nat : m >= 2 => m \div 2 \in 1 .. m
          OBVIOUS
        <4> QED BY <3>0, <4>1, <4>2
      <3> HIDE DEF k
      <3>2. InOrder(rseq, own) /\ InOrder(rseq, left) /\ ToSet(own) \subseteq ToSet(rq[z]) /\ ToSet(left) \subseteq ToSet(rq[z])
        <4>1. rq[z] \in Seq(Fibers) /\ IsInjective(rq[z]) /\ InOrder(rseq, rq[z])
          BY <1>o, <1>t
        <4> QED BY <3>1, <4>1, PartsInOrder
      <3>3. own \in Seq(Fibers)
        <4>1. rq[z] \in Seq(Fibers) /\ IsInjective(rq[z])
          BY <1>t
        <4> QED BY <3>1, <4>1, BatchOff
      <3> HIDE DEF own, left
      <3>5. rq[w] \o own = own
        BY <3>0, <3>3, ConcatEmptySeq
      <3>6. rq'[w] = own /\ rq'[z] = left /\ \A v \in Workers : v # w /\ v # z => rq'[v] = rq[v]
        BY <3>0, <3>5, <1>t
      <3>7. ASSUME NEW x \in Fibers, InQueue(x)' PROVE InQueue(x)
        <4>1. ASSUME NEW v \in Workers, x \in ToSet(rq'[v]) PROVE InQueue(x)
          BY <4>1, <3>2, <3>6 DEF InQueue
        <4>2. x \in ToSet(gq') => InQueue(x)
          BY <3>0 DEF InQueue
        <4> QED BY <3>7, <4>1, <4>2 DEF InQueue
      <3>8. InOrder(rseq, gq') /\ \A v \in Workers : InOrder(rseq, rq'[v])
        BY <3>0, <3>2, <3>6, <1>o
      <3>9. UNCHANGED <<rseq, rseq_clock>>
        BY <3>0
      <3> QED BY <3>7, <3>8, <3>9, <1>t, MoveKeepsOrder
    <2> QED BY <1>6, <2>1, <2>2, <2>3, <2>4, <2>5, <2>6 DEF Choose
  <1>7. ASSUME NEW w \in Workers, YieldTo(w) PROVE Stamps' /\ QueuesOrdered'
    <2>1. cur[w] \in Fibers
      BY <1>7 DEF YieldTo, Leave, PlaceInv, HeldInv, TypeOK
    <2>2. ~InQueue(cur[w])
      BY <2>1, ApartHeld DEF PlaceInv
    <2> QED BY <1>7, <2>1, <2>2, PushKeepsOrder DEF YieldTo, PushLocal
  <1>8. ASSUME NEW w \in Workers, ParkOrFinish(w) PROVE Stamps' /\ QueuesOrdered'
    <2> DEFINE f == cur[w]
    <2>1. f \in Fibers
      BY <1>8 DEF ParkOrFinish, Leave, PlaceInv, HeldInv, TypeOK
    <2>2. ~InQueue(f)
      BY <2>1, ApartHeld DEF PlaceInv
    <2>3. UNCHANGED <<rq, gq, rseq_clock>> /\ rseq' = [rseq EXCEPT ![f] = 0]
      BY <1>8 DEF ParkOrFinish, ForgetStamp
    <2> HIDE DEF f
    <2>4. \A x \in Fibers : InQueue(x) => rseq'[x] = rseq[x]
      BY <2>2, <2>3, <1>t
    <2>5. Stamps'
      <3>1. \A x \in Fibers : InQueue(x)' => InQueue(x)
        BY <2>3 DEF InQueue
      <3> QED BY <2>3, <2>4, <3>1 DEF Stamps
    <2>6. ASSUME NEW s \in Seq(Fibers), InOrder(rseq, s), \A x \in ToSet(s) : InQueue(x) PROVE InOrder(rseq', s)
      <3>1. ToSet(s) \subseteq Fibers
        BY EmptyQueue
      <3> QED BY <2>4, <2>6, <3>1, OrderKept
    <2>7. /\ \A x \in ToSet(gq) : InQueue(x)
          /\ \A v \in Workers : \A x \in ToSet(rq[v]) : InQueue(x)
      BY DEF InQueue
    <2>8. InOrder(rseq', gq') /\ \A v \in Workers : InOrder(rseq', rq'[v])
      BY <2>3, <2>6, <2>7, <1>o, <1>t
    <2> QED BY <2>5, <2>8, <1>t, OrderedIs
  <1>9. ASSUME NEW a \in Actors, NEW f \in Fibers, (a \in Workers /\ SpawnLocal(a, f)) \/ Unpark(a, f)
        PROVE  Stamps' /\ QueuesOrdered'
    <2>1. ~InQueue(f)
      BY <1>9, OutNowhere DEF SpawnLocal, Unpark
    <2> QED BY <1>9, <2>1, PushKeepsOrder DEF SpawnLocal, Unpark, PushLocal, PushGlobal
  <1>10. ASSUME NEW a \in Actors, NEW f \in Fibers, UnparkAdmit(a, f) PROVE Stamps' /\ QueuesOrdered'
    <2>1. ~InQueue(f)
      BY <1>10, OutNowhere DEF UnparkAdmit
    <2>f. f \notin ToSet(gq)
      BY <2>1 DEF InQueue
    <2>2. UNCHANGED <<rq, rseq_clock>> /\ gq' = <<f>> \o gq
      BY <1>10 DEF UnparkAdmit
    <2>3. rseq'[f] = 1 /\ \A x \in Fibers : x # f => rseq'[x] = rseq[x]
      BY <1>10, <1>t DEF UnparkAdmit, RSEQ_ADMIT
    <2>4. ToSet(gq') = ToSet(gq) \cup {f}
      BY <2>2, <2>f, <1>t, JoinOne
    <2>5. Stamps'
      <3> SUFFICES ASSUME NEW x \in Fibers, InQueue(x)' PROVE 1 <= rseq'[x] /\ rseq'[x] <= rseq_clock' + 1
        BY DEF Stamps
      <3>1. CASE x = f
        BY <3>1, <2>2, <2>3, <1>t
      <3>2. CASE x # f
        <4>1. InQueue(x)
          BY <3>2, <2>2, <2>4 DEF InQueue
        <4> QED BY <3>2, <4>1, <2>2, <2>3 DEF Stamps
      <3> QED BY <3>1, <3>2
    <2>6. ASSUME NEW s \in Seq(Fibers), InOrder(rseq, s), \A x \in ToSet(s) : InQueue(x)
          PROVE  InOrder(rseq', s) /\ InOrder(rseq', <<f>> \o s)
      <3>1. ToSet(s) \subseteq Fibers
        BY EmptyQueue
      <3>2. \A x \in ToSet(s) : x # f /\ rseq'[x] = rseq[x] /\ 1 <= rseq[x]
        BY <3>1, <2>1, <2>3, <2>6 DEF Stamps
      <3>3. InOrder(rseq', s)
        BY <3>2, <2>6, OrderKept
      <3>4. \A x \in ToSet(s) : rseq'[f] <= rseq'[x]
        BY <3>2, <2>3
      <3> QED BY <3>3, <3>4, OrderJoin
    <2>7. /\ \A x \in ToSet(gq) : InQueue(x)
          /\ \A v \in Workers : \A x \in ToSet(rq[v]) : InQueue(x)
      BY DEF InQueue
    <2>8. InOrder(rseq', gq')
      BY <2>2, <2>6, <2>7, <1>o, <1>t
    <2>9. \A v \in Workers : InOrder(rseq', rq'[v])
      BY <2>2, <2>6, <2>7, <1>o, <1>t
    <2> QED BY <2>5, <2>8, <2>9, <1>t, OrderedIs
  <1>11. ASSUME NEW a \in Actors, \/ Signal(a) \/ SpuriousWake(a) \/ ShutdownSet(a) \/ ShutdownPoke(a)
                                  \/ ShutdownJoin(a) \/ ShutdownWakeAll(a)
         PROVE  Stamps' /\ QueuesOrdered'
    BY <1>11, <1>q DEF Signal, SpuriousWake, ShutdownSet, ShutdownPoke, ShutdownJoin, ShutdownWakeAll, queueVars
  <1>12. CASE PlainNext
    <2>1. ASSUME NEW w \in Workers, PlainWorker(w) \/ SpuriousWake(w) PROVE Stamps' /\ QueuesOrdered'
      BY <2>1, <1>6, <1>7, <1>8, <1>9, <1>11, <1>t DEF PlainWorker, Body
    <2>2. ASSUME NEW t \in Threads, PlainCall(t) \/ ShutdownSet(t) PROVE Stamps' /\ QueuesOrdered'
      BY <2>2, <1>11, <1>t DEF PlainCall
    <2>3. ASSUME NEW t \in Threads, NEW f \in Fibers, Unpark(t, f) \/ UnparkAdmit(t, f) PROVE Stamps' /\ QueuesOrdered'
      BY <2>3, <1>9, <1>10, <1>t
    <2> QED BY <1>12, <2>1, <2>2, <2>3 DEF PlainNext
  <1>13. CASE UNCHANGED vars
    BY <1>13, <1>q DEF vars, queueVars
  <1> QED BY <1>12, <1>13

\* nurl_runtime_init establishes the plain build's invariant.
LEMMA PlainInit == Init => PlainInv
  <1> SUFFICES ASSUME Init PROVE PlainInv
    OBVIOUS
  <1>i. /\ rq = [w \in Workers |-> <<>>] /\ gq = <<>>
        /\ io = [f \in Fibers |-> "no"]
        /\ pc = [a \in Actors |-> IF a \in Workers THEN "next" ELSE "body"]
        /\ ret = [a \in Actors |-> "body"]
    BY DEF Init
  <1>1. NoPoller
    <2>1. "next" \notin PollPcs /\ "body" \notin PollPcs
      BY DEF PollPcs
    <2> QED BY <1>i, <2>1 DEF NoPoller
  <1>2. OwnEmpty /\ WantInv /\ SomeoneUp
    BY <1>i DEF OwnEmpty, WantInv, SomeoneUp
  <1>3. ToSet(gq) = {} /\ \A w \in Workers : ToSet(rq[w]) = {}
    BY <1>i, EmptyQueue
  <1>4. Stamps
    BY <1>3 DEF Stamps, InQueue
  <1>5. QueuesOrdered
    <2>1. DOMAIN gq = {} /\ \A w \in Workers : DOMAIN rq[w] = {}
      BY <1>i
    <2> QED BY <2>1 DEF QueuesOrdered, Ordered
  <1> QED BY <1>1, <1>2, <1>4, <1>5 DEF PlainInv

\* Every step of the plain build keeps its invariant.
LEMMA PlainStep ==
    ASSUME ~Netpoller, PlaceInv, PlainInv, [Next]_vars
    PROVE  PlainInv'
  <1>0. PlaceInv' /\ TypeOK'
    BY PlaceNext DEF PlaceInv
  <1>1. [PlainNext]_vars /\ NoPoller'
    BY NoPollerStep DEF PlainInv
  <1>2. OwnEmpty'
    BY <1>1, OwnEmptyStep DEF PlainInv
  <1>3. WantInv' /\ SomeoneUp'
    BY <1>1, UpStep DEF PlainInv
  <1>4. Stamps' /\ QueuesOrdered'
    BY <1>0, <1>1, OrderStep DEF PlainInv
  <1> QED BY <1>1, <1>2, <1>3, <1>4 DEF PlainInv

\* The poll(2) build keeps every queue in service order, its own invariants of
\* stamps and emptied queues included.
THEOREM PlainHolds ==
    ASSUME ~Netpoller
    PROVE  Spec => [](PlaceInv /\ PlainInv)
  <1>1. Init => PlaceInv /\ PlainInv
    BY PlaceInit, PlainInit
  <1>2. PlaceInv /\ PlainInv /\ [Next]_vars => PlaceInv' /\ PlainInv'
    BY PlaceNext, PlainStep
  <1> QED BY <1>1, <1>2, PTL DEF Spec

\* Every queue holds its fibers oldest first in the poll(2) build
\* (runtime_ffi.c:7117, 7148), for any number of workers and any batch size.
THEOREM OrderHolds ==
    ASSUME ~Netpoller
    PROVE  Spec => []QueuesOrdered
  <1>1. PlainInv => QueuesOrdered
    BY DEF PlainInv
  <1> QED BY PlainHolds, <1>1, PTL

\* When no worker is up and nobody is about to signal, no queue holds anything.
LEMMA NoneLeft ==
    ASSUME PlaceInv, PlainInv
    PROVE  NoLostWakeup
  <1> SUFFICES ASSUME \A w \in Workers : Blocked(w), \A a \in Actors : pc[a] \notin {"wake", "poke"}
               PROVE  Queued = {}
    BY DEF NoLostWakeup
  <1>1. \A w \in Workers : w \in Actors /\ pc[w] \notin PollPcs
    BY DEF PlainInv, NoPoller, Actors
  <1>2. \A w \in Workers : pc[w] = "asleep"
    BY <1>1 DEF Blocked, PollPcs
  <1>3. gq = <<>> /\ \A w \in Workers : rq[w] = <<>>
    BY <1>2 DEF PlainInv, SomeoneUp, OwnEmpty
  <1>4. ToSet(gq) = {} /\ \A w \in Workers : ToSet(rq[w]) = {}
    BY <1>3, EmptyQueue
  <1>5. \A S \in {ToSet(rq[w]) : w \in Workers} : S = {}
    BY <1>4
  <1>6. (UNION {ToSet(rq[w]) : w \in Workers}) = {}
    BY <1>5
  <1> QED BY <1>4, <1>6 DEF Queued

\* No wakeup is lost in the poll(2) build and the idle count is exact, whatever
\* mix of pushes, signals, spurious wakes, re-checks and broadcasts: a queued
\* fiber never meets a pool of sleeping workers with nobody about to wake one
\* (nurl__wake_one, the idle park of nurl__worker_next).
THEOREM WakeupsHold ==
    ASSUME ~Netpoller
    PROVE  Spec => []WakeupsReach
  <1>1. PlaceInv /\ PlainInv => WakeupsReach
    BY NoneLeft DEF WakeupsReach, PlaceInv
  <1> QED BY PlainHolds, <1>1, PTL

\* The idle count is exact in the netpoller build as well.
THEOREM IdleCountHolds == Spec => []IdleCountExact
  <1>1. PlaceInv => IdleCountExact
    BY DEF PlaceInv
  <1> QED BY PlacesHold, <1>1, PTL
==============================================================================
