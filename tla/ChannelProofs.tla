---------------------------- MODULE ChannelProofs ----------------------------
(***************************************************************************)
(* Proofs about Channel, for every set of channels, fibers, threads and    *)
(* cases and any number of sends.                                          *)
(***************************************************************************)
EXTENDS Channel, FiniteSetTheorems, TLAPS

(* Sequences.                                                              *)

\* What taking the head off a queue leaves.
LEMMA TailFacts ==
    ASSUME NEW S, NEW s \in Seq(S), s # <<>>
    PROVE  /\ Head(s) \in S
           /\ Tail(s) \in Seq(S)
           /\ Len(Tail(s)) = Len(s) - 1
           /\ \A i \in 1 .. Len(s) - 1 : Tail(s)[i] = s[i + 1]
  OBVIOUS

\* Membership in a queue, by position.
LEMMA InToSet ==
    ASSUME NEW S, NEW s \in Seq(S), NEW x
    PROVE  x \in ToSet(s) <=> \E i \in 1 .. Len(s) : s[i] = x
  BY DEF ToSet

\* The elements of a queue; only the empty queue has none.
LEMMA ToSetType ==
    ASSUME NEW S, NEW s \in Seq(S)
    PROVE  ToSet(s) \subseteq S /\ (ToSet(s) = {} <=> s = <<>>)
  BY DEF ToSet

\* Appending adds one element to a queue's set.
LEMMA ToSetAppend ==
    ASSUME NEW S, NEW s \in Seq(S), NEW e \in S
    PROVE  ToSet(Append(s, e)) = ToSet(s) \cup {e}
  <1> DEFINE t == Append(s, e)
  <1>1. t \in Seq(S) /\ Len(t) = Len(s) + 1 /\ t[Len(s) + 1] = e /\ \A i \in 1 .. Len(s) : t[i] = s[i]
    OBVIOUS
  <1> HIDE DEF t
  <1>2. \A x : x \in ToSet(t) <=> x \in ToSet(s) \/ x = e
    BY <1>1, InToSet, SMT
  <1> QED BY <1>2 DEF t

\* Popping takes at most the head out of a queue's set.
LEMMA ToSetTail ==
    ASSUME NEW S, NEW s \in Seq(S), s # <<>>
    PROVE  ToSet(s) = ToSet(Tail(s)) \cup {Head(s)}
  <1> DEFINE t == Tail(s)
  <1>1. t \in Seq(S) /\ Len(s) >= 1 /\ Len(t) = Len(s) - 1 /\ s[1] = Head(s) /\ \A i \in 1 .. Len(t) : t[i] = s[i+1]
    OBVIOUS
  <1> HIDE DEF t
  <1>2. ASSUME NEW x PROVE x \in ToSet(s) <=> x \in ToSet(t) \/ x = s[1]
     <2>1. CASE \E i \in 1 .. Len(s) : s[i] = x
       <3>1. PICK i \in 1 .. Len(s) : s[i] = x
          BY <2>1
       <3>2. CASE i = 1 BY <3>1, <3>2, InToSet
       <3>3. CASE i # 1
         <4>1. i - 1 \in 1 .. Len(t) /\ t[i-1] = x
            BY <3>1, <3>3, <1>1
         <4> QED BY <4>1, <3>1, <1>1, InToSet
       <3> QED BY <3>2, <3>3
     <2>2. CASE ~ \E i \in 1 .. Len(s) : s[i] = x
       <3>1. x \notin ToSet(s) BY <2>2, InToSet
       <3>2. x # s[1] BY <2>2, <1>1
       <3>3. ~ \E i \in 1 .. Len(t) : t[i] = x
         BY <2>2, <1>1
       <3> QED BY <3>1, <3>2, <3>3, <1>1, InToSet
     <2> QED BY <2>1, <2>2
  <1> QED BY <1>1, <1>2 DEF t

\* A non-empty set of naturals has a least element, which Min chooses.
LEMMA LeastNatural ==
    ASSUME NEW T \in SUBSET Nat, T # {}
    PROVE  Min(T) \in T /\ \A y \in T : Min(T) <= y
  <1> DEFINE R == {ss \in Nat \X Nat : ss[1] < ss[2]}
  <1>1. IsWellFoundedOn(R, Nat)
    BY NatLessThanWellFounded DEF OpToRel
  <1> HIDE DEF R
  <1>2. \E x \in T : \A y \in T : ~(<<y, x>> \in R)
    BY <1>1, WFMin
  <1>3. PICK x \in T : \A y \in T : ~(<<y, x>> \in R)
    BY <1>2
  <1>4. ASSUME NEW y \in T PROVE x <= y
    <2>1. x \in Nat /\ y \in Nat
      OBVIOUS
    <2>2. ~(y < x)
      BY <1>3, <2>1 DEF R
    <2> QED BY <2>1, <2>2
  <1> QED BY <1>4 DEF Min

\* RemoveFirst takes out one place that holds the element.
LEMMA FirstPlace ==
    ASSUME NEW S, NEW s \in Seq(S), NEW e, \E i \in 1 .. Len(s) : s[i] = e
    PROVE  \E k \in 1 .. Len(s) : s[k] = e /\ RemoveFirst(s, e) = RemoveAt(s, k)
  <1> DEFINE I == {i \in 1 .. Len(s) : s[i] = e}
  <1>1. I \in SUBSET Nat /\ I # {}
    OBVIOUS
  <1>2. Min(I) \in I
    BY <1>1, LeastNatural
  <1>3. SelectInSeq(s, LAMBDA v : v = e) = Min(I)
    BY <1>1 DEF SelectInSeq
  <1>4. RemoveFirst(s, e) = RemoveAt(s, Min(I))
    BY <1>3 DEF RemoveFirst
  <1> QED BY <1>2, <1>4

\* What a queue is after one place is taken out of it.
LEMMA RemoveAtFacts ==
    ASSUME NEW S, NEW s \in Seq(S), NEW k \in 1 .. Len(s)
    PROVE  /\ RemoveAt(s, k) \in Seq(S)
           /\ Len(RemoveAt(s, k)) = Len(s) - 1
           /\ \A i \in 1 .. k - 1 : RemoveAt(s, k)[i] = s[i]
           /\ \A i \in k .. Len(s) - 1 : RemoveAt(s, k)[i] = s[i + 1]
  <1> DEFINE u == SubSeq(s, 1, k - 1)
             v == SubSeq(s, k + 1, Len(s))
  <1>1. u \in Seq(S) /\ Len(u) = k - 1 /\ \A i \in 1 .. k - 1 : u[i] = s[i]
    OBVIOUS
  <1>2. v \in Seq(S) /\ Len(v) = Len(s) - k /\ \A i \in 1 .. Len(s) - k : v[i] = s[k + i]
    OBVIOUS
  <1>3. RemoveAt(s, k) = u \o v
    BY DEF RemoveAt
  <1> HIDE DEF u, v
  <1>4. \A i \in k .. Len(s) - 1 : i - (k - 1) \in 1 .. Len(s) - k /\ (u \o v)[i] = v[i - (k - 1)]
    BY <1>1, <1>2
  <1>5. \A i \in k .. Len(s) - 1 : v[i - (k - 1)] = s[i + 1]
    BY <1>2
  <1>t. u \in Seq(S) /\ v \in Seq(S)
    BY <1>1, <1>2
  <1>6. u \o v \in Seq(S)
    BY <1>t
  <1>7. Len(u \o v) = Len(u) + Len(v)
    BY <1>t
  <1>8. Len(u \o v) = Len(s) - 1
    BY <1>1, <1>2, <1>7
  <1>9. \A i \in 1 .. k - 1 : (u \o v)[i] = u[i]
    BY <1>1, <1>2
  <1>10. \A i \in 1 .. k - 1 : (u \o v)[i] = s[i]
    BY <1>1, <1>9
  <1>11. \A i \in k .. Len(s) - 1 : (u \o v)[i] = s[i + 1]
    BY <1>4, <1>5
  <1> QED BY <1>3, <1>6, <1>8, <1>10, <1>11

\* How often x is in s.
Places(s, x) == {i \in DOMAIN s : s[i] = x}

\* An element has finitely many places in a queue.
LEMMA PlacesFinite ==
    ASSUME NEW S, NEW s \in Seq(S), NEW x
    PROVE  IsFiniteSet(Places(s, x)) /\ Cardinality(Places(s, x)) \in Nat
  <1>1. Places(s, x) \in SUBSET (1 .. Len(s))
    BY DEF Places
  <1>2. IsFiniteSet(1 .. Len(s))
    BY FS_Interval
  <1> QED BY <1>1, <1>2, FS_Subset, FS_CardinalityType

\* Arming once more adds one place, for the waiter that is armed.
LEMMA PlacesAppend ==
    ASSUME NEW S, NEW s \in Seq(S), NEW e \in S, NEW x
    PROVE  Cardinality(Places(Append(s, e), x)) = Cardinality(Places(s, x)) + (IF x = e THEN 1 ELSE 0)
  <1>1. IsFiniteSet(Places(s, x)) /\ Cardinality(Places(s, x)) \in Nat
    BY PlacesFinite
  <1>2. CASE x = e
    <2>1. Places(Append(s, e), x) = Places(s, x) \cup {Len(s) + 1}
      BY <1>2 DEF Places
    <2>2. Len(s) + 1 \notin Places(s, x)
      BY DEF Places
    <2> QED BY <2>1, <2>2, <1>1, <1>2, FS_AddElement
  <1>3. CASE x # e
    <2>1. Places(Append(s, e), x) = Places(s, x)
      BY <1>3 DEF Places
    <2> QED BY <2>1, <1>1, <1>3
  <1> QED BY <1>2, <1>3

\* A disarm takes exactly one place of its waiter out of the list.
LEMMA PlacesRemove ==
    ASSUME NEW S, NEW s \in Seq(S), NEW e, e \in ToSet(s), NEW x
    PROVE  /\ RemoveFirst(s, e) \in Seq(S)
           /\ Cardinality(Places(RemoveFirst(s, e), x)) = Cardinality(Places(s, x)) - (IF x = e THEN 1 ELSE 0)
  <1>0. \E i \in 1 .. Len(s) : s[i] = e
    BY DEF ToSet
  <1>1. PICK k \in 1 .. Len(s) : s[k] = e /\ RemoveFirst(s, e) = RemoveAt(s, k)
    BY <1>0, FirstPlace
  <1> DEFINE r == RemoveAt(s, k)
             f == [i \in Places(r, x) |-> IF i < k THEN i ELSE i + 1]
             T == Places(s, x) \ {k}
  <1>2. /\ r \in Seq(S)
        /\ Len(r) = Len(s) - 1
        /\ \A i \in 1 .. k - 1 : r[i] = s[i]
        /\ \A i \in k .. Len(s) - 1 : r[i] = s[i + 1]
    BY RemoveAtFacts
  <1> HIDE DEF r
  <1>3. IsFiniteSet(Places(s, x)) /\ IsFiniteSet(Places(r, x)) /\ Cardinality(Places(s, x)) \in Nat
    BY <1>2, PlacesFinite
  <1>4. Places(r, x) \subseteq 1 .. Len(s) - 1 /\ Places(s, x) \subseteq 1 .. Len(s)
    BY <1>2 DEF Places
  <1>5. \A i \in Places(r, x) : f[i] \in T
    BY <1>2 DEF Places
  <1>6. \A i, j \in Places(r, x) : f[i] = f[j] => i = j
    BY <1>4
  <1>7. \A j \in T : \E i \in Places(r, x) : f[i] = j
    <2> SUFFICES ASSUME NEW j \in T PROVE \E i \in Places(r, x) : f[i] = j
      OBVIOUS
    <2>1. CASE j < k
      <3>1. j \in Places(r, x)
        BY <2>1, <1>2, <1>4 DEF Places
      <3> QED BY <3>1, <2>1
    <2>2. CASE j > k
      <3>1. j - 1 \in Places(r, x)
        BY <2>2, <1>2, <1>4 DEF Places
      <3> QED BY <3>1, <2>2, <1>4
    <2> QED BY <2>1, <2>2, <1>4
  <1>8. f \in Bijection(Places(r, x), T)
    BY <1>5, <1>6, <1>7 DEF Bijection, Injection, Surjection, IsInjective
  <1>9. Cardinality(Places(r, x)) = Cardinality(T)
    BY <1>8, <1>3, FS_Bijection DEF ExistsBijection
  <1>10. Cardinality(T) = Cardinality(Places(s, x)) - (IF x = e THEN 1 ELSE 0)
    <2>1. k \in Places(s, x) <=> x = e
      BY <1>1 DEF Places
    <2>2. Cardinality(T) = IF k \in Places(s, x) THEN Cardinality(Places(s, x)) - 1 ELSE Cardinality(Places(s, x))
      BY <1>3, FS_RemoveElement
    <2> QED BY <2>1, <2>2, <1>3
  <1> QED BY <1>1, <1>2, <1>9, <1>10 DEF r

-----------------------------------------------------------------------------
(* The inductive invariant.                                                *)

\* An actor is inside a receive exactly while it is about a channel, and only
\* selectors are inside a select.
CallInv ==
    \A a \in Actors :
        /\ chan[a] # NoChan <=> pc[a] \in {"recv", "blocked"}
        /\ a \notin Selectors => pc[a] \in {"idle", "recv", "blocked"}

\* Who is on a channel's list or condition variable is blocked on that channel,
\* and is there once.
ParkedInv ==
    \A c \in Chans :
        /\ IsInjective(recv_fibers[c])
        /\ \A a \in ToSet(recv_fibers[c]) \cup cond[c] : pc[a] = "blocked" /\ chan[a] = c

Quiet(c) == q[c] = <<>> /\ ~closed[c]

\* Where a select is, and what it has seen: the armed poll that has found nothing
\* so far, with its waiter unfired, leaves only quiet channels behind it.
SelectInv ==
    \A s \in Selectors :
        /\ pc[s] \in {"prepare", "arm", "wait"} => which[s] = 0
        /\ pc[s] \in {"prepare", "wait"} => idx[s] = 1
        /\ pc[s] \in {"arm", "wait", "disarm"} => pass[s] = "armed"
        /\ pc[s] = "poll" /\ pass[s] = "armed" /\ which[s] = 0 /\ ~fired[s] =>
               \A k \in 1 .. idx[s] - 1 : Quiet(Cases[k])

ChannelInv ==
    /\ TypeOK
    /\ CallInv
    /\ ParkedInv
    /\ NoneStranded
    /\ SelectInv
    /\ SelectSleepsSafely
    /\ ArmedWhileSelecting

-----------------------------------------------------------------------------
(* Counting.                                                               *)

\* A part of a finite set has no more elements than the set.
LEMMA CountSubset ==
    ASSUME NEW A, NEW B, IsFiniteSet(B), A \subseteq B
    PROVE  /\ Cardinality(A) \in Nat /\ Cardinality(B) \in Nat
           /\ Cardinality(A) <= Cardinality(B)
  BY FS_Subset, FS_CardinalityType

\* A set with an element its part lacks has more elements.
LEMMA CountOneMore ==
    ASSUME NEW A, NEW B, NEW x, IsFiniteSet(B), A \subseteq B, x \in B, x \notin A
    PROVE  /\ Cardinality(A) \in Nat /\ Cardinality(B) \in Nat
           /\ Cardinality(A) + 1 <= Cardinality(B)
  <1>1. IsFiniteSet(A) /\ Cardinality(A) \in Nat
    BY FS_Subset, FS_CardinalityType
  <1>2. Cardinality(A \cup {x}) = Cardinality(A) + 1
    BY <1>1, FS_AddElement
  <1>3. A \cup {x} \subseteq B
    OBVIOUS
  <1> QED BY <1>1, <1>2, <1>3, CountSubset

\* Taking one element away loses at most one.
LEMMA CountOneLess ==
    ASSUME NEW A, NEW B, NEW x, IsFiniteSet(A), IsFiniteSet(B), A \ {x} \subseteq B
    PROVE  /\ Cardinality(A) \in Nat /\ Cardinality(B) \in Nat
           /\ Cardinality(A) <= Cardinality(B) + 1
  <1>1. Cardinality(A) \in Nat /\ Cardinality(B) \in Nat
    BY FS_CardinalityType
  <1>2. Cardinality(A \ {x}) \in {Cardinality(A), Cardinality(A) - 1}
    BY <1>1, FS_RemoveElement
  <1>3. Cardinality(A \ {x}) <= Cardinality(B)
    BY CountSubset
  <1> QED BY <1>1, <1>2, <1>3

\* The receivers on their way to a channel are finitely many.
LEMMA ComingFinite ==
    ASSUME NEW c
    PROVE  /\ IsFiniteSet(Coming(Fibers, c)) /\ IsFiniteSet(Coming(Threads, c))
           /\ IsFiniteSet(Coming(Fibers, c)') /\ IsFiniteSet(Coming(Threads, c)')
  <1>1. /\ Coming(Fibers, c) \in SUBSET Fibers /\ Coming(Threads, c) \in SUBSET Threads
        /\ Coming(Fibers, c)' \in SUBSET Fibers /\ Coming(Threads, c)' \in SUBSET Threads
    BY DEF Coming
  <1> QED BY <1>1, ChannelAssumption, FS_Subset

\* How often c is among the first n cases grows by one at its cases.
LEMMA CasesUpToFacts ==
    ASSUME NEW c
    PROVE  /\ CasesUpTo(0, c) = 0
           /\ \A n \in 0 .. Len(Cases) : CasesUpTo(n, c) \in Nat /\ CasesUpTo(n, c) <= CasesUpTo(Len(Cases), c)
           /\ \A n \in 1 .. Len(Cases) :
                  CasesUpTo(n, c) = CasesUpTo(n - 1, c) + (IF Cases[n] = c THEN 1 ELSE 0)
  <1>0. Len(Cases) \in Nat
    BY ChannelAssumption
  <1> DEFINE F(n) == {k \in 1 .. n : Cases[k] = c}
  <1>1. \A n \in 0 .. Len(Cases) : IsFiniteSet(F(n)) /\ Cardinality(F(n)) \in Nat
    <2> TAKE n \in 0 .. Len(Cases)
    <2>1. F(n) \in SUBSET (1 .. n) /\ IsFiniteSet(1 .. n)
      BY <1>0, FS_Interval
    <2> QED BY <2>1, FS_Subset, FS_CardinalityType
  <1>2. CasesUpTo(0, c) = 0
    <2>1. F(0) = {}
      OBVIOUS
    <2> QED BY <2>1, FS_EmptySet DEF CasesUpTo
  <1>3. \A n \in 0 .. Len(Cases) : Cardinality(F(n)) <= Cardinality(F(Len(Cases)))
    <2> TAKE n \in 0 .. Len(Cases)
    <2>1. F(n) \subseteq F(Len(Cases))
      BY <1>0
    <2> QED BY <2>1, <1>1, <1>0, CountSubset
  <1>4. \A n \in 1 .. Len(Cases) : Cardinality(F(n)) = Cardinality(F(n - 1)) + (IF Cases[n] = c THEN 1 ELSE 0)
    <2> TAKE n \in 1 .. Len(Cases)
    <2>1. n - 1 \in 0 .. Len(Cases) /\ n \notin F(n - 1)
      BY <1>0
    <2>2. IsFiniteSet(F(n - 1)) /\ Cardinality(F(n - 1)) \in Nat
      BY <1>1, <2>1
    <2>3. CASE Cases[n] = c
      <3>1. F(n) = F(n - 1) \cup {n}
        BY <1>0, <2>3
      <3> QED BY <3>1, <2>1, <2>2, <2>3, FS_AddElement
    <2>4. CASE Cases[n] # c
      <3>1. F(n) = F(n - 1)
        BY <1>0, <2>4
      <3> HIDE DEF F
      <3>2. Cardinality(F(n)) = Cardinality(F(n - 1))
        BY <3>1
      <3> QED BY <3>2, <2>2, <2>4
    <2> QED BY <2>3, <2>4
  <1> HIDE DEF F
  <1> QED BY <1>0, <1>1, <1>2, <1>3, <1>4 DEF CasesUpTo, F

\* A waiter that is armed on a channel is in the channel's list.
LEMMA ArmingsFacts ==
    ASSUME TypeOK, NEW s \in Selectors, NEW c \in Chans
    PROVE  /\ Armings(s, c) \in Nat
           /\ Armings(s, c) # 0 => s \in ToSet(select_waiters[c])
  <1>1. select_waiters[c] \in Seq(Selectors)
    BY DEF TypeOK
  <1>2. Armings(s, c) = Cardinality(Places(select_waiters[c], s))
    BY DEF Armings, Places
  <1>3. Armings(s, c) \in Nat
    BY <1>1, <1>2, PlacesFinite
  <1>4. ASSUME s \notin ToSet(select_waiters[c]) PROVE Armings(s, c) = 0
    <2>1. Places(select_waiters[c], s) = {}
      BY <1>4 DEF Places, ToSet
    <2> QED BY <1>2, <2>1, FS_EmptySet
  <1> QED BY <1>3, <1>4

\* A waiter whose select polls or sleeps armed is on each of its channels.
LEMMA ArmedThere ==
    ASSUME TypeOK, ArmedWhileSelecting, NEW s \in Selectors, NEW k \in DOMAIN Cases,
           pc[s] \in {"poll", "take", "wait"}, pass[s] = "armed"
    PROVE  s \in ToSet(select_waiters[Cases[k]])
  <1> DEFINE c == Cases[k]
  <1>1. c \in Chans /\ k \in 1 .. Len(Cases) /\ Len(Cases) \in Nat
    BY ChannelAssumption
  <1>2. Armings(s, c) = CasesUpTo(Len(Cases), c)
    BY <1>1 DEF ArmedWhileSelecting
  <1>3. CasesUpTo(k, c) = CasesUpTo(k - 1, c) + 1 /\ CasesUpTo(k - 1, c) \in Nat
        /\ CasesUpTo(k, c) <= CasesUpTo(Len(Cases), c) /\ CasesUpTo(Len(Cases), c) \in Nat
    BY <1>1, CasesUpToFacts
  <1> QED BY <1>1, <1>2, <1>3, ArmingsFacts

-----------------------------------------------------------------------------
(* What a step leaves alone, stated once for the steps that do so.         *)

\* A step outside the selects that adds nothing to a channel.
LEMMA SelectsKept ==
    ASSUME ChannelInv, UNCHANGED <<selVars, select_waiters>>,
           \A c \in Chans : Quiet(c) => Quiet(c)',
           \A s \in Selectors : \/ pc'[s] = pc[s]
                                \/ {pc[s], pc'[s]} \subseteq {"idle", "recv", "blocked"}
    PROVE  SelectInv' /\ SelectSleepsSafely' /\ ArmedWhileSelecting'
  <1>0. \A k \in DOMAIN Cases : Cases[k] \in Chans
    BY ChannelAssumption
  <1>i. \A s \in Selectors : idx[s] \in 1 .. Len(Cases) /\ \A k \in 1 .. idx[s] - 1 : k \in DOMAIN Cases
    BY ChannelAssumption DEF ChannelInv, TypeOK
  <1>1. SelectInv'
    BY <1>0, <1>i DEF ChannelInv, SelectInv, selVars
  <1>2. SelectSleepsSafely'
    BY <1>0 DEF ChannelInv, SelectSleepsSafely, selVars, Quiet
  <1>3. \A s \in Selectors, c \in Chans : Armings(s, c)' = Armings(s, c)
    BY DEF Armings
  <1>4. ArmedWhileSelecting'
    BY <1>3 DEF ChannelInv, ArmedWhileSelecting, selVars
  <1> QED BY <1>1, <1>2, <1>4

\* A step that may add to channel c but fires the waiters armed on it.
LEMMA SelectsFired ==
    ASSUME ChannelInv, NEW c \in Chans, NEW W,
           Fire(c), Wake(W), \A a \in W : pc[a] = "blocked",
           UNCHANGED <<select_waiters, pass, idx, which>>,
           \A d \in Chans : d # c => Quiet(d) = Quiet(d)'
    PROVE  SelectInv' /\ SelectSleepsSafely' /\ ArmedWhileSelecting'
  <1>0. \A k \in DOMAIN Cases : Cases[k] \in Chans
    BY ChannelAssumption
  <1>i. \A s \in Selectors : s \in Actors /\ idx[s] \in 1 .. Len(Cases) /\ \A k \in 1 .. idx[s] - 1 : k \in DOMAIN Cases
    BY ChannelAssumption DEF ChannelInv, TypeOK
  <1>p. \A s \in Selectors : \/ pc'[s] = pc[s]
                             \/ pc[s] = "blocked" /\ pc'[s] = "recv"
    BY <1>i DEF Wake
  <1>f. \A s \in Selectors : ~fired'[s] => ~fired[s] /\ s \notin ToSet(select_waiters[c])
    BY DEF Fire
  <1>a. \A s \in Selectors, k \in DOMAIN Cases :
            pc[s] \in {"poll", "take", "wait"} /\ pass[s] = "armed" /\ ~fired'[s] =>
                Cases[k] # c /\ ~fired[s]
    BY <1>f, ArmedThere DEF ChannelInv
  <1>1. SelectInv'
    <2> SUFFICES ASSUME NEW s \in Selectors
                 PROVE  SelectInv!(s)'
      BY DEF SelectInv
    <2>1. /\ pc'[s] \in {"prepare", "arm", "wait"} => which'[s] = 0
          /\ pc'[s] \in {"prepare", "wait"} => idx'[s] = 1
          /\ pc'[s] \in {"arm", "wait", "disarm"} => pass'[s] = "armed"
      BY <1>p DEF ChannelInv, SelectInv
    <2>2. ASSUME pc'[s] = "poll", pass'[s] = "armed", which'[s] = 0, ~fired'[s],
                 NEW k \in 1 .. idx'[s] - 1
          PROVE  Quiet(Cases[k])'
      <3>1. pc[s] = "poll" /\ pass[s] = "armed" /\ which[s] = 0 /\ k \in 1 .. idx[s] - 1 /\ k \in DOMAIN Cases
        BY <1>p, <1>i, <2>2
      <3>2. Cases[k] # c /\ ~fired[s]
        BY <3>1, <1>a, <2>2
      <3>3. Quiet(Cases[k])
        BY <3>1, <3>2 DEF ChannelInv, SelectInv
      <3> QED BY <3>1, <3>2, <3>3, <1>0
    <2> QED BY <2>1, <2>2
  <1>2. SelectSleepsSafely'
    <2> SUFFICES ASSUME NEW s \in Selectors, pc'[s] = "wait", ~fired'[s], NEW k \in DOMAIN Cases
                 PROVE  Quiet(Cases[k])'
      BY DEF SelectSleepsSafely, Quiet
    <2>1. pc[s] = "wait" /\ pass[s] = "armed"
      BY <1>p DEF ChannelInv, SelectInv
    <2>2. Cases[k] # c /\ ~fired[s]
      BY <2>1, <1>a
    <2>3. Quiet(Cases[k])
      BY <2>1, <2>2 DEF ChannelInv, SelectSleepsSafely, Quiet
    <2> QED BY <2>2, <2>3, <1>0
  <1>3. \A s \in Selectors, d \in Chans : Armings(s, d)' = Armings(s, d)
    BY DEF Armings
  <1>4. ArmedWhileSelecting'
    BY <1>3, <1>p DEF ChannelInv, ArmedWhileSelecting
  <1> QED BY <1>1, <1>2, <1>4

\* A step of a select that takes at most an item from a channel.
LEMMA ReceiversKept ==
    ASSUME ChannelInv, NEW s \in Selectors,
           UNCHANGED <<recv_fibers, cond, closed, chan>>,
           \A a \in Actors : a # s => pc'[a] = pc[a],
           pc[s] \notin {"recv", "blocked"}, pc'[s] \notin {"recv", "blocked"},
           \A c \in Chans : Len(q'[c]) <= Len(q[c]) /\ Len(q'[c]) \in Nat
    PROVE  CallInv' /\ ParkedInv' /\ NoneStranded'
  <1>s. s \in Actors
    BY ChannelAssumption
  <1>1. CallInv'
    BY <1>s DEF ChannelInv, CallInv
  <1>2. ParkedInv'
    <2> SUFFICES ASSUME NEW c \in Chans
                 PROVE  /\ IsInjective(recv_fibers'[c])
                        /\ \A a \in ToSet(recv_fibers'[c]) \cup cond'[c] : pc'[a] = "blocked" /\ chan'[a] = c
      BY DEF ParkedInv
    <2>1. ToSet(recv_fibers[c]) \cup cond[c] \subseteq Actors
      BY ToSetType DEF ChannelInv, TypeOK, Actors
    <2> QED BY <2>1 DEF ChannelInv, ParkedInv
  <1>3. NoneStranded'
    <2> SUFFICES ASSUME NEW c \in Chans
                 PROVE  NoneStranded!(c)'
      BY DEF NoneStranded
    <2>1. Coming(Fibers, c) = Coming(Fibers, c)' /\ Coming(Threads, c) = Coming(Threads, c)'
      BY DEF Coming, Actors
    <2>2. Cardinality(Coming(Fibers, c)) \in Nat /\ Cardinality(Coming(Threads, c)) \in Nat
          /\ Len(q[c]) \in Nat
      BY ComingFinite, FS_CardinalityType DEF ChannelInv, TypeOK
    <2> QED BY <2>1, <2>2 DEF ChannelInv, NoneStranded
  <1> QED BY <1>1, <1>2, <1>3

-----------------------------------------------------------------------------
(* Receives: every action keeps the invariant.                             *)

\* A call: one more on its way to a channel, and nothing else moves.
LEMMA RecvCallStep ==
    ASSUME ChannelInv, NEW a \in Actors, NEW c \in Chans, RecvCall(a, c)
    PROVE  ChannelInv'
  <1> USE DEF ChannelInv, RecvCall, Goto, chanVars
  <1>0. TypeOK'
    BY DEF TypeOK, selVars
  <1>1. CallInv'
    BY ChannelAssumption DEF CallInv, TypeOK
  <1>2. ParkedInv'
    BY DEF ParkedInv, TypeOK
  <1>3. NoneStranded'
    <2> SUFFICES ASSUME NEW d \in Chans
                 PROVE  NoneStranded!(d)'
      BY DEF NoneStranded
    <2>1. Coming(Fibers, d) \subseteq Coming(Fibers, d)' /\ Coming(Threads, d) \subseteq Coming(Threads, d)'
      BY DEF Coming, TypeOK, Actors
    <2>2. /\ Cardinality(Coming(Fibers, d)) <= Cardinality(Coming(Fibers, d)')
          /\ Cardinality(Coming(Threads, d)) <= Cardinality(Coming(Threads, d)')
          /\ {Cardinality(Coming(Fibers, d)), Cardinality(Coming(Fibers, d)'),
              Cardinality(Coming(Threads, d)), Cardinality(Coming(Threads, d)')} \subseteq Nat
      BY <2>1, ComingFinite, CountSubset
    <2>3. Len(q[d]) \in Nat
      BY DEF TypeOK
    <2> QED BY <2>2, <2>3 DEF NoneStranded
  <1>4. SelectInv' /\ SelectSleepsSafely' /\ ArmedWhileSelecting'
    <2>1. \A s \in Selectors : pc'[s] = pc[s] \/ {pc[s], pc'[s]} \subseteq {"idle", "recv", "blocked"}
      BY ChannelAssumption DEF TypeOK
    <2>2. \A d \in Chans : Quiet(d) => Quiet(d)'
      BY DEF Quiet
    <2> QED BY <2>1, <2>2, SelectsKept
  <1> QED BY <1>0, <1>1, <1>2, <1>3, <1>4

\* The receiver that leaves with an item leaves as many on their way as before,
\* less the one item.
LEMMA RecvTakeStep ==
    ASSUME ChannelInv, NEW a \in Actors, RecvTake(a)
    PROVE  ChannelInv'
  <1> DEFINE c == chan[a]
  <1>c. c \in Chans /\ pc[a] = "recv"
    BY DEF ChannelInv, CallInv, RecvTake, TypeOK
  <1>q. /\ q[c] \in Seq(1 .. MaxSends) /\ q[c] # <<>>
        /\ q' = [q EXCEPT ![c] = Tail(q[c])]
    BY <1>c DEF ChannelInv, TypeOK, RecvTake, PopFor
  <1>l. Tail(q[c]) \in Seq(1 .. MaxSends) /\ Len(Tail(q[c])) = Len(q[c]) - 1 /\ Head(q[c]) \in 1 .. MaxSends
    BY <1>q, TailFacts
  <1> USE DEF ChannelInv, RecvTake, Goto
  <1>0. TypeOK'
    <2>1. q' \in [Chans -> Seq(1 .. MaxSends)]
      BY <1>c, <1>q, <1>l DEF TypeOK
    <2>2. got' \in [Actors -> 0 .. MaxSends]
      BY <1>c, <1>l, ChannelAssumption DEF TypeOK, PopFor
    <2> QED BY <2>1, <2>2 DEF TypeOK, selVars
  <1>1. CallInv'
    BY <1>c, ChannelAssumption DEF CallInv, TypeOK
  <1>2. ParkedInv'
    BY <1>c DEF ParkedInv, TypeOK
  <1>3. NoneStranded'
    <2> SUFFICES ASSUME NEW d \in Chans
                 PROVE  NoneStranded!(d)'
      BY DEF NoneStranded
    <2>1. Len(q[d]) \in Nat /\ Len(q'[d]) \in Nat
      BY <1>0 DEF TypeOK
    <2>2. CASE d # c
      <3>1. Coming(Fibers, d) \subseteq Coming(Fibers, d)' /\ Coming(Threads, d) \subseteq Coming(Threads, d)'
        BY <2>2, <1>c DEF Coming, TypeOK, Actors
      <3>2. /\ Cardinality(Coming(Fibers, d)) <= Cardinality(Coming(Fibers, d)')
            /\ Cardinality(Coming(Threads, d)) <= Cardinality(Coming(Threads, d)')
            /\ {Cardinality(Coming(Fibers, d)), Cardinality(Coming(Fibers, d)'),
                Cardinality(Coming(Threads, d)), Cardinality(Coming(Threads, d)')} \subseteq Nat
        BY <3>1, ComingFinite, CountSubset
      <3>3. q'[d] = q[d]
        BY <2>2, <1>q DEF TypeOK
      <3> QED BY <3>2, <3>3, <2>1 DEF NoneStranded
    <2>3. CASE d = c
      <3>1. Coming(Fibers, d) \ {a} \subseteq Coming(Fibers, d)' /\ Coming(Threads, d) \ {a} \subseteq Coming(Threads, d)'
        BY <2>3, <1>c DEF Coming, TypeOK, Actors
      <3>2. /\ Cardinality(Coming(Fibers, d)) <= Cardinality(Coming(Fibers, d)') + 1
            /\ Cardinality(Coming(Threads, d)) <= Cardinality(Coming(Threads, d)') + 1
            /\ {Cardinality(Coming(Fibers, d)), Cardinality(Coming(Fibers, d)'),
                Cardinality(Coming(Threads, d)), Cardinality(Coming(Threads, d)')} \subseteq Nat
        BY <3>1, ComingFinite, CountOneLess
      <3>3. Len(q'[d]) = Len(q[d]) - 1
        BY <2>3, <1>c, <1>q, <1>l DEF TypeOK
      <3> QED BY <3>2, <3>3, <2>1 DEF NoneStranded
    <2> QED BY <2>2, <2>3
  <1>4. SelectInv' /\ SelectSleepsSafely' /\ ArmedWhileSelecting'
    <2>1. \A s \in Selectors : pc'[s] = pc[s] \/ {pc[s], pc'[s]} \subseteq {"idle", "recv", "blocked"}
      BY ChannelAssumption DEF TypeOK
    <2>2. \A d \in Chans : Quiet(d) => Quiet(d)'
      BY <1>q, <1>c DEF Quiet, TypeOK
    <2> QED BY <2>1, <2>2, SelectsKept
  <1> QED BY <1>0, <1>1, <1>2, <1>3, <1>4

\* A receive that finds its channel closed and drained leaves nobody waiting there.
LEMMA RecvNoneStep ==
    ASSUME ChannelInv, NEW a \in Actors, RecvNone(a)
    PROVE  ChannelInv'
  <1> DEFINE c == chan[a]
  <1>c. c \in Chans /\ pc[a] = "recv"
    BY DEF ChannelInv, CallInv, RecvNone, TypeOK
  <1> USE DEF ChannelInv, RecvNone, Goto, chanVars
  <1>0. TypeOK'
    <2>1. got' \in [Actors -> 0 .. MaxSends]
      BY ChannelAssumption DEF TypeOK
    <2> QED BY <2>1 DEF TypeOK, selVars
  <1>1. CallInv'
    BY <1>c, ChannelAssumption DEF CallInv, TypeOK
  <1>2. ParkedInv'
    BY <1>c DEF ParkedInv, TypeOK
  <1>3. NoneStranded'
    <2> SUFFICES ASSUME NEW d \in Chans
                 PROVE  NoneStranded!(d)'
      BY DEF NoneStranded
    <2>1. Len(q[d]) \in Nat
      BY DEF TypeOK
    <2>2. CASE d # c
      <3>1. Coming(Fibers, d) \subseteq Coming(Fibers, d)' /\ Coming(Threads, d) \subseteq Coming(Threads, d)'
        BY <2>2, <1>c DEF Coming, TypeOK, Actors
      <3>2. /\ Cardinality(Coming(Fibers, d)) <= Cardinality(Coming(Fibers, d)')
            /\ Cardinality(Coming(Threads, d)) <= Cardinality(Coming(Threads, d)')
            /\ {Cardinality(Coming(Fibers, d)), Cardinality(Coming(Fibers, d)'),
                Cardinality(Coming(Threads, d)), Cardinality(Coming(Threads, d)')} \subseteq Nat
        BY <3>1, ComingFinite, CountSubset
      <3> QED BY <3>2, <2>1 DEF NoneStranded
    <2>3. CASE d = c
      BY <2>3, <1>c DEF NoneStranded
    <2> QED BY <2>2, <2>3
  <1>4. SelectInv' /\ SelectSleepsSafely' /\ ArmedWhileSelecting'
    <2>1. \A s \in Selectors : pc'[s] = pc[s] \/ {pc[s], pc'[s]} \subseteq {"idle", "recv", "blocked"}
      BY ChannelAssumption DEF TypeOK
    <2>2. \A d \in Chans : Quiet(d) => Quiet(d)'
      BY DEF Quiet
    <2> QED BY <2>1, <2>2, SelectsKept
  <1> QED BY <1>0, <1>1, <1>2, <1>3, <1>4

\* A receiver blocks only on an empty open channel.
LEMMA RecvBlockStep ==
    ASSUME ChannelInv, NEW a \in Actors, RecvBlock(a)
    PROVE  ChannelInv'
  <1> DEFINE c == chan[a]
  <1>c. c \in Chans /\ pc[a] = "recv" /\ q[c] = <<>> /\ ~closed[c]
    BY DEF ChannelInv, CallInv, RecvBlock, TypeOK
  <1> USE DEF ChannelInv, RecvBlock, Goto
  <1>0. TypeOK'
    <2>t. recv_fibers \in [Chans -> Seq(Fibers)] /\ cond \in [Chans -> SUBSET Threads] /\ c \in Chans
      BY <1>c DEF TypeOK
    <2>1. CASE a \in Fibers /\ recv_fibers' = [recv_fibers EXCEPT ![c] = Append(@, a)] /\ UNCHANGED cond
      <3>1. recv_fibers' \in [Chans -> Seq(Fibers)] /\ cond' \in [Chans -> SUBSET Threads]
        BY <2>t, <2>1
      <3> QED BY <3>1 DEF TypeOK, selVars
    <2>2. CASE a \in Threads /\ cond' = [cond EXCEPT ![c] = @ \cup {a}] /\ UNCHANGED recv_fibers
      <3>1. recv_fibers' \in [Chans -> Seq(Fibers)] /\ cond' \in [Chans -> SUBSET Threads]
        BY <2>t, <2>2
      <3> QED BY <3>1 DEF TypeOK, selVars
    <2> QED BY <2>1, <2>2
  <1>1. CallInv'
    BY <1>c DEF CallInv, TypeOK
  <1>2. ParkedInv'
    <2> SUFFICES ASSUME NEW d \in Chans
                 PROVE  ParkedInv!(d)'
      BY DEF ParkedInv
    <2>1. recv_fibers[d] \in Seq(Fibers) /\ recv_fibers'[d] \in Seq(Fibers) /\ ToSet(recv_fibers[d]) \subseteq Fibers
      BY <1>0, ToSetType DEF TypeOK
    <2>2. a \notin ToSet(recv_fibers[d]) \cup cond[d]
      BY <1>c DEF ParkedInv
    <2>3. CASE recv_fibers'[d] = Append(recv_fibers[d], a) /\ a \in Fibers /\ d = c /\ cond' = cond
      <3>1. ToSet(recv_fibers'[d]) = ToSet(recv_fibers[d]) \cup {a}
        BY <2>1, <2>3, ToSetAppend
      <3>2. IsInjective(recv_fibers'[d])
        BY <2>1, <2>2, <2>3 DEF IsInjective, ParkedInv, ToSet
      <3>3. \A b \in ToSet(recv_fibers'[d]) \cup cond'[d] : pc'[b] = "blocked" /\ chan'[b] = d
        BY <3>1, <2>1, <2>2, <2>3, <1>c DEF ParkedInv, TypeOK, Actors
      <3> QED BY <3>2, <3>3
    <2>4. CASE recv_fibers'[d] = recv_fibers[d] /\ cond'[d] = cond[d] \cup (IF d = c THEN {a} ELSE {})
      BY <2>1, <2>2, <2>4, <1>c DEF ParkedInv, TypeOK, Actors
    <2>5. CASE recv_fibers'[d] = recv_fibers[d] /\ cond'[d] = cond[d]
      BY <2>1, <2>2, <2>5, <1>c DEF ParkedInv, TypeOK, Actors
    <2> QED BY <2>3, <2>4, <2>5, <1>c DEF TypeOK
  <1>3. NoneStranded'
    <2> SUFFICES ASSUME NEW d \in Chans
                 PROVE  NoneStranded!(d)'
      BY DEF NoneStranded
    <2>1. Len(q[d]) \in Nat
      BY DEF TypeOK
    <2>2. CASE d # c
      <3>1. Coming(Fibers, d) \subseteq Coming(Fibers, d)' /\ Coming(Threads, d) \subseteq Coming(Threads, d)'
        BY <2>2, <1>c DEF Coming, TypeOK, Actors
      <3>2. /\ Cardinality(Coming(Fibers, d)) <= Cardinality(Coming(Fibers, d)')
            /\ Cardinality(Coming(Threads, d)) <= Cardinality(Coming(Threads, d)')
            /\ {Cardinality(Coming(Fibers, d)), Cardinality(Coming(Fibers, d)'),
                Cardinality(Coming(Threads, d)), Cardinality(Coming(Threads, d)')} \subseteq Nat
        BY <3>1, ComingFinite, CountSubset
      <3>3. recv_fibers'[d] = recv_fibers[d] /\ cond'[d] = cond[d]
        BY <2>2, <1>c DEF TypeOK
      <3> QED BY <3>2, <3>3, <2>1 DEF NoneStranded
    <2>3. CASE d = c
      <3>1. Cardinality(Coming(Fibers, d)') \in Nat /\ Cardinality(Coming(Threads, d)') \in Nat
        BY ComingFinite, FS_CardinalityType
      <3>2. Len(q'[d]) = 0 /\ ~closed'[d]
        BY <2>3, <1>c
      <3> QED BY <3>1, <3>2
    <2> QED BY <2>2, <2>3
  <1>4. SelectInv' /\ SelectSleepsSafely' /\ ArmedWhileSelecting'
    <2>1. \A s \in Selectors : pc'[s] = pc[s] \/ {pc[s], pc'[s]} \subseteq {"idle", "recv", "blocked"}
      BY ChannelAssumption DEF TypeOK
    <2>2. \A d \in Chans : Quiet(d) => Quiet(d)'
      BY DEF Quiet
    <2> QED BY <2>1, <2>2, SelectsKept
  <1> QED BY <1>0, <1>1, <1>2, <1>3, <1>4

\* A thread that wakes by itself is on its way again.
LEMMA SpuriousWakeStep ==
    ASSUME ChannelInv, NEW a \in Actors, SpuriousWake(a)
    PROVE  ChannelInv'
  <1> DEFINE c == chan[a]
  <1>c. c \in Chans /\ pc[a] = "blocked" /\ a \in Threads
    BY DEF ChannelInv, CallInv, SpuriousWake, TypeOK
  <1>t. cond[c] \in SUBSET Threads /\ cond' = [cond EXCEPT ![c] = cond[c] \ {a}]
    BY <1>c DEF ChannelInv, TypeOK, SpuriousWake
  <1>p. \A d \in Chans : ToSet(recv_fibers[d]) \subseteq Fibers
    BY ToSetType DEF ChannelInv, TypeOK
  <1> USE DEF ChannelInv, SpuriousWake, Goto
  <1>0. TypeOK'
    BY <1>c, <1>t DEF TypeOK, selVars
  <1>1. CallInv'
    BY <1>c DEF CallInv, TypeOK
  <1>2. ParkedInv'
    <2> SUFFICES ASSUME NEW d \in Chans
                 PROVE  ParkedInv!(d)'
      BY DEF ParkedInv
    <2>1. IsInjective(recv_fibers'[d])
      BY DEF ParkedInv
    <2>2. a \notin ToSet(recv_fibers[d])
      BY <1>c, <1>p, ChannelAssumption
    <2>3. a \notin cond'[d]
      BY <1>c, <1>t DEF ParkedInv, TypeOK
    <2>4. cond'[d] \subseteq cond[d] /\ cond[d] \subseteq Actors /\ ToSet(recv_fibers[d]) \subseteq Actors
      BY <1>c, <1>t, <1>p DEF TypeOK, Actors
    <2> QED BY <2>1, <2>2, <2>3, <2>4 DEF ParkedInv, TypeOK
  <1>3. NoneStranded'
    <2> SUFFICES ASSUME NEW d \in Chans
                 PROVE  NoneStranded!(d)'
      BY DEF NoneStranded
    <2>1. Coming(Fibers, d) \subseteq Coming(Fibers, d)' /\ Coming(Threads, d) \subseteq Coming(Threads, d)'
      BY DEF Coming, TypeOK, Actors
    <2>2. /\ Cardinality(Coming(Fibers, d)) <= Cardinality(Coming(Fibers, d)')
          /\ Cardinality(Coming(Threads, d)) <= Cardinality(Coming(Threads, d)')
          /\ {Cardinality(Coming(Fibers, d)), Cardinality(Coming(Fibers, d)'),
              Cardinality(Coming(Threads, d)), Cardinality(Coming(Threads, d)')} \subseteq Nat
      BY <2>1, ComingFinite, CountSubset
    <2>3. Len(q[d]) \in Nat
      BY DEF TypeOK
    <2>4. cond'[d] # {} => cond[d] # {}
      BY <1>c, <1>t DEF TypeOK
    <2> QED BY <2>2, <2>3, <2>4 DEF NoneStranded
  <1>4. SelectInv' /\ SelectSleepsSafely' /\ ArmedWhileSelecting'
    <2>1. \A s \in Selectors : pc'[s] = pc[s] \/ {pc[s], pc'[s]} \subseteq {"idle", "recv", "blocked"}
      BY ChannelAssumption DEF TypeOK
    <2>2. \A d \in Chans : Quiet(d) => Quiet(d)'
      BY DEF Quiet
    <2> QED BY <2>1, <2>2, SelectsKept
  <1> QED BY <1>0, <1>1, <1>2, <1>3, <1>4

\* What popping an item for a does, and that not popping does as little.
LEMMA PopFacts ==
    ASSUME TypeOK, NEW a \in Actors, NEW c \in Chans,
           (q[c] # <<>> /\ PopFor(a, c)) \/ (q[c] = <<>> /\ TryNone(a))
    PROVE  /\ q' \in [Chans -> Seq(1 .. MaxSends)]
           /\ got' \in [Actors -> 0 .. MaxSends]
           /\ \A d \in Chans : Len(q'[d]) <= Len(q[d]) /\ Len(q'[d]) \in Nat
           /\ \A d \in Chans : q[d] = <<>> => q'[d] = <<>>
  <1>1. q[c] \in Seq(1 .. MaxSends) /\ \A d \in Chans : Len(q[d]) \in Nat
    BY DEF TypeOK
  <1>2. CASE q[c] # <<>> /\ PopFor(a, c)
    <2>1. Tail(q[c]) \in Seq(1 .. MaxSends) /\ Len(Tail(q[c])) = Len(q[c]) - 1 /\ Head(q[c]) \in 1 .. MaxSends
      BY <1>1, <1>2, TailFacts
    <2>2. q' = [q EXCEPT ![c] = Tail(q[c])] /\ got' = [got EXCEPT ![a] = Head(q[c])]
      BY <1>2 DEF PopFor
    <2>3. got' \in [Actors -> 0 .. MaxSends]
      <3>1. got \in [Actors -> 0 .. MaxSends]
        BY DEF TypeOK
      <3>2. Head(q[c]) \in 0 .. MaxSends
        BY <2>1, ChannelAssumption
      <3> QED BY <2>2, <3>1, <3>2
    <2>4. q' \in [Chans -> Seq(1 .. MaxSends)]
      BY <2>1, <2>2 DEF TypeOK
    <2>5. \A d \in Chans : Len(q'[d]) <= Len(q[d]) /\ Len(q'[d]) \in Nat
      <3> TAKE d \in Chans
      <3>1. CASE d = c
        <4>1. q'[d] = Tail(q[c])
          BY <3>1, <2>2 DEF TypeOK
        <4>2. Len(q'[d]) \in Nat
          BY <2>4
        <4> QED BY <3>1, <4>1, <4>2, <2>1, <1>1
      <3>2. CASE d # c
        BY <3>2, <2>2, <1>1 DEF TypeOK
      <3> QED BY <3>1, <3>2
    <2>6. \A d \in Chans : q[d] = <<>> => q'[d] = <<>>
      BY <1>2, <2>2 DEF TypeOK
    <2> QED BY <2>3, <2>4, <2>5, <2>6
  <1>3. CASE q[c] = <<>> /\ TryNone(a)
    <2>1. q' = q /\ got' = [got EXCEPT ![a] = 0]
      BY <1>3 DEF TryNone
    <2>2. got' \in [Actors -> 0 .. MaxSends]
      BY <2>1, ChannelAssumption DEF TypeOK
    <2> QED BY <2>1, <2>2, <1>1 DEF TypeOK
  <1> QED BY <1>2, <1>3

\* A receive that does not wait.
LEMMA TryRecvStep ==
    ASSUME ChannelInv, NEW a \in Actors, NEW c \in Chans, chan_try_recv(a, c)
    PROVE  ChannelInv'
  <1>q. /\ q' \in [Chans -> Seq(1 .. MaxSends)]
        /\ got' \in [Actors -> 0 .. MaxSends]
        /\ \A d \in Chans : Len(q'[d]) <= Len(q[d]) /\ Len(q'[d]) \in Nat
        /\ \A d \in Chans : q[d] = <<>> => q'[d] = <<>>
    BY PopFacts DEF ChannelInv, chan_try_recv
  <1> USE DEF ChannelInv, chan_try_recv
  <1>0. TypeOK'
    BY <1>q DEF TypeOK, selVars
  <1>1. CallInv'
    BY DEF CallInv
  <1>2. ParkedInv'
    BY DEF ParkedInv
  <1>3. NoneStranded'
    <2> SUFFICES ASSUME NEW d \in Chans
                 PROVE  NoneStranded!(d)'
      BY DEF NoneStranded
    <2>1. Coming(Fibers, d) = Coming(Fibers, d)' /\ Coming(Threads, d) = Coming(Threads, d)'
      BY DEF Coming
    <2>2. Cardinality(Coming(Fibers, d)) \in Nat /\ Cardinality(Coming(Threads, d)) \in Nat
          /\ Len(q[d]) \in Nat
      BY ComingFinite, FS_CardinalityType DEF TypeOK
    <2> QED BY <2>1, <2>2, <1>q DEF NoneStranded
  <1>4. SelectInv' /\ SelectSleepsSafely' /\ ArmedWhileSelecting'
    <2>2. \A d \in Chans : Quiet(d) => Quiet(d)'
      BY <1>q DEF Quiet
    <2> QED BY <2>2, SelectsKept
  <1> QED BY <1>0, <1>1, <1>2, <1>3, <1>4

-----------------------------------------------------------------------------
(* Send and close.                                                         *)

\* Those a send wakes were blocked on the channel and are off its lists.
LEMMA SendStep ==
    ASSUME ChannelInv, NEW c \in Chans, chan_send(c)
    PROVE  ChannelInv'
  <1> DEFINE R == recv_fibers[c]
  <1>1. PICK signalled \in OneOf(cond[c]) :
              /\ cond' = [cond EXCEPT ![c] = @ \ signalled]
              /\ Wake(Oldest(R) \cup signalled)
    BY DEF chan_send
  <1> DEFINE W == Oldest(R) \cup signalled
  <1>2. /\ R \in Seq(Fibers) /\ ToSet(R) \subseteq Fibers
        /\ recv_fibers' = [recv_fibers EXCEPT ![c] = Rest(R)]
        /\ \A d \in Chans : recv_fibers[d] \in Seq(Fibers) /\ ToSet(recv_fibers[d]) \subseteq Fibers /\ cond[d] \subseteq Threads
    BY ToSetType DEF ChannelInv, TypeOK, chan_send
  <1>3. signalled \subseteq cond[c] /\ (cond[c] # {} => signalled # {})
    BY DEF OneOf
  <1>4. /\ Rest(R) \in Seq(Fibers) /\ IsInjective(Rest(R))
        /\ Oldest(R) \subseteq ToSet(R) /\ ToSet(Rest(R)) = ToSet(R) \ Oldest(R)
    <2>1. CASE R = <<>>
      BY <2>1, <1>2 DEF Rest, Oldest, ToSet, IsInjective
    <2>2. CASE R # <<>>
      <3>1. /\ Tail(R) \in Seq(Fibers) /\ Len(Tail(R)) = Len(R) - 1 /\ Head(R) = R[1]
            /\ \A i \in 1 .. Len(R) - 1 : Tail(R)[i] = R[i + 1]
        BY <2>2, <1>2, TailFacts
      <3>2. IsInjective(R)
        BY DEF ChannelInv, ParkedInv
      <3>3. Len(R) \in Nat /\ DOMAIN R = 1 .. Len(R) /\ DOMAIN Tail(R) = 1 .. Len(R) - 1
        BY <1>2, <3>1
      <3>4. ToSet(R) = ToSet(Tail(R)) \cup {Head(R)}
        BY <2>2, <1>2, ToSetTail
      <3>5. \A i \in 1 .. Len(R) - 1 : Tail(R)[i] # R[1]
        BY <3>1, <3>2, <3>3 DEF IsInjective
      <3>6. Head(R) \notin ToSet(Tail(R))
        BY <3>1, <3>3, <3>5 DEF ToSet
      <3>7. IsInjective(Tail(R))
        <4> SUFFICES ASSUME NEW i \in 1 .. Len(R) - 1, NEW j \in 1 .. Len(R) - 1, Tail(R)[i] = Tail(R)[j]
                     PROVE  i = j
          BY <3>3 DEF IsInjective
        <4>1. i + 1 \in DOMAIN R /\ j + 1 \in DOMAIN R
          BY <3>3
        <4>2. R[i + 1] = R[j + 1]
          BY <3>1
        <4>3. i + 1 = j + 1
          BY <4>1, <4>2, <3>2 DEF IsInjective
        <4> QED BY <4>3
      <3> QED BY <3>1, <3>4, <3>6, <3>7, <2>2 DEF Rest, Oldest
    <2> QED BY <2>1, <2>2
  <1>5. \A a \in W : pc[a] = "blocked" /\ chan[a] = c /\ a \in Actors
    BY <1>2, <1>3, <1>4 DEF ChannelInv, ParkedInv, Actors
  <1>6. pc' = [a \in Actors |-> IF a \in W THEN "recv" ELSE pc[a]]
    BY <1>1 DEF Wake
  <1>7. /\ cond' = [cond EXCEPT ![c] = cond[c] \ signalled]
        /\ \A d \in Chans : cond'[d] = IF d = c THEN cond[c] \ signalled ELSE cond[d]
    BY <1>1 DEF ChannelInv, TypeOK
  <1>8. \A d \in Chans : recv_fibers'[d] = IF d = c THEN Rest(R) ELSE recv_fibers[d]
    BY <1>2 DEF ChannelInv, TypeOK
  <1>9. /\ q[c] \in Seq(1 .. MaxSends) /\ sent + 1 \in 1 .. MaxSends
        /\ q' = [q EXCEPT ![c] = Append(q[c], sent + 1)] /\ sent' = sent + 1
    BY ChannelAssumption DEF ChannelInv, TypeOK, chan_send
  <1>10. Append(q[c], sent + 1) \in Seq(1 .. MaxSends) /\ Len(Append(q[c], sent + 1)) = Len(q[c]) + 1
    BY <1>9
  <1>11. UNCHANGED <<closed, select_waiters, pass, idx, which, chan, got>> /\ Fire(c) /\ ~closed[c]
    BY DEF chan_send
  <1> HIDE DEF W
  <1> USE DEF ChannelInv
  <1>12. TypeOK'
    <2>1. q' \in [Chans -> Seq(1 .. MaxSends)] /\ sent' \in 0 .. MaxSends
      BY <1>9, <1>10, ChannelAssumption DEF TypeOK
    <2>2. recv_fibers' \in [Chans -> Seq(Fibers)]
      BY <1>2, <1>4 DEF TypeOK
    <2>3. cond' \in [Chans -> SUBSET Threads]
      BY <1>7 DEF TypeOK
    <2>4. fired' \in [Selectors -> BOOLEAN]
      BY <1>11 DEF Fire, TypeOK
    <2>5. pc' \in [Actors -> {"idle", "recv", "blocked", "poll", "take", "prepare", "arm", "wait", "disarm"}]
      BY <1>6 DEF TypeOK
    <2> QED BY <2>1, <2>2, <2>3, <2>4, <2>5, <1>11 DEF TypeOK
  <1>13. CallInv'
    BY <1>5, <1>6, <1>11, ChannelAssumption DEF CallInv, TypeOK
  <1>14. ParkedInv'
    <2> SUFFICES ASSUME NEW d \in Chans
                 PROVE  ParkedInv!(d)'
      BY DEF ParkedInv
    <2>1. IsInjective(recv_fibers'[d])
      BY <1>4, <1>8 DEF ParkedInv
    <2>2. \A a \in ToSet(recv_fibers'[d]) \cup cond'[d] : a \notin W /\ a \in ToSet(recv_fibers[d]) \cup cond[d]
      <3>1. CASE d # c
        BY <3>1, <1>5, <1>7, <1>8 DEF ParkedInv
      <3>2. CASE d = c
        BY <3>2, <1>2, <1>3, <1>4, <1>7, <1>8, ChannelAssumption DEF W
      <3> QED BY <3>1, <3>2
    <2>3. \A a \in ToSet(recv_fibers[d]) \cup cond[d] : a \in Actors
      BY <1>2 DEF Actors
    <2> QED BY <2>1, <2>2, <2>3, <1>6, <1>11 DEF ParkedInv
  <1>15. NoneStranded'
    <2> SUFFICES ASSUME NEW d \in Chans
                 PROVE  NoneStranded!(d)'
      BY DEF NoneStranded
    <2>1. Len(q[d]) \in Nat /\ Len(q'[d]) \in Nat
      BY <1>12 DEF TypeOK
    <2>2. Coming(Fibers, d) \subseteq Coming(Fibers, d)' /\ Coming(Threads, d) \subseteq Coming(Threads, d)'
      BY <1>5, <1>6, <1>11 DEF Coming, Actors
    <2>3. /\ Cardinality(Coming(Fibers, d)) <= Cardinality(Coming(Fibers, d)')
          /\ Cardinality(Coming(Threads, d)) <= Cardinality(Coming(Threads, d)')
          /\ {Cardinality(Coming(Fibers, d)), Cardinality(Coming(Fibers, d)'),
              Cardinality(Coming(Threads, d)), Cardinality(Coming(Threads, d)')} \subseteq Nat
      BY <2>2, ComingFinite, CountSubset
    <2>4. CASE d # c
      <3>1. q'[d] = q[d] /\ closed'[d] = closed[d] /\ recv_fibers'[d] = recv_fibers[d] /\ cond'[d] = cond[d]
        BY <2>4, <1>7, <1>8, <1>9, <1>11 DEF TypeOK
      <3> QED BY <3>1, <2>1, <2>3 DEF NoneStranded
    <2>5. CASE d = c
      <3>1. Len(q'[d]) = Len(q[d]) + 1 /\ ~closed'[d]
        BY <2>5, <1>9, <1>10, <1>11 DEF TypeOK
      <3>2. ASSUME recv_fibers'[d] # <<>>
            PROVE  Len(q'[d]) <= Cardinality(Coming(Fibers, d)')
        <4>1. R # <<>> /\ recv_fibers[d] = R
          BY <3>2, <2>5, <1>8 DEF Rest
        <4>2. Head(R) \in W /\ Head(R) \in Fibers
          BY <4>1, <1>2, <1>4 DEF W, Oldest
        <4>3. Head(R) \notin Coming(Fibers, d) /\ Head(R) \in Coming(Fibers, d)'
          BY <4>2, <2>5, <1>5, <1>6, <1>11 DEF Coming, Actors
        <4>4. Cardinality(Coming(Fibers, d)) + 1 <= Cardinality(Coming(Fibers, d)')
          BY <4>3, <2>2, ComingFinite, CountOneMore
        <4>5. Len(q[d]) <= Cardinality(Coming(Fibers, d))
          BY <4>1 DEF NoneStranded
        <4> QED BY <4>4, <4>5, <3>1, <2>1, <2>3
      <3>3. ASSUME cond'[d] # {}
            PROVE  Len(q'[d]) <= Cardinality(Coming(Threads, d)')
        <4>1. cond[c] # {}
          BY <3>3, <2>5, <1>7
        <4>2. PICK t : t \in signalled
          BY <4>1, <1>3
        <4>3. t \in W /\ t \in Threads
          BY <4>2, <1>2, <1>3 DEF W
        <4>4. t \notin Coming(Threads, d) /\ t \in Coming(Threads, d)'
          BY <4>3, <2>5, <1>5, <1>6, <1>11 DEF Coming, Actors
        <4>5. Cardinality(Coming(Threads, d)) + 1 <= Cardinality(Coming(Threads, d)')
          BY <4>4, <2>2, ComingFinite, CountOneMore
        <4>6. Len(q[d]) <= Cardinality(Coming(Threads, d))
          BY <4>1, <2>5 DEF NoneStranded
        <4> QED BY <4>5, <4>6, <3>1, <2>1, <2>3
      <3> QED BY <3>1, <3>2, <3>3
    <2> QED BY <2>4, <2>5
  <1>16. SelectInv' /\ SelectSleepsSafely' /\ ArmedWhileSelecting'
    <2>1. \A d \in Chans : d # c => Quiet(d) = Quiet(d)'
      BY <1>9, <1>11 DEF Quiet, TypeOK
    <2>2. Wake(W)
      BY <1>6 DEF Wake
    <2> QED BY <2>1, <2>2, <1>5, <1>11, SelectsFired
  <1> QED BY <1>12, <1>13, <1>14, <1>15, <1>16

\* A close wakes everybody who was blocked there.
LEMMA CloseStep ==
    ASSUME ChannelInv, NEW c \in Chans, chan_close(c)
    PROVE  ChannelInv'
  <1> DEFINE W == ToSet(recv_fibers[c]) \cup cond[c]
  <1>2. \A d \in Chans : recv_fibers[d] \in Seq(Fibers) /\ ToSet(recv_fibers[d]) \subseteq Fibers /\ cond[d] \subseteq Threads
    BY ToSetType DEF ChannelInv, TypeOK
  <1>5. \A a \in W : pc[a] = "blocked" /\ chan[a] = c /\ a \in Actors
    BY <1>2 DEF ChannelInv, ParkedInv, Actors
  <1>6. pc' = [a \in Actors |-> IF a \in W THEN "recv" ELSE pc[a]]
    BY DEF Wake, chan_close
  <1>7. \A d \in Chans : /\ cond'[d] = IF d = c THEN {} ELSE cond[d]
                         /\ recv_fibers'[d] = IF d = c THEN <<>> ELSE recv_fibers[d]
    BY DEF chan_close, ChannelInv, TypeOK
  <1>11. UNCHANGED <<q, sent, select_waiters, pass, idx, which, chan, got>> /\ Fire(c)
         /\ closed' = [closed EXCEPT ![c] = TRUE]
    BY DEF chan_close
  <1>12. TypeOK'
    <2>1. closed' \in [Chans -> BOOLEAN]
      BY <1>11 DEF ChannelInv, TypeOK
    <2>2. recv_fibers' \in [Chans -> Seq(Fibers)] /\ cond' \in [Chans -> SUBSET Threads]
      BY DEF chan_close, ChannelInv, TypeOK
    <2>4. fired' \in [Selectors -> BOOLEAN]
      BY <1>11 DEF Fire, ChannelInv, TypeOK
    <2>5. pc' \in [Actors -> {"idle", "recv", "blocked", "poll", "take", "prepare", "arm", "wait", "disarm"}]
      BY <1>6 DEF ChannelInv, TypeOK
    <2> QED BY <2>1, <2>2, <2>4, <2>5, <1>11 DEF ChannelInv, TypeOK
  <1> HIDE DEF W
  <1> USE DEF ChannelInv
  <1>13. CallInv'
    BY <1>5, <1>6, <1>11, ChannelAssumption DEF CallInv, TypeOK
  <1>14. ParkedInv'
    <2> SUFFICES ASSUME NEW d \in Chans
                 PROVE  ParkedInv!(d)'
      BY DEF ParkedInv
    <2>1. CASE d # c
      <3>1. \A a \in ToSet(recv_fibers[d]) \cup cond[d] : a \in Actors /\ a \notin W
        BY <2>1, <1>2, <1>5 DEF Actors, ParkedInv
      <3> QED BY <2>1, <3>1, <1>6, <1>7, <1>11 DEF ParkedInv
    <2>2. CASE d = c
      BY <2>2, <1>7 DEF IsInjective, ToSet
    <2> QED BY <2>1, <2>2
  <1>15. NoneStranded'
    <2> SUFFICES ASSUME NEW d \in Chans
                 PROVE  NoneStranded!(d)'
      BY DEF NoneStranded
    <2>1. Len(q[d]) \in Nat
      BY DEF TypeOK
    <2>2. Coming(Fibers, d) \subseteq Coming(Fibers, d)' /\ Coming(Threads, d) \subseteq Coming(Threads, d)'
      BY <1>5, <1>6, <1>11 DEF Coming, Actors
    <2>3. /\ Cardinality(Coming(Fibers, d)) <= Cardinality(Coming(Fibers, d)')
          /\ Cardinality(Coming(Threads, d)) <= Cardinality(Coming(Threads, d)')
          /\ {Cardinality(Coming(Fibers, d)), Cardinality(Coming(Fibers, d)'),
              Cardinality(Coming(Threads, d)), Cardinality(Coming(Threads, d)')} \subseteq Nat
      BY <2>2, ComingFinite, CountSubset
    <2>4. CASE d # c
      <3>1. closed'[d] = closed[d]
        BY <2>4, <1>11 DEF TypeOK
      <3> QED BY <3>1, <2>1, <2>3, <2>4, <1>7, <1>11 DEF NoneStranded
    <2>5. CASE d = c
      BY <2>5, <1>7
    <2> QED BY <2>4, <2>5
  <1>16. SelectInv' /\ SelectSleepsSafely' /\ ArmedWhileSelecting'
    <2>1. \A d \in Chans : d # c => Quiet(d) = Quiet(d)'
      BY <1>11 DEF Quiet, TypeOK
    <2>2. Wake(W)
      BY <1>6 DEF Wake
    <2> QED BY <2>1, <2>2, <1>5, <1>11, SelectsFired
  <1> QED BY <1>12, <1>13, <1>14, <1>15, <1>16

-----------------------------------------------------------------------------
(* Select.                                                                 *)

\* Facts about the case a select is at.
LEMMA CaseFacts ==
    ASSUME TypeOK, NEW s \in Selectors
    PROVE  /\ s \in Actors
           /\ Len(Cases) \in Nat \ {0}
           /\ idx[s] \in 1 .. Len(Cases)
           /\ Cases[idx[s]] \in Chans
           /\ \A k \in 1 .. Len(Cases) : k \in DOMAIN Cases /\ Cases[k] \in Chans
  <1>1. s \in Actors /\ Cases \in Seq(Chans) /\ Cases # <<>>
    BY ChannelAssumption
  <1>2. Len(Cases) \in Nat \ {0} /\ \A k \in 1 .. Len(Cases) : k \in DOMAIN Cases /\ Cases[k] \in Chans
    BY <1>1
  <1>3. idx[s] \in 1 .. Len(Cases)
    BY DEF TypeOK
  <1> QED BY <1>1, <1>2, <1>3

\* A select that starts to poll keeps the invariant (nurlc.nu:20474).
LEMMA SelectCallStep ==
    ASSUME ChannelInv, NEW s \in Selectors, NEW default \in BOOLEAN, SelectCall(s, default)
    PROVE  ChannelInv'
  <1>f. s \in Actors /\ Len(Cases) \in Nat \ {0}
    BY CaseFacts DEF ChannelInv
  <1> USE DEF ChannelInv, SelectCall, Goto, chanVars
  <1>0. TypeOK'
    BY <1>f DEF TypeOK
  <1>1. CallInv' /\ ParkedInv' /\ NoneStranded'
    <2>1. \A c \in Chans : Len(q'[c]) <= Len(q[c]) /\ Len(q'[c]) \in Nat
      BY DEF TypeOK
    <2>2. /\ pc[s] \notin {"recv", "blocked"} /\ pc'[s] \notin {"recv", "blocked"}
         /\ \A a \in Actors : a # s => pc'[a] = pc[a]
      BY <1>f DEF TypeOK
    <2>3. UNCHANGED <<recv_fibers, cond, closed, chan>>
      OBVIOUS
    <2> QED BY <2>1, <2>2, <2>3, ReceiversKept
  <1>2. SelectInv'
    BY <1>f DEF SelectInv, TypeOK, Quiet
  <1>3. SelectSleepsSafely'
    BY <1>f DEF SelectSleepsSafely, TypeOK
  <1>4. ArmedWhileSelecting'
    <2>1. \A r \in Selectors, c \in Chans : Armings(r, c)' = Armings(r, c)
      BY DEF Armings
    <2> QED BY <1>f, <2>1 DEF ArmedWhileSelecting, TypeOK
  <1> QED BY <1>0, <1>1, <1>2, <1>3, <1>4

\* The poll moves on past a case it found quiet, or past any once it has chosen.
LEMMA SelectPollStep ==
    ASSUME ChannelInv, NEW s \in Selectors, SelectPoll(s)
    PROVE  ChannelInv'
  <1>f. /\ s \in Actors /\ Len(Cases) \in Nat \ {0} /\ idx[s] \in 1 .. Len(Cases)
        /\ \A k \in 1 .. Len(Cases) : k \in DOMAIN Cases /\ Cases[k] \in Chans
        /\ DOMAIN Cases = 1 .. Len(Cases)
    BY CaseFacts, ChannelAssumption DEF ChannelInv
  <1>u. /\ pc[s] = "poll"
        /\ UNCHANGED <<q, closed, recv_fibers, cond, select_waiters, sent, fired, pass, chan, got>>
    BY DEF SelectPoll, chanVars
  <1>a. \A r \in Selectors, c \in Chans : Armings(r, c)' = Armings(r, c)
    BY <1>u DEF Armings
  <1>b. CASE which[s] = 0 /\ ~Quiet(Cases[idx[s]]) /\ pc' = [pc EXCEPT ![s] = "take"] /\ UNCHANGED <<which, idx>>
    <2> USE <1>b, <1>u, <1>f DEF ChannelInv
    <2>0. TypeOK'
      BY DEF TypeOK
    <2>1. CallInv' /\ ParkedInv' /\ NoneStranded'
      <3>1. \A c \in Chans : Len(q'[c]) <= Len(q[c]) /\ Len(q'[c]) \in Nat
        BY DEF TypeOK
      <3>2. /\ pc[s] \notin {"recv", "blocked"} /\ pc'[s] \notin {"recv", "blocked"}
           /\ \A a \in Actors : a # s => pc'[a] = pc[a]
        BY DEF TypeOK
      <3>3. UNCHANGED <<recv_fibers, cond, closed, chan>>
        OBVIOUS
      <3> QED BY <3>1, <3>2, <3>3, ReceiversKept
    <2>p. pc'[s] = "take" /\ \A r \in Selectors : r # s => pc'[r] = pc[r]
      BY ChannelAssumption DEF TypeOK
    <2>2. SelectInv'
      <3> SUFFICES ASSUME NEW r \in Selectors PROVE SelectInv!(r)'
        BY DEF SelectInv
      <3>1. CASE r = s
        BY <3>1, <2>p
      <3>2. CASE r # s
        <4>1. SelectInv!(r)
          BY DEF SelectInv
        <4> QED BY <3>2, <4>1, <2>p DEF Quiet
      <3> QED BY <3>1, <3>2
    <2>3. SelectSleepsSafely'
      BY <2>p DEF SelectSleepsSafely
    <2>4. ArmedWhileSelecting'
      <3> SUFFICES ASSUME NEW r \in Selectors, NEW c \in Chans PROVE ArmedWhileSelecting!(r, c)'
        BY DEF ArmedWhileSelecting
      <3>0. ArmedWhileSelecting!(r, c)
        BY DEF ArmedWhileSelecting
      <3>1. CASE r = s
        BY <3>0, <3>1, <1>a, <2>p
      <3>2. CASE r # s
        BY <3>0, <3>2, <1>a, <2>p
      <3> QED BY <3>1, <3>2
    <2> QED BY <2>0, <2>1, <2>2, <2>3, <2>4
  <1>c. CASE /\ which[s] # 0 \/ Quiet(Cases[idx[s]])
             /\ idx[s] # Len(Cases) /\ idx' = [idx EXCEPT ![s] = @ + 1] /\ UNCHANGED <<pc, which>>
    <2> USE <1>c, <1>u, <1>f DEF ChannelInv
    <2>0. TypeOK'
      BY DEF TypeOK
    <2>1. CallInv' /\ ParkedInv' /\ NoneStranded'
      <3>1. \A c \in Chans : Len(q'[c]) <= Len(q[c]) /\ Len(q'[c]) \in Nat
        BY DEF TypeOK
      <3>2. /\ pc[s] \notin {"recv", "blocked"} /\ pc'[s] \notin {"recv", "blocked"}
           /\ \A a \in Actors : a # s => pc'[a] = pc[a]
        BY DEF TypeOK
      <3>3. UNCHANGED <<recv_fibers, cond, closed, chan>>
        OBVIOUS
      <3> QED BY <3>1, <3>2, <3>3, ReceiversKept
    <2>2. SelectInv'
      <3> SUFFICES ASSUME NEW r \in Selectors
                   PROVE  SelectInv!(r)'
        BY DEF SelectInv
      <3>1. CASE r # s
        BY <3>1 DEF SelectInv, TypeOK, Quiet
      <3>2. CASE r = s
        <4>1. idx'[s] = idx[s] + 1 /\ \A k \in 1 .. idx'[s] - 1 : k \in 1 .. idx[s] - 1 \/ k = idx[s]
          BY DEF TypeOK
        <4> QED BY <3>2, <4>1 DEF SelectInv, Quiet
      <3> QED BY <3>1, <3>2
    <2>3. SelectSleepsSafely'
      BY DEF SelectSleepsSafely
    <2>4. ArmedWhileSelecting'
      <3> SUFFICES ASSUME NEW r \in Selectors, NEW c \in Chans
                   PROVE  ArmedWhileSelecting!(r, c)'
        BY DEF ArmedWhileSelecting
      <3>1. r # s => idx'[r] = idx[r]
        BY DEF TypeOK
      <3> QED BY <3>1, <1>a DEF ArmedWhileSelecting
    <2> QED BY <2>0, <2>1, <2>2, <2>3, <2>4
  <1>d. CASE /\ which[s] # 0 \/ Quiet(Cases[idx[s]])
             /\ idx[s] = Len(Cases) /\ idx' = [idx EXCEPT ![s] = 1] /\ Polled(s)
    <2> USE <1>d, <1>u, <1>f DEF ChannelInv, Polled, Goto
    <2>p. pc'[s] \in {"disarm", "wait", "idle", "prepare"} /\ \A a \in Actors : a # s => pc'[a] = pc[a]
      BY DEF TypeOK
    <2>0. TypeOK'
      BY <2>p DEF TypeOK
    <2>1. CallInv' /\ ParkedInv' /\ NoneStranded'
      <3>1. \A c \in Chans : Len(q[c]) \in Nat
        BY DEF TypeOK
      <3> QED BY <3>1, <2>p, ReceiversKept
    <2>2. SelectInv'
      <3> SUFFICES ASSUME NEW r \in Selectors
                   PROVE  SelectInv!(r)'
        BY DEF SelectInv
      <3>1. CASE r # s
        <4>1. r \in Actors /\ idx'[r] = idx[r] /\ pc'[r] = pc[r]
          BY <3>1, <2>p, ChannelAssumption DEF TypeOK
        <4> QED BY <4>1 DEF SelectInv, Quiet
      <3>2. CASE r = s
        <4>1. pc'[s] = CASE pass[s] = "armed" -> IF which[s] # 0 THEN "disarm" ELSE "wait"
                         [] pass[s] = "default" -> "idle"
                         [] OTHER -> IF which[s] # 0 THEN "idle" ELSE "prepare"
          BY DEF TypeOK
        <4>2. idx'[s] = 1 /\ which'[s] = which[s]
          BY DEF TypeOK
        <4> QED BY <3>2, <4>1, <4>2, <2>p
      <3> QED BY <3>1, <3>2
    <2>3. SelectSleepsSafely'
      <3> SUFFICES ASSUME NEW r \in Selectors, pc'[r] = "wait", ~fired'[r], NEW k \in DOMAIN Cases
                   PROVE  q'[Cases[k]] = <<>> /\ ~closed'[Cases[k]]
        BY DEF SelectSleepsSafely
      <3>1. CASE r # s
        <4>1. pc[r] = "wait"
          BY <3>1, <2>p, ChannelAssumption
        <4> QED BY <4>1 DEF SelectSleepsSafely
      <3>2. CASE r = s
        <4>1. pass[s] = "armed" /\ which[s] = 0
          BY <3>2 DEF TypeOK
        <4>2. k \in 1 .. idx[s] - 1 \/ k = idx[s]
          OBVIOUS
        <4>3. Quiet(Cases[k])
          BY <3>2, <4>1, <4>2 DEF SelectInv
        <4> QED BY <4>3 DEF Quiet
      <3> QED BY <3>1, <3>2
    <2>4. ArmedWhileSelecting'
      <3> SUFFICES ASSUME NEW r \in Selectors, NEW c \in Chans
                   PROVE  ArmedWhileSelecting!(r, c)'
        BY DEF ArmedWhileSelecting
      <3>1. CASE r # s
        <4>1. r \in Actors /\ idx'[r] = idx[r] /\ pc'[r] = pc[r]
          BY <3>1, <2>p, ChannelAssumption DEF TypeOK
        <4> QED BY <4>1, <1>a DEF ArmedWhileSelecting
      <3>2. CASE r = s
        <4>1. pc'[s] = CASE pass[s] = "armed" -> IF which[s] # 0 THEN "disarm" ELSE "wait"
                         [] pass[s] = "default" -> "idle"
                         [] OTHER -> IF which[s] # 0 THEN "idle" ELSE "prepare"
          BY DEF TypeOK
        <4>2. idx'[s] - 1 = 0
          BY DEF TypeOK
        <4>3. CasesUpTo(0, c) = 0 /\ CasesUpTo(Len(Cases), c) \in Nat
          BY CasesUpToFacts
        <4>4. Armings(s, c) = IF pass[s] = "armed" THEN CasesUpTo(Len(Cases), c) ELSE 0
          BY DEF ArmedWhileSelecting
        <4>5. CASE pass[s] = "armed"
          BY <3>2, <4>1, <4>2, <4>3, <4>4, <4>5, <1>a
        <4>6. CASE pass[s] # "armed"
          <5>1. pc'[s] \in {"idle", "prepare"}
            BY <4>1, <4>6
          <5> QED BY <3>2, <5>1, <4>4, <4>6, <1>a
        <4> QED BY <4>5, <4>6
      <3> QED BY <3>1, <3>2
    <2> QED BY <2>0, <2>1, <2>2, <2>3, <2>4
  <1> QED BY <1>b, <1>c, <1>d DEF SelectPoll, Goto, Quiet

\* The case was ready when polled; by now the item may be gone.
LEMMA SelectTakeStep ==
    ASSUME ChannelInv, NEW s \in Selectors, SelectTake(s)
    PROVE  ChannelInv'
  <1>f. s \in Actors /\ idx[s] \in 1 .. Len(Cases) /\ Cases[idx[s]] \in Chans /\ Len(Cases) \in Nat
        /\ \A k \in 1 .. Len(Cases) : k \in DOMAIN Cases /\ Cases[k] \in Chans
    BY CaseFacts DEF ChannelInv
  <1>q. /\ q' \in [Chans -> Seq(1 .. MaxSends)]
        /\ got' \in [Actors -> 0 .. MaxSends]
        /\ \A d \in Chans : Len(q'[d]) <= Len(q[d]) /\ Len(q'[d]) \in Nat
        /\ \A d \in Chans : q[d] = <<>> => q'[d] = <<>>
    BY <1>f, PopFacts DEF ChannelInv, SelectTake
  <1> USE <1>f DEF ChannelInv, SelectTake, Goto
  <1>0. TypeOK'
    <2>1. which' \in [Selectors -> 0 .. Len(Cases)]
      BY DEF TypeOK
    <2>2. pc' \in [Actors -> {"idle", "recv", "blocked", "poll", "take", "prepare", "arm", "wait", "disarm"}]
      BY DEF TypeOK
    <2> QED BY <2>1, <2>2, <1>q DEF TypeOK
  <1>p. pc[s] = "take" /\ pc'[s] = "poll" /\ \A a \in Actors : a # s => pc'[a] = pc[a]
    BY DEF TypeOK
  <1>1. CallInv' /\ ParkedInv' /\ NoneStranded'
    BY <1>q, <1>p, ReceiversKept
  <1>2. SelectInv'
    <2> SUFFICES ASSUME NEW r \in Selectors
                 PROVE  SelectInv!(r)'
      BY DEF SelectInv
    <2>1. CASE r # s
      <3>1. r \in Actors /\ idx[r] \in 1 .. Len(Cases)
        BY CaseFacts
      <3>2. pc'[r] = pc[r] /\ which'[r] = which[r]
        BY <2>1, <3>1, <1>p DEF TypeOK
      <3>3. \A k \in 1 .. idx[r] - 1 : Cases[k] \in Chans
        BY <3>1
      <3> QED BY <3>2, <3>3, <1>q DEF SelectInv, Quiet
    <2>2. CASE r = s
      <3>1. pc'[s] = "poll" /\ which'[s] # 0
        BY DEF TypeOK
      <3> QED BY <2>2, <3>1
    <2> QED BY <2>1, <2>2
  <1>3. SelectSleepsSafely'
    <2>1. \A r \in Selectors : pc'[r] = "wait" => pc[r] = "wait"
      BY CaseFacts DEF TypeOK
    <2>2. \A k \in DOMAIN Cases : Cases[k] \in Chans
      BY ChannelAssumption
    <2> QED BY <2>1, <2>2, <1>q DEF SelectSleepsSafely
  <1>4. ArmedWhileSelecting'
    <2>1. \A r \in Selectors, c \in Chans : Armings(r, c)' = Armings(r, c)
      BY DEF Armings
    <2>2. \A r \in Selectors : r # s => pc'[r] = pc[r]
      BY CaseFacts DEF TypeOK
    <2>3. pc[s] = "take" /\ pc'[s] = "poll"
      BY DEF TypeOK
    <2> QED BY <2>1, <2>2, <2>3 DEF ArmedWhileSelecting
  <1> QED BY <1>0, <1>1, <1>2, <1>3, <1>4

\* select_waiter_prepare keeps the invariant: fired is down and no case is armed yet.
LEMMA SelectPrepareStep ==
    ASSUME ChannelInv, NEW s \in Selectors, SelectPrepare(s)
    PROVE  ChannelInv'
  <1>f. s \in Actors
    BY CaseFacts DEF ChannelInv
  <1> USE <1>f DEF ChannelInv, SelectPrepare, Goto, chanVars
  <1>0. TypeOK'
    BY DEF TypeOK
  <1>1. CallInv' /\ ParkedInv' /\ NoneStranded'
    <2>1. \A c \in Chans : Len(q'[c]) <= Len(q[c]) /\ Len(q'[c]) \in Nat
      BY DEF TypeOK
    <2>2. /\ pc[s] \notin {"recv", "blocked"} /\ pc'[s] \notin {"recv", "blocked"}
         /\ \A a \in Actors : a # s => pc'[a] = pc[a]
      BY DEF TypeOK
    <2>3. UNCHANGED <<recv_fibers, cond, closed, chan>>
      OBVIOUS
    <2> QED BY <2>1, <2>2, <2>3, ReceiversKept
  <1>2. SelectInv'
    BY DEF SelectInv, TypeOK, Quiet
  <1>3. SelectSleepsSafely'
    BY DEF SelectSleepsSafely, TypeOK
  <1>4. ArmedWhileSelecting'
    <2> SUFFICES ASSUME NEW r \in Selectors, NEW c \in Chans
                 PROVE  ArmedWhileSelecting!(r, c)'
      BY DEF ArmedWhileSelecting
    <2>1. Armings(r, c)' = Armings(r, c)
      BY DEF Armings
    <2>2. CASE r # s
      <3>1. pc'[r] = pc[r] /\ pass'[r] = pass[r]
        BY <2>2, CaseFacts DEF TypeOK
      <3> QED BY <3>1, <2>1 DEF ArmedWhileSelecting
    <2>3. CASE r = s
      <3>1. pc'[s] = "arm" /\ idx'[s] - 1 = 0 /\ pc[s] = "prepare"
        BY DEF TypeOK, SelectInv
      <3>2. Armings(s, c) = 0
        BY <3>1 DEF ArmedWhileSelecting
      <3>3. CasesUpTo(0, c) = 0
        BY CasesUpToFacts
      <3> QED BY <2>1, <2>3, <3>1, <3>2, <3>3
    <2> QED BY <2>2, <2>3
  <1> QED BY <1>0, <1>1, <1>2, <1>3, <1>4

\* Arming appends the waiter once per case.
LEMMA ArmStep ==
    ASSUME ChannelInv, NEW s \in Selectors, chan_select_arm(s)
    PROVE  ChannelInv'
  <1> DEFINE c == Cases[idx[s]]
  <1>f. s \in Actors /\ idx[s] \in 1 .. Len(Cases) /\ c \in Chans /\ Len(Cases) \in Nat \ {0}
    BY CaseFacts DEF ChannelInv
  <1>w. /\ select_waiters \in [Chans -> Seq(Selectors)]
        /\ select_waiters' = [select_waiters EXCEPT ![c] = Append(select_waiters[c], s)]
    BY <1>f DEF ChannelInv, TypeOK, chan_select_arm
  <1>u. /\ UNCHANGED <<q, closed, recv_fibers, cond, sent, fired, pass, which, chan, got>>
        /\ pc[s] = "arm" /\ Step(s, "poll")
    BY DEF chan_select_arm
  <1>p. /\ idx'[s] = IF idx[s] = Len(Cases) THEN 1 ELSE idx[s] + 1
        /\ pc'[s] = IF idx[s] = Len(Cases) THEN "poll" ELSE "arm"
        /\ \A r \in Selectors : r # s => r \in Actors /\ idx'[r] = idx[r] /\ pc'[r] = pc[r]
        /\ \A a \in Actors : a # s => pc'[a] = pc[a]
    BY <1>f, <1>u, CaseFacts DEF ChannelInv, TypeOK, Step, Goto
  <1> HIDE DEF c
  <1> USE DEF ChannelInv
  <1>0. TypeOK'
    <2>1. select_waiters' \in [Chans -> Seq(Selectors)]
      BY <1>f, <1>w
    <2>2. idx' \in [Selectors -> 1 .. Len(Cases)]
      BY <1>f, <1>u DEF TypeOK, Step
    <2>3. pc' \in [Actors -> {"idle", "recv", "blocked", "poll", "take", "prepare", "arm", "wait", "disarm"}]
      BY <1>f, <1>u DEF TypeOK, Step, Goto
    <2> QED BY <2>1, <2>2, <2>3, <1>u DEF TypeOK
  <1>1. CallInv' /\ ParkedInv' /\ NoneStranded'
    <2>1. \A d \in Chans : Len(q[d]) \in Nat
      BY DEF TypeOK
    <2> QED BY <2>1, <1>u, <1>p, ReceiversKept
  <1>2. SelectInv'
    <2> SUFFICES ASSUME NEW r \in Selectors
                 PROVE  SelectInv!(r)'
      BY DEF SelectInv
    <2>1. CASE r # s
      BY <2>1, <1>p, <1>u DEF SelectInv, Quiet
    <2>2. CASE r = s
      <3>1. which'[s] = 0 /\ pass'[s] = "armed"
        BY <1>u DEF SelectInv
      <3>2. pc'[s] = "poll" => 1 .. idx'[s] - 1 = {}
        BY <1>p
      <3> QED BY <2>2, <3>1, <3>2, <1>p
    <2> QED BY <2>1, <2>2
  <1>3. SelectSleepsSafely'
    BY <1>p, <1>u DEF SelectSleepsSafely
  <1>4. ArmedWhileSelecting'
    <2> SUFFICES ASSUME NEW r \in Selectors, NEW d \in Chans
                 PROVE  ArmedWhileSelecting!(r, d)'
      BY DEF ArmedWhileSelecting
    <2>1. Armings(r, d)' = Armings(r, d) + (IF r = s /\ d = c THEN 1 ELSE 0) /\ Armings(r, d) \in Nat
      <3>0. Armings(r, d) \in Nat
        BY ArmingsFacts
      <3>1. CASE d # c
        <4>1. select_waiters'[d] = select_waiters[d]
          BY <3>1, <1>w, <1>f
        <4> QED BY <3>0, <3>1, <4>1 DEF Armings
      <3>2. CASE d = c
        <4>1. select_waiters'[d] = Append(select_waiters[d], s) /\ select_waiters[d] \in Seq(Selectors)
          BY <3>2, <1>w, <1>f
        <4>2. Cardinality(Places(select_waiters'[d], r)) = Cardinality(Places(select_waiters[d], r)) + (IF r = s THEN 1 ELSE 0)
          BY <4>1, PlacesAppend
        <4> QED BY <3>0, <3>2, <4>2 DEF Armings, Places
      <3> QED BY <3>1, <3>2
    <2>2. CASE r # s
      BY <2>1, <2>2, <1>p, <1>u DEF ArmedWhileSelecting
    <2>3. CASE r = s
      <3>1. Armings(s, d) = CasesUpTo(idx[s] - 1, d)
        BY <1>u DEF ArmedWhileSelecting
      <3>2. /\ CasesUpTo(idx[s], d) = CasesUpTo(idx[s] - 1, d) + (IF c = d THEN 1 ELSE 0)
        BY <1>f, CasesUpToFacts DEF c
      <3>3. Armings(s, d)' = CasesUpTo(idx[s], d)
        BY <2>1, <2>3, <3>1, <3>2
      <3>4. CASE idx[s] = Len(Cases)
        BY <3>3, <3>4, <2>3, <1>p, <1>u DEF SelectInv
      <3>5. CASE idx[s] # Len(Cases)
        <4>1. idx'[s] - 1 = idx[s] /\ pc'[s] = "arm"
          BY <3>5, <1>p, <1>f
        <4> QED BY <3>3, <4>1, <2>3
      <3> QED BY <3>4, <3>5
    <2> QED BY <2>2, <2>3
  <1> QED BY <1>0, <1>1, <1>2, <1>3, <1>4

\* select_waiter_wait keeps the invariant: it goes on only once it was fired.
LEMMA SelectWaitStep ==
    ASSUME ChannelInv, NEW s \in Selectors, select_waiter_wait(s)
    PROVE  ChannelInv'
  <1>f. s \in Actors
    BY CaseFacts DEF ChannelInv
  <1> USE <1>f DEF ChannelInv, select_waiter_wait, Goto, chanVars, selVars
  <1>p. \A r \in Selectors : r # s => pc'[r] = pc[r]
    BY CaseFacts DEF TypeOK
  <1>0. TypeOK'
    BY DEF TypeOK
  <1>1. CallInv' /\ ParkedInv' /\ NoneStranded'
    <2>1. \A c \in Chans : Len(q'[c]) <= Len(q[c]) /\ Len(q'[c]) \in Nat
      BY DEF TypeOK
    <2>2. /\ pc[s] \notin {"recv", "blocked"} /\ pc'[s] \notin {"recv", "blocked"}
         /\ \A a \in Actors : a # s => pc'[a] = pc[a]
      BY DEF TypeOK
    <2>3. UNCHANGED <<recv_fibers, cond, closed, chan>>
      OBVIOUS
    <2> QED BY <2>1, <2>2, <2>3, ReceiversKept
  <1>2. SelectInv'
    BY DEF SelectInv, TypeOK, Quiet
  <1>3. SelectSleepsSafely'
    BY DEF SelectSleepsSafely, TypeOK
  <1>4. ArmedWhileSelecting'
    <2> SUFFICES ASSUME NEW r \in Selectors, NEW c \in Chans
                 PROVE  ArmedWhileSelecting!(r, c)'
      BY DEF ArmedWhileSelecting
    <2>1. Armings(r, c)' = Armings(r, c)
      BY DEF Armings
    <2>2. CASE r # s
      BY <2>1, <2>2, <1>p DEF ArmedWhileSelecting
    <2>3. CASE r = s
      <3>1. pc'[s] = "disarm" /\ idx'[s] - 1 = 0 /\ pc[s] = "wait" /\ pass[s] = "armed"
        BY DEF TypeOK, SelectInv
      <3>2. Armings(s, c) = CasesUpTo(Len(Cases), c)
        BY <3>1 DEF ArmedWhileSelecting
      <3>3. CasesUpTo(0, c) = 0 /\ CasesUpTo(Len(Cases), c) \in Nat
        BY CasesUpToFacts, CaseFacts
      <3> QED BY <2>1, <2>3, <3>1, <3>2, <3>3
    <2> QED BY <2>2, <2>3
  <1> QED BY <1>0, <1>1, <1>2, <1>3, <1>4

\* Disarming takes the waiter out once per case, so that none is left behind.
LEMMA DisarmStep ==
    ASSUME ChannelInv, NEW s \in Selectors, chan_select_disarm(s)
    PROVE  ChannelInv'
  <1> DEFINE c == Cases[idx[s]]
             l == IF which[s] # 0 THEN "idle" ELSE "prepare"
  <1>f. s \in Actors /\ idx[s] \in 1 .. Len(Cases) /\ c \in Chans /\ Len(Cases) \in Nat \ {0}
    BY CaseFacts DEF ChannelInv
  <1>w. /\ select_waiters \in [Chans -> Seq(Selectors)]
        /\ select_waiters' = [select_waiters EXCEPT ![c] = RemoveFirst(select_waiters[c], s)]
    BY <1>f DEF ChannelInv, TypeOK, chan_select_disarm
  <1>u. /\ UNCHANGED <<q, closed, recv_fibers, cond, sent, fired, pass, which, chan, got>>
        /\ pc[s] = "disarm" /\ Step(s, l)
    BY DEF chan_select_disarm
  <1>p. /\ idx'[s] = IF idx[s] = Len(Cases) THEN 1 ELSE idx[s] + 1
        /\ pc'[s] = IF idx[s] = Len(Cases) THEN l ELSE "disarm"
        /\ \A r \in Selectors : r # s => r \in Actors /\ idx'[r] = idx[r] /\ pc'[r] = pc[r]
        /\ \A a \in Actors : a # s => pc'[a] = pc[a]
    BY <1>f, <1>u, CaseFacts DEF ChannelInv, TypeOK, Step, Goto
  <1> HIDE DEF c
  <1> USE DEF ChannelInv
  <1>n. \A d \in Chans : /\ CasesUpTo(idx[s], d) = CasesUpTo(idx[s] - 1, d) + (IF c = d THEN 1 ELSE 0)
                         /\ CasesUpTo(idx[s] - 1, d) \in Nat /\ CasesUpTo(idx[s], d) \in Nat
                         /\ CasesUpTo(Len(Cases), d) \in Nat
                         /\ CasesUpTo(idx[s], d) <= CasesUpTo(Len(Cases), d)
    BY <1>f, CasesUpToFacts DEF c
  <1>a. \A d \in Chans : Armings(s, d) = CasesUpTo(Len(Cases), d) - CasesUpTo(idx[s] - 1, d)
    BY <1>u DEF ArmedWhileSelecting
  <1>m. s \in ToSet(select_waiters[c])
    <2>1. Armings(s, c) # 0
      BY <1>f, <1>n, <1>a
    <2> QED BY <2>1, <1>f, ArmingsFacts
  <1>r. RemoveFirst(select_waiters[c], s) \in Seq(Selectors)
    BY <1>f, <1>w, <1>m, PlacesRemove
  <1>0. TypeOK'
    <2>1. select_waiters' \in [Chans -> Seq(Selectors)]
      BY <1>f, <1>w, <1>r
    <2>2. idx' \in [Selectors -> 1 .. Len(Cases)]
      BY <1>f, <1>u DEF TypeOK, Step
    <2>3. pc' \in [Actors -> {"idle", "recv", "blocked", "poll", "take", "prepare", "arm", "wait", "disarm"}]
      BY <1>f, <1>u DEF TypeOK, Step, Goto
    <2> QED BY <2>1, <2>2, <2>3, <1>u DEF TypeOK
  <1>1. CallInv' /\ ParkedInv' /\ NoneStranded'
    <2>1. \A d \in Chans : Len(q[d]) \in Nat
      BY DEF TypeOK
    <2> QED BY <2>1, <1>u, <1>p, ReceiversKept
  <1>2. SelectInv'
    <2> SUFFICES ASSUME NEW r \in Selectors
                 PROVE  SelectInv!(r)'
      BY DEF SelectInv
    <2>1. CASE r # s
      BY <2>1, <1>p, <1>u DEF SelectInv, Quiet
    <2>2. CASE r = s
      BY <2>2, <1>p, <1>u DEF SelectInv
    <2> QED BY <2>1, <2>2
  <1>3. SelectSleepsSafely'
    BY <1>p, <1>u DEF SelectSleepsSafely
  <1>4. ArmedWhileSelecting'
    <2> SUFFICES ASSUME NEW r \in Selectors, NEW d \in Chans
                 PROVE  ArmedWhileSelecting!(r, d)'
      BY DEF ArmedWhileSelecting
    <2>1. Armings(r, d)' = Armings(r, d) - (IF r = s /\ d = c THEN 1 ELSE 0) /\ Armings(r, d) \in Nat
      <3>0. Armings(r, d) \in Nat
        BY ArmingsFacts
      <3>1. CASE d # c
        <4>1. select_waiters'[d] = select_waiters[d]
          BY <3>1, <1>w, <1>f
        <4> QED BY <3>0, <3>1, <4>1 DEF Armings
      <3>2. CASE d = c
        <4>1. select_waiters'[d] = RemoveFirst(select_waiters[d], s) /\ select_waiters[d] \in Seq(Selectors)
          BY <3>2, <1>w, <1>f
        <4>2. Cardinality(Places(select_waiters'[d], r)) = Cardinality(Places(select_waiters[d], r)) - (IF r = s THEN 1 ELSE 0)
          BY <4>1, <3>2, <1>m, PlacesRemove
        <4> QED BY <3>0, <3>2, <4>2 DEF Armings, Places
      <3> QED BY <3>1, <3>2
    <2>2. CASE r # s
      BY <2>1, <2>2, <1>p, <1>u DEF ArmedWhileSelecting
    <2>3. CASE r = s
      <3>3. Armings(s, d)' = CasesUpTo(Len(Cases), d) - CasesUpTo(idx[s], d)
        BY <2>1, <2>3, <1>a, <1>n
      <3>4. CASE idx[s] = Len(Cases)
        <4>1. Armings(s, d)' = 0
          BY <3>3, <3>4, <1>n
        <4> QED BY <3>4, <4>1, <2>3, <1>p
      <3>5. CASE idx[s] # Len(Cases)
        <4>1. idx'[s] - 1 = idx[s] /\ pc'[s] = "disarm"
          BY <3>5, <1>p, <1>f
        <4> QED BY <3>3, <4>1, <2>3
      <3> QED BY <3>4, <3>5
    <2> QED BY <2>2, <2>3
  <1> QED BY <1>0, <1>1, <1>2, <1>3, <1>4

-----------------------------------------------------------------------------
(* The invariant holds initially and every step keeps it.                  *)

\* chan_new establishes the invariant.
LEMMA ChannelInvInit == Init => ChannelInv
  <1> SUFFICES ASSUME Init PROVE ChannelInv
    OBVIOUS
  <1>0. Len(Cases) \in Nat \ {0} /\ MaxSends \in Nat /\ Selectors \subseteq Actors
    BY ChannelAssumption
  <1>1. TypeOK
    <2>1. /\ \A S : <<>> \in Seq(S)
          /\ 1 \in 1 .. Len(Cases) /\ 0 \in 0 .. Len(Cases) /\ 0 \in 0 .. MaxSends
      BY <1>0
    <2> QED BY <2>1 DEF Init, TypeOK
  <1>2. CallInv
    BY ChannelAssumption DEF Init, CallInv
  <1>3. ParkedInv
    <2> SUFFICES ASSUME NEW c \in Chans PROVE ParkedInv!(c)
      BY DEF ParkedInv
    <2>1. recv_fibers[c] = <<>> /\ cond[c] = {}
      BY DEF Init
    <2>2. IsInjective(<<>>)
      BY DEF IsInjective
    <2>3. ToSet(<<>>) = {}
      BY DEF ToSet
    <2> QED BY <2>1, <2>2, <2>3
  <1>4. NoneStranded
    BY DEF Init, NoneStranded
  <1>5. SelectInv /\ SelectSleepsSafely
    BY <1>0 DEF Init, SelectInv, SelectSleepsSafely
  <1>6. ArmedWhileSelecting
    <2> SUFFICES ASSUME NEW s \in Selectors, NEW c \in Chans PROVE ArmedWhileSelecting!(s, c)
      BY DEF ArmedWhileSelecting
    <2>1. pc[s] = "idle" /\ select_waiters[c] = <<>>
      BY <1>0 DEF Init
    <2>2. {i \in DOMAIN select_waiters[c] : select_waiters[c][i] = s} = {}
      BY <2>1
    <2>3. Armings(s, c) = 0
      BY <2>2, FS_EmptySet DEF Armings
    <2> QED BY <2>1, <2>3
  <1> QED BY <1>1, <1>2, <1>3, <1>4, <1>5, <1>6 DEF ChannelInv

\* Every operation of every actor keeps the invariant.
LEMMA ChannelInvStep == ChannelInv /\ [Next]_vars => ChannelInv'
  <1> SUFFICES ASSUME ChannelInv, [Next]_vars PROVE ChannelInv'
    OBVIOUS
  <1>1. CASE UNCHANGED vars
    <2> USE <1>1 DEF vars, chanVars, selVars
    <2>1. TypeOK'
      BY DEF ChannelInv, TypeOK
    <2>2. CallInv' /\ ParkedInv'
      BY DEF ChannelInv, CallInv, ParkedInv
    <2>3. NoneStranded'
      BY DEF ChannelInv, NoneStranded, Coming
    <2>4. SelectInv' /\ SelectSleepsSafely'
      BY DEF ChannelInv, SelectInv, Quiet, SelectSleepsSafely
    <2>5. \A s \in Selectors, c \in Chans : Armings(s, c)' = Armings(s, c)
      BY DEF Armings
    <2>6. ArmedWhileSelecting'
      BY <2>5 DEF ChannelInv, ArmedWhileSelecting
    <2> QED BY <2>1, <2>2, <2>3, <2>4, <2>6 DEF ChannelInv
  <1>2. ASSUME NEW c \in Chans, chan_send(c) \/ chan_close(c) PROVE ChannelInv'
    BY <1>2, SendStep, CloseStep
  <1>3. ASSUME NEW a \in Actors, Recv(a) \/ SpuriousWake(a) PROVE ChannelInv'
    BY <1>3, RecvTakeStep, RecvNoneStep, RecvBlockStep, SpuriousWakeStep DEF Recv
  <1>4. ASSUME NEW a \in Actors, NEW c \in Chans, RecvCall(a, c) \/ chan_try_recv(a, c) PROVE ChannelInv'
    BY <1>4, RecvCallStep, TryRecvStep
  <1>5. ASSUME NEW s \in Selectors, Select(s) PROVE ChannelInv'
    BY <1>5, SelectPollStep, SelectTakeStep, SelectPrepareStep, ArmStep, SelectWaitStep, DisarmStep DEF Select
  <1>6. ASSUME NEW s \in Selectors, NEW default \in BOOLEAN, SelectCall(s, default) PROVE ChannelInv'
    BY <1>6, SelectCallStep
  <1> QED BY <1>1, <1>2, <1>3, <1>4, <1>5, <1>6 DEF Next

\* The inductive invariant holds in every state the channels reach.
THEOREM ChannelSafety == Spec => []ChannelInv
  BY ChannelInvInit, ChannelInvStep, PTL DEF Spec

-----------------------------------------------------------------------------
\* A blocked receiver is never left behind with an item it could have, and
\* nobody stays blocked on a closed channel: chan_send's one fiber and one
\* thread are enough, whoever else takes what was sent.
THEOREM NoneStrandedHolds == Spec => []NoneStranded
  <1>1. ChannelInv => NoneStranded
    BY DEF ChannelInv
  <1> QED BY <1>1, ChannelSafety, PTL

\* A select hears of every ready case while it sleeps, for any list of cases,
\* the same channel named several times included, and is armed nowhere once it
\* has returned.
THEOREM SelectHearsHolds == Spec => []SelectHears
  <1>1. ChannelInv => SelectHears
    BY DEF ChannelInv, SelectHears
  <1> QED BY <1>1, ChannelSafety, PTL

-----------------------------------------------------------------------------
(* Refinement: each step is one of ChannelSpec's, or changes nothing there. *)

\* What the queues and the receives do, without ChannelSpec's fairness.
QueuesAsPromised == Promise!Init /\ [][Promise!Next]_Promise!vars

\* Leaving an actor's channel as it is.
LEMMA WantKept ==
    ASSUME TypeOK, NEW a \in Actors, chan[a] = NoChan
    PROVE  chan = [chan EXCEPT ![a] = NoChan]
  BY DEF TypeOK

\* Every step of the channel code is a step of ChannelSpec or leaves its state alone.
LEMMA StepsRefine ==
    ASSUME ChannelInv, [Next]_vars
    PROVE  Promise!Next \/ UNCHANGED Promise!vars
  <1> USE DEF ChannelInv, chanVars, selVars
  <1>1. CASE UNCHANGED vars
    BY <1>1 DEF vars, Promise!vars
  <1>2. ASSUME NEW c \in Chans, chan_send(c) PROVE Promise!Next
    <2>1. Promise!Send(c)
      BY <1>2 DEF chan_send, Promise!Send
    <2> QED BY <2>1 DEF Promise!Next
  <1>3. ASSUME NEW c \in Chans, chan_close(c) PROVE Promise!Next
    <2>1. Promise!Close(c)
      BY <1>3 DEF chan_close, Promise!Close
    <2> QED BY <2>1 DEF Promise!Next
  <1>4. ASSUME NEW a \in Actors, RecvTake(a) PROVE Promise!Next
    <2>1. chan[a] \in Chans
      BY <1>4 DEF RecvTake, CallInv, TypeOK
    <2>2. Promise!Take(a, chan[a])
      BY <1>4 DEF RecvTake, PopFor, Promise!Take
    <2> QED BY <2>1, <2>2 DEF Promise!Next
  <1>5. ASSUME NEW a \in Actors, RecvNone(a) PROVE Promise!Next
    <2>1. chan[a] \in Chans
      BY <1>5 DEF RecvNone, CallInv, TypeOK
    <2>2. Promise!End(a, chan[a])
      BY <1>5 DEF RecvNone, Promise!End
    <2> QED BY <2>1, <2>2 DEF Promise!Next
  <1>6. ASSUME NEW a \in Actors, RecvBlock(a) \/ SpuriousWake(a) PROVE UNCHANGED Promise!vars
    BY <1>6 DEF RecvBlock, SpuriousWake, Promise!vars
  <1>7. ASSUME NEW a \in Actors, NEW c \in Chans, RecvCall(a, c) PROVE Promise!Next
    <2>1. chan[a] = NoChan
      BY <1>7 DEF RecvCall, CallInv
    <2>2. Promise!Call(a, c)
      BY <1>7, <2>1 DEF RecvCall, Promise!Call
    <2> QED BY <2>2 DEF Promise!Next
  <1>8. ASSUME NEW a \in Actors, NEW c \in Chans, chan[a] = NoChan,
               (q[c] # <<>> /\ PopFor(a, c)) \/ (q[c] = <<>> /\ TryNone(a)),
               UNCHANGED <<closed, sent, chan>>
        PROVE  Promise!Next
    <2>1. CASE q[c] # <<>> /\ PopFor(a, c)
      <3>1. chan' = [chan EXCEPT ![a] = NoChan]
        BY <1>8, WantKept
      <3>2. Promise!Take(a, c)
        BY <1>8, <2>1, <3>1 DEF PopFor, Promise!Take
      <3> QED BY <3>2 DEF Promise!Next
    <2>2. CASE q[c] = <<>> /\ TryNone(a)
      <3>1. Promise!TryNone(a, c)
        BY <1>8, <2>2 DEF TryNone, Promise!TryNone
      <3> QED BY <3>1 DEF Promise!Next
    <2> QED BY <1>8, <2>1, <2>2
  <1>9. ASSUME NEW a \in Actors, NEW c \in Chans, chan_try_recv(a, c) PROVE Promise!Next
    <2>1. chan[a] = NoChan
      BY <1>9 DEF chan_try_recv, CallInv
    <2> QED BY <1>8, <1>9, <2>1 DEF chan_try_recv
  <1>10. ASSUME NEW s \in Selectors, SelectTake(s) PROVE Promise!Next
    <2>1. s \in Actors /\ Cases[idx[s]] \in Chans
      BY CaseFacts
    <2>2. chan[s] = NoChan
      BY <1>10, <2>1 DEF SelectTake, CallInv
    <2> QED BY <1>8, <1>10, <2>1, <2>2 DEF SelectTake
  <1>11. ASSUME NEW s \in Selectors,
                \/ SelectPoll(s) \/ SelectPrepare(s) \/ chan_select_arm(s)
                \/ select_waiter_wait(s) \/ chan_select_disarm(s)
                \/ \E default \in BOOLEAN : SelectCall(s, default)
         PROVE  UNCHANGED Promise!vars
    BY <1>11 DEF SelectPoll, SelectPrepare, chan_select_arm, select_waiter_wait, chan_select_disarm,
                 SelectCall, Promise!vars
  <1> QED BY <1>1, <1>2, <1>3, <1>4, <1>5, <1>6, <1>7, <1>9, <1>10, <1>11 DEF Next, Recv, Select

\* channel.nu's locks, parked fibers, condition variables and select waiters
\* implement FIFO queues: the safety part of ServesReceivers.
THEOREM QueuesRefine == Spec => QueuesAsPromised
  <1>1. Init => Promise!Init
    BY DEF Init, Promise!Init
  <1> QED BY <1>1, StepsRefine, ChannelSafety, PTL DEF Spec, QueuesAsPromised
=============================================================================
