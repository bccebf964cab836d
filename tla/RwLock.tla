-------------------------------- MODULE RwLock --------------------------------
(***************************************************************************)
(* stdlib/runtime_ffi.c section 19b, the lock behind RwLocked: over an OS  *)
(* lock (one where readers may pass a waiting writer, one where they may   *)
(* not, or WASI's mutex) each holder, a thread or a fiber, keeps a table   *)
(* of the locks it reads, with a count, so that a second read guard is     *)
(* counted instead of taken and asking for one's own lock is a panic.      *)
(***************************************************************************)
EXTENDS Integers, Sequences, FiniteSets, SequencesExt, FiniteSetTheorems, TLAPS

CONSTANTS
    Holders, Locks,
    Inline,       \* entries a holder's record has room for (NURL_RW_INLINE)
    MaxGuards     \* bound: guards a holder has at once

VARIABLES
    platform,   \* the OS lock: "readersFirst", "writersFirst" or "mutex"
    os,         \* os[l]: who has it, as the OS sees it: [readers, writer]
    writer,     \* NurlRw.writer
    held,       \* held[h]: NurlRwHolder's entries [l, c], in order
    cap,        \* cap[h]: capacity of `more`
    guards,     \* guards[h]: the program's guards, newest last: [l, kind]
    pc          \* pc[h]: "run", "unwind" or a wait in the OS: [wait, l]

vars == <<platform, os, writer, held, cap, guards, pc>>
Nobody == "nobody"
Running == [at |-> "run", l |-> "none"]

Init ==
    /\ platform \in {"readersFirst", "writersFirst", "mutex"}
    /\ os = [l \in Locks |-> [readers |-> {}, writer |-> Nobody]]
    /\ writer = [l \in Locks |-> Nobody]
    /\ held = [h \in Holders |-> <<>>] /\ cap = [h \in Holders |-> 0]
    /\ guards = [h \in Holders |-> <<>>] /\ pc = [h \in Holders |-> Running]

\* nurl__rw_find: the entry of l, 0 when h does not read it.
Find(h, l) == IF \E k \in DOMAIN held[h] : held[h][k].l = l
              THEN CHOOSE k \in DOMAIN held[h] : held[h][k].l = l ELSE 0

\* A table that grows one entry late.
LateAdded(h, l) == /\ held' = [held EXCEPT ![h] = Append(@, [l |-> l, c |-> 1])]
                   /\ cap' = [cap EXCEPT ![h] = IF Len(held[h]) <= Inline + @ THEN @ ELSE 2 * @ + Inline]
\* nurl__rw_add, nurl__rw_push: a new entry; `more` doubles when it is full.
Added(h, l) == /\ held' = [held EXCEPT ![h] = Append(@, [l |-> l, c |-> 1])]
               /\ cap' = [cap EXCEPT ![h] = IF Len(held[h]) < Inline + @ THEN @
                                            ELSE IF @ = 0 THEN Inline ELSE 2 * @]
CountedAgain(h, k) == held' = [held EXCEPT ![h][k].c = @ + 1] /\ UNCHANGED cap
\* nurl__rw_drop that lets the newest entry go, whichever was asked.
DroppedLast(s, k) == Front(s)
\* nurl__rw_drop: the last entry takes the place of the dropped one.
Dropped(s, k) == Front([s EXCEPT ![k] = Last(s)])

Guard(h, l, kind) == guards' = [guards EXCEPT ![h] = Append(@, [l |-> l, kind |-> kind])]
Calls(h) == pc[h].at = "run" /\ Len(guards[h]) < MaxGuards
\* nurl__rwlock_failed: a panic, whose unwind drops every guard.
Panics(h) == pc' = [pc EXCEPT ![h] = [Running EXCEPT !.at = "unwind"]]
             /\ UNCHANGED <<os, writer, held, cap, guards>>

\* The OS lock: whether a request of h can be granted now.
WriterWaits(l) == \E g \in Holders : pc[g] = [at |-> "writing", l |-> l]
CanRead(h, l) ==
    /\ os[l].writer = Nobody
    /\ platform = "mutex" => os[l].readers = {}
    /\ platform = "writersFirst" => ~WriterWaits(l)
CanWrite(l) == os[l].writer = Nobody /\ os[l].readers = {}

-----------------------------------------------------------------------------
\* A read guard taken from the OS whatever its holder already reads.
FreshRdLock(h, l) ==
    /\ Calls(h) /\ UNCHANGED platform
    /\ IF writer[l] = h THEN Panics(h)
       ELSE pc' = [pc EXCEPT ![h] = [at |-> "reading", l |-> l]]
            /\ UNCHANGED <<os, writer, held, cap, guards>>
\* nurl_rwlock_rdlock
RdLock(h, l) ==
    /\ Calls(h) /\ UNCHANGED platform
    /\ IF Find(h, l) > 0
       THEN CountedAgain(h, Find(h, l)) /\ Guard(h, l, "r") /\ UNCHANGED <<os, writer, pc>>
       ELSE IF writer[l] = h THEN Panics(h)
       ELSE pc' = [pc EXCEPT ![h] = [at |-> "reading", l |-> l]]
            /\ UNCHANGED <<os, writer, held, cap, guards>>
RdGranted(h) ==
    /\ pc[h].at = "reading" /\ UNCHANGED <<platform, writer>>
    /\ LET l == pc[h].l IN
         /\ CanRead(h, l) /\ os' = [os EXCEPT ![l].readers = @ \cup {h}]
         /\ Added(h, l) /\ Guard(h, l, "r")
    /\ pc' = [pc EXCEPT ![h] = Running]

\* nurl_rwlock_wrlock
WrLock(h, l) ==
    /\ Calls(h) /\ UNCHANGED platform
    /\ IF writer[l] = h \/ Find(h, l) > 0 THEN Panics(h)
       ELSE pc' = [pc EXCEPT ![h] = [at |-> "writing", l |-> l]]
            /\ UNCHANGED <<os, writer, held, cap, guards>>
WrGranted(h) ==
    /\ pc[h].at = "writing" /\ UNCHANGED <<platform, held, cap>>
    /\ LET l == pc[h].l IN
         /\ CanWrite(l) /\ os' = [os EXCEPT ![l].writer = h]
         /\ writer' = [writer EXCEPT ![l] = h] /\ Guard(h, l, "w")
    /\ pc' = [pc EXCEPT ![h] = Running]
\* The OS call fails (EAGAIN, EDEADLK): a panic without the lock.
OsFails(h) == pc[h].at \in {"reading", "writing"} /\ Panics(h) /\ UNCHANGED platform

\* nurl_rwlock_tryrdlock, nurl_rwlock_trywrlock: taken, or nothing changes.
TryRdLock(h, l) ==
    /\ Calls(h) /\ UNCHANGED <<platform, writer, pc>>
    /\ IF Find(h, l) > 0 THEN CountedAgain(h, Find(h, l)) /\ UNCHANGED os
       ELSE /\ writer[l] # h /\ CanRead(h, l)
            /\ os' = [os EXCEPT ![l].readers = @ \cup {h}] /\ Added(h, l)
    /\ Guard(h, l, "r")
TryWrLock(h, l) ==
    /\ Calls(h) /\ UNCHANGED <<platform, held, cap, pc>>
    /\ writer[l] # h /\ Find(h, l) = 0 /\ CanWrite(l)
    /\ os' = [os EXCEPT ![l].writer = h] /\ writer' = [writer EXCEPT ![l] = h]
    /\ Guard(h, l, "w")

\* nurl_rwlock_rdunlock: the count, and at 0 the entry and the OS lock.
RdUnlock(h, l) ==
    LET k == Find(h, l) IN
    IF held[h][k].c > 1
    THEN held' = [held EXCEPT ![h][k].c = @ - 1] /\ UNCHANGED <<os, cap>>
    ELSE /\ held' = [held EXCEPT ![h] = Dropped(@, k)]
         /\ cap' = [cap EXCEPT ![h] = IF Len(held[h]) - 1 <= Inline THEN 0 ELSE @]
         /\ os' = [os EXCEPT ![l].readers = @ \ {h}]
\* nurl_rwlock_wrunlock
WrUnlock(h, l) ==
    /\ writer' = [writer EXCEPT ![l] = Nobody] /\ os' = [os EXCEPT ![l].writer = Nobody]
    /\ UNCHANGED <<held, cap>>

\* A guard is dropped: any of them by the program, the newest by an unwind.
DropGuard(h) ==
    /\ pc[h].at \in {"run", "unwind"} /\ UNCHANGED platform
    /\ \E k \in DOMAIN guards[h] :
         /\ pc[h].at = "unwind" => k = Len(guards[h])
         /\ LET g == guards[h][k] IN
              IF g.kind = "w" THEN WrUnlock(h, g.l) ELSE RdUnlock(h, g.l) /\ UNCHANGED writer
         /\ guards' = [guards EXCEPT ![h] = RemoveAt(@, k)]
    /\ UNCHANGED pc
Unwound(h) ==
    /\ pc[h].at = "unwind" /\ guards[h] = <<>> /\ pc' = [pc EXCEPT ![h] = Running]
    /\ UNCHANGED <<platform, os, writer, held, cap, guards>>

Next == \E h \in Holders :
    \/ RdGranted(h) \/ WrGranted(h) \/ OsFails(h) \/ DropGuard(h) \/ Unwound(h)
    \/ \E l \in Locks : RdLock(h, l) \/ WrLock(h, l) \/ TryRdLock(h, l) \/ TryWrLock(h, l)

Spec == Init /\ [][Next]_vars

-----------------------------------------------------------------------------
\* No holder waits in the OS for a lock it has itself, for reading or for
\* writing: behind a waiting writer that would never end.
NeverWaitsForItself ==
    \A h \in Holders : pc[h].at \in {"reading", "writing"} =>
        \A k \in DOMAIN guards[h] : guards[h][k].l # pc[h].l

\* The tables agree with the guards and with the OS: one entry per lock
\* read, counting its guards, and the OS lock held exactly while there is one.
HeldExact ==
    \A l \in Locks, h \in Holders :
        LET mine(kind) == Cardinality({k \in DOMAIN guards[h] : guards[h][k] = [l |-> l, kind |-> kind]})
            k == Find(h, l)
        IN  /\ (IF k = 0 THEN 0 ELSE held[h][k].c) = mine("r")
            /\ (h \in os[l].readers) <=> mine("r") > 0
            /\ (os[l].writer = h) <=> mine("w") > 0

\* A holder's entries are within its record, which keeps no spare block.
WithinRecord ==
    \A h \in Holders : /\ Len(held[h]) <= Inline + cap[h]
                       /\ cap[h] > 0 => Len(held[h]) > Inline

\* A writer has the lock alone, and over WASI's mutex so does a reader.
WriteExcludes ==
    \A l \in Locks :
        /\ os[l].writer # Nobody => os[l].readers = {}
        /\ platform = "mutex" => \A g, h \in os[l].readers : g = h

-----------------------------------------------------------------------------
(* Proofs, for every set of holders and locks and any number of guards.    *)

HeldEntries == [l : Locks, c : Nat \ {0}]
GuardKinds == [l : Locks, kind : {"r", "w"}]
Calling == [at : {"run", "unwind"}, l : {"none"}]
Waiting == [at : {"reading", "writing"}, l : Locks]

\* What every variable holds.
TypeOK ==
    /\ platform \in {"readersFirst", "writersFirst", "mutex"}
    /\ os \in [Locks -> [readers : SUBSET Holders, writer : Holders \cup {Nobody}]]
    /\ writer \in [Locks -> Holders \cup {Nobody}]
    /\ held \in [Holders -> Seq(HeldEntries)]
    /\ cap \in [Holders -> Nat]
    /\ guards \in [Holders -> Seq(GuardKinds)]
    /\ pc \in [Holders -> Calling \cup Waiting]

\* A table has one entry per lock.
Distinct(s) == \A i, j \in DOMAIN s : s[i].l = s[j].l => i = j
\* The entry of l in a table, 0 when there is none, and what it counts.
Place(s, l) == IF \E k \in DOMAIN s : s[k].l = l THEN CHOOSE k \in DOMAIN s : s[k].l = l ELSE 0
Count(s, l) == IF Place(s, l) = 0 THEN 0 ELSE s[Place(s, l)].c
\* How many of the guards in g are of this kind on l.
GuardPlaces(g, l, kind) == {k \in DOMAIN g : g[k] = [l |-> l, kind |-> kind]}
Mine(g, l, kind) == Cardinality(GuardPlaces(g, l, kind))

\* What one holder's table, its guards and the OS say of one lock.
Agree(h, l) ==
    /\ Count(held[h], l) = Mine(guards[h], l, "r")
    /\ (h \in os[l].readers) <=> Mine(guards[h], l, "r") > 0
    /\ (os[l].writer = h) <=> Mine(guards[h], l, "w") > 0
    /\ Mine(guards[h], l, "w") <= 1

\* A holder waits only for a lock on which it has no guard.
WaitsClean(h) ==
    pc[h] \in Waiting => \A kind \in {"r", "w"} : Mine(guards[h], pc[h].l, kind) = 0

\* The inductive invariant.
RwInv ==
    /\ TypeOK
    /\ \A h \in Holders : Distinct(held[h])
    /\ \A h \in Holders, l \in Locks : Agree(h, l)
    /\ \A h \in Holders : WaitsClean(h)
    /\ \A l \in Locks : writer[l] = os[l].writer
    /\ WriteExcludes
    /\ WithinRecord

\* Find, nurl__rw_find, is Place in the holder's own table.
LEMMA FindIsPlace == \A h \in Holders, l \in Locks : Find(h, l) = Place(held[h], l)
  BY DEF Find, Place

\* The search finds the entry of l, or tells that there is none.
LEMMA PlaceFacts ==
    ASSUME NEW s \in Seq(HeldEntries), NEW l
    PROVE  /\ Place(s, l) \in Nat /\ Count(s, l) \in Nat
           /\ Place(s, l) = 0 <=> \A k \in DOMAIN s : s[k].l # l
           /\ Place(s, l) > 0 => /\ Place(s, l) \in DOMAIN s /\ s[Place(s, l)].l = l
                                 /\ Count(s, l) = s[Place(s, l)].c /\ Count(s, l) > 0
           /\ Place(s, l) = 0 => Count(s, l) = 0
  <1>1. CASE \E k \in DOMAIN s : s[k].l = l
    <2> DEFINE p == CHOOSE k \in DOMAIN s : s[k].l = l
    <2>1. Place(s, l) = p
      BY <1>1 DEF Place
    <2>2. p \in DOMAIN s /\ s[p].l = l
      BY <1>1
    <2>3. p \in 1 .. Len(s) /\ s[p] \in HeldEntries
      BY <2>2
    <2>4. s[p].c \in Nat /\ s[p].c > 0
      BY <2>3 DEF HeldEntries
    <2> HIDE DEF p
    <2> QED BY <2>1, <2>2, <2>3, <2>4 DEF Count
  <1>2. CASE ~ \E k \in DOMAIN s : s[k].l = l
    BY <1>2 DEF Place, Count
  <1> QED BY <1>1, <1>2

\* In a table with one entry per lock the search finds the one there is.
LEMMA CountIs ==
    ASSUME NEW s \in Seq(HeldEntries), Distinct(s), NEW k \in DOMAIN s
    PROVE  Place(s, s[k].l) = k /\ Count(s, s[k].l) = s[k].c
  <1>1. Place(s, s[k].l) > 0
    BY PlaceFacts
  <1>2. Place(s, s[k].l) \in DOMAIN s /\ s[Place(s, s[k].l)].l = s[k].l
    BY <1>1, PlaceFacts
  <1>3. Place(s, s[k].l) = k
    BY <1>2 DEF Distinct
  <1> QED BY <1>1, <1>3, PlaceFacts

\* A lock that has no entry counts 0.
LEMMA CountNone ==
    ASSUME NEW s \in Seq(HeldEntries), NEW l, \A k \in DOMAIN s : s[k].l # l
    PROVE  Count(s, l) = 0
  BY PlaceFacts

\* A new entry, nurl__rw_add, counts its lock once and leaves the others.
LEMMA AppendCount ==
    ASSUME NEW s \in Seq(HeldEntries), Distinct(s), NEW l \in Locks, Place(s, l) = 0
    PROVE  LET t == Append(s, [l |-> l, c |-> 1])
           IN  /\ t \in Seq(HeldEntries) /\ Distinct(t) /\ Len(t) = Len(s) + 1
               /\ \A m : Count(t, m) = IF m = l THEN 1 ELSE Count(s, m)
  <1> DEFINE t == Append(s, [l |-> l, c |-> 1])
  <1>0. [l |-> l, c |-> 1] \in HeldEntries
    BY DEF HeldEntries
  <1>1. /\ t \in Seq(HeldEntries) /\ Len(t) = Len(s) + 1 /\ DOMAIN t = 1 .. Len(s) + 1
        /\ t[Len(s) + 1] = [l |-> l, c |-> 1] /\ \A i \in DOMAIN s : t[i] = s[i]
    BY <1>0
  <1>2. \A k \in DOMAIN s : s[k].l # l
    BY PlaceFacts
  <1>d. DOMAIN s = 1 .. Len(s) /\ Len(s) \in Nat
    OBVIOUS
  <1> HIDE DEF t
  <1>3. Distinct(t)
    BY <1>1, <1>2, <1>d DEF Distinct
  <1>4. ASSUME NEW m PROVE Count(t, m) = IF m = l THEN 1 ELSE Count(s, m)
    <2>1. CASE m = l
      BY <2>1, <1>1, <1>3, <1>d, CountIs
    <2>2. CASE m # l /\ \E k \in DOMAIN s : s[k].l = m
      <3>1. PICK k \in DOMAIN s : s[k].l = m
        BY <2>2
      <3>2. k \in DOMAIN t /\ t[k] = s[k]
        BY <1>1, <1>d
      <3>3. Count(t, t[k].l) = t[k].c /\ Count(s, s[k].l) = s[k].c
        BY <3>2, <1>1, <1>3, CountIs
      <3> QED BY <3>1, <3>2, <3>3, <2>2
    <2>3. CASE m # l /\ \A k \in DOMAIN s : s[k].l # m
      <3>1. \A k \in DOMAIN t : t[k].l # m
        BY <2>3, <1>1, <1>d
      <3> QED BY <3>1, <2>3, <1>1, CountNone
    <2> QED BY <2>1, <2>2, <2>3
  <1> QED BY <1>1, <1>3, <1>4 DEF t

\* Counting an entry up or down changes the count of its lock alone.
LEMMA BumpCount ==
    ASSUME NEW s \in Seq(HeldEntries), Distinct(s), NEW k \in DOMAIN s,
           NEW t \in Seq(HeldEntries), Len(t) = Len(s),
           \A i \in DOMAIN s : t[i].l = s[i].l /\ (i # k => t[i].c = s[i].c)
    PROVE  Distinct(t) /\ \A m : Count(t, m) = IF m = s[k].l THEN t[k].c ELSE Count(s, m)
  <1>1. DOMAIN t = DOMAIN s
    OBVIOUS
  <1>3. Distinct(t)
    BY <1>1 DEF Distinct
  <1>4. ASSUME NEW m PROVE Count(t, m) = IF m = s[k].l THEN t[k].c ELSE Count(s, m)
    <2>1. CASE m = s[k].l
      <3>1. Count(t, t[k].l) = t[k].c
        BY <1>1, <1>3, CountIs
      <3> QED BY <2>1, <3>1
    <2>2. CASE m # s[k].l /\ \E i \in DOMAIN s : s[i].l = m
      <3>1. PICK i \in DOMAIN s : s[i].l = m
        BY <2>2
      <3>2. i \in DOMAIN t /\ t[i].l = s[i].l /\ t[i].c = s[i].c
        BY <1>1, <2>2, <3>1
      <3>3. Count(t, t[i].l) = t[i].c /\ Count(s, s[i].l) = s[i].c
        BY <3>2, <1>1, <1>3, CountIs
      <3> QED BY <3>1, <3>2, <3>3, <2>2
    <2>3. CASE m # s[k].l /\ \A i \in DOMAIN s : s[i].l # m
      <3>1. \A i \in DOMAIN t : t[i].l # m
        BY <2>3, <1>1
      <3>2. Count(t, m) = 0 /\ Count(s, m) = 0
        BY <3>1, <2>3, CountNone
      <3> QED BY <3>2, <2>3
    <2> QED BY <2>1, <2>2, <2>3
  <1> QED BY <1>3, <1>4

\* nurl__rw_drop takes one entry out and moves the last one, keeping the others.
LEMMA DropCount ==
    ASSUME NEW s \in Seq(HeldEntries), Distinct(s), NEW k \in DOMAIN s
    PROVE  LET t == Dropped(s, k)
           IN  /\ t \in Seq(HeldEntries) /\ Distinct(t) /\ Len(t) = Len(s) - 1
               /\ \A m : Count(t, m) = IF m = s[k].l THEN 0 ELSE Count(s, m)
  <1> DEFINE n == Len(s)
             u == [s EXCEPT ![k] = s[n]]
             t == SubSeq(u, 1, n - 1)
  <1>d. DOMAIN s = 1 .. n /\ n \in Nat /\ n > 0 /\ k \in 1 .. n
    OBVIOUS
  <1>0. s[n] \in HeldEntries
    BY <1>d
  <1>1. u \in Seq(HeldEntries) /\ Len(u) = n /\ u[k] = s[n] /\ \A i \in 1 .. n : i # k => u[i] = s[i]
    BY <1>0, <1>d
  <1>t. Dropped(s, k) = t
    BY <1>1 DEF Dropped, Front, Last
  <1> HIDE DEF u
  <1>2. /\ t \in Seq(HeldEntries) /\ Len(t) = n - 1 /\ DOMAIN t = 1 .. n - 1
        /\ \A i \in 1 .. n - 1 : t[i] = u[i]
    BY <1>1, <1>d
  <1> HIDE DEF t
  <1>3. \A i \in DOMAIN t : t[i] = IF i = k THEN s[n] ELSE s[i]
    BY <1>1, <1>2, <1>d
  <1>4. Distinct(t)
    BY <1>2, <1>3, <1>d DEF Distinct
  <1>5. \A i \in DOMAIN t : t[i].l # s[k].l
    BY <1>2, <1>3, <1>d DEF Distinct
  <1>6. ASSUME NEW m PROVE Count(t, m) = IF m = s[k].l THEN 0 ELSE Count(s, m)
    <2>1. CASE m = s[k].l
      BY <2>1, <1>2, <1>5, CountNone
    <2>2. CASE m # s[k].l /\ \E i \in DOMAIN s : s[i].l = m
      <3>1. PICK i \in DOMAIN s : s[i].l = m
        BY <2>2
      <3>2. PICK j \in DOMAIN t : t[j] = s[i]
        <4>1. CASE i < n
          BY <4>1, <1>2, <1>3, <1>d, <2>2, <3>1
        <4>2. CASE i = n
          <5>1. k \in DOMAIN t /\ t[k] = s[n]
            BY <4>2, <1>2, <1>3, <1>d, <2>2, <3>1
          <5> QED BY <4>2, <5>1
        <4> QED BY <4>1, <4>2, <1>d
      <3>3. Count(t, t[j].l) = t[j].c /\ Count(s, s[i].l) = s[i].c
        BY <1>2, <1>4, CountIs
      <3> QED BY <3>1, <3>2, <3>3, <2>2
    <2>3. CASE m # s[k].l /\ \A i \in DOMAIN s : s[i].l # m
      <3>1. \A i \in DOMAIN t : t[i].l # m
        BY <2>3, <1>2, <1>3, <1>d
      <3> QED BY <3>1, <2>3, <1>2, CountNone
    <2> QED BY <2>1, <2>2, <2>3
  <1> QED BY <1>2, <1>4, <1>6, <1>t

\* A holder has finitely many guards of a kind on a lock.
LEMMA MineNat ==
    ASSUME NEW g \in Seq(GuardKinds), NEW l, NEW kind
    PROVE  /\ IsFiniteSet(GuardPlaces(g, l, kind)) /\ Mine(g, l, kind) \in Nat
           /\ Mine(g, l, kind) = 0 <=> \A k \in DOMAIN g : g[k] # [l |-> l, kind |-> kind]
  <1>1. GuardPlaces(g, l, kind) \in SUBSET (1 .. Len(g))
    BY DEF GuardPlaces
  <1>2. IsFiniteSet(GuardPlaces(g, l, kind))
    BY <1>1, FS_Interval, FS_Subset
  <1>3. Mine(g, l, kind) \in Nat /\ (Mine(g, l, kind) = 0 <=> GuardPlaces(g, l, kind) = {})
    BY <1>2, FS_CardinalityType, FS_EmptySet DEF Mine
  <1> QED BY <1>2, <1>3 DEF GuardPlaces

\* Taking a guard adds one of its kind on its lock.
LEMMA MineAppend ==
    ASSUME NEW g \in Seq(GuardKinds), NEW e \in GuardKinds, NEW l, NEW kind
    PROVE  /\ Append(g, e) \in Seq(GuardKinds)
           /\ Mine(Append(g, e), l, kind)
                = IF e.l = l /\ e.kind = kind THEN Mine(g, l, kind) + 1 ELSE Mine(g, l, kind)
  <1>0. e = [l |-> l, kind |-> kind] <=> e.l = l /\ e.kind = kind
    BY DEF GuardKinds
  <1>1. IsFiniteSet(GuardPlaces(g, l, kind)) /\ Mine(g, l, kind) \in Nat
    BY MineNat
  <1>2. CASE e = [l |-> l, kind |-> kind]
    <2>1. GuardPlaces(Append(g, e), l, kind) = GuardPlaces(g, l, kind) \cup {Len(g) + 1}
      BY <1>2 DEF GuardPlaces
    <2>2. Len(g) + 1 \notin GuardPlaces(g, l, kind)
      BY DEF GuardPlaces
    <2>3. Cardinality(GuardPlaces(g, l, kind) \cup {Len(g) + 1}) = Cardinality(GuardPlaces(g, l, kind)) + 1
      BY <2>2, <1>1, FS_AddElement
    <2> QED BY <2>1, <2>3, <1>0, <1>2 DEF Mine
  <1>3. CASE e # [l |-> l, kind |-> kind]
    <2>1. GuardPlaces(Append(g, e), l, kind) = GuardPlaces(g, l, kind)
      BY <1>3 DEF GuardPlaces
    <2> QED BY <2>1, <1>0, <1>3 DEF Mine
  <1> QED BY <1>2, <1>3

\* What a sequence is after one place is taken out of it.
LEMMA RemoveAtFacts ==
    ASSUME NEW S, NEW s \in Seq(S), NEW k \in 1 .. Len(s)
    PROVE  /\ RemoveAt(s, k) \in Seq(S)
           /\ Len(RemoveAt(s, k)) = Len(s) - 1
           /\ \A i \in 1 .. k - 1 : RemoveAt(s, k)[i] = s[i]
           /\ \A i \in k .. Len(s) - 1 : RemoveAt(s, k)[i] = s[i + 1]
  <1> DEFINE u == SubSeq(s, 1, k - 1)
             v == SubSeq(s, k + 1, Len(s))
  <1>1. u \in Seq(S) /\ Len(u) = k - 1 /\ \A i \in 1 .. k - 1 : u[i] = s[i]
    OBVIOUS
  <1>2. v \in Seq(S) /\ Len(v) = Len(s) - k /\ \A i \in 1 .. Len(s) - k : v[i] = s[k + i]
    OBVIOUS
  <1>3. RemoveAt(s, k) = u \o v
    BY DEF RemoveAt
  <1> HIDE DEF u, v
  <1>4. \A i \in k .. Len(s) - 1 : i - (k - 1) \in 1 .. Len(s) - k /\ (u \o v)[i] = v[i - (k - 1)]
    BY <1>1, <1>2
  <1>5. \A i \in k .. Len(s) - 1 : v[i - (k - 1)] = s[i + 1]
    BY <1>2
  <1>t. u \in Seq(S) /\ v \in Seq(S)
    BY <1>1, <1>2
  <1>6. u \o v \in Seq(S)
    BY <1>t
  <1>7. Len(u \o v) = Len(u) + Len(v)
    BY <1>t
  <1>8. Len(u \o v) = Len(s) - 1
    BY <1>1, <1>2, <1>7
  <1>9. \A i \in 1 .. k - 1 : (u \o v)[i] = s[i]
    BY <1>1, <1>2
  <1>10. \A i \in k .. Len(s) - 1 : (u \o v)[i] = s[i + 1]
    BY <1>4, <1>5
  <1> QED BY <1>3, <1>6, <1>8, <1>9, <1>10

\* Dropping a guard takes out one of its kind on its lock.
LEMMA MineRemove ==
    ASSUME NEW g \in Seq(GuardKinds), NEW k \in DOMAIN g, NEW l, NEW kind
    PROVE  /\ RemoveAt(g, k) \in Seq(GuardKinds)
           /\ Mine(RemoveAt(g, k), l, kind)
                = IF g[k].l = l /\ g[k].kind = kind THEN Mine(g, l, kind) - 1 ELSE Mine(g, l, kind)
  <1> DEFINE r == RemoveAt(g, k)
             P == GuardPlaces(g, l, kind)
             Q == GuardPlaces(r, l, kind)
             f == [i \in Q |-> IF i < k THEN i ELSE i + 1]
  <1>0. k \in 1 .. Len(g) /\ DOMAIN g = 1 .. Len(g)
    OBVIOUS
  <1>1. /\ r \in Seq(GuardKinds)
        /\ Len(r) = Len(g) - 1
        /\ \A i \in 1 .. k - 1 : r[i] = g[i]
        /\ \A i \in k .. Len(g) - 1 : r[i] = g[i + 1]
    BY <1>0, RemoveAtFacts
  <1> HIDE DEF r
  <1>2. IsFiniteSet(P) /\ IsFiniteSet(Q) /\ Mine(g, l, kind) \in Nat
    BY <1>1, MineNat
  <1>3. Q \subseteq 1 .. Len(g) - 1 /\ P \subseteq 1 .. Len(g)
    BY <1>1 DEF GuardPlaces
  <1>4. \A i \in Q : f[i] \in P \ {k}
    BY <1>0, <1>1 DEF GuardPlaces
  <1>5. \A i, j \in Q : f[i] = f[j] => i = j
    BY <1>3
  <1>6. ASSUME NEW j \in P \ {k} PROVE \E i \in Q : f[i] = j
    <2>1. CASE j < k
      <3>1. j \in Q
        BY <2>1, <1>1, <1>3 DEF GuardPlaces
      <3> QED BY <3>1, <2>1
    <2>2. CASE j > k
      <3>1. j - 1 \in Q
        BY <2>2, <1>1, <1>3 DEF GuardPlaces
      <3> QED BY <3>1, <2>2, <1>3
    <2> QED BY <2>1, <2>2, <1>0, <1>3
  <1>7. f \in Bijection(Q, P \ {k})
    BY <1>4, <1>5, <1>6 DEF Bijection, Injection, Surjection, IsInjective
  <1>8. Cardinality(Q) = Cardinality(P \ {k})
    BY <1>7, <1>2, FS_Bijection DEF ExistsBijection
  <1>9. Cardinality(P \ {k}) = IF k \in P THEN Cardinality(P) - 1 ELSE Cardinality(P)
    BY <1>2, FS_RemoveElement
  <1>k. g[k] \in GuardKinds
    BY <1>0
  <1>10. k \in P <=> g[k].l = l /\ g[k].kind = kind
    BY <1>k DEF GuardPlaces, GuardKinds
  <1> QED BY <1>1, <1>8, <1>9, <1>10 DEF r, Mine

-----------------------------------------------------------------------------
\* What the proofs need of the constants: a record has room for an entry, and
\* the mark of a lock without a writer is no holder.
Sensible == Inline \in Nat \ {0} /\ Nobody \notin Holders

\* In its first state every lock is free and no holder has a guard.
LEMMA RwInit == ASSUME Sensible, Init PROVE RwInv
  <1> USE DEF Init, Sensible
  <1>0. Running \in Calling /\ Running \notin Waiting
    BY DEF Running, Calling, Waiting
  <1>1. TypeOK
    BY <1>0 DEF TypeOK
  <1>e. <<>> \in Seq(GuardKinds) /\ <<>> \in Seq(HeldEntries) /\ DOMAIN <<>> = {}
    OBVIOUS
  <1>2. ASSUME NEW l, NEW kind PROVE Mine(<<>>, l, kind) = 0
    BY <1>e, MineNat
  <1>3. ASSUME NEW l PROVE Count(<<>>, l) = 0
    BY <1>e, CountNone
  <1>4. \A h \in Holders, l \in Locks : Agree(h, l)
    BY <1>2, <1>3 DEF Agree
  <1>5. \A h \in Holders : WaitsClean(h) /\ Distinct(held[h])
    BY <1>0 DEF WaitsClean, Distinct
  <1>6. WriteExcludes /\ WithinRecord
    BY DEF WriteExcludes, WithinRecord
  <1> QED BY <1>1, <1>4, <1>5, <1>6 DEF RwInv

\* A step of h about l touches nothing of the other holders and locks.
OnlyOf(h, l) ==
    /\ UNCHANGED platform
    /\ held' = [held EXCEPT ![h] = held'[h]] /\ cap' = [cap EXCEPT ![h] = cap'[h]]
    /\ guards' = [guards EXCEPT ![h] = guards'[h]] /\ pc' = [pc EXCEPT ![h] = pc'[h]]
    /\ os' = [os EXCEPT ![l] = os'[l]] /\ writer' = [writer EXCEPT ![l] = writer'[l]]

\* What it leaves is of the right type, and for another lock h's table and
\* guards count what they counted.
LeavesOthers(h, l) ==
    /\ held'[h] \in Seq(HeldEntries) /\ cap'[h] \in Nat
    /\ guards'[h] \in Seq(GuardKinds) /\ pc'[h] \in Calling \cup Waiting
    /\ os'[l] \in [readers : SUBSET Holders, writer : Holders \cup {Nobody}]
    /\ os'[l].readers \ {h} = os[l].readers \ {h}
    /\ \A g \in Holders \ {h} : os'[l].writer = g <=> os[l].writer = g
    /\ \A m \in Locks \ {l} :
         /\ Count(held'[h], m) = Count(held[h], m)
         /\ \A kind \in {"r", "w"} : Mine(guards'[h], m, kind) = Mine(guards[h], m, kind)

\* The invariant after a step of h about l, from what it says of these two.
LEMMA RwLocal ==
    ASSUME RwInv, NEW h \in Holders, NEW l \in Locks, OnlyOf(h, l), LeavesOthers(h, l),
           Distinct(held'[h]), Agree(h, l)', WaitsClean(h)',
           writer'[l] = os'[l].writer,
           os'[l].writer # Nobody => os'[l].readers = {},
           platform = "mutex" => \A g, k \in os'[l].readers : g = k,
           Len(held'[h]) <= Inline + cap'[h], cap'[h] > 0 => Len(held'[h]) > Inline
    PROVE  RwInv'
  <1>t. TypeOK
    BY DEF RwInv
  <1>w. writer'[l] \in Holders \cup {Nobody}
    BY DEF LeavesOthers
  <1>1. TypeOK'
    BY <1>t, <1>w DEF TypeOK, OnlyOf, LeavesOthers
  <1>2. /\ \A g \in Holders \ {h} : /\ held'[g] = held[g] /\ cap'[g] = cap[g]
                                    /\ guards'[g] = guards[g] /\ pc'[g] = pc[g]
        /\ \A m \in Locks \ {l} : os'[m] = os[m] /\ writer'[m] = writer[m]
        /\ platform' = platform
    BY <1>t DEF TypeOK, OnlyOf
  <1>3. \A g \in Holders : Distinct(held[g])'
    BY <1>2 DEF RwInv
  <1>4. ASSUME NEW g \in Holders, NEW m \in Locks PROVE Agree(g, m)'
    <2>0. Agree(g, m)
      BY DEF RwInv
    <2>1. CASE g = h /\ m = l
      BY <2>1
    <2>2. CASE g = h /\ m # l
      <3>1. /\ os'[m] = os[m] /\ Count(held'[h], m) = Count(held[h], m)
            /\ Mine(guards'[h], m, "r") = Mine(guards[h], m, "r")
            /\ Mine(guards'[h], m, "w") = Mine(guards[h], m, "w")
        BY <2>2, <1>2 DEF LeavesOthers
      <3> QED BY <3>1, <2>2, <2>0 DEF Agree
    <2>3. CASE g # h /\ m = l
      <3>1. g \in os'[l].readers <=> g \in os[l].readers
        BY <2>3 DEF LeavesOthers
      <3>2. os'[l].writer = g <=> os[l].writer = g
        BY <2>3 DEF LeavesOthers
      <3> QED BY <2>3, <2>0, <3>1, <3>2, <1>2 DEF Agree
    <2>4. CASE g # h /\ m # l
      BY <2>4, <2>0, <1>2 DEF Agree
    <2> QED BY <2>1, <2>2, <2>3, <2>4
  <1>5. ASSUME NEW g \in Holders PROVE WaitsClean(g)'
    BY <1>2 DEF RwInv, WaitsClean
  <1>6. \A m \in Locks : writer'[m] = os'[m].writer
    BY <1>2 DEF RwInv
  <1>7. WriteExcludes'
    BY <1>2 DEF RwInv, WriteExcludes
  <1>8. WithinRecord'
    BY <1>2 DEF RwInv, WithinRecord
  <1> QED BY <1>1, <1>3, <1>4, <1>5, <1>6, <1>7, <1>8 DEF RwInv

\* A step that moves only a holder's control keeps the invariant, if a holder
\* that begins to wait has no guard on what it waits for.
LEMMA RwMoves ==
    ASSUME RwInv, NEW h \in Holders, NEW p \in Calling \cup Waiting, pc' = [pc EXCEPT ![h] = p],
           p \in Waiting => \A kind \in {"r", "w"} : Mine(guards[h], p.l, kind) = 0,
           UNCHANGED <<platform, os, writer, held, cap, guards>>
    PROVE  RwInv'
  <1>t. TypeOK
    BY DEF RwInv
  <1>1. TypeOK'
    BY <1>t DEF TypeOK
  <1>2. pc'[h] = p /\ \A g \in Holders \ {h} : pc'[g] = pc[g]
    BY <1>t DEF TypeOK
  <1>3. \A g \in Holders : WaitsClean(g)'
    BY <1>2 DEF RwInv, WaitsClean
  <1>4. \A g \in Holders, l \in Locks : Agree(g, l)'
    BY DEF RwInv, Agree
  <1> QED BY <1>1, <1>3, <1>4 DEF RwInv, WriteExcludes, WithinRecord

\* What the invariant says of one holder and one lock.
LEMMA RwHere ==
    ASSUME RwInv, NEW h \in Holders, NEW l \in Locks
    PROVE  /\ held[h] \in Seq(HeldEntries) /\ Distinct(held[h]) /\ cap[h] \in Nat
           /\ guards[h] \in Seq(GuardKinds) /\ pc[h] \in Calling \cup Waiting
           /\ os[l] \in [readers : SUBSET Holders, writer : Holders \cup {Nobody}]
           /\ Mine(guards[h], l, "r") \in Nat /\ Mine(guards[h], l, "w") \in Nat
           /\ Agree(h, l) /\ WaitsClean(h) /\ writer[l] = os[l].writer
           /\ Find(h, l) = Place(held[h], l) /\ Find(h, l) \in Nat
           /\ Find(h, l) = 0 <=> Mine(guards[h], l, "r") = 0
           /\ Find(h, l) > 0 => /\ Find(h, l) \in DOMAIN held[h] /\ held[h][Find(h, l)].l = l
                                /\ held[h][Find(h, l)].c = Mine(guards[h], l, "r")
           /\ Len(held[h]) \in Nat /\ Len(held[h]) <= Inline + cap[h]
           /\ cap[h] > 0 => Len(held[h]) > Inline
  <1>1. /\ held[h] \in Seq(HeldEntries) /\ Distinct(held[h]) /\ cap[h] \in Nat
        /\ guards[h] \in Seq(GuardKinds) /\ pc[h] \in Calling \cup Waiting
        /\ os[l] \in [readers : SUBSET Holders, writer : Holders \cup {Nobody}]
        /\ Agree(h, l) /\ WaitsClean(h) /\ writer[l] = os[l].writer
    BY DEF RwInv, TypeOK
  <1>2. Mine(guards[h], l, "r") \in Nat /\ Mine(guards[h], l, "w") \in Nat
    BY <1>1, MineNat
  <1>3. Find(h, l) = Place(held[h], l)
    BY FindIsPlace
  <1>4. /\ Place(held[h], l) \in Nat /\ Count(held[h], l) \in Nat
        /\ Place(held[h], l) > 0 => /\ Place(held[h], l) \in DOMAIN held[h]
                                    /\ held[h][Place(held[h], l)].l = l
                                    /\ Count(held[h], l) = held[h][Place(held[h], l)].c
                                    /\ Count(held[h], l) > 0
        /\ Place(held[h], l) = 0 => Count(held[h], l) = 0
    BY <1>1, PlaceFacts
  <1>5. Count(held[h], l) = Mine(guards[h], l, "r")
    BY <1>1 DEF Agree
  <1>6. /\ Len(held[h]) \in Nat /\ Len(held[h]) <= Inline + cap[h]
        /\ cap[h] > 0 => Len(held[h]) > Inline
    BY <1>1 DEF RwInv, WithinRecord
  <1> QED BY <1>1, <1>2, <1>3, <1>4, <1>5, <1>6

\* A read guard granted by the OS: a new entry, one guard, one reader more.
LEMMA RwTakesRead ==
    ASSUME Sensible, RwInv, NEW h \in Holders, NEW l \in Locks,
           Find(h, l) = 0, CanRead(h, l), UNCHANGED <<platform, writer>>,
           os' = [os EXCEPT ![l].readers = @ \cup {h}], Added(h, l), Guard(h, l, "r"),
           pc' = [pc EXCEPT ![h] = pc'[h]], pc'[h] \in Calling
    PROVE  RwInv'
  <1> DEFINE e == [l |-> l, kind |-> "r"]
  <1>t. TypeOK
    BY DEF RwInv
  <1>0. /\ held[h] \in Seq(HeldEntries) /\ Distinct(held[h]) /\ cap[h] \in Nat
        /\ guards[h] \in Seq(GuardKinds)
        /\ os[l] \in [readers : SUBSET Holders, writer : Holders \cup {Nobody}]
        /\ Mine(guards[h], l, "r") = 0 /\ Mine(guards[h], l, "w") \in Nat
        /\ Agree(h, l) /\ writer[l] = os[l].writer /\ Place(held[h], l) = 0
        /\ Len(held[h]) \in Nat /\ Len(held[h]) <= Inline + cap[h]
        /\ cap[h] > 0 => Len(held[h]) > Inline
    BY RwHere
  <1>1. /\ held'[h] = Append(held[h], [l |-> l, c |-> 1])
        /\ cap'[h] = IF Len(held[h]) < Inline + cap[h] THEN cap[h]
                     ELSE IF cap[h] = 0 THEN Inline ELSE 2 * cap[h]
        /\ guards'[h] = Append(guards[h], e)
        /\ os'[l].readers = os[l].readers \cup {h} /\ os'[l].writer = os[l].writer
        /\ os'[l] \in [readers : SUBSET Holders, writer : Holders \cup {Nobody}]
    BY <1>t, <1>0 DEF TypeOK, Added, Guard
  <1>2. OnlyOf(h, l)
    BY <1>t DEF TypeOK, Added, Guard, OnlyOf
  <1>3. /\ held'[h] \in Seq(HeldEntries) /\ Distinct(held'[h]) /\ Len(held'[h]) = Len(held[h]) + 1
        /\ \A m : Count(held'[h], m) = IF m = l THEN 1 ELSE Count(held[h], m)
    BY <1>0, <1>1, AppendCount
  <1>4. e \in GuardKinds
    BY DEF GuardKinds
  <1>5. /\ guards'[h] \in Seq(GuardKinds)
        /\ \A m, kind : Mine(guards'[h], m, kind)
              = IF e.l = m /\ e.kind = kind THEN Mine(guards[h], m, kind) + 1
                ELSE Mine(guards[h], m, kind)
    BY <1>0, <1>1, <1>4, MineAppend
  <1>6. Mine(guards'[h], l, "r") = 1 /\ Mine(guards'[h], l, "w") = Mine(guards[h], l, "w")
    BY <1>0, <1>5
  <1>7. ASSUME NEW m \in Locks \ {l}, NEW kind \in {"r", "w"}
        PROVE  Mine(guards'[h], m, kind) = Mine(guards[h], m, kind)
    BY <1>5
  <1>8. cap'[h] \in Nat /\ Len(held'[h]) <= Inline + cap'[h] /\ (cap'[h] > 0 => Len(held'[h]) > Inline)
    <2>1. /\ Inline \in Nat /\ Inline > 0 /\ cap[h] \in Nat
          /\ Len(held[h]) \in Nat /\ Len(held'[h]) = Len(held[h]) + 1
          /\ cap[h] > 0 => Len(held[h]) > Inline
      BY <1>0, <1>3 DEF Sensible
    <2>2. CASE Len(held[h]) < Inline + cap[h]
      BY <2>1, <2>2, <1>1
    <2>3. CASE Len(held[h]) = Inline + cap[h] /\ cap[h] = 0
      BY <2>1, <2>3, <1>1
    <2>4. CASE Len(held[h]) = Inline + cap[h] /\ cap[h] > 0
      <3>1. cap'[h] = 2 * cap[h]
        BY <2>1, <2>4, <1>1
      <3> QED BY <2>1, <2>4, <3>1
    <2>5. \/ Len(held[h]) < Inline + cap[h]
          \/ Len(held[h]) = Inline + cap[h] /\ (cap[h] = 0 \/ cap[h] > 0)
      <3>1. Len(held[h]) \in Nat /\ cap[h] \in Nat /\ Len(held[h]) <= Inline + cap[h]
        BY <1>0
      <3> QED BY <2>1, <3>1
    <2> QED BY <2>2, <2>3, <2>4, <2>5
  <1>9. LeavesOthers(h, l)
    BY <1>1, <1>3, <1>5, <1>7, <1>8 DEF LeavesOthers
  <1>10. Agree(h, l)'
    BY <1>0, <1>1, <1>3, <1>6 DEF Agree
  <1>11. WaitsClean(h)'
    BY DEF WaitsClean, Calling, Waiting
  <1>12. /\ os'[l].writer = Nobody /\ writer'[l] = os'[l].writer
         /\ platform = "mutex" => \A g, k \in os'[l].readers : g = k
    BY <1>0, <1>1 DEF CanRead
  <1> QED BY <1>2, <1>3, <1>8, <1>9, <1>10, <1>11, <1>12, RwLocal

\* A second read guard is counted, whatever the OS lock would say.
LEMMA RwReadsAgain ==
    ASSUME RwInv, NEW h \in Holders, NEW l \in Locks, Find(h, l) > 0, pc[h] \in Calling,
           CountedAgain(h, Find(h, l)), Guard(h, l, "r"), UNCHANGED <<platform, os, writer, pc>>
    PROVE  RwInv'
  <1> DEFINE e == [l |-> l, kind |-> "r"]
             k == Find(h, l)
             n == held[h][k].c + 1
  <1>t. TypeOK
    BY DEF RwInv
  <1>0. /\ held[h] \in Seq(HeldEntries) /\ Distinct(held[h]) /\ cap[h] \in Nat
        /\ guards[h] \in Seq(GuardKinds)
        /\ os[l] \in [readers : SUBSET Holders, writer : Holders \cup {Nobody}]
        /\ Mine(guards[h], l, "r") \in Nat /\ Mine(guards[h], l, "r") > 0
        /\ Mine(guards[h], l, "w") \in Nat /\ Agree(h, l) /\ writer[l] = os[l].writer
        /\ k \in DOMAIN held[h] /\ held[h][k].l = l /\ held[h][k].c = Mine(guards[h], l, "r")
        /\ Len(held[h]) \in Nat /\ Len(held[h]) <= Inline + cap[h]
        /\ cap[h] > 0 => Len(held[h]) > Inline
    BY RwHere
  <1>n. n \in Nat \ {0}
    BY <1>0
  <1>k. k \in 1 .. Len(held[h]) /\ held[h][k] \in HeldEntries
    BY <1>0
  <1> HIDE DEF k
  <1>1. held'[h] = [held[h] EXCEPT ![k].c = n] /\ guards'[h] = Append(guards[h], e)
    BY <1>t DEF TypeOK, CountedAgain, Guard, k
  <1>2. OnlyOf(h, l)
    BY <1>t DEF TypeOK, CountedAgain, Guard, OnlyOf
  <1> HIDE DEF n
  <1>3. /\ held'[h] \in Seq(HeldEntries) /\ Distinct(held'[h]) /\ Len(held'[h]) = Len(held[h])
        /\ \A m : Count(held'[h], m) = IF m = held[h][k].l THEN n ELSE Count(held[h], m)
    <2>1. /\ held'[h] \in Seq(HeldEntries) /\ Len(held'[h]) = Len(held[h])
          /\ \A i \in DOMAIN held[h] : /\ held'[h][i].l = held[h][i].l
                                       /\ held'[h][i].c = IF i = k THEN n ELSE held[h][i].c
      <3>1. [held[h][k] EXCEPT !.c = n] \in HeldEntries
        BY <1>n, <1>k DEF HeldEntries
      <3>2. held'[h] = [held[h] EXCEPT ![k] = [held[h][k] EXCEPT !.c = n]]
        BY <1>1
      <3>3. held'[h] \in Seq(HeldEntries) /\ Len(held'[h]) = Len(held[h])
        BY <3>1, <3>2, <1>0
      <3>4. held'[h][k].l = held[h][k].l /\ held'[h][k].c = n
        BY <3>2, <1>0, <1>k DEF HeldEntries
      <3>5. \A i \in DOMAIN held[h] : i # k => held'[h][i] = held[h][i]
        BY <3>2, <1>0
      <3> QED BY <3>3, <3>4, <3>5
    <2>2. /\ Distinct(held'[h])
          /\ \A m : Count(held'[h], m) = IF m = held[h][k].l THEN held'[h][k].c ELSE Count(held[h], m)
      BY <2>1, <1>0, BumpCount
    <2> QED BY <2>1, <2>2, <1>0
  <1>4. e \in GuardKinds
    BY DEF GuardKinds
  <1>5. /\ guards'[h] \in Seq(GuardKinds)
        /\ \A m, kind : Mine(guards'[h], m, kind)
              = IF e.l = m /\ e.kind = kind THEN Mine(guards[h], m, kind) + 1
                ELSE Mine(guards[h], m, kind)
    BY <1>0, <1>1, <1>4, MineAppend
  <1>6. /\ Mine(guards'[h], l, "r") = Mine(guards[h], l, "r") + 1
        /\ Mine(guards'[h], l, "w") = Mine(guards[h], l, "w")
    BY <1>0, <1>5
  <1>7. ASSUME NEW m \in Locks \ {l}, NEW kind \in {"r", "w"}
        PROVE  Mine(guards'[h], m, kind) = Mine(guards[h], m, kind)
    BY <1>5
  <1>8. cap' = cap /\ os' = os /\ pc' = pc /\ writer' = writer
    BY DEF CountedAgain
  <1>9. LeavesOthers(h, l)
    BY <1>0, <1>3, <1>5, <1>7, <1>8 DEF LeavesOthers
  <1>10. Agree(h, l)'
    BY <1>0, <1>3, <1>6, <1>8 DEF Agree, n
  <1>11. WaitsClean(h)'
    BY <1>8 DEF WaitsClean, Calling, Waiting
  <1>12. /\ os[l].writer # Nobody => os[l].readers = {}
         /\ platform = "mutex" => \A g, m \in os[l].readers : g = m
    BY DEF RwInv, WriteExcludes
  <1> QED BY <1>0, <1>2, <1>3, <1>8, <1>9, <1>10, <1>11, <1>12, RwLocal

\* A write guard granted by the OS: nobody reads or writes, h becomes writer.
LEMMA RwTakesWrite ==
    ASSUME Sensible, RwInv, NEW h \in Holders, NEW l \in Locks, CanWrite(l),
           UNCHANGED <<platform, held, cap>>, os' = [os EXCEPT ![l].writer = h],
           writer' = [writer EXCEPT ![l] = h], Guard(h, l, "w"),
           pc' = [pc EXCEPT ![h] = pc'[h]], pc'[h] \in Calling
    PROVE  RwInv'
  <1> DEFINE e == [l |-> l, kind |-> "w"]
  <1>t. TypeOK
    BY DEF RwInv
  <1>0. /\ held[h] \in Seq(HeldEntries) /\ Distinct(held[h]) /\ cap[h] \in Nat
        /\ guards[h] \in Seq(GuardKinds)
        /\ os[l] \in [readers : SUBSET Holders, writer : Holders \cup {Nobody}]
        /\ Mine(guards[h], l, "r") \in Nat /\ Mine(guards[h], l, "w") \in Nat
        /\ Agree(h, l)
        /\ Len(held[h]) \in Nat /\ Len(held[h]) <= Inline + cap[h]
        /\ cap[h] > 0 => Len(held[h]) > Inline
    BY RwHere
  <1>1. /\ guards'[h] = Append(guards[h], e) /\ held' = held /\ cap' = cap /\ writer'[l] = h
        /\ os'[l].readers = {} /\ os'[l].writer = h
        /\ os'[l] \in [readers : SUBSET Holders, writer : Holders \cup {Nobody}]
    BY <1>t, <1>0 DEF TypeOK, Guard, CanWrite
  <1>2. OnlyOf(h, l)
    BY <1>t DEF TypeOK, Guard, OnlyOf
  <1>3. Mine(guards[h], l, "w") = 0
    BY <1>0 DEF Agree, CanWrite, Sensible
  <1>4. e \in GuardKinds
    BY DEF GuardKinds
  <1>5. /\ guards'[h] \in Seq(GuardKinds)
        /\ \A m, kind : Mine(guards'[h], m, kind)
              = IF e.l = m /\ e.kind = kind THEN Mine(guards[h], m, kind) + 1
                ELSE Mine(guards[h], m, kind)
    BY <1>0, <1>1, <1>4, MineAppend
  <1>6. /\ Mine(guards'[h], l, "r") = Mine(guards[h], l, "r") /\ Mine(guards'[h], l, "w") = 1
    BY <1>0, <1>3, <1>5
  <1>7. ASSUME NEW m \in Locks \ {l}, NEW kind \in {"r", "w"}
        PROVE  Mine(guards'[h], m, kind) = Mine(guards[h], m, kind)
    BY <1>5
  <1>8. os[l].readers = {} /\ os[l].writer = Nobody
    BY DEF CanWrite
  <1>9. LeavesOthers(h, l)
    BY <1>0, <1>1, <1>5, <1>7, <1>8 DEF LeavesOthers, Sensible
  <1>10. Agree(h, l)'
    BY <1>0, <1>1, <1>6, <1>8 DEF Agree
  <1>11. WaitsClean(h)'
    BY DEF WaitsClean, Calling, Waiting
  <1> QED BY <1>0, <1>1, <1>2, <1>9, <1>10, <1>11, RwLocal

\* A write guard is dropped: the lock is free.
LEMMA RwDropsWrite ==
    ASSUME Sensible, RwInv, NEW h \in Holders, NEW l \in Locks, NEW k \in DOMAIN guards[h],
           guards[h][k].l = l, guards[h][k].kind = "w", WrUnlock(h, l),
           guards' = [guards EXCEPT ![h] = RemoveAt(@, k)],
           pc[h] \in Calling, UNCHANGED <<platform, pc>>
    PROVE  RwInv'
  <1>t. TypeOK
    BY DEF RwInv
  <1>g. guards[h] \in Seq(GuardKinds) /\ guards[h][k] \in GuardKinds
    BY <1>t DEF TypeOK
  <1>0. /\ held[h] \in Seq(HeldEntries) /\ Distinct(held[h]) /\ cap[h] \in Nat
        /\ os[l] \in [readers : SUBSET Holders, writer : Holders \cup {Nobody}]
        /\ Mine(guards[h], l, "r") \in Nat /\ Mine(guards[h], l, "w") \in Nat
        /\ Agree(h, l)
        /\ Len(held[h]) \in Nat /\ Len(held[h]) <= Inline + cap[h]
        /\ cap[h] > 0 => Len(held[h]) > Inline
    BY RwHere
  <1>k. guards[h][k] = [l |-> l, kind |-> "w"]
    BY <1>g DEF GuardKinds
  <1>m. Mine(guards[h], l, "w") # 0
    BY <1>g, <1>k, MineNat
  <1>1. /\ guards'[h] = RemoveAt(guards[h], k) /\ held' = held /\ cap' = cap
        /\ writer'[l] = Nobody /\ os'[l].writer = Nobody /\ os'[l].readers = os[l].readers
        /\ os'[l] \in [readers : SUBSET Holders, writer : Holders \cup {Nobody}]
    BY <1>t, <1>0, <1>g DEF TypeOK, WrUnlock
  <1>2. OnlyOf(h, l)
    BY <1>t, <1>g DEF TypeOK, WrUnlock, OnlyOf
  <1>5. /\ guards'[h] \in Seq(GuardKinds)
        /\ \A m, kind : Mine(guards'[h], m, kind)
              = IF guards[h][k].l = m /\ guards[h][k].kind = kind THEN Mine(guards[h], m, kind) - 1
                ELSE Mine(guards[h], m, kind)
    BY <1>g, <1>1, MineRemove
  <1>6. Mine(guards'[h], l, "r") = Mine(guards[h], l, "r") /\ Mine(guards'[h], l, "w") = 0
    BY <1>0, <1>m, <1>5 DEF Agree
  <1>7. ASSUME NEW m \in Locks \ {l}, NEW kind \in {"r", "w"}
        PROVE  Mine(guards'[h], m, kind) = Mine(guards[h], m, kind)
    BY <1>5
  <1>8. os[l].writer = h
    BY <1>0, <1>m DEF Agree
  <1>9. LeavesOthers(h, l)
    BY <1>0, <1>1, <1>5, <1>7, <1>8 DEF LeavesOthers, Sensible
  <1>10. Agree(h, l)'
    BY <1>0, <1>1, <1>6 DEF Agree, Sensible
  <1>11. WaitsClean(h)'
    BY DEF WaitsClean, Calling, Waiting
  <1>12. platform = "mutex" => \A g, m \in os[l].readers : g = m
    BY DEF RwInv, WriteExcludes
  <1> QED BY <1>0, <1>1, <1>2, <1>9, <1>10, <1>11, <1>12, RwLocal

\* A read guard is dropped: the entry counts one less, and with the last one
\* goes the entry, the OS lock and the block the record no longer needs.
LEMMA RwDropsRead ==
    ASSUME Sensible, RwInv, NEW h \in Holders, NEW l \in Locks, NEW k \in DOMAIN guards[h],
           guards[h][k].l = l, guards[h][k].kind = "r", RdUnlock(h, l),
           guards' = [guards EXCEPT ![h] = RemoveAt(@, k)],
           pc[h] \in Calling, UNCHANGED <<platform, writer, pc>>
    PROVE  RwInv'
  <1>t. TypeOK
    BY DEF RwInv
  <1>g. guards[h] \in Seq(GuardKinds) /\ guards[h][k] \in GuardKinds
    BY <1>t DEF TypeOK
  <1>k. guards[h][k] = [l |-> l, kind |-> "r"]
    BY <1>g DEF GuardKinds
  <1>m. Mine(guards[h], l, "r") # 0
    BY <1>g, <1>k, MineNat
  <1>f. Find(h, l) \in Nat
    BY RwHere
  <1>d. PICK j \in Nat : j = Find(h, l)
    BY <1>f
  <1>0. /\ held[h] \in Seq(HeldEntries) /\ Distinct(held[h]) /\ cap[h] \in Nat
        /\ os[l] \in [readers : SUBSET Holders, writer : Holders \cup {Nobody}]
        /\ Mine(guards[h], l, "r") \in Nat /\ Mine(guards[h], l, "w") \in Nat
        /\ Agree(h, l) /\ writer[l] = os[l].writer
        /\ j \in DOMAIN held[h] /\ held[h][j].l = l /\ held[h][j].c = Mine(guards[h], l, "r")
        /\ Len(held[h]) \in Nat /\ Len(held[h]) <= Inline + cap[h]
        /\ cap[h] > 0 => Len(held[h]) > Inline
    BY <1>d, <1>m, RwHere
  <1>j. j \in 1 .. Len(held[h]) /\ held[h][j] \in HeldEntries
    BY <1>0
  <1>1. guards'[h] = RemoveAt(guards[h], k)
    BY <1>t DEF TypeOK
  <1>5. /\ guards'[h] \in Seq(GuardKinds)
        /\ \A m, kind : Mine(guards'[h], m, kind)
              = IF guards[h][k].l = m /\ guards[h][k].kind = kind THEN Mine(guards[h], m, kind) - 1
                ELSE Mine(guards[h], m, kind)
    BY <1>g, <1>1, MineRemove
  <1>6. /\ Mine(guards'[h], l, "r") = Mine(guards[h], l, "r") - 1
        /\ Mine(guards'[h], l, "w") = Mine(guards[h], l, "w")
    BY <1>5
  <1>7. ASSUME NEW m \in Locks \ {l}, NEW kind \in {"r", "w"}
        PROVE  Mine(guards'[h], m, kind) = Mine(guards[h], m, kind)
    BY <1>5
  <1>8. WaitsClean(h)' /\ writer' = writer /\ platform' = platform /\ pc' = pc
    BY DEF WaitsClean, Calling, Waiting
  <1>9. /\ os[l].writer # Nobody => os[l].readers = {}
        /\ platform = "mutex" => \A g, m \in os[l].readers : g = m
    BY DEF RwInv, WriteExcludes
  <1>10. CASE held[h][j].c > 1
    <2>1. /\ held' = [held EXCEPT ![h][j].c = @ - 1] /\ os' = os /\ cap' = cap
      BY <1>10, <1>d DEF RdUnlock
    <2>2. held'[h] = [held[h] EXCEPT ![j].c = held[h][j].c - 1]
      BY <2>1, <1>t DEF TypeOK
    <2>3. OnlyOf(h, l)
      BY <2>1, <1>t, <1>8 DEF TypeOK, OnlyOf
    <2>4. held[h][j].c - 1 \in Nat \ {0}
      BY <1>10, <1>0
    <2>5. /\ held'[h] \in Seq(HeldEntries) /\ Len(held'[h]) = Len(held[h])
          /\ \A i \in DOMAIN held[h] : /\ held'[h][i].l = held[h][i].l
                                       /\ i # j => held'[h][i].c = held[h][i].c
          /\ held'[h][j].c = held[h][j].c - 1
      <3>1. [held[h][j] EXCEPT !.c = held[h][j].c - 1] \in HeldEntries
        BY <1>j, <2>4 DEF HeldEntries
      <3>2. held'[h] = [held[h] EXCEPT ![j] = [held[h][j] EXCEPT !.c = held[h][j].c - 1]]
        BY <2>2
      <3>3. held'[h] \in Seq(HeldEntries) /\ Len(held'[h]) = Len(held[h])
        BY <3>1, <3>2, <1>0
      <3>4. held'[h][j].l = held[h][j].l /\ held'[h][j].c = held[h][j].c - 1
        BY <3>2, <1>0, <1>j DEF HeldEntries
      <3>5. \A i \in DOMAIN held[h] : i # j => held'[h][i] = held[h][i]
        BY <3>2, <1>0
      <3> QED BY <3>3, <3>4, <3>5
    <2>6. /\ Distinct(held'[h])
          /\ \A m : Count(held'[h], m) = IF m = held[h][j].l THEN held'[h][j].c ELSE Count(held[h], m)
      BY <2>5, <1>0, BumpCount
    <2>7. LeavesOthers(h, l)
      BY <1>0, <1>5, <1>7, <1>8, <2>1, <2>5, <2>6 DEF LeavesOthers
    <2>8. Mine(guards'[h], l, "r") > 0
      BY <1>0, <1>6, <1>10
    <2>9. Agree(h, l)'
      <3>1. Count(held'[h], l) = Mine(guards'[h], l, "r")
        BY <1>0, <1>6, <2>5, <2>6
      <3>2. h \in os[l].readers
        BY <1>0, <1>m DEF Agree
      <3> QED BY <1>0, <1>6, <2>1, <2>8, <3>1, <3>2 DEF Agree
    <2> QED BY <1>0, <1>8, <1>9, <2>1, <2>3, <2>5, <2>6, <2>7, <2>9, RwLocal
  <1>11. CASE ~(held[h][j].c > 1)
    <2>1. /\ held' = [held EXCEPT ![h] = Dropped(@, j)]
          /\ cap' = [cap EXCEPT ![h] = IF Len(held[h]) - 1 <= Inline THEN 0 ELSE @]
          /\ os' = [os EXCEPT ![l].readers = @ \ {h}]
      BY <1>11, <1>d DEF RdUnlock
    <2>2. /\ held'[h] = Dropped(held[h], j)
          /\ cap'[h] = IF Len(held[h]) - 1 <= Inline THEN 0 ELSE cap[h]
          /\ os'[l].readers = os[l].readers \ {h} /\ os'[l].writer = os[l].writer
          /\ os'[l] \in [readers : SUBSET Holders, writer : Holders \cup {Nobody}]
      BY <2>1, <1>t, <1>g, <1>0 DEF TypeOK
    <2>3. OnlyOf(h, l)
      BY <2>1, <1>t, <1>g, <1>8 DEF TypeOK, OnlyOf
    <2>4. /\ held'[h] \in Seq(HeldEntries) /\ Distinct(held'[h]) /\ Len(held'[h]) = Len(held[h]) - 1
          /\ \A m : Count(held'[h], m) = IF m = held[h][j].l THEN 0 ELSE Count(held[h], m)
      BY <1>0, <2>2, DropCount
    <2>5. /\ cap'[h] \in Nat /\ Len(held'[h]) <= Inline + cap'[h]
          /\ cap'[h] > 0 => Len(held'[h]) > Inline
      <3>1. Inline \in Nat /\ Len(held[h]) \in Nat /\ cap[h] \in Nat /\ Len(held[h]) <= Inline + cap[h]
        BY <1>0 DEF Sensible
      <3>2. CASE Len(held[h]) - 1 <= Inline
        BY <3>1, <3>2, <2>2, <2>4
      <3>3. CASE ~(Len(held[h]) - 1 <= Inline)
        BY <3>1, <3>3, <2>2, <2>4
      <3> QED BY <3>2, <3>3
    <2>6. LeavesOthers(h, l)
      BY <1>0, <1>5, <1>7, <1>8, <2>2, <2>4, <2>5 DEF LeavesOthers
    <2>7. Mine(guards'[h], l, "r") = 0
      BY <1>0, <1>6, <1>11, <1>m
    <2>8. Agree(h, l)'
      BY <1>0, <1>6, <2>2, <2>4, <2>7 DEF Agree
    <2> QED BY <1>0, <1>8, <1>9, <2>2, <2>3, <2>4, <2>5, <2>6, <2>8, RwLocal
  <1> QED BY <1>10, <1>11

\* Every step of every holder keeps the invariant.
LEMMA RwStep == ASSUME Sensible, RwInv, Next PROVE RwInv'
  <1>t. TypeOK
    BY DEF RwInv
  <1>1. PICK h \in Holders :
          \/ RdGranted(h) \/ WrGranted(h) \/ OsFails(h) \/ DropGuard(h) \/ Unwound(h)
          \/ \E l \in Locks : RdLock(h, l) \/ WrLock(h, l) \/ TryRdLock(h, l) \/ TryWrLock(h, l)
    BY DEF Next
  <1>2. pc[h] \in Calling \cup Waiting /\ guards[h] \in Seq(GuardKinds)
    BY <1>t DEF TypeOK
  <1>3. /\ pc[h].at \in {"run", "unwind"} <=> pc[h] \in Calling
        /\ pc[h].at \in {"reading", "writing"} <=> pc[h] \in Waiting
        /\ pc[h] \in Waiting => pc[h].l \in Locks
    BY <1>2 DEF Calling, Waiting
  <1>4. /\ Running \in Calling /\ [Running EXCEPT !.at = "unwind"] \in Calling
        /\ \A p \in Calling : p \notin Waiting
    BY DEF Running, Calling, Waiting
  <1>5. ASSUME Panics(h), UNCHANGED platform PROVE RwInv'
    BY <1>5, <1>4, RwMoves DEF Panics
  <1>6. ASSUME NEW l \in Locks, NEW at \in {"reading", "writing"}, writer[l] # h, ~(Find(h, l) > 0),
               pc' = [pc EXCEPT ![h] = [at |-> at, l |-> l]],
               UNCHANGED <<platform, os, writer, held, cap, guards>>
        PROVE  RwInv'
    <2>1. [at |-> at, l |-> l] \in Waiting
      BY DEF Waiting
    <2>2. Mine(guards[h], l, "r") = 0 /\ Mine(guards[h], l, "w") = 0
      <3>1. /\ Find(h, l) \in Nat /\ (Find(h, l) = 0 <=> Mine(guards[h], l, "r") = 0)
            /\ Agree(h, l) /\ writer[l] = os[l].writer /\ Mine(guards[h], l, "w") \in Nat
        BY RwHere
      <3> QED BY <3>1, <1>6 DEF Agree
    <2> QED BY <2>1, <2>2, <1>6, RwMoves
  <1>7. CASE RdGranted(h)
    <2>1. pc[h] \in Waiting /\ pc[h].l \in Locks
      BY <1>3, <1>7 DEF RdGranted
    <2>2. Find(h, pc[h].l) = 0
      BY <2>1, RwHere DEF WaitsClean
    <2>3. pc'[h] = Running /\ pc' = [pc EXCEPT ![h] = pc'[h]]
      BY <1>7, <1>t DEF RdGranted, TypeOK
    <2> QED BY <1>4, <1>7, <2>1, <2>2, <2>3, RwTakesRead DEF RdGranted
  <1>8. CASE WrGranted(h)
    <2>1. pc[h].l \in Locks
      BY <1>3, <1>8 DEF WrGranted
    <2>2. pc'[h] = Running /\ pc' = [pc EXCEPT ![h] = pc'[h]]
      BY <1>8, <1>t DEF WrGranted, TypeOK
    <2> QED BY <1>4, <1>8, <2>1, <2>2, RwTakesWrite DEF WrGranted
  <1>9. CASE OsFails(h)
    BY <1>5, <1>9 DEF OsFails
  <1>10. CASE DropGuard(h)
    <2>1. PICK k \in DOMAIN guards[h] :
            /\ IF guards[h][k].kind = "w" THEN WrUnlock(h, guards[h][k].l)
               ELSE RdUnlock(h, guards[h][k].l) /\ UNCHANGED writer
            /\ guards' = [guards EXCEPT ![h] = RemoveAt(@, k)]
      BY <1>10 DEF DropGuard
    <2>2. pc[h] \in Calling /\ UNCHANGED <<platform, pc>>
      BY <1>3, <1>10 DEF DropGuard
    <2>3. guards[h][k].l \in Locks /\ guards[h][k].kind \in {"r", "w"}
      <3>1. guards[h][k] \in GuardKinds
        BY <1>2
      <3> QED BY <3>1 DEF GuardKinds
    <2>4. CASE guards[h][k].kind = "w"
      BY <2>1, <2>2, <2>3, <2>4, RwDropsWrite
    <2>5. CASE guards[h][k].kind = "r"
      BY <2>1, <2>2, <2>3, <2>5, RwDropsRead
    <2> QED BY <2>3, <2>4, <2>5
  <1>11. CASE Unwound(h)
    BY <1>4, <1>11, RwMoves DEF Unwound
  <1>12. ASSUME NEW l \in Locks, RdLock(h, l) PROVE RwInv'
    <2>1. pc[h] \in Calling
      BY <1>3, <1>12 DEF RdLock, Calls
    <2>2. CASE Find(h, l) > 0
      BY <2>1, <2>2, <1>12, RwReadsAgain DEF RdLock
    <2>3. CASE ~(Find(h, l) > 0) /\ writer[l] = h
      BY <2>3, <1>5, <1>12 DEF RdLock
    <2>4. CASE ~(Find(h, l) > 0) /\ writer[l] # h
      BY <2>4, <1>6, <1>12 DEF RdLock
    <2> QED BY <2>2, <2>3, <2>4
  <1>13. ASSUME NEW l \in Locks, WrLock(h, l) PROVE RwInv'
    <2>1. CASE writer[l] = h \/ Find(h, l) > 0
      BY <2>1, <1>5, <1>13 DEF WrLock
    <2>2. CASE ~(Find(h, l) > 0) /\ writer[l] # h
      BY <2>2, <1>6, <1>13 DEF WrLock
    <2> QED BY <2>1, <2>2
  <1>14. ASSUME NEW l \in Locks, TryRdLock(h, l) PROVE RwInv'
    <2>1. pc[h] \in Calling /\ pc' = pc /\ pc' = [pc EXCEPT ![h] = pc'[h]]
      BY <1>3, <1>14, <1>t DEF TryRdLock, Calls, TypeOK
    <2>2. CASE Find(h, l) > 0
      BY <2>1, <2>2, <1>14, RwReadsAgain DEF TryRdLock
    <2>3. CASE ~(Find(h, l) > 0)
      <3>1. Find(h, l) = 0
        BY <2>3, RwHere
      <3> QED BY <2>1, <2>3, <3>1, <1>14, RwTakesRead DEF TryRdLock
    <2> QED BY <2>2, <2>3
  <1>15. ASSUME NEW l \in Locks, TryWrLock(h, l) PROVE RwInv'
    <2>1. pc[h] \in Calling /\ pc' = pc /\ pc' = [pc EXCEPT ![h] = pc'[h]]
      BY <1>3, <1>15, <1>t DEF TryWrLock, Calls, TypeOK
    <2> QED BY <2>1, <1>15, RwTakesWrite DEF TryWrLock
  <1> QED BY <1>1, <1>7, <1>8, <1>9, <1>10, <1>11, <1>12, <1>13, <1>14, <1>15

\* The inductive invariant says what the three properties say.
LEMMA RwImplies == ASSUME RwInv PROVE NeverWaitsForItself /\ HeldExact /\ WithinRecord /\ WriteExcludes
  <1>t. TypeOK
    BY DEF RwInv
  <1>1. ASSUME NEW h \in Holders, pc[h].at \in {"reading", "writing"}, NEW k \in DOMAIN guards[h]
        PROVE  guards[h][k].l # pc[h].l
    <2>1. pc[h] \in Waiting /\ guards[h] \in Seq(GuardKinds) /\ guards[h][k] \in GuardKinds
      BY <1>1, <1>t DEF TypeOK, Calling, Waiting
    <2>2. \A kind \in {"r", "w"} : Mine(guards[h], pc[h].l, kind) = 0
      BY <2>1 DEF RwInv, WaitsClean
    <2>3. \A kind \in {"r", "w"} : guards[h][k] # [l |-> pc[h].l, kind |-> kind]
      BY <2>1, <2>2, MineNat
    <2> QED BY <2>1, <2>3 DEF GuardKinds
  <1>2. ASSUME NEW l \in Locks, NEW h \in Holders
        PROVE  /\ (IF Find(h, l) = 0 THEN 0 ELSE held[h][Find(h, l)].c) = Mine(guards[h], l, "r")
               /\ (h \in os[l].readers) <=> Mine(guards[h], l, "r") > 0
               /\ (os[l].writer = h) <=> Mine(guards[h], l, "w") > 0
    <2>1. Agree(h, l) /\ Find(h, l) = Place(held[h], l)
      BY FindIsPlace DEF RwInv
    <2> QED BY <2>1 DEF Agree, Count
  <1>3. HeldExact
    BY <1>2 DEF HeldExact, Mine, GuardPlaces
  <1> QED BY <1>1, <1>3 DEF RwInv, NeverWaitsForItself

\* No thread or fiber ever waits in the OS for a lock it has itself
\* (nurl_rwlock_rdlock, nurl_rwlock_wrlock), its table of read locks and the OS
\* agree with the guards it has, and a writer is alone: whatever the holders,
\* the locks, the kind of OS lock and the number of guards, panics and failed
\* OS calls included.
THEOREM RwLockSafe ==
    ASSUME Sensible
    PROVE  Spec => [](NeverWaitsForItself /\ HeldExact /\ WithinRecord /\ WriteExcludes)
  <1>1. Init => RwInv
    BY RwInit
  <1>2. RwInv /\ [Next]_vars => RwInv'
    <2>1. CASE Next
      BY <2>1, RwStep
    <2>2. ASSUME UNCHANGED vars, RwInv PROVE RwInv'
      BY <2>2 DEF vars, RwInv, TypeOK, Agree, WaitsClean, WriteExcludes, WithinRecord
    <2> QED BY <2>1, <2>2
  <1>3. RwInv => NeverWaitsForItself /\ HeldExact /\ WithinRecord /\ WriteExcludes
    BY RwImplies
  <1> QED BY <1>1, <1>2, <1>3, PTL DEF Spec
=============================================================================
