----------------------------- MODULE LeaseFence -----------------------------
(***************************************************************************)
(* stdlib/dist/lease.nu: the fence a resource puts in front of a side      *)
(* effect while two nodes may both believe they own a key.                 *)
(*                                                                         *)
(* A request carries a resource key, the ownership epoch it was issued     *)
(* under and an idempotency key (the task id).  Requests reach the         *)
(* resource in any order and any number of times: an old owner keeps       *)
(* dispatching under a stale epoch, a new owner retries the same task.     *)
(* lease_admit decides whether the effect is performed; `performed` is a   *)
(* history variable, the effects that really happened.                     *)
(***************************************************************************)
EXTENDS Integers, Sequences, TLAPS

CONSTANTS
    Keys,        \* resource keys (opaque bytes in the code)
    Epochs,      \* ownership epochs a request may carry
    Idems        \* idempotency keys (task ids)

ASSUME EpochsAssumption == Epochs \subseteq Int

VARIABLES
    entries,     \* the LeaseTable: key |-> LeaseEntry, for the keys it has seen
    performed    \* key |-> the effects performed, oldest first

vars == <<entries, performed>>

LeaseEntry == [token : Epochs, applied : SUBSET Idems]
Effect == [epoch : Epochs, idem : Idems]

TypeOK ==
    /\ DOMAIN entries \subseteq Keys
    /\ \A k \in DOMAIN entries : entries[k] \in LeaseEntry
    /\ performed \in [Keys -> Seq(Effect)]

\* lease_new: an empty table.
Init ==
    /\ entries = [k \in {} |-> 0]
    /\ performed = [k \in Keys |-> <<>>]

\* __lease_find: has the table an entry for the key?
Known(k) == k \in DOMAIN entries

\* The table with the entry of key k set to e.
WithEntry(k, e) == [j \in DOMAIN entries \cup {k} |-> IF j = k THEN e ELSE entries[j]]

\* The caller performs the effect it was admitted for.
Perform(k, epoch, idem) ==
    performed' = [performed EXCEPT ![k] = Append(@, [epoch |-> epoch, idem |-> idem])]

-----------------------------------------------------------------------------
(* Faulty forms of lease_admit's branches, one plausible slip each; the    *)
(* properties below are checked to reject them.                            *)

\* A new task admitted without the `epoch < token` refusal in front of it.
UnfencedAdmitNew(k, epoch, idem) ==
    /\ Known(k)
    /\ idem \notin entries[k].applied
    /\ entries' = WithEntry(k, [token |-> epoch, applied |-> entries[k].applied \cup {idem}])
    /\ Perform(k, epoch, idem)

\* A new task admitted but its idempotency key not recorded.
UnrecordedAdmitNew(k, epoch, idem) ==
    /\ Known(k)
    /\ epoch >= entries[k].token
    /\ idem \notin entries[k].applied
    /\ entries' = WithEntry(k, [entries[k] EXCEPT !.token = epoch])
    /\ Perform(k, epoch, idem)

\* The epoch stored before it is compared, on a request that is refused.
EagerRefuseDuplicate(k, epoch, idem) ==
    /\ Known(k)
    /\ idem \in entries[k].applied
    /\ entries' = WithEntry(k, [entries[k] EXCEPT !.token = epoch])
    /\ UNCHANGED performed

-----------------------------------------------------------------------------
\* lease_admit, first request for the key: any epoch is admitted.
AdmitFirst(k, epoch, idem) ==
    /\ ~Known(k)
    /\ entries' = WithEntry(k, [token |-> epoch, applied |-> {idem}])
    /\ Perform(k, epoch, idem)

\* lease_admit, stale epoch: refused, nothing recorded.
RefuseStale(k, epoch, idem) ==
    /\ Known(k)
    /\ epoch < entries[k].token
    /\ UNCHANGED vars

\* lease_admit, duplicate task: refused, but the epoch has already advanced.
RefuseDuplicate(k, epoch, idem) ==
    /\ Known(k)
    /\ epoch >= entries[k].token
    /\ idem \in entries[k].applied
    /\ entries' = WithEntry(k, [entries[k] EXCEPT !.token = epoch])
    /\ UNCHANGED performed

\* lease_admit, current or newer owner and a task not seen before: admitted.
AdmitNew(k, epoch, idem) ==
    /\ Known(k)
    /\ epoch >= entries[k].token
    /\ idem \notin entries[k].applied
    /\ entries' = WithEntry(k, [token |-> epoch, applied |-> entries[k].applied \cup {idem}])
    /\ Perform(k, epoch, idem)

lease_admit(k, epoch, idem) ==
    \/ AdmitFirst(k, epoch, idem)
    \/ RefuseStale(k, epoch, idem)
    \/ RefuseDuplicate(k, epoch, idem)
    \/ AdmitNew(k, epoch, idem)

Next == \E k \in Keys, epoch \in Epochs, idem \in Idems : lease_admit(k, epoch, idem)

Spec == Init /\ [][Next]_vars

-----------------------------------------------------------------------------
\* lease_token: the highest epoch admitted, 0 for a key never seen.
lease_token(k) == IF Known(k) THEN entries[k].token ELSE 0

\* A task's effect on a resource happens at most once, whichever of the old and
\* the new owner acts first and however often either retries (lease.nu:19).
AtMostOnce ==
    \A k \in Keys : \A i, j \in DOMAIN performed[k] :
        performed[k][i].idem = performed[k][j].idem => i = j

\* An owner fenced out by a newer one never acts again: the effects on a
\* resource happen in epoch order, although requests arrive in any order.
EffectsInEpochOrder ==
    \A k \in Keys : \A i, j \in DOMAIN performed[k] :
        i < j => performed[k][i].epoch <= performed[k][j].epoch

\* The fence of a key never moves back, not even on a refused duplicate.
FenceNeverMovesBack ==
    [][\A k \in DOMAIN entries :
           k \in DOMAIN entries' /\ entries[k].token <= entries'[k].token]_vars

-----------------------------------------------------------------------------
\* The link between the table and the history the two safety properties need.
HistoryMatches ==
    \A k \in Keys :
        /\ (~Known(k)) => performed[k] = <<>>
        /\ Known(k) => \A i \in DOMAIN performed[k] :
               /\ performed[k][i].idem \in entries[k].applied
               /\ performed[k][i].epoch <= entries[k].token

\* Inductive: type, history link and the two safety properties together.
LeaseInv == TypeOK /\ HistoryMatches /\ AtMostOnce /\ EffectsInEpochOrder
-----------------------------------------------------------------------------
(* Proofs, for every set of keys, epochs and tasks.                        *)

\* What appending one effect does to a resource's history.
LEMMA AppendFacts ==
    ASSUME NEW S, NEW s \in Seq(S), NEW e \in S
    PROVE  /\ Append(s, e) \in Seq(S)
           /\ DOMAIN Append(s, e) = DOMAIN s \cup {Len(s) + 1}
           /\ \A i \in DOMAIN s : Append(s, e)[i] = s[i] /\ i < Len(s) + 1 /\ i \in Int
           /\ Append(s, e)[Len(s) + 1] = e
           /\ Len(s) + 1 \notin DOMAIN s
  OBVIOUS

\* A request that is admitted and performed keeps the invariant, provided its
\* epoch is not below the effects of the key and its task is not among them.
LEMMA PerformKeepsInv ==
    ASSUME LeaseInv, NEW k \in Keys, NEW epoch \in Epochs, NEW idem \in Idems,
           NEW tasks \in SUBSET Idems,
           entries' = WithEntry(k, [token |-> epoch, applied |-> tasks \cup {idem}]),
           Perform(k, epoch, idem),
           \A i \in DOMAIN performed[k] :
               /\ performed[k][i].idem \in tasks
               /\ performed[k][i].idem # idem
               /\ performed[k][i].epoch <= epoch
    PROVE  LeaseInv'
  <1> DEFINE e == [epoch |-> epoch, idem |-> idem]
  <1>e. e \in Effect
    BY DEF Effect
  <1>s. performed[k] \in Seq(Effect)
    BY DEF LeaseInv, TypeOK
  <1> DEFINE h == performed[k]
             h1 == Append(h, e)
  <1>a. /\ h1 \in Seq(Effect)
        /\ DOMAIN h1 = DOMAIN h \cup {Len(h) + 1}
        /\ \A i \in DOMAIN h : h1[i] = h[i] /\ i < Len(h) + 1 /\ i \in Int
        /\ h1[Len(h) + 1] = e
        /\ Len(h) + 1 \notin DOMAIN h
    BY <1>e, <1>s, AppendFacts
  <1>d. Len(h) \in Nat
    BY <1>s
  <1>p. performed' = [performed EXCEPT ![k] = h1]
    BY DEF Perform
  <1>k. performed'[k] = h1 /\ \A j \in Keys : j # k => performed'[j] = performed[j]
    BY <1>p DEF LeaseInv, TypeOK
  <1>n. entries'[k] = [token |-> epoch, applied |-> tasks \cup {idem}]
        /\ DOMAIN entries' = DOMAIN entries \cup {k}
        /\ \A j \in DOMAIN entries : j # k => entries'[j] = entries[j]
    BY DEF WithEntry
  <1> HIDE DEF e, h, h1
  <1>1. TypeOK'
    <2>1. DOMAIN entries' \subseteq Keys
      BY <1>n DEF LeaseInv, TypeOK
    <2>2. entries'[k] \in LeaseEntry
      BY <1>n DEF LeaseEntry
    <2>3. \A j \in DOMAIN entries' : entries'[j] \in LeaseEntry
      BY <1>n, <2>2 DEF LeaseInv, TypeOK
    <2>4. performed' \in [Keys -> Seq(Effect)]
      BY <1>p, <1>a DEF LeaseInv, TypeOK
    <2> QED BY <2>1, <2>3, <2>4 DEF TypeOK
  <1>2. HistoryMatches'
    <2> SUFFICES ASSUME NEW j \in Keys
                 PROVE  /\ (~(j \in DOMAIN entries')) => performed'[j] = <<>>
                        /\ (j \in DOMAIN entries') => \A i \in DOMAIN performed'[j] :
                               /\ performed'[j][i].idem \in entries'[j].applied
                               /\ performed'[j][i].epoch <= entries'[j].token
      BY DEF HistoryMatches, Known
    <2>1. CASE j = k
      <3>1. /\ entries'[k].token = epoch
            /\ entries'[k].applied = tasks \cup {idem}
            /\ k \in DOMAIN entries'
        <4> DEFINE a == tasks \cup {idem}
        <4>1. entries'[k] = [token |-> epoch, applied |-> a] /\ k \in DOMAIN entries'
          BY <1>n
        <4> HIDE DEF a
        <4>2. entries'[k].token = epoch /\ entries'[k].applied = a
          BY <4>1
        <4> QED BY <4>1, <4>2 DEF a
      <3>2. ASSUME NEW i \in DOMAIN h
            PROVE  h1[i].idem \in tasks \cup {idem} /\ h1[i].epoch <= epoch
        BY <3>2, <1>a DEF h
      <3>3. h1[Len(h) + 1].idem \in tasks \cup {idem} /\ h1[Len(h) + 1].epoch <= epoch
        BY <1>a, EpochsAssumption DEF e
      <3>4. \A i \in DOMAIN h1 : h1[i].idem \in tasks \cup {idem} /\ h1[i].epoch <= epoch
        BY <3>2, <3>3, <1>a
      <3> QED BY <2>1, <3>1, <3>4, <1>k
    <2>2. CASE j # k
      BY <2>2, <1>n, <1>k DEF LeaseInv, HistoryMatches, Known
    <2> QED BY <2>1, <2>2
  <1>3. AtMostOnce'
    BY <1>k, <1>a DEF LeaseInv, AtMostOnce, e, h
  <1>4. EffectsInEpochOrder'
    <2> SUFFICES ASSUME NEW j \in Keys, NEW m \in DOMAIN performed'[j],
                        NEW n \in DOMAIN performed'[j], m < n
                 PROVE  performed'[j][m].epoch <= performed'[j][n].epoch
      BY DEF EffectsInEpochOrder
    <2>1. CASE j # k
      BY <2>1, <1>k DEF LeaseInv, EffectsInEpochOrder
    <2>2. CASE j = k /\ n \in DOMAIN h
      BY <2>2, <1>k, <1>a, <1>d DEF LeaseInv, EffectsInEpochOrder, h
    <2>3. CASE j = k /\ n = Len(h) + 1
      BY <2>3, <1>k, <1>a, <1>d DEF e, h
    <2> QED BY <2>1, <2>2, <2>3, <1>k, <1>a
  <1> QED BY <1>1, <1>2, <1>3, <1>4 DEF LeaseInv

\* Every step of lease_admit keeps the inductive invariant.
LEMMA LeaseInvStep == LeaseInv /\ [Next]_vars => LeaseInv'
  <1> SUFFICES ASSUME LeaseInv, [Next]_vars PROVE LeaseInv'
    OBVIOUS
  <1>1. ASSUME NEW k \in Keys, NEW epoch \in Epochs, NEW idem \in Idems,
               AdmitFirst(k, epoch, idem)
        PROVE  LeaseInv'
    <2>1. performed[k] = <<>>
      BY <1>1 DEF AdmitFirst, LeaseInv, HistoryMatches
    <2>2. {} \in SUBSET Idems /\ {idem} = {} \cup {idem} /\ DOMAIN performed[k] = {}
      BY <2>1
    <2> QED BY <1>1, <2>2, PerformKeepsInv DEF AdmitFirst
  <1>2. ASSUME NEW k \in Keys, NEW epoch \in Epochs, NEW idem \in Idems,
               RefuseDuplicate(k, epoch, idem)
        PROVE  LeaseInv'
    <2>1. /\ DOMAIN entries' = DOMAIN entries
          /\ entries[k] \in LeaseEntry
          /\ entries'[k] \in LeaseEntry
          /\ entries'[k].token = epoch
          /\ entries'[k].applied = entries[k].applied
          /\ \A j \in DOMAIN entries : j # k => entries'[j] = entries[j]
          /\ performed' = performed
      BY <1>2 DEF RefuseDuplicate, WithEntry, Known, LeaseInv, TypeOK, LeaseEntry
    <2>2. TypeOK'
      BY <2>1 DEF LeaseInv, TypeOK
    <2>3. HistoryMatches'
      <3>1. entries[k].token \in Epochs /\ epoch >= entries[k].token
        BY <1>2, <2>1 DEF RefuseDuplicate, LeaseEntry
      <3> SUFFICES ASSUME NEW j \in Keys
                   PROVE  /\ (j \notin DOMAIN entries) => performed[j] = <<>>
                          /\ j \in DOMAIN entries => \A i \in DOMAIN performed[j] :
                                 /\ performed[j][i].idem \in entries'[j].applied
                                 /\ performed[j][i].epoch <= entries'[j].token
        BY <2>1 DEF HistoryMatches, Known
      <3>0. performed[j] \in Seq(Effect)
        BY DEF LeaseInv, TypeOK
      <3>2. \A i \in DOMAIN performed[j] : performed[j][i].epoch \in Epochs
        <4>1. \A i \in DOMAIN performed[j] : performed[j][i] \in Effect
          BY <3>0
        <4> QED BY <4>1 DEF Effect
      <3>3. /\ (j \notin DOMAIN entries) => performed[j] = <<>>
            /\ j \in DOMAIN entries => \A i \in DOMAIN performed[j] :
                   /\ performed[j][i].idem \in entries[j].applied
                   /\ performed[j][i].epoch <= entries[j].token
        BY DEF LeaseInv, HistoryMatches, Known
      <3>4. CASE j # k
        BY <3>3, <3>4, <2>1
      <3>5. CASE j = k
        <4>1. ASSUME NEW i \in DOMAIN performed[j], j \in DOMAIN entries
              PROVE  performed[j][i].epoch <= epoch
          <5>1. performed[j][i].epoch <= entries[k].token
            BY <4>1, <3>3, <3>5
          <5>2. performed[j][i].epoch \in Int /\ entries[k].token \in Int /\ epoch \in Int
            BY <4>1, <3>1, <3>2, EpochsAssumption
          <5> QED BY <5>1, <5>2, <3>1
        <4> QED BY <4>1, <3>3, <3>5, <2>1
      <3> QED BY <3>4, <3>5
    <2>4. AtMostOnce' /\ EffectsInEpochOrder'
      BY <2>1 DEF LeaseInv, AtMostOnce, EffectsInEpochOrder
    <2> QED BY <2>2, <2>3, <2>4 DEF LeaseInv
  <1>3. ASSUME NEW k \in Keys, NEW epoch \in Epochs, NEW idem \in Idems,
               AdmitNew(k, epoch, idem)
        PROVE  LeaseInv'
    <2>1. entries[k] \in LeaseEntry /\ entries[k].token \in Epochs
          /\ entries[k].applied \in SUBSET Idems /\ epoch >= entries[k].token
      BY <1>3 DEF AdmitNew, Known, LeaseInv, TypeOK, LeaseEntry
    <2>2. \A i \in DOMAIN performed[k] :
              /\ performed[k][i] \in Effect
              /\ performed[k][i].idem \in entries[k].applied
              /\ performed[k][i].epoch <= entries[k].token
      BY <1>3 DEF AdmitNew, LeaseInv, HistoryMatches, TypeOK
    <2>3. \A i \in DOMAIN performed[k] :
              /\ performed[k][i].idem # idem
              /\ performed[k][i].epoch <= epoch
      BY <1>3, <2>1, <2>2, EpochsAssumption DEF AdmitNew, Effect
    <2> QED BY <1>3, <2>1, <2>2, <2>3, PerformKeepsInv DEF AdmitNew
  <1>4. CASE UNCHANGED vars
    BY <1>4 DEF vars, LeaseInv, TypeOK, HistoryMatches, AtMostOnce, EffectsInEpochOrder, Known
  <1> QED BY <1>1, <1>2, <1>3, <1>4 DEF Next, lease_admit, RefuseStale

\* The inductive invariant holds of every behaviour of the lease table.
THEOREM LeaseSafety == Spec => []LeaseInv
  <1>1. Init => LeaseInv
    BY DEF Init, LeaseInv, TypeOK, HistoryMatches, AtMostOnce, EffectsInEpochOrder, Known
  <1> QED BY <1>1, LeaseInvStep, PTL DEF Spec

\* For every set of keys, epochs and tasks, a task's effect happens at most
\* once per resource, however requests are reordered and retried (lease.nu:19).
THEOREM AtMostOnceHolds == Spec => []AtMostOnce
  <1>1. LeaseInv => AtMostOnce
    BY DEF LeaseInv
  <1> QED BY <1>1, LeaseSafety, PTL

\* Once lease_admit let a newer owner act, no older owner acts on that
\* resource again: effects happen in epoch order.
THEOREM EffectsOrdered == Spec => []EffectsInEpochOrder
  <1>1. LeaseInv => EffectsInEpochOrder
    BY DEF LeaseInv
  <1> QED BY <1>1, LeaseSafety, PTL

\* The fence of a key never moves back, on any step of lease_admit.
THEOREM FenceMonotone == Spec => FenceNeverMovesBack
  <1>1. ASSUME LeaseInv, [Next]_vars
        PROVE  [\A k \in DOMAIN entries :
                   k \in DOMAIN entries' /\ entries[k].token <= entries'[k].token]_vars
    <2> SUFFICES ASSUME Next, NEW j \in DOMAIN entries
                 PROVE  j \in DOMAIN entries' /\ entries[j].token <= entries'[j].token
      BY <1>1
    <2>1. entries[j].token \in Int
      BY <1>1, EpochsAssumption DEF LeaseInv, TypeOK, LeaseEntry
    <2>2. PICK k \in Keys, epoch \in Epochs, idem \in Idems : lease_admit(k, epoch, idem)
      BY DEF Next
    <2>3. CASE AdmitFirst(k, epoch, idem)
      BY <2>1, <2>3 DEF AdmitFirst, WithEntry, Known
    <2>4. CASE RefuseStale(k, epoch, idem)
      BY <2>1, <2>4 DEF RefuseStale, vars
    <2>5. CASE RefuseDuplicate(k, epoch, idem)
      <3>1. entries[k] \in LeaseEntry
        BY <1>1, <2>5 DEF RefuseDuplicate, Known, LeaseInv, TypeOK
      <3> QED BY <2>1, <2>5, <3>1, EpochsAssumption DEF RefuseDuplicate, WithEntry, Known, LeaseEntry
    <2>6. CASE AdmitNew(k, epoch, idem)
      BY <2>1, <2>6, EpochsAssumption DEF AdmitNew, WithEntry, Known
    <2> QED BY <2>2, <2>3, <2>4, <2>5, <2>6 DEF lease_admit
  <1> QED BY <1>1, LeaseSafety, PTL DEF Spec, FenceNeverMovesBack
=============================================================================
