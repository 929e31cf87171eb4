---------------------------- MODULE CCKeysProofs ----------------------------
(* Theorems about CCKeys, for any number of rules, shards, requests and     *)
(* sweeps.                                                                  *)
EXTENDS CCKeys, FiniteSetTheorems, TLAPS

USE KeysAssumption

Sweeping == [at : 1 .. NumShards + 1, todo : SUBSET Keys, lower : BOOLEAN]
Lowering == {c \in Sweepers : sweep[c].lower}
Held     == {s \in Shards : lock[s] \in Procs}

(* What the proofs need of the types: totalKeys >= 0 comes from Accounting. *)
Types ==
  /\ keys \subseteq Keys /\ lock \in [Shards -> Procs \cup Sweepers \cup {Free}]
  /\ ruleKeys \in [Rules -> Nat] /\ totalKeys \in Int
  /\ req \in [Procs -> Outcomes] /\ sweep \in [Sweepers -> Sweeping]

(* A request that reserves holds its shard's lock, and its key is not there; *)
(* a sweep holds the lock of the shard whose keys it removes, and they are.  *)
LockInv ==
  /\ \A p \in Procs : req[p].pc = "reserve" => lock[Shard(p)] = p /\ KeyOf(p) \notin keys
  /\ \A c \in Sweepers : \A k \in sweep[c].todo : k \in keys /\ lock[ShardOf[k]] = c

Counts ==
  /\ IsFiniteSet(keys) /\ IsFiniteSet(Lowering)
  /\ \A r \in Rules : ruleKeys[r] = Cardinality(OfRule(r))
  /\ totalKeys = Cardinality(keys) + Cardinality(Lowering)
  /\ \A r \in Rules : ruleKeys[r] <= RuleQuota

(* Every request between its check of the maximum and its reservation holds *)
(* a shard's lock.                                                          *)
CapInv == totalKeys + Cardinality(Held) <= MaxKeys + NumShards - 1

KeysInv == Types /\ LockInv /\ Counts /\ CapInv

-----------------------------------------------------------------------------
(* A request has a key, and the key a shard. *)
LEMMA ShardType == ASSUME Types, NEW p \in Procs PROVE KeyOf(p) \in Keys /\ Shard(p) \in Shards
  BY DEF Types, Outcomes, KeyOf, Shard, Keys

(* Every step of a request or of a sweep keeps the types. *)
LEMMA TypesStep == ASSUME Types, [Next]_vars PROVE Types'
<1> USE DEF Types
<1>1. ASSUME NEW p \in Procs, Request(p) PROVE Types'
  <2>1. ASSUME NEW r \in Rules, NEW v \in Vals, NEW i \in Vals, Arrive(p, r, v, i) PROVE Types'
    BY <2>1 DEF Arrive, Outcomes
  <2>2. CASE Found(p)  BY <2>2 DEF Found, Outcomes, Over
  <2>3. CASE Full(p)  BY <2>3 DEF Full, Outcomes
  <2>4. CASE NotFound(p)  BY <2>4, ShardType DEF NotFound, Outcomes
  <2>5. CASE Reserve(p)  BY <2>5, ShardType DEF Reserve, Outcomes, Over
  <2>6. CASE OverQuota(p)  BY <2>6, ShardType DEF OverQuota, Outcomes
  <2>7. CASE Rejected(p)  BY <2>7 DEF Rejected, Outcomes, Over
  <2>8. CASE Degraded(p)  BY <2>8 DEF Degraded, Outcomes
  <2>9. CASE Missed(p)  BY <2>9 DEF Missed, Outcomes, Over
  <2> QED  BY <1>1, <2>1, <2>2, <2>3, <2>4, <2>5, <2>6, <2>7, <2>8, <2>9 DEF Request
<1>2. ASSUME NEW c \in Sweepers, Sweep(c) PROVE Types'
  <2>1. CASE SweepStart(c)  BY <2>1 DEF SweepStart, Sweeping
  <2>2. CASE SweepTotal(c)
    <3>1. totalKeys' \in Int  BY <2>2 DEF SweepTotal, Decrement
    <3>2. sweep' \in [Sweepers -> Sweeping]  BY <2>2 DEF SweepTotal, Sweeping
    <3> QED  BY <2>2, <3>1, <3>2 DEF SweepTotal
  <2>3. CASE SweepUnlock(c)
    <3>1. sweep[c].at \in 1 .. NumShards + 1 /\ sweep[c].at <= NumShards  BY <2>3 DEF SweepUnlock, Sweeping
    <3>2. sweep[c].at \in Shards /\ sweep[c].at + 1 \in 1 .. NumShards + 1  BY <3>1 DEF Shards
    <3>3. lock' \in [Shards -> Procs \cup Sweepers \cup {Free}]  BY <2>3 DEF SweepUnlock
    <3>4. sweep' \in [Sweepers -> Sweeping]  BY <2>3, <3>2 DEF SweepUnlock, Sweeping
    <3> QED  BY <2>3, <3>3, <3>4 DEF SweepUnlock
  <2>4. ASSUME NEW v \in SUBSET keys, SweepShard(c, v) PROVE Types'
    BY <2>4 DEF SweepShard, Sweeping, Shards
  <2>5. ASSUME NEW k \in Keys, SweepKey(c, k) PROVE Types'
    <3> DEFINE x == [sweep[c] EXCEPT !.todo = @ \ {k}, !.lower = TRUE]
    <3>1. x \in Sweeping  BY DEF Sweeping
    <3>2. sweep' = [sweep EXCEPT ![c] = x]  BY <2>5 DEF SweepKey
    <3> HIDE DEF x
    <3>3. sweep' \in [Sweepers -> Sweeping]  BY <3>1, <3>2
    <3> DEFINE n == IF ruleKeys[k[1]] <= 1 THEN 0 ELSE ruleKeys[k[1]] - 1
    <3>4. ruleKeys' \in [Rules -> Nat]
      <4>1. k[1] \in Rules => n \in Nat  OBVIOUS
      <4>2. ruleKeys' = [ruleKeys EXCEPT ![k[1]] = n]  BY <2>5 DEF SweepKey
      <4> HIDE DEF n
      <4> QED  BY <4>1, <4>2
    <3> QED  BY <2>5, <3>3, <3>4 DEF SweepKey
  <2> QED  BY <1>2, <2>1, <2>2, <2>3, <2>4, <2>5 DEF Sweep
<1>3. CASE UNCHANGED vars  BY <1>3 DEF vars
<1> QED  BY <1>1, <1>2, <1>3 DEF Next

(* Two requests that reserve at the same time are on different shards, and  *)
(* no sweep is on theirs.                                                   *)
LEMMA LockStep == ASSUME Types, LockInv, [Next]_vars PROVE LockInv'
<1> USE DEF LockInv
<1>0. Free \notin Procs /\ Free \notin Sweepers /\ \A p \in Procs : p \notin Sweepers  OBVIOUS
<1>1. ASSUME NEW p \in Procs, Request(p) PROVE LockInv'
  <2> USE ShardType DEF Types, Shard, KeyOf
  <2>1. ASSUME NEW r \in Rules, NEW v \in Vals, NEW i \in Vals, Arrive(p, r, v, i) PROVE LockInv'
    BY <2>1 DEF Arrive
  <2>2. CASE Found(p)  BY <2>2 DEF Found
  <2>3. CASE Full(p)  BY <2>3 DEF Full
  <2>4. CASE NotFound(p)  BY <1>0, <2>4 DEF NotFound
  <2>5. CASE Reserve(p)  BY <1>0, <2>5 DEF Reserve
  <2>6. CASE OverQuota(p)  BY <1>0, <2>6 DEF OverQuota
  <2>7. CASE Rejected(p)  BY <2>7 DEF Rejected
  <2>8. CASE Degraded(p)  BY <2>8 DEF Degraded
  <2>9. CASE Missed(p)  BY <2>9 DEF Missed
  <2> QED  BY <1>1, <2>1, <2>2, <2>3, <2>4, <2>5, <2>6, <2>7, <2>8, <2>9 DEF Request
<1>2. ASSUME NEW c \in Sweepers, Sweep(c) PROVE LockInv'
  <2> USE ShardType DEF Types, Shard, KeyOf
  <2>1. CASE SweepStart(c)  BY <2>1 DEF SweepStart
  <2>2. CASE SweepTotal(c)  BY <2>2 DEF SweepTotal
  <2>3. CASE SweepUnlock(c)  BY <1>0, <2>3 DEF SweepUnlock
  <2>4. ASSUME NEW v \in SUBSET keys, SweepShard(c, v) PROVE LockInv'
    BY <1>0, <2>4 DEF SweepShard
  <2>5. ASSUME NEW k \in Keys, SweepKey(c, k) PROVE LockInv'  BY <1>0, <2>5 DEF SweepKey
  <2> QED  BY <1>2, <2>1, <2>2, <2>3, <2>4, <2>5 DEF Sweep
<1>3. CASE UNCHANGED vars  BY <1>3 DEF vars, Shard, KeyOf
<1> QED  BY <1>1, <1>2, <1>3 DEF Next

(* A set of shards is no larger than the number of shards. *)
LEMMA ShardsBound == ASSUME NEW H \in SUBSET Shards
                     PROVE  IsFiniteSet(H) /\ Cardinality(H) \in Nat /\ Cardinality(H) <= NumShards
<1>1. IsFiniteSet(Shards) /\ Cardinality(Shards) = NumShards  BY FS_Interval DEF Shards
<1>2. IsFiniteSet(H) /\ Cardinality(H) <= Cardinality(Shards)  BY <1>1, FS_Subset
<1> QED  BY <1>1, <1>2, FS_CardinalityType

(* So are the shards held by requests. *)
LEMMA HeldBound == IsFiniteSet(Held) /\ Cardinality(Held) \in Nat /\ Cardinality(Held) <= NumShards
<1>1. Held \in SUBSET Shards  BY DEF Held
<1> QED  BY <1>1, ShardsBound

(* A key is added to, or removed from, the keys of its rule only. *)
LEMMA OfRuleAdd ==
  ASSUME NEW k \in Keys, k \notin keys, IsFiniteSet(keys), keys' = keys \cup {k}, NEW r \in Rules
  PROVE  Cardinality(OfRule(r))' = IF k[1] = r THEN Cardinality(OfRule(r)) + 1 ELSE Cardinality(OfRule(r))
<1>1. IsFiniteSet(OfRule(r))  BY FS_Subset DEF OfRule
<1>2. CASE k[1] = r
  <2>1. OfRule(r)' = OfRule(r) \cup {k} /\ k \notin OfRule(r)  BY <1>2 DEF OfRule
  <2> QED  BY <1>1, <1>2, <2>1, FS_AddElement
<1>3. CASE k[1] # r
  <2>1. OfRule(r)' = OfRule(r)  BY <1>3 DEF OfRule
  <2> QED  BY <1>3, <2>1
<1> QED  BY <1>2, <1>3

(* The same for a key that is removed. *)
LEMMA OfRuleRemove ==
  ASSUME NEW k \in keys, IsFiniteSet(keys), keys' = keys \ {k}, NEW r \in Rules
  PROVE  /\ Cardinality(OfRule(r))' = IF k[1] = r THEN Cardinality(OfRule(r)) - 1 ELSE Cardinality(OfRule(r))
         /\ k[1] = r => Cardinality(OfRule(r)) >= 1
<1>1. IsFiniteSet(OfRule(r))  BY FS_Subset DEF OfRule
<1>2. CASE k[1] = r
  <2>1. OfRule(r)' = OfRule(r) \ {k} /\ k \in OfRule(r)  BY <1>2 DEF OfRule
  <2>2. Cardinality(OfRule(r)) # 0 /\ Cardinality(OfRule(r)) \in Nat  BY <1>1, <2>1, FS_EmptySet, FS_CardinalityType
  <2>3. Cardinality(OfRule(r) \ {k}) = Cardinality(OfRule(r)) - 1  BY <1>1, <2>1, FS_RemoveElement
  <2> QED  BY <1>2, <2>1, <2>2, <2>3
<1>3. CASE k[1] # r
  <2>1. OfRule(r)' = OfRule(r)  BY <1>3 DEF OfRule
  <2> QED  BY <1>3, <2>1
<1> QED  BY <1>2, <1>3

(* The counters stay equal to what they count, and within the quota. *)
LEMMA CountsStep == ASSUME Types, LockInv, Counts, [Next]_vars PROVE Counts'
<1>1. CASE UNCHANGED <<keys, ruleKeys, totalKeys, Lowering>>
  BY <1>1 DEF Counts, OfRule
<1>2. ASSUME NEW p \in Procs, Reserve(p) PROVE Counts'
  <2> DEFINE k == KeyOf(p)
  <2>1. k \in Keys /\ k[1] = req[p].rule /\ req[p].rule \in Rules
    BY ShardType DEF KeyOf, Types, Outcomes
  <2>2. k \notin keys /\ keys' = keys \cup {k}  BY <1>2 DEF Reserve, LockInv
  <2>3. IsFiniteSet(keys') /\ Cardinality(keys') = Cardinality(keys) + 1
    BY <2>2, FS_AddElement DEF Counts
  <2>4. Lowering' = Lowering  BY <1>2 DEF Reserve, Lowering
  <2>5. Cardinality(keys) \in Nat /\ Cardinality(Lowering) \in Nat  BY FS_CardinalityType DEF Counts
  <2>6. totalKeys' = Cardinality(keys') + Cardinality(Lowering')
    BY <1>2, <2>3, <2>4, <2>5 DEF Reserve, Counts
  <2>7. ASSUME NEW r \in Rules PROVE ruleKeys'[r] = Cardinality(OfRule(r))' /\ ruleKeys'[r] <= RuleQuota
    <3> HIDE DEF k
    <3>1. Cardinality(OfRule(r))' = IF k[1] = r THEN Cardinality(OfRule(r)) + 1 ELSE Cardinality(OfRule(r))
      BY <2>1, <2>2, OfRuleAdd DEF Counts
    <3>2. ruleKeys'[r] = IF k[1] = r THEN ruleKeys[r] + 1 ELSE ruleKeys[r]
      BY <1>2, <2>1 DEF Reserve, Types
    <3>3. k[1] = r => ruleKeys[r] < RuleQuota  BY <1>2, <2>1 DEF Reserve, WithinQuota
    <3>4. ruleKeys[r] \in Nat /\ ruleKeys[r] = Cardinality(OfRule(r)) /\ ruleKeys[r] <= RuleQuota
      BY DEF Types, Counts
    <3> QED  BY <3>1, <3>2, <3>3, <3>4
  <2> QED  BY <2>3, <2>4, <2>6, <2>7 DEF Counts
<1>3. ASSUME NEW c \in Sweepers, NEW k \in Keys, SweepKey(c, k) PROVE Counts'
  <2>1. k \in keys /\ keys' = keys \ {k}  BY <1>3 DEF SweepKey, LockInv
  <2>2. IsFiniteSet(keys') /\ Cardinality(keys') = Cardinality(keys) - 1
    BY <2>1, FS_RemoveElement DEF Counts
  <2>3. Lowering' = Lowering \cup {c} /\ c \notin Lowering  BY <1>3 DEF SweepKey, Lowering, Types, Sweeping
  <2>4. IsFiniteSet(Lowering') /\ Cardinality(Lowering') = Cardinality(Lowering) + 1
    BY <2>3, FS_AddElement DEF Counts
  <2>5. Cardinality(keys) \in Nat /\ Cardinality(Lowering) \in Nat  BY FS_CardinalityType DEF Counts
  <2>6. totalKeys' = Cardinality(keys') + Cardinality(Lowering')
    BY <1>3, <2>2, <2>4, <2>5 DEF SweepKey, Counts
  <2>7. ASSUME NEW r \in Rules PROVE ruleKeys'[r] = Cardinality(OfRule(r))' /\ ruleKeys'[r] <= RuleQuota
    <3>1. /\ Cardinality(OfRule(r))' = IF k[1] = r THEN Cardinality(OfRule(r)) - 1 ELSE Cardinality(OfRule(r))
          /\ k[1] = r => Cardinality(OfRule(r)) >= 1
      BY <2>1, OfRuleRemove DEF Counts
    <3>2. ruleKeys'[r] = IF k[1] = r THEN (IF ruleKeys[r] <= 1 THEN 0 ELSE ruleKeys[r] - 1) ELSE ruleKeys[r]
      BY <1>3 DEF SweepKey, Types
    <3>3. ruleKeys[r] \in Nat /\ ruleKeys[r] = Cardinality(OfRule(r)) /\ ruleKeys[r] <= RuleQuota
      BY DEF Types, Counts
    <3> QED  BY <3>1, <3>2, <3>3
  <2> QED  BY <2>2, <2>4, <2>6, <2>7 DEF Counts
<1>4. ASSUME NEW c \in Sweepers, SweepTotal(c) PROVE Counts'
  <2>1. Lowering' = Lowering \ {c} /\ c \in Lowering  BY <1>4 DEF SweepTotal, Lowering, Types, Sweeping
  <2>2. IsFiniteSet(Lowering') /\ Cardinality(Lowering') = Cardinality(Lowering) - 1
    BY <2>1, FS_RemoveElement DEF Counts
  <2>3. Cardinality(keys) \in Nat /\ Cardinality(Lowering) \in Nat  BY FS_CardinalityType DEF Counts
  <2>4. totalKeys' = Cardinality(keys) + Cardinality(Lowering')
    BY <1>4, <2>2, <2>3 DEF SweepTotal, Decrement, Counts
  <2> QED  BY <1>4, <2>2, <2>4 DEF SweepTotal, Counts, OfRule
<1>5. ASSUME NEW p \in Procs, Request(p), ~Reserve(p) PROVE UNCHANGED <<keys, ruleKeys, totalKeys, Lowering>>
  BY <1>5 DEF Request, Arrive, Found, Full, NotFound, OverQuota, Rejected, Degraded, Missed, Lowering
<1>6. ASSUME NEW c \in Sweepers, SweepStart(c) \/ SweepUnlock(c) \/ \E v \in SUBSET keys : SweepShard(c, v)
      PROVE  UNCHANGED <<keys, ruleKeys, totalKeys, Lowering>>
  <2>1. \A d \in Sweepers : sweep'[d].lower = sweep[d].lower
    BY <1>6 DEF SweepStart, SweepUnlock, SweepShard, Types, Sweeping
  <2> QED  BY <1>6, <2>1 DEF SweepStart, SweepUnlock, SweepShard, Lowering
<1>7. CASE UNCHANGED vars  BY <1>1, <1>7 DEF vars, Lowering
<1> QED  BY <1>1, <1>2, <1>3, <1>4, <1>5, <1>6, <1>7 DEF Next, Sweep

(* The maximum: a request enters Held with totalKeys below it, and leaves  *)
(* Held with the key it adds.                                              *)
LEMMA CapStep == ASSUME Types, LockInv, Counts, CapInv, [Next]_vars PROVE CapInv'
<1>0. /\ IsFiniteSet(Held) /\ Cardinality(Held) \in Nat /\ Cardinality(Held') \in Nat
      /\ Cardinality(Held') <= NumShards /\ totalKeys \in Int
  <2>1. Held' \in SUBSET Shards  BY DEF Held
  <2>2. Cardinality(Held') \in Nat /\ Cardinality(Held') <= NumShards  BY <2>1, ShardsBound
  <2>3. totalKeys \in Int  BY DEF Types
  <2> QED  BY <2>2, <2>3, HeldBound
<1>1. ASSUME totalKeys' <= totalKeys, totalKeys' \in Int, Held' \subseteq Held PROVE CapInv'
  <2>1. Cardinality(Held') <= Cardinality(Held)  BY <1>0, <1>1, FS_Subset
  <2> QED  BY <1>0, <1>1, <2>1 DEF CapInv
<1>2. ASSUME NEW p \in Procs, NotFound(p) PROVE CapInv'
  <2>1. totalKeys < MaxKeys /\ totalKeys' = totalKeys  BY <1>2 DEF NotFound, BelowMax
  <2> QED  BY <1>0, <2>1 DEF CapInv
<1>3. ASSUME NEW p \in Procs, Reserve(p) PROVE CapInv'
  <2>1. Shard(p) \in Held  BY <1>3, ShardType DEF Reserve, LockInv, Held
  <2>2. Held' = Held \ {Shard(p)}  BY <1>3, ShardType DEF Reserve, Held, Types
  <2>3. Cardinality(Held') = Cardinality(Held) - 1  BY <1>0, <2>1, <2>2, FS_RemoveElement
  <2>4. totalKeys' = totalKeys + 1  BY <1>3 DEF Reserve
  <2> QED  BY <1>0, <2>3, <2>4 DEF CapInv
<1>4. ASSUME NEW p \in Procs, Request(p), ~NotFound(p), ~Reserve(p) PROVE totalKeys' = totalKeys /\ Held' \subseteq Held
  BY <1>4 DEF Request, Arrive, Found, Full, OverQuota, Rejected, Degraded, Missed, Held, Types
<1>5. ASSUME NEW c \in Sweepers, Sweep(c) PROVE Held' \subseteq Held
  BY <1>5 DEF Sweep, SweepStart, SweepTotal, SweepUnlock, SweepShard, SweepKey, Held, Types
<1>6. ASSUME NEW c \in Sweepers, Sweep(c) PROVE totalKeys' \in Int /\ totalKeys' <= totalKeys
  <2>1. totalKeys' = totalKeys \/ totalKeys' = totalKeys - 1
    BY <1>6 DEF Sweep, SweepStart, SweepTotal, SweepUnlock, SweepShard, SweepKey, Decrement
  <2> QED  BY <1>0, <2>1
<1>7. CASE UNCHANGED vars  BY <1>7 DEF vars, CapInv, Held
<1> QED  BY <1>0, <1>1, <1>2, <1>3, <1>4, <1>5, <1>6, <1>7 DEF Next

(* The inductive invariant of the table of keys. *)
LEMMA KeysInvariant == Spec => []KeysInv
<1>1. Init => KeysInv
  <2> SUFFICES ASSUME Init PROVE KeysInv  OBVIOUS
  <2> USE DEF Init
  <2>1. Types  BY DEF Types, Outcomes, Over, Sweeping
  <2>2. LockInv  BY DEF LockInv
  <2>3. Lowering = {} /\ Held = {} /\ \A r \in Rules : OfRule(r) = {}  BY DEF Lowering, Held, OfRule
  <2>4. Counts
    <3>1. keys = {} /\ totalKeys = 0 /\ \A r \in Rules : ruleKeys[r] = 0  OBVIOUS
    <3>2. IsFiniteSet({}) /\ Cardinality({}) = 0  BY FS_EmptySet
    <3>3. totalKeys = Cardinality(keys) + Cardinality(Lowering)  BY <2>3, <3>1, <3>2
    <3> HIDE DEF Init
    <3>4. \A r \in Rules : ruleKeys[r] = Cardinality(OfRule(r)) /\ ruleKeys[r] <= RuleQuota
      BY <2>3, <3>1, <3>2
    <3> QED  BY <2>3, <3>1, <3>2, <3>3, <3>4 DEF Counts
  <2>5. CapInv  BY <2>3, FS_EmptySet DEF CapInv
  <2> QED  BY <2>1, <2>2, <2>4, <2>5 DEF KeysInv
<1>2. KeysInv /\ [Next]_vars => KeysInv'
  BY TypesStep, LockStep, CountsStep, CapStep DEF KeysInv
<1> QED  BY <1>1, <1>2, PTL DEF Spec

(* reserveKey and releaseKey keep ruleKeys and totalKeys equal to the keys  *)
(* in the maps (but for removals under way), so that no rule ever has more  *)
(* keys than its quota.                                                     *)
THEOREM AccountingExact == Spec => []Accounting
<1>1. KeysInv => Accounting  BY DEF KeysInv, Counts, Accounting, Lowering
<1> QED  BY <1>1, KeysInvariant, PTL

(* No rule ever has more keys than its quota. *)
THEOREM QuotaSafe == Spec => []QuotaHolds
<1>1. KeysInv => QuotaHolds  BY DEF KeysInv, Counts, QuotaHolds
<1> QED  BY <1>1, KeysInvariant, PTL

(* The unlocked check of maxKeys lets the table grow past the maximum by    *)
(* less than the number of shards, however many requests there are.         *)
THEOREM CapSafe == Spec => []CapHolds
<1>1. KeysInv => CapHolds
  <2> SUFFICES ASSUME KeysInv PROVE CapHolds  OBVIOUS
  <2>1. Cardinality(keys) \in Nat /\ Cardinality(Lowering) \in Nat /\ Cardinality(Held) \in Nat
    BY FS_CardinalityType, HeldBound DEF KeysInv, Counts
  <2> QED  BY <2>1 DEF KeysInv, Counts, CapInv, CapHolds
<1> QED  BY <1>1, KeysInvariant, PTL

(* totalKeys is never negative, and the variables have their types. *)
THEOREM KeysTypeCorrect == Spec => []TypeOK
<1>1. KeysInv => TypeOK
  <2> SUFFICES ASSUME KeysInv PROVE TypeOK  OBVIOUS
  <2>1. totalKeys \in Nat
    <3>1. Cardinality(keys) \in Nat /\ Cardinality(Lowering) \in Nat
      BY FS_CardinalityType DEF KeysInv, Counts
    <3> QED  BY <3>1 DEF KeysInv, Counts
  <2> QED  BY <2>1 DEF KeysInv, Types, TypeOK, Sweeping
<1> QED  BY <1>1, KeysInvariant, PTL
=============================================================================
