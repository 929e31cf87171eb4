------------------------------- MODULE CCKeys -------------------------------
(***************************************************************************)
(* The table of counting keys of the CC rate limiter: requests that look   *)
(* their key up and reserve a new one, under the shard's lock and within   *)
(* the rule's quota and the global maximum, and the sweeps that remove     *)
(* keys (wafenginecore/cccounter/counter.go), with the caller's retry by   *)
(* client IP (runCCRuleSet, wafenginecore/checkcc_rules.go).               *)
(*                                                                         *)
(* totalKeys is read without a lock, so that the check of the maximum and  *)
(* the reservation are two steps; a section of metaMu is one step.         *)
(***************************************************************************)
EXTENDS Integers, FiniteSets

CONSTANTS
  Rules, Vals,        \* rules; values of a rule's dimension, client IPs among them
  NumShards, ShardOf, \* shardFor: the shard of each key
  MaxKeys, RuleQuota,
  Procs,              \* request goroutines
  Sweepers,           \* goroutines in Cleanup or DropRule
  Free                \* an unlocked mutex

Keys   == Rules \X Vals
Shards == 1 .. NumShards

ASSUME KeysAssumption ==
  /\ NumShards \in Nat \ {0} /\ ShardOf \in [Keys -> Shards]
  /\ MaxKeys \in Nat \ {0} /\ RuleQuota \in Nat \ {0}
  /\ Procs \cap Sweepers = {} /\ Free \notin Procs \cup Sweepers

VARIABLES
  keys,      \* the keys in the shards' maps
  lock,      \* who holds each shard's mutex
  ruleKeys,  \* keys in use of each rule
  totalKeys,
  req,       \* each request: where it is, its rule, the key's value, its client's IP
  sweep      \* each sweep: next shard, keys still to remove there, totalKeys still to lower

vars == <<keys, lock, ruleKeys, totalKeys, req, sweep>>

KeyOf(p) == <<req[p].rule, req[p].val>>
Shard(p) == ShardOf[KeyOf(p)]
OfRule(r) == {k \in keys : k[1] = r}

Init ==
  /\ keys = {} /\ lock = [s \in Shards |-> Free]
  /\ ruleKeys = [r \in Rules |-> 0] /\ totalKeys = 0
  /\ \E r \in Rules, v \in Vals :
       req = [p \in Procs |-> [pc |-> "counted", rule |-> r, val |-> v, ip |-> v, retried |-> FALSE]]
  /\ sweep = [c \in Sweepers |-> [at |-> NumShards + 1, todo |-> {}, lower |-> FALSE]]

-----------------------------------------------------------------------------
(* Requests.  A request is over when it is counted, rejected or missed. *)

Over == {"counted", "rejected", "missed"}

(* runCCRuleSet: the first Incr, by the rule's own dimension. *)
Arrive(p, r, v, i) ==
  /\ req[p].pc \in Over
  /\ req' = [req EXCEPT ![p] = [pc |-> "incr", rule |-> r, val |-> v, ip |-> i, retried |-> FALSE]]
  /\ UNCHANGED <<keys, lock, ruleKeys, totalKeys, sweep>>

(* Incr: the key is there. *)
Found(p) ==
  /\ req[p].pc = "incr" /\ lock[Shard(p)] = Free /\ KeyOf(p) \in keys
  /\ req' = [req EXCEPT ![p].pc = "counted"]
  /\ UNCHANGED <<keys, lock, ruleKeys, totalKeys, sweep>>

(* reserveKey: no key, and the maximum is reached or not. *)
AtMostMax == totalKeys <= MaxKeys  \* mutant: one too many
BelowMax  == totalKeys < MaxKeys

Full(p) ==
  /\ req[p].pc = "incr" /\ lock[Shard(p)] = Free /\ KeyOf(p) \notin keys
  /\ ~BelowMax
  /\ req' = [req EXCEPT ![p].pc = "refused"]
  /\ UNCHANGED <<keys, lock, ruleKeys, totalKeys, sweep>>

NotFound(p) ==
  /\ req[p].pc = "incr" /\ lock[Shard(p)] = Free /\ KeyOf(p) \notin keys
  /\ BelowMax
  /\ lock' = [lock EXCEPT ![Shard(p)] = p]
  /\ req' = [req EXCEPT ![p].pc = "reserve"]
  /\ UNCHANGED <<keys, ruleKeys, totalKeys, sweep>>

(* reserveKey under metaMu: within the quota the key is made. *)
WithinQuotaOrMore(r) == ruleKeys[r] <= RuleQuota  \* mutant: one too many
WithinQuota(r)       == ruleKeys[r] < RuleQuota

Reserve(p) ==
  /\ req[p].pc = "reserve" /\ WithinQuota(req[p].rule)
  /\ ruleKeys' = [ruleKeys EXCEPT ![req[p].rule] = @ + 1]
  /\ totalKeys' = totalKeys + 1
  /\ keys' = keys \cup {KeyOf(p)}
  /\ lock' = [lock EXCEPT ![Shard(p)] = Free]
  /\ req' = [req EXCEPT ![p].pc = "counted"]
  /\ UNCHANGED sweep

OverQuota(p) ==
  /\ req[p].pc = "reserve" /\ ~WithinQuota(req[p].rule)
  /\ lock' = [lock EXCEPT ![Shard(p)] = Free]
  /\ req' = [req EXCEPT ![p].pc = "refused"]
  /\ UNCHANGED <<keys, ruleKeys, totalKeys, sweep>>

(* Incr after the unlock reads totalKeys again: Rejected, which gives the  *)
(* count up, or Degraded, which makes runCCRuleSet try once more by client *)
(* IP.  A second Degraded carries the count 0, within every threshold.     *)
Rejected(p) ==
  /\ req[p].pc = "refused" /\ totalKeys >= MaxKeys
  /\ req' = [req EXCEPT ![p].pc = "rejected"]
  /\ UNCHANGED <<keys, lock, ruleKeys, totalKeys, sweep>>

Degraded(p) ==
  /\ req[p].pc = "refused" /\ totalKeys < MaxKeys /\ ~req[p].retried
  /\ req' = [req EXCEPT ![p] = [pc |-> "incr", rule |-> @.rule, val |-> @.ip, ip |-> @.ip, retried |-> TRUE]]
  /\ UNCHANGED <<keys, lock, ruleKeys, totalKeys, sweep>>

Missed(p) ==
  /\ req[p].pc = "refused" /\ totalKeys < MaxKeys /\ req[p].retried
  /\ req' = [req EXCEPT ![p].pc = "missed"]
  /\ UNCHANGED <<keys, lock, ruleKeys, totalKeys, sweep>>

-----------------------------------------------------------------------------
(* Sweeps: the shards one after the other. *)

SweepStart(c) ==
  /\ sweep[c].at = NumShards + 1 /\ ~sweep[c].lower
  /\ sweep' = [sweep EXCEPT ![c].at = 1]
  /\ UNCHANGED <<keys, lock, ruleKeys, totalKeys, req>>

(* Lock a shard and find the keys to remove there: those that are idle for *)
(* too long (Cleanup), or those of a rule (DropRule).                      *)
SweepShard(c, victims) ==
  /\ sweep[c].at <= NumShards /\ lock[sweep[c].at] = Free
  /\ victims \subseteq {k \in keys : ShardOf[k] = sweep[c].at}
  /\ lock'  = [lock EXCEPT ![sweep[c].at] = c]
  /\ sweep' = [sweep EXCEPT ![c].todo = victims]
  /\ UNCHANGED <<keys, ruleKeys, totalKeys, req>>

(* Remove a key: delete, and releaseKey under metaMu. *)
SweepKey(c, k) ==
  /\ ~sweep[c].lower /\ k \in sweep[c].todo
  /\ keys' = keys \ {k}
  /\ ruleKeys' = [ruleKeys EXCEPT ![k[1]] = IF @ <= 1 THEN 0 ELSE @ - 1]
  /\ sweep' = [sweep EXCEPT ![c].todo = @ \ {k}, ![c].lower = TRUE]
  /\ UNCHANGED <<lock, totalKeys, req>>

(* releaseKey after metaMu. *)
DecrementTwice(n) == n - 2  \* mutant: the key is released twice
Decrement(n)      == n - 1

SweepTotal(c) ==
  /\ sweep[c].lower
  /\ totalKeys' = Decrement(totalKeys)
  /\ sweep' = [sweep EXCEPT ![c].lower = FALSE]
  /\ UNCHANGED <<keys, lock, ruleKeys, req>>

SweepUnlock(c) ==
  /\ sweep[c].at <= NumShards /\ lock[sweep[c].at] = c
  /\ sweep[c].todo = {} /\ ~sweep[c].lower
  /\ lock'  = [lock EXCEPT ![sweep[c].at] = Free]
  /\ sweep' = [sweep EXCEPT ![c].at = @ + 1]
  /\ UNCHANGED <<keys, ruleKeys, totalKeys, req>>

Request(p) ==
  \/ \E r \in Rules, v, i \in Vals : Arrive(p, r, v, i)
  \/ Found(p) \/ Full(p) \/ NotFound(p) \/ Reserve(p) \/ OverQuota(p)
  \/ Rejected(p) \/ Degraded(p) \/ Missed(p)

Sweep(c) ==
  \/ SweepStart(c) \/ SweepTotal(c) \/ SweepUnlock(c)
  \/ \E victims \in SUBSET keys : SweepShard(c, victims)
  \/ \E k \in Keys : SweepKey(c, k)

Next == (\E p \in Procs : Request(p)) \/ (\E c \in Sweepers : Sweep(c))

Spec == Init /\ [][Next]_vars

-----------------------------------------------------------------------------
Outcomes == [pc : Over \cup {"incr", "reserve", "refused"}, rule : Rules, val : Vals, ip : Vals,
             retried : BOOLEAN]

(* The variables have their types; in particular the counter totalKeys,    *)
(* lowered outside every lock, never goes below zero.                      *)
TypeOK ==
  /\ keys \subseteq Keys /\ lock \in [Shards -> Procs \cup Sweepers \cup {Free}]
  /\ ruleKeys \in [Rules -> Nat] /\ totalKeys \in Nat
  /\ req \in [Procs -> Outcomes]
  /\ sweep \in [Sweepers -> [at : 1 .. NumShards + 1, todo : SUBSET Keys, lower : BOOLEAN]]

(* No rule has more keys than its quota, although requests and sweeps work *)
(* on different shards at the same time.                                   *)
QuotaHolds == \A r \in Rules : Cardinality(OfRule(r)) <= RuleQuota

(* The maximum is checked before the reservation and without a lock, so    *)
(* that it can be exceeded, but only by one key for each other shard.      *)
CapHolds == Cardinality(keys) <= MaxKeys + NumShards - 1

(* The counters agree with the table: ruleKeys always, totalKeys but for   *)
(* the keys whose removal is under way.                                    *)
Accounting ==
  /\ \A r \in Rules : ruleKeys[r] = Cardinality(OfRule(r))
  /\ totalKeys = Cardinality(keys) + Cardinality({c \in Sweepers : sweep[c].lower})

(* A rule over its quota counts by client IP: no request goes uncounted    *)
(* unless the global maximum is reached.                                   *)
OverQuotaCountsByIP == \A p \in Procs : req[p].pc # "missed"

=============================================================================
