------------------------------ MODULE MCCCKeys ------------------------------
(* Instances of CCKeys for TLC. *)
EXTENDS CCKeys, TLC

CONSTANTS r1, r2, v1, v2, v3, p1, p2

TwoRules == {r1, r2}
Values   == {v1, v2, v3}
Clients  == {p1, p2}

(* Each rule has keys in both shards, and each shard keys of both rules. *)
TwoShards == [k \in TwoRules \X Values |-> IF k \in {<<r1, v1>>, <<r1, v2>>, <<r2, v1>>} THEN 1 ELSE 2]

Symmetry == Permutations(Clients)
=============================================================================
