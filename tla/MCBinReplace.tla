---------------------------- MODULE MCBinReplace ----------------------------
(* Instances of BinReplace for TLC. *)
EXTENDS BinReplace, TLC

NoEvents == [e \in Events |-> 0]

(* Three replacements one after the other, with faults and restarts. *)
SoloBudget == "op" :> 3 @@ "fail" :> 2 @@ "cut" :> 1 @@ "crash" :> 1 @@ "restart" :> 1 @@ "age" :> 1
                @@ NoEvents
(* An installation and a rollback, without any fault. *)
PlainBudget == "op" :> 2 @@ NoEvents
(* Replacements by several processes at the same time, without any fault. *)
RaceBudget == "op" :> 3 @@ "restart" :> 3 @@ NoEvents
=============================================================================
