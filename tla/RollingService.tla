--------------------------- MODULE RollingService ---------------------------
(***************************************************************************)
(* What the Supervisor promises about the service as a whole, without any  *)
(* Supervisor in it: Workers come and go, one takes over from the other,   *)
(* the service never has a gap once it has started, and the exclusive      *)
(* singletons (tunnels, applications, cron) have one owner at a time, who  *)
(* keeps them until its process has ended.                                 *)
(***************************************************************************)
CONSTANTS Workers, NoOwner   (* NoOwner is not a Worker *)

VARIABLES
  stage,   \* of each Worker: "new", "up", "leaving" or "gone"
  owner    \* the Worker that runs the singletons

vars == <<stage, owner>>

Init ==
  /\ stage = [w \in Workers |-> "new"]
  /\ owner = NoOwner

(* A Worker begins to serve, with the singletons or without them. *)
Join(w) ==
  /\ stage[w] = "new"
  /\ stage' = [stage EXCEPT ![w] = "up"]
  /\ owner' \in IF owner = NoOwner THEN {NoOwner, w} ELSE {owner}

(* A Worker that serves takes the singletons over, once nobody has them. *)
Own(w) ==
  /\ stage[w] = "up" /\ owner = NoOwner
  /\ owner' = w
  /\ UNCHANGED stage

(* A Worker stops taking requests, only if another one takes them. *)
Leave(w) ==
  /\ stage[w] = "up" /\ \E v \in Workers \ {w} : stage[v] = "up"
  /\ stage' = [stage EXCEPT ![w] = "leaving"]
  /\ UNCHANGED owner

(* Its process ends, and with it the singletons it runs. *)
End(w) ==
  /\ stage[w] = "leaving"
  /\ stage' = [stage EXCEPT ![w] = "gone"]
  /\ owner' = IF owner = w THEN NoOwner ELSE owner

(* A Worker that never came to serve is given up, or one that serves beside *)
(* another and does not have the singletons.                                *)
Abandon(w) ==
  /\ \/ stage[w] = "new"
     \/ stage[w] = "up" /\ owner # w /\ \E v \in Workers \ {w} : stage[v] = "up"
  /\ stage' = [stage EXCEPT ![w] = "gone"]
  /\ UNCHANGED owner

Next == \E w \in Workers : Join(w) \/ Own(w) \/ Leave(w) \/ End(w) \/ Abandon(w)

Spec == Init /\ [][Next]_vars
=============================================================================
