---------------------------- MODULE MCSupervisor ----------------------------
(* Instances of Supervisor for TLC: each one names the events it allows. *)
EXTENDS Supervisor, TLC

OnlyLatest == {Latest}
SameProto  == [v \in Versions |-> 1]
(* Version 3 speaks another protocol than the others. *)
NewProto   == [v \in Versions |-> IF v = 3 THEN 2 ELSE 1]

Quiet == [e \in Events |-> 0]

(* One new version whose upgrade may fail in every way, then the handoff. *)
UpgradeBudget == "install" :> 1 @@ "bootFail" :> 1 @@ "readyTimeout" :> 1 @@ "spawnFail" :> 1
                   @@ "rollbackFail" :> 1 @@ Quiet
(* The Supervisor crashes, also in the middle of a rolling restart, its     *)
(* timeouts are too short, the service may be stopped.                      *)
AdoptBudget == "supCrash" :> 1 @@ "trigger" :> 1 @@ "stop" :> 1 @@ "late" :> 1
                 @@ "readyTimeout" :> 1 @@ Quiet
(* The service is stopped, also while its Worker starts, and started again. *)
StopBudget == "stop" :> 1 @@ "restart" :> 1 @@ "crash" :> 1 @@ Quiet
(* A new version, with faults. *)
LiveBudget == "install" :> 1 @@ "cut" :> 1 @@ "bootFail" :> 1 @@ "spawnFail" :> 1
                @@ "overtake" :> 1 @@ Quiet
(* A version that crashes again and again after the switch. *)
BadBudget == "install" :> 1 @@ "crash" :> 1 @@ "bootFail" :> 2 @@ "rollbackFail" :> 1 @@ Quiet

(* Combinations under which a statement of the sources fails: the README's  *)
(* scenarios.                                                               *)
CrashInUpgrade  == "trigger" :> 1 @@ "crash" :> 1 @@ Quiet
SecondInstall   == "install" :> 2 @@ "spawnFail" :> 1 @@ "bootFail" :> 1 @@ Quiet
CutInUpgrade    == "trigger" :> 1 @@ "cut" :> 1 @@ Quiet
EarlyReady      == "trigger" :> 1 @@ "earlyReady" :> 1 @@ Quiet
TriggerInAdopt  == "install" :> 1 @@ "trigger" :> 1 @@ Quiet
SupervisorCrash == "supCrash" :> 1 @@ Quiet
StopInUpgrade   == "install" :> 1 @@ "stop" :> 1 @@ Quiet
NewProtocol     == "install" :> 1 @@ "supCrash" :> 1 @@ Quiet
CrashNewProtocol == "install" :> 1 @@ "crash" :> 1 @@ Quiet
Overtaken       == "trigger" :> 1 @@ "overtake" :> 1 @@ Quiet
=============================================================================
