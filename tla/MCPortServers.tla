--------------------------- MODULE MCPortServers ---------------------------
(* Instances of PortServers for TLC. *)
EXTENDS PortServers

TwoRows  == [c \in {"a", "b"} |-> {{}, {80}}]
OneRow   == [c \in {"a", "b"} |-> IF c = "a" THEN {80} ELSE {}]
NoKinds  == [k \in Kinds |-> 0]
BusyBudget == [k \in Kinds |-> IF k = "row" THEN 2 ELSE 1]
StopBudget == [NoKinds EXCEPT !["row"] = 1, !["stop"] = 1]
=============================================================================
