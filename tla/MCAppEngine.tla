---------------------------- MODULE MCAppEngine ----------------------------
(* Instances of AppEngine for TLC. *)
EXTENDS AppEngine

RowOf(b, p, c) == [there |-> TRUE, on |-> b, policy |-> p, cmd |-> c]
SomeRows   == {RowOf(TRUE, "always", FALSE), RowOf(TRUE, "on-failure", TRUE), RowOf(FALSE, "no", FALSE)}
BusyBudget == [k \in Kinds |-> CASE k = "all" -> 4 [] k \in {"op", "fail"} -> 2 [] OTHER -> 1]
=============================================================================
