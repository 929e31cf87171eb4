--------------------------- MODULE MCHostRouting ---------------------------
(* Instances of HostRouting for TLC. *)
EXTENDS HostRouting

CONSTANTS h1, h2      (* API requests, interchangeable *)
TwoHandlers   == {h1, h2}
HandlersAlike == Permutations(TwoHandlers)

Site(n, p, e, m, j, l) == [host |-> n, port |-> p, extra |-> e, more |-> m, jump |-> j, loose |-> l]

MCNames == {"www.a", "*.a", "b", "*"}
MCMask  == [n \in MCNames |-> IF n = "www.a" THEN "*.a" ELSE n]

(* s1, a wildcard, gets and loses further ports and names, the redirection *)
(* of port 80 and the port-free names; s2 is the catch-all of port 80.  No *)
(* two sites claim the same name and port.                                 *)
Wild == Site("*.a", 443, {8443}, {"b"}, FALSE, FALSE)
PlainOffers == [c \in {"s1", "s2"} |->
  IF c = "s1" THEN {Wild, Site("*.a", 443, {}, {"b"}, TRUE, FALSE), Site("*.a", 444, {443}, {}, FALSE, TRUE)}
  ELSE {Site("*", 80, {}, {}, FALSE, FALSE)}]
PlainRows  == [c \in {"s1"} |-> [cfg |-> Wild, guard |-> TRUE, cert |-> 0]]
MCRequests == {<<"www.a", 443>>, <<"www.a", 80>>, <<"b", 8443>>}

NoOps == [o \in Ops \cup {"all"} |-> 0]
PlainBudget == [NoOps EXCEPT !["add"] = 1, !["edit"] = 2, !["del"] = 1, !["guard"] = 1, !["rules"] = 1,
                             !["reload"] = 1, !["renew"] = 1, !["guardAll"] = 1, !["all"] = 3]

(* One certificate on three sites, one more than a channel holds (in the   *)
(* program: eleven sites, and channels of ten).                            *)
Many       == {"s1", "s2", "s3"}
ManyNames  == Many \cup {"*"}
ManyMask   == [n \in ManyNames |-> n]
ManyOffers == [c \in Many |-> {Site(c, 443, {}, {}, FALSE, FALSE)}]
ManyRows   == [c \in Many |-> [cfg |-> Site(c, 443, {}, {}, FALSE, FALSE), guard |-> TRUE, cert |-> 0]]
RenewBudget == [NoOps EXCEPT !["renew"] = 1, !["all"] = 1]
=============================================================================
