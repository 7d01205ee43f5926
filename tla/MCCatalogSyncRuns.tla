------------------------- MODULE MCCatalogSyncRuns --------------------------
(* Instances of CatalogSyncRuns for TLC.                                   *)
EXTENDS CatalogSyncRuns

CONSTANTS p1, p2, p3, pidA, pidB, h1, h2, s1, s2

(* p3 reuses the PID of p1; in the two-host instance p2 runs elsewhere.    *)
ThreePids == [p \in Proc |-> IF p = p2 THEN pidB ELSE pidA]
OneHost == [p \in Proc |-> h1]
TwoHosts == [p \in Proc |-> IF p = p2 THEN h2 ELSE h1]

(* Execution runs on one source or on all of them; a plan over everything. *)
OneSourceRequests ==
  {<<"EXECUTION", s1>>, <<"EXECUTION", Global>>, <<"PLAN", Global>>}
PlanOrOneSource == {<<"EXECUTION", s1>>, <<"PLAN", Global>>}
TwoSourceRequests == PlanOrOneSource \cup
  {<<"EXECUTION", s2>>, <<"EXECUTION", Global>>}
=============================================================================
