---------------------------- MODULE MCCreditPass ----------------------------
(* CreditPass on small instances: which nodes are scheduled, and how much  *)
(* goes wrong.                                                             *)
EXTENDS CreditPass, TLC

CONSTANTS a, b, x, d1, d2

Anybody == Permutations(Drivers) \union Permutations(Nodes)

Some(fs) == [f \in Fault |-> IF f \in fs THEN 1 ELSE 0]
Faults == Some({"lost", "book", "salvage", "lockLoss"})
Restless == Some({"skip", "crash"})
Lost == Some({"lost"})
Unrecorded == Some({"book"})
=============================================================================
