----------------------------- MODULE MCDashboard -----------------------------
(* Dashboard on small instances: two accounts, of which the first has the    *)
(* node.                                                                     *)
EXTENDS Dashboard

CONSTANTS a, b

First == [n \in Node |-> a]
=============================================================================
