-------------------------- MODULE MCPaymentWatcher --------------------------
(* PaymentWatcher on small instances.                                      *)
EXTENDS PaymentWatcher, TLC

CONSTANTS t1, s1, s2

AnyPass == Permutations(Passes)

Some(fs) == [f \in Fault |-> IF f \in fs THEN 1 ELSE 0]
OneThrow == Some({"throw"})
Overlap == Some({"lockLoss", "reorg"})
=============================================================================
