---------------------------- MODULE MCMintRelay ----------------------------
(* MintRelay on small instances: which buyers pay, and how much goes wrong. *)
EXTENDS MintRelay, TLC

CONSTANTS s1, s2

AnyPass == Permutations(Passes)

OneBuyer == [p \in {1, 2} |-> <<"alice", "base">>]
Lone == [p \in {1} |-> <<"alice", "base">>]

Some(whats) == [w \in Human \union Fault |-> IF w \in whats THEN 1 ELSE 0]
Overlap == Some({"refund", "requeue", "lockLoss", "answer"})
OneCrash == Some({"crash"})
OneRequeue == Some({"requeue"})
OneRefund == Some({"refund"})
=============================================================================
