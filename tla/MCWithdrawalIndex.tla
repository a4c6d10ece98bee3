-------------------------- MODULE MCWithdrawalIndex --------------------------
(* WithdrawalIndex on a chain of a few blocks.                               *)
EXTENDS WithdrawalIndex
=============================================================================
