--------------------------- MODULE MCDeployDialog ---------------------------
(* DeployDialog and the ledger under it on small instances: one wallet buys  *)
(* every node, so that an old or a foreign payment's node can be mistaken;   *)
(* the reconciler chases one node at a time, so that one has to wait.        *)
EXTENDS DeployDialog

CONSTANTS tab, server

OneWallet == [t \in Mint |-> Me]
Once == [f \in Fault |-> 1]
=============================================================================
