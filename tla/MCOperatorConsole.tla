-------------------------- MODULE MCOperatorConsole --------------------------
(* OperatorConsole with an environment that allows a narrow range only, and  *)
(* patches and rows that fit it alone but not together.                      *)
EXTENDS OperatorConsole, TLC

Narrow == [f \in Field |-> IF f \in {"lo", "hi"} THEN 2 ELSE 1]
Patches == {"lo" :> 1 @@ "hi" :> 1, "lo" :> 2 @@ "on" :> 0}
Strays == {"lo" :> 0, "hi" :> Unusable @@ "cap" :> 0}
Once == [f \in Fault |-> 1]
=============================================================================
