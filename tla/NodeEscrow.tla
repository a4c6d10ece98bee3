----------------------------- MODULE NodeEscrow -----------------------------
(***************************************************************************)
(* What the factory contract promises the holders of nodes, without saying *)
(* how: a pot of wei in which every node has a claim.  Wei enter the pot   *)
(* with the claims they back, or as surplus; they leave it to settle whole *)
(* claims, or out of the surplus, and in no other way.  There is no stored *)
(* total here: the pot covers the claims themselves.                       *)
(***************************************************************************)
EXTENDS Integers, Sums

CONSTANT MaxNodes     \* the number of nodes there can be

VARIABLES
    claim,            \* what each node may take out
    pot               \* the wei held

vars == <<claim, pot>>

Ids == 1..MaxNodes

Init ==
    /\ claim = [id \in Ids |-> 0]
    /\ pot = 0

\* The part of the claims that the nodes in S hold.
ClaimsOf(S) == [id \in Ids |-> IF id \in S THEN claim[id] ELSE 0]

\* New claims arrive together with the wei that back them.
Credit ==
    LET added == [id \in Ids |-> claim'[id] - claim[id]]
    IN  /\ claim' \in [Ids -> Nat]
        /\ added \in [Ids -> Nat]
        /\ pot' = pot + Sum(added, MaxNodes)

\* The claims of the nodes in S are settled in full.  The holder may leave the
\* wei in the pot as surplus.
Settle(S) ==
    /\ claim' = [id \in Ids |-> IF id \in S THEN 0 ELSE claim[id]]
    /\ \/ pot' = pot - Sum(ClaimsOf(S), MaxNodes)
       \/ pot' = pot

TopUp ==
    /\ pot' \in Nat /\ pot' > pot
    /\ UNCHANGED claim

\* Only what no node has a claim on can be taken out by anybody else.
TakeSurplus ==
    /\ pot' \in Sum(claim, MaxNodes)..pot
    /\ UNCHANGED claim

Next ==
    \/ Credit
    \/ \E S \in SUBSET Ids : Settle(S)
    \/ TopUp
    \/ TakeSurplus

Spec == Init /\ [][Next]_vars
=============================================================================
