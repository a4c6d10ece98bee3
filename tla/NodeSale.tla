------------------------------ MODULE NodeSale ------------------------------
(***************************************************************************)
(* What the sale of nodes promises a buyer, whatever the passes, the       *)
(* network and the administrator do in between: a payment is recorded, at  *)
(* most one node is made for it and never before it was recorded, and      *)
(* `minted` is said once, for ever, and only of a payment whose node is    *)
(* there (src/lib/payments.ts, src/lib/mintRelay.ts).                      *)
(***************************************************************************)
EXTENDS Naturals, Sequences

CONSTANT Payments

VARIABLES
    taken,      \* payments with a row
    delivered,  \* payment refs of the nodes, in the order they were made
    said        \* payments reported as minted

saleVars == <<taken, delivered, said>>

HasNode(p) == \E n \in 1..Len(delivered) : delivered[n] = p

SaleInit == taken = {} /\ delivered = <<>> /\ said = {}

\* A payment is recorded.
Take(p) ==
    /\ p \notin taken
    /\ taken' = taken \union {p}
    /\ UNCHANGED <<delivered, said>>

\* The factory makes the node of a recorded payment.
Deliver(p) ==
    /\ p \in taken /\ ~HasNode(p)
    /\ delivered' = Append(delivered, p)
    /\ UNCHANGED <<taken, said>>

\* The payment is reported as minted.
Say(p) ==
    /\ HasNode(p) /\ p \in taken
    /\ said' = said \union {p}
    /\ UNCHANGED <<taken, delivered>>

SaleNext == \E p \in Payments : Take(p) \/ Deliver(p) \/ Say(p)

SaleSpec == SaleInit /\ [][SaleNext]_saleVars
=============================================================================
