-------------------------- MODULE MintRelayProofs --------------------------
(***************************************************************************)
(* Proofs about MintRelay, for any payments, passes, limits and faults.    *)
(***************************************************************************)
EXTENDS MintRelay, SequenceTheorems, FiniteSetTheorems, TLAPS

\* What a place in a pass says of the pass's own data.
AtWork == \A s \in Passes :
    /\ pc[s] \in Inner \union {"fail"} => row[s] \in todo[s]
    /\ pc[s] \in {"schedule", "ledger", "mark"} =>
         found[s] \in 1..Len(nodes) /\ nodes[found[s]] = row[s]
    /\ pc[s] = "mark" => found[s] \in ledger /\ found[s] \in sched
    /\ pc[s] \in {"off", "sweep", "claim"} => todo[s] = {}

\* Old rows are in `minting`, and only dead passes leave a row to grow old.
AgedRows == \A p \in aged :
    status[p] = "minting" /\ \A s \in Passes : p \notin todo[s]

\* Every transaction, node and claim is for a payment that has a row.
RecordedFirst ==
    /\ \A t \in 1..Len(sent) : status[sent[t].ref] # "none"
    /\ \A n \in 1..Len(nodes) : status[nodes[n]] # "none"
    /\ \A s \in Passes : \A p \in todo[s] : status[p] # "none"

OneNode == \A m, n \in 1..Len(nodes) : nodes[m] = nodes[n] => m = n

Shape == TypeOK /\ AtWork

USE RelayAssumption DEF RelayAssumption

(* The initial state. *)
LEMMA InitShape == Init => Shape
  BY DEF Init, Shape, TypeOK, TableType, ChainType, BookType, RelayType, BudgetType,
         AtWork, Statuses, Places, Inner, Human, Fault, Fates

(* Types and places are kept by every step. *)
LEMMA NextShape == Shape /\ [Next]_vars => Shape'
<1> SUFFICES ASSUME Shape, [Next]_vars PROVE Shape'
  OBVIOUS
<1> USE DEF Shape, TypeOK, table, chain, book, relay, hand
<1>1. ASSUME NEW s \in Passes, Start(s) PROVE Shape'
  <2>1. TableType'
    BY <1>1 DEF Start, TableType
  <2>2. ChainType'
    BY <1>1 DEF Start, ChainType
  <2>3. BookType'
    BY <1>1 DEF Start, BookType
  <2>4. RelayType'
    BY <1>1 DEF Start, At, Goto, RelayType, TableType, ChainType, Places, Inner
  <2>5. BudgetType'
    BY <1>1 DEF Start, BudgetType
  <2>6. AtWork'
    BY <1>1 DEF Start, At, Goto, AtWork, RelayType, ChainType, BookType, Places, Inner
  <2>q. QED BY <2>1, <2>2, <2>3, <2>4, <2>5, <2>6
<1>2. ASSUME NEW s \in Passes, Sweep(s) PROVE Shape'
  <2>1. TableType'
    BY <1>2 DEF Sweep, TableType, Statuses, RelayType
  <2>2. ChainType'
    BY <1>2 DEF Sweep, ChainType
  <2>3. BookType'
    BY <1>2 DEF Sweep, BookType
  <2>4. RelayType'
    BY <1>2 DEF Sweep, At, Goto, RelayType, TableType, ChainType, Places, Inner
  <2>5. BudgetType'
    BY <1>2 DEF Sweep, BudgetType
  <2>6. AtWork'
    BY <1>2 DEF Sweep, At, Goto, AtWork, RelayType, ChainType, BookType, Places, Inner
  <2>q. QED BY <2>1, <2>2, <2>3, <2>4, <2>5, <2>6
<1>3. ASSUME NEW s \in Passes, Claim(s) PROVE Shape'
  <2>1. TableType'
    <3>1. PICK c \in SUBSET Payments :
            IF c = {}
            THEN Quit(s) /\ UNCHANGED <<status, aged>>
            ELSE /\ status' = [p \in Payments |-> IF p \in c THEN "minting" ELSE status[p]]
                 /\ aged' = aged \ c
                 /\ todo' = [todo EXCEPT ![s] = c]
                 /\ Goto(s, "authorise")
                 /\ UNCHANGED <<hand, lock>>
      BY <1>3 DEF Claim
    <3>2. CASE c = {}
      BY <1>3, <3>1, <3>2 DEF Claim, TableType
    <3>3. CASE c # {}
      BY <1>3, <3>1, <3>3 DEF Claim, TableType, Statuses
    <3>q. QED BY <3>2, <3>3
  <2>2. ChainType'
    BY <1>3 DEF Claim, Quit, ChainType
  <2>3. BookType'
    BY <1>3 DEF Claim, Quit, BookType
  <2>4. RelayType'
    <3>1. PICK c \in SUBSET Payments :
            IF c = {}
            THEN Quit(s) /\ UNCHANGED <<status, aged>>
            ELSE /\ status' = [p \in Payments |-> IF p \in c THEN "minting" ELSE status[p]]
                 /\ aged' = aged \ c
                 /\ todo' = [todo EXCEPT ![s] = c]
                 /\ Goto(s, "authorise")
                 /\ UNCHANGED <<hand, lock>>
      BY <1>3 DEF Claim
    <3>0. UNCHANGED <<nodes, sent>>
      BY <1>3 DEF Claim
    <3>2. CASE c = {}
      <4>1. Quit(s)
        BY <3>1, <3>2
      <4>q. QED BY <3>0, <4>1 DEF Quit, Goto, RelayType, ChainType, Places
    <3>3. CASE c # {}
      BY <3>0, <3>1, <3>3 DEF Goto, RelayType, Places
    <3>q. QED BY <3>2, <3>3
  <2>5. BudgetType'
    BY <1>3 DEF Claim, Quit, BudgetType
  <2>6. AtWork'
    BY <1>3 DEF Claim, At, Goto, Quit, Batch, Claimable, AtWork, RelayType, ChainType, BookType, Places, Inner
  <2>q. QED BY <2>1, <2>2, <2>3, <2>4, <2>5, <2>6
<1>4. ASSUME NEW s \in Passes, Authorise(s) PROVE Shape'
  <2>1. TableType'
    BY <1>4 DEF Authorise, TableType
  <2>2. ChainType'
    BY <1>4 DEF Authorise, ChainType
  <2>3. BookType'
    BY <1>4 DEF Authorise, BookType
  <2>4. RelayType'
    BY <1>4 DEF Authorise, At, Goto, RelayType, TableType, ChainType, Places, Inner
  <2>5. BudgetType'
    BY <1>4 DEF Authorise, BudgetType
  <2>6. AtWork'
    <3>1. pc[s] = "authorise" /\ UNCHANGED <<nodes, row, found, todo, ledger, sched>>
      BY <1>4 DEF Authorise, At
    <3>2. CASE Goto(s, "next")
      BY <3>1, <3>2 DEF Goto, AtWork, RelayType, Inner
    <3>3. CASE Goto(s, "putback")
      BY <3>1, <3>3 DEF Goto, AtWork, RelayType, Inner
    <3>q. QED BY <1>4, <3>2, <3>3 DEF Authorise
  <2>q. QED BY <2>1, <2>2, <2>3, <2>4, <2>5, <2>6
<1>5. ASSUME NEW s \in Passes, PutBack(s) PROVE Shape'
  <2>1. TableType'
    <3>1. CASE \E p \in todo[s] : /\ MarkMintFailed(p)
                                /\ todo' = [todo EXCEPT ![s] = @ \ {p}]
                                /\ UNCHANGED <<pc, hand, lock>>
      BY <1>5, <3>1 DEF PutBack, MarkMintFailed, Write, TableType, Statuses, RelayType
    <3>2. CASE todo[s] = {} /\ Quit(s) /\ UNCHANGED table
      BY <1>5, <3>2 DEF PutBack, TableType
    <3>q. QED BY <1>5, <3>1, <3>2 DEF PutBack
  <2>2. ChainType'
    BY <1>5 DEF PutBack, Quit, ChainType
  <2>3. BookType'
    BY <1>5 DEF PutBack, Quit, BookType
  <2>4. RelayType'
    <3>1. CASE \E p \in todo[s] : /\ MarkMintFailed(p)
                                /\ todo' = [todo EXCEPT ![s] = @ \ {p}]
                                /\ UNCHANGED <<pc, hand, lock>>
      BY <1>5, <3>1 DEF PutBack, RelayType
    <3>2. CASE todo[s] = {} /\ Quit(s) /\ UNCHANGED table
      BY <1>5, <3>2 DEF PutBack, Quit, Goto, RelayType, Places
    <3>q. QED BY <1>5, <3>1, <3>2 DEF PutBack
  <2>5. BudgetType'
    BY <1>5 DEF PutBack, Quit, BudgetType
  <2>6. AtWork'
    <3>1. CASE \E p \in todo[s] : /\ MarkMintFailed(p)
                                /\ todo' = [todo EXCEPT ![s] = @ \ {p}]
                                /\ UNCHANGED <<pc, hand, lock>>
      BY <1>5, <3>1 DEF PutBack, At, RelayType, AtWork, Inner
    <3>2. CASE todo[s] = {} /\ Quit(s) /\ UNCHANGED table
      BY <1>5, <3>2 DEF PutBack, Quit, Goto, RelayType, AtWork, Inner
    <3>q. QED BY <1>5, <3>1, <3>2 DEF PutBack
  <2>q. QED BY <2>1, <2>2, <2>3, <2>4, <2>5, <2>6
<1>6. ASSUME NEW s \in Passes, Pick(s) PROVE Shape'
  <2>1. TableType'
    BY <1>6 DEF Pick, TableType
  <2>2. ChainType'
    BY <1>6 DEF Pick, ChainType
  <2>3. BookType'
    BY <1>6 DEF Pick, BookType
  <2>4. RelayType'
    BY <1>6 DEF Pick, At, Goto, RelayType, TableType, ChainType, Places, Inner
  <2>5. BudgetType'
    BY <1>6 DEF Pick, BudgetType
  <2>6. AtWork'
    BY <1>6 DEF Pick, At, Goto, AtWork, RelayType, ChainType, BookType, Places, Inner
  <2>q. QED BY <2>1, <2>2, <2>3, <2>4, <2>5, <2>6
<1>7. ASSUME NEW s \in Passes, Finish(s) PROVE Shape'
  <2>1. TableType'
    BY <1>7 DEF Finish, TableType
  <2>2. ChainType'
    BY <1>7 DEF Finish, ChainType
  <2>3. BookType'
    BY <1>7 DEF Finish, BookType
  <2>4. RelayType'
    BY <1>7 DEF Finish, At, Goto, Quit, RelayType, TableType, ChainType, Places, Inner
  <2>5. BudgetType'
    BY <1>7 DEF Finish, BudgetType
  <2>6. AtWork'
    BY <1>7 DEF Finish, At, Goto, Quit, AtWork, RelayType, ChainType, BookType, Places, Inner
  <2>q. QED BY <2>1, <2>2, <2>3, <2>4, <2>5, <2>6
<1>8. ASSUME NEW s \in Passes, Verify(s) PROVE Shape'
  <2>1. TableType'
    BY <1>8 DEF Verify, Step, TableType
  <2>2. ChainType'
    BY <1>8 DEF Verify, Step, ChainType
  <2>3. BookType'
    BY <1>8 DEF Verify, Step, BookType
  <2>4. RelayType'
    BY <1>8 DEF Verify, Step, At, Goto, RelayType, TableType, ChainType, Places, Inner
  <2>5. BudgetType'
    BY <1>8 DEF Verify, Step, BudgetType
  <2>6. AtWork'
    BY <1>8 DEF Verify, Step, At, Goto, AtWork, RelayType, ChainType, BookType, Places, Inner
  <2>q. QED BY <2>1, <2>2, <2>3, <2>4, <2>5, <2>6
<1>9. ASSUME NEW s \in Passes, Probe(s) PROVE Shape'
  <2>1. TableType'
    BY <1>9 DEF Probe, Step, TableType
  <2>2. ChainType'
    BY <1>9 DEF Probe, Step, ChainType
  <2>3. BookType'
    BY <1>9 DEF Probe, Step, BookType
  <2>4. RelayType'
    BY <1>9 DEF Probe, Step, At, Goto, RelayType, TableType, ChainType, Places, Inner
  <2>5. BudgetType'
    BY <1>9 DEF Probe, Step, BudgetType
  <2>6. AtWork'
    BY <1>9 DEF Probe, Step, At, Goto, AtWork, RelayType, ChainType, BookType, Places, Inner
  <2>q. QED BY <2>1, <2>2, <2>3, <2>4, <2>5, <2>6
<1>10. ASSUME NEW s \in Passes, Allow(s) PROVE Shape'
  <2>1. TableType'
    BY <1>10 DEF Allow, Step, TableType
  <2>2. ChainType'
    BY <1>10 DEF Allow, Step, ChainType
  <2>3. BookType'
    BY <1>10 DEF Allow, Step, BookType
  <2>4. RelayType'
    BY <1>10 DEF Allow, Step, At, Goto, RelayType, TableType, ChainType, Places, Inner
  <2>5. BudgetType'
    BY <1>10 DEF Allow, Step, BudgetType
  <2>6. AtWork'
    BY <1>10 DEF Allow, Step, At, Goto, AtWork, RelayType, ChainType, BookType, Places, Inner
  <2>q. QED BY <2>1, <2>2, <2>3, <2>4, <2>5, <2>6
<1>11. ASSUME NEW s \in Passes, Simulate(s) PROVE Shape'
  <2>1. TableType'
    BY <1>11 DEF Simulate, Step, TableType
  <2>2. ChainType'
    BY <1>11 DEF Simulate, Step, ChainType
  <2>3. BookType'
    BY <1>11 DEF Simulate, Step, BookType
  <2>4. RelayType'
    BY <1>11 DEF Simulate, Step, At, Goto, RelayType, TableType, ChainType, Places, Inner
  <2>5. BudgetType'
    BY <1>11 DEF Simulate, Step, BudgetType
  <2>6. AtWork'
    BY <1>11 DEF Simulate, Step, At, Goto, AtWork, RelayType, ChainType, BookType, Places, Inner
  <2>q. QED BY <2>1, <2>2, <2>3, <2>4, <2>5, <2>6
<1>12. ASSUME NEW s \in Passes, Send(s) PROVE Shape'
  <2>1. TableType'
    BY <1>12 DEF Send, Step, TableType, AtWork, Inner
  <2>2. ChainType'
    BY <1>12 DEF Send, Step, Step, At, Fates, ChainType, RelayType, AtWork, Inner
  <2>3. BookType'
    BY <1>12 DEF Send, Step, BookType
  <2>4. RelayType'
    BY <1>12 DEF Send, Step, At, Goto, RelayType, TableType, ChainType, Places, Inner
  <2>5. BudgetType'
    BY <1>12 DEF Send, Step, BudgetType
  <2>6. AtWork'
    BY <1>12 DEF Send, Step, At, Goto, AtWork, RelayType, ChainType, BookType, Places, Inner
  <2>q. QED BY <2>1, <2>2, <2>3, <2>4, <2>5, <2>6
<1>13. ASSUME NEW s \in Passes, Receipt(s) PROVE Shape'
  <2>1. TableType'
    BY <1>13 DEF Receipt, Step, TableType
  <2>2. ChainType'
    BY <1>13 DEF Receipt, Step, ChainType
  <2>3. BookType'
    BY <1>13 DEF Receipt, Step, BookType
  <2>4. RelayType'
    <3>1. UNCHANGED <<chain, row, tx, todo, lock>>
      BY <1>13 DEF Receipt, Step
    <3>2. pc' \in [Passes -> Places]
      BY <1>13 DEF Receipt, Step, Goto, RelayType, Places, Inner
    <3>3. found' \in [Passes -> 0..Len(nodes)]
      <4>1. CASE \E n \in 1..Len(nodes) :
                   nodes[n] = row[s] /\ found' = [found EXCEPT ![s] = n]
        BY <4>1 DEF RelayType
      <4>2. CASE UNCHANGED found
        BY <4>2 DEF RelayType
      <4>q. QED BY <1>13, <4>1, <4>2 DEF Receipt
    <3>q. QED BY <3>1, <3>2, <3>3 DEF RelayType
  <2>5. BudgetType'
    BY <1>13 DEF Receipt, Step, BudgetType
  <2>6. AtWork'
    <3>1. /\ UNCHANGED <<nodes, row, todo, ledger, sched>>
          /\ pc[s] = "wait"
      BY <1>13 DEF Receipt, Step, At
    <3>2. CASE /\ Goto(s, "schedule")
               /\ \E n \in 1..Len(nodes) :
                    nodes[n] = row[s] /\ found' = [found EXCEPT ![s] = n]
      BY <3>1, <3>2 DEF Goto, AtWork, RelayType, Inner
    <3>3. CASE Goto(s, "recheck") /\ UNCHANGED found
      BY <3>1, <3>3 DEF Goto, AtWork, RelayType, Inner
    <3>q. QED BY <1>13, <3>2, <3>3 DEF Receipt, Step
  <2>q. QED BY <2>1, <2>2, <2>3, <2>4, <2>5, <2>6
<1>14. ASSUME NEW s \in Passes, Recheck(s) PROVE Shape'
  <2>1. TableType'
    BY <1>14 DEF Recheck, Step, TableType
  <2>2. ChainType'
    BY <1>14 DEF Recheck, Step, ChainType
  <2>3. BookType'
    BY <1>14 DEF Recheck, Step, BookType
  <2>4. RelayType'
    BY <1>14 DEF Recheck, Step, At, Goto, RelayType, TableType, ChainType, Places, Inner
  <2>5. BudgetType'
    BY <1>14 DEF Recheck, Step, BudgetType
  <2>6. AtWork'
    BY <1>14 DEF Recheck, Step, At, Goto, AtWork, RelayType, ChainType, BookType, Places, Inner
  <2>q. QED BY <2>1, <2>2, <2>3, <2>4, <2>5, <2>6
<1>15. ASSUME NEW s \in Passes, Resolve(s) PROVE Shape'
  <2>1. TableType'
    BY <1>15 DEF Resolve, Step, TableType
  <2>2. ChainType'
    BY <1>15 DEF Resolve, Step, ChainType
  <2>3. BookType'
    BY <1>15 DEF Resolve, Step, BookType
  <2>4. RelayType'
    <3>1. UNCHANGED <<chain, row, tx, todo, lock>>
      BY <1>15 DEF Resolve, Step
    <3>2. pc' \in [Passes -> Places]
      BY <1>15 DEF Resolve, Step, Goto, RelayType, Places, Inner
    <3>3. found' \in [Passes -> 0..Len(nodes)]
      BY <1>15 DEF Resolve, RelayType, ChainType
    <3>q. QED BY <3>1, <3>2, <3>3 DEF RelayType
  <2>5. BudgetType'
    BY <1>15 DEF Resolve, Step, BudgetType
  <2>6. AtWork'
    <3>1. /\ UNCHANGED <<nodes, row, todo, ledger, sched>>
          /\ pc[s] = "resolve"
      BY <1>15 DEF Resolve, Step, At
    <3>2. CASE /\ Goto(s, "schedule")
               /\ \E n \in 1..indexed :
                    nodes[n] = row[s] /\ found' = [found EXCEPT ![s] = n]
      <4>1. PICK n \in 1..indexed :
              nodes[n] = row[s] /\ found' = [found EXCEPT ![s] = n]
        BY <3>2
      <4>2. n \in 1..Len(nodes)
        BY DEF ChainType
      <4>q. QED BY <3>1, <3>2, <4>1, <4>2 DEF Goto, AtWork, RelayType, Inner
    <3>3. CASE Goto(s, "fail") /\ UNCHANGED found
      BY <3>1, <3>3 DEF Goto, AtWork, RelayType, Inner
    <3>q. QED BY <1>15, <3>2, <3>3 DEF Resolve, Step
  <2>q. QED BY <2>1, <2>2, <2>3, <2>4, <2>5, <2>6
<1>16. ASSUME NEW s \in Passes, ScheduleNode(s) PROVE Shape'
  <2>1. TableType'
    BY <1>16 DEF ScheduleNode, TableType, AtWork, Inner
  <2>2. ChainType'
    BY <1>16 DEF ScheduleNode, ChainType
  <2>3. BookType'
    BY <1>16 DEF ScheduleNode, At, BookType, AtWork, Inner
  <2>4. RelayType'
    BY <1>16 DEF ScheduleNode, At, Goto, RelayType, TableType, ChainType, Places, Inner
  <2>5. BudgetType'
    BY <1>16 DEF ScheduleNode, BudgetType
  <2>6. AtWork'
    BY <1>16 DEF ScheduleNode, At, Goto, AtWork, RelayType, ChainType, BookType, Places, Inner
  <2>q. QED BY <2>1, <2>2, <2>3, <2>4, <2>5, <2>6
<1>17. ASSUME NEW s \in Passes, RecordNode(s) PROVE Shape'
  <2>1. TableType'
    BY <1>17 DEF RecordNode, TableType, AtWork, Inner
  <2>2. ChainType'
    BY <1>17 DEF RecordNode, ChainType
  <2>3. BookType'
    BY <1>17 DEF RecordNode, At, BookType, AtWork, Inner
  <2>4. RelayType'
    BY <1>17 DEF RecordNode, At, Goto, RelayType, TableType, ChainType, Places, Inner
  <2>5. BudgetType'
    BY <1>17 DEF RecordNode, BudgetType
  <2>6. AtWork'
    BY <1>17 DEF RecordNode, At, Goto, AtWork, RelayType, ChainType, BookType, Places, Inner
  <2>q. QED BY <2>1, <2>2, <2>3, <2>4, <2>5, <2>6
<1>18. ASSUME NEW s \in Passes, Mark(s) PROVE Shape'
  <2>1. TableType'
    <3>1. row[s] \in Payments /\ found[s] \in Nat
      BY <1>18 DEF Mark, At, AtWork, RelayType, ChainType, Inner
    <3>q. QED BY <1>18, <3>1 DEF Mark, RowDone, MarkMinted, Write, TableType, Statuses
  <2>2. ChainType'
    BY <1>18 DEF Mark, RowDone, ChainType
  <2>3. BookType'
    BY <1>18 DEF Mark, RowDone, BookType
  <2>4. RelayType'
    BY <1>18 DEF Mark, At, Goto, RowDone, RelayType, TableType, ChainType, Places, Inner
  <2>5. BudgetType'
    BY <1>18 DEF Mark, RowDone, BudgetType
  <2>6. AtWork'
    BY <1>18 DEF Mark, At, Goto, RowDone, AtWork, RelayType, ChainType, BookType, Places, Inner
  <2>q. QED BY <2>1, <2>2, <2>3, <2>4, <2>5, <2>6
<1>19. ASSUME NEW s \in Passes, Park(s) PROVE Shape'
  <2>1. TableType'
    BY <1>19 DEF Park, RowDone, At, MarkManualReview, Write, TableType, Statuses, RelayType, AtWork, Inner
  <2>2. ChainType'
    BY <1>19 DEF Park, RowDone, ChainType
  <2>3. BookType'
    BY <1>19 DEF Park, RowDone, BookType
  <2>4. RelayType'
    BY <1>19 DEF Park, At, Goto, RowDone, RelayType, TableType, ChainType, Places, Inner
  <2>5. BudgetType'
    BY <1>19 DEF Park, RowDone, BudgetType
  <2>6. AtWork'
    BY <1>19 DEF Park, At, Goto, RowDone, AtWork, RelayType, ChainType, BookType, Places, Inner
  <2>q. QED BY <2>1, <2>2, <2>3, <2>4, <2>5, <2>6
<1>20. ASSUME NEW s \in Passes, FailRow(s) PROVE Shape'
  <2>1. TableType'
    <3>1. row[s] \in Payments
      BY <1>20 DEF FailRow, At, AtWork, RelayType, Inner
    <3>2. PICK st \in {"manual_review", "failed"} : Write(row[s], st)
      BY <1>20 DEF FailRow, MarkMintFailed
    <3>3. attempts' \in [Payments -> Nat]
      <4>1. attempts' = [attempts EXCEPT ![row[s]] = @ + 1]
        BY <1>20 DEF FailRow, MarkMintFailed
      <4>2. attempts[row[s]] + 1 \in Nat
        <5>1. \A x \in Nat : x + 1 \in Nat
          OBVIOUS
        <5>2. attempts[row[s]] \in Nat
          BY <3>1, Zenon DEF TableType
        <5>q. QED BY <5>1, <5>2, Zenon
      <4>q. QED BY <4>1, <4>2 DEF TableType
    <3>q. QED BY <1>20, <3>1, <3>2, <3>3
             DEF FailRow, RowDone, MarkMintFailed, Write, TableType, Statuses
  <2>2. ChainType'
    BY <1>20 DEF FailRow, RowDone, ChainType
  <2>3. BookType'
    BY <1>20 DEF FailRow, RowDone, BookType
  <2>4. RelayType'
    BY <1>20 DEF FailRow, At, Goto, RowDone, RelayType, TableType, ChainType, Places, Inner
  <2>5. BudgetType'
    BY <1>20 DEF FailRow, RowDone, BudgetType
  <2>6. AtWork'
    BY <1>20 DEF FailRow, At, Goto, RowDone, AtWork, RelayType, ChainType, BookType, Places, Inner
  <2>q. QED BY <2>1, <2>2, <2>3, <2>4, <2>5, <2>6
<1>21. ASSUME NEW s \in Passes, Throw(s) PROVE Shape'
  <2>1. TableType'
    BY <1>21 DEF Throw, TableType
  <2>2. ChainType'
    BY <1>21 DEF Throw, ChainType
  <2>3. BookType'
    BY <1>21 DEF Throw, BookType
  <2>4. RelayType'
    BY <1>21 DEF Throw, Goto, RelayType, TableType, ChainType, Places, Inner
  <2>5. BudgetType'
    BY <1>21 DEF Throw, BudgetType
  <2>6. AtWork'
    BY <1>21 DEF Throw, Goto, AtWork, RelayType, ChainType, BookType, Places, Inner
  <2>q. QED BY <2>1, <2>2, <2>3, <2>4, <2>5, <2>6
<1>22. ASSUME NEW s \in Passes, Crash(s) PROVE Shape'
  <2>1. TableType'
    BY <1>22 DEF Crash, TableType
  <2>2. ChainType'
    BY <1>22 DEF Crash, ChainType
  <2>3. BookType'
    BY <1>22 DEF Crash, BookType
  <2>4. RelayType'
    BY <1>22 DEF Crash, Goto, Quit, RelayType, TableType, ChainType, Places, Inner
  <2>5. BudgetType'
    BY <1>22 DEF Crash, Spend, Fault, BudgetType
  <2>6. AtWork'
    BY <1>22 DEF Crash, Goto, Quit, AtWork, RelayType, ChainType, BookType, Places, Inner
  <2>q. QED BY <2>1, <2>2, <2>3, <2>4, <2>5, <2>6
<1>23. ASSUME NEW s \in Passes, LoseLock(s) PROVE Shape'
  <2>1. TableType'
    BY <1>23 DEF LoseLock, TableType
  <2>2. ChainType'
    BY <1>23 DEF LoseLock, ChainType
  <2>3. BookType'
    BY <1>23 DEF LoseLock, BookType
  <2>4. RelayType'
    BY <1>23 DEF LoseLock, RelayType, TableType, ChainType, Places, Inner
  <2>5. BudgetType'
    BY <1>23 DEF LoseLock, Spend, Fault, BudgetType
  <2>6. AtWork'
    BY <1>23 DEF LoseLock, AtWork, RelayType, ChainType, BookType, Places, Inner
  <2>q. QED BY <2>1, <2>2, <2>3, <2>4, <2>5, <2>6
<1>24. ASSUME NEW p \in Payments, Decide(p) PROVE Shape'
  <2>1. TableType'
    BY <1>24 DEF Decide, TableType, Statuses
  <2>2. ChainType'
    BY <1>24 DEF Decide, ChainType
  <2>3. BookType'
    BY <1>24 DEF Decide, BookType
  <2>4. RelayType'
    BY <1>24 DEF Decide, RelayType
  <2>5. BudgetType'
    BY <1>24 DEF Decide, BudgetType
  <2>6. AtWork'
    BY <1>24 DEF Decide, AtWork, RelayType
  <2>q. QED BY <2>1, <2>2, <2>3, <2>4, <2>5, <2>6
<1>25. ASSUME NEW p \in Payments, Record(p) PROVE Shape'
  <2>1. TableType'
    BY <1>25 DEF Record, Write, TableType, Statuses
  <2>2. ChainType'
    BY <1>25 DEF Record, ChainType
  <2>3. BookType'
    BY <1>25 DEF Record, BookType
  <2>4. RelayType'
    BY <1>25 DEF Record, RelayType
  <2>5. BudgetType'
    BY <1>25 DEF Record, BudgetType
  <2>6. AtWork'
    BY <1>25 DEF Record, AtWork, RelayType
  <2>q. QED BY <2>1, <2>2, <2>3, <2>4, <2>5, <2>6
<1>26. ASSUME NEW p \in Payments, Requeue(p) PROVE Shape'
  <2>1. TableType'
    BY <1>26 DEF Requeue, Write, TableType, Statuses
  <2>2. ChainType'
    BY <1>26 DEF Requeue, ChainType
  <2>3. BookType'
    BY <1>26 DEF Requeue, BookType
  <2>4. RelayType'
    BY <1>26 DEF Requeue, RelayType
  <2>5. BudgetType'
    BY <1>26 DEF Requeue, Spend, Human, BudgetType
  <2>6. AtWork'
    BY <1>26 DEF Requeue, AtWork, RelayType
  <2>q. QED BY <2>1, <2>2, <2>3, <2>4, <2>5, <2>6
<1>27. ASSUME NEW p \in Payments, Refund(p) PROVE Shape'
  <2>1. TableType'
    BY <1>27 DEF Refund, Write, TableType, Statuses
  <2>2. ChainType'
    BY <1>27 DEF Refund, ChainType
  <2>3. BookType'
    BY <1>27 DEF Refund, BookType
  <2>4. RelayType'
    BY <1>27 DEF Refund, RelayType
  <2>5. BudgetType'
    BY <1>27 DEF Refund, Spend, Human, BudgetType
  <2>6. AtWork'
    BY <1>27 DEF Refund, AtWork, RelayType
  <2>q. QED BY <2>1, <2>2, <2>3, <2>4, <2>5, <2>6
<1>28. ASSUME NEW p \in Payments, Age(p) PROVE Shape'
  <2>1. TableType'
    BY <1>28 DEF Age, TableType, Statuses
  <2>2. ChainType'
    BY <1>28 DEF Age, ChainType
  <2>3. BookType'
    BY <1>28 DEF Age, BookType
  <2>4. RelayType'
    BY <1>28 DEF Age, RelayType
  <2>5. BudgetType'
    BY <1>28 DEF Age, BudgetType
  <2>6. AtWork'
    BY <1>28 DEF Age, AtWork, RelayType
  <2>q. QED BY <2>1, <2>2, <2>3, <2>4, <2>5, <2>6
<1>29. ASSUME NEW t \in 1..Len(sent), Mine(t) PROVE Shape'
  <2>1. TableType'
    BY <1>29 DEF Mine, TableType
  <2>2. ChainType'
    <3>0. sent[t] \in [ref : Payments, fate : Fates]
      BY <1>29, ElementOfSeq DEF ChainType
    <3>1. sent[t].ref \in Payments
      BY <3>0
    <3>2. nodes' \in Seq(Payments) /\ Len(nodes) <= Len(nodes')
      BY <1>29, <3>1 DEF Mine, ChainType
    <3>3. PICK f \in Fates : sent' = [sent EXCEPT ![t].fate = f]
      BY <1>29 DEF Mine, Fates
    <3>4. sent' \in Seq([ref : Payments, fate : Fates])
      <4>1. [sent[t] EXCEPT !.fate = f] \in [ref : Payments, fate : Fates]
        BY <3>0
      <4>2. sent' = [sent EXCEPT ![t] = [sent[t] EXCEPT !.fate = f]]
        BY <3>3
      <4>q. QED BY <4>1, <4>2, <1>29, ExceptSeq DEF ChainType
    <3>q. QED BY <1>29, <3>2, <3>4 DEF Mine, ChainType
  <2>3. BookType'
    BY <1>29 DEF Mine, BookType, ChainType
  <2>4. RelayType'
    BY <1>29 DEF Mine, RelayType, ChainType
  <2>5. BudgetType'
    BY <1>29 DEF Mine, BudgetType
  <2>6. AtWork'
    BY <1>29 DEF Mine, AtWork, RelayType, ChainType
  <2>q. QED BY <2>1, <2>2, <2>3, <2>4, <2>5, <2>6
<1>30. ASSUME NEW t \in 1..Len(sent), Drop(t) PROVE Shape'
  <2>1. TableType'
    BY <1>30 DEF Drop, TableType
  <2>2. ChainType'
    <3>1. sent' = [sent EXCEPT ![t].fate = "dropped"] /\ "dropped" \in Fates
      BY <1>30 DEF Drop, Fates
    <3>2. sent' \in Seq([ref : Payments, fate : Fates])
      <4>0. sent[t] \in [ref : Payments, fate : Fates]
        BY <1>30, ElementOfSeq DEF ChainType
      <4>1. [sent[t] EXCEPT !.fate = "dropped"] \in [ref : Payments, fate : Fates]
        BY <3>1, <4>0
      <4>2. sent' = [sent EXCEPT ![t] = [sent[t] EXCEPT !.fate = "dropped"]]
        BY <3>1
      <4>q. QED BY <4>1, <4>2, <1>30, ExceptSeq DEF ChainType
    <3>q. QED BY <1>30, <3>2 DEF Drop, ChainType
  <2>3. BookType'
    BY <1>30 DEF Drop, BookType, ChainType
  <2>4. RelayType'
    BY <1>30 DEF Drop, RelayType, ChainType
  <2>5. BudgetType'
    BY <1>30 DEF Drop, BudgetType
  <2>6. AtWork'
    BY <1>30 DEF Drop, AtWork, RelayType, ChainType
  <2>q. QED BY <2>1, <2>2, <2>3, <2>4, <2>5, <2>6
<1>31. ASSUME NEW n \in 1..Len(nodes), Reconcile(n) PROVE Shape'
  <2>1. TableType'
    BY <1>31 DEF Reconcile, TableType
  <2>2. ChainType'
    BY <1>31 DEF Reconcile, ChainType
  <2>3. BookType'
    BY <1>31 DEF Reconcile, BookType
  <2>4. RelayType'
    BY <1>31 DEF Reconcile, RelayType
  <2>5. BudgetType'
    BY <1>31 DEF Reconcile, BudgetType
  <2>6. AtWork'
    BY <1>31 DEF Reconcile, AtWork, RelayType
  <2>q. QED BY <2>1, <2>2, <2>3, <2>4, <2>5, <2>6
<1>32. CASE Surface
  <2>1. TableType'
    BY <1>32 DEF Surface, TableType
  <2>2. ChainType'
    BY <1>32 DEF Surface, ChainType
  <2>3. BookType'
    BY <1>32 DEF Surface, BookType, ChainType
  <2>4. RelayType'
    BY <1>32 DEF Surface, RelayType, ChainType
  <2>5. BudgetType'
    BY <1>32 DEF Surface, BudgetType
  <2>6. AtWork'
    BY <1>32 DEF Surface, AtWork, RelayType, ChainType
  <2>q. QED BY <2>1, <2>2, <2>3, <2>4, <2>5, <2>6
<1>33. CASE OpenOrClose
  <2>1. TableType'
    BY <1>33 DEF OpenOrClose, TableType
  <2>2. ChainType'
    BY <1>33 DEF OpenOrClose, ChainType
  <2>3. BookType'
    BY <1>33 DEF OpenOrClose, BookType, ChainType
  <2>4. RelayType'
    BY <1>33 DEF OpenOrClose, RelayType, ChainType
  <2>5. BudgetType'
    BY <1>33 DEF OpenOrClose, BudgetType
  <2>6. AtWork'
    BY <1>33 DEF OpenOrClose, AtWork, RelayType, ChainType
  <2>q. QED BY <2>1, <2>2, <2>3, <2>4, <2>5, <2>6
<1>34. CASE UNCHANGED vars
  <2>1. TableType'
    BY <1>34 DEF vars, TableType
  <2>2. ChainType'
    BY <1>34 DEF vars, ChainType
  <2>3. BookType'
    BY <1>34 DEF vars, BookType
  <2>4. RelayType'
    BY <1>34 DEF vars, RelayType
  <2>5. BudgetType'
    BY <1>34 DEF vars, BudgetType
  <2>6. AtWork'
    BY <1>34 DEF vars, AtWork, RelayType
  <2>q. QED BY <2>1, <2>2, <2>3, <2>4, <2>5, <2>6
<1>35. ASSUME NEW s \in Passes, MarkUnheard(s) PROVE Shape'
  <2>1. TableType'
    <3>1. row[s] \in Payments /\ found[s] \in Nat
      BY <1>35 DEF MarkUnheard, At, AtWork, RelayType, ChainType, Inner
    <3>q. QED BY <1>35, <3>1 DEF MarkUnheard, MarkMinted, Write, TableType, Statuses
  <2>2. ChainType'
    BY <1>35 DEF MarkUnheard, ChainType
  <2>3. BookType'
    BY <1>35 DEF MarkUnheard, BookType
  <2>4. RelayType'
    BY <1>35 DEF MarkUnheard, At, Goto, RelayType, TableType, ChainType, Places, Inner
  <2>5. BudgetType'
    BY <1>35 DEF MarkUnheard, Spend, Fault, BudgetType
  <2>6. AtWork'
    BY <1>35 DEF MarkUnheard, At, Goto, AtWork, RelayType, ChainType, BookType, Places, Inner
  <2>q. QED BY <2>1, <2>2, <2>3, <2>4, <2>5, <2>6
<1>q. QED
  BY <1>1, <1>2, <1>3, <1>4, <1>5, <1>6, <1>7, <1>8, <1>9, <1>10, <1>11, <1>12, <1>13, <1>14, <1>15, <1>16, <1>17, <1>18, <1>19, <1>20, <1>21, <1>22, <1>23, <1>24, <1>25, <1>26, <1>27, <1>28, <1>29, <1>30, <1>31, <1>32, <1>33, <1>34, <1>35 DEF Next, Queue, MintOne, Desk, Network

(* What one step does to a row. *)
RowKept(p) ==
    /\ status'[p] = status[p]
    /\ \A t \in Passes : p \in todo'[t] => p \in todo[t]
    /\ p \in aged' =>
         \/ p \in aged
         \/ status[p] = "minting" /\ (SlowPasses \/ \A t \in Passes : p \notin todo[t])
RowJudged(p) ==
    /\ status[p] \in {"none", "failed", "manual_review"}
    /\ status'[p] \in {"seen", "manual_review"}
    /\ p \notin aged' /\ UNCHANGED todo
    /\ \/ status[p] = "none" /\ UNCHANGED <<chain, pc, row>>
       \/ ~NoHands'
RowRefunded(p) ==
    /\ status[p] \notin {"minted", "refunded"}
    /\ status'[p] = "refunded"
    /\ p \notin aged' /\ UNCHANGED todo
    /\ ~NoHands'
RowSwept(p) ==
    /\ status[p] = "minting" /\ p \in aged
    /\ status'[p] = "failed"
    /\ p \notin aged' /\ UNCHANGED todo
RowClaimed(p) ==
    /\ status[p] \in {"seen", "failed"}
    /\ status'[p] = "minting"
    /\ p \notin aged'
    /\ \E s \in Passes : \A t \in Passes : t # s => todo'[t] = todo[t]
RowSettled(p) ==
    /\ status'[p] \in {"minted", "failed", "manual_review"}
    /\ p \notin aged'
    /\ \E s \in Passes :
         /\ p \in todo[s]
         /\ todo' = [todo EXCEPT ![s] = @ \ {p}]
RowUnheard(p) ==
    /\ status'[p] = "minted"
    /\ p \notin aged' /\ UNCHANGED todo
    /\ \E s \in Passes : p \in todo[s] /\ row'[s] = p /\ pc'[s] = "fail"
RowStep(p) ==
    \/ RowKept(p) \/ RowJudged(p) \/ RowRefunded(p)
    \/ RowSwept(p) \/ RowClaimed(p) \/ RowSettled(p) \/ RowUnheard(p)

(* Every step does one of these to every row. *)
LEMMA EveryRowStep == ASSUME Shape, [Next]_vars, NEW p \in Payments PROVE RowStep(p)
<1> USE DEF RowStep, Shape, TypeOK, RelayType, TableType, table, relay, hand
<1>1. ASSUME NEW s \in Passes, Start(s) PROVE RowStep(p)
  BY <1>1 DEF Start, RowKept
<1>2. ASSUME NEW s \in Passes, Authorise(s) PROVE RowStep(p)
  BY <1>2 DEF Authorise, RowKept
<1>3. ASSUME NEW s \in Passes, Pick(s) PROVE RowStep(p)
  BY <1>3 DEF Pick, RowKept
<1>4. ASSUME NEW s \in Passes, Verify(s) PROVE RowStep(p)
  BY <1>4 DEF Verify, Step, RowKept
<1>5. ASSUME NEW s \in Passes, Probe(s) PROVE RowStep(p)
  BY <1>5 DEF Probe, Step, RowKept
<1>6. ASSUME NEW s \in Passes, Allow(s) PROVE RowStep(p)
  BY <1>6 DEF Allow, Step, RowKept
<1>7. ASSUME NEW s \in Passes, Simulate(s) PROVE RowStep(p)
  BY <1>7 DEF Simulate, Step, RowKept
<1>8. ASSUME NEW s \in Passes, Send(s) PROVE RowStep(p)
  BY <1>8 DEF Send, Step, RowKept
<1>9. ASSUME NEW s \in Passes, Receipt(s) PROVE RowStep(p)
  BY <1>9 DEF Receipt, Step, RowKept
<1>10. ASSUME NEW s \in Passes, Recheck(s) PROVE RowStep(p)
  BY <1>10 DEF Recheck, Step, RowKept
<1>11. ASSUME NEW s \in Passes, Resolve(s) PROVE RowStep(p)
  BY <1>11 DEF Resolve, Step, RowKept
<1>12. ASSUME NEW s \in Passes, ScheduleNode(s) PROVE RowStep(p)
  BY <1>12 DEF ScheduleNode, RowKept
<1>13. ASSUME NEW s \in Passes, RecordNode(s) PROVE RowStep(p)
  BY <1>13 DEF RecordNode, RowKept
<1>14. ASSUME NEW s \in Passes, Throw(s) PROVE RowStep(p)
  BY <1>14 DEF Throw, RowKept
<1>15. ASSUME NEW s \in Passes, LoseLock(s) PROVE RowStep(p)
  BY <1>15 DEF LoseLock, RowKept
<1>16. ASSUME NEW s \in Passes, Finish(s) PROVE RowStep(p)
  BY <1>16 DEF Finish, Quit, RowKept
<1>17. ASSUME NEW s \in Passes, Crash(s) PROVE RowStep(p)
  BY <1>17 DEF Crash, Quit, RowKept
<1>18. ASSUME NEW s \in Passes, Sweep(s) PROVE RowStep(p)
  BY <1>18 DEF Sweep, RowKept, RowSwept
<1>19. ASSUME NEW s \in Passes, Claim(s) PROVE RowStep(p)
  <2>1. PICK c \in SUBSET Payments :
          /\ Batch(c)
          /\ IF c = {}
             THEN Quit(s) /\ UNCHANGED <<status, aged>>
             ELSE /\ status' = [q \in Payments |-> IF q \in c THEN "minting" ELSE status[q]]
                  /\ aged' = aged \ c
                  /\ todo' = [todo EXCEPT ![s] = c]
                  /\ Goto(s, "authorise")
                  /\ UNCHANGED <<hand, lock>>
    BY <1>19 DEF Claim
  <2>2. CASE c = {}
    BY <2>1, <2>2 DEF Quit, RowKept
  <2>3. CASE c # {} /\ p \in c
    BY <2>1, <2>3 DEF Batch, Claimable, RowClaimed
  <2>4. CASE c # {} /\ p \notin c
    BY <2>1, <2>4 DEF RowKept
  <2>q. QED BY <2>2, <2>3, <2>4
<1>20. ASSUME NEW s \in Passes, PutBack(s) PROVE RowStep(p)
  <2>1. CASE \E q \in todo[s] : /\ MarkMintFailed(q)
                              /\ todo' = [todo EXCEPT ![s] = @ \ {q}]
    <3>1. PICK q \in todo[s] : /\ MarkMintFailed(q)
                             /\ todo' = [todo EXCEPT ![s] = @ \ {q}]
      BY <2>1
    <3>2. PICK st \in {"manual_review", "failed"} : Write(q, st)
      BY <3>1 DEF MarkMintFailed
    <3>q. QED BY <3>1, <3>2 DEF Write, RowKept, RowSettled
  <2>2. CASE todo[s] = {} /\ Quit(s) /\ UNCHANGED table
    BY <2>2 DEF Quit, RowKept
  <2>q. QED BY <1>20, <2>1, <2>2 DEF PutBack
<1>21. ASSUME NEW s \in Passes, Mark(s) PROVE RowStep(p)
  <2>1. row[s] \in todo[s]
    BY <1>21 DEF Mark, At, AtWork, Inner
  <2>q. QED BY <1>21, <2>1 DEF Mark, RowDone, MarkMinted, Write, RowKept, RowSettled
<1>22. ASSUME NEW s \in Passes, Park(s) PROVE RowStep(p)
  <2>1. row[s] \in todo[s]
    BY <1>22 DEF Park, At, AtWork, Inner
  <2>q. QED BY <1>22, <2>1 DEF Park, RowDone, MarkManualReview, Write, RowKept, RowSettled
<1>23. ASSUME NEW s \in Passes, FailRow(s) PROVE RowStep(p)
  <2>1. row[s] \in todo[s]
    BY <1>23 DEF FailRow, At, AtWork, Inner
  <2>q. QED BY <1>23, <2>1 DEF FailRow, RowDone, MarkMintFailed, Write, RowKept, RowSettled
<1>24. ASSUME NEW q \in Payments, Decide(q) PROVE RowStep(p)
  BY <1>24 DEF Decide, RowKept
<1>25. ASSUME NEW q \in Payments, Record(q) PROVE RowStep(p)
  BY <1>25 DEF Record, Write, RowKept, RowJudged, relay
<1>26. ASSUME NEW q \in Payments, Requeue(q) PROVE RowStep(p)
  <2>1. ~NoHands'
    BY <1>26 DEF Requeue, Spend, NoHands, BudgetType, Human
  <2>q. QED BY <1>26, <2>1 DEF Requeue, Write, RowKept, RowJudged
<1>27. ASSUME NEW q \in Payments, Refund(q) PROVE RowStep(p)
  <2>1. ~NoHands'
    BY <1>27 DEF Refund, Spend, NoHands, BudgetType, Human
  <2>q. QED BY <1>27, <2>1 DEF Refund, Write, RowKept, RowRefunded
<1>28. ASSUME NEW q \in Payments, Age(q) PROVE RowStep(p)
  BY <1>28 DEF Age, RowKept
<1>29. CASE Network \/ UNCHANGED vars
  BY <1>29 DEF Network, Mine, Drop, Reconcile, Surface, OpenOrClose, vars, RowKept
<1>30. ASSUME NEW s \in Passes, MarkUnheard(s) PROVE RowStep(p)
  <2>1. row[s] \in todo[s]
    BY <1>30 DEF MarkUnheard, At, AtWork, Inner
  <2>q. QED BY <1>30, <2>1 DEF MarkUnheard, MarkMinted, Goto, Write, RowKept, RowUnheard
<1>q. QED
  BY <1>1, <1>2, <1>3, <1>4, <1>5, <1>6, <1>7, <1>8, <1>9, <1>10, <1>11, <1>12, <1>13, <1>14, <1>15, <1>16, <1>17, <1>18, <1>19, <1>20, <1>21, <1>22, <1>23, <1>24, <1>25, <1>26, <1>27, <1>28, <1>29, <1>30 DEF Next, Queue, MintOne, Desk

(* What one step does to the place of a pass.  Beyond the allowance a row    *)
(* gets through Allow, or because its ref is used; and a pass that is about  *)
(* to call a row failed does nothing else to it.                             *)
PastAllow == {"simulate", "send", "wait", "recheck", "resolve", "schedule", "ledger", "mark"}
PassStep(s) ==
    \/ pc'[s] = pc[s] /\ row'[s] = row[s]
    \/ pc'[s] \notin PastAllow /\ (pc[s] = "fail" => row[s] \notin todo'[s])
    \/ row'[s] = row[s] /\ pc[s] \in PastAllow
    \/ row'[s] = row[s] /\ pc[s] = "probe" /\ RefUsed(row[s])
    \/ Allow(s)

LEMMA EveryPassStep == ASSUME Shape, [Next]_vars, NEW s \in Passes PROVE PassStep(s)
<1> USE DEF PassStep, PastAllow, Shape, TypeOK, RelayType, relay, hand, Inner
<1>1. ASSUME NEW r \in Passes, Start(r) PROVE PassStep(s)
  BY <1>1 DEF Start, At, Goto
<1>2. ASSUME NEW r \in Passes, Sweep(r) PROVE PassStep(s)
  BY <1>2 DEF Sweep, At, Goto
<1>3. ASSUME NEW r \in Passes, Claim(r) PROVE PassStep(s)
  <2>1. Quit(r) \/ (Goto(r, "authorise") /\ UNCHANGED row)
    BY <1>3 DEF Claim
  <2>q. QED BY <1>3, <2>1 DEF Claim, Quit, At, Goto
<1>4. ASSUME NEW r \in Passes, Authorise(r) PROVE PassStep(s)
  BY <1>4 DEF Authorise, At, Goto
<1>5. ASSUME NEW r \in Passes, PutBack(r) PROVE PassStep(s)
  <2>1. Quit(r) \/ UNCHANGED <<pc, row>>
    BY <1>5 DEF PutBack
  <2>q. QED BY <1>5, <2>1 DEF PutBack, Quit, At, Goto
<1>6. ASSUME NEW r \in Passes, Pick(r) PROVE PassStep(s)
  BY <1>6 DEF Pick, At, Goto
<1>7. ASSUME NEW r \in Passes, Finish(r) PROVE PassStep(s)
  BY <1>7 DEF Finish, Quit, At, Goto
<1>8. ASSUME NEW r \in Passes, Verify(r) PROVE PassStep(s)
  BY <1>8 DEF Verify, Step, At, Goto
<1>9. ASSUME NEW r \in Passes, Probe(r) PROVE PassStep(s)
  BY <1>9 DEF Probe, Step, At, Goto
<1>10. ASSUME NEW r \in Passes, Simulate(r) PROVE PassStep(s)
  BY <1>10 DEF Simulate, Step, At, Goto
<1>11. ASSUME NEW r \in Passes, Send(r) PROVE PassStep(s)
  BY <1>11 DEF Send, Step, At, Goto
<1>12. ASSUME NEW r \in Passes, Receipt(r) PROVE PassStep(s)
  BY <1>12 DEF Receipt, Step, At, Goto
<1>13. ASSUME NEW r \in Passes, Recheck(r) PROVE PassStep(s)
  BY <1>13 DEF Recheck, Step, At, Goto
<1>14. ASSUME NEW r \in Passes, Resolve(r) PROVE PassStep(s)
  BY <1>14 DEF Resolve, Step, At, Goto
<1>15. ASSUME NEW r \in Passes, ScheduleNode(r) PROVE PassStep(s)
  BY <1>15 DEF ScheduleNode, At, Goto
<1>16. ASSUME NEW r \in Passes, RecordNode(r) PROVE PassStep(s)
  BY <1>16 DEF RecordNode, At, Goto
<1>17. ASSUME NEW r \in Passes, Mark(r) PROVE PassStep(s)
  BY <1>17 DEF Mark, RowDone, At, Goto
<1>18. ASSUME NEW r \in Passes, Park(r) PROVE PassStep(s)
  BY <1>18 DEF Park, RowDone, At, Goto
<1>19. ASSUME NEW r \in Passes, FailRow(r) PROVE PassStep(s)
  BY <1>19 DEF FailRow, RowDone, At, Goto
<1>20. ASSUME NEW r \in Passes, Throw(r) PROVE PassStep(s)
  BY <1>20 DEF Throw, Goto
<1>21. ASSUME NEW r \in Passes, Crash(r) PROVE PassStep(s)
  BY <1>21 DEF Crash, Quit, Goto
<1>22. ASSUME NEW r \in Passes, MarkUnheard(r) PROVE PassStep(s)
  BY <1>22 DEF MarkUnheard, At, Goto
<1>23. ASSUME NEW r \in Passes, LoseLock(r) PROVE PassStep(s)
  BY <1>23 DEF LoseLock
<1>24. ASSUME NEW r \in Passes, Allow(r) PROVE PassStep(s)
  BY <1>24 DEF Allow, Step, Goto
<1>25. CASE (\E q \in Payments : Desk(q)) \/ Network \/ UNCHANGED vars
  BY <1>25 DEF Desk, Decide, Record, Requeue, Refund, Age, Network, Mine, Drop, Reconcile, Surface, OpenOrClose, vars
<1>q. QED
  BY <1>1, <1>2, <1>3, <1>4, <1>5, <1>6, <1>7, <1>8, <1>9, <1>10, <1>11, <1>12, <1>13, <1>14, <1>15, <1>16, <1>17, <1>18, <1>19, <1>20, <1>21, <1>22, <1>23, <1>24, <1>25 DEF Next, Queue, MintOne

(* The table of what is held, when no pass outlives the stuck limit. *)
Held == RowsHeldOnce /\ AgedRows

LEMMA InitHeld == Init => Held
  BY DEF Init, Held, RowsHeldOnce, AgedRows

LEMMA NextHeld == ASSUME ~SlowPasses, Shape, Held, [Next]_vars PROVE Held'
<1>0. \A p \in Payments : RowStep(p)
  BY EveryRowStep
<1>1. Shape'
  BY NextShape
<1>2. \A t \in Passes : todo'[t] \subseteq Payments
  BY <1>1 DEF Shape, TypeOK, RelayType
<1>3. ASSUME NEW s \in Passes, NEW t \in Passes, s # t,
             NEW p \in Payments, p \in todo'[s], p \in todo'[t]
      PROVE FALSE
  <2>0. ~(p \in todo[s] /\ p \in todo[t])
    BY <1>3 DEF Held, RowsHeldOnce
  <2>1. CASE RowKept(p)
    BY <1>3, <2>0, <2>1 DEF RowKept
  <2>2. CASE RowJudged(p) \/ RowRefunded(p) \/ RowSwept(p) \/ RowUnheard(p)
    BY <1>3, <2>0, <2>2 DEF RowJudged, RowRefunded, RowSwept, RowUnheard
  <2>3. CASE RowClaimed(p)
    <3>1. p \in todo[s] \/ p \in todo[t]
      BY <1>3, <2>3 DEF RowClaimed
    <3>q. QED BY <3>1, <2>3 DEF RowClaimed, Held, RowsHeldOnce, Unheard
  <2>4. CASE RowSettled(p)
    <3>1. PICK r \in Passes : /\ p \in todo[r]
                             /\ todo' = [todo EXCEPT ![r] = @ \ {p}]
      BY <2>4 DEF RowSettled
    <3>q. QED BY <1>3, <2>0, <3>1 DEF Shape, TypeOK, RelayType
  <2>q. QED BY <1>0, <2>1, <2>2, <2>3, <2>4 DEF RowStep
<1>4. ASSUME NEW s \in Passes, NEW p \in Payments, p \in todo'[s]
      PROVE status'[p] \in {"minting", "refunded"} \/ Unheard(s, p)'
  <2>0. p \in todo[s] => status[p] \in {"minting", "refunded"} \/ Unheard(s, p)
    BY DEF Held, RowsHeldOnce
  <2>1. CASE RowKept(p)
    <3>1. p \in todo[s] /\ status'[p] = status[p]
      BY <1>4, <2>1 DEF RowKept
    <3>2. ASSUME Unheard(s, p) PROVE Unheard(s, p)'
      <4>1. pc[s] = "fail" /\ row[s] = p /\ PassStep(s)
        BY <3>2, EveryPassStep DEF Unheard, At
      <4>2. pc'[s] = "fail" /\ row'[s] = p
        BY <1>4, <4>1 DEF PassStep, PastAllow, Allow, Step, At
      <4>q. QED BY <3>1, <3>2, <4>2 DEF Unheard, At
    <3>q. QED BY <2>0, <3>1, <3>2
  <2>2. CASE RowJudged(p) \/ RowRefunded(p)
    BY <1>4, <2>0, <2>2 DEF RowJudged, RowRefunded, Unheard
  <2>3. CASE RowSwept(p)
    BY <1>4, <2>3 DEF RowSwept, Held, AgedRows
  <2>4. CASE RowClaimed(p)
    BY <2>4 DEF RowClaimed
  <2>5. CASE RowSettled(p)
    <3>1. PICK r \in Passes : /\ p \in todo[r]
                             /\ todo' = [todo EXCEPT ![r] = @ \ {p}]
      BY <2>5 DEF RowSettled
    <3>q. QED BY <1>4, <3>1 DEF Held, RowsHeldOnce, Shape, TypeOK, RelayType
  <2>6. CASE RowUnheard(p)
    <3>1. PICK r \in Passes : p \in todo[r] /\ row'[r] = p /\ pc'[r] = "fail"
      BY <2>6 DEF RowUnheard
    <3>2. r = s
      BY <1>4, <2>6, <3>1 DEF RowUnheard, Held, RowsHeldOnce
    <3>q. QED BY <2>6, <3>1, <3>2 DEF RowUnheard, Unheard, At
  <2>q. QED BY <1>0, <2>1, <2>2, <2>3, <2>4, <2>5, <2>6 DEF RowStep
<1>5. ASSUME NEW p \in Payments, p \in aged'
      PROVE status'[p] = "minting" /\ \A s \in Passes : p \notin todo'[s]
  BY <1>0, <1>5 DEF Held, AgedRows, RowStep,
     RowKept, RowJudged, RowRefunded, RowSwept, RowClaimed, RowSettled, RowUnheard
<1>6. aged' \subseteq Payments
  BY <1>1 DEF Shape, TypeOK, TableType
<1>q. QED BY <1>2, <1>3, <1>4, <1>5, <1>6 DEF Held, RowsHeldOnce, AgedRows

(* Types, and places, along every behaviour. *)
LEMMA AlwaysShape == Spec => []Shape
  BY InitShape, NextShape, PTL DEF Spec

\* The relay keeps its types: timers and ledger rows only name nodes that
\* exist (settle in src/lib/mintRelay.ts).
THEOREM RelayTypeOK == Spec => []TypeOK
<1>1. Shape => TypeOK
  BY DEF Shape
<1>q. QED BY <1>1, AlwaysShape, PTL

\* No row is worked on by two passes, however many passes overlap after the
\* lock was lost, if a row grows stuck only when its pass is dead
\* (claimForMinting and requeueStuckMinting in src/lib/payments.ts).
THEOREM RelayRowsHeldOnce == ~SlowPasses => (Spec => []RowsHeldOnce)
<1> SUFFICES ASSUME ~SlowPasses PROVE Spec => []RowsHeldOnce
  OBVIOUS
<1>1. Held /\ Shape /\ [Next]_vars => Held'
  BY NextHeld
<1>2. Held => RowsHeldOnce
  BY DEF Held
<1>q. QED BY <1>1, <1>2, InitHeld, AlwaysShape, PTL DEF Spec

(* What one step does to the other columns and to the chain. *)
Marked(s) == At(s, "mark") /\ MarkMinted(row[s], found[s]) /\ UNCHANGED nodes
LEMMA OnlyMarkSetsNodeId ==
  ASSUME Shape, [Next]_vars
  PROVE  nodeId' = nodeId \/ \E s \in Passes : Marked(s)
<1> USE DEF table
<1>0. ASSUME NEW s \in Passes, Mark(s) PROVE Marked(s)
  BY <1>0 DEF Mark, Marked, RowDone, chain
<1>1. ASSUME NEW s \in Passes, Start(s) PROVE nodeId' = nodeId
  BY <1>1 DEF Start
<1>2. ASSUME NEW s \in Passes, Sweep(s) PROVE nodeId' = nodeId
  BY <1>2 DEF Sweep
<1>3. ASSUME NEW s \in Passes, Claim(s) PROVE nodeId' = nodeId
  BY <1>3 DEF Claim
<1>4. ASSUME NEW s \in Passes, Authorise(s) PROVE nodeId' = nodeId
  BY <1>4 DEF Authorise
<1>5. ASSUME NEW s \in Passes, PutBack(s) PROVE nodeId' = nodeId
  BY <1>5 DEF PutBack, MarkMintFailed
<1>6. ASSUME NEW s \in Passes, Pick(s) PROVE nodeId' = nodeId
  BY <1>6 DEF Pick
<1>7. ASSUME NEW s \in Passes, Finish(s) PROVE nodeId' = nodeId
  BY <1>7 DEF Finish
<1>8. ASSUME NEW s \in Passes, Verify(s) PROVE nodeId' = nodeId
  BY <1>8 DEF Verify, Step
<1>9. ASSUME NEW s \in Passes, Probe(s) PROVE nodeId' = nodeId
  BY <1>9 DEF Probe, Step
<1>10. ASSUME NEW s \in Passes, Allow(s) PROVE nodeId' = nodeId
  BY <1>10 DEF Allow, Step
<1>11. ASSUME NEW s \in Passes, Simulate(s) PROVE nodeId' = nodeId
  BY <1>11 DEF Simulate, Step
<1>12. ASSUME NEW s \in Passes, Send(s) PROVE nodeId' = nodeId
  BY <1>12 DEF Send, Step
<1>13. ASSUME NEW s \in Passes, Receipt(s) PROVE nodeId' = nodeId
  BY <1>13 DEF Receipt, Step
<1>14. ASSUME NEW s \in Passes, Recheck(s) PROVE nodeId' = nodeId
  BY <1>14 DEF Recheck, Step
<1>15. ASSUME NEW s \in Passes, Resolve(s) PROVE nodeId' = nodeId
  BY <1>15 DEF Resolve, Step
<1>16. ASSUME NEW s \in Passes, ScheduleNode(s) PROVE nodeId' = nodeId
  BY <1>16 DEF ScheduleNode
<1>17. ASSUME NEW s \in Passes, RecordNode(s) PROVE nodeId' = nodeId
  BY <1>17 DEF RecordNode
<1>18. ASSUME NEW s \in Passes, Park(s) PROVE nodeId' = nodeId
  BY <1>18 DEF Park, RowDone, MarkManualReview
<1>19. ASSUME NEW s \in Passes, FailRow(s) PROVE nodeId' = nodeId
  BY <1>19 DEF FailRow, RowDone, MarkMintFailed
<1>20. ASSUME NEW s \in Passes, Throw(s) PROVE nodeId' = nodeId
  BY <1>20 DEF Throw
<1>21. ASSUME NEW s \in Passes, Crash(s) PROVE nodeId' = nodeId
  BY <1>21 DEF Crash
<1>22. ASSUME NEW s \in Passes, LoseLock(s) PROVE nodeId' = nodeId
  BY <1>22 DEF LoseLock
<1>23. ASSUME NEW q \in Payments, Desk(q) PROVE nodeId' = nodeId
  BY <1>23 DEF Desk, Decide, Record, Requeue, Refund, Age, Write
<1>24. CASE Network \/ UNCHANGED vars
  BY <1>24 DEF Network, Mine, Drop, Reconcile, Surface, OpenOrClose, vars
<1>25. ASSUME NEW s \in Passes, MarkUnheard(s) PROVE Marked(s)
  BY <1>25 DEF MarkUnheard, Marked, chain
<1>q. QED
  BY <1>0, <1>1, <1>2, <1>3, <1>4, <1>5, <1>6, <1>7, <1>8, <1>9, <1>10, <1>11, <1>12, <1>13, <1>14, <1>15, <1>16, <1>17, <1>18, <1>19, <1>20, <1>21, <1>22, <1>23, <1>24, <1>25 DEF Next, Queue, MintOne

LEMMA OnlyMarkMints ==
  ASSUME Shape, [Next]_vars, NEW p \in Payments, status[p] # "minted", status'[p] = "minted"
  PROVE  \E s \in Passes : Marked(s) /\ row[s] = p
<1> USE DEF Shape, TypeOK, TableType, RelayType, table
<1>1. ASSUME NEW s \in Passes, Start(s) PROVE FALSE
  BY <1>1 DEF Start
<1>2. ASSUME NEW s \in Passes, Authorise(s) PROVE FALSE
  BY <1>2 DEF Authorise
<1>3. ASSUME NEW s \in Passes, Pick(s) PROVE FALSE
  BY <1>3 DEF Pick
<1>4. ASSUME NEW s \in Passes, Finish(s) PROVE FALSE
  BY <1>4 DEF Finish
<1>5. ASSUME NEW s \in Passes, Verify(s) PROVE FALSE
  BY <1>5 DEF Verify, Step
<1>6. ASSUME NEW s \in Passes, Probe(s) PROVE FALSE
  BY <1>6 DEF Probe, Step
<1>7. ASSUME NEW s \in Passes, Allow(s) PROVE FALSE
  BY <1>7 DEF Allow, Step
<1>8. ASSUME NEW s \in Passes, Simulate(s) PROVE FALSE
  BY <1>8 DEF Simulate, Step
<1>9. ASSUME NEW s \in Passes, Send(s) PROVE FALSE
  BY <1>9 DEF Send, Step
<1>10. ASSUME NEW s \in Passes, Receipt(s) PROVE FALSE
  BY <1>10 DEF Receipt, Step
<1>11. ASSUME NEW s \in Passes, Recheck(s) PROVE FALSE
  BY <1>11 DEF Recheck, Step
<1>12. ASSUME NEW s \in Passes, Resolve(s) PROVE FALSE
  BY <1>12 DEF Resolve, Step
<1>13. ASSUME NEW s \in Passes, ScheduleNode(s) PROVE FALSE
  BY <1>13 DEF ScheduleNode
<1>14. ASSUME NEW s \in Passes, RecordNode(s) PROVE FALSE
  BY <1>14 DEF RecordNode
<1>15. ASSUME NEW s \in Passes, Throw(s) PROVE FALSE
  BY <1>15 DEF Throw
<1>16. ASSUME NEW s \in Passes, Crash(s) PROVE FALSE
  BY <1>16 DEF Crash
<1>17. ASSUME NEW s \in Passes, LoseLock(s) PROVE FALSE
  BY <1>17 DEF LoseLock
<1>18. ASSUME NEW s \in Passes, Sweep(s) PROVE FALSE
  BY <1>18 DEF Sweep
<1>19. ASSUME NEW s \in Passes, Claim(s) PROVE FALSE
  BY <1>19 DEF Claim
<1>20. ASSUME NEW s \in Passes, PutBack(s) PROVE FALSE
  <2>1. status' = status \/ \E q \in Payments \union {0}, st \in {"manual_review", "failed"} : Write(q, st)
    BY <1>20 DEF PutBack, MarkMintFailed
  <2>q. QED BY <2>1 DEF Write
<1>21. ASSUME NEW s \in Passes, FailRow(s) PROVE FALSE
  <2>1. status' = status \/ \E q \in Payments \union {0}, st \in {"manual_review", "failed"} : Write(q, st)
    BY <1>21 DEF FailRow, MarkMintFailed
  <2>q. QED BY <2>1 DEF Write
<1>22. ASSUME NEW s \in Passes, Park(s) PROVE FALSE
  <2>1. status' = status \/ \E q \in Payments \union {0}, st \in {"manual_review", "failed"} : Write(q, st)
    BY <1>22 DEF Park, MarkManualReview
  <2>q. QED BY <2>1 DEF Write
<1>23. ASSUME NEW s \in Passes, Mark(s) PROVE Marked(s) /\ row[s] = p
  BY <1>23 DEF Mark, Marked, RowDone, MarkMinted, Write, chain
<1>24. ASSUME NEW q \in Payments, Desk(q) PROVE FALSE
  BY <1>24 DEF Desk, Decide, Record, Requeue, Refund, Age, Write
<1>25. CASE Network \/ UNCHANGED vars
  BY <1>25 DEF Network, Mine, Drop, Reconcile, Surface, OpenOrClose, vars
<1>26. ASSUME NEW s \in Passes, MarkUnheard(s) PROVE Marked(s) /\ row[s] = p
  BY <1>26 DEF MarkUnheard, Marked, MarkMinted, Write, chain
<1>q. QED
  BY <1>1, <1>2, <1>3, <1>4, <1>5, <1>6, <1>7, <1>8, <1>9, <1>10, <1>11, <1>12, <1>13, <1>14, <1>15, <1>16, <1>17, <1>18, <1>19, <1>20, <1>21, <1>22, <1>23, <1>24, <1>25, <1>26 DEF Next, Queue, MintOne

Grown ==
    /\ nodes' \in Seq(Payments) /\ Len(nodes) <= Len(nodes')
    /\ \A n \in 1..Len(nodes) : nodes'[n] = nodes[n]
    /\ ledger \subseteq ledger' /\ sched \subseteq sched'

LEMMA OnlyMineMakesNodes ==
  ASSUME Shape, [Next]_vars
  PROVE  nodes' = nodes \/ \E t \in 1..Len(sent) : Mine(t)
<1> USE DEF chain
<1>1. ASSUME NEW s \in Passes, Start(s) PROVE nodes' = nodes
  BY <1>1 DEF Start
<1>2. ASSUME NEW s \in Passes, Sweep(s) PROVE nodes' = nodes
  BY <1>2 DEF Sweep
<1>3. ASSUME NEW s \in Passes, Claim(s) PROVE nodes' = nodes
  BY <1>3 DEF Claim
<1>4. ASSUME NEW s \in Passes, Authorise(s) PROVE nodes' = nodes
  BY <1>4 DEF Authorise
<1>5. ASSUME NEW s \in Passes, PutBack(s) PROVE nodes' = nodes
  BY <1>5 DEF PutBack
<1>6. ASSUME NEW s \in Passes, Pick(s) PROVE nodes' = nodes
  BY <1>6 DEF Pick
<1>7. ASSUME NEW s \in Passes, Finish(s) PROVE nodes' = nodes
  BY <1>7 DEF Finish
<1>8. ASSUME NEW s \in Passes, Verify(s) PROVE nodes' = nodes
  BY <1>8 DEF Verify
<1>9. ASSUME NEW s \in Passes, Probe(s) PROVE nodes' = nodes
  BY <1>9 DEF Probe
<1>10. ASSUME NEW s \in Passes, Allow(s) PROVE nodes' = nodes
  BY <1>10 DEF Allow
<1>11. ASSUME NEW s \in Passes, Simulate(s) PROVE nodes' = nodes
  BY <1>11 DEF Simulate
<1>12. ASSUME NEW s \in Passes, Send(s) PROVE nodes' = nodes
  BY <1>12 DEF Send
<1>13. ASSUME NEW s \in Passes, Receipt(s) PROVE nodes' = nodes
  BY <1>13 DEF Receipt
<1>14. ASSUME NEW s \in Passes, Recheck(s) PROVE nodes' = nodes
  BY <1>14 DEF Recheck
<1>15. ASSUME NEW s \in Passes, Resolve(s) PROVE nodes' = nodes
  BY <1>15 DEF Resolve
<1>16. ASSUME NEW s \in Passes, ScheduleNode(s) PROVE nodes' = nodes
  BY <1>16 DEF ScheduleNode
<1>17. ASSUME NEW s \in Passes, RecordNode(s) PROVE nodes' = nodes
  BY <1>17 DEF RecordNode
<1>18. ASSUME NEW s \in Passes, Park(s) PROVE nodes' = nodes
  BY <1>18 DEF Park, RowDone
<1>19. ASSUME NEW s \in Passes, FailRow(s) PROVE nodes' = nodes
  BY <1>19 DEF FailRow, RowDone
<1>20. ASSUME NEW s \in Passes, Throw(s) PROVE nodes' = nodes
  BY <1>20 DEF Throw
<1>21. ASSUME NEW s \in Passes, Crash(s) PROVE nodes' = nodes
  BY <1>21 DEF Crash
<1>22. ASSUME NEW s \in Passes, LoseLock(s) PROVE nodes' = nodes
  BY <1>22 DEF LoseLock
<1>23. ASSUME NEW s \in Passes, Mark(s) PROVE nodes' = nodes
  BY <1>23 DEF Mark, RowDone
<1>24. ASSUME NEW q \in Payments, Desk(q) PROVE nodes' = nodes
  BY <1>24 DEF Desk, Decide, Record, Requeue, Refund, Age
<1>25. CASE Network \/ UNCHANGED vars
  BY <1>25 DEF Network, Drop, Reconcile, Surface, OpenOrClose, vars
<1>26. ASSUME NEW s \in Passes, MarkUnheard(s) PROVE nodes' = nodes
  BY <1>26 DEF MarkUnheard
<1>q. QED
  BY <1>1, <1>2, <1>3, <1>4, <1>5, <1>6, <1>7, <1>8, <1>9, <1>10, <1>11, <1>12, <1>13, <1>14, <1>15, <1>16, <1>17, <1>18, <1>19, <1>20, <1>21, <1>22, <1>23, <1>24, <1>25, <1>26 DEF Next, Queue, MintOne

LEMMA BooksGrow ==
  ASSUME Shape, [Next]_vars
  PROVE  ledger \subseteq ledger' /\ sched \subseteq sched'
<1> USE DEF book
<1>1. ASSUME NEW s \in Passes, Start(s) PROVE ledger \subseteq ledger' /\ sched \subseteq sched'
  BY <1>1 DEF Start
<1>2. ASSUME NEW s \in Passes, Sweep(s) PROVE ledger \subseteq ledger' /\ sched \subseteq sched'
  BY <1>2 DEF Sweep
<1>3. ASSUME NEW s \in Passes, Claim(s) PROVE ledger \subseteq ledger' /\ sched \subseteq sched'
  BY <1>3 DEF Claim
<1>4. ASSUME NEW s \in Passes, Authorise(s) PROVE ledger \subseteq ledger' /\ sched \subseteq sched'
  BY <1>4 DEF Authorise
<1>5. ASSUME NEW s \in Passes, PutBack(s) PROVE ledger \subseteq ledger' /\ sched \subseteq sched'
  BY <1>5 DEF PutBack
<1>6. ASSUME NEW s \in Passes, Pick(s) PROVE ledger \subseteq ledger' /\ sched \subseteq sched'
  BY <1>6 DEF Pick
<1>7. ASSUME NEW s \in Passes, Finish(s) PROVE ledger \subseteq ledger' /\ sched \subseteq sched'
  BY <1>7 DEF Finish
<1>8. ASSUME NEW s \in Passes, Verify(s) PROVE ledger \subseteq ledger' /\ sched \subseteq sched'
  BY <1>8 DEF Verify, Step
<1>9. ASSUME NEW s \in Passes, Probe(s) PROVE ledger \subseteq ledger' /\ sched \subseteq sched'
  BY <1>9 DEF Probe, Step
<1>10. ASSUME NEW s \in Passes, Allow(s) PROVE ledger \subseteq ledger' /\ sched \subseteq sched'
  BY <1>10 DEF Allow, Step
<1>11. ASSUME NEW s \in Passes, Simulate(s) PROVE ledger \subseteq ledger' /\ sched \subseteq sched'
  BY <1>11 DEF Simulate, Step
<1>12. ASSUME NEW s \in Passes, Send(s) PROVE ledger \subseteq ledger' /\ sched \subseteq sched'
  BY <1>12 DEF Send, Step
<1>13. ASSUME NEW s \in Passes, Receipt(s) PROVE ledger \subseteq ledger' /\ sched \subseteq sched'
  BY <1>13 DEF Receipt, Step
<1>14. ASSUME NEW s \in Passes, Recheck(s) PROVE ledger \subseteq ledger' /\ sched \subseteq sched'
  BY <1>14 DEF Recheck, Step
<1>15. ASSUME NEW s \in Passes, Resolve(s) PROVE ledger \subseteq ledger' /\ sched \subseteq sched'
  BY <1>15 DEF Resolve, Step
<1>16. ASSUME NEW s \in Passes, ScheduleNode(s) PROVE ledger \subseteq ledger' /\ sched \subseteq sched'
  BY <1>16 DEF ScheduleNode
<1>17. ASSUME NEW s \in Passes, RecordNode(s) PROVE ledger \subseteq ledger' /\ sched \subseteq sched'
  BY <1>17 DEF RecordNode
<1>18. ASSUME NEW s \in Passes, Park(s) PROVE ledger \subseteq ledger' /\ sched \subseteq sched'
  BY <1>18 DEF Park
<1>19. ASSUME NEW s \in Passes, FailRow(s) PROVE ledger \subseteq ledger' /\ sched \subseteq sched'
  BY <1>19 DEF FailRow
<1>20. ASSUME NEW s \in Passes, Throw(s) PROVE ledger \subseteq ledger' /\ sched \subseteq sched'
  BY <1>20 DEF Throw
<1>21. ASSUME NEW s \in Passes, Crash(s) PROVE ledger \subseteq ledger' /\ sched \subseteq sched'
  BY <1>21 DEF Crash
<1>22. ASSUME NEW s \in Passes, LoseLock(s) PROVE ledger \subseteq ledger' /\ sched \subseteq sched'
  BY <1>22 DEF LoseLock
<1>23. ASSUME NEW s \in Passes, Mark(s) PROVE ledger \subseteq ledger' /\ sched \subseteq sched'
  BY <1>23 DEF Mark
<1>24. ASSUME NEW q \in Payments, Desk(q) PROVE UNCHANGED <<ledger, sched>>
  BY <1>24 DEF Desk, Decide, Record, Requeue, Refund, Age
<1>25. CASE Network \/ UNCHANGED vars
  BY <1>25 DEF Network, Mine, Drop, Reconcile, Surface, OpenOrClose, vars
<1>26. ASSUME NEW s \in Passes, MarkUnheard(s) PROVE ledger \subseteq ledger' /\ sched \subseteq sched'
  BY <1>26 DEF MarkUnheard
<1>q. QED
  BY <1>1, <1>2, <1>3, <1>4, <1>5, <1>6, <1>7, <1>8, <1>9, <1>10, <1>11, <1>12, <1>13, <1>14, <1>15, <1>16, <1>17, <1>18, <1>19, <1>20, <1>21, <1>22, <1>23, <1>24, <1>25, <1>26 DEF Next, Queue, MintOne

LEMMA NodesGrow == ASSUME Shape, [Next]_vars PROVE Grown
<1>1. nodes \in Seq(Payments)
  BY DEF Shape, TypeOK, ChainType
<1>2. CASE nodes' = nodes
  BY <1>1, <1>2, BooksGrow DEF Grown
<1>3. CASE \E t \in 1..Len(sent) : Mine(t)
  <2>1. PICK t \in 1..Len(sent) : Mine(t)
    BY <1>3
  <2>2. sent[t] \in [ref : Payments, fate : Fates]
    BY ElementOfSeq DEF Shape, TypeOK, ChainType
  <2>3. sent[t].ref \in Payments
    BY <2>2
  <2>4. nodes' = nodes \/ nodes' = Append(nodes, sent[t].ref)
    BY <2>1 DEF Mine
  <2>q. QED BY <1>1, <2>3, <2>4, BooksGrow, AppendProperties DEF Grown
<1>q. QED BY <1>2, <1>3, OnlyMineMakesNodes

(* Minted payments and their nodes. *)
LEMMA InitBacked == Init => MintedIsBacked
  BY DEF Init, MintedIsBacked

LEMMA NextBacked == ASSUME Shape, MintedIsBacked, [Next]_vars PROVE MintedIsBacked'
<1>0. Grown /\ Shape'
  BY NodesGrow, NextShape
<1>1. ASSUME NEW p \in Payments, status'[p] = "minted" PROVE nodeId'[p] # 0
  <2>1. CASE \E s \in Passes : Marked(s) /\ row[s] = p
    BY <2>1 DEF Marked, MarkMinted, At, AtWork, Shape, TypeOK, TableType, ChainType
  <2>2. CASE status[p] = "minted"
    <3>1. nodeId[p] # 0
      BY <2>2 DEF MintedIsBacked
    <3>2. CASE nodeId' = nodeId
      BY <3>1, <3>2
    <3>3. ASSUME NEW s \in Passes, Marked(s) PROVE nodeId'[p] # 0
      BY <3>1, <3>3 DEF Marked, MarkMinted, At, AtWork, Shape, TypeOK, TableType, ChainType
    <3>q. QED BY <3>2, <3>3, OnlyMarkSetsNodeId
  <2>q. QED BY <1>1, <2>1, <2>2, OnlyMarkMints
<1>2. ASSUME NEW p \in Payments, nodeId'[p] # 0
      PROVE  /\ nodeId'[p] <= Len(nodes') /\ nodes'[nodeId'[p]] = p
             /\ nodeId'[p] \in ledger' /\ nodeId'[p] \in sched'
  <2> DEFINE Good(k) == /\ k \in 1..Len(nodes) /\ nodes[k] = p
                        /\ k \in ledger /\ k \in sched
  <2>1. Good(nodeId'[p])
    <3>1. CASE nodeId'[p] = nodeId[p]
      BY <1>2, <3>1 DEF MintedIsBacked, Shape, TypeOK, TableType, ChainType
    <3>2. ASSUME NEW s \in Passes, Marked(s), nodeId'[p] # nodeId[p] PROVE Good(nodeId'[p])
      <4>1. row[s] = p /\ nodeId'[p] = found[s]
        BY <3>2 DEF Marked, MarkMinted, Shape, TypeOK, TableType
      <4>q. QED BY <3>2, <4>1 DEF Marked, At, AtWork, Shape
    <3>q. QED BY <3>1, <3>2, OnlyMarkSetsNodeId
  <2>2. Len(nodes) \in Nat /\ Len(nodes') \in Nat
    BY <1>0 DEF Grown, Shape, TypeOK, ChainType
  <2>q. QED BY <1>0, <2>1, <2>2 DEF Grown
<1>q. QED BY <1>1, <1>2 DEF MintedIsBacked

\* A payment marked minted names its own node, with its timer and its row
\* (settle in src/lib/mintRelay.ts), for any overlap of passes and any faults.
THEOREM RelayMintedIsBacked == Spec => []MintedIsBacked
<1>1. Shape /\ MintedIsBacked /\ [Next]_vars => MintedIsBacked'
  BY NextBacked
<1>q. QED BY <1>1, InitBacked, AlwaysShape, PTL DEF Spec

(* No two nodes carry one payment. *)
LEMMA InitOneNode == Init => OneNode
  BY DEF Init, OneNode

LEMMA NextOneNode == ASSUME Shape, OneNode, [Next]_vars PROVE OneNode'
<1>1. CASE nodes' = nodes
  BY <1>1 DEF OneNode
<1>2. ASSUME NEW t \in 1..Len(sent), Mine(t), nodes' # nodes PROVE OneNode'
  <2>1. sent[t] \in [ref : Payments, fate : Fates] /\ nodes \in Seq(Payments)
    BY ElementOfSeq DEF Shape, TypeOK, ChainType
  <2>2. nodes' = Append(nodes, sent[t].ref) /\ ~RefUsed(sent[t].ref) /\ sent[t].ref \in Payments
    BY <1>2, <2>1 DEF Mine
  <2>q. QED BY <2>1, <2>2, AppendProperties DEF OneNode, RefUsed
<1>q. QED BY <1>1, <1>2, OnlyMineMakesNodes

LEMMA NamesStay ==
  ASSUME Shape, MintedIsBacked, OneNode, [Next]_vars, NEW p \in Payments, nodeId[p] # 0
  PROVE  nodeId'[p] = nodeId[p]
<1>1. nodeId[p] \in 1..Len(nodes) /\ nodes[nodeId[p]] = p
  BY DEF MintedIsBacked, Shape, TypeOK, TableType, ChainType
<1>2. ASSUME NEW s \in Passes, Marked(s) PROVE nodeId'[p] = nodeId[p]
  <2>1. found[s] \in 1..Len(nodes) /\ nodes[found[s]] = row[s]
    BY <1>2 DEF Marked, At, AtWork, Shape
  <2>2. row[s] = p => found[s] = nodeId[p]
    BY <1>1, <2>1 DEF OneNode
  <2>q. QED BY <1>2, <2>2 DEF Marked, MarkMinted, Shape, TypeOK, TableType
<1>q. QED BY <1>2, OnlyMarkSetsNodeId

\* A payment never names another node than its first, and a minted payment no
\* pass holds stays minted (src/lib/payments.ts), for any overlap of passes.
THEOREM RelayMintedStays == Spec => MintedStays
<1>1. ASSUME Shape, MintedIsBacked, OneNode, [Next]_vars
      PROVE  [\A p \in Payments :
                /\ nodeId[p] # 0 => nodeId'[p] = nodeId[p]
                /\ status[p] = "minted" /\ Unheld(p) => status'[p] = "minted" /\ Unheld(p)']_vars
  <2>1. ASSUME NEW p \in Payments, status[p] = "minted", Unheld(p)
        PROVE  status'[p] = "minted" /\ Unheld(p)'
    <3>1. RowStep(p)
      BY <1>1, EveryRowStep
    <3>q. QED BY <2>1, <3>1 DEF Unheld, RowStep, RowKept, RowJudged, RowRefunded, RowSwept,
                                RowClaimed, RowSettled, RowUnheard
  <2>q. QED BY <1>1, <2>1, NamesStay
<1>2. Shape /\ MintedIsBacked /\ [Next]_vars => MintedIsBacked'
  BY NextBacked
<1>3. Shape /\ OneNode /\ [Next]_vars => OneNode'
  BY NextOneNode
<1>q. QED BY <1>1, <1>2, <1>3, InitBacked, InitOneNode, AlwaysShape, PTL DEF Spec, MintedStays

Resent(t) ==
    /\ t \in 1..Len(sent) /\ sent'[t].ref = sent[t].ref
    /\ sent'[t].fate = "pending" => sent[t].fate = "pending"

LEMMA OnlySendSends ==
  ASSUME Shape, [Next]_vars, NEW t \in 1..Len(sent')
  PROVE  \/ Resent(t)
         \/ \E s \in Passes : row[s] \in todo[s] /\ pc[s] = "send" /\ sent'[t].ref = row[s]
<1> USE DEF chain
<1>a. sent \in Seq([ref : Payments, fate : Fates])
  BY DEF Shape, TypeOK, ChainType
<1>0. CASE sent' = sent
  BY <1>0 DEF Resent
<1>1. ASSUME NEW s \in Passes, Start(s) PROVE sent' = sent
  BY <1>1 DEF Start
<1>2. ASSUME NEW s \in Passes, Sweep(s) PROVE sent' = sent
  BY <1>2 DEF Sweep
<1>3. ASSUME NEW s \in Passes, Claim(s) PROVE sent' = sent
  BY <1>3 DEF Claim
<1>4. ASSUME NEW s \in Passes, Authorise(s) PROVE sent' = sent
  BY <1>4 DEF Authorise
<1>5. ASSUME NEW s \in Passes, PutBack(s) PROVE sent' = sent
  BY <1>5 DEF PutBack
<1>6. ASSUME NEW s \in Passes, Pick(s) PROVE sent' = sent
  BY <1>6 DEF Pick
<1>7. ASSUME NEW s \in Passes, Finish(s) PROVE sent' = sent
  BY <1>7 DEF Finish
<1>8. ASSUME NEW s \in Passes, Verify(s) PROVE sent' = sent
  BY <1>8 DEF Verify
<1>9. ASSUME NEW s \in Passes, Probe(s) PROVE sent' = sent
  BY <1>9 DEF Probe
<1>10. ASSUME NEW s \in Passes, Allow(s) PROVE sent' = sent
  BY <1>10 DEF Allow
<1>11. ASSUME NEW s \in Passes, Simulate(s) PROVE sent' = sent
  BY <1>11 DEF Simulate
<1>12. ASSUME NEW s \in Passes, Send(s)
      PROVE  \/ Resent(t)
             \/ row[s] \in todo[s] /\ pc[s] = "send" /\ sent'[t].ref = row[s]
  <2>1. row[s] \in todo[s] /\ row[s] \in Payments /\ pc[s] = "send"
    BY <1>12 DEF Send, Step, At, Shape, AtWork, TypeOK, RelayType, Inner
  <2>2. [ref |-> row[s], fate |-> "pending"] \in [ref : Payments, fate : Fates]
    BY <2>1 DEF Fates
  <2>3. sent' = Append(sent, [ref |-> row[s], fate |-> "pending"])
    BY <1>12 DEF Send
  <2>4. t \in 1..Len(sent) \/ t = Len(sent) + 1
    BY <1>a, <2>2, <2>3, AppendProperties
  <2>q. QED BY <1>a, <2>1, <2>2, <2>3, <2>4, AppendProperties DEF Resent
<1>13. ASSUME NEW s \in Passes, Receipt(s) PROVE sent' = sent
  BY <1>13 DEF Receipt
<1>14. ASSUME NEW s \in Passes, Recheck(s) PROVE sent' = sent
  BY <1>14 DEF Recheck
<1>15. ASSUME NEW s \in Passes, Resolve(s) PROVE sent' = sent
  BY <1>15 DEF Resolve
<1>16. ASSUME NEW s \in Passes, ScheduleNode(s) PROVE sent' = sent
  BY <1>16 DEF ScheduleNode
<1>17. ASSUME NEW s \in Passes, RecordNode(s) PROVE sent' = sent
  BY <1>17 DEF RecordNode
<1>18. ASSUME NEW s \in Passes, Mark(s) PROVE sent' = sent
  BY <1>18 DEF Mark, RowDone
<1>19. ASSUME NEW s \in Passes, Park(s) PROVE sent' = sent
  BY <1>19 DEF Park, RowDone
<1>20. ASSUME NEW s \in Passes, FailRow(s) PROVE sent' = sent
  BY <1>20 DEF FailRow, RowDone
<1>21. ASSUME NEW s \in Passes, Throw(s) PROVE sent' = sent
  BY <1>21 DEF Throw
<1>22. ASSUME NEW s \in Passes, Crash(s) PROVE sent' = sent
  BY <1>22 DEF Crash
<1>23. ASSUME NEW s \in Passes, LoseLock(s) PROVE sent' = sent
  BY <1>23 DEF LoseLock
<1>24. ASSUME NEW q \in Payments, Desk(q) PROVE sent' = sent
  BY <1>24 DEF Desk, Decide, Record, Requeue, Refund, Age
<1>25. ASSUME NEW u \in 1..Len(sent), Mine(u) \/ Drop(u)
      PROVE  Resent(t)
  <2>1. PICK f \in Fates \ {"pending"} : sent' = [sent EXCEPT ![u].fate = f]
    BY <1>25 DEF Mine, Drop, Fates
  <2>2. sent[u] \in [ref : Payments, fate : Fates]
    BY <1>a, ElementOfSeq
  <2>3. [sent[u] EXCEPT !.fate = f] \in [ref : Payments, fate : Fates]
    BY <2>2
  <2>4. sent' = [sent EXCEPT ![u] = [sent[u] EXCEPT !.fate = f]]
    BY <2>1
  <2>5. Len(sent') = Len(sent)
    BY <1>a, <2>3, <2>4, ExceptSeq
  <2>6. sent'[t] = IF u = t THEN [sent[u] EXCEPT !.fate = f] ELSE sent[t]
    BY <1>a, <2>3, <2>4, <2>5, ExceptSeq
  <2>q. QED BY <2>2, <2>5, <2>6 DEF Resent
<1>26. CASE (\E n \in 1..Len(nodes) : Reconcile(n)) \/ Surface \/ OpenOrClose \/ UNCHANGED vars
  BY <1>26, <1>0 DEF Reconcile, Surface, OpenOrClose, vars
<1>27. ASSUME NEW s \in Passes, MarkUnheard(s) PROVE sent' = sent
  BY <1>27 DEF MarkUnheard
<1>q. QED
  BY <1>0, <1>1, <1>2, <1>3, <1>4, <1>5, <1>6, <1>7, <1>8, <1>9, <1>10, <1>11, <1>12, <1>13, <1>14, <1>15, <1>16, <1>17, <1>18, <1>19, <1>20, <1>21, <1>22, <1>23, <1>24, <1>25, <1>26, <1>27 DEF Next, Queue, MintOne, Network

\* A refund of a payment no pass holds is terminal, and no node is made for it
\* unless a mint was under way (src/lib/payments.ts, "no pass may ever turn one
\* into a node").
THEOREM RelayIdleRefundsStay == Spec => IdleRefundsStay
<1>1. ASSUME Shape, [Next]_vars
      PROVE  [\A p \in Payments :
                status[p] = "refunded" /\ Unheld(p) =>
                  /\ status'[p] = "refunded" /\ Unheld(p)'
                  /\ ~UnderWay(p) => ~UnderWay(p)' /\ (RefUsed(p)' => RefUsed(p))]_vars
  <2> SUFFICES ASSUME NEW p \in Payments, status[p] = "refunded", Unheld(p)
               PROVE  /\ status'[p] = "refunded" /\ Unheld(p)'
                      /\ ~UnderWay(p) => ~UnderWay(p)' /\ (RefUsed(p)' => RefUsed(p))
    BY Zenon
  <2>1. RowStep(p)
    BY <1>1, EveryRowStep
  <2>2. status'[p] = "refunded" /\ Unheld(p)'
    BY <2>1 DEF Unheld, RowStep, RowKept, RowJudged, RowRefunded, RowSwept, RowClaimed, RowSettled, RowUnheard
  <2>3. ASSUME ~UnderWay(p) PROVE ~UnderWay(p)'
    <3>1. SUFFICES ASSUME NEW t \in 1..Len(sent'), sent'[t].ref = p, sent'[t].fate = "pending"
                   PROVE  FALSE
      BY DEF UnderWay
    <3>q. QED BY <1>1, <2>3, <3>1, OnlySendSends DEF Resent, UnderWay, Unheld
  <2>4. ASSUME ~UnderWay(p), RefUsed(p)' PROVE RefUsed(p)
    <3>1. CASE nodes' = nodes
      BY <2>4, <3>1 DEF RefUsed
    <3>2. ASSUME NEW t \in 1..Len(sent), Mine(t) PROVE RefUsed(p)
      <4>1. sent[t] \in [ref : Payments, fate : Fates] /\ nodes \in Seq(Payments)
        BY <1>1, ElementOfSeq DEF Shape, TypeOK, ChainType
      <4>2. sent[t].ref \in Payments /\ sent[t].ref # p
        BY <2>4, <3>2, <4>1 DEF Mine, UnderWay
      <4>3. nodes' = nodes \/ nodes' = Append(nodes, sent[t].ref)
        BY <3>2 DEF Mine
      <4>q. QED BY <2>4, <4>1, <4>2, <4>3, AppendProperties DEF RefUsed
    <3>q. QED BY <1>1, <3>1, <3>2, OnlyMineMakesNodes
  <2>q. QED BY <2>2, <2>3, <2>4
<1>q. QED BY <1>1, AlwaysShape, PTL DEF Spec, IdleRefundsStay

\* The final statuses of a payment are final once no pass holds it, however many
\* passes overlap (src/lib/payments.ts).
THEOREM RelayFinalStays == Spec => FinalStays
<1>1. MintedStays /\ IdleRefundsStay => FinalStays
  BY DEF FinalStays
<1>q. QED BY <1>1, RelayMintedStays, RelayIdleRefundsStay

(* The relay implements the sale. *)
LEMMA OnlyDeskTakes ==
  ASSUME Shape, RecordedFirst, [Next]_vars, NEW p \in Payments, status[p] = "none", status'[p] # "none"
  PROVE  Record(p) \/ Refund(p)
<1> USE DEF Shape, TypeOK, TableType, RelayType, table
<1>0. \A s \in Passes : p \notin todo[s]
  BY DEF RecordedFirst
<1>1. ASSUME NEW s \in Passes, Start(s) PROVE FALSE
  BY <1>1 DEF Start
<1>2. ASSUME NEW s \in Passes, Sweep(s) PROVE FALSE
  BY <1>2 DEF Sweep
<1>3. ASSUME NEW s \in Passes, Claim(s) PROVE FALSE
  <2>1. PICK c \in SUBSET Payments :
          /\ Batch(c)
          /\ status' = status \/ status' = [q \in Payments |-> IF q \in c THEN "minting" ELSE status[q]]
    BY <1>3 DEF Claim
  <2>2. p \notin c
    BY <2>1 DEF Batch, Claimable
  <2>q. QED BY <2>1, <2>2
<1>4. ASSUME NEW s \in Passes, Authorise(s) PROVE FALSE
  BY <1>4 DEF Authorise
<1>5. ASSUME NEW s \in Passes, PutBack(s) PROVE FALSE
  BY <1>0, <1>5 DEF PutBack, MarkMintFailed, Write
<1>6. ASSUME NEW s \in Passes, Pick(s) PROVE FALSE
  BY <1>6 DEF Pick
<1>7. ASSUME NEW s \in Passes, Finish(s) PROVE FALSE
  BY <1>7 DEF Finish
<1>8. ASSUME NEW s \in Passes, Verify(s) PROVE FALSE
  BY <1>8 DEF Verify, Step
<1>9. ASSUME NEW s \in Passes, Probe(s) PROVE FALSE
  BY <1>9 DEF Probe, Step
<1>10. ASSUME NEW s \in Passes, Allow(s) PROVE FALSE
  BY <1>10 DEF Allow, Step
<1>11. ASSUME NEW s \in Passes, Simulate(s) PROVE FALSE
  BY <1>11 DEF Simulate, Step
<1>12. ASSUME NEW s \in Passes, Send(s) PROVE FALSE
  BY <1>12 DEF Send, Step
<1>13. ASSUME NEW s \in Passes, Receipt(s) PROVE FALSE
  BY <1>13 DEF Receipt, Step
<1>14. ASSUME NEW s \in Passes, Recheck(s) PROVE FALSE
  BY <1>14 DEF Recheck, Step
<1>15. ASSUME NEW s \in Passes, Resolve(s) PROVE FALSE
  BY <1>15 DEF Resolve, Step
<1>16. ASSUME NEW s \in Passes, ScheduleNode(s) PROVE FALSE
  BY <1>16 DEF ScheduleNode
<1>17. ASSUME NEW s \in Passes, RecordNode(s) PROVE FALSE
  BY <1>17 DEF RecordNode
<1>18. ASSUME NEW s \in Passes, Mark(s) PROVE FALSE
  <2>1. row[s] # p
    BY <1>0, <1>18 DEF Mark, At, AtWork, Inner
  <2>q. QED BY <1>18, <2>1 DEF Mark, MarkMinted, Write
<1>19. ASSUME NEW s \in Passes, Park(s) PROVE FALSE
  <2>1. row[s] # p
    BY <1>0, <1>19 DEF Park, At, AtWork, Inner
  <2>q. QED BY <1>19, <2>1 DEF Park, MarkManualReview, Write
<1>20. ASSUME NEW s \in Passes, FailRow(s) PROVE FALSE
  <2>1. row[s] # p
    BY <1>0, <1>20 DEF FailRow, At, AtWork, Inner
  <2>q. QED BY <1>20, <2>1 DEF FailRow, MarkMintFailed, Write
<1>21. ASSUME NEW s \in Passes, Throw(s) PROVE FALSE
  BY <1>21 DEF Throw
<1>22. ASSUME NEW s \in Passes, Crash(s) PROVE FALSE
  BY <1>22 DEF Crash
<1>23. ASSUME NEW s \in Passes, LoseLock(s) PROVE FALSE
  BY <1>23 DEF LoseLock
<1>24. ASSUME NEW q \in Payments, Desk(q) PROVE Record(p) \/ Refund(p)
  BY <1>24 DEF Desk, Decide, Record, Requeue, Refund, Age, Write
<1>25. CASE Network \/ UNCHANGED vars
  BY <1>25 DEF Network, Mine, Drop, Reconcile, Surface, OpenOrClose, vars
<1>26. ASSUME NEW s \in Passes, MarkUnheard(s) PROVE FALSE
  <2>1. row[s] # p
    BY <1>0, <1>26 DEF MarkUnheard, At, AtWork, Inner
  <2>q. QED BY <1>26, <2>1 DEF MarkUnheard, MarkMinted, Write
<1>q. QED
  BY <1>1, <1>2, <1>3, <1>4, <1>5, <1>6, <1>7, <1>8, <1>9, <1>10, <1>11, <1>12, <1>13, <1>14, <1>15, <1>16, <1>17, <1>18, <1>19, <1>20, <1>21, <1>22, <1>23, <1>24, <1>25, <1>26 DEF Next, Queue, MintOne

LEMMA InitRecordedFirst == Init => RecordedFirst
  BY DEF Init, RecordedFirst

LEMMA NextRecordedFirst ==
  ASSUME Shape, RecordedFirst, [Next]_vars
  PROVE  RecordedFirst'
<1>1. ASSUME NEW p \in Payments, status[p] # "none" PROVE status'[p] # "none"
  <2>1. RowStep(p)
    BY EveryRowStep
  <2>q. QED BY <1>1, <2>1 DEF RowStep, RowKept, RowJudged, RowRefunded, RowSwept,
                              RowClaimed, RowSettled, RowUnheard
<1>2. ASSUME NEW t \in 1..Len(sent') PROVE status'[sent'[t].ref] # "none"
  <2>1. CASE Resent(t)
    <3>1. sent[t] \in [ref : Payments, fate : Fates]
      BY <2>1, ElementOfSeq DEF Resent, Shape, TypeOK, ChainType
    <3>2. sent[t].ref \in Payments
      BY <3>1
    <3>q. QED BY <1>1, <2>1, <3>2 DEF Resent, RecordedFirst
  <2>2. CASE \E s \in Passes : row[s] \in todo[s] /\ sent'[t].ref = row[s]
    BY <1>1, <2>2 DEF RecordedFirst, Shape, TypeOK, RelayType
  <2>q. QED BY <2>1, <2>2, OnlySendSends
<1>3. ASSUME NEW n \in 1..Len(nodes') PROVE status'[nodes'[n]] # "none"
  <2>1. CASE nodes' = nodes
    <3>1. nodes[n] \in Payments
      BY <2>1, ElementOfSeq DEF Shape, TypeOK, ChainType
    <3>q. QED BY <1>1, <2>1, <3>1 DEF RecordedFirst
  <2>2. ASSUME NEW t \in 1..Len(sent), Mine(t), nodes' # nodes PROVE status'[nodes'[n]] # "none"
    <3>1. sent[t] \in [ref : Payments, fate : Fates] /\ nodes \in Seq(Payments)
      BY ElementOfSeq DEF Shape, TypeOK, ChainType
    <3>2. sent[t].ref \in Payments
      BY <3>1
    <3>3. nodes' = Append(nodes, sent[t].ref)
      BY <2>2 DEF Mine
    <3>4. (n \in 1..Len(nodes) /\ nodes'[n] = nodes[n]) \/ nodes'[n] = sent[t].ref
      BY <3>1, <3>2, <3>3, AppendProperties
    <3>5. CASE n \in 1..Len(nodes) /\ nodes'[n] = nodes[n]
      <4>1. nodes[n] \in Payments
        BY <3>1, <3>5, ElementOfSeq
      <4>q. QED BY <1>1, <3>5, <4>1 DEF RecordedFirst
    <3>6. CASE nodes'[n] = sent[t].ref
      BY <1>1, <3>2, <3>6 DEF RecordedFirst
    <3>q. QED BY <3>4, <3>5, <3>6
  <2>q. QED BY <2>1, <2>2, OnlyMineMakesNodes
<1>4. ASSUME NEW s \in Passes, NEW p \in todo'[s] PROVE status'[p] # "none"
  <2>0. Shape'
    BY NextShape
  <2>1. p \in Payments
    BY <2>0 DEF Shape, TypeOK, RelayType
  <2>2. RowStep(p)
    BY <2>1, EveryRowStep
  <2>3. p \in todo[s] \/ status'[p] = "minting"
    BY <1>4, <2>2 DEF RowStep, RowKept, RowJudged, RowRefunded, RowSwept, RowClaimed, RowSettled,
                      RowUnheard, Shape, TypeOK, RelayType
  <2>q. QED BY <1>1, <2>1, <2>3 DEF RecordedFirst
<1>q. QED BY <1>2, <1>3, <1>4 DEF RecordedFirst

LEMMA StepKeepsSale ==
  ASSUME Shape, RecordedFirst, MintedIsBacked, OneNode, [Next]_vars
  PROVE  [Sale!SaleNext]_(Sale!saleVars)
<1> DEFINE taken == {p \in Payments : status[p] # "none"}
           said == {p \in Payments : nodeId[p] # 0}
<1> USE DEF Shape, TypeOK, TableType
<1>1. \A p \in Payments : RowStep(p)
  BY EveryRowStep
<1>2. \A p \in Payments : status[p] # "none" => status'[p] # "none"
  BY <1>1 DEF RowStep, RowKept, RowJudged, RowRefunded, RowSwept, RowClaimed, RowSettled, RowUnheard
<1>3. \A p \in Payments : nodeId[p] # 0 => nodeId'[p] # 0
  BY NamesStay
<1>4. CASE nodes' # nodes
  <2>1. PICK t \in 1..Len(sent) : Mine(t)
    BY <1>4, OnlyMineMakesNodes
  <2>2. sent[t] \in [ref : Payments, fate : Fates]
    BY <2>1, ElementOfSeq DEF ChainType
  <2>3. sent[t].ref \in Payments
    BY <2>2
  <2>4. nodes' = Append(nodes, sent[t].ref) /\ ~RefUsed(sent[t].ref) /\ UNCHANGED <<status, nodeId>>
    BY <1>4, <2>1 DEF Mine, table
  <2>5. sent[t].ref \in taken
    BY <2>3 DEF RecordedFirst
  <2>6. Sale!Deliver(sent[t].ref)
    BY <2>4, <2>5 DEF Sale!Deliver, Sale!HasNode, RefUsed
  <2>q. QED BY <2>3, <2>6 DEF Sale!SaleNext
<1>5. ASSUME NEW p \in Payments, status[p] = "none", status'[p] # "none"
      PROVE  Sale!SaleNext
  <2>1. Record(p) \/ Refund(p)
    BY <1>5, OnlyDeskTakes
  <2>2. PICK st \in {"seen", "manual_review", "refunded"} : Write(p, st) /\ UNCHANGED <<nodes, nodeId>>
    BY <1>5, <2>1 DEF Record, Refund, chain
  <2>3. Sale!Take(p)
    BY <1>5, <2>2 DEF Write, Sale!Take
  <2>q. QED BY <2>3 DEF Sale!SaleNext
<1>6. ASSUME NEW p \in Payments, nodeId[p] = 0, nodeId'[p] # 0
      PROVE  Sale!SaleNext
  <2>1. PICK s \in Passes : Marked(s)
    BY <1>6, OnlyMarkSetsNodeId
  <2>2. row[s] \in todo[s] /\ found[s] \in 1..Len(nodes) /\ nodes[found[s]] = row[s]
    BY <2>1 DEF Marked, At, AtWork, Inner
  <2>3. row[s] = p /\ Write(p, "minted") /\ nodes' = nodes /\ nodeId' = [nodeId EXCEPT ![p] = found[s]]
    BY <1>6, <2>1 DEF Marked, MarkMinted
  <2>4. status[p] # "none" /\ found[s] # 0
    BY <2>2, <2>3 DEF RecordedFirst
  <2>5. taken' = taken
    BY <2>3, <2>4 DEF Write
  <2>6. said' = said \union {p}
    BY <2>3, <2>4
  <2>7. Sale!Say(p)
    BY <2>2, <2>3, <2>4, <2>5, <2>6 DEF Sale!Say, Sale!HasNode
  <2>q. QED BY <2>7 DEF Sale!SaleNext
<1>7. CASE /\ nodes' = nodes
           /\ \A p \in Payments : status[p] = "none" => status'[p] = "none"
           /\ \A p \in Payments : nodeId'[p] # 0 => nodeId[p] # 0
  BY <1>2, <1>3, <1>7 DEF Sale!saleVars
<1>q. QED BY <1>4, <1>5, <1>6, <1>7

\* The relay implements the sale: one node at most for a payment, never before
\* the payment was recorded, and its node named once and for ever (the ordering
\* rule of src/lib/payments.ts), for any overlap of passes and any faults.
THEOREM RelayKeepsSale == Spec => KeepsSale
<1>1. Init => Sale!SaleInit
  BY DEF Init, Sale!SaleInit
<1>2. Shape /\ RecordedFirst /\ [Next]_vars => RecordedFirst'
  BY NextRecordedFirst
<1>3. Shape /\ MintedIsBacked /\ [Next]_vars => MintedIsBacked'
  BY NextBacked
<1>4. Shape /\ OneNode /\ [Next]_vars => OneNode'
  BY NextOneNode
<1>5. Shape /\ RecordedFirst /\ MintedIsBacked /\ OneNode /\ [Next]_vars
      => [Sale!SaleNext]_(Sale!saleVars)
  BY StepKeepsSale
<1>q. QED
  BY <1>1, <1>2, <1>3, <1>4, <1>5, InitRecordedFirst, InitBacked, InitOneNode, AlwaysShape, PTL
     DEF Spec, KeepsSale, Sale!SaleSpec

(* The allowance of a buyer, while the administrator keeps his hands off.    *)
(* A payment is committed to once it has got beyond the allowance, and it    *)
(* then counts for as long as it may become `minted`.                        *)
Counted == {"seen", "minting", "failed", "minted"}
Beyond(p) == RefUsed(p) \/ UnderWay(p) \/ \E s \in Passes : row[s] = p /\ pc[s] \in PastAllow
Committed(p) == status[p] \in Counted /\ Beyond(p)
Taken(p) == {q \in Payments : Buyer[q] = Buyer[p] /\ Committed(q)}
Room == NoHands =>
    /\ \A p \in Payments : status[p] # "refunded"
    /\ \A p \in Payments : Cardinality(Taken(p)) <= Allowance

LEMMA HandsOff == ASSUME Shape, [Next]_vars, NoHands' PROVE NoHands
<1>1. ASSUME NEW s \in Passes, Start(s) PROVE budget' = budget
  BY <1>1 DEF Start
<1>2. ASSUME NEW s \in Passes, Sweep(s) PROVE budget' = budget
  BY <1>2 DEF Sweep
<1>3. ASSUME NEW s \in Passes, Claim(s) PROVE budget' = budget
  BY <1>3 DEF Claim
<1>4. ASSUME NEW s \in Passes, Authorise(s) PROVE budget' = budget
  BY <1>4 DEF Authorise
<1>5. ASSUME NEW s \in Passes, PutBack(s) PROVE budget' = budget
  BY <1>5 DEF PutBack
<1>6. ASSUME NEW s \in Passes, Pick(s) PROVE budget' = budget
  BY <1>6 DEF Pick
<1>7. ASSUME NEW s \in Passes, Finish(s) PROVE budget' = budget
  BY <1>7 DEF Finish
<1>8. ASSUME NEW s \in Passes, Verify(s) PROVE budget' = budget
  BY <1>8 DEF Verify, Step
<1>9. ASSUME NEW s \in Passes, Probe(s) PROVE budget' = budget
  BY <1>9 DEF Probe, Step
<1>10. ASSUME NEW s \in Passes, Allow(s) PROVE budget' = budget
  BY <1>10 DEF Allow, Step
<1>11. ASSUME NEW s \in Passes, Simulate(s) PROVE budget' = budget
  BY <1>11 DEF Simulate, Step
<1>12. ASSUME NEW s \in Passes, Send(s) PROVE budget' = budget
  BY <1>12 DEF Send, Step
<1>13. ASSUME NEW s \in Passes, Receipt(s) PROVE budget' = budget
  BY <1>13 DEF Receipt, Step
<1>14. ASSUME NEW s \in Passes, Recheck(s) PROVE budget' = budget
  BY <1>14 DEF Recheck, Step
<1>15. ASSUME NEW s \in Passes, Resolve(s) PROVE budget' = budget
  BY <1>15 DEF Resolve, Step
<1>16. ASSUME NEW s \in Passes, ScheduleNode(s) PROVE budget' = budget
  BY <1>16 DEF ScheduleNode
<1>17. ASSUME NEW s \in Passes, RecordNode(s) PROVE budget' = budget
  BY <1>17 DEF RecordNode
<1>18. ASSUME NEW s \in Passes, Mark(s) PROVE budget' = budget
  BY <1>18 DEF Mark, RowDone
<1>19. ASSUME NEW s \in Passes, Park(s) PROVE budget' = budget
  BY <1>19 DEF Park, RowDone
<1>20. ASSUME NEW s \in Passes, FailRow(s) PROVE budget' = budget
  BY <1>20 DEF FailRow, RowDone
<1>21. ASSUME NEW s \in Passes, Throw(s) PROVE budget' = budget
  BY <1>21 DEF Throw
<1>22. ASSUME NEW s \in Passes, Crash(s) \/ MarkUnheard(s) \/ LoseLock(s)
       PROVE  \E what \in Fault : Spend(what)
  BY <1>22 DEF Crash, MarkUnheard, LoseLock, Fault
<1>23. ASSUME NEW p \in Payments, Desk(p) PROVE budget' = budget \/ \E what \in Human : Spend(what)
  BY <1>23 DEF Desk, Decide, Record, Requeue, Refund, Age, Human
<1>24. CASE Network \/ UNCHANGED vars
  BY <1>24 DEF Network, Mine, Drop, Reconcile, Surface, OpenOrClose, vars, NoHands
<1>25. budget' = budget \/ \E what \in Human \union Fault : Spend(what)
  BY <1>1, <1>2, <1>3, <1>4, <1>5, <1>6, <1>7, <1>8, <1>9, <1>10, <1>11, <1>12, <1>13, <1>14, <1>15, <1>16, <1>17, <1>18, <1>19, <1>20, <1>21, <1>22, <1>23, <1>24
     DEF Next, Queue, MintOne, Network, Mine, Drop, Reconcile, Surface, OpenOrClose, vars
<1>26. CASE budget' = budget
  BY <1>26 DEF NoHands
<1>27. ASSUME NEW what \in Human \union Fault, Spend(what) PROVE NoHands
  BY <1>27 DEF Spend, NoHands, Shape, TypeOK, BudgetType
<1>q. QED BY <1>25, <1>26, <1>27

LEMMA OnlyAllowGoesBeyond ==
  ASSUME Shape, [Next]_vars, NEW p \in Payments, Beyond(p)', ~Beyond(p)
  PROVE  \E s \in Passes : Allow(s) /\ row[s] = p /\ pc'[s] = "simulate"
<1>1. ASSUME RefUsed(p)', ~RefUsed(p) PROVE UnderWay(p)
  <2>1. PICK t \in 1..Len(sent) : Mine(t)
    BY <1>1, OnlyMineMakesNodes DEF RefUsed
  <2>2. sent[t] \in [ref : Payments, fate : Fates] /\ nodes \in Seq(Payments)
    BY <2>1, ElementOfSeq DEF Shape, TypeOK, ChainType
  <2>3. nodes' = nodes \/ nodes' = Append(nodes, sent[t].ref)
    BY <2>1 DEF Mine
  <2>4. sent[t].ref = p
    BY <1>1, <2>2, <2>3, AppendProperties DEF RefUsed
  <2>q. QED BY <2>1, <2>4 DEF Mine, UnderWay
<1>2. ~UnderWay(p)'
  <2>1. SUFFICES ASSUME NEW t \in 1..Len(sent'), sent'[t].ref = p, sent'[t].fate = "pending"
                 PROVE  FALSE
    BY DEF UnderWay
  <2>q. QED BY <2>1, OnlySendSends DEF Resent, UnderWay, Beyond, PastAllow
<1>3. PICK s \in Passes : row'[s] = p /\ pc'[s] \in PastAllow
  BY <1>1, <1>2 DEF Beyond
<1>4. PassStep(s)
  BY EveryPassStep
<1>5. Allow(s)
  BY <1>3, <1>4 DEF PassStep, Beyond
<1>6. row[s] = p /\ pc'[s] = "simulate"
  BY <1>3, <1>5 DEF Allow, Step, Goto, hand, PastAllow, Shape, TypeOK, RelayType
<1>q. QED BY <1>5, <1>6

LEMMA NextRoom ==
  ASSUME ~SlowPasses, Shape, Held, RecordedFirst, Room, [Next]_vars
  PROVE  Room'
<1> SUFFICES ASSUME NoHands' PROVE (/\ \A p \in Payments : status[p] # "refunded"
                                   /\ \A p \in Payments : Cardinality(Taken(p)) <= Allowance)'
  BY DEF Room
<1>0. /\ NoHands
      /\ \A p \in Payments : status[p] # "refunded"
      /\ \A p \in Payments : Cardinality(Taken(p)) <= Allowance
  BY HandsOff DEF Room
<1>1. \A p \in Payments : RowStep(p)
  BY EveryRowStep
<1>2. ASSUME NEW p \in Payments PROVE status'[p] # "refunded"
  BY <1>0, <1>1 DEF RowStep, RowKept, RowJudged, RowRefunded, RowSwept, RowClaimed, RowSettled, RowUnheard
<1>3. ASSUME NEW p \in Payments, status[p] \notin Counted, status'[p] \in Counted
      PROVE  ~Beyond(p)'
  <2>1. ~RowSettled(p) /\ ~RowUnheard(p)
    <3>1. \A s \in Passes : p \notin todo[s]
      BY <1>0, <1>3 DEF Held, RowsHeldOnce, Unheard, Counted
    <3>q. QED BY <3>1 DEF RowSettled, RowUnheard
  <2>2. RowJudged(p)
    BY <1>1, <1>3, <2>1 DEF RowStep, RowKept, RowRefunded, RowSwept, RowClaimed, Counted
  <2>3. status[p] = "none" /\ UNCHANGED <<chain, pc, row>>
    BY <2>2 DEF RowJudged
  <2>4. ~Beyond(p)
    <3>1. ~RefUsed(p) /\ ~UnderWay(p)
      BY <2>3 DEF RecordedFirst, RefUsed, UnderWay
    <3>2. \A s \in Passes : ~(row[s] = p /\ pc[s] \in PastAllow)
      BY <2>3 DEF RecordedFirst, PastAllow, Shape, AtWork, Inner
    <3>q. QED BY <3>1, <3>2 DEF Beyond
  <2>q. QED BY <2>3, <2>4 DEF Beyond, RefUsed, UnderWay, chain
<1>4. ASSUME NEW p \in Payments PROVE Cardinality(Taken(p)') <= Allowance
  <2>1. CASE \E q \in Taken(p)' : ~Committed(q)
    <3>1. PICK q \in Payments : Buyer[q] = Buyer[p] /\ Committed(q)' /\ ~Committed(q)
      BY <2>1 DEF Taken
    <3>2. PICK s \in Passes : Allow(s) /\ row[s] = q /\ pc'[s] = "simulate"
      BY <1>3, <3>1, OnlyAllowGoesBeyond DEF Committed
    <3>3. status' = status /\ Cardinality(Usage(q)) <= Allowance
      <4>1. status' = status
        BY <3>2 DEF Allow, Step, table
      <4>2. ~(Cardinality(Usage(q)) > Allowance)
        BY <3>2 DEF Allow, Step, Goto, Shape, TypeOK, RelayType
      <4>3. IsFiniteSet(Usage(q))
        BY FS_Subset DEF Usage
      <4>4. Cardinality(Usage(q)) \in Nat
        BY <4>3, FS_CardinalityType
      <4>q. QED BY <4>1, <4>2, <4>4
    <3>4. Taken(p)' \subseteq Usage(q) /\ IsFiniteSet(Usage(q))
      <4>1. IsFiniteSet(Usage(q))
        BY FS_Subset DEF Usage
      <4>q. QED BY <3>1, <3>3, <4>1 DEF Taken, Committed, Counted, Usage
    <3>5. Cardinality(Taken(p)') \in Nat /\ Cardinality(Usage(q)) \in Nat
          /\ Cardinality(Taken(p)') <= Cardinality(Usage(q))
      BY <3>4, FS_Subset, FS_CardinalityType
    <3>q. QED BY <3>3, <3>5
  <2>2. CASE \A q \in Taken(p)' : Committed(q)
    <3>1. Taken(p)' \subseteq Taken(p)
      BY <2>2 DEF Taken
    <3>2. IsFiniteSet(Taken(p))
      BY FS_Subset DEF Taken
    <3>3. Cardinality(Taken(p)') \in Nat /\ Cardinality(Taken(p)) \in Nat
          /\ Cardinality(Taken(p)') <= Cardinality(Taken(p))
      BY <3>1, <3>2, FS_Subset, FS_CardinalityType
    <3>q. QED BY <1>0, <3>3
  <2>q. QED BY <2>1, <2>2
<1>q. QED BY <1>2, <1>4

LEMMA InitRoom == Init => Room
<1> SUFFICES ASSUME Init PROVE Room
  OBVIOUS
<1>1. \A p \in Payments : Taken(p) = {}
  BY DEF Init, Taken, Committed, Counted
<1>2. Allowance \in Nat /\ \A p \in Payments : status[p] # "refunded"
  BY RelayAssumption DEF Init
<1>3. ASSUME NEW p \in Payments PROVE Cardinality(Taken(p)) <= Allowance
  <2>1. Taken(p) = {}
    BY <1>1
  <2>2. Cardinality(Taken(p)) = 0
    BY <2>1, FS_EmptySet
  <2>q. QED BY <1>2, <2>2
<1>q. QED BY <1>2, <1>3 DEF Room

\* The nodes a buyer gets in one tier, mints under way included, stay within the
\* allowance but for those of rows parked for a human, for any overlap of
\* discoveries, passes, retries and late mints, if no pass outlives the stuck
\* limit and until the administrator requeues or refunds (the second count in
\* mintOne, src/lib/mintRelay.ts).
THEOREM RelayAllowanceKept == ~SlowPasses => (Spec => []AllowanceKept)
<1> SUFFICES ASSUME ~SlowPasses PROVE Spec => []AllowanceKept
  OBVIOUS
<1>1. Held /\ Shape /\ [Next]_vars => Held'
  BY NextHeld
<1>2. Shape /\ RecordedFirst /\ [Next]_vars => RecordedFirst'
  BY NextRecordedFirst
<1>3. Shape /\ Held /\ RecordedFirst /\ Room /\ [Next]_vars => Room'
  BY NextRoom
<1>4. ASSUME Shape, RecordedFirst, Room PROVE AllowanceKept
  <2> SUFFICES ASSUME NoHands, NEW p \in Payments
               PROVE  Cardinality({q \in Sold(p) : status[q] # "manual_review"}) <= Allowance
    BY DEF AllowanceKept
  <2> DEFINE M == {q \in Sold(p) : status[q] # "manual_review"}
  <2>1. ASSUME NEW q \in Payments, RefUsed(q) \/ UnderWay(q), status[q] # "manual_review"
        PROVE  Committed(q)
    <3>1. status[q] # "none"
      BY <1>4, <2>1 DEF RecordedFirst, RefUsed, UnderWay
    <3>2. status[q] # "refunded"
      BY <1>4 DEF Room
    <3>3. status[q] \in Statuses
      BY <1>4 DEF Shape, TypeOK, TableType
    <3>q. QED BY <2>1, <3>1, <3>2, <3>3 DEF Committed, Counted, Beyond, Statuses
  <2>2. M \subseteq Taken(p)
    BY <2>1 DEF Sold, Taken
  <2>3. IsFiniteSet(Taken(p))
    BY FS_Subset DEF Taken
  <2>4. Cardinality(M) \in Nat /\ Cardinality(Taken(p)) \in Nat /\ Cardinality(M) <= Cardinality(Taken(p))
    BY <2>2, <2>3, FS_Subset, FS_CardinalityType
  <2>5. Cardinality(Taken(p)) <= Allowance
    BY <1>4 DEF Room
  <2>6. Cardinality(M) <= Allowance
    BY <2>4, <2>5
  <2>q. QED BY <2>6
<1>q. QED
  BY <1>1, <1>2, <1>3, <1>4, InitHeld, InitRecordedFirst, InitRoom, AlwaysShape, PTL
     DEF Spec
----------------------------------------------------------------------------
(* What the sale itself promises                                            *)

\* The sale in the relay's terms: a row for every node, one node at most for a
\* payment, and a node for every payment that names one.
SaleInv ==
    /\ nodes \in Seq(Payments) /\ OneNode
    /\ \A n \in 1..Len(nodes) : status[nodes[n]] # "none"
    /\ \A p \in Payments : nodeId[p] # 0 => \E n \in 1..Len(nodes) : nodes[n] = p

\* Every step of the sale keeps that.
LEMMA SaleStep ==
  ASSUME SaleInv, NEW p \in Payments, Sale!Take(p) \/ Sale!Deliver(p) \/ Sale!Say(p)
  PROVE  SaleInv'
<1> DEFINE taken == {q \in Payments : status[q] # "none"}
           said == {q \in Payments : nodeId[q] # 0}
<1>1. taken \subseteq taken' /\ said' \subseteq said \union {p}
  BY DEF Sale!Take, Sale!Deliver, Sale!Say
<1>2. \A n \in 1..Len(nodes) : nodes[n] \in Payments
  BY ElementOfSeq DEF SaleInv
<1>3. CASE Sale!Deliver(p)
  <2>1. /\ p \in taken /\ UNCHANGED <<taken, said>> /\ nodes' = Append(nodes, p)
        /\ \A n \in 1..Len(nodes) : nodes[n] # p
    BY <1>3 DEF Sale!Deliver, Sale!HasNode
  <2>2. /\ nodes' \in Seq(Payments) /\ Len(nodes') = Len(nodes) + 1 /\ Len(nodes) \in Nat
        /\ nodes'[Len(nodes) + 1] = p
        /\ \A n \in 1..Len(nodes) : nodes'[n] = nodes[n]
    BY <2>1, AppendProperties DEF SaleInv
  <2>3. OneNode'
    BY <2>1, <2>2 DEF OneNode, SaleInv
  <2>4. ASSUME NEW n \in 1..Len(nodes') PROVE status'[nodes'[n]] # "none"
    <3>1. nodes'[n] \in taken
      <4>1. CASE n = Len(nodes) + 1
        BY <2>1, <2>2, <4>1
      <4>2. CASE n # Len(nodes) + 1
        <5>1. n \in 1..Len(nodes)
          BY <2>2, <4>2
        <5>q. QED BY <1>2, <2>2, <5>1 DEF SaleInv
      <4>q. QED BY <4>1, <4>2
    <3>q. QED BY <1>1, <3>1
  <2>5. ASSUME NEW q \in Payments, nodeId'[q] # 0 PROVE \E n \in 1..Len(nodes') : nodes'[n] = q
    <3>1. q \in said
      BY <2>1, <2>5
    <3>2. PICK n \in 1..Len(nodes) : nodes[n] = q
      BY <3>1 DEF SaleInv
    <3>q. QED BY <2>2, <3>2
  <2>q. QED BY <2>2, <2>3, <2>4, <2>5 DEF SaleInv
<1>4. CASE Sale!Take(p) \/ Sale!Say(p)
  <2>1. nodes' = nodes
    BY <1>4 DEF Sale!Take, Sale!Say
  <2>2. \A q \in said' : \E n \in 1..Len(nodes) : nodes[n] = q
    <3>1. CASE Sale!Take(p)
      BY <3>1 DEF Sale!Take, SaleInv
    <3>2. CASE Sale!Say(p)
      BY <1>1, <3>2 DEF Sale!Say, Sale!HasNode, SaleInv
    <3>q. QED BY <1>4, <3>1, <3>2
  <2>3. \A n \in 1..Len(nodes) : nodes[n] \in taken'
    BY <1>1, <1>2 DEF SaleInv
  <2>q. QED BY <2>1, <2>2, <2>3 DEF SaleInv, OneNode
<1>q. QED BY <1>3, <1>4

\* Whatever implements the sale makes one node at most for a payment, none for one
\* that was not recorded, and reports no payment whose node is not there.
THEOREM SaleDeliversOnce == KeepsSale => []SaleInv
<1>1. Sale!SaleInit => SaleInv
  BY DEF Sale!SaleInit, SaleInv, OneNode
<1>2. SaleInv /\ [Sale!SaleNext]_(Sale!saleVars) => SaleInv'
  <2>1. ASSUME SaleInv, UNCHANGED Sale!saleVars
        PROVE  SaleInv'
    <3> DEFINE taken == {q \in Payments : status[q] # "none"}
               said == {q \in Payments : nodeId[q] # 0}
    <3>1. UNCHANGED <<taken, nodes, said>>
      BY <2>1 DEF Sale!saleVars
    <3>2. \A n \in 1..Len(nodes) : nodes[n] \in Payments
      BY <2>1, ElementOfSeq DEF SaleInv
    <3>3. \A n \in 1..Len(nodes) : nodes[n] \in taken'
      BY <2>1, <3>1, <3>2 DEF SaleInv
    <3>4. \A q \in said' : \E n \in 1..Len(nodes) : nodes[n] = q
      BY <2>1, <3>1 DEF SaleInv
    <3>q. QED BY <2>1, <3>1, <3>3, <3>4 DEF SaleInv, OneNode
  <2>q. QED BY <2>1, SaleStep DEF Sale!SaleNext
<1>q. QED BY <1>1, <1>2, PTL DEF KeepsSale, Sale!SaleSpec
=============================================================================
