-------------------------- MODULE CreditPassProofs --------------------------
(***************************************************************************)
(* Proofs about CreditPass, for any nodes, drivers, limits and faults.     *)
(***************************************************************************)
EXTENDS CreditPass, Integers, WellFoundedInduction, FiniteSetTheorems, TLAPS

USE CreditAssumption DEF CreditAssumption

(* Types. *)
LEMMA InitType == Init => TypeOK
  BY DEF Init, TypeOK, ScheduleType, ChainType, BookType, DriveType, BudgetType,
         BatchOK, Batched, Sending, Places, Fates, NoBatch, Fault

\* Amounts are naturals: a batch's nodes are finitely many.
LEMMA AmountIsNat ==
  ASSUME NEW c \in SUBSET Nodes, NEW w \in (Cardinality(c) * MinAmount)..(Cardinality(c) * MaxAmount)
  PROVE  w \in Nat
<1>1. Cardinality(c) \in Nat
  BY FS_Subset, FS_CardinalityType
<1>2. \A i, j \in Nat : i * j \in Nat
  OBVIOUS
<1>3. Cardinality(c) * MinAmount \in Nat /\ Cardinality(c) * MaxAmount \in Nat
  BY <1>1, <1>2, Zenon
<1>4. \A i, j \in Nat : i..j \subseteq Nat
  OBVIOUS
<1>q. QED
  BY <1>3, <1>4

\* The three outcomes of Send.
Sent(d, t) ==
    /\ Free(t) /\ batch[d].nodes \intersect Inert = {}
    /\ sent' = [sent EXCEPT ![t] = [nodes |-> batch[d].nodes,
                                    wei |-> batch[d].wei, fate |-> "pending"]]
    /\ ledger' = ledger \ {t}
    /\ \/ /\ tx' = [tx EXCEPT ![d] = t]
          /\ Goto(d, "wait")
          /\ UNCHANGED <<batch, lock, budget>>
       \/ Spend("lost") /\ Quit(d)
NotSent(d) ==
    /\ Quit(d)
    /\ budget' = budget \/ Spend("skip")
    /\ UNCHANGED <<sent, ledger>>

\* A Send hands over a transaction or not.
LEMMA SendCases ==
  ASSUME NEW d \in Drivers, Send(d)
  PROVE  (\E t \in Txs : Sent(d, t)) \/ NotSent(d)
  BY DEF Send, Sent, NotSent

(* Types are kept by every step. *)
LEMMA TypeStep == TypeOK /\ [Next]_vars => TypeOK'
<1> SUFFICES ASSUME TypeOK, [Next]_vars PROVE TypeOK'
  OBVIOUS
<1> USE DEF TypeOK, schedule, chain, book, drive
<1>1. ASSUME NEW n \in Nodes, Come(n) PROVE TypeOK'
  <2>1. ScheduleType'
    BY <1>1 DEF Come, ScheduleType
  <2>2. ChainType'
    BY <1>1 DEF Come, ChainType, Fates
  <2>3. BookType'
    BY <1>1 DEF Come, BookType
  <2>4. DriveType'
    BY <1>1 DEF Come, DriveType, Places, Sending
  <2>5. BudgetType'
    BY <1>1 DEF Come, BudgetType
  <2>6. BatchOK'
    BY <1>1 DEF Come, BatchOK, Batched, Sending, DriveType, Places
  <2>q. QED BY <2>1, <2>2, <2>3, <2>4, <2>5, <2>6
<1>2. ASSUME NEW t \in Txs, Mine(t) PROVE TypeOK'
  <2>1. ScheduleType'
    BY <1>2 DEF Mine, ScheduleType
  <2>2. ChainType'
    BY <1>2 DEF Mine, ChainType, Fates
  <2>3. BookType'
    BY <1>2 DEF Mine, BookType
  <2>4. DriveType'
    BY <1>2 DEF Mine, DriveType, Places, Sending
  <2>5. BudgetType'
    BY <1>2 DEF Mine, BudgetType
  <2>6. BatchOK'
    BY <1>2 DEF Mine, BatchOK, Batched, Sending, DriveType, Places
  <2>q. QED BY <2>1, <2>2, <2>3, <2>4, <2>5, <2>6
<1>3. ASSUME NEW t \in Txs, Die(t) PROVE TypeOK'
  <2>1. ScheduleType'
    BY <1>3 DEF Die, Spend, Fault, ScheduleType
  <2>2. ChainType'
    BY <1>3 DEF Die, Spend, Fault, ChainType, Fates
  <2>3. BookType'
    BY <1>3 DEF Die, Spend, Fault, BookType
  <2>4. DriveType'
    BY <1>3 DEF Die, Spend, Fault, DriveType, Places, Sending
  <2>5. BudgetType'
    BY <1>3 DEF Die, Spend, Fault, BudgetType
  <2>6. BatchOK'
    BY <1>3 DEF Die, Spend, Fault, BatchOK, Batched, Sending, DriveType, Places
  <2>q. QED BY <2>1, <2>2, <2>3, <2>4, <2>5, <2>6
<1>4. ASSUME NEW t \in Txs, ChainDayOver(t) PROVE TypeOK'
  <2>1. ScheduleType'
    BY <1>4 DEF ChainDayOver, ScheduleType
  <2>2. ChainType'
    BY <1>4 DEF ChainDayOver, ChainType, Fates
  <2>3. BookType'
    BY <1>4 DEF ChainDayOver, BookType
  <2>4. DriveType'
    BY <1>4 DEF ChainDayOver, DriveType, Places, Sending
  <2>5. BudgetType'
    BY <1>4 DEF ChainDayOver, BudgetType
  <2>6. BatchOK'
    BY <1>4 DEF ChainDayOver, BatchOK, Batched, Sending, DriveType, Places
  <2>q. QED BY <2>1, <2>2, <2>3, <2>4, <2>5, <2>6
<1>5. ASSUME NEW t \in Txs, LedgerDayOver(t) PROVE TypeOK'
  <2>1. ScheduleType'
    BY <1>5 DEF LedgerDayOver, ScheduleType
  <2>2. ChainType'
    BY <1>5 DEF LedgerDayOver, ChainType, Fates
  <2>3. BookType'
    BY <1>5 DEF LedgerDayOver, BookType
  <2>4. DriveType'
    BY <1>5 DEF LedgerDayOver, DriveType, Places, Sending
  <2>5. BudgetType'
    BY <1>5 DEF LedgerDayOver, BudgetType
  <2>6. BatchOK'
    BY <1>5 DEF LedgerDayOver, BatchOK, Batched, Sending, DriveType, Places
  <2>q. QED BY <2>1, <2>2, <2>3, <2>4, <2>5, <2>6
<1>6. ASSUME NEW d \in Drivers, Start(d) PROVE TypeOK'
  <2>1. ScheduleType'
    BY <1>6 DEF Start, At, Goto, ScheduleType
  <2>2. ChainType'
    BY <1>6 DEF Start, At, Goto, ChainType, Fates
  <2>3. BookType'
    BY <1>6 DEF Start, At, Goto, BookType
  <2>4. DriveType'
    BY <1>6 DEF Start, At, Goto, DriveType, Places, Sending
  <2>5. BudgetType'
    BY <1>6 DEF Start, At, Goto, BudgetType
  <2>6. BatchOK'
    BY <1>6 DEF Start, At, Goto, BatchOK, Batched, Sending, DriveType, Places
  <2>q. QED BY <2>1, <2>2, <2>3, <2>4, <2>5, <2>6
<1>7. ASSUME NEW d \in Drivers, Skip(d) PROVE TypeOK'
  <2>1. ScheduleType'
    BY <1>7 DEF Skip, Goto, Quit, NoBatch, Spend, Fault, ScheduleType
  <2>2. ChainType'
    BY <1>7 DEF Skip, Goto, Quit, NoBatch, Spend, Fault, ChainType, Fates
  <2>3. BookType'
    BY <1>7 DEF Skip, Goto, Quit, NoBatch, Spend, Fault, BookType
  <2>4. DriveType'
    BY <1>7 DEF Skip, Goto, Quit, NoBatch, Spend, Fault, DriveType, Places, Sending
  <2>5. BudgetType'
    BY <1>7 DEF Skip, Goto, Quit, NoBatch, Spend, Fault, BudgetType
  <2>6. BatchOK'
    BY <1>7 DEF Skip, Goto, Quit, NoBatch, Spend, Fault, BatchOK, Batched, Sending, DriveType, Places
  <2>q. QED BY <2>1, <2>2, <2>3, <2>4, <2>5, <2>6
<1>8. ASSUME NEW d \in Drivers, Look(d) PROVE TypeOK'
  <2>1. ScheduleType'
    BY <1>8 DEF Look, At, Goto, Quit, NoBatch, DueNodes, ScheduleType
  <2>2. ChainType'
    BY <1>8 DEF Look, At, Goto, Quit, NoBatch, DueNodes, ChainType, Fates
  <2>3. BookType'
    BY <1>8 DEF Look, At, Goto, Quit, NoBatch, DueNodes, BookType
  <2>4. DriveType'
    <3>1. DueNodes \subseteq Nodes
      BY DEF DueNodes, ScheduleType
    <3>2. CASE Quit(d)
      BY <3>2 DEF Quit, Goto, NoBatch, DriveType, Places
    <3>3. CASE /\ batch' = [batch EXCEPT ![d] = [nodes |-> DueNodes, wei |-> 0]]
               /\ Goto(d, "chain")
               /\ UNCHANGED <<tx, lock>>
      BY <3>1, <3>3 DEF Goto, DriveType, Places
    <3>q. QED
      BY <1>8, <3>2, <3>3 DEF Look
  <2>5. BudgetType'
    BY <1>8 DEF Look, At, Goto, Quit, NoBatch, DueNodes, BudgetType
  <2>6. BatchOK'
    BY <1>8 DEF Look, At, Goto, Quit, NoBatch, DueNodes, BatchOK, Batched, Sending, DriveType, Places
  <2>q. QED BY <2>1, <2>2, <2>3, <2>4, <2>5, <2>6
<1>9. ASSUME NEW d \in Drivers, ReadChain(d) PROVE TypeOK'
  <2>1. ScheduleType'
    BY <1>9 DEF ReadChain, At, Goto, Quit, NoBatch, Creditable, ScheduleType
  <2>2. ChainType'
    BY <1>9 DEF ReadChain, At, Goto, Quit, NoBatch, Creditable, ChainType, Fates
  <2>3. BookType'
    BY <1>9 DEF ReadChain, At, Goto, Quit, NoBatch, Creditable, BookType
  <2>4. DriveType'
    <3>1. CASE Goto(d, "defer") /\ UNCHANGED <<batch, tx, lock>>
      BY <3>1 DEF Goto, DriveType, Places
    <3>2. CASE Quit(d)
      BY <3>2 DEF Quit, Goto, NoBatch, DriveType, Places
    <3>3. ASSUME NEW w \in (Cardinality(Creditable(d)) * MinAmount)..(Cardinality(Creditable(d)) * MaxAmount),
                 batch' = [batch EXCEPT ![d] = [nodes |-> Creditable(d), wei |-> w]],
                 Goto(d, "rails"), UNCHANGED <<tx, lock>>
          PROVE  DriveType'
      <4>1. Creditable(d) \in SUBSET Nodes
        BY DEF Creditable, DriveType
      <4>2. w \in Nat
        BY <4>1, AmountIsNat
      <4>q. QED
        BY <3>3, <4>1, <4>2 DEF Goto, DriveType, Places
    <3>q. QED
      BY <1>9, <3>1, <3>2, <3>3 DEF ReadChain
  <2>5. BudgetType'
    BY <1>9 DEF ReadChain, At, Goto, Quit, NoBatch, Creditable, BudgetType
  <2>6. BatchOK'
    BY <1>9 DEF ReadChain, At, Goto, Quit, NoBatch, Creditable, BatchOK, Batched, Sending, DriveType, Places
  <2>q. QED BY <2>1, <2>2, <2>3, <2>4, <2>5, <2>6
<1>10. ASSUME NEW d \in Drivers, Rails(d) PROVE TypeOK'
  <2>1. ScheduleType'
    BY <1>10 DEF Rails, At, Goto, ScheduleType
  <2>2. ChainType'
    BY <1>10 DEF Rails, At, Goto, ChainType, Fates
  <2>3. BookType'
    BY <1>10 DEF Rails, At, Goto, BookType
  <2>4. DriveType'
    BY <1>10 DEF Rails, At, Goto, DriveType, Places, Sending
  <2>5. BudgetType'
    BY <1>10 DEF Rails, At, Goto, BudgetType
  <2>6. BatchOK'
    BY <1>10 DEF Rails, At, Goto, BatchOK, Batched, Sending, DriveType, Places
  <2>q. QED BY <2>1, <2>2, <2>3, <2>4, <2>5, <2>6
<1>11. ASSUME NEW d \in Drivers, DeferAll(d) PROVE TypeOK'
  <2>1. ScheduleType'
    BY <1>11 DEF DeferAll, At, Goto, Quit, NoBatch, Postpone, ScheduleType
  <2>2. ChainType'
    BY <1>11 DEF DeferAll, At, Goto, Quit, NoBatch, Postpone, ChainType, Fates
  <2>3. BookType'
    BY <1>11 DEF DeferAll, At, Goto, Quit, NoBatch, Postpone, BookType
  <2>4. DriveType'
    BY <1>11 DEF DeferAll, At, Goto, Quit, NoBatch, Postpone, DriveType, Places, Sending
  <2>5. BudgetType'
    BY <1>11 DEF DeferAll, At, Goto, Quit, NoBatch, Postpone, BudgetType
  <2>6. BatchOK'
    BY <1>11 DEF DeferAll, At, Goto, Quit, NoBatch, Postpone, BatchOK, Batched, Sending, DriveType, Places
  <2>q. QED BY <2>1, <2>2, <2>3, <2>4, <2>5, <2>6
<1>12. ASSUME NEW d \in Drivers, Send(d) PROVE TypeOK'
  <2>1. ScheduleType'
    BY <1>12 DEF Send, At, Goto, Quit, NoBatch, Spend, Fault, Free, ScheduleType
  <2>2. ChainType'
    BY <1>12 DEF Send, At, Goto, Quit, NoBatch, Spend, Fault, Free, ChainType, Fates, DriveType
  <2>3. BookType'
    <3>1. ledgerDay' = ledgerDay /\ alert' = alert
      BY <1>12 DEF Send
    <3>3. ASSUME NEW t \in Txs, Sent(d, t) PROVE BookType'
      BY <3>1, <3>3 DEF Sent, BookType
    <3>4. CASE NotSent(d)
      BY <3>1, <3>4 DEF NotSent, BookType
    <3>q. QED
      BY <1>12, SendCases, <3>3, <3>4
  <2>4. DriveType'
    <3>1. ASSUME NEW t \in Txs, Sent(d, t) PROVE DriveType'
      <4>1. CASE /\ tx' = [tx EXCEPT ![d] = t]
                 /\ Goto(d, "wait")
                 /\ UNCHANGED <<batch, lock, budget>>
        BY <4>1 DEF Goto, DriveType, Places, Sending
      <4>2. CASE Quit(d)
        BY <4>2 DEF Quit, Goto, NoBatch, DriveType, Places
      <4>q. QED
        BY <3>1, <4>1, <4>2 DEF Sent
    <3>2. CASE NotSent(d)
      BY <3>2 DEF NotSent, Quit, Goto, NoBatch, DriveType, Places
    <3>q. QED
      BY <1>12, SendCases, <3>1, <3>2
  <2>5. BudgetType'
    BY <1>12 DEF Send, At, Goto, Quit, NoBatch, Spend, Fault, Free, BudgetType
  <2>6. BatchOK'
    BY <1>12 DEF Send, At, Goto, Quit, NoBatch, Spend, Fault, Free, BatchOK, Batched, Sending, DriveType, Places
  <2>q. QED BY <2>1, <2>2, <2>3, <2>4, <2>5, <2>6
<1>13. ASSUME NEW d \in Drivers, Wait(d) PROVE TypeOK'
  <2>1. ScheduleType'
    BY <1>13 DEF Wait, At, Goto, Quit, NoBatch, Spend, Fault, ScheduleType
  <2>2. ChainType'
    BY <1>13 DEF Wait, At, Goto, Quit, NoBatch, Spend, Fault, ChainType, Fates
  <2>3. BookType'
    BY <1>13 DEF Wait, At, Goto, Quit, NoBatch, Spend, Fault, BookType
  <2>4. DriveType'
    BY <1>13 DEF Wait, At, Goto, Quit, NoBatch, Spend, Fault, DriveType, Places, Sending
  <2>5. BudgetType'
    BY <1>13 DEF Wait, At, Goto, Quit, NoBatch, Spend, Fault, BudgetType
  <2>6. BatchOK'
    BY <1>13 DEF Wait, At, Goto, Quit, NoBatch, Spend, Fault, BatchOK, Batched, Sending, DriveType, Places
  <2>q. QED BY <2>1, <2>2, <2>3, <2>4, <2>5, <2>6
<1>14. ASSUME NEW d \in Drivers, Book(d) PROVE TypeOK'
  <2>1. ScheduleType'
    BY <1>14 DEF Book, At, Goto, Spend, Fault, Postpone, ScheduleType, DriveType
  <2>2. ChainType'
    BY <1>14 DEF Book, At, Goto, Spend, Fault, Postpone, ChainType, Fates
  <2>3. BookType'
    BY <1>14 DEF Book, At, Goto, Spend, Fault, Postpone, BookType, DriveType, BatchOK, Sending
  <2>4. DriveType'
    BY <1>14 DEF Book, At, Goto, Spend, Fault, Postpone, DriveType, Places, Sending
  <2>5. BudgetType'
    BY <1>14 DEF Book, At, Goto, Spend, Fault, Postpone, BudgetType
  <2>6. BatchOK'
    BY <1>14 DEF Book, At, Goto, Spend, Fault, Postpone, BatchOK, Batched, Sending, DriveType, Places
  <2>q. QED BY <2>1, <2>2, <2>3, <2>4, <2>5, <2>6
<1>15. ASSUME NEW d \in Drivers, Salvage(d) PROVE TypeOK'
  <2>1. ScheduleType'
    BY <1>15 DEF Salvage, At, Goto, Spend, Fault, Postpone, ScheduleType
  <2>2. ChainType'
    BY <1>15 DEF Salvage, At, Goto, Spend, Fault, Postpone, ChainType, Fates
  <2>3. BookType'
    BY <1>15 DEF Salvage, At, Goto, Spend, Fault, Postpone, BookType
  <2>4. DriveType'
    BY <1>15 DEF Salvage, At, Goto, Spend, Fault, Postpone, DriveType, Places, Sending
  <2>5. BudgetType'
    BY <1>15 DEF Salvage, At, Goto, Spend, Fault, Postpone, BudgetType
  <2>6. BatchOK'
    BY <1>15 DEF Salvage, At, Goto, Spend, Fault, Postpone, BatchOK, Batched, Sending, DriveType, Places
  <2>q. QED BY <2>1, <2>2, <2>3, <2>4, <2>5, <2>6
<1>16. ASSUME NEW d \in Drivers, Warn(d) PROVE TypeOK'
  <2>1. ScheduleType'
    BY <1>16 DEF Warn, At, Goto, Quit, NoBatch, Spend, Fault, ScheduleType
  <2>2. ChainType'
    BY <1>16 DEF Warn, At, Goto, Quit, NoBatch, Spend, Fault, ChainType, Fates
  <2>3. BookType'
    BY <1>16 DEF Warn, At, Goto, Quit, NoBatch, Spend, Fault, BookType, DriveType, BatchOK, Sending
  <2>4. DriveType'
    BY <1>16 DEF Warn, At, Goto, Quit, NoBatch, Spend, Fault, DriveType, Places, Sending
  <2>5. BudgetType'
    BY <1>16 DEF Warn, At, Goto, Quit, NoBatch, Spend, Fault, BudgetType
  <2>6. BatchOK'
    BY <1>16 DEF Warn, At, Goto, Quit, NoBatch, Spend, Fault, BatchOK, Batched, Sending, DriveType, Places
  <2>q. QED BY <2>1, <2>2, <2>3, <2>4, <2>5, <2>6
<1>17. ASSUME NEW d \in Drivers, Clear(d) PROVE TypeOK'
  <2>1. ScheduleType'
    BY <1>17 DEF Clear, At, Goto, Quit, NoBatch, ScheduleType
  <2>2. ChainType'
    BY <1>17 DEF Clear, At, Goto, Quit, NoBatch, ChainType, Fates
  <2>3. BookType'
    BY <1>17 DEF Clear, At, Goto, Quit, NoBatch, BookType
  <2>4. DriveType'
    BY <1>17 DEF Clear, At, Goto, Quit, NoBatch, DriveType, Places, Sending
  <2>5. BudgetType'
    BY <1>17 DEF Clear, At, Goto, Quit, NoBatch, BudgetType
  <2>6. BatchOK'
    BY <1>17 DEF Clear, At, Goto, Quit, NoBatch, BatchOK, Batched, Sending, DriveType, Places
  <2>q. QED BY <2>1, <2>2, <2>3, <2>4, <2>5, <2>6
<1>18. ASSUME NEW d \in Drivers, Crash(d) PROVE TypeOK'
  <2>1. ScheduleType'
    BY <1>18 DEF Crash, Goto, Quit, NoBatch, Spend, Fault, ScheduleType
  <2>2. ChainType'
    BY <1>18 DEF Crash, Goto, Quit, NoBatch, Spend, Fault, ChainType, Fates
  <2>3. BookType'
    BY <1>18 DEF Crash, Goto, Quit, NoBatch, Spend, Fault, BookType
  <2>4. DriveType'
    BY <1>18 DEF Crash, Goto, Quit, NoBatch, Spend, Fault, DriveType, Places, Sending
  <2>5. BudgetType'
    BY <1>18 DEF Crash, Goto, Quit, NoBatch, Spend, Fault, BudgetType
  <2>6. BatchOK'
    BY <1>18 DEF Crash, Goto, Quit, NoBatch, Spend, Fault, BatchOK, Batched, Sending, DriveType, Places
  <2>q. QED BY <2>1, <2>2, <2>3, <2>4, <2>5, <2>6
<1>19. ASSUME NEW d \in Drivers, LoseLock(d) PROVE TypeOK'
  <2>1. ScheduleType'
    BY <1>19 DEF LoseLock, Spend, Fault, ScheduleType
  <2>2. ChainType'
    BY <1>19 DEF LoseLock, Spend, Fault, ChainType, Fates
  <2>3. BookType'
    BY <1>19 DEF LoseLock, Spend, Fault, BookType
  <2>4. DriveType'
    BY <1>19 DEF LoseLock, Spend, Fault, DriveType, Places, Sending
  <2>5. BudgetType'
    BY <1>19 DEF LoseLock, Spend, Fault, BudgetType
  <2>6. BatchOK'
    BY <1>19 DEF LoseLock, Spend, Fault, BatchOK, Batched, Sending, DriveType, Places
  <2>q. QED BY <2>1, <2>2, <2>3, <2>4, <2>5, <2>6
<1>20. CASE UNCHANGED vars
  BY <1>20 DEF vars, ScheduleType, ChainType, BookType, DriveType, BudgetType, BatchOK
<1>q. QED
  BY <1>1, <1>2, <1>3, <1>4, <1>5, <1>6, <1>7, <1>8, <1>9, <1>10, <1>11, <1>12, <1>13, <1>14, <1>15, <1>16, <1>17, <1>18, <1>19, <1>20 DEF Next, Go

\* Every variable keeps its type, and only non-empty batches of known nodes are sent.
THEOREM CreditTypeOK == Spec => []TypeOK
  BY InitType, TypeStep, PTL DEF Spec

(* What is recorded was mined. *)

\* The ledger, and the passes past the receipt, have mined transactions.
Confirmed ==
    /\ ledgerDay \subseteq ledger
    /\ \A t \in ledger : sent[t].fate = "ok"
    /\ \A d \in Drivers : pc[d] \in {"book", "salvage", "warn", "clear"} =>
         sent[tx[d]].fate = "ok"

LEMMA ConfirmedStep == TypeOK /\ Confirmed /\ [Next]_vars => Confirmed'
<1> SUFFICES ASSUME TypeOK, Confirmed, [Next]_vars PROVE Confirmed'
  OBVIOUS
<1> USE DEF schedule, chain, book, drive
<1>1. ASSUME NEW n \in Nodes, Come(n) PROVE Confirmed'
  BY <1>1 DEF Come, Confirmed, TypeOK, ChainType, BookType, DriveType, BatchOK, Sending, Places
<1>2. ASSUME NEW t \in Txs, Mine(t) PROVE Confirmed'
  BY <1>2 DEF Mine, Confirmed, TypeOK, ChainType, BookType, DriveType, BatchOK, Sending, Places
<1>3. ASSUME NEW t \in Txs, Die(t) PROVE Confirmed'
  BY <1>3 DEF Die, Spend, Fault, Confirmed, TypeOK, ChainType, BookType, DriveType, BatchOK, Sending, Places
<1>4. ASSUME NEW t \in Txs, ChainDayOver(t) PROVE Confirmed'
  BY <1>4 DEF ChainDayOver, Confirmed, TypeOK, ChainType, BookType, DriveType, BatchOK, Sending, Places
<1>5. ASSUME NEW t \in Txs, LedgerDayOver(t) PROVE Confirmed'
  BY <1>5 DEF LedgerDayOver, Confirmed, TypeOK, ChainType, BookType, DriveType, BatchOK, Sending, Places
<1>6. ASSUME NEW d \in Drivers, Start(d) PROVE Confirmed'
  BY <1>6 DEF Start, At, Goto, Confirmed, TypeOK, ChainType, BookType, DriveType, BatchOK, Sending, Places
<1>7. ASSUME NEW d \in Drivers, Skip(d) PROVE Confirmed'
  BY <1>7 DEF Skip, Goto, Quit, NoBatch, Spend, Fault, Confirmed, TypeOK, ChainType, BookType, DriveType, BatchOK, Sending, Places
<1>8. ASSUME NEW d \in Drivers, Look(d) PROVE Confirmed'
  BY <1>8 DEF Look, At, Goto, Quit, NoBatch, DueNodes, Confirmed, TypeOK, ChainType, BookType, DriveType, BatchOK, Sending, Places
<1>9. ASSUME NEW d \in Drivers, ReadChain(d) PROVE Confirmed'
  BY <1>9 DEF ReadChain, At, Goto, Quit, NoBatch, Creditable, Confirmed, TypeOK, ChainType, BookType, DriveType, BatchOK, Sending, Places
<1>10. ASSUME NEW d \in Drivers, Rails(d) PROVE Confirmed'
  BY <1>10 DEF Rails, At, Goto, Confirmed, TypeOK, ChainType, BookType, DriveType, BatchOK, Sending, Places
<1>11. ASSUME NEW d \in Drivers, DeferAll(d) PROVE Confirmed'
  BY <1>11 DEF DeferAll, At, Goto, Quit, NoBatch, Postpone, Confirmed, TypeOK, ChainType, BookType, DriveType, BatchOK, Sending, Places
<1>12. ASSUME NEW d \in Drivers, Send(d) PROVE Confirmed'
  <2>1. ledgerDay' = ledgerDay /\ pc[d] = "send"
    BY <1>12 DEF Send, At
  <2>2. ASSUME NEW t \in Txs, Sent(d, t) PROVE Confirmed'
    <3>1. pc' \in [Drivers -> Places] /\ pc'[d] \in {"wait", "off"}
          /\ \A e \in Drivers \ {d} : pc'[e] = pc[e] /\ tx'[e] = tx[e]
      BY <2>2 DEF Sent, Quit, Goto, TypeOK, DriveType, Places, Sending
    <3>2. \A e \in Drivers : tx[e] # t
      BY <2>2 DEF Sent, Free
    <3>3. t \notin ledgerDay
      BY <2>2 DEF Sent, Free, Confirmed
    <3>4. \A u \in Txs \ {t} : sent'[u] = sent[u]
      BY <2>2 DEF Sent, TypeOK, ChainType
    <3>5. ledger' = ledger \ {t}
      BY <2>2 DEF Sent
    <3>q. QED
      BY <2>1, <3>1, <3>2, <3>3, <3>4, <3>5 DEF Confirmed, TypeOK, BookType, BatchOK, Sending
  <2>3. CASE NotSent(d)
    BY <2>1, <2>3 DEF NotSent, Quit, Goto, Confirmed, TypeOK, DriveType, BatchOK, Sending
  <2>q. QED
    BY <1>12, SendCases, <2>2, <2>3
<1>13. ASSUME NEW d \in Drivers, Wait(d) PROVE Confirmed'
  BY <1>13 DEF Wait, At, Goto, Quit, NoBatch, Spend, Fault, Confirmed, TypeOK, ChainType, BookType, DriveType, BatchOK, Sending, Places
<1>14. ASSUME NEW d \in Drivers, Book(d) PROVE Confirmed'
  BY <1>14 DEF Book, At, Goto, Spend, Fault, Postpone, Confirmed, TypeOK, ChainType, BookType, DriveType, BatchOK, Sending, Places
<1>15. ASSUME NEW d \in Drivers, Salvage(d) PROVE Confirmed'
  BY <1>15 DEF Salvage, At, Goto, Spend, Fault, Postpone, Confirmed, TypeOK, ChainType, BookType, DriveType, BatchOK, Sending, Places
<1>16. ASSUME NEW d \in Drivers, Warn(d) PROVE Confirmed'
  BY <1>16 DEF Warn, At, Goto, Quit, NoBatch, Spend, Fault, Confirmed, TypeOK, ChainType, BookType, DriveType, BatchOK, Sending, Places
<1>17. ASSUME NEW d \in Drivers, Clear(d) PROVE Confirmed'
  BY <1>17 DEF Clear, At, Goto, Quit, NoBatch, Confirmed, TypeOK, ChainType, BookType, DriveType, BatchOK, Sending, Places
<1>18. ASSUME NEW d \in Drivers, Crash(d) PROVE Confirmed'
  BY <1>18 DEF Crash, Goto, Quit, NoBatch, Spend, Fault, Confirmed, TypeOK, ChainType, BookType, DriveType, BatchOK, Sending, Places
<1>19. ASSUME NEW d \in Drivers, LoseLock(d) PROVE Confirmed'
  BY <1>19 DEF LoseLock, Spend, Fault, Confirmed, TypeOK, ChainType, BookType, DriveType, BatchOK, Sending, Places
<1>20. CASE UNCHANGED vars
  BY <1>20 DEF vars, Confirmed, TypeOK, ChainType, BookType, DriveType, BatchOK, Sending, Places
<1>q. QED
  BY <1>1, <1>2, <1>3, <1>4, <1>5, <1>6, <1>7, <1>8, <1>9, <1>10, <1>11, <1>12, <1>13, <1>14, <1>15, <1>16, <1>17, <1>18, <1>19, <1>20 DEF Next, Go

LEMMA InitConfirmed == Init => Confirmed
  BY DEF Init, Confirmed

\* Whatever receipts, passes and writes fail, and however many drivers overlap,
\* the ledger never records a credit that did not happen.
THEOREM CreditRecordedIsPaid == Spec => []RecordedIsPaid
<1>1. Confirmed => RecordedIsPaid
  BY DEF Confirmed, RecordedIsPaid
<1>q. QED
  BY <1>1, InitType, TypeStep, InitConfirmed, ConfirmedStep, PTL DEF Spec

(* What is left of the budgets. *)

Bounded == \A f \in Fault : budget[f] <= Budget[f]

\* Budgets are never given back: a fault that has not happened after a step did
\* not happen before it nor in it.
LEMMA BudgetStep ==
  ASSUME TypeOK, Bounded, [Next]_vars
  PROVE  /\ Bounded'
         /\ \A f \in Fault : Unspent(f)' => Unspent(f) /\ ~ Spend(f)
<1>1. (\E f \in Fault : Spend(f)) \/ budget' = budget
  <2>1. CASE UNCHANGED vars
    BY <2>1 DEF vars
  <2>2. ASSUME NEW n \in Nodes, Come(n) PROVE budget' = budget
    BY <2>2 DEF Come
  <2>3. ASSUME NEW t \in Txs, Mine(t) \/ Die(t) \/ ChainDayOver(t) \/ LedgerDayOver(t)
        PROVE  (\E f \in Fault : Spend(f)) \/ budget' = budget
    BY <2>3 DEF Mine, Die, ChainDayOver, LedgerDayOver, Fault
  <2>4. ASSUME NEW d \in Drivers, Start(d) \/ Skip(d) \/ Crash(d) \/ LoseLock(d)
        PROVE  (\E f \in Fault : Spend(f)) \/ budget' = budget
    BY <2>4 DEF Start, Skip, Crash, LoseLock, Fault
  <2>5. ASSUME NEW d \in Drivers, Go(d)
        PROVE  (\E f \in Fault : Spend(f)) \/ budget' = budget
    BY <2>5 DEF Go, Look, ReadChain, Rails, DeferAll, Send, Wait, Book, Salvage, Warn, Clear, Fault
  <2>q. QED
    BY <2>1, <2>2, <2>3, <2>4, <2>5 DEF Next
<1>2. \A f \in Fault : budget'[f] <= budget[f] /\ budget[f] \in Nat /\ Budget[f] \in Nat
  BY <1>1, CreditAssumption DEF Spend, TypeOK, BudgetType
<1>3. Bounded'
  <2>1. \A f \in Fault : budget'[f] \in Nat
    BY <1>1 DEF Spend, TypeOK, BudgetType
  <2>q. QED
    BY <1>2, <2>1 DEF Bounded
<1>4. ASSUME NEW f \in Fault, Unspent(f)' PROVE Unspent(f) /\ ~ Spend(f)
  <2>1. budget'[f] = Budget[f]
    BY <1>4 DEF Unspent
  <2>2. budget[f] = Budget[f]
    BY <1>2, <2>1 DEF Bounded
  <2>3. budget'[f] # budget[f] - 1
    BY <1>2, <2>1, <2>2
  <2>q. QED
    BY <2>2, <2>3 DEF Unspent, Spend, TypeOK, BudgetType
<1>q. QED
  BY <1>3, <1>4

LEMMA InitBounded == Init => Bounded
  BY CreditAssumption DEF Init, Bounded

(* While the lock holds, one pass works at a time. *)

OneAtWork == \A d \in Drivers : pc[d] # "off" => lock = {d}

\* No step lets a second driver in, unless a connection with the lock dies.
LEMMA OneAtWorkStep ==
  TypeOK /\ OneAtWork /\ ~ Spend("lockLoss") /\ [Next]_vars => OneAtWork'
<1> SUFFICES ASSUME TypeOK, OneAtWork, ~ Spend("lockLoss"), [Next]_vars PROVE OneAtWork'
  OBVIOUS
<1> USE DEF schedule, chain, book, drive
<1>1. ASSUME NEW n \in Nodes, Come(n) PROVE OneAtWork'
  BY <1>1 DEF Come, OneAtWork, TypeOK, DriveType, BudgetType, Fault, Places, Sending
<1>2. ASSUME NEW t \in Txs, Mine(t) PROVE OneAtWork'
  BY <1>2 DEF Mine, OneAtWork, TypeOK, DriveType, BudgetType, Fault, Places, Sending
<1>3. ASSUME NEW t \in Txs, Die(t) PROVE OneAtWork'
  BY <1>3 DEF Die, Spend, Fault, OneAtWork, TypeOK, DriveType, BudgetType, Places, Sending
<1>4. ASSUME NEW t \in Txs, ChainDayOver(t) PROVE OneAtWork'
  BY <1>4 DEF ChainDayOver, OneAtWork, TypeOK, DriveType, BudgetType, Fault, Places, Sending
<1>5. ASSUME NEW t \in Txs, LedgerDayOver(t) PROVE OneAtWork'
  BY <1>5 DEF LedgerDayOver, OneAtWork, TypeOK, DriveType, BudgetType, Fault, Places, Sending
<1>6. ASSUME NEW d \in Drivers, Start(d) PROVE OneAtWork'
  BY <1>6 DEF Start, At, Goto, OneAtWork, TypeOK, DriveType, BudgetType, Fault, Places, Sending
<1>7. ASSUME NEW d \in Drivers, Skip(d) PROVE OneAtWork'
  BY <1>7 DEF Skip, Goto, Quit, NoBatch, Spend, Fault, OneAtWork, TypeOK, DriveType, BudgetType, Places, Sending
<1>8. ASSUME NEW d \in Drivers, Look(d) PROVE OneAtWork'
  BY <1>8 DEF Look, At, Goto, Quit, NoBatch, DueNodes, OneAtWork, TypeOK, DriveType, BudgetType, Fault, Places, Sending
<1>9. ASSUME NEW d \in Drivers, ReadChain(d) PROVE OneAtWork'
  BY <1>9 DEF ReadChain, At, Goto, Quit, NoBatch, Creditable, OneAtWork, TypeOK, DriveType, BudgetType, Fault, Places, Sending
<1>10. ASSUME NEW d \in Drivers, Rails(d) PROVE OneAtWork'
  BY <1>10 DEF Rails, At, Goto, OneAtWork, TypeOK, DriveType, BudgetType, Fault, Places, Sending
<1>11. ASSUME NEW d \in Drivers, DeferAll(d) PROVE OneAtWork'
  BY <1>11 DEF DeferAll, At, Goto, Quit, NoBatch, Postpone, OneAtWork, TypeOK, DriveType, BudgetType, Fault, Places, Sending
<1>12. ASSUME NEW d \in Drivers, Send(d) PROVE OneAtWork'
  <2>1. pc[d] = "send"
    BY <1>12 DEF Send, At
  <2>2. CASE Quit(d) /\ (budget' = budget \/ Spend("skip") \/ Spend("lost"))
    BY <2>1, <2>2 DEF Quit, Goto, Spend, Fault, OneAtWork, TypeOK, DriveType, BudgetType, Places
  <2>3. CASE Goto(d, "wait") /\ lock' = lock /\ budget' = budget
    BY <2>1, <2>3 DEF Goto, OneAtWork, TypeOK, DriveType, Places, Sending
  <2>q. QED
    BY <1>12, SendCases, <2>2, <2>3 DEF Sent, NotSent
<1>13. ASSUME NEW d \in Drivers, Wait(d) PROVE OneAtWork'
  BY <1>13 DEF Wait, At, Goto, Quit, NoBatch, Spend, Fault, OneAtWork, TypeOK, DriveType, BudgetType, Places, Sending
<1>14. ASSUME NEW d \in Drivers, Book(d) PROVE OneAtWork'
  BY <1>14 DEF Book, At, Goto, Spend, Fault, Postpone, OneAtWork, TypeOK, DriveType, BudgetType, Places, Sending
<1>15. ASSUME NEW d \in Drivers, Salvage(d) PROVE OneAtWork'
  BY <1>15 DEF Salvage, At, Goto, Spend, Fault, Postpone, OneAtWork, TypeOK, DriveType, BudgetType, Places, Sending
<1>16. ASSUME NEW d \in Drivers, Warn(d) PROVE OneAtWork'
  BY <1>16 DEF Warn, At, Goto, Quit, NoBatch, Spend, Fault, OneAtWork, TypeOK, DriveType, BudgetType, Places, Sending
<1>17. ASSUME NEW d \in Drivers, Clear(d) PROVE OneAtWork'
  BY <1>17 DEF Clear, At, Goto, Quit, NoBatch, OneAtWork, TypeOK, DriveType, BudgetType, Fault, Places, Sending
<1>18. ASSUME NEW d \in Drivers, Crash(d) PROVE OneAtWork'
  BY <1>18 DEF Crash, Goto, Quit, NoBatch, Spend, Fault, OneAtWork, TypeOK, DriveType, BudgetType, Places, Sending
<1>19. ASSUME NEW d \in Drivers, LoseLock(d) PROVE OneAtWork'
  BY <1>19 DEF LoseLock
<1>20. CASE UNCHANGED vars
  BY <1>20 DEF vars, OneAtWork, TypeOK, DriveType, BudgetType, Fault, Places, Sending
<1>q. QED
  BY <1>1, <1>2, <1>3, <1>4, <1>5, <1>6, <1>7, <1>8, <1>9, <1>10, <1>11, <1>12, <1>13, <1>14, <1>15, <1>16, <1>17, <1>18, <1>19, <1>20 DEF Next, Go

LEMMA InitOneAtWork == Init => OneAtWork
  BY DEF Init, OneAtWork

(* Timers move for credits. *)

\* What the pass at work knows of its batch: the nodes are still due, and once
\* the transaction is mined each has been credited since its timer came up.
BatchWaits == \A d \in Drivers :
    /\ pc[d] \in {"chain", "rails", "send", "wait", "book", "salvage"} =>
         batch[d].nodes \subseteq due
    /\ pc[d] \in {"wait", "book", "salvage"} =>
         /\ sent[tx[d]].nodes = batch[d].nodes
         /\ sent[tx[d]].fate = "ok" => \A n \in batch[d].nodes : times[n] > 0

LEMMA BatchWaitsStep ==
  TypeOK /\ Confirmed /\ OneAtWork /\ BatchWaits /\ [Next]_vars => BatchWaits'
<1> SUFFICES ASSUME TypeOK, Confirmed, OneAtWork, BatchWaits, [Next]_vars PROVE BatchWaits'
  OBVIOUS
<1> USE DEF schedule, chain, book, drive
<1>1. ASSUME NEW n \in Nodes, Come(n) PROVE BatchWaits'
  BY <1>1 DEF Come, BatchWaits, Confirmed, OneAtWork, DueNodes, TypeOK, ScheduleType, ChainType, BookType, DriveType, BatchOK, Batched, Sending, Places
<1>2. ASSUME NEW t \in Txs, Mine(t) PROVE BatchWaits'
  <2>1. /\ sent[t].fate = "pending" /\ UNCHANGED <<due, pc, tx, batch>>
        /\ \A u \in Txs : sent'[u].nodes = sent[u].nodes
        /\ \A u \in Txs : u # t => sent'[u] = sent[u]
    BY <1>2 DEF Mine, TypeOK, ChainType
  <2>2. /\ \A n \in Nodes : times[n] > 0 => times'[n] > 0
        /\ \A n \in sent[t].nodes : times'[n] > 0
    BY <1>2 DEF Mine, TypeOK, ChainType
  <2>3. \A d \in Drivers : /\ pc[d] \in {"wait", "book", "salvage"} => tx[d] \in Txs
                           /\ batch[d].nodes \subseteq Nodes
    BY DEF TypeOK, BatchOK, Sending, DriveType
  <2>4. ASSUME NEW d \in Drivers, pc[d] \in {"wait", "book", "salvage"},
               sent'[tx[d]].fate = "ok", NEW n \in batch[d].nodes
        PROVE  times'[n] > 0
    <3>1. CASE tx[d] = t
      BY <2>2, <2>4, <3>1 DEF BatchWaits
    <3>2. CASE tx[d] # t
      BY <2>1, <2>2, <2>3, <2>4, <3>2 DEF BatchWaits
    <3>q. QED
      BY <3>1, <3>2
  <2>q. QED
    BY <2>1, <2>3, <2>4 DEF BatchWaits
<1>3. ASSUME NEW t \in Txs, Die(t) PROVE BatchWaits'
  BY <1>3 DEF Die, Spend, Fault, BatchWaits, Confirmed, OneAtWork, DueNodes, TypeOK, ScheduleType, ChainType, BookType, DriveType, BatchOK, Batched, Sending, Places
<1>4. ASSUME NEW t \in Txs, ChainDayOver(t) PROVE BatchWaits'
  BY <1>4 DEF ChainDayOver, BatchWaits, Confirmed, OneAtWork, DueNodes, TypeOK, ScheduleType, ChainType, BookType, DriveType, BatchOK, Batched, Sending, Places
<1>5. ASSUME NEW t \in Txs, LedgerDayOver(t) PROVE BatchWaits'
  BY <1>5 DEF LedgerDayOver, BatchWaits, Confirmed, OneAtWork, DueNodes, TypeOK, ScheduleType, ChainType, BookType, DriveType, BatchOK, Batched, Sending, Places
<1>6. ASSUME NEW d \in Drivers, Start(d) PROVE BatchWaits'
  BY <1>6 DEF Start, At, Goto, BatchWaits, Confirmed, OneAtWork, DueNodes, TypeOK, ScheduleType, ChainType, BookType, DriveType, BatchOK, Batched, Sending, Places
<1>7. ASSUME NEW d \in Drivers, Skip(d) PROVE BatchWaits'
  BY <1>7 DEF Skip, Goto, Quit, NoBatch, Spend, Fault, BatchWaits, Confirmed, OneAtWork, DueNodes, TypeOK, ScheduleType, ChainType, BookType, DriveType, BatchOK, Batched, Sending, Places
<1>8. ASSUME NEW d \in Drivers, Look(d) PROVE BatchWaits'
  BY <1>8 DEF Look, At, Goto, Quit, NoBatch, DueNodes, BatchWaits, Confirmed, OneAtWork, TypeOK, ScheduleType, ChainType, BookType, DriveType, BatchOK, Batched, Sending, Places
<1>9. ASSUME NEW d \in Drivers, ReadChain(d) PROVE BatchWaits'
  BY <1>9 DEF ReadChain, At, Goto, Quit, NoBatch, Creditable, BatchWaits, Confirmed, OneAtWork, DueNodes, TypeOK, ScheduleType, ChainType, BookType, DriveType, BatchOK, Batched, Sending, Places
<1>10. ASSUME NEW d \in Drivers, Rails(d) PROVE BatchWaits'
  BY <1>10 DEF Rails, At, Goto, BatchWaits, Confirmed, OneAtWork, DueNodes, TypeOK, ScheduleType, ChainType, BookType, DriveType, BatchOK, Batched, Sending, Places
<1>11. ASSUME NEW d \in Drivers, DeferAll(d) PROVE BatchWaits'
  BY <1>11 DEF DeferAll, At, Goto, Quit, NoBatch, Postpone, BatchWaits, Confirmed, OneAtWork, DueNodes, TypeOK, ScheduleType, ChainType, BookType, DriveType, BatchOK, Batched, Sending, Places
<1>12. ASSUME NEW d \in Drivers, Send(d) PROVE BatchWaits'
  <2>1. pc[d] = "send" /\ UNCHANGED <<due, times>>
    BY <1>12 DEF Send, At
  <2>2. \A e \in Drivers : e # d => pc[e] = "off"
    BY <2>1 DEF OneAtWork
  <2>3. CASE Quit(d)
    BY <2>1, <2>2, <2>3 DEF Quit, Goto, BatchWaits, TypeOK, DriveType, Places
  <2>4. ASSUME NEW t \in Txs, Sent(d, t), tx' = [tx EXCEPT ![d] = t], Goto(d, "wait"),
               batch' = batch
        PROVE  BatchWaits'
    <3>1. sent'[t].nodes = batch[d].nodes /\ sent'[t].fate = "pending"
      BY <2>4 DEF Sent, TypeOK, ChainType
    <3>q. QED
      BY <2>1, <2>2, <2>4, <3>1 DEF Goto, BatchWaits, TypeOK, DriveType, Places, Sending
  <2>q. QED
    BY <1>12, SendCases, <2>3, <2>4 DEF Sent, NotSent
<1>13. ASSUME NEW d \in Drivers, Wait(d) PROVE BatchWaits'
  BY <1>13 DEF Wait, At, Goto, Quit, NoBatch, Spend, Fault, BatchWaits, Confirmed, OneAtWork, DueNodes, TypeOK, ScheduleType, ChainType, BookType, DriveType, BatchOK, Batched, Sending, Places
<1>14. ASSUME NEW d \in Drivers, Book(d) PROVE BatchWaits'
  <2>1. pc[d] = "book" /\ UNCHANGED <<sent, times, batch, tx>>
    BY <1>14 DEF Book, At
  <2>2. \A e \in Drivers : e # d => pc[e] = "off"
    BY <2>1 DEF OneAtWork
  <2>3. CASE Goto(d, "clear")
    BY <2>1, <2>2, <2>3 DEF Goto, BatchWaits, TypeOK, DriveType
  <2>4. CASE Goto(d, "salvage") /\ due' = due
    BY <2>1, <2>2, <2>4 DEF Goto, BatchWaits, TypeOK, DriveType
  <2>q. QED
    BY <1>14, <2>3, <2>4 DEF Book
<1>15. ASSUME NEW d \in Drivers, Salvage(d) PROVE BatchWaits'
  <2>1. pc[d] = "salvage" /\ UNCHANGED <<sent, times, batch, tx>>
    BY <1>15 DEF Salvage, At
  <2>2. \A e \in Drivers : e # d => pc[e] = "off"
    BY <2>1 DEF OneAtWork
  <2>q. QED
    BY <1>15, <2>1, <2>2 DEF Salvage, Goto, BatchWaits, TypeOK, DriveType
<1>16. ASSUME NEW d \in Drivers, Warn(d) PROVE BatchWaits'
  BY <1>16 DEF Warn, At, Goto, Quit, NoBatch, Spend, Fault, BatchWaits, Confirmed, OneAtWork, DueNodes, TypeOK, ScheduleType, ChainType, BookType, DriveType, BatchOK, Batched, Sending, Places
<1>17. ASSUME NEW d \in Drivers, Clear(d) PROVE BatchWaits'
  BY <1>17 DEF Clear, At, Goto, Quit, NoBatch, BatchWaits, Confirmed, OneAtWork, DueNodes, TypeOK, ScheduleType, ChainType, BookType, DriveType, BatchOK, Batched, Sending, Places
<1>18. ASSUME NEW d \in Drivers, Crash(d) PROVE BatchWaits'
  BY <1>18 DEF Crash, Goto, Quit, NoBatch, Spend, Fault, BatchWaits, Confirmed, OneAtWork, DueNodes, TypeOK, ScheduleType, ChainType, BookType, DriveType, BatchOK, Batched, Sending, Places
<1>19. ASSUME NEW d \in Drivers, LoseLock(d) PROVE BatchWaits'
  BY <1>19 DEF LoseLock, Spend, Fault, BatchWaits, Confirmed, OneAtWork, DueNodes, TypeOK, ScheduleType, ChainType, BookType, DriveType, BatchOK, Batched, Sending, Places
<1>20. CASE UNCHANGED vars
  BY <1>20 DEF vars, BatchWaits, Confirmed, OneAtWork, DueNodes, TypeOK, ScheduleType, ChainType, BookType, DriveType, BatchOK, Batched, Sending, Places
<1>q. QED
  BY <1>1, <1>2, <1>3, <1>4, <1>5, <1>6, <1>7, <1>8, <1>9, <1>10, <1>11, <1>12, <1>13, <1>14, <1>15, <1>16, <1>17, <1>18, <1>19, <1>20 DEF Next, Go

LEMMA InitBatchWaits == Init => BatchWaits
  BY DEF Init, BatchWaits, NoBatch

\* Timers are moved by a pass for the nodes it credited, or all at once.
LEMMA TimersStep ==
  TypeOK /\ Confirmed /\ BatchWaits /\ [Next]_vars =>
    [\A n \in due : n \notin due' => times[n] > 0 \/ due' = {}]_vars
<1> SUFFICES ASSUME TypeOK, Confirmed, BatchWaits, [Next]_vars, NEW n \in due, n \notin due'
             PROVE  times[n] > 0 \/ due' = {}
  BY Zenon
<1> USE DEF schedule, chain, book, drive
<1>1. ASSUME NEW d \in Drivers, DeferAll(d) PROVE due' = {}
  BY <1>1 DEF DeferAll, Postpone
<1>2. ASSUME NEW d \in Drivers, Book(d) \/ Salvage(d) PROVE times[n] > 0
  <2>1. pc[d] \in {"book", "salvage"}
    BY <1>2 DEF Book, Salvage, At
  <2>2. n \in batch[d].nodes
    BY <1>2 DEF Book, Salvage, Postpone
  <2>q. QED
    BY <2>1, <2>2 DEF BatchWaits, Confirmed
<1>3. ASSUME due' = due PROVE FALSE
  BY <1>3
<1>4. ASSUME NEW m \in Nodes, Come(m) PROVE FALSE
  BY <1>4 DEF Come
<1>5. ASSUME NEW t \in Txs, Mine(t) \/ Die(t) \/ ChainDayOver(t) \/ LedgerDayOver(t)
      PROVE  due' = due
  BY <1>5 DEF Mine, Die, ChainDayOver, LedgerDayOver
<1>6. ASSUME NEW d \in Drivers, Start(d) \/ Skip(d) \/ Look(d) \/ ReadChain(d) \/ Rails(d)
      PROVE  due' = due
  BY <1>6 DEF Start, Skip, Look, ReadChain, Rails
<1>7. ASSUME NEW d \in Drivers,
             Send(d) \/ Wait(d) \/ Warn(d) \/ Clear(d) \/ Crash(d) \/ LoseLock(d)
      PROVE  due' = due
  BY <1>7 DEF Send, Wait, Warn, Clear, Crash, LoseLock
<1>8. CASE UNCHANGED vars
  BY <1>8 DEF vars
<1>q. QED
  BY <1>1, <1>2, <1>3, <1>4, <1>5, <1>6, <1>7, <1>8 DEF Next, Go

(* The sums of recorded wei, for every number of transactions.  A set of   *)
(* numbers that is not empty has a least one: that is all the induction    *)
(* the recursive definition of Sum needs.                                  *)

LessThan == {ss \in Nat \X Nat : ss[1] < ss[2]}

\* The library's relation made from < is the set of pairs LessThan.
LEMMA LessThanIsOpToRel == OpToRel(<, Nat) = LessThan
  BY DEF OpToRel, LessThan

\* LessThan has no infinite descending chain.
LEMMA LessThanWellFounded == IsWellFoundedOn(LessThan, Nat)
  BY LessThanIsOpToRel, NatLessThanWellFounded, Zenon

\* Every set of naturals that is not empty has a least element.
LEMMA LeastNumber ==
  ASSUME NEW T \in SUBSET Nat, T # {}
  PROVE  \E m \in T : \A k \in T : m <= k
<1>1. PICK x \in T : \A y \in T : ~ (<<y, x>> \in LessThan)
  BY LessThanWellFounded, WFMin
<1>2. ASSUME NEW k \in T PROVE x <= k
  <2>1. k \in Nat /\ x \in Nat
    OBVIOUS
  <2>2. <<k, x>> \in Nat \X Nat => (k < x => <<k, x>> \in LessThan)
    BY <2>1 DEF LessThan
  <2>3. QED
    BY <1>1, <2>1, <2>2
<1>3. QED
  BY <1>2

\* Induction up to n in the form the lemmas below use: a set that contains 0
\* and, with every number below n, the next one, contains 0..n.
LEMMA InductionUpTo ==
  ASSUME NEW n \in Nat, NEW S, 0 \in S,
         \A i \in 0..n : i # n /\ i \in S => i + 1 \in S
  PROVE  0..n \subseteq S
<1> DEFINE T == {i \in 0..n : i \notin S}
<1>1. SUFFICES ASSUME T # {} PROVE FALSE
  OBVIOUS
<1>2. T \in SUBSET Nat
  OBVIOUS
<1> HIDE DEF T
<1>3. PICK m \in T : \A k \in T : m <= k
  BY <1>1, <1>2, LeastNumber
<1>4. m \in 0..n /\ m \notin S /\ m # 0
  BY DEF T
<1>5. m - 1 \in 0..n /\ m - 1 \notin T /\ m - 1 # n
  BY <1>3, <1>4
<1>6. m - 1 \in S
  BY <1>5 DEF T
<1>7. QED
  BY <1>4, <1>5, <1>6

\* The recursive definition in Sum defines a table.
LEMMA RunningTotalExists ==
  ASSUME NEW n \in Nat, NEW f \in [1..n -> Nat]
  PROVE  \E total : IsRunningTotal(total, f, n)
<1> DEFINE S == {i \in 0..n : \E total : IsRunningTotal(total, f, i)}
<1>1. 0 \in S
  <2>1. IsRunningTotal([i \in 0..0 |-> 0], f, 0)
    BY DEF IsRunningTotal
  <2>2. QED
    BY <2>1
<1>2. ASSUME NEW m \in 0..n, m # n, m \in S
      PROVE  m + 1 \in S
  <2>1. PICK total : IsRunningTotal(total, f, m)
    BY <1>2
  <2> DEFINE next == [i \in 0..(m + 1) |->
                        IF i = m + 1 THEN total[m] + f[m + 1] ELSE total[i]]
  <2>2. ASSUME NEW i \in 0..(m + 1)
        PROVE  next[i] = IF i = 0 THEN 0 ELSE next[i - 1] + f[i]
    <3>1. \A j \in 0..m : total[j] = IF j = 0 THEN 0 ELSE total[j - 1] + f[j]
      BY <2>1 DEF IsRunningTotal
    <3>2. CASE i = m + 1
      BY <3>2
    <3>3. CASE i # m + 1
      <4>1. i \in 0..m /\ (i # 0 => i - 1 \in 0..m)
        BY <3>3
      <4>q. QED
        BY <3>1, <4>1
    <3>q. QED
      BY <3>2, <3>3
  <2>3. IsRunningTotal(next, f, m + 1)
    BY <2>2 DEF IsRunningTotal
  <2>4. QED
    BY <1>2, <2>3
<1> HIDE DEF S
<1>3. 0..n \subseteq S
  BY <1>1, <1>2, InductionUpTo
<1>4. n \in S
  BY <1>3
<1>5. QED
  BY <1>4 DEF S

\* Sum is the last entry of a table of running totals of naturals.
LEMMA SumIsLastTotal ==
  ASSUME NEW n \in Nat, NEW f \in [1..n -> Nat]
  PROVE  \E total \in [0..n -> Nat] :
            /\ total[0] = 0
            /\ \A i \in 1..n : total[i] = total[i - 1] + f[i]
            /\ Sum(f, n) = total[n]
<1>1. PICK total : IsRunningTotal(total, f, n) /\ Sum(f, n) = total[n]
  BY RunningTotalExists DEF IsRunningTotal, Sum
<1>2. /\ total[0] = 0
      /\ \A i \in 1..n : total[i] = total[i - 1] + f[i]
      /\ total = [i \in 0..n |-> total[i]]
  <2>1. /\ total = [i \in 0..n |-> total[i]]
        /\ \A i \in 0..n : total[i] = IF i = 0 THEN 0 ELSE total[i - 1] + f[i]
    BY <1>1 DEF IsRunningTotal
  <2>2. 0 \in 0..n /\ \A i \in 1..n : i \in 0..n /\ i # 0
    OBVIOUS
  <2>q. QED
    BY <2>1, <2>2
<1> DEFINE S == {i \in 0..n : total[i] \in Nat}
<1>3. 0 \in S
  BY <1>2
<1>4. ASSUME NEW m \in 0..n, m # n, m \in S
      PROVE  m + 1 \in S
  <2>1. m + 1 \in 1..n /\ (m + 1) - 1 = m /\ total[m] \in Nat
    BY <1>4
  <2>2. total[m + 1] = total[m] + f[m + 1] /\ f[m + 1] \in Nat
    BY <1>2, <2>1
  <2>3. QED
    BY <2>1, <2>2
<1> HIDE DEF S
<1>5. 0..n \subseteq S
  BY <1>3, <1>4, InductionUpTo
<1>6. total \in [0..n -> Nat]
  BY <1>2, <1>5 DEF S
<1>7. QED
  BY <1>1, <1>2, <1>6

\* A sum of naturals is a natural.
LEMMA SumType ==
  ASSUME NEW n \in Nat, NEW f \in [1..n -> Nat]
  PROVE  Sum(f, n) \in Nat
  BY SumIsLastTotal

\* A function that is nowhere above f, but for v at one place, adds up to v more
\* than f at most.
LEMMA SumGrows ==
  ASSUME NEW n \in Nat, NEW f \in [1..n -> Nat], NEW h \in [1..n -> Nat], NEW k \in Nat, NEW v \in Nat,
         \A i \in 1..n : h[i] <= f[i] + (IF i = k THEN v ELSE 0)
  PROVE  Sum(h, n) <= Sum(f, n) + v
<1>1. PICK ft \in [0..n -> Nat] : /\ ft[0] = 0
                                  /\ \A i \in 1..n : ft[i] = ft[i - 1] + f[i]
                                  /\ Sum(f, n) = ft[n]
  BY SumIsLastTotal
<1>2. PICK ht \in [0..n -> Nat] : /\ ht[0] = 0
                                  /\ \A i \in 1..n : ht[i] = ht[i - 1] + h[i]
                                  /\ Sum(h, n) = ht[n]
  BY SumIsLastTotal
<1> DEFINE extra == [i \in 0..n |-> IF i >= k THEN v ELSE 0]
<1>3. /\ extra \in [0..n -> Nat] /\ extra[n] <= v
      /\ \A i \in 1..n : extra[i] >= extra[i - 1] + (IF i = k THEN v ELSE 0)
  OBVIOUS
<1> HIDE DEF extra
<1> DEFINE S == {i \in 0..n : ht[i] <= ft[i] + extra[i]}
<1>4. 0 \in S
  BY <1>1, <1>2, <1>3
<1>5. ASSUME NEW m \in 0..n, m # n, m \in S
      PROVE  m + 1 \in S
  <2>1. m + 1 \in 1..n /\ (m + 1) - 1 = m
    BY <1>5
  <2>2. /\ ft[m + 1] = ft[m] + f[m + 1] /\ ht[m + 1] = ht[m] + h[m + 1]
        /\ ft[m] \in Nat /\ ht[m] \in Nat /\ f[m + 1] \in Nat /\ h[m + 1] \in Nat
        /\ extra[m] \in Nat /\ extra[m + 1] \in Nat
    BY <1>1, <1>2, <1>3, <2>1
  <2>3. PICK x \in {0, v} : h[m + 1] <= f[m + 1] + x /\ extra[m + 1] >= extra[m] + x
    BY <1>3, <2>1
  <2>4. ht[m] <= ft[m] + extra[m]
    BY <1>5
  <2>5. ht[m + 1] <= ft[m + 1] + extra[m + 1]
    <3>1. \A a, b, c, d, p, q, y \in Nat : a <= b + p /\ c <= d + y /\ q >= p + y => a + c <= b + d + q
      OBVIOUS
    <3>2. x \in Nat
      BY <2>3
    <3>3. ht[m] + h[m + 1] <= ft[m] + f[m + 1] + extra[m + 1]
      BY <2>2, <2>3, <2>4, <3>1, <3>2
    <3>q. QED
      BY <2>2, <3>3
  <2>q. QED
    BY <2>1, <2>5
<1> HIDE DEF S
<1>6. n \in S
  <2>1. 0..n \subseteq S
    BY <1>4, <1>5, InductionUpTo
  <2>q. QED
    BY <2>1
<1>7. ft[n] \in Nat /\ ht[n] \in Nat /\ extra[n] \in Nat
  BY <1>3
<1>8. ht[n] <= ft[n] + extra[n]
  BY <1>6 DEF S
<1>q. QED
  BY <1>1, <1>2, <1>3, <1>7, <1>8

\* Nothing adds up to nothing.
LEMMA SumOfZeros ==
  ASSUME NEW n \in Nat
  PROVE  Sum([i \in 1..n |-> 0], n) = 0
<1> DEFINE z == [i \in 1..n |-> 0]
<1>1. z \in [1..n -> Nat]
  OBVIOUS
<1>2. PICK t \in [0..n -> Nat] : /\ t[0] = 0
                                 /\ \A i \in 1..n : t[i] = t[i - 1] + z[i]
                                 /\ Sum(z, n) = t[n]
  BY <1>1, SumIsLastTotal
<1> DEFINE S == {i \in 0..n : t[i] = 0}
<1>3. \A m \in 0..n : m # n /\ m \in S => m + 1 \in S
  BY <1>2
<1>4. 0 \in S
  BY <1>2
<1> HIDE DEF S
<1>5. 0..n \subseteq S
  BY <1>3, <1>4, InductionUpTo
<1>6. n \in S
  BY <1>5
<1>q. QED
  BY <1>2, <1>6 DEF S

(* The recorded day. *)

\* What the transactions of a set L moved.
Moved(L) == [t \in Txs |-> IF t \in L THEN sent[t].wei ELSE 0]

LEMMA MovedType ==
  ASSUME TypeOK, NEW L
  PROVE  Moved(L) \in [1..MaxTxs -> Nat]
  BY DEF Moved, TypeOK, ChainType, Txs

LEMMA DayType == TypeOK => Credited24h \in Nat
<1>1. TypeOK => Credited24h = Sum(Moved(ledgerDay), MaxTxs)
  BY DEF Credited24h, Moved
<1>q. QED
  BY <1>1, MovedType, SumType

LEMMA DayTypeNext == TypeOK' => Credited24h' \in Nat
<1> SUFFICES ASSUME TypeOK' PROVE Credited24h' \in Nat
  OBVIOUS
<1> DEFINE g == [t \in Txs |-> IF t \in ledgerDay' THEN sent'[t].wei ELSE 0]
<1>1. g \in [1..MaxTxs -> Nat]
  BY DEF TypeOK, ChainType, Txs
<1>2. Credited24h' = Sum(g, MaxTxs)
  BY DEF Credited24h
<1> HIDE DEF g
<1>q. QED
  BY <1>1, <1>2, SumType

\* Rows that leave the window only lower the total.
LEMMA DayShrinks ==
  ASSUME TypeOK, TypeOK', ledgerDay' \subseteq ledgerDay,
         \A t \in ledgerDay : sent'[t].wei = sent[t].wei
  PROVE  Credited24h' <= Credited24h
<1> DEFINE f == Moved(ledgerDay)
<1> DEFINE g == [t \in Txs |-> IF t \in ledgerDay' THEN sent'[t].wei ELSE 0]
<1>1. f \in [1..MaxTxs -> Nat]
  BY MovedType
<1>2. g \in [1..MaxTxs -> Nat]
  BY DEF TypeOK, ChainType, Txs
<1>3. ASSUME NEW t \in 1..MaxTxs PROVE g[t] <= f[t]
  <2>1. sent[t].wei \in Nat /\ sent'[t].wei \in Nat
    BY DEF TypeOK, ChainType, Txs
  <2>2. CASE t \in ledgerDay'
    <3>1. g[t] = sent'[t].wei /\ f[t] = sent[t].wei /\ sent'[t].wei = sent[t].wei
      BY <2>2 DEF Moved, Txs
    <3>q. QED
      BY <2>1, <3>1
  <2>3. CASE t \notin ledgerDay'
    <3>1. g[t] = 0 /\ f[t] \in Nat
      BY <1>1, <2>3 DEF Txs
    <3>q. QED
      BY <3>1
  <2>q. QED
    BY <2>2, <2>3
<1>4. Credited24h' = Sum(g, MaxTxs) /\ Credited24h = Sum(f, MaxTxs)
  BY DEF Credited24h, Moved
<1> HIDE DEF f, g
<1>5. Sum(g, MaxTxs) <= Sum(f, MaxTxs) + 0
  <2>1. \A t \in 1..MaxTxs : f[t] \in Nat /\ g[t] \in Nat
    BY <1>1, <1>2
  <2>2. \A t \in 1..MaxTxs : g[t] <= f[t] + (IF t = 0 THEN 0 ELSE 0)
    BY <1>3, <2>1
  <2>q. QED
    BY <1>1, <1>2, <2>2, SumGrows
<1>6. Sum(f, MaxTxs) \in Nat
  BY <1>1, SumType
<1>q. QED
  BY <1>4, <1>5, <1>6

\* A recorded batch adds its own wei at most.
LEMMA DayGrows ==
  ASSUME TypeOK, NEW t \in Txs, sent' = sent, ledgerDay' = ledgerDay \union {t}
  PROVE  Credited24h' <= Credited24h + sent[t].wei
<1> DEFINE f == Moved(ledgerDay)
<1> DEFINE h == Moved(ledgerDay \union {t})
<1>1. f \in [1..MaxTxs -> Nat] /\ h \in [1..MaxTxs -> Nat] /\ sent[t].wei \in Nat /\ t \in Nat
  BY MovedType DEF TypeOK, ChainType, Txs
<1>2. \A u \in 1..MaxTxs : h[u] <= f[u] + (IF u = t THEN sent[t].wei ELSE 0)
  BY DEF Moved, TypeOK, ChainType, Txs
<1>3. Credited24h' = Sum(h, MaxTxs) /\ Credited24h = Sum(f, MaxTxs)
  BY DEF Credited24h, Moved
<1> HIDE DEF f, h
<1>q. QED
  BY <1>1, <1>2, <1>3, SumGrows

\* What the pass at work was allowed still fits.
Room ==
    /\ Credited24h <= DailyCap
    /\ \A d \in Drivers :
         /\ pc[d] \in {"send", "wait", "book"} => Credited24h + batch[d].wei <= DailyCap
         /\ pc[d] \in {"wait", "book"} => sent[tx[d]].wei = batch[d].wei

\* Steps that record nothing and let no pass through the rails keep the room.
LEMMA RoomKept ==
  ASSUME TypeOK, TypeOK', Room, ledgerDay' \subseteq ledgerDay,
         \A t \in Txs : sent'[t].wei = sent[t].wei,
         \A d \in Drivers :
           /\ pc'[d] \in {"send", "wait", "book"} =>
                pc[d] \in {"send", "wait", "book"} /\ batch'[d] = batch[d]
           /\ pc'[d] \in {"wait", "book"} =>
                pc[d] \in {"wait", "book"} /\ tx'[d] = tx[d]
  PROVE  Room'
<1>1. Credited24h' <= Credited24h
  BY DayShrinks DEF TypeOK, BookType
<1>2. Credited24h' \in Nat /\ Credited24h \in Nat
  BY DayType, DayTypeNext, TypeOK, TypeOK'
<1>3. Credited24h' <= DailyCap
  BY <1>1, <1>2 DEF Room
<1>4. ASSUME NEW d \in Drivers, pc'[d] \in {"send", "wait", "book"}
      PROVE  Credited24h' + batch'[d].wei <= DailyCap
  <2>1. batch'[d] = batch[d] /\ batch[d].wei \in Nat /\ Credited24h + batch[d].wei <= DailyCap
    BY <1>4 DEF Room, TypeOK, DriveType
  <2>2. \A i, j, k \in Nat : i <= j /\ j + k <= DailyCap => i + k <= DailyCap
    OBVIOUS
  <2>q. QED
    BY <1>1, <1>2, <2>1, <2>2
<1>5. ASSUME NEW d \in Drivers, pc'[d] \in {"wait", "book"}
      PROVE  sent'[tx'[d]].wei = batch'[d].wei
  BY <1>5 DEF Room, TypeOK, BatchOK, Sending
<1>q. QED
  BY <1>3, <1>4, <1>5 DEF Room

LEMMA RoomStep == TypeOK /\ TypeOK' /\ Confirmed /\ OneAtWork /\ Room /\ [Next]_vars => Room'
<1> SUFFICES ASSUME TypeOK, TypeOK', Confirmed, OneAtWork, Room, [Next]_vars PROVE Room'
  OBVIOUS
<1> USE DEF schedule, chain, book, drive
<1> DEFINE Same == /\ ledgerDay' \subseteq ledgerDay
                   /\ \A t \in Txs : sent'[t].wei = sent[t].wei
           Kept == \A d \in Drivers :
           /\ pc'[d] \in {"send", "wait", "book"} =>
                pc[d] \in {"send", "wait", "book"} /\ batch'[d] = batch[d]
           /\ pc'[d] \in {"wait", "book"} =>
                pc[d] \in {"wait", "book"} /\ tx'[d] = tx[d]
<1>1. ASSUME NEW n \in Nodes, Come(n) PROVE Same /\ Kept
  <2>1. Same
    BY <1>1 DEF Come, TypeOK, ChainType, DriveType, Places, Sending
  <2>2. Kept
    BY <1>1 DEF Come, TypeOK, ChainType, DriveType, Places, Sending
  <2>q. QED BY <2>1, <2>2
<1>2. ASSUME NEW t \in Txs, Mine(t) PROVE Same /\ Kept
  <2>1. Same
    BY <1>2 DEF Mine, TypeOK, ChainType, DriveType, Places, Sending
  <2>2. Kept
    BY <1>2 DEF Mine, TypeOK, ChainType, DriveType, Places, Sending
  <2>q. QED BY <2>1, <2>2
<1>3. ASSUME NEW t \in Txs, Die(t) PROVE Same /\ Kept
  <2>1. Same
    BY <1>3 DEF Die, Spend, Fault, TypeOK, ChainType, DriveType, Places, Sending
  <2>2. Kept
    BY <1>3 DEF Die, Spend, Fault, TypeOK, ChainType, DriveType, Places, Sending
  <2>q. QED BY <2>1, <2>2
<1>4. ASSUME NEW t \in Txs, ChainDayOver(t) PROVE Same /\ Kept
  <2>1. Same
    BY <1>4 DEF ChainDayOver, TypeOK, ChainType, DriveType, Places, Sending
  <2>2. Kept
    BY <1>4 DEF ChainDayOver, TypeOK, ChainType, DriveType, Places, Sending
  <2>q. QED BY <2>1, <2>2
<1>5. ASSUME NEW t \in Txs, LedgerDayOver(t) PROVE Same /\ Kept
  <2>1. Same
    BY <1>5 DEF LedgerDayOver, TypeOK, ChainType, DriveType, Places, Sending
  <2>2. Kept
    BY <1>5 DEF LedgerDayOver, TypeOK, ChainType, DriveType, Places, Sending
  <2>q. QED BY <2>1, <2>2
<1>6. ASSUME NEW d \in Drivers, Start(d) PROVE Same /\ Kept
  <2>1. Same
    BY <1>6 DEF Start, At, Goto, TypeOK, ChainType, DriveType, Places, Sending
  <2>2. Kept
    BY <1>6 DEF Start, At, Goto, TypeOK, ChainType, DriveType, Places, Sending
  <2>q. QED BY <2>1, <2>2
<1>7. ASSUME NEW d \in Drivers, Skip(d) PROVE Same /\ Kept
  <2>1. Same
    BY <1>7 DEF Skip, Goto, Quit, NoBatch, Spend, Fault, TypeOK, ChainType, DriveType, Places, Sending
  <2>2. Kept
    BY <1>7 DEF Skip, Goto, Quit, NoBatch, Spend, Fault, TypeOK, ChainType, DriveType, Places, Sending
  <2>q. QED BY <2>1, <2>2
<1>8. ASSUME NEW d \in Drivers, Look(d) PROVE Same /\ Kept
  <2>1. Same
    BY <1>8 DEF Look, At, Goto, Quit, NoBatch, DueNodes, TypeOK, ChainType, DriveType, Places, Sending
  <2>2. Kept
    BY <1>8 DEF Look, At, Goto, Quit, NoBatch, DueNodes, TypeOK, ChainType, DriveType, Places, Sending
  <2>q. QED BY <2>1, <2>2
<1>9. ASSUME NEW d \in Drivers, ReadChain(d) PROVE Same /\ Kept
  <2>1. Same
    BY <1>9 DEF ReadChain, At, Goto, Quit, NoBatch, Creditable, TypeOK, ChainType, DriveType, Places, Sending
  <2>2. Kept
    BY <1>9 DEF ReadChain, At, Goto, Quit, NoBatch, Creditable, TypeOK, ChainType, DriveType, Places, Sending
  <2>q. QED BY <2>1, <2>2
<1>11. ASSUME NEW d \in Drivers, DeferAll(d) PROVE Same /\ Kept
  <2>1. Same
    BY <1>11 DEF DeferAll, At, Goto, Quit, NoBatch, Postpone, TypeOK, ChainType, DriveType, Places, Sending
  <2>2. Kept
    BY <1>11 DEF DeferAll, At, Goto, Quit, NoBatch, Postpone, TypeOK, ChainType, DriveType, Places, Sending
  <2>q. QED BY <2>1, <2>2
<1>13. ASSUME NEW d \in Drivers, Wait(d) PROVE Same /\ Kept
  <2>1. Same
    BY <1>13 DEF Wait, At, Goto, Quit, NoBatch, Spend, Fault, TypeOK, ChainType, DriveType, Places, Sending
  <2>2. Kept
    BY <1>13 DEF Wait, At, Goto, Quit, NoBatch, Spend, Fault, TypeOK, ChainType, DriveType, Places, Sending
  <2>q. QED BY <2>1, <2>2
<1>15. ASSUME NEW d \in Drivers, Salvage(d) PROVE Same /\ Kept
  <2>1. Same
    BY <1>15 DEF Salvage, At, Goto, Spend, Fault, Postpone, TypeOK, ChainType, DriveType, Places, Sending
  <2>2. Kept
    BY <1>15 DEF Salvage, At, Goto, Spend, Fault, Postpone, TypeOK, ChainType, DriveType, Places, Sending
  <2>q. QED BY <2>1, <2>2
<1>16. ASSUME NEW d \in Drivers, Warn(d) PROVE Same /\ Kept
  <2>1. Same
    BY <1>16 DEF Warn, At, Goto, Quit, NoBatch, Spend, Fault, TypeOK, ChainType, DriveType, Places, Sending
  <2>2. Kept
    BY <1>16 DEF Warn, At, Goto, Quit, NoBatch, Spend, Fault, TypeOK, ChainType, DriveType, Places, Sending
  <2>q. QED BY <2>1, <2>2
<1>17. ASSUME NEW d \in Drivers, Clear(d) PROVE Same /\ Kept
  <2>1. Same
    BY <1>17 DEF Clear, At, Goto, Quit, NoBatch, TypeOK, ChainType, DriveType, Places, Sending
  <2>2. Kept
    BY <1>17 DEF Clear, At, Goto, Quit, NoBatch, TypeOK, ChainType, DriveType, Places, Sending
  <2>q. QED BY <2>1, <2>2
<1>18. ASSUME NEW d \in Drivers, Crash(d) PROVE Same /\ Kept
  <2>1. Same
    BY <1>18 DEF Crash, Goto, Quit, NoBatch, Spend, Fault, TypeOK, ChainType, DriveType, Places, Sending
  <2>2. Kept
    BY <1>18 DEF Crash, Goto, Quit, NoBatch, Spend, Fault, TypeOK, ChainType, DriveType, Places, Sending
  <2>q. QED BY <2>1, <2>2
<1>19. ASSUME NEW d \in Drivers, LoseLock(d) PROVE Same /\ Kept
  <2>1. Same
    BY <1>19 DEF LoseLock, Spend, Fault, TypeOK, ChainType, DriveType, Places, Sending
  <2>2. Kept
    BY <1>19 DEF LoseLock, Spend, Fault, TypeOK, ChainType, DriveType, Places, Sending
  <2>q. QED BY <2>1, <2>2
<1>10. ASSUME NEW d \in Drivers, Rails(d) PROVE Room'
  <2>1. UNCHANGED <<sent, ledgerDay, batch, tx>> /\ pc[d] = "rails"
    BY <1>10 DEF Rails, At
  <2>2. CASE Goto(d, "defer")
    <3>1. Kept
      BY <2>1, <2>2 DEF Goto, TypeOK, DriveType
    <3>q. QED
      BY <2>1, <3>1, RoomKept
  <2>3. CASE Credited24h + batch[d].wei <= DailyCap /\ Goto(d, "send")
    <3>1. Credited24h' = Credited24h
      BY <2>1 DEF Credited24h
    <3>q. QED
      BY <2>1, <2>3, <3>1 DEF Room, Goto, TypeOK, DriveType
  <2>q. QED
    BY <1>10, <2>2, <2>3 DEF Rails
<1>12. ASSUME NEW d \in Drivers, Send(d) PROVE Room'
  <2>1. ledgerDay' = ledgerDay /\ pc[d] = "send"
    BY <1>12 DEF Send, At
  <2>2. CASE NotSent(d)
    <3>1. Kept /\ sent' = sent
      BY <2>1, <2>2 DEF NotSent, Quit, Goto, TypeOK, DriveType, Places
    <3>q. QED
      BY <2>1, <3>1, RoomKept
  <2>3. ASSUME NEW t \in Txs, Sent(d, t) PROVE Room'
    <3>1. t \notin ledgerDay /\ \A e \in Drivers : tx[e] # t
      BY <2>3 DEF Sent, Free, Confirmed
    <3>2. sent'[t].wei = batch[d].wei /\ \A u \in Txs : u # t => sent'[u] = sent[u]
      BY <2>3 DEF Sent, TypeOK, ChainType
    <3>3. Credited24h' <= Credited24h
      BY <2>1, <3>1, <3>2, DayShrinks DEF TypeOK, BookType
    <3>4. Credited24h' \in Nat /\ Credited24h \in Nat
      BY DayType, DayTypeNext, TypeOK, TypeOK'
    <3>5. Credited24h' <= DailyCap
      BY <3>3, <3>4 DEF Room
    <3>6. \A e \in Drivers : e # d => pc[e] = "off"
      BY <2>1 DEF OneAtWork
    <3>7. CASE Quit(d)
      BY <2>1, <3>5, <3>6, <3>7 DEF Quit, Goto, Room, TypeOK, DriveType, Places
    <3>8. CASE tx' = [tx EXCEPT ![d] = t] /\ Goto(d, "wait") /\ batch' = batch
      <4>1. \A i, j, k \in Nat : i <= j /\ j + k <= DailyCap => i + k <= DailyCap
        OBVIOUS
      <4>2. batch[d].wei \in Nat /\ Credited24h + batch[d].wei <= DailyCap
        BY <2>1 DEF Room, TypeOK, DriveType
      <4>3. Credited24h' + batch[d].wei <= DailyCap
        BY <3>3, <3>4, <4>1, <4>2
      <4>q. QED
        BY <3>2, <3>5, <3>6, <3>8, <4>3 DEF Goto, Room, TypeOK, DriveType, Places, Sending
    <3>q. QED
      BY <2>3, <3>7, <3>8 DEF Sent
  <2>q. QED
    BY <1>12, SendCases, <2>2, <2>3
<1>14. ASSUME NEW d \in Drivers, Book(d) PROVE Room'
  <2>1. UNCHANGED <<sent, batch, tx>> /\ pc[d] = "book"
    BY <1>14 DEF Book, At
  <2>2. CASE Goto(d, "salvage") /\ ledgerDay' = ledgerDay
    <3>1. Kept
      BY <2>1, <2>2 DEF Goto, TypeOK, DriveType
    <3>q. QED
      BY <2>1, <2>2, <3>1, RoomKept
  <2>3. CASE ledgerDay' = ledgerDay \union {tx[d]} /\ Goto(d, "clear")
    <3>1. tx[d] \in Txs /\ sent[tx[d]].wei = batch[d].wei /\ batch[d].wei \in Nat
          /\ Credited24h + batch[d].wei <= DailyCap
      BY <2>1 DEF Room, TypeOK, BatchOK, Sending, DriveType
    <3>2. Credited24h' <= Credited24h + batch[d].wei
      BY <2>1, <2>3, <3>1, DayGrows
    <3>3. Credited24h' \in Nat /\ Credited24h \in Nat
      BY DayType, DayTypeNext, TypeOK, TypeOK'
    <3>4. Credited24h' <= DailyCap
      BY <3>1, <3>2, <3>3
    <3>5. \A e \in Drivers : e # d => pc[e] = "off"
      BY <2>1 DEF OneAtWork
    <3>q. QED
      BY <2>1, <2>3, <3>4, <3>5 DEF Goto, Room, TypeOK, DriveType, Places, Sending
  <2>q. QED
    BY <1>14, <2>2, <2>3 DEF Book
<1>20. CASE UNCHANGED vars
  <2>1. Same /\ Kept
    BY <1>20 DEF vars
  <2>q. QED
    BY <2>1, RoomKept
<1> HIDE DEF Same, Kept
<1>21. Same /\ Kept => Room'
  BY RoomKept DEF Same, Kept
<1>q. QED
  BY <1>1, <1>2, <1>3, <1>4, <1>5, <1>6, <1>7, <1>8, <1>9, <1>10, <1>11, <1>12, <1>13, <1>14, <1>15, <1>16, <1>17, <1>18, <1>19, <1>20, <1>21 DEF Next, Go

LEMMA InitRoom == Init => Room
<1> SUFFICES ASSUME Init PROVE Room
  OBVIOUS
<1>1. Credited24h = Sum([i \in 1..MaxTxs |-> 0], MaxTxs)
  BY DEF Init, Credited24h, Txs
<1>2. Credited24h = 0
  BY <1>1, SumOfZeros
<1>q. QED
  BY <1>2 DEF Init, Room

(* While the lock holds, all of this holds. *)

WhileLocked == Unspent("lockLoss") => OneAtWork /\ BatchWaits /\ Room

LEMMA WhileLockedStep ==
  ASSUME TypeOK, TypeOK', Confirmed, Bounded, WhileLocked, [Next]_vars
  PROVE  WhileLocked'
<1> SUFFICES ASSUME Unspent("lockLoss")' PROVE OneAtWork' /\ BatchWaits' /\ Room'
  BY DEF WhileLocked
<1>1. Unspent("lockLoss") /\ ~ Spend("lockLoss")
  BY BudgetStep DEF Fault
<1>2. OneAtWork /\ BatchWaits /\ Room
  BY <1>1 DEF WhileLocked
<1>q. QED
  BY <1>1, <1>2, OneAtWorkStep, BatchWaitsStep, RoomStep

LEMMA InitWhileLocked == Init => WhileLocked
  BY InitOneAtWork, InitBatchWaits, InitRoom DEF WhileLocked

\* While the lock holds, a failed pass costs a delay and never a credit.
THEOREM CreditTimersMoveForCredits == Spec => TimersMoveForCredits
<1>1. ASSUME TypeOK, Confirmed, Bounded, WhileLocked, [Next]_vars
      PROVE  [Unspent("lockLoss")' =>
                \A n \in due : n \notin due' => times[n] > 0 \/ due' = {}]_vars
  <2> SUFFICES ASSUME Unspent("lockLoss")'
               PROVE  [\A n \in due : n \notin due' => times[n] > 0 \/ due' = {}]_vars
    BY Zenon
  <2>1. Unspent("lockLoss")
    BY <1>1, BudgetStep DEF Fault
  <2>q. QED
    BY <1>1, <2>1, TimersStep DEF WhileLocked
<1>2. ASSUME TypeOK, Bounded, [Next]_vars PROVE Bounded'
  BY <1>2, BudgetStep
<1>q. QED
  BY <1>1, <1>2, InitType, TypeStep, InitConfirmed, ConfirmedStep, InitBounded,
     InitWhileLocked, WhileLockedStep, PTL DEF Spec, TimersMoveForCredits

\* While the lock holds, the credits recorded in a day stay within the cap,
\* whatever receipts are lost and wherever passes die.
THEOREM CreditRecordedUnderCap == Spec => []RecordedUnderCap
<1>1. WhileLocked => RecordedUnderCap
  BY DEF WhileLocked, Room, RecordedUnderCap
<1>2. ASSUME TypeOK, Bounded, [Next]_vars PROVE Bounded'
  BY <1>2, BudgetStep
<1>q. QED
  BY <1>1, <1>2, InitType, TypeStep, InitConfirmed, ConfirmedStep, InitBounded,
     InitWhileLocked, WhileLockedStep, PTL DEF Spec

(* Once per turn. *)

\* In this step no receipt is lost, no pass dies, no substitute write fails.
Orderly == ~ Spend("lost") /\ ~ Spend("crash") /\ ~ Spend("salvage")

\* A due node has a credit of this turn only from the pass that is about to move
\* its timer, and nothing is under way but what a pass waits for.
Accounted ==
    /\ \A t \in Txs : sent[t].fate = "pending" =>
         \E d \in Drivers : pc[d] = "wait" /\ tx[d] = t
    /\ \A n \in due : times[n] > 0 =>
         \E d \in Drivers : /\ pc[d] \in {"wait", "book", "salvage"}
                            /\ sent[tx[d]].fate = "ok" /\ n \in batch[d].nodes
    /\ \A n \in Nodes : times[n] < 2

LEMMA AccountedStep ==
  TypeOK /\ Confirmed /\ OneAtWork /\ BatchWaits /\ Accounted /\ Orderly /\ [Next]_vars
    => Accounted'
<1> SUFFICES ASSUME TypeOK, Confirmed, OneAtWork, BatchWaits, Orderly, Accounted, [Next]_vars
             PROVE  Accounted'
  OBVIOUS
<1> USE DEF schedule, chain, book, drive
<1>0. \A d, e \in Drivers : pc[d] # "off" /\ pc[e] # "off" => d = e
  BY DEF OneAtWork
<1>1. ASSUME NEW n \in Nodes, Come(n) PROVE Accounted'
  <2>1. /\ due' = due \union {n} /\ times'[n] = 0 /\ \A m \in Nodes : m # n => times'[m] = times[m]
        /\ UNCHANGED <<sent, pc, tx, batch>>
    BY <1>1 DEF Come, TypeOK, ChainType
  <2>2. due \subseteq Nodes
    BY DEF TypeOK, ScheduleType
  <2>q. QED
    BY <2>1, <2>2 DEF Accounted
<1>2. ASSUME NEW t \in Txs, Mine(t) PROVE Accounted'
  <2>1. PICK d \in Drivers : pc[d] = "wait" /\ tx[d] = t
    BY <1>2 DEF Mine, Accounted
  <2>2. /\ sent[t].fate = "pending" /\ sent'[t].fate = "ok" /\ UNCHANGED <<due, pc, tx, batch>>
        /\ \A u \in Txs : u # t => sent'[u] = sent[u]
    BY <1>2 DEF Mine, TypeOK, ChainType
  <2>3. sent[t].nodes = batch[d].nodes /\ batch[d].nodes \subseteq due /\ due \subseteq Nodes
    BY <2>1 DEF BatchWaits, TypeOK, ScheduleType
  <2>4. ASSUME NEW n \in due PROVE ~ (times[n] > 0)
    BY <1>0, <2>1, <2>2, <2>4 DEF Accounted
  <2>5. \A n \in Nodes : /\ n \in sent[t].nodes => times[n] = 0 /\ times'[n] = 1
                         /\ n \notin sent[t].nodes => times'[n] = times[n]
    BY <1>2, <2>3, <2>4 DEF Mine, TypeOK, ChainType
  <2>6. \A n \in Nodes : times'[n] < 2
    BY <2>5 DEF Accounted
  <2>7. \A n \in due : times'[n] > 0 => n \in batch[d].nodes
    BY <2>3, <2>4, <2>5
  <2>8. \A u \in Txs : sent'[u].fate = "pending" => u # t /\ sent[u].fate = "pending"
    BY <2>2
  <2>q. QED
    BY <2>1, <2>2, <2>6, <2>7, <2>8 DEF Accounted
<1>3. ASSUME NEW t \in Txs, Die(t) PROVE Accounted'
  <2>1. /\ sent[t].fate = "pending" /\ sent'[t].fate = "dead"
        /\ UNCHANGED <<due, times, pc, tx, batch>>
        /\ \A u \in Txs : u # t => sent'[u] = sent[u]
    BY <1>3 DEF Die, TypeOK, ChainType
  <2>2. \A d \in Drivers : pc[d] \in {"wait", "book", "salvage"} => tx[d] \in Txs
    BY DEF TypeOK, BatchOK, Sending
  <2>q. QED
    BY <2>1, <2>2 DEF Accounted
<1>4. ASSUME NEW t \in Txs, ChainDayOver(t) PROVE Accounted'
  BY <1>4 DEF ChainDayOver, Accounted
<1>5. ASSUME NEW t \in Txs, LedgerDayOver(t) PROVE Accounted'
  BY <1>5 DEF LedgerDayOver, Accounted
<1>6. ASSUME NEW d \in Drivers, Start(d) PROVE Accounted'
  <2>1. /\ pc[d] = "off" /\ UNCHANGED <<due, times, sent, batch, tx>>
        /\ \A e \in Drivers : e # d => pc'[e] = pc[e]
    BY <1>6 DEF Start, At, Goto, TypeOK, DriveType
  <2>q. QED
    BY <2>1 DEF Accounted
<1>7. ASSUME NEW d \in Drivers, Skip(d) PROVE Accounted'
  <2>1. pc[d] \in {"look", "chain"} /\ due' = due /\ UNCHANGED <<times, sent>>
    BY <1>7 DEF Skip
  <2>2. (\A t \in Txs : sent[t].fate # "pending") /\ \A n \in due : ~ (times[n] > 0)
    BY <1>0, <2>1 DEF Accounted
  <2>q. QED
    BY <2>1, <2>2 DEF Accounted
<1>8. ASSUME NEW d \in Drivers, Look(d) PROVE Accounted'
  <2>1. pc[d] = "look" /\ due' = due /\ UNCHANGED <<times, sent>>
    BY <1>8 DEF Look, At
  <2>2. (\A t \in Txs : sent[t].fate # "pending") /\ \A n \in due : ~ (times[n] > 0)
    BY <1>0, <2>1 DEF Accounted
  <2>q. QED
    BY <2>1, <2>2 DEF Accounted
<1>9. ASSUME NEW d \in Drivers, ReadChain(d) PROVE Accounted'
  <2>1. pc[d] = "chain" /\ due' = due /\ UNCHANGED <<times, sent>>
    BY <1>9 DEF ReadChain, At
  <2>2. (\A t \in Txs : sent[t].fate # "pending") /\ \A n \in due : ~ (times[n] > 0)
    BY <1>0, <2>1 DEF Accounted
  <2>q. QED
    BY <2>1, <2>2 DEF Accounted
<1>10. ASSUME NEW d \in Drivers, Rails(d) PROVE Accounted'
  <2>1. pc[d] = "rails" /\ due' = due /\ UNCHANGED <<times, sent>>
    BY <1>10 DEF Rails, At
  <2>2. (\A t \in Txs : sent[t].fate # "pending") /\ \A n \in due : ~ (times[n] > 0)
    BY <1>0, <2>1 DEF Accounted
  <2>q. QED
    BY <2>1, <2>2 DEF Accounted
<1>11. ASSUME NEW d \in Drivers, DeferAll(d) PROVE Accounted'
  <2>1. pc[d] = "defer" /\ due' \subseteq due /\ UNCHANGED <<times, sent>>
    BY <1>11 DEF DeferAll, At, Postpone
  <2>2. (\A t \in Txs : sent[t].fate # "pending") /\ \A n \in due : ~ (times[n] > 0)
    BY <1>0, <2>1 DEF Accounted
  <2>q. QED
    BY <2>1, <2>2 DEF Accounted
<1>12. ASSUME NEW d \in Drivers, Send(d) PROVE Accounted'
  <2>1. pc[d] = "send" /\ UNCHANGED <<due, times>>
    BY <1>12 DEF Send, At
  <2>2. \A t \in Txs : sent[t].fate # "pending"
    BY <1>0, <2>1 DEF Accounted
  <2>3. \A n \in due : ~ (times[n] > 0)
    BY <1>0, <2>1 DEF Accounted
  <2>4. CASE NotSent(d)
    BY <2>1, <2>2, <2>3, <2>4 DEF NotSent, Accounted
  <2>5. ASSUME NEW t \in Txs, Sent(d, t) PROVE Accounted'
    <3>1. tx' = [tx EXCEPT ![d] = t] /\ Goto(d, "wait")
      BY <2>5 DEF Sent, Orderly
    <3>2. pc'[d] = "wait" /\ tx'[d] = t
      BY <3>1 DEF Goto, TypeOK, DriveType
    <3>3. \A u \in Txs : u # t => sent'[u] = sent[u]
      BY <2>5 DEF Sent, TypeOK, ChainType
    <3>q. QED
      BY <2>1, <2>2, <2>3, <3>2, <3>3 DEF Accounted
  <2>q. QED
    BY <1>12, SendCases, <2>4, <2>5
<1>13. ASSUME NEW d \in Drivers, Wait(d) PROVE Accounted'
  <2>1. pc[d] = "wait" /\ UNCHANGED <<due, times, sent>> /\ ~ Spend("lost")
    BY <1>13 DEF Wait, At, Orderly
  <2>2. CASE sent[tx[d]].fate = "ok" /\ Goto(d, "book") /\ UNCHANGED <<batch, tx>>
    BY <2>1, <2>2 DEF Goto, Accounted, TypeOK, DriveType, Places, Sending
  <2>3. CASE sent[tx[d]].fate = "dead" /\ Quit(d)
    <3>1. \A e \in Drivers : e # d => pc'[e] = pc[e] /\ tx'[e] = tx[e] /\ batch'[e] = batch[e]
      BY <2>3 DEF Quit, Goto, TypeOK, DriveType
    <3>q. QED
      BY <2>1, <2>3, <3>1 DEF Accounted
  <2>q. QED
    BY <1>13, <2>1, <2>2, <2>3 DEF Wait
<1>14. ASSUME NEW d \in Drivers, Book(d) PROVE Accounted'
  <2>1. pc[d] = "book" /\ UNCHANGED <<times, sent, batch, tx>>
    BY <1>14 DEF Book, At
  <2>2. \A t \in Txs : sent[t].fate # "pending"
    BY <1>0, <2>1 DEF Accounted
  <2>3. \A n \in due : times[n] > 0 => n \in batch[d].nodes /\ sent[tx[d]].fate = "ok"
    BY <1>0, <2>1 DEF Accounted
  <2>4. CASE due' = due \ batch[d].nodes
    BY <2>1, <2>2, <2>3, <2>4 DEF Accounted
  <2>5. CASE Goto(d, "salvage") /\ due' = due
    <3>1. pc'[d] = "salvage"
      BY <2>5 DEF Goto, TypeOK, DriveType
    <3>q. QED
      BY <2>1, <2>2, <2>3, <2>5, <3>1 DEF Accounted
  <2>q. QED
    BY <1>14, <2>4, <2>5 DEF Book, Postpone
<1>15. ASSUME NEW d \in Drivers, Salvage(d) PROVE Accounted'
  <2>1. pc[d] = "salvage" /\ UNCHANGED <<times, sent, batch, tx>>
    BY <1>15 DEF Salvage, At
  <2>2. \A t \in Txs : sent[t].fate # "pending"
    BY <1>0, <2>1 DEF Accounted
  <2>3. \A n \in due : times[n] > 0 => n \in batch[d].nodes
    BY <1>0, <2>1 DEF Accounted
  <2>4. due' = due \ batch[d].nodes
    BY <1>15 DEF Salvage, Postpone, Orderly
  <2>q. QED
    BY <2>1, <2>2, <2>3, <2>4 DEF Accounted
<1>16. ASSUME NEW d \in Drivers, Warn(d) PROVE Accounted'
  <2>1. pc[d] = "warn" /\ due' = due /\ UNCHANGED <<times, sent>>
    BY <1>16 DEF Warn, At
  <2>2. (\A t \in Txs : sent[t].fate # "pending") /\ \A n \in due : ~ (times[n] > 0)
    BY <1>0, <2>1 DEF Accounted
  <2>q. QED
    BY <2>1, <2>2 DEF Accounted
<1>17. ASSUME NEW d \in Drivers, Clear(d) PROVE Accounted'
  <2>1. pc[d] = "clear" /\ due' = due /\ UNCHANGED <<times, sent>>
    BY <1>17 DEF Clear, At
  <2>2. (\A t \in Txs : sent[t].fate # "pending") /\ \A n \in due : ~ (times[n] > 0)
    BY <1>0, <2>1 DEF Accounted
  <2>q. QED
    BY <2>1, <2>2 DEF Accounted
<1>18. ASSUME NEW d \in Drivers, Crash(d) PROVE Accounted'
  BY <1>18 DEF Crash, Orderly
<1>19. ASSUME NEW d \in Drivers, LoseLock(d) PROVE Accounted'
  BY <1>19 DEF LoseLock, Spend, Fault, Accounted
<1>20. CASE UNCHANGED vars
  BY <1>20 DEF vars, Accounted
<1>q. QED
  BY <1>1, <1>2, <1>3, <1>4, <1>5, <1>6, <1>7, <1>8, <1>9, <1>10, <1>11, <1>12, <1>13, <1>14, <1>15, <1>16, <1>17, <1>18, <1>19, <1>20 DEF Next, Go

LEMMA InitAccounted == Init => Accounted
  BY DEF Init, Accounted

WhileOrderly ==
    Unspent("lockLoss") /\ Unspent("lost") /\ Unspent("crash") /\ Unspent("salvage") => Accounted

LEMMA WhileOrderlyStep ==
  ASSUME TypeOK, Confirmed, Bounded, WhileLocked, WhileOrderly, [Next]_vars
  PROVE  WhileOrderly'
<1> SUFFICES ASSUME Unspent("lockLoss")', Unspent("lost")', Unspent("crash")', Unspent("salvage")'
             PROVE  Accounted'
  BY DEF WhileOrderly
<1>1. /\ Unspent("lockLoss") /\ Unspent("lost") /\ Unspent("crash") /\ Unspent("salvage")
      /\ Orderly
  BY BudgetStep DEF Fault, Orderly
<1>2. OneAtWork /\ BatchWaits /\ Accounted
  BY <1>1 DEF WhileLocked, WhileOrderly
<1>q. QED
  BY <1>1, <1>2, AccountedStep

\* While receipts come, no pass dies and the lock holds, a node is credited once
\* for each time its timer comes up, however often the ledger write fails.
THEOREM CreditPaidOncePerTurn == Spec => []PaidOncePerTurn
<1>1. WhileOrderly => PaidOncePerTurn
  BY DEF WhileOrderly, Accounted, PaidOncePerTurn
<1>2. Init => WhileOrderly
  BY InitAccounted DEF WhileOrderly
<1>3. ASSUME TypeOK, Bounded, [Next]_vars PROVE Bounded'
  BY <1>3, BudgetStep
<1>q. QED
  BY <1>1, <1>2, <1>3, InitType, TypeStep, InitConfirmed, ConfirmedStep, InitBounded,
     InitWhileLocked, WhileLockedStep, WhileOrderlyStep, PTL DEF Spec

----------------------------------------------------------------------------
(* The queue of due nodes.                                                 *)

\* `ahead` orders the due nodes: a node that is not due stands nowhere, of two
\* due nodes one is ahead of the other, and who is ahead of one that is ahead is
\* ahead too.
QueueInv ==
    /\ \A n \in Nodes : ahead[n] \subseteq due /\ n \notin ahead[n] /\ (n \notin due => ahead[n] = {})
    /\ \A n, m \in due : n # m => m \in ahead[n] \/ n \in ahead[m]
    /\ \A n, m \in due : m \in ahead[n] => ahead[m] \subseteq ahead[n]

\* Every step is one of the clock, of somebody who puts timers off, or leaves the
\* queue as it is.
LEMMA QueueChanges ==
  ASSUME [Next]_vars
  PROVE  \/ \E n \in Nodes : Come(n)
         \/ \E ns : Postpone(ns)
         \/ UNCHANGED schedule
<1>1. ASSUME NEW d \in Drivers, Go(d)
      PROVE  (\E ns : Postpone(ns)) \/ UNCHANGED schedule
  BY <1>1 DEF Go, Look, ReadChain, Rails, DeferAll, Send, Wait, Book, Salvage, Warn, Clear, schedule
<1>2. ASSUME NEW d \in Drivers, Start(d) \/ Skip(d) \/ Crash(d) \/ LoseLock(d)
      PROVE  UNCHANGED schedule
  BY <1>2 DEF Start, Skip, Crash, LoseLock, schedule
<1>3. ASSUME NEW t \in Txs, Mine(t) \/ Die(t) \/ ChainDayOver(t) \/ LedgerDayOver(t)
      PROVE  UNCHANGED schedule
  BY <1>3 DEF Mine, Die, ChainDayOver, LedgerDayOver, schedule
<1>q. QED
  BY <1>1, <1>2, <1>3 DEF Next, vars

\* The clock puts a node at the end of the queue, and timers put off leave it.
LEMMA QueueStep == TypeOK /\ QueueInv /\ [Next]_vars => QueueInv'
<1> SUFFICES ASSUME TypeOK, QueueInv, [Next]_vars PROVE QueueInv'
  OBVIOUS
<1>1. due \subseteq Nodes /\ ahead \in [Nodes -> SUBSET Nodes]
  BY DEF TypeOK, ScheduleType
<1>2. ASSUME NEW n \in Nodes, Come(n) PROVE QueueInv'
  <2>1. /\ n \notin due /\ due' = due \union {n}
        /\ \A m \in Nodes : ahead'[m] = IF m = n THEN due ELSE ahead[m]
    BY <1>1, <1>2 DEF Come
  <2>q. QED
    BY <1>1, <2>1 DEF QueueInv
<1>3. ASSUME NEW ns, Postpone(ns) PROVE QueueInv'
  <2>1. /\ due' = due \ ns
        /\ \A m \in Nodes : ahead'[m] = IF m \in ns THEN {} ELSE ahead[m] \ ns
    BY <1>3 DEF Postpone
  <2>2. ASSUME NEW n \in Nodes
        PROVE  ahead'[n] \subseteq due' /\ n \notin ahead'[n] /\ (n \notin due' => ahead'[n] = {})
    <3>1. ahead[n] \subseteq due /\ n \notin ahead[n] /\ (n \notin due => ahead[n] = {})
      BY DEF QueueInv
    <3>2. CASE n \in ns
      BY <2>1, <3>2
    <3>3. CASE n \notin ns
      BY <2>1, <3>1, <3>3
    <3>q. QED
      BY <3>2, <3>3
  <2>3. ASSUME NEW n \in due', NEW m \in due'
        PROVE  /\ n # m => m \in ahead'[n] \/ n \in ahead'[m]
               /\ m \in ahead'[n] => ahead'[m] \subseteq ahead'[n]
    <3>1. /\ n \in due /\ n \notin ns /\ ahead'[n] = ahead[n] \ ns
          /\ m \in due /\ m \notin ns /\ ahead'[m] = ahead[m] \ ns
      BY <1>1, <2>1
    <3>2. /\ n # m => m \in ahead[n] \/ n \in ahead[m]
          /\ m \in ahead[n] => ahead[m] \subseteq ahead[n]
      BY <3>1 DEF QueueInv
    <3>q. QED
      BY <3>1, <3>2
  <2>q. QED
    BY <2>2, <2>3 DEF QueueInv
<1>4. CASE UNCHANGED schedule
  BY <1>4 DEF schedule, QueueInv
<1>q. QED
  BY <1>2, <1>3, <1>4, QueueChanges

\* dueNodes answers the longest due nodes: nobody who is due for longer than one
\* of them is left out, there are at most as many as the limit says, and if a
\* node is due there is one.
OldestFirst ==
    /\ \A n \in DueNodes : ahead[n] \subseteq DueNodes
    /\ Cardinality(DueNodes) <= BatchLimit
    /\ due # {} => DueNodes # {}

\* Positions in the queue are counted, and who is ahead has fewer before it.
LEMMA Positions ==
  ASSUME TypeOK, QueueInv
  PROVE  /\ \A n \in due : IsFiniteSet(ahead[n]) /\ Cardinality(ahead[n]) \in Nat
         /\ \A n \in due, m \in due : m \in ahead[n] => Cardinality(ahead[m]) < Cardinality(ahead[n])
<1>1. ASSUME NEW n \in due
      PROVE  IsFiniteSet(ahead[n]) /\ Cardinality(ahead[n]) \in Nat
  <2>1. ahead[n] \in SUBSET Nodes
    BY DEF TypeOK, ScheduleType
  <2>q. QED
    BY <2>1, FS_Subset, FS_CardinalityType
<1>2. ASSUME NEW n \in due, NEW m \in due, m \in ahead[n]
      PROVE  Cardinality(ahead[m]) < Cardinality(ahead[n])
  <2>1. ahead[m] \in SUBSET ahead[n] /\ m \notin ahead[m]
    BY <1>2 DEF QueueInv, TypeOK, ScheduleType
  <2>2. Cardinality(ahead[m]) <= Cardinality(ahead[n])
    BY <1>1, <2>1, FS_Subset
  <2>3. Cardinality(ahead[m]) # Cardinality(ahead[n])
    BY <1>1, <1>2, <2>1, FS_Subset
  <2>q. QED
    BY <1>1, <2>2, <2>3
<1>q. QED
  BY <1>1, <1>2

\* The limit cuts the queue behind its first nodes: who has fewer than the limit
\* ahead, has only such nodes ahead.
LEMMA LimitTakesTheOldest ==
  ASSUME TypeOK, QueueInv
  PROVE  OldestFirst
<1>0. due \subseteq Nodes /\ DueNodes \in SUBSET due
  BY DEF TypeOK, ScheduleType, DueNodes
<1>1. ASSUME NEW n \in DueNodes, NEW m \in ahead[n] PROVE m \in DueNodes
  <2>1. n \in due /\ m \in due /\ Cardinality(ahead[n]) < BatchLimit
    BY <1>0 DEF DueNodes, QueueInv
  <2>2. Cardinality(ahead[m]) < Cardinality(ahead[n])
    BY <2>1, Positions
  <2>3. Cardinality(ahead[n]) \in Nat /\ Cardinality(ahead[m]) \in Nat
    BY <2>1, Positions
  <2>q. QED
    BY <2>1, <2>2, <2>3 DEF DueNodes
<1>2. ASSUME due # {} PROVE DueNodes # {}
  <2> DEFINE P == {k \in Nat : \E n \in due : k = Cardinality(ahead[n])}
  <2>1. P \in SUBSET Nat /\ P # {}
    BY <1>2, Positions
  <2>2. PICK k \in P : \A j \in P : k <= j
    BY <2>1, LeastNumber
  <2>3. PICK n \in due : k = Cardinality(ahead[n])
    OBVIOUS
  <2>4. ahead[n] = {}
    <3>1. ASSUME NEW m \in ahead[n] PROVE FALSE
      <4>1. m \in due
        BY <1>0 DEF QueueInv
      <4>2. Cardinality(ahead[m]) < k /\ Cardinality(ahead[m]) \in Nat
        BY <2>3, <4>1, Positions
      <4>3. k <= Cardinality(ahead[m])
        BY <2>2, <4>1, <4>2
      <4>q. QED
        BY <4>2, <4>3
    <3>q. QED
      BY <3>1
  <2>5. Cardinality(ahead[n]) = 0
    BY <2>4, FS_EmptySet
  <2>q. QED
    BY <2>5 DEF DueNodes
<1>3. Cardinality(DueNodes) <= BatchLimit
  <2>1. CASE DueNodes = {}
    BY <2>1, FS_EmptySet
  <2>2. CASE DueNodes # {}
    <3> DEFINE P == {k \in Nat : \E n \in DueNodes : k = BatchLimit - Cardinality(ahead[n])}
    <3>1. \A n \in DueNodes : /\ n \in due /\ Cardinality(ahead[n]) \in Nat
                              /\ Cardinality(ahead[n]) < BatchLimit
      BY <1>0, Positions DEF DueNodes
    <3>2. P \in SUBSET Nat /\ P # {}
      BY <2>2, <3>1
    <3>3. PICK k \in P : \A j \in P : k <= j
      BY <3>2, LeastNumber
    <3>4. PICK last \in DueNodes : k = BatchLimit - Cardinality(ahead[last])
      OBVIOUS
    <3>5. ASSUME NEW m \in DueNodes, m # last PROVE m \in ahead[last]
      <4>1. m \in ahead[last] \/ last \in ahead[m]
        BY <1>0, <3>5 DEF QueueInv
      <4>2. CASE last \in ahead[m]
        <5>1. Cardinality(ahead[last]) < Cardinality(ahead[m])
          BY <3>1, <4>2, Positions
        <5>2. k <= BatchLimit - Cardinality(ahead[m])
          BY <3>1, <3>3
        <5>q. QED
          BY <3>1, <3>4, <5>1, <5>2
      <4>q. QED
        BY <4>1, <4>2
    <3>6. DueNodes \in SUBSET (ahead[last] \union {last})
      BY <3>5
    <3>7. /\ IsFiniteSet(ahead[last] \union {last})
          /\ Cardinality(ahead[last] \union {last}) <= Cardinality(ahead[last]) + 1
      <4>1. IsFiniteSet(ahead[last]) /\ Cardinality(ahead[last]) \in Nat
        BY <3>1, Positions
      <4>2. /\ IsFiniteSet(ahead[last] \union {last})
            /\ Cardinality(ahead[last] \union {last})
                 = IF last \in ahead[last] THEN Cardinality(ahead[last]) ELSE Cardinality(ahead[last]) + 1
        BY <4>1, FS_AddElement
      <4>q. QED
        BY <4>1, <4>2
    <3>8. Cardinality(DueNodes) <= Cardinality(ahead[last] \union {last})
      BY <3>6, <3>7, FS_Subset
    <3>9. Cardinality(DueNodes) \in Nat /\ Cardinality(ahead[last] \union {last}) \in Nat
      BY <3>6, <3>7, FS_Subset, FS_CardinalityType
    <3>q. QED
      BY <3>1, <3>7, <3>8, <3>9
  <2>q. QED
    BY <2>1, <2>2
<1>q. QED
  BY <1>1, <1>2, <1>3 DEF OldestFirst

\* dueNodes serves the oldest first, whatever came up, was credited or put off.
THEOREM CreditOldestFirst == Spec => []OldestFirst
<1>1. Init => QueueInv
  BY DEF Init, QueueInv
<1>q. QED
  BY <1>1, InitType, TypeStep, QueueStep, LimitTakesTheOldest, PTL DEF Spec

\* Nobody overtakes a node that waits: while it is due, those ahead of it only
\* become fewer.  This is the measure by which DueIsServed holds.
THEOREM CreditNeverOvertaken ==
  Spec => [][\A n \in due : n \in due' => ahead'[n] \subseteq ahead[n]]_vars
<1>1. ASSUME TypeOK, [Next]_vars, NEW n \in due, n \in due'
      PROVE  ahead'[n] \subseteq ahead[n]
  <2>1. n \in Nodes /\ ahead \in [Nodes -> SUBSET Nodes]
    BY <1>1 DEF TypeOK, ScheduleType
  <2>2. ASSUME NEW m \in Nodes, Come(m) PROVE ahead'[n] = ahead[n]
    BY <2>1, <2>2 DEF Come
  <2>3. ASSUME NEW ns, Postpone(ns) PROVE ahead'[n] \subseteq ahead[n]
    BY <2>1, <2>3 DEF Postpone
  <2>4. CASE UNCHANGED schedule
    BY <2>4 DEF schedule
  <2>q. QED
    BY <1>1, <2>2, <2>3, <2>4, QueueChanges
<1>2. TypeOK /\ [Next]_vars => [\A n \in due : n \in due' => ahead'[n] \subseteq ahead[n]]_vars
  BY <1>1
<1>q. QED
  BY <1>2, InitType, TypeStep, PTL DEF Spec
=============================================================================
