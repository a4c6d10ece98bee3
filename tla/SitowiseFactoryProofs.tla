------------------------ MODULE SitowiseFactoryProofs ------------------------
(***************************************************************************)
(* Theorems about SitowiseFactory, for any number of accounts, nodes and   *)
(* wei, and any width of the uint128.                                      *)
(***************************************************************************)
EXTENDS SitowiseFactory, Integers, WellFoundedInduction, FiniteSetTheorems, TLAPS

USE FactoryAssumption DEF FactoryAssumption

-----------------------------------------------------------------------------
(* What Sum computes, for every n.  The induction is the least-number      *)
(* principle, taken from the well-foundedness of < on the naturals: a set  *)
(* of counterexamples that is not empty has a least element, and the       *)
(* element below it leads to a contradiction.                              *)

LessThan == {ss \in Nat \X Nat : ss[1] < ss[2]}

\* The library's relation made from < is the set of pairs LessThan.
LEMMA LessThanIsOpToRel == OpToRel(<, Nat) = LessThan
  BY DEF OpToRel, LessThan

\* LessThan has no infinite descending chain.
LEMMA LessThanWellFounded == IsWellFoundedOn(LessThan, Nat)
  BY LessThanIsOpToRel, NatLessThanWellFounded, Zenon

\* Every set of naturals that is not empty has a least element.
LEMMA LeastNumber ==
  ASSUME NEW T \in SUBSET Nat, T # {}
  PROVE  \E m \in T : \A k \in T : m <= k
<1>1. PICK x \in T : \A y \in T : ~ (<<y, x>> \in LessThan)
  BY LessThanWellFounded, WFMin
<1>2. ASSUME NEW k \in T PROVE x <= k
  <2>1. k \in Nat /\ x \in Nat
    OBVIOUS
  <2>2. <<k, x>> \in Nat \X Nat => (k < x => <<k, x>> \in LessThan)
    BY <2>1 DEF LessThan
  <2>3. QED
    BY <1>1, <2>1, <2>2
<1>3. QED
  BY <1>2

\* Induction up to n in the form the lemmas below use: a set that contains 0
\* and, with every number below n, the next one, contains 0..n.
LEMMA InductionUpTo ==
  ASSUME NEW n \in Nat, NEW S, 0 \in S,
         \A i \in 0..n : i # n /\ i \in S => i + 1 \in S
  PROVE  0..n \subseteq S
<1> DEFINE T == {i \in 0..n : i \notin S}
<1>1. SUFFICES ASSUME T # {} PROVE FALSE
  OBVIOUS
<1>2. T \in SUBSET Nat
  OBVIOUS
<1> HIDE DEF T
<1>3. PICK m \in T : \A k \in T : m <= k
  BY <1>1, <1>2, LeastNumber
<1>4. m \in 0..n /\ m \notin S /\ m # 0
  BY DEF T
<1>5. m - 1 \in 0..n /\ m - 1 \notin T /\ m - 1 # n
  BY <1>3, <1>4
<1>6. m - 1 \in S
  BY <1>5 DEF T
<1>7. QED
  BY <1>4, <1>5, <1>6

\* The recursive definition in Sum defines a table.
LEMMA RunningTotalExists ==
  ASSUME NEW n \in Nat, NEW f \in [1..n -> Nat]
  PROVE  \E total : IsRunningTotal(total, f, n)
<1> DEFINE S == {i \in 0..n : \E total : IsRunningTotal(total, f, i)}
<1>1. 0 \in S
  <2>1. IsRunningTotal([i \in 0..0 |-> 0], f, 0)
    BY DEF IsRunningTotal
  <2>2. QED
    BY <2>1
<1>2. ASSUME NEW m \in 0..n, m # n, m \in S
      PROVE  m + 1 \in S
  <2>1. PICK total : IsRunningTotal(total, f, m)
    BY <1>2
  <2> DEFINE next == [i \in 0..(m + 1) |->
                        IF i = m + 1 THEN total[m] + f[m + 1] ELSE total[i]]
  <2>2. ASSUME NEW i \in 0..(m + 1)
        PROVE  next[i] = IF i = 0 THEN 0 ELSE next[i - 1] + f[i]
    <3>1. \A j \in 0..m : total[j] = IF j = 0 THEN 0 ELSE total[j - 1] + f[j]
      BY <2>1 DEF IsRunningTotal
    <3>2. CASE i = m + 1
      BY <3>2
    <3>3. CASE i # m + 1
      <4>1. i \in 0..m /\ (i # 0 => i - 1 \in 0..m)
        BY <3>3
      <4>q. QED
        BY <3>1, <4>1
    <3>q. QED
      BY <3>2, <3>3
  <2>3. IsRunningTotal(next, f, m + 1)
    BY <2>2 DEF IsRunningTotal
  <2>4. QED
    BY <1>2, <2>3
<1> HIDE DEF S
<1>3. 0..n \subseteq S
  BY <1>1, <1>2, InductionUpTo
<1>4. n \in S
  BY <1>3
<1>5. QED
  BY <1>4 DEF S

\* Sum is the last entry of a table of running totals of naturals.
LEMMA SumIsLastTotal ==
  ASSUME NEW n \in Nat, NEW f \in [1..n -> Nat]
  PROVE  \E total \in [0..n -> Nat] :
            /\ total[0] = 0
            /\ \A i \in 1..n : total[i] = total[i - 1] + f[i]
            /\ Sum(f, n) = total[n]
<1>1. PICK total : IsRunningTotal(total, f, n) /\ Sum(f, n) = total[n]
  BY RunningTotalExists DEF IsRunningTotal, Sum
<1>2. /\ total[0] = 0
      /\ \A i \in 1..n : total[i] = total[i - 1] + f[i]
      /\ total = [i \in 0..n |-> total[i]]
  <2>1. /\ total = [i \in 0..n |-> total[i]]
        /\ \A i \in 0..n : total[i] = IF i = 0 THEN 0 ELSE total[i - 1] + f[i]
    BY <1>1 DEF IsRunningTotal
  <2>2. 0 \in 0..n /\ \A i \in 1..n : i \in 0..n /\ i # 0
    OBVIOUS
  <2>q. QED
    BY <2>1, <2>2
<1> DEFINE S == {i \in 0..n : total[i] \in Nat}
<1>3. 0 \in S
  BY <1>2
<1>4. ASSUME NEW m \in 0..n, m # n, m \in S
      PROVE  m + 1 \in S
  <2>1. m + 1 \in 1..n /\ (m + 1) - 1 = m /\ total[m] \in Nat
    BY <1>4
  <2>2. total[m + 1] = total[m] + f[m + 1] /\ f[m + 1] \in Nat
    BY <1>2, <2>1
  <2>3. QED
    BY <2>1, <2>2
<1> HIDE DEF S
<1>5. 0..n \subseteq S
  BY <1>3, <1>4, InductionUpTo
<1>6. total \in [0..n -> Nat]
  BY <1>2, <1>5 DEF S
<1>7. QED
  BY <1>1, <1>2, <1>6

\* A sum of naturals is a natural.
LEMMA SumType ==
  ASSUME NEW n \in Nat, NEW f \in [1..n -> Nat]
  PROVE  Sum(f, n) \in Nat
  BY SumIsLastTotal

\* Sums add: a batch is added to balances in one go or entry by entry.
LEMMA SumAdds ==
  ASSUME NEW n \in Nat, NEW f \in [1..n -> Nat], NEW g \in [1..n -> Nat],
         NEW h \in [1..n -> Nat], \A i \in 1..n : h[i] = f[i] + g[i]
  PROVE  Sum(h, n) = Sum(f, n) + Sum(g, n)
<1>1. PICK ft \in [0..n -> Nat] : /\ ft[0] = 0
                                  /\ \A i \in 1..n : ft[i] = ft[i - 1] + f[i]
                                  /\ Sum(f, n) = ft[n]
  BY SumIsLastTotal
<1>2. PICK gt \in [0..n -> Nat] : /\ gt[0] = 0
                                  /\ \A i \in 1..n : gt[i] = gt[i - 1] + g[i]
                                  /\ Sum(g, n) = gt[n]
  BY SumIsLastTotal
<1>3. PICK ht \in [0..n -> Nat] : /\ ht[0] = 0
                                  /\ \A i \in 1..n : ht[i] = ht[i - 1] + h[i]
                                  /\ Sum(h, n) = ht[n]
  BY SumIsLastTotal
<1> DEFINE S == {i \in 0..n : ht[i] = ft[i] + gt[i]}
<1>4. 0 \in S
  BY <1>1, <1>2, <1>3
<1>5. ASSUME NEW m \in 0..n, m # n, m \in S
      PROVE  m + 1 \in S
  <2>1. m + 1 \in 1..n /\ (m + 1) - 1 = m
    BY <1>5
  <2>2. /\ ft[m + 1] = ft[m] + f[m + 1]
        /\ gt[m + 1] = gt[m] + g[m + 1]
        /\ ht[m + 1] = ht[m] + h[m + 1]
    BY <1>1, <1>2, <1>3, <2>1
  <2>3. /\ ft[m] \in Nat /\ gt[m] \in Nat
        /\ f[m + 1] \in Nat /\ g[m + 1] \in Nat
        /\ h[m + 1] = f[m + 1] + g[m + 1]
    BY <2>1
  <2>4. QED
    BY <1>5, <2>1, <2>2, <2>3
<1> HIDE DEF S
<1>6. 0..n \subseteq S
  BY <1>4, <1>5, InductionUpTo
<1>7. ht[n] = ft[n] + gt[n]
  BY <1>6 DEF S
<1>8. QED
  BY <1>1, <1>2, <1>3, <1>7

\* Nothing adds up to nothing.
LEMMA SumOfZeros ==
  ASSUME NEW n \in Nat
  PROVE  Sum([i \in 1..n |-> 0], n) = 0
<1> DEFINE z == [i \in 1..n |-> 0]
<1>1. z \in [1..n -> Nat] /\ \A i \in 1..n : z[i] = z[i] + z[i]
  OBVIOUS
<1> HIDE DEF z
<1>2. Sum(z, n) = Sum(z, n) + Sum(z, n) /\ Sum(z, n) \in Nat
  BY <1>1, SumAdds, SumType
<1>3. \A x \in Nat : x = x + x => x = 0
  OBVIOUS
<1>4. Sum(z, n) = 0
  BY <1>2, <1>3, Zenon
<1>5. QED
  BY <1>4 DEF z

\* A smaller function has a smaller sum.
LEMMA SumMonotone ==
  ASSUME NEW n \in Nat, NEW f \in [1..n -> Nat], NEW g \in [1..n -> Nat],
         \A i \in 1..n : f[i] <= g[i]
  PROVE  Sum(f, n) <= Sum(g, n)
<1> DEFINE d == [i \in 1..n |-> g[i] - f[i]]
<1>1. d \in [1..n -> Nat] /\ \A i \in 1..n : g[i] = f[i] + d[i]
  OBVIOUS
<1> HIDE DEF d
<1>2. Sum(g, n) = Sum(f, n) + Sum(d, n)
  BY <1>1, SumAdds
<1>3. Sum(f, n) \in Nat /\ Sum(d, n) \in Nat
  BY <1>1, SumType
<1>4. \A x, y \in Nat : x <= x + y
  OBVIOUS
<1>5. QED
  BY <1>2, <1>3, <1>4, Zenon

-----------------------------------------------------------------------------
(* Types *)

\* What a set of nodes holds is a natural, and each node's part of it too.
LEMMA BalancesOfType ==
  ASSUME TypeOK, NEW S
  PROVE  /\ BalancesOf(S) \in [1..MaxNodes -> Nat]
         /\ BalancesOf(S) \in [Ids -> 0..MaxUint128]
         /\ Sum(BalancesOf(S), MaxNodes) \in Nat
<1>1. BalancesOf(S) \in [1..MaxNodes -> Nat]
  BY DEF TypeOK, BalancesOf, Ids
<1>2. BalancesOf(S) \in [Ids -> 0..MaxUint128]
  BY DEF TypeOK, BalancesOf, Ids
<1>3. QED
  BY <1>1, <1>2, SumType

\* A payment to a recipient keeps the types.
LEMMA SendType ==
  ASSUME TypeOK, NEW to, NEW amount \in Nat, Send(to, amount)
  PROVE  eth' \in 0..MaxWei /\ entered' \in BOOLEAN
  BY DEF TypeOK, Send

\* A withdrawal keeps the types.
LEMMA PayOutType ==
  ASSUME TypeOK, NEW S \in SUBSET Ids, NEW to \in Addresses, PayOut(S, to)
  PROVE  TypeOK'
<1> DEFINE amount == Sum(BalancesOf(S), MaxNodes)
<1>1. amount \in Nat /\ BalancesOf(S) \in [Ids -> 0..MaxUint128]
  BY BalancesOfType
<1> HIDE DEF amount
<1>2. eth' \in 0..MaxWei /\ entered' \in BOOLEAN
  BY <1>1, SendType DEF PayOut, amount
<1>3. withdrawn' \in [Ids -> 0..MaxUint128]
  <2>1. ASSUME NEW id \in Ids
        PROVE  withdrawn[id] + BalancesOf(S)[id] \in 0..MaxUint128
    BY DEF PayOut, BalancesOf, TypeOK
  <2>2. QED
    BY <2>1 DEF PayOut
<1>4. balance' \in [Ids -> 0..MaxUint128]
  BY DEF PayOut, TypeOK
<1>5. outstanding' \in Nat /\ totalWithdrawn' \in Nat
  BY <1>1 DEF PayOut, TypeOK, amount
<1>6. QED
  BY <1>2, <1>3, <1>4, <1>5 DEF PayOut, TypeOK, roles, registry

\* A credit keeps the types.
LEMMA CreditType ==
  ASSUME TypeOK, NEW caller, NEW batch \in [Ids -> 0..MaxUint128],
         NEW value \in 0..MaxWei, CreditBatch(caller, batch, value)
  PROVE  TypeOK'
<1>1. ASSUME NEW id \in Ids
      PROVE  /\ balance[id] + batch[id] \in 0..MaxUint128
             /\ received[id] + batch[id] \in 0..MaxUint128
  <2>1. /\ balance[id] \in 0..MaxUint128 /\ received[id] \in 0..MaxUint128
        /\ batch[id] \in 0..MaxUint128
    BY DEF TypeOK
  <2>2. CASE batch[id] = 0
    BY <2>1, <2>2
  <2>3. CASE batch[id] > 0
    BY <2>1, <2>3 DEF CreditBatch, Apply, HistoryWith
  <2>4. QED
    BY <2>1, <2>2, <2>3
<1>2. balance' \in [Ids -> 0..MaxUint128] /\ received' \in [Ids -> 0..MaxUint128]
  BY <1>1 DEF CreditBatch, Apply, HistoryWith
<1>3. eth' \in 0..MaxWei /\ outstanding' \in Nat /\ totalDistributed' \in Nat
  BY DEF CreditBatch, Apply, HistoryWith, TypeOK
<1>4. QED
  BY <1>2, <1>3 DEF CreditBatch, Apply, HistoryWith, TypeOK, roles, registry

\* A mint keeps the types.
LEMMA MintType ==
  ASSUME TypeOK, NEW caller, NEW to \in Addresses, NEW ref \in Refs \cup {NoRef},
         MintFor(caller, to, ref)
  PROVE  TypeOK'
<1>1. totalNodes + 1 \in Ids /\ totalNodes' \in 0..MaxNodes
  BY DEF MintFor, Register, TypeOK, Ids
<1>2. /\ nodeOwner' \in [Ids -> Addresses]
      /\ refOf' \in [Ids -> Refs \cup {NoRef}]
      /\ owned' \in [Addresses -> SUBSET Ids]
      /\ paymentRefUsed' \in SUBSET Refs
  BY <1>1 DEF MintFor, Register, TypeOK
<1>3. QED
  BY <1>1, <1>2 DEF MintFor, Register, TypeOK, roles, money

\* Every step keeps the types.
LEMMA TypeStep == TypeOK /\ [Next]_vars => TypeOK'
<1> SUFFICES ASSUME TypeOK, [Next]_vars PROVE TypeOK'
  OBVIOUS
<1>1. ASSUME NEW caller \in Accounts, HolderStep(caller) PROVE TypeOK'
  <2>1. ASSUME NEW to \in Addresses, NEW id \in Ids, Withdraw(caller, id, to)
        PROVE  TypeOK'
    BY <2>1, PayOutType DEF Withdraw
  <2>2. ASSUME NEW to \in Addresses, WithdrawAll(caller, to) PROVE TypeOK'
    <3>1. owned[caller] \in SUBSET Ids
      BY DEF TypeOK, Addresses
    <3>2. QED
      BY <2>2, <3>1, PayOutType DEF WithdrawAll
  <2>3. QED
    BY <1>1, <2>1, <2>2 DEF HolderStep
<1>2. ASSUME NEW caller \in Accounts, OperatorStep(caller) PROVE TypeOK'
  BY <1>2, MintType, CreditType DEF OperatorStep
<1>3. ASSUME NEW caller \in Accounts, OwnerStep(caller) PROVE TypeOK'
  <2>1. ASSUME NEW to \in Addresses, NEW amount \in 0..MaxWei,
               Rescue(caller, to, amount)
        PROVE  TypeOK'
    <3>1. eth' \in 0..MaxWei /\ entered' \in BOOLEAN
      BY <2>1, SendType DEF Rescue
    <3>2. QED
      BY <2>1, <3>1 DEF Rescue, TypeOK, roles, registry, money
  <2>2. ASSUME NEW v \in Addresses, \/ SetRelayer(caller, v)
                                    \/ SetDistributor(caller, v)
                                    \/ TransferOwnership(caller, v)
        PROVE  TypeOK'
    BY <2>2 DEF SetRelayer, SetDistributor, TransferOwnership, TypeOK,
                registry, money
  <2>3. ASSUME NEW v \in 0..(Ceiling + 1), SetMaxPerWallet(caller, v)
        PROVE  TypeOK'
    BY <2>3 DEF SetMaxPerWallet, TypeOK, registry, money
  <2>4. ASSUME NEW v \in BOOLEAN, SetPaused(caller, v) PROVE TypeOK'
    BY <2>4 DEF SetPaused, TypeOK, registry, money
  <2>5. QED
    BY <1>3, <2>1, <2>2, <2>3, <2>4 DEF OwnerStep
<1>4. ASSUME NEW caller \in Accounts, AcceptOwnership(caller) PROVE TypeOK'
  BY <1>4 DEF AcceptOwnership, TypeOK, Addresses, registry, money
<1>5. ASSUME NEW value \in 1..MaxWei, Fund(value) PROVE TypeOK'
  BY <1>5 DEF Fund, TypeOK, roles, registry, money
<1>6. CASE CallReturns
  BY <1>6 DEF CallReturns, TypeOK, roles, registry, money
<1>7. CASE UNCHANGED vars
  BY <1>7 DEF vars, TypeOK, roles, registry, money
<1>8. QED
  BY <1>1, <1>2, <1>3, <1>4, <1>5, <1>6, <1>7 DEF Next

\* The storage of the factory keeps its types.
THEOREM FactoryTypeOK == Spec => []TypeOK
<1>1. Init => TypeOK
  <2> SUFFICES ASSUME Init PROVE TypeOK
    OBVIOUS
  <2>1. /\ owner \in Accounts
        /\ pendingOwner \in Addresses
        /\ relayer \in Addresses \ {NoOne}
        /\ distributor \in Addresses \ {NoOne}
        /\ maxPerWallet \in 1..Ceiling
        /\ paused \in BOOLEAN
    BY DEF Init, Addresses
  <2>2. /\ nodeOwner \in [Ids -> Addresses]
        /\ owned \in [Addresses -> SUBSET Ids]
        /\ paymentRefUsed \in SUBSET Refs
        /\ refOf \in [Ids -> Refs \cup {NoRef}]
        /\ totalNodes \in 0..MaxNodes
    BY DEF Init, Addresses
  <2>3. /\ balance \in [Ids -> 0..MaxUint128]
        /\ received \in [Ids -> 0..MaxUint128]
        /\ withdrawn \in [Ids -> 0..MaxUint128]
    BY DEF Init
  <2>4. /\ totalDistributed \in Nat /\ totalWithdrawn \in Nat
        /\ outstanding \in Nat /\ eth \in 0..MaxWei
    BY DEF Init
  <2>5. entered \in BOOLEAN
    BY Zenon DEF Init
  <2>6. QED
    BY <2>1, <2>2, <2>3, <2>4, <2>5 DEF TypeOK
<1>2. QED
  BY <1>1, TypeStep, PTL DEF Spec

-----------------------------------------------------------------------------
(* Money *)

\* The strengthening that makes solvency inductive: the stored totals are the
\* sums of what they count, and a node's history adds up.  Without the second
\* part the uint128 sum in a withdrawal could overflow; without the first,
\* `outstanding` could be smaller than the balance that is subtracted.
MoneyInv == Solvent /\ TotalsAddUp /\ NodeLedger

\* Emptying the nodes in S takes their part out of the sum of balances and
\* puts it into the sum of withdrawals.
LEMMA PayOutSums ==
  ASSUME TypeOK, NEW S \in SUBSET Ids, NEW to \in Addresses, PayOut(S, to)
  PROVE  /\ Sum(balance', MaxNodes)
              = Sum(balance, MaxNodes) - Sum(BalancesOf(S), MaxNodes)
         /\ Sum(withdrawn', MaxNodes)
              = Sum(withdrawn, MaxNodes) + Sum(BalancesOf(S), MaxNodes)
<1>1. TypeOK'
  BY PayOutType
<1>2. /\ balance \in [1..MaxNodes -> Nat] /\ balance' \in [1..MaxNodes -> Nat]
      /\ withdrawn \in [1..MaxNodes -> Nat]
      /\ withdrawn' \in [1..MaxNodes -> Nat]
  <2>1. /\ balance \in [Ids -> 0..MaxUint128]
        /\ withdrawn \in [Ids -> 0..MaxUint128]
    BY DEF TypeOK
  <2>2. /\ balance' \in [Ids -> 0..MaxUint128]
        /\ withdrawn' \in [Ids -> 0..MaxUint128]
    BY <1>1 DEF TypeOK
  <2>3. QED
    BY <2>1, <2>2 DEF Ids
<1>3. BalancesOf(S) \in [1..MaxNodes -> Nat]
  BY BalancesOfType
<1>4. \A i \in 1..MaxNodes : balance[i] = balance'[i] + BalancesOf(S)[i]
  BY <1>2 DEF PayOut, BalancesOf, Ids
<1>5. \A i \in 1..MaxNodes : withdrawn'[i] = withdrawn[i] + BalancesOf(S)[i]
  BY <1>2 DEF PayOut, Ids
<1>6. Sum(balance, MaxNodes)
        = Sum(balance', MaxNodes) + Sum(BalancesOf(S), MaxNodes)
  BY <1>2, <1>3, <1>4, SumAdds
<1>7. Sum(withdrawn', MaxNodes)
        = Sum(withdrawn, MaxNodes) + Sum(BalancesOf(S), MaxNodes)
  BY <1>2, <1>3, <1>5, SumAdds
<1>8. Sum(balance', MaxNodes) \in Nat /\ Sum(BalancesOf(S), MaxNodes) \in Nat
  BY <1>2, <1>3, SumType
<1>9. \A x, y, z \in Nat : x = y + z => y = x - z
  OBVIOUS
<1>10. Sum(balance, MaxNodes) \in Nat
  BY <1>2, SumType
<1>11. QED
  BY <1>6, <1>7, <1>8, <1>9, <1>10

\* A withdrawal keeps the books.
LEMMA PayOutMoney ==
  ASSUME TypeOK, MoneyInv, NEW S \in SUBSET Ids, NEW to \in Addresses,
         PayOut(S, to)
  PROVE  MoneyInv'
<1> DEFINE amount == Sum(BalancesOf(S), MaxNodes)
<1>1. amount \in Nat
  BY BalancesOfType
<1>2. /\ Sum(balance', MaxNodes) = Sum(balance, MaxNodes) - amount
      /\ Sum(withdrawn', MaxNodes) = Sum(withdrawn, MaxNodes) + amount
  BY PayOutSums
<1>3. /\ amount <= outstanding /\ amount <= eth
      /\ outstanding' = outstanding - amount
      /\ totalWithdrawn' = totalWithdrawn + amount
      /\ eth' = eth \/ eth' = eth - amount
      /\ received' = received /\ totalDistributed' = totalDistributed
  BY DEF PayOut, Send
<1> HIDE DEF amount
<1>4. Solvent'
  BY <1>1, <1>3 DEF MoneyInv, Solvent, TypeOK
<1>5. TotalsAddUp'
  BY <1>2, <1>3 DEF MoneyInv, TotalsAddUp
<1>6. NodeLedger'
  <2>1. ASSUME NEW id \in Ids
        PROVE  received'[id] = balance'[id] + withdrawn'[id]
    BY DEF MoneyInv, NodeLedger, PayOut, BalancesOf, TypeOK
  <2>2. QED
    BY <2>1 DEF NodeLedger
<1>7. QED
  BY <1>4, <1>5, <1>6 DEF MoneyInv

\* A credit keeps the books.
LEMMA CreditMoney ==
  ASSUME TypeOK, MoneyInv, NEW caller, NEW batch \in [Ids -> 0..MaxUint128],
         NEW value \in 0..MaxWei, CreditBatch(caller, batch, value)
  PROVE  MoneyInv'
<1>1. TypeOK'
  BY CreditType
<1>2. /\ balance \in [1..MaxNodes -> Nat] /\ balance' \in [1..MaxNodes -> Nat]
      /\ received \in [1..MaxNodes -> Nat] /\ received' \in [1..MaxNodes -> Nat]
      /\ batch \in [1..MaxNodes -> Nat]
  <2>1. /\ balance \in [Ids -> 0..MaxUint128]
        /\ received \in [Ids -> 0..MaxUint128]
    BY DEF TypeOK
  <2>2. /\ balance' \in [Ids -> 0..MaxUint128]
        /\ received' \in [Ids -> 0..MaxUint128]
    BY <1>1 DEF TypeOK
  <2>3. QED
    BY <2>1, <2>2 DEF Ids
<1>3. /\ \A i \in 1..MaxNodes : balance'[i] = balance[i] + batch[i]
      /\ \A i \in 1..MaxNodes : received'[i] = received[i] + batch[i]
  BY <1>2 DEF CreditBatch, Apply, HistoryWith, Ids
<1>4. /\ Sum(balance', MaxNodes) = Sum(balance, MaxNodes) + Sum(batch, MaxNodes)
      /\ Sum(received', MaxNodes)
           = Sum(received, MaxNodes) + Sum(batch, MaxNodes)
  <2>1. \A f, g, h \in [1..MaxNodes -> Nat] :
           (\A i \in 1..MaxNodes : h[i] = f[i] + g[i])
             => Sum(h, MaxNodes) = Sum(f, MaxNodes) + Sum(g, MaxNodes)
    BY SumAdds
  <2>2. QED
    BY <1>2, <1>3, <2>1
<1>5. Solvent'
  BY DEF CreditBatch, Apply, HistoryWith, MoneyInv, Solvent, TypeOK
<1>6. TotalsAddUp'
  BY <1>4 DEF CreditBatch, Apply, HistoryWith, MoneyInv, TotalsAddUp
<1>7. NodeLedger'
  <2>1. ASSUME NEW id \in Ids
        PROVE  received'[id] = balance'[id] + withdrawn'[id]
    BY DEF MoneyInv, NodeLedger, CreditBatch, Apply, HistoryWith,
           TypeOK
  <2>2. QED
    BY <2>1 DEF NodeLedger
<1>8. QED
  BY <1>5, <1>6, <1>7 DEF MoneyInv

\* What is neither a credit nor a withdrawal leaves the balances alone, and
\* takes ETH out of the contract only down to `outstanding`.
LEMMA OtherMoney ==
  ASSUME TypeOK, MoneyInv, UNCHANGED money, eth' >= outstanding
  PROVE  MoneyInv'
  BY DEF MoneyInv, Solvent, TotalsAddUp, NodeLedger, money

\* Every step keeps the books.
LEMMA MoneyStep == TypeOK /\ MoneyInv /\ [Next]_vars => MoneyInv'
<1> SUFFICES ASSUME TypeOK, MoneyInv, [Next]_vars PROVE MoneyInv'
  OBVIOUS
<1>1. ASSUME NEW caller \in Accounts, HolderStep(caller) PROVE MoneyInv'
  <2>1. ASSUME NEW to \in Addresses, NEW id \in Ids, Withdraw(caller, id, to)
        PROVE  MoneyInv'
    BY <2>1, PayOutMoney DEF Withdraw
  <2>2. ASSUME NEW to \in Addresses, WithdrawAll(caller, to) PROVE MoneyInv'
    <3>1. owned[caller] \in SUBSET Ids
      BY DEF TypeOK, Addresses
    <3>2. QED
      BY <2>2, <3>1, PayOutMoney DEF WithdrawAll
  <2>3. QED
    BY <1>1, <2>1, <2>2 DEF HolderStep
<1>2. ASSUME NEW caller \in Accounts, OperatorStep(caller) PROVE MoneyInv'
  <2>1. ASSUME NEW to \in Addresses, NEW ref \in Refs \cup {NoRef},
               MintFor(caller, to, ref)
        PROVE  MoneyInv'
    BY <2>1, OtherMoney DEF MintFor, Register, MoneyInv, Solvent
  <2>2. QED
    BY <1>2, <2>1, CreditMoney DEF OperatorStep
<1>3. ASSUME NEW caller \in Accounts, OwnerStep(caller) PROVE MoneyInv'
  <2>1. ASSUME NEW to \in Addresses, NEW amount \in 0..MaxWei,
               Rescue(caller, to, amount)
        PROVE  MoneyInv'
    <3>1. eth' >= outstanding
      BY <2>1 DEF Rescue, Send, FreeBalance, TypeOK, MoneyInv, Solvent
    <3>2. QED
      BY <2>1, <3>1, OtherMoney DEF Rescue
  <2>2. ASSUME NEW v \in Addresses, \/ SetRelayer(caller, v)
                                    \/ SetDistributor(caller, v)
                                    \/ TransferOwnership(caller, v)
        PROVE  MoneyInv'
    BY <2>2, OtherMoney DEF SetRelayer, SetDistributor, TransferOwnership,
                            MoneyInv, Solvent
  <2>3. ASSUME NEW v \in 0..(Ceiling + 1), SetMaxPerWallet(caller, v)
        PROVE  MoneyInv'
    BY <2>3, OtherMoney DEF SetMaxPerWallet, MoneyInv, Solvent
  <2>4. ASSUME NEW v \in BOOLEAN, SetPaused(caller, v) PROVE MoneyInv'
    BY <2>4, OtherMoney DEF SetPaused, MoneyInv, Solvent
  <2>5. QED
    BY <1>3, <2>1, <2>2, <2>3, <2>4 DEF OwnerStep
<1>4. ASSUME NEW caller \in Accounts, AcceptOwnership(caller) PROVE MoneyInv'
  BY <1>4, OtherMoney DEF AcceptOwnership, MoneyInv, Solvent
<1>5. ASSUME NEW value \in 1..MaxWei, Fund(value) PROVE MoneyInv'
  <2>1. eth' >= outstanding
    BY <1>5 DEF Fund, MoneyInv, Solvent, TypeOK
  <2>2. QED
    BY <1>5, <2>1, OtherMoney DEF Fund
<1>6. CASE CallReturns
  BY <1>6, OtherMoney DEF CallReturns, MoneyInv, Solvent
<1>7. CASE UNCHANGED vars
  BY <1>7, OtherMoney DEF vars, MoneyInv, Solvent
<1>8. QED
  BY <1>1, <1>2, <1>3, <1>4, <1>5, <1>6, <1>7 DEF Next

\* The books are in order from the deployment on.
LEMMA MoneyInit == Init => MoneyInv
<1> SUFFICES ASSUME Init PROVE MoneyInv
  OBVIOUS
<1>1. Sum([id \in Ids |-> 0], MaxNodes) = 0
  BY SumOfZeros DEF Ids
<1>2. TotalsAddUp
  BY <1>1 DEF Init, TotalsAddUp
<1>3. Solvent /\ NodeLedger
  BY DEF Init, Solvent, NodeLedger
<1>4. QED
  BY <1>2, <1>3 DEF MoneyInv

\* The ETH of the contract covers all node balances, its stored totals are the
\* sums they stand for, and each node's receipts are its balance plus its
\* withdrawals; in every state, those in which a recipient is being paid too.
THEOREM FactoryMoney == Spec => [](Solvent /\ TotalsAddUp /\ NodeLedger)
<1>1. TypeOK /\ MoneyInv /\ [Next]_vars => TypeOK' /\ MoneyInv'
  BY TypeStep, MoneyStep
<1>2. MoneyInv => Solvent /\ TotalsAddUp /\ NodeLedger
  BY DEF MoneyInv
<1>3. QED
  BY <1>1, <1>2, MoneyInit, FactoryTypeOK, MoneyStep, PTL DEF Spec

\* No holder's withdrawal can revert for arithmetic or for lack of ETH.
THEOREM FactoryWithdrawalsFit == Spec => []WithdrawalsFit
<1>1. ASSUME TypeOK, MoneyInv PROVE WithdrawalsFit
  <2>1. ASSUME NEW a \in Accounts
        PROVE  /\ Sum(BalancesOf(owned[a]), MaxNodes) <= outstanding
               /\ Sum(BalancesOf(owned[a]), MaxNodes) <= eth
    <3>1. BalancesOf(owned[a]) \in [1..MaxNodes -> Nat]
      BY <1>1, BalancesOfType
    <3>2. balance \in [1..MaxNodes -> Nat]
      BY <1>1 DEF TypeOK, Ids
    <3>3. \A i \in 1..MaxNodes : BalancesOf(owned[a])[i] <= balance[i]
      BY <3>2 DEF BalancesOf, Ids
    <3>4. Sum(BalancesOf(owned[a]), MaxNodes) <= Sum(balance, MaxNodes)
      BY <3>1, <3>2, <3>3, SumMonotone
    <3>5. Sum(BalancesOf(owned[a]), MaxNodes) \in Nat
      BY <3>1, SumType
    <3>6. QED
      BY <1>1, <3>4, <3>5 DEF MoneyInv, TotalsAddUp, Solvent, TypeOK
  <2>2. ASSUME NEW id \in Ids PROVE withdrawn[id] + balance[id] <= MaxUint128
    BY <1>1 DEF MoneyInv, NodeLedger, TypeOK
  <2>3. QED
    BY <2>1, <2>2 DEF WithdrawalsFit
<1>2. QED
  BY <1>1, MoneyInit, MoneyStep, FactoryTypeOK, PTL DEF Spec

-----------------------------------------------------------------------------
(* The registry of nodes and payments *)

RegistryInv == OwnersIndexed /\ OneNodePerPayment

\* Only MintFor changes the registry.
LEMMA RegistryChanges ==
  ASSUME [Next]_vars
  PROVE  \/ \E caller \in Accounts, to \in Addresses, ref \in Refs \cup {NoRef} :
               MintFor(caller, to, ref)
         \/ UNCHANGED registry
  BY DEF Next, vars, HolderStep, OperatorStep, OwnerStep, Withdraw, WithdrawAll,
         PayOut, CreditBatch, Apply, Rescue, SetRelayer, SetDistributor,
         SetMaxPerWallet, SetPaused, TransferOwnership, AcceptOwnership, Fund,
         CallReturns

\* Every step keeps the registry consistent.
LEMMA RegistryStep == TypeOK /\ RegistryInv /\ [Next]_vars => RegistryInv'
<1> SUFFICES ASSUME TypeOK, RegistryInv, [Next]_vars PROVE RegistryInv'
  OBVIOUS
<1>1. ASSUME NEW caller \in Accounts, NEW to \in Addresses,
             NEW ref \in Refs \cup {NoRef}, MintFor(caller, to, ref)
      PROVE  RegistryInv'
  <2> DEFINE new == totalNodes + 1
  <2>1. /\ totalNodes \in Nat /\ MaxNodes \in Nat /\ new \in Ids
        /\ totalNodes' = new /\ to # NoOne /\ ref \notin paymentRefUsed
        /\ totalNodes <= MaxNodes
    BY <1>1 DEF MintFor, Register, TypeOK, Ids
  <2>2. /\ nodeOwner' = [nodeOwner EXCEPT ![new] = to]
        /\ refOf' = [refOf EXCEPT ![new] = ref]
        /\ owned' = [owned EXCEPT ![to] = @ \cup {new}]
        /\ paymentRefUsed' = paymentRefUsed \cup {ref}
    BY <1>1 DEF MintFor, Register
  <2>3. nodeOwner \in [Ids -> Addresses] /\ owned \in [Addresses -> SUBSET Ids]
        /\ refOf \in [Ids -> Refs \cup {NoRef}]
    BY DEF TypeOK
  <2>4. /\ nodeOwner[new] = NoOne
        /\ \A id \in Ids : nodeOwner[id] # NoOne <=> id <= totalNodes
    BY <2>1 DEF RegistryInv, OwnersIndexed
  <2>5. ASSUME NEW id \in Ids
        PROVE  nodeOwner'[id] # NoOne <=> id <= totalNodes'
    <3>1. id \in Nat
      BY DEF Ids
    <3>2. CASE id = new
      BY <2>1, <2>2, <2>3, <3>2
    <3>3. CASE id # new
      BY <2>1, <2>2, <2>3, <2>4, <3>1, <3>3
    <3>4. QED
      BY <3>2, <3>3
  <2>6. ASSUME NEW a \in Addresses \ {NoOne}
        PROVE  owned'[a] = {id \in Ids : nodeOwner'[id] = a}
    <3>1. owned[a] = {id \in Ids : nodeOwner[id] = a}
      BY DEF RegistryInv, OwnersIndexed
    <3>2. owned'[a] = IF a = to THEN owned[a] \cup {new} ELSE owned[a]
      BY <2>2, <2>3
    <3>3. \A id \in Ids : nodeOwner'[id] = IF id = new THEN to ELSE nodeOwner[id]
      BY <2>2, <2>3
    <3>4. QED
      BY <2>1, <2>4, <3>1, <3>2, <3>3
  <2>7. paymentRefUsed = {refOf[id] : id \in 1..totalNodes}
    BY DEF RegistryInv, OneNodePerPayment
  <2>8. \A id \in 1..totalNodes : id \in Ids /\ id # new /\ refOf'[id] = refOf[id]
    BY <2>1, <2>2, <2>3 DEF Ids
  <2>9. refOf'[new] = ref
    BY <2>1, <2>2, <2>3
  <2>10. 1..totalNodes' = (1..totalNodes) \cup {new}
    BY <2>1
  <2> HIDE DEF new
  <2>11. paymentRefUsed' = {refOf'[id] : id \in 1..totalNodes'}
    BY <2>2, <2>7, <2>8, <2>9, <2>10
  <2>12. ASSUME NEW i \in 1..totalNodes', NEW j \in 1..totalNodes',
                refOf'[i] = refOf'[j]
         PROVE  i = j
    <3>1. CASE i = new /\ j = new
      BY <3>1
    <3>2. CASE i = new /\ j # new
      BY <2>1, <2>7, <2>8, <2>9, <2>10, <2>12, <3>2
    <3>3. CASE i # new /\ j = new
      BY <2>1, <2>7, <2>8, <2>9, <2>10, <2>12, <3>3
    <3>4. CASE i # new /\ j # new
      BY <2>8, <2>10, <2>12, <3>4 DEF RegistryInv, OneNodePerPayment
    <3>5. QED
      BY <3>1, <3>2, <3>3, <3>4
  <2>13. QED
    BY <2>5, <2>6, <2>11, <2>12 DEF RegistryInv, OwnersIndexed, OneNodePerPayment
<1>2. CASE UNCHANGED registry
  BY <1>2 DEF registry, RegistryInv, OwnersIndexed, OneNodePerPayment
<1>3. QED
  BY <1>1, <1>2, RegistryChanges

\* No payment backs two nodes, the refs marked used are those in the mint
\* events, and the lists of nodes per owner match the nodes.
THEOREM FactoryRegistry == Spec => [](OwnersIndexed /\ OneNodePerPayment)
<1>1. Init => RegistryInv
  <2> SUFFICES ASSUME Init PROVE RegistryInv
    OBVIOUS
  <2>1. OwnersIndexed
    BY DEF Init, OwnersIndexed, Ids
  <2>2. 1..totalNodes = {} /\ paymentRefUsed = {}
    BY DEF Init
  <2>3. OneNodePerPayment
    BY <2>2 DEF OneNodePerPayment
  <2>4. QED
    BY <2>1, <2>3 DEF RegistryInv
<1>2. RegistryInv => OwnersIndexed /\ OneNodePerPayment
  BY DEF RegistryInv
<1>3. QED
  BY <1>1, <1>2, RegistryStep, FactoryTypeOK, PTL DEF Spec

\* What the contract keeps twice agrees: its totals, its nodes' histories and
\* its owners' lists.
THEOREM FactoryBooksAgree == Spec => []BooksAgree
<1>1. TotalsAddUp /\ NodeLedger /\ OwnersIndexed => BooksAgree
  BY DEF BooksAgree
<1>2. QED
  BY <1>1, FactoryMoney, FactoryRegistry, PTL

\* However maxPerWallet moves, no wallet ever holds more than the ceiling.
THEOREM FactorySweepBounded == Spec => []SweepBounded
<1>1. Init => SweepBounded
  <2> SUFFICES ASSUME Init, NEW a \in Addresses
               PROVE  Cardinality(owned[a]) <= Ceiling
    BY DEF SweepBounded
  <2>1. owned[a] = {}
    BY DEF Init
  <2>2. QED
    BY <2>1, FS_EmptySet
<1>2. TypeOK /\ SweepBounded /\ [Next]_vars => SweepBounded'
  <2> SUFFICES ASSUME TypeOK, SweepBounded, [Next]_vars, NEW a \in Addresses
               PROVE  Cardinality(owned'[a]) <= Ceiling
    BY DEF SweepBounded
  <2>1. ASSUME NEW caller \in Accounts, NEW to \in Addresses,
               NEW ref \in Refs \cup {NoRef}, MintFor(caller, to, ref)
        PROVE  Cardinality(owned'[a]) <= Ceiling
    <3>1. IsFiniteSet(owned[a])
      <4>1. IsFiniteSet(Ids) /\ owned[a] \in SUBSET Ids
        BY FS_Interval DEF Ids, TypeOK
      <4>2. QED
        BY <4>1, FS_Subset
    <3>2. Cardinality(owned[a]) \in Nat
      BY <3>1, FS_CardinalityType
    <3>3. /\ Cardinality(owned[to]) < maxPerWallet
          /\ maxPerWallet \in Nat /\ maxPerWallet <= Ceiling
      BY <2>1 DEF MintFor, Register, TypeOK
    <3>4. CASE a = to
      <4>1. owned'[a] = owned[a] \cup {totalNodes + 1}
        BY <2>1, <3>4 DEF MintFor, Register, TypeOK
      <4>2. \/ Cardinality(owned'[a]) = Cardinality(owned[a])
            \/ Cardinality(owned'[a]) = Cardinality(owned[a]) + 1
        BY <3>1, <4>1, FS_AddElement
      <4>3. QED
        BY <3>2, <3>3, <3>4, <4>2
    <3>5. CASE a # to
      <4>1. owned'[a] = owned[a]
        BY <2>1, <3>5 DEF MintFor, Register, TypeOK
      <4>2. QED
        BY <4>1 DEF SweepBounded
    <3>6. QED
      BY <3>4, <3>5
  <2>2. CASE UNCHANGED registry
    BY <2>2 DEF registry, SweepBounded
  <2>3. QED
    BY <2>1, <2>2, RegistryChanges
<1>3. QED
  BY <1>1, <1>2, FactoryTypeOK, PTL DEF Spec

-----------------------------------------------------------------------------
(* Steps *)

\* A node never changes hands, its payment is never replaced, and what it
\* received and paid out only grows.
THEOREM FactoryNodesAreKept == Spec => NodesAreKept
<1>1. ASSUME TypeOK, [Next]_vars, NEW id \in 1..totalNodes
      PROVE  /\ nodeOwner'[id] = nodeOwner[id]
             /\ refOf'[id] = refOf[id]
             /\ received'[id] >= received[id]
             /\ withdrawn'[id] >= withdrawn[id]
  <2>1. /\ id \in Ids /\ id # totalNodes + 1
        /\ received[id] \in Nat /\ withdrawn[id] \in Nat
    BY <1>1 DEF TypeOK, Ids
  <2>2. nodeOwner'[id] = nodeOwner[id] /\ refOf'[id] = refOf[id]
    BY <1>1, <2>1, RegistryChanges DEF MintFor, Register, TypeOK, registry
  <2>3. received'[id] >= received[id] /\ withdrawn'[id] >= withdrawn[id]
    <3>1. ASSUME NEW S, NEW to, PayOut(S, to)
          PROVE  received'[id] >= received[id] /\ withdrawn'[id] >= withdrawn[id]
      <4>1. BalancesOf(S)[id] \in Nat
        BY <1>1, <2>1, BalancesOfType
      <4>2. QED
        BY <2>1, <3>1, <4>1 DEF PayOut
    <3>2. ASSUME NEW caller, NEW batch \in [Ids -> 0..MaxUint128], NEW value,
                 CreditBatch(caller, batch, value)
          PROVE  received'[id] >= received[id] /\ withdrawn'[id] >= withdrawn[id]
      BY <2>1, <3>2 DEF CreditBatch, Apply, HistoryWith
    <3>3. CASE UNCHANGED money
      BY <2>1, <3>3 DEF money
    <3>4. QED
      BY <1>1, <3>1, <3>2, <3>3
         DEF Next, vars, HolderStep, OperatorStep, OwnerStep, Withdraw,
             WithdrawAll, MintFor, Register, Rescue, SetRelayer, SetDistributor,
             SetMaxPerWallet, SetPaused, TransferOwnership, AcceptOwnership,
             Fund, CallReturns
  <2>4. QED
    BY <2>2, <2>3
<1>2. TypeOK /\ [Next]_vars
        => [\A id \in 1..totalNodes :
              /\ nodeOwner'[id] = nodeOwner[id]
              /\ refOf'[id] = refOf[id]
              /\ received'[id] >= received[id]
              /\ withdrawn'[id] >= withdrawn[id]]_vars
  BY <1>1
<1>3. QED
  BY <1>2, FactoryTypeOK, PTL DEF Spec, NodesAreKept

-----------------------------------------------------------------------------
(* The factory implements NodeEscrow *)

\* The sum the escrow is written with is the factory's.
LEMMA EscrowSum == \A f, n : Escrow!Sum(f, n) = Sum(f, n)
  BY DEF Escrow!Sum, Sum

\* A withdrawal settles the claims of the nodes it empties.
LEMMA PayOutSettles ==
  ASSUME TypeOK, NEW S \in SUBSET Ids, NEW to \in Addresses, PayOut(S, to)
  PROVE  Escrow!Settle(S)
<1>1. Escrow!ClaimsOf(S) = BalancesOf(S)
  BY DEF Escrow!ClaimsOf, BalancesOf, Escrow!Ids, Ids
<1>2. balance' = [id \in Ids |-> IF id \in S THEN 0 ELSE balance[id]]
  BY DEF PayOut
<1>3. eth' = eth - Sum(BalancesOf(S), MaxNodes) \/ eth' = eth
  BY DEF PayOut, Send
<1>4. QED
  BY <1>1, <1>2, <1>3, EscrowSum DEF Escrow!Settle, Escrow!Ids, Ids

\* A batch brings the claims and the wei that back them.
LEMMA CreditCredits ==
  ASSUME TypeOK, NEW caller, NEW batch \in [Ids -> 0..MaxUint128],
         NEW value \in 0..MaxWei, CreditBatch(caller, batch, value)
  PROVE  Escrow!Credit
<1>1. balance \in [Ids -> Nat]
  BY DEF TypeOK
<1>2. balance' = [id \in Ids |-> balance[id] + batch[id]]
      /\ eth' = eth + Sum(batch, MaxNodes)
  BY DEF CreditBatch, Apply, HistoryWith
<1>3. balance' \in [Ids -> Nat]
  BY <1>1, <1>2
<1>4. [id \in Ids |-> balance'[id] - balance[id]] = batch
  BY <1>1, <1>2
<1>5. batch \in [Ids -> Nat]
  OBVIOUS
<1>6. QED
  BY <1>2, <1>3, <1>4, <1>5, EscrowSum DEF Escrow!Credit, Escrow!Ids, Ids

\* Every step of the factory is a step of the escrow, or none.
LEMMA EscrowStep ==
  ASSUME TypeOK, MoneyInv, [Next]_vars
  PROVE  [Escrow!Next]_(Escrow!vars)
<1>1. ASSUME NEW S \in SUBSET Ids, NEW to \in Addresses, PayOut(S, to)
      PROVE  Escrow!Next
  BY <1>1, PayOutSettles DEF Escrow!Next, Escrow!Ids, Ids
<1>2. ASSUME NEW caller, NEW batch \in [Ids -> 0..MaxUint128],
             NEW value \in 0..MaxWei, CreditBatch(caller, batch, value)
      PROVE  Escrow!Next
  BY <1>2, CreditCredits DEF Escrow!Next
<1>3. ASSUME NEW caller, NEW to, NEW amount \in 0..MaxWei,
             Rescue(caller, to, amount)
      PROVE  Escrow!Next
  <2>1. eth' \in outstanding..eth /\ UNCHANGED balance
    BY <1>3 DEF Rescue, Send, FreeBalance, TypeOK, MoneyInv, Solvent, money
  <2>2. outstanding = Sum(balance, MaxNodes)
    BY DEF MoneyInv, TotalsAddUp
  <2>3. QED
    BY <2>1, <2>2, EscrowSum DEF Escrow!Next, Escrow!TakeSurplus
<1>4. ASSUME NEW value \in 1..MaxWei, Fund(value) PROVE Escrow!Next
  BY <1>4 DEF Fund, money, TypeOK, Escrow!Next, Escrow!TopUp
<1>5. CASE UNCHANGED <<balance, eth>>
  BY <1>5 DEF Escrow!vars
<1>6. \A caller \in Accounts : owned[caller] \in SUBSET Ids
  BY DEF TypeOK, Addresses
<1>7. QED
  BY <1>1, <1>2, <1>3, <1>4, <1>5, <1>6
     DEF Next, vars, HolderStep, OperatorStep, OwnerStep, Withdraw, WithdrawAll,
         MintFor, Register, SetRelayer, SetDistributor, SetMaxPerWallet, SetPaused,
         TransferOwnership, AcceptOwnership, CallReturns, money

\* The factory implements the escrow: wei leave it only to settle a node's
\* whole balance or out of the surplus, whoever calls what in which order.
THEOREM FactoryKeepsEscrow == Spec => KeepsEscrow
<1>1. Init => Escrow!Init
  BY DEF Init, Escrow!Init, Escrow!Ids, Ids
<1>2. QED
  BY <1>1, EscrowStep, FactoryTypeOK, MoneyInit, MoneyStep, PTL
     DEF Spec, KeepsEscrow, Escrow!Spec
-----------------------------------------------------------------------------
(* What the escrow itself promises *)

\* The claims and the pot are amounts of wei, and the pot covers the claims.
EscrowInv ==
    /\ balance \in [Ids -> Nat] /\ eth \in Nat
    /\ Sum(balance, MaxNodes) <= eth

\* An empty pot covers no claims.
LEMMA EscrowStart == Escrow!Init => EscrowInv
<1> SUFFICES ASSUME Escrow!Init PROVE EscrowInv
  OBVIOUS
<1>1. balance = [id \in 1..MaxNodes |-> 0] /\ eth = 0
  BY DEF Escrow!Init, Escrow!Ids
<1>2. Sum(balance, MaxNodes) = 0
  BY <1>1, SumOfZeros
<1>q. QED
  BY <1>1, <1>2 DEF EscrowInv, Ids

\* What is left of the claims and what was settled of them add up to the claims.
LEMMA SettledInFull ==
  ASSUME EscrowInv, NEW S \in SUBSET Ids, Escrow!Settle(S)
  PROVE  EscrowInv'
<1>1. /\ balance' = [id \in Ids |-> IF id \in S THEN 0 ELSE balance[id]]
      /\ eth' = eth - Sum(BalancesOf(S), MaxNodes) \/ eth' = eth
  <2>1. Escrow!ClaimsOf(S) = BalancesOf(S)
    BY DEF Escrow!ClaimsOf, BalancesOf, Escrow!Ids, Ids
  <2>q. QED
    BY <2>1, EscrowSum DEF Escrow!Settle, Escrow!Ids, Ids
<1>2. /\ balance \in [1..MaxNodes -> Nat] /\ balance' \in [1..MaxNodes -> Nat]
      /\ BalancesOf(S) \in [1..MaxNodes -> Nat]
      /\ \A id \in 1..MaxNodes : balance[id] = balance'[id] + BalancesOf(S)[id]
  BY <1>1 DEF EscrowInv, BalancesOf, Ids
<1>3. Sum(balance, MaxNodes) = Sum(balance', MaxNodes) + Sum(BalancesOf(S), MaxNodes)
  BY <1>2, SumAdds
<1>4. Sum(balance', MaxNodes) \in Nat /\ Sum(BalancesOf(S), MaxNodes) \in Nat
  BY <1>2, SumType
<1>q. QED
  BY <1>1, <1>2, <1>3, <1>4 DEF EscrowInv, Ids

\* New claims come with the wei that back them.
LEMMA CreditedInFull ==
  ASSUME EscrowInv, Escrow!Credit
  PROVE  EscrowInv'
<1> DEFINE added == [id \in Ids |-> balance'[id] - balance[id]]
<1>1. balance' \in [Ids -> Nat] /\ added \in [Ids -> Nat] /\ eth' = eth + Sum(added, MaxNodes)
  BY EscrowSum DEF Escrow!Credit, Escrow!Ids, Ids
<1>2. \A id \in Ids : balance'[id] = balance[id] + added[id]
  BY <1>1 DEF EscrowInv
<1> HIDE DEF added
<1>3. Sum(balance', MaxNodes) = Sum(balance, MaxNodes) + Sum(added, MaxNodes)
  BY <1>1, <1>2, SumAdds DEF EscrowInv, Ids
<1>4. Sum(balance, MaxNodes) \in Nat /\ Sum(added, MaxNodes) \in Nat
  BY <1>1, SumType DEF EscrowInv, Ids
<1>q. QED
  BY <1>1, <1>3, <1>4 DEF EscrowInv

\* Whatever implements the escrow owes its holders no more than it holds.
THEOREM EscrowCoversClaims == KeepsEscrow => []EscrowInv
<1>1. EscrowInv /\ [Escrow!Next]_(Escrow!vars) => EscrowInv'
  <2> SUFFICES ASSUME EscrowInv, [Escrow!Next]_(Escrow!vars) PROVE EscrowInv'
    OBVIOUS
  <2>1. Sum(balance, MaxNodes) \in Nat
    BY SumType DEF EscrowInv, Ids
  <2>2. ASSUME NEW S \in SUBSET Escrow!Ids, Escrow!Settle(S) PROVE EscrowInv'
    BY <2>2, SettledInFull DEF Escrow!Ids, Ids
  <2>3. CASE Escrow!Credit
    BY <2>3, CreditedInFull
  <2>4. CASE Escrow!TopUp
    BY <2>1, <2>4 DEF Escrow!TopUp, EscrowInv
  <2>5. CASE Escrow!TakeSurplus
    BY <2>1, <2>5, EscrowSum DEF Escrow!TakeSurplus, EscrowInv
  <2>6. CASE UNCHANGED Escrow!vars
    BY <2>6 DEF Escrow!vars, EscrowInv
  <2>q. QED
    BY <2>2, <2>3, <2>4, <2>5, <2>6 DEF Escrow!Next
<1>q. QED
  BY <1>1, EscrowStart, PTL DEF KeepsEscrow, Escrow!Spec
=============================================================================
