--------------------------- MODULE SitowiseFactory ---------------------------
(***************************************************************************)
(* contracts/src/SitowiseFactory.sol: the contract that holds the nodes    *)
(* and the ETH credited to them.                                           *)
(*                                                                         *)
(* One action per external function that changes storage.  A call that     *)
(* reverts is not a step.  withdraw, withdrawAll and rescue hand control   *)
(* to the recipient before they return: the effects up to the call are one *)
(* step, which sets the `_entered` flag, and CallReturns is the rest.  In  *)
(* between the recipient, and whatever it calls, may call every function   *)
(* the flag does not exclude.  If the recipient fails, the EVM undoes the  *)
(* transaction with everything nested in it; what is left is the state     *)
(* before the transaction, so the failing call is again not a step, and    *)
(* the states its nested calls saw are those of a call that succeeds.      *)
(***************************************************************************)
EXTENDS Naturals, FiniteSets, Sums

CONSTANTS
    Accounts,     \* addresses that can send transactions
    Self,         \* the address of the factory
    NoOne,        \* address(0)
    Refs,         \* payment hashes
    NoRef,        \* bytes32(0)
    Ceiling,      \* MAX_PER_WALLET_CEILING
    InitialMax,   \* the initial maxPerWallet
    MaxUint128,   \* the largest value of a uint128
    MaxNodes,     \* bound: nodes ever minted
    MaxWei        \* bound: wei in existence

ASSUME FactoryAssumption ==
    /\ Self \notin Accounts
    /\ NoOne \notin Accounts \cup {Self}
    /\ NoRef \notin Refs
    /\ Ceiling \in Nat \ {0}
    /\ InitialMax \in 1..Ceiling
    /\ MaxUint128 \in Nat
    /\ MaxNodes \in Nat
    /\ MaxWei \in Nat

VARIABLES
    \* roles and switches
    owner, pendingOwner, relayer, distributor, maxPerWallet, paused,
    \* the nodes: _node, _owned, totalNodes, and the ref in each NodeMinted event
    nodeOwner, balance, received, withdrawn, owned, totalNodes,
    paymentRefUsed, refOf,
    \* the totals
    totalDistributed, totalWithdrawn, outstanding,
    \* _entered, and the ETH balance of the contract
    entered, eth

roles == <<owner, pendingOwner, relayer, distributor, maxPerWallet, paused>>
registry == <<nodeOwner, owned, totalNodes, paymentRefUsed, refOf>>
money == <<balance, received, withdrawn, totalDistributed, totalWithdrawn,
           outstanding>>
vars == <<roles, registry, money, entered, eth>>

Ids == 1..MaxNodes
Addresses == Accounts \cup {Self, NoOne}

TypeOK ==
    /\ owner \in Accounts
    /\ pendingOwner \in Addresses
    /\ relayer \in Addresses \ {NoOne}
    /\ distributor \in Addresses \ {NoOne}
    /\ maxPerWallet \in 1..Ceiling
    /\ paused \in BOOLEAN
    /\ nodeOwner \in [Ids -> Addresses]
    /\ balance \in [Ids -> 0..MaxUint128]
    /\ received \in [Ids -> 0..MaxUint128]
    /\ withdrawn \in [Ids -> 0..MaxUint128]
    /\ owned \in [Addresses -> SUBSET Ids]
    /\ totalNodes \in 0..MaxNodes
    /\ paymentRefUsed \in SUBSET Refs
    /\ refOf \in [Ids -> Refs \cup {NoRef}]
    /\ totalDistributed \in Nat
    /\ totalWithdrawn \in Nat
    /\ outstanding \in Nat
    /\ entered \in BOOLEAN
    /\ eth \in 0..MaxWei

Init ==
    /\ owner \in Accounts
    /\ relayer \in Accounts
    /\ distributor \in Accounts
    /\ pendingOwner = NoOne
    /\ maxPerWallet = InitialMax
    /\ paused = FALSE
    /\ nodeOwner = [id \in Ids |-> NoOne]
    /\ balance = [id \in Ids |-> 0]
    /\ received = [id \in Ids |-> 0]
    /\ withdrawn = [id \in Ids |-> 0]
    /\ owned = [a \in Addresses |-> {}]
    /\ totalNodes = 0
    /\ paymentRefUsed = {}
    /\ refOf = [id \in Ids |-> NoRef]
    /\ totalDistributed = 0
    /\ totalWithdrawn = 0
    /\ outstanding = 0
    /\ entered = FALSE
    /\ eth = 0

-----------------------------------------------------------------------------
(* Minting *)

\* Node number totalNodes + 1 for `to`, listed under `holder`.
Register(to, ref, holder) ==
    /\ totalNodes < MaxNodes                       \* bound
    /\ paymentRefUsed' = paymentRefUsed \cup {ref}
    /\ totalNodes' = totalNodes + 1
    /\ nodeOwner' = [nodeOwner EXCEPT ![totalNodes + 1] = to]
    /\ refOf' = [refOf EXCEPT ![totalNodes + 1] = ref]
    /\ owned' = [owned EXCEPT ![holder] = @ \cup {totalNodes + 1}]
    /\ UNCHANGED <<roles, money, entered, eth>>

\* Mistakes the properties must reject: a payment is accepted again, the
\* limit is one too high.
MintForAnyRef(caller, to, ref) ==
    caller = relayer /\ to # NoOne /\ ref # NoRef /\ Register(to, ref, to)
MintForOneMore(caller, to, ref) ==
    /\ caller = relayer /\ to # NoOne /\ ref \notin paymentRefUsed \cup {NoRef}
    /\ Cardinality(owned[to]) <= maxPerWallet
    /\ Register(to, ref, to)

MintFor(caller, to, ref) ==
    /\ caller = relayer
    /\ ~paused
    /\ to # NoOne
    /\ ref # NoRef
    /\ ref \notin paymentRefUsed
    /\ Cardinality(owned[to]) < maxPerWallet
    /\ Register(to, ref, to)

-----------------------------------------------------------------------------
(* Crediting.  A batch maps each node to what its entries add up to; a node *)
(* named twice gets both amounts, one after the other, in the code too.     *)

\* The batch reaches the balances, `history` the lifetime totals of the nodes.
Apply(batch, value, history) ==
    /\ eth + value <= MaxWei                       \* bound
    /\ balance' = [id \in Ids |-> balance[id] + batch[id]]
    /\ received' = history
    /\ outstanding' = outstanding + value
    /\ totalDistributed' = totalDistributed + value
    /\ eth' = eth + value
    /\ UNCHANGED <<roles, registry, withdrawn, totalWithdrawn, entered>>

HistoryWith(batch) == [id \in Ids |-> received[id] + batch[id]]

\* What every batch must satisfy, sums aside.
Credible(caller, batch) ==
    /\ caller = distributor
    /\ \E id \in Ids : batch[id] > 0
    /\ \A id \in Ids : batch[id] > 0 => nodeOwner[id] # NoOne

\* Mistakes the properties must reject: msg.value is not compared with the
\* amounts; a sum does not fit its uint128; a node's history wraps around.
CreditBatchAnyValue(caller, batch, value) ==
    Credible(caller, batch) /\ Apply(batch, value, HistoryWith(batch))
CreditBatchUnchecked(caller, batch, value) ==
    /\ Credible(caller, batch) /\ value = Sum(batch, MaxNodes)
    /\ Apply(batch, value, HistoryWith(batch))
CreditBatchWraps(caller, batch, value) ==
    /\ Credible(caller, batch) /\ value = Sum(batch, MaxNodes)
    /\ \A id \in Ids : balance[id] + batch[id] <= MaxUint128
    /\ Apply(batch, value,
             [id \in Ids |-> HistoryWith(batch)[id] % (MaxUint128 + 1)])

CreditBatch(caller, batch, value) ==
    /\ Credible(caller, batch)
    /\ value = Sum(batch, MaxNodes)
    /\ \A id \in Ids : /\ balance[id] + batch[id] <= MaxUint128
                       /\ received[id] + batch[id] <= MaxUint128
    /\ Apply(batch, value, HistoryWith(batch))

-----------------------------------------------------------------------------
(* Paying out *)

\* The balances of the nodes in S, and nothing for the others.
BalancesOf(S) == [id \in Ids |-> IF id \in S THEN balance[id] ELSE 0]

\* The call that sends `amount` to `to`: control passes to the recipient.
\* ETH the factory sends to itself stays.
Send(to, amount) ==
    /\ amount <= eth
    /\ eth' = IF to = Self THEN eth ELSE eth - amount
    /\ entered' = TRUE

\* What withdraw and withdrawAll have in common: the nodes in S are emptied
\* and the totals moved before the ETH is sent.  Checked arithmetic: a
\* subtraction that would go below zero, or a uint128 sum that would not fit,
\* reverts.
\*
\* The mistake to reject: the ETH leaves before the balances are emptied, so a
\* recipient that calls back in finds them still there.
PayOutFirst(S, to) ==
    LET amount == Sum(BalancesOf(S), MaxNodes)
    IN  /\ to # NoOne /\ amount > 0 /\ amount <= outstanding
        /\ outstanding' = outstanding - amount
        /\ totalWithdrawn' = totalWithdrawn + amount
        /\ Send(to, amount)
        /\ UNCHANGED <<roles, registry, balance, withdrawn, received,
                       totalDistributed>>

PayOut(S, to) ==
    LET amount == Sum(BalancesOf(S), MaxNodes)
    IN  /\ ~entered
        /\ to # NoOne
        /\ amount > 0
        /\ \A id \in S : withdrawn[id] + balance[id] <= MaxUint128
        /\ amount <= outstanding
        /\ balance' = [id \in Ids |-> IF id \in S THEN 0 ELSE balance[id]]
        /\ withdrawn' = [id \in Ids |-> withdrawn[id] + BalancesOf(S)[id]]
        /\ outstanding' = outstanding - amount
        /\ totalWithdrawn' = totalWithdrawn + amount
        /\ Send(to, amount)
        /\ UNCHANGED <<roles, registry, received, totalDistributed>>

Withdraw(caller, id, to) ==
    /\ nodeOwner[id] = caller
    /\ PayOut({id}, to)

WithdrawAll(caller, to) == PayOut(owned[caller], to)

\* The mistake to reject: the owner may take all the ETH there is.
AllBalance == eth

FreeBalance == IF eth > outstanding THEN eth - outstanding ELSE 0

Rescue(caller, to, amount) ==
    /\ caller = owner
    /\ ~entered
    /\ to # NoOne
    /\ amount <= FreeBalance
    /\ Send(to, amount)
    /\ UNCHANGED <<roles, registry, money>>

\* The recipient returns, and with it the function that called it.
CallReturns ==
    /\ entered
    /\ entered' = FALSE
    /\ UNCHANGED <<roles, registry, money, eth>>

-----------------------------------------------------------------------------
(* Administration and funding *)

SetRelayer(caller, v) ==
    /\ caller = owner
    /\ v # NoOne
    /\ relayer' = v
    /\ UNCHANGED <<owner, pendingOwner, distributor, maxPerWallet, paused,
                   registry, money, entered, eth>>

SetDistributor(caller, v) ==
    /\ caller = owner
    /\ v # NoOne
    /\ distributor' = v
    /\ UNCHANGED <<owner, pendingOwner, relayer, maxPerWallet, paused,
                   registry, money, entered, eth>>

SetMaxPerWallet(caller, v) ==
    /\ caller = owner
    /\ v # 0 /\ v <= Ceiling
    /\ maxPerWallet' = v
    /\ UNCHANGED <<owner, pendingOwner, relayer, distributor, paused,
                   registry, money, entered, eth>>

SetPaused(caller, v) ==
    /\ caller = owner
    /\ paused' = v
    /\ UNCHANGED <<owner, pendingOwner, relayer, distributor, maxPerWallet,
                   registry, money, entered, eth>>

TransferOwnership(caller, v) ==
    /\ caller = owner
    /\ v # NoOne
    /\ pendingOwner' = v
    /\ UNCHANGED <<owner, relayer, distributor, maxPerWallet, paused,
                   registry, money, entered, eth>>

AcceptOwnership(caller) ==
    /\ caller = pendingOwner
    /\ owner' = caller
    /\ pendingOwner' = NoOne
    /\ UNCHANGED <<relayer, distributor, maxPerWallet, paused,
                   registry, money, entered, eth>>

\* fund() and receive().  ETH forced in without a call has the same effect.
Fund(value) ==
    /\ eth + value <= MaxWei                       \* bound
    /\ eth' = eth + value
    /\ UNCHANGED <<roles, registry, money, entered>>

-----------------------------------------------------------------------------

HolderStep(caller) ==
    \E to \in Addresses :
        \/ \E id \in Ids : Withdraw(caller, id, to)
        \/ WithdrawAll(caller, to)

OperatorStep(caller) ==
    \/ \E to \in Addresses, ref \in Refs \cup {NoRef} : MintFor(caller, to, ref)
    \/ \E batch \in [Ids -> 0..MaxUint128], value \in 0..MaxWei :
          CreditBatch(caller, batch, value)

OwnerStep(caller) ==
    \/ \E to \in Addresses, amount \in 0..MaxWei : Rescue(caller, to, amount)
    \/ \E v \in Addresses :
          \/ SetRelayer(caller, v)
          \/ SetDistributor(caller, v)
          \/ TransferOwnership(caller, v)
    \/ \E v \in 0..(Ceiling + 1) : SetMaxPerWallet(caller, v)
    \/ \E v \in BOOLEAN : SetPaused(caller, v)

Next ==
    \/ \E caller \in Accounts :
          HolderStep(caller) \/ OperatorStep(caller)
            \/ OwnerStep(caller) \/ AcceptOwnership(caller)
    \/ \E value \in 1..MaxWei : Fund(value)
    \/ CallReturns

Spec == Init /\ [][Next]_vars

-----------------------------------------------------------------------------
(* Properties *)

\* The ETH held covers every node balance, also while a recipient is being
\* paid and may call back in.
Solvent == eth >= outstanding

\* The three stored totals are what they are the totals of: `outstanding` is
\* kept by additions and subtractions in three functions, never recomputed.
TotalsAddUp ==
    /\ outstanding = Sum(balance, MaxNodes)
    /\ totalDistributed = Sum(received, MaxNodes)
    /\ totalWithdrawn = Sum(withdrawn, MaxNodes)

NodeLedger == \A id \in Ids : received[id] = balance[id] + withdrawn[id]

\* The nodes are 1..totalNodes; each is in the list of its owner and in no
\* other, so withdrawAll sweeps exactly the nodes withdraw accepts.
OwnersIndexed ==
    /\ \A id \in Ids : nodeOwner[id] # NoOne <=> id <= totalNodes
    /\ \A a \in Addresses \ {NoOne} :
          owned[a] = {id \in Ids : nodeOwner[id] = a}

\* What the contract keeps twice agrees: the totals with the nodes, every wei a
\* node ever received with its balance and its withdrawals, and the owners'
\* lists with the owners.
BooksAgree == TotalsAddUp /\ NodeLedger /\ OwnersIndexed

\* A holder is never locked out by arithmetic: no subtraction and no uint128
\* sum of a withdrawal reverts, and the ETH is there.
WithdrawalsFit ==
    \A a \in Accounts :
        /\ Sum(BalancesOf(owned[a]), MaxNodes) <= outstanding
        /\ Sum(BalancesOf(owned[a]), MaxNodes) <= eth
        /\ \A id \in Ids : withdrawn[id] + balance[id] <= MaxUint128

\* A payment backs at most one node, and the used refs are those of the nodes.
OneNodePerPayment ==
    /\ paymentRefUsed = {refOf[id] : id \in 1..totalNodes}
    /\ \A i, j \in 1..totalNodes : refOf[i] = refOf[j] => i = j

\* The sweep of withdrawAll is bounded whatever maxPerWallet was set to when.
SweepBounded == \A a \in Addresses : Cardinality(owned[a]) <= Ceiling

\* A node never changes hands and its history never shrinks.
NodesAreKept ==
    [][\A id \in 1..totalNodes :
         /\ nodeOwner'[id] = nodeOwner[id]
         /\ refOf'[id] = refOf[id]
         /\ received'[id] >= received[id]
         /\ withdrawn'[id] >= withdrawn[id]]_vars

\* The contract keeps the promise of NodeEscrow: ETH leaves it to settle whole
\* node balances or out of what no node has a claim on.
Escrow == INSTANCE NodeEscrow WITH claim <- balance, pot <- eth
KeepsEscrow == Escrow!Spec
=============================================================================
