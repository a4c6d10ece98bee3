----------------------------- MODULE MintRelay -----------------------------
(***************************************************************************)
(* The payments queue and the mint relay: from a recorded payment to a     *)
(* node on chain (src/lib/payments.ts, src/lib/mintRelay.ts, the payments  *)
(* cron and the administrator's actions on a payment).                     *)
(*                                                                         *)
(* One action is one database statement or transaction, or one call to the *)
(* chain; anything may happen between two of them.  Passes are the         *)
(* invocations of the cron route.  A payment is its place in the queue's   *)
(* order (block number, then id), and its hash is the payment ref.         *)
(***************************************************************************)
EXTENDS Naturals, Sequences, FiniteSets

CONSTANTS
    Payments,      \* transfers to the payments wallet
    Passes,        \* invocations of the cron route
    Buyer,         \* Buyer[p]: sender and tier of payment p
    Allowance,     \* nodes of one tier a wallet may buy
    MaxPerWallet,  \* the factory's own limit
    MaxAttempts,   \* MAX_MINT_ATTEMPTS
    BatchLimit,    \* WATCHER_MINT_BATCH
    Doubtful,      \* payments that may be refused for another reason than the allowance
    SlowPasses,    \* may a pass outlive WATCHER_STUCK_AFTER_SEC?
    Budget         \* how often each fault and each human action may happen

Human == {"refund", "requeue"}
Fault == {"crash", "lockLoss", "answer"}

ASSUME RelayAssumption ==
    /\ Payments \subseteq Nat \ {0}
    /\ IsFiniteSet(Payments)
    /\ MaxAttempts \in Nat \ {0}
    /\ BatchLimit \in Nat \ {0}
    /\ Allowance \in Nat
    /\ MaxPerWallet \in Nat
    /\ Doubtful \subseteq Payments
    /\ SlowPasses \in BOOLEAN
    /\ Budget \in [Human \union Fault -> Nat]

VARIABLES
    status, attempts, nodeId,  \* the payments table; status "none" is no row
    aged,                      \* rows whose updated_at is older than the stuck limit
    verdict,                   \* what decide() answered, not written yet
    nodes,                     \* payment refs of the factory's nodes, by node id
    sent,                      \* mintFor transactions handed to the network
    indexed,                   \* how many mint logs a log query returns
    open,                      \* does the factory take mintFor from our key?
    sched, ledger,             \* node ids with a timer, with a row in nodes
    pc, todo, row, tx, found,  \* per pass: place, claimed rows, row at hand, its transaction, its node
    lock,                      \* passes holding the advisory lock
    budget

table == <<status, attempts, nodeId, aged>>
chain == <<nodes, sent, indexed, open>>
book == <<sched, ledger>>
hand == <<row, tx, found>>
relay == <<pc, todo, row, tx, found, lock>>
vars == <<table, verdict, chain, book, relay, budget>>

Statuses == {"none", "seen", "minting", "minted", "failed", "manual_review", "refunded"}
Fates == {"pending", "ok", "reverted", "dropped"}
Inner == {"verify", "probe", "allow", "simulate", "send", "wait", "recheck",
          "resolve", "schedule", "ledger", "mark", "park"}
Places == {"off", "sweep", "claim", "authorise", "putback", "next", "fail"} \union Inner

Init ==
    /\ status = [p \in Payments |-> "none"]
    /\ attempts = [p \in Payments |-> 0]
    /\ nodeId = [p \in Payments |-> 0]
    /\ aged = {}
    /\ verdict = [p \in Payments |-> "none"]
    /\ nodes = <<>> /\ sent = <<>> /\ indexed = 0 /\ open = TRUE
    /\ sched = {} /\ ledger = {}
    /\ pc = [s \in Passes |-> "off"]
    /\ todo = [s \in Passes |-> {}]
    /\ row = [s \in Passes |-> 0]
    /\ tx = [s \in Passes |-> 0]
    /\ found = [s \in Passes |-> 0]
    /\ lock = {}
    /\ budget = Budget

Spend(what) ==
    /\ budget[what] > 0
    /\ budget' = [budget EXCEPT ![what] = @ - 1]

----------------------------------------------------------------------------
(* Statements on the payments table.  Each also renews updated_at.         *)

Write(p, st) ==
    /\ status' = [status EXCEPT ![p] = st]
    /\ aged' = aged \ {p}

MarkMintFailedForever(p) ==
    /\ Write(p, "failed")
    /\ UNCHANGED <<attempts, nodeId>>

MarkMintFailed(p) ==
    /\ Write(p, IF attempts[p] + 1 >= MaxAttempts THEN "manual_review" ELSE "failed")
    /\ attempts' = [attempts EXCEPT ![p] = @ + 1]
    /\ UNCHANGED nodeId

MarkManualReview(p) ==
    /\ Write(p, "manual_review")
    /\ UNCHANGED <<attempts, nodeId>>

MarkMinted(p, n) ==
    /\ Write(p, "minted")
    /\ nodeId' = [nodeId EXCEPT ![p] = n]
    /\ UNCHANGED attempts

ClaimableOrMinting == {p \in Payments :
    \/ status[p] \in {"seen", "minting"}
    \/ status[p] = "failed" /\ attempts[p] < MaxAttempts}

Claimable == {p \in Payments :
    \/ status[p] = "seen"
    \/ status[p] = "failed" /\ attempts[p] < MaxAttempts}

\* The oldest claimable rows, at most BatchLimit of them.
Batch(c) ==
    /\ c \subseteq Claimable
    /\ \A p \in c, q \in Claimable \ c : p < q
    /\ c = Claimable \/ Cardinality(c) = BatchLimit
    /\ Cardinality(c) <= BatchLimit

----------------------------------------------------------------------------
(* Discovery, adoption and the administrator.                              *)

\* tierUsageFor: everything of this buyer and tier that was not refused.
Usage(p) == {q \in Payments :
    Buyer[q] = Buyer[p] /\ status[q] \in {"seen", "minting", "failed", "minted"}}

\* The watcher's verify, adoptPayment or the requeue action judge a payment.
Decide(p) ==
    /\ verdict[p] = "none"
    /\ \E v \in {"seen", "manual_review"} :
        /\ v = "seen" => Cardinality(Usage(p)) < Allowance
        /\ v = "manual_review" =>
             Cardinality(Usage(p)) >= Allowance \/ p \in Doubtful
        /\ verdict' = [verdict EXCEPT ![p] = v]
    /\ UNCHANGED <<table, chain, book, relay, budget>>

\* recordSeen: a hash already held is left alone.
Record(p) ==
    /\ verdict[p] # "none"
    /\ IF status[p] = "none"
       THEN Write(p, verdict[p])
       ELSE UNCHANGED <<status, aged>>
    /\ verdict' = [verdict EXCEPT ![p] = "none"]
    /\ UNCHANGED <<attempts, nodeId, chain, book, relay, budget>>

RequeueAny(p) ==
    /\ verdict[p] # "none" /\ status[p] # "none"
    /\ Spend("requeue")
    /\ Write(p, verdict[p])
    /\ attempts' = [attempts EXCEPT ![p] = 0]
    /\ verdict' = [verdict EXCEPT ![p] = "none"]
    /\ UNCHANGED <<nodeId, chain, book, relay>>

\* requeuePayment: a parked row goes back on the verdict just computed.
Requeue(p) ==
    /\ verdict[p] # "none"
    /\ status[p] \in {"manual_review", "failed"}
    /\ Spend("requeue")
    /\ Write(p, verdict[p])
    /\ attempts' = [attempts EXCEPT ![p] = 0]
    /\ verdict' = [verdict EXCEPT ![p] = "none"]
    /\ UNCHANGED <<nodeId, chain, book, relay>>

\* markRefunded: its ALTER TABLE locks the table, so it is one step.
Refund(p) ==
    /\ status[p] \notin {"minted", "refunded"}
    /\ Spend("refund")
    /\ Write(p, "refunded")
    /\ UNCHANGED <<attempts, nodeId, verdict, chain, book, relay>>

\* recordMintedNodes for a node another path found: the reconciler or nodes/sync.
Reconcile(n) ==
    /\ n \in 1..Len(nodes)
    /\ ledger' = ledger \union {n}
    /\ sched' = sched \union {n}
    /\ UNCHANGED <<table, verdict, chain, relay, budget>>

\* Five minutes pass over a row in `minting`.
Age(p) ==
    /\ status[p] = "minting" /\ p \notin aged
    /\ SlowPasses \/ \A s \in Passes : p \notin todo[s]
    /\ aged' = aged \union {p}
    /\ UNCHANGED <<status, attempts, nodeId, verdict, chain, book, relay, budget>>

----------------------------------------------------------------------------
(* The chain.                                                              *)

RefUsed(p) == \E n \in 1..Len(nodes) : nodes[n] = p
NodesOf(p) == {n \in 1..Len(nodes) : Buyer[nodes[n]][1] = Buyer[p][1]}
WalletFull(p) == Cardinality(NodesOf(p)) >= MaxPerWallet

MineAnyRef(t) ==
    /\ t \in 1..Len(sent) /\ sent[t].fate = "pending"
    /\ LET p == sent[t].ref
           takes == open /\ ~WalletFull(p)
       IN  /\ nodes' = IF takes THEN Append(nodes, p) ELSE nodes
           /\ sent' = [sent EXCEPT ![t].fate = IF takes THEN "ok" ELSE "reverted"]
    /\ UNCHANGED <<table, verdict, indexed, open, book, relay, budget>>

\* mintFor is executed: it reverts or it makes the next node.
Mine(t) ==
    /\ t \in 1..Len(sent) /\ sent[t].fate = "pending"
    /\ LET p == sent[t].ref
           takes == open /\ ~RefUsed(p) /\ ~WalletFull(p)
       IN  /\ nodes' = IF takes THEN Append(nodes, p) ELSE nodes
           /\ sent' = [sent EXCEPT ![t].fate = IF takes THEN "ok" ELSE "reverted"]
    /\ UNCHANGED <<table, verdict, indexed, open, book, relay, budget>>

\* The network forgets the transaction, or another one takes its nonce.
Drop(t) ==
    /\ t \in 1..Len(sent) /\ sent[t].fate = "pending"
    /\ sent' = [sent EXCEPT ![t].fate = "dropped"]
    /\ UNCHANGED <<table, verdict, nodes, indexed, open, book, relay, budget>>

\* The log index catches up by one node.
Surface ==
    /\ indexed < Len(nodes)
    /\ indexed' = indexed + 1
    /\ UNCHANGED <<table, verdict, nodes, sent, open, book, relay, budget>>

\* The factory's owner pauses it or moves the relayer role, or undoes that.
OpenOrClose ==
    /\ open' = ~open
    /\ UNCHANGED <<table, verdict, nodes, sent, indexed, book, relay, budget>>

----------------------------------------------------------------------------
(* A pass of the cron, up to the first row.                                *)

At(s, l) == pc[s] = l
Goto(s, l) == pc' = [pc EXCEPT ![s] = l]

\* The pass is over: its claims are forgotten, its lock (if it still has it) released.
Quit(s) ==
    /\ Goto(s, "off")
    /\ todo' = [todo EXCEPT ![s] = {}]
    /\ row' = [row EXCEPT ![s] = 0]
    /\ tx' = [tx EXCEPT ![s] = 0]
    /\ found' = [found EXCEPT ![s] = 0]
    /\ lock' = lock \ {s}

Start(s) ==
    /\ At(s, "off") /\ lock = {}
    /\ lock' = {s}
    /\ Goto(s, "sweep")
    /\ UNCHANGED <<table, verdict, chain, book, todo, hand, budget>>

SweepNothing(s) ==
    /\ At(s, "sweep")
    /\ Goto(s, "claim")
    /\ UNCHANGED <<table, verdict, chain, book, todo, hand, lock, budget>>

\* requeueStuckMinting
Sweep(s) ==
    /\ At(s, "sweep")
    /\ status' = [p \in Payments |->
                    IF status[p] = "minting" /\ p \in aged THEN "failed" ELSE status[p]]
    /\ aged' = {}
    /\ Goto(s, "claim")
    /\ UNCHANGED <<attempts, nodeId, verdict, chain, book, todo, hand, lock, budget>>

\* claimForMinting
Claim(s) ==
    /\ At(s, "claim")
    /\ \E c \in SUBSET Payments :
        /\ Batch(c)
        /\ IF c = {}
           THEN Quit(s) /\ UNCHANGED <<status, aged>>
           ELSE /\ status' = [p \in Payments |-> IF p \in c THEN "minting" ELSE status[p]]
                /\ aged' = aged \ c
                /\ todo' = [todo EXCEPT ![s] = c]
                /\ Goto(s, "authorise")
                /\ UNCHANGED <<hand, lock>>
    /\ UNCHANGED <<attempts, nodeId, verdict, chain, book, budget>>

\* relayerIsAuthorised; a factory that is only paused passes it.
Authorise(s) ==
    /\ At(s, "authorise")
    /\ \/ Goto(s, "next")
       \/ ~open /\ Goto(s, "putback")
    /\ UNCHANGED <<table, verdict, chain, book, todo, hand, lock, budget>>

PutBack(s) ==
    /\ At(s, "putback")
    /\ \/ \E p \in todo[s] :
            /\ MarkMintFailed(p)
            /\ todo' = [todo EXCEPT ![s] = @ \ {p}]
            /\ UNCHANGED <<pc, hand, lock>>
       \/ /\ todo[s] = {} /\ Quit(s)
          /\ UNCHANGED table
    /\ UNCHANGED <<verdict, chain, book, budget>>

\* The loop takes a claimed row; RETURNING promises no order.
Pick(s) ==
    /\ At(s, "next")
    /\ \E p \in todo[s] : row' = [row EXCEPT ![s] = p]
    /\ Goto(s, "verify")
    /\ UNCHANGED <<table, verdict, chain, book, todo, tx, found, lock, budget>>

\* No row is left, or the deadline has passed and the rest stays in `minting`.
Finish(s) ==
    /\ At(s, "next")
    /\ Quit(s)
    /\ UNCHANGED <<table, verdict, chain, book, budget>>

----------------------------------------------------------------------------
(* mintOne                                                                 *)

Step(s, from, to) ==
    /\ At(s, from)
    /\ Goto(s, to)
    /\ UNCHANGED <<table, verdict, book, todo, lock, budget>>

RowDone(s) ==
    /\ Goto(s, "next")
    /\ todo' = [todo EXCEPT ![s] = @ \ {row[s]}]
    /\ row' = [row EXCEPT ![s] = 0]
    /\ tx' = [tx EXCEPT ![s] = 0]
    /\ found' = [found EXCEPT ![s] = 0]
    /\ UNCHANGED <<verdict, chain, lock, budget>>

\* verifyPayment: in order, not visible yet, or not a sale any more.
Verify(s) ==
    /\ \/ Step(s, "verify", "probe")
       \/ Step(s, "verify", "fail")
       \/ row[s] \in Doubtful /\ Step(s, "verify", "park")
    /\ UNCHANGED <<chain, hand>>

\* paymentRefUsed
Probe(s) ==
    /\ Step(s, "probe", IF RefUsed(row[s]) THEN "resolve" ELSE "allow")
    /\ UNCHANGED <<chain, hand>>

AllowAll(s) ==
    /\ Step(s, "allow", "simulate")
    /\ UNCHANGED <<chain, hand>>

\* The allowance again; the payment at hand is one of those counted.
Allow(s) ==
    /\ Step(s, "allow",
            IF Cardinality(Usage(row[s])) > Allowance THEN "park" ELSE "simulate")
    /\ UNCHANGED <<chain, hand>>

\* simulateContract, the custom errors in the order mintFor raises them.
Simulate(s) ==
    /\ Step(s, "simulate",
            IF ~open THEN "fail"
            ELSE IF RefUsed(row[s]) THEN "resolve"
            ELSE IF WalletFull(row[s]) THEN "park" ELSE "send")
    /\ UNCHANGED <<chain, hand>>

\* writeContract
Send(s) ==
    /\ Step(s, "send", "wait")
    /\ sent' = Append(sent, [ref |-> row[s], fate |-> "pending"])
    /\ tx' = [tx EXCEPT ![s] = Len(sent) + 1]
    /\ UNCHANGED <<nodes, indexed, open, row, found>>

\* A receipt arrives: the node's id is read from its log, or it had reverted.
Receipt(s) ==
    /\ tx[s] # 0
    /\ \/ /\ sent[tx[s]].fate = "ok"
          /\ Step(s, "wait", "schedule")
          /\ \E n \in 1..Len(nodes) :
                nodes[n] = row[s] /\ found' = [found EXCEPT ![s] = n]
       \/ /\ sent[tx[s]].fate = "reverted"
          /\ Step(s, "wait", "recheck")
          /\ UNCHANGED found
    /\ UNCHANGED <<chain, row, tx>>

Recheck(s) ==
    /\ Step(s, "recheck", IF RefUsed(row[s]) THEN "resolve" ELSE "fail")
    /\ UNCHANGED <<chain, hand>>

ResolveUnknown(s) ==
    /\ Step(s, "resolve", "schedule")
    /\ UNCHANGED <<chain, hand>>

ResolveByOwner(s) ==
    /\ At(s, "resolve")
    /\ \/ \E n \in NodesOf(row[s]) :
            /\ n <= indexed
            /\ Step(s, "resolve", "schedule")
            /\ found' = [found EXCEPT ![s] = n]
       \/ /\ \A n \in NodesOf(row[s]) : n > indexed
          /\ Step(s, "resolve", "fail")
          /\ UNCHANGED found
    /\ UNCHANGED <<chain, row, tx>>

\* resolveAlreadyMinted: the node is in the buyer's mint logs, or not yet.
Resolve(s) ==
    /\ \/ \E n \in 1..indexed :
            /\ nodes[n] = row[s]
            /\ Step(s, "resolve", "schedule")
            /\ found' = [found EXCEPT ![s] = n]
       \/ /\ \A n \in 1..indexed : nodes[n] # row[s]
          /\ Step(s, "resolve", "fail")
          /\ UNCHANGED found
    /\ UNCHANGED <<chain, row, tx>>

\* settle: the timer, the ledger row (with a timer), then the payment.
ScheduleNode(s) ==
    /\ At(s, "schedule") /\ Goto(s, "ledger")
    /\ sched' = sched \union {found[s]}
    /\ UNCHANGED <<table, verdict, chain, ledger, todo, hand, lock, budget>>

RecordNodeLater(s) ==
    /\ At(s, "ledger") /\ Goto(s, "mark")
    /\ UNCHANGED <<table, verdict, chain, book, todo, hand, lock, budget>>

RecordNode(s) ==
    /\ At(s, "ledger") /\ Goto(s, "mark")
    /\ ledger' = ledger \union {found[s]}
    /\ sched' = sched \union {found[s]}
    /\ UNCHANGED <<table, verdict, chain, todo, hand, lock, budget>>

Mark(s) ==
    /\ At(s, "mark")
    /\ MarkMinted(row[s], found[s])
    /\ RowDone(s)
    /\ UNCHANGED book

Park(s) ==
    /\ At(s, "park")
    /\ MarkManualReview(row[s])
    /\ RowDone(s)
    /\ UNCHANGED book

FailRow(s) ==
    /\ At(s, "fail")
    /\ MarkMintFailed(row[s])
    /\ RowDone(s)
    /\ UNCHANGED book

\* Any call of mintOne may throw; a receipt that does not come in time does.
Throw(s) ==
    /\ pc[s] \in Inner
    /\ Goto(s, "fail")
    /\ UNCHANGED <<table, verdict, chain, book, todo, hand, lock, budget>>

----------------------------------------------------------------------------
(* Faults.                                                                 *)

\* The process dies or is killed, or a call outside mintOne throws.
Crash(s) ==
    /\ pc[s] # "off"
    /\ Spend("crash")
    /\ Quit(s)
    /\ UNCHANGED <<table, verdict, chain, book>>

\* markMinted is committed and its answer lost: the catch takes it for a failure.
MarkUnheard(s) ==
    /\ At(s, "mark")
    /\ Spend("answer")
    /\ MarkMinted(row[s], found[s])
    /\ Goto(s, "fail")
    /\ UNCHANGED <<verdict, chain, book, todo, hand, lock>>

\* The connection that holds the lock dies, the pass goes on over others.
LoseLock(s) ==
    /\ s \in lock
    /\ Spend("lockLoss")
    /\ lock' = {}
    /\ UNCHANGED <<table, verdict, chain, book, pc, todo, hand>>

----------------------------------------------------------------------------
Queue(s) == Sweep(s) \/ Claim(s) \/ Authorise(s) \/ PutBack(s) \/ Pick(s) \/ Finish(s)
MintOne(s) ==
    \/ Verify(s) \/ Probe(s) \/ Allow(s) \/ Simulate(s) \/ Send(s) \/ Receipt(s)
    \/ Recheck(s) \/ Resolve(s) \/ ScheduleNode(s) \/ RecordNode(s) \/ Mark(s)
    \/ Park(s) \/ FailRow(s) \/ Throw(s)
Desk(p) == Decide(p) \/ Record(p) \/ Requeue(p) \/ Refund(p) \/ Age(p)
Network ==
    \/ \E t \in 1..Len(sent) : Mine(t) \/ Drop(t)
    \/ \E n \in 1..Len(nodes) : Reconcile(n)
    \/ Surface \/ OpenOrClose

Next ==
    \/ \E s \in Passes : Start(s) \/ Queue(s) \/ MintOne(s) \/ Crash(s) \/ MarkUnheard(s) \/ LoseLock(s)
    \/ \E p \in Payments : Desk(p)
    \/ Network

\* The scheduler calls the route every minute; a started pass goes on, its
\* calls answer or time out; time passes over unattended rows; and the budget
\* of a pass, a tenth of a minute at least, again and again suffices for a row.
Fairness ==
    /\ WF_vars(\E s \in Passes : Start(s))
    /\ \A s \in Passes : WF_vars(Queue(s) \/ MintOne(s))
    /\ SF_vars(\E s \in Passes : Pick(s))
    /\ \A p \in Payments : WF_vars(Age(p))

Spec == Init /\ [][Next]_vars
FairSpec == Spec /\ Fairness
----------------------------------------------------------------------------
(* Properties.                                                             *)

TableType ==
    /\ status \in [Payments -> Statuses]
    /\ attempts \in [Payments -> Nat]
    /\ nodeId \in [Payments -> Nat]
    /\ aged \subseteq Payments
    /\ verdict \in [Payments -> {"none", "seen", "manual_review"}]
ChainType ==
    /\ nodes \in Seq(Payments)
    /\ sent \in Seq([ref : Payments, fate : Fates])
    /\ indexed \in 0..Len(nodes)
    /\ open \in BOOLEAN
BookType == sched \subseteq 1..Len(nodes) /\ ledger \subseteq 1..Len(nodes)
RelayType ==
    /\ pc \in [Passes -> Places]
    /\ todo \in [Passes -> SUBSET Payments]
    /\ row \in [Passes -> Payments \union {0}]
    /\ tx \in [Passes -> 0..Len(sent)]
    /\ found \in [Passes -> 0..Len(nodes)]
    /\ lock \subseteq Passes
BudgetType ==
    /\ budget \in [Human \union Fault -> Nat]
    /\ \A what \in Human \union Fault : budget[what] <= Budget[what]

\* Every variable keeps its type: in particular timers and ledger rows are
\* only ever made for nodes the factory has.
TypeOK == TableType /\ ChainType /\ BookType /\ RelayType /\ BudgetType

\* The claim, the lock and the stuck limit together give each row to one pass:
\* two passes never hold the same row, and a row a pass holds is `minting`,
\* or was refunded meanwhile, or the pass is about to call a minted row failed
\* (claimForMinting, requeueStuckMinting and the catch of runMintRelay).
Unheard(s, p) == status[p] = "minted" /\ At(s, "fail") /\ row[s] = p
RowsHeldOnce ==
    /\ \A s, t \in Passes : s # t => todo[s] \intersect todo[t] = {}
    /\ \A s \in Passes : \A p \in todo[s] : status[p] \in {"minting", "refunded"} \/ Unheard(s, p)

\* A payment marked minted has its own node: the node on chain that carries its
\* hash, which by then has a timer and a row in the ledger.  This is what the
\* order of settle is for, across crashes and lost receipts (mintRelay.ts).
MintedIsBacked == \A p \in Payments :
    /\ status[p] = "minted" => nodeId[p] # 0
    /\ nodeId[p] # 0 =>
         /\ nodeId[p] <= Len(nodes) /\ nodes[nodeId[p]] = p
         /\ nodeId[p] \in ledger /\ nodeId[p] \in sched

Unheld(p) == \A s \in Passes : p \notin todo[s]

\* A payment never names another node than the first it named, though it may
\* be minted and marked again; and once it is marked minted and no pass holds
\* it, no pass, sweep, requeue or refund takes that back (payments.ts).
MintedStays == [][\A p \in Payments :
    /\ nodeId[p] # 0 => nodeId'[p] = nodeId[p]
    /\ status[p] = "minted" /\ Unheld(p) => status'[p] = "minted" /\ Unheld(p)']_vars

UnderWay(p) == \E t \in 1..Len(sent) : sent[t].ref = p /\ sent[t].fate = "pending"

\* A refund of a payment no pass is working on is terminal: whatever claims,
\* sweeps, requeues and repeated sightings follow, it stays refunded and no pass
\* takes it up, and unless a mint was under way already no node is made for it.
IdleRefundsStay == [][\A p \in Payments :
    status[p] = "refunded" /\ Unheld(p) =>
        /\ status'[p] = "refunded" /\ Unheld(p)'
        /\ ~UnderWay(p) => ~UnderWay(p)' /\ (RefUsed(p)' => RefUsed(p))]_vars

\* The two final statuses are final once no pass holds the row.
FinalStays == MintedStays /\ IdleRefundsStay

\* The nodes one buyer gets in one tier, those of mints still under way included,
\* stay within the allowance, however the discoveries, passes, retries and late
\* mints of that buyer's payments interleave: a node beyond it is always that of
\* a row parked for a human.  Such a row has no place in the count although its
\* mint may be under way (tiers.ts:306 expects no node of it).  This is so until
\* the administrator steps in: a refund or a requeue takes a row out of the
\* count, or back into it, with its mint under way.
NoHands == \A what \in Human : budget[what] = Budget[what]
Sold(p) == {q \in Payments : Buyer[q] = Buyer[p] /\ (RefUsed(q) \/ UnderWay(q))}
AllowanceKept == NoHands => \A p \in Payments :
    Cardinality({q \in Sold(p) : status[q] # "manual_review"}) <= Allowance

\* The relay implements the sale.
Sale == INSTANCE NodeSale WITH
    taken <- {p \in Payments : status[p] # "none"},
    delivered <- nodes,
    said <- {p \in Payments : nodeId[p] # 0}
KeepsSale == Sale!SaleSpec

\* Every recorded payment is minted, parked for a human or refunded in the end.
EverySaleEnds == \A p \in Payments :
    status[p] # "none" ~> status[p] \in {"minted", "manual_review", "refunded"}

\* What payments.ts says of `refunded`: terminal, no pass may ever turn one
\* into a node.
RefundIsTerminal == [][\A p \in Payments :
    status[p] = "refunded" => status'[p] = "refunded"]_vars

\* What a requeue is for: a failed payment nothing is wrong with, of a buyer
\* within the allowance, goes back in front of the minting pass.
RequeueHelps == [][\A p \in Payments :
    /\ status[p] = "failed" /\ status'[p] = "manual_review" /\ attempts'[p] = 0
    /\ p \notin Doubtful
    => Cardinality(Usage(p)) > Allowance]_vars
=============================================================================
