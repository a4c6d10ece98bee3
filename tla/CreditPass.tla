----------------------------- MODULE CreditPass -----------------------------
(***************************************************************************)
(* The credit pass: ETH is put on the balances of the nodes whose timer    *)
(* has come up (src/lib/credit.ts, src/lib/schedule.ts, src/worker).       *)
(*                                                                         *)
(* A driver is whatever calls creditTick: the worker's loop or the cron    *)
(* route.  One action is one database statement or transaction, or one     *)
(* call to the chain.  A transaction's number is used again once the       *)
(* transaction is over, booked and older than a day, so that the system    *)
(* runs for ever on finitely many numbers.                                 *)
(***************************************************************************)
EXTENDS Naturals, FiniteSets, Sums

CONSTANTS
    Nodes,        \* ids with a row in node_schedule
    Inert,        \* those of them that are not active nodes the contract knows
    Drivers,      \* callers of creditTick
    BatchLimit,   \* MAX_NODES_PER_TICK
    MinAmount,    \* what one node may be given, its tier's multiplier included
    MaxAmount,
    DailyCap,     \* DIST_DAILY_CAP_WEI
    MaxTxs,       \* creditBatch transactions alive at a time
    Budget        \* how often each fault may happen

\* skip: a refusal that moves no timer, or a creditBatch that did not work
\* lost: the answer of writeContract or the receipt does not come
\* book, salvage, warn: the ledger write, its substitute, its alert fail
Fault == {"skip", "lost", "book", "salvage", "warn", "crash", "lockLoss"}

Txs == 1..MaxTxs

ASSUME CreditAssumption ==
    /\ IsFiniteSet(Nodes)
    /\ Inert \subseteq Nodes
    /\ BatchLimit \in Nat \ {0}
    /\ MinAmount \in Nat \ {0}
    /\ MaxAmount \in Nat /\ MinAmount <= MaxAmount
    /\ DailyCap \in Nat
    /\ MaxTxs \in Nat
    /\ Budget \in [Fault -> Nat]

VARIABLES
    due,       \* nodes whose next_credit_at has passed
    ahead,     \* for a due node, the nodes that are due for longer
    times,     \* credits a node got since its timer last came up, 2 for more
    sent,      \* creditBatch transactions handed to the network
    chainDay,  \* those mined in the last 24 hours
    ledger,    \* those with a distribution and its credits
    ledgerDay, \* those whose credits rows are younger than 24 hours
    alert,     \* the transaction the open credit_unrecorded alert names
    pc, batch, tx,  \* per driver: place, nodes and wei of its batch, its transaction
    lock,      \* drivers holding the advisory lock
    budget

schedule == <<due, ahead>>
chain == <<times, sent, chainDay>>
book == <<ledger, ledgerDay, alert>>
drive == <<pc, batch, tx, lock>>
vars == <<schedule, chain, book, drive, budget>>

Fates == {"none", "pending", "ok", "dead"}
Sending == {"wait", "book", "salvage", "warn", "clear"}
Places == {"off", "look", "chain", "rails", "defer", "send"} \union Sending

NoBatch == [nodes |-> {}, wei |-> 0]

Init ==
    /\ due = {} /\ ahead = [n \in Nodes |-> {}]
    /\ times = [n \in Nodes |-> 0]
    /\ sent = [t \in Txs |-> [nodes |-> {}, wei |-> 0, fate |-> "none"]]
    /\ chainDay = {} /\ ledger = {} /\ ledgerDay = {} /\ alert = {}
    /\ pc = [d \in Drivers |-> "off"]
    /\ batch = [d \in Drivers |-> NoBatch]
    /\ tx = [d \in Drivers |-> 0]
    /\ lock = {}
    /\ budget = Budget

Spend(what) ==
    /\ budget[what] > 0
    /\ budget' = [budget EXCEPT ![what] = @ - 1]

Unspent(what) == budget[what] = Budget[what]

----------------------------------------------------------------------------
(* The schedule.                                                           *)

\* The clock reaches a node's next_credit_at.
Come(n) ==
    /\ n \notin due
    /\ due' = due \union {n}
    /\ ahead' = [ahead EXCEPT ![n] = due]
    /\ times' = [times EXCEPT ![n] = 0]
    /\ UNCHANGED <<sent, chainDay, book, drive, budget>>

NewestFirst == {n \in due : Cardinality({m \in due : n \in ahead[m]}) < BatchLimit}

\* dueNodes: the longest due, at most BatchLimit of them.
DueNodes == {n \in due : Cardinality(ahead[n]) < BatchLimit}

\* advanceSchedules and deferAll: these timers lie in the future again.
Postpone(ns) ==
    /\ due' = due \ ns
    /\ ahead' = [n \in Nodes |-> IF n \in ns THEN {} ELSE ahead[n] \ ns]

----------------------------------------------------------------------------
(* The chain.                                                              *)

\* creditBatch is executed.
Mine(t) ==
    /\ sent[t].fate = "pending"
    /\ sent' = [sent EXCEPT ![t].fate = "ok"]
    /\ chainDay' = chainDay \union {t}
    /\ times' = [n \in Nodes |->
                   IF n \in sent[t].nodes /\ times[n] < 2 THEN times[n] + 1 ELSE times[n]]
    /\ UNCHANGED <<schedule, book, drive, budget>>

\* It reverts, or the network forgets it or lets another one take its nonce.
Die(t) ==
    /\ sent[t].fate = "pending"
    /\ Spend("skip")
    /\ sent' = [sent EXCEPT ![t].fate = "dead"]
    /\ UNCHANGED <<schedule, times, chainDay, book, drive>>

\* A day passes over a transaction, and over its credits rows, which are younger.
ChainDayOver(t) ==
    /\ t \in chainDay
    /\ chainDay' = chainDay \ {t}
    /\ UNCHANGED <<schedule, times, sent, book, drive, budget>>

LedgerDayOver(t) ==
    /\ t \in ledgerDay /\ t \notin chainDay
    /\ ledgerDay' = ledgerDay \ {t}
    /\ UNCHANGED <<schedule, chain, ledger, alert, drive, budget>>

\* A number no transaction in use has.
Free(t) ==
    /\ \A d \in Drivers : tx[d] # t
    /\ \/ sent[t].fate \in {"none", "dead"}
       \/ t \in ledger /\ t \notin ledgerDay /\ t \notin chainDay

----------------------------------------------------------------------------
(* The pass, up to the chain call.                                         *)

At(d, l) == pc[d] = l
Goto(d, l) == pc' = [pc EXCEPT ![d] = l]

Quit(d) ==
    /\ Goto(d, "off")
    /\ batch' = [batch EXCEPT ![d] = NoBatch]
    /\ tx' = [tx EXCEPT ![d] = 0]
    /\ lock' = lock \ {d}

\* The loop wakes up, or the scheduler calls: creditTick under the lock.
Start(d) ==
    /\ At(d, "off") /\ lock = {}
    /\ lock' = {d}
    /\ Goto(d, "look")
    /\ UNCHANGED <<schedule, chain, book, batch, tx, budget>>

\* Settings allow it and nodes are due; if none are, the pass is over.
Look(d) ==
    /\ At(d, "look")
    /\ IF DueNodes = {}
       THEN Quit(d)
       ELSE /\ batch' = [batch EXCEPT ![d] = [nodes |-> DueNodes, wei |-> 0]]
            /\ Goto(d, "chain")
            /\ UNCHANGED <<tx, lock>>
    /\ UNCHANGED <<schedule, chain, book, budget>>

\* Switched off, chain unreadable, wrong distributor: no timer moves.
Skip(d) ==
    /\ pc[d] \in {"look", "chain"}
    /\ Spend("skip")
    /\ Quit(d)
    /\ UNCHANGED <<schedule, chain, book>>

\* Inert ids are left out of the batch.
Creditable(d) == batch[d].nodes \ Inert

ReadChainEmpty(d) ==
    /\ At(d, "chain")
    /\ \/ Goto(d, "defer") /\ UNCHANGED batch
       \/ /\ batch' = [batch EXCEPT ![d] = [nodes |-> Creditable(d),
                                            wei |-> Cardinality(Creditable(d)) * MinAmount]]
          /\ Goto(d, "rails")
    /\ UNCHANGED <<schedule, chain, book, tx, lock, budget>>

\* What the factory says: it is paused, or the batch is put together.
ReadChain(d) ==
    /\ At(d, "chain")
    /\ \/ Goto(d, "defer") /\ UNCHANGED <<batch, tx, lock>>
       \/ /\ Creditable(d) # {}
          /\ LET k == Cardinality(Creditable(d))
             IN  \E w \in (k * MinAmount)..(k * MaxAmount) :
                    batch' = [batch EXCEPT ![d] = [nodes |-> Creditable(d), wei |-> w]]
          /\ Goto(d, "rails")
          /\ UNCHANGED <<tx, lock>>
       \/ Creditable(d) = {} /\ Quit(d)
    /\ UNCHANGED <<schedule, chain, book, budget>>

\* credited24h
Credited24h == Sum([t \in Txs |-> IF t \in ledgerDay THEN sent[t].wei ELSE 0], MaxTxs)

RailsOnPast(d) ==
    /\ At(d, "rails")
    /\ \/ Goto(d, "defer")
       \/ Credited24h <= DailyCap /\ Goto(d, "send")
    /\ UNCHANGED <<schedule, chain, book, batch, tx, lock, budget>>

\* checkRails: insolvent, over the daily cap, short of float, or allowed.
Rails(d) ==
    /\ At(d, "rails")
    /\ \/ Goto(d, "defer")
       \/ Credited24h + batch[d].wei <= DailyCap /\ Goto(d, "send")
    /\ UNCHANGED <<schedule, chain, book, batch, tx, lock, budget>>

DeferAll(d) ==
    /\ At(d, "defer")
    /\ Postpone(due)
    /\ Quit(d)
    /\ UNCHANGED <<chain, book, budget>>

----------------------------------------------------------------------------
(* The chain call, and the ledger only then.                               *)

\* simulateContract and writeContract; an id the contract does not know makes
\* the simulation fail, and so may anything else.
Send(d) ==
    /\ At(d, "send")
    /\ \/ /\ batch[d].nodes \intersect Inert = {}
          /\ \E t \in Txs :
               /\ Free(t)
               /\ sent' = [sent EXCEPT ![t] = [nodes |-> batch[d].nodes,
                                               wei |-> batch[d].wei, fate |-> "pending"]]
               /\ ledger' = ledger \ {t}
               /\ \/ /\ tx' = [tx EXCEPT ![d] = t]
                     /\ Goto(d, "wait")
                     /\ UNCHANGED <<batch, lock, budget>>
                  \/ Spend("lost") /\ Quit(d)
       \/ /\ batch[d].nodes \intersect Inert # {}
          /\ Quit(d)
          /\ UNCHANGED <<sent, ledger, budget>>
       \/ /\ Spend("skip")
          /\ Quit(d)
          /\ UNCHANGED <<sent, ledger>>
    /\ UNCHANGED <<schedule, times, chainDay, ledgerDay, alert>>

WaitOrGoOn(d) ==
    /\ At(d, "wait")
    /\ \/ Goto(d, "book") /\ UNCHANGED <<batch, tx, lock, budget>>
       \/ sent[tx[d]].fate = "dead" /\ Quit(d) /\ UNCHANGED budget
    /\ UNCHANGED <<schedule, chain, book>>

WaitAndSalvage(d) ==
    /\ At(d, "wait")
    /\ \/ /\ sent[tx[d]].fate = "ok" /\ Goto(d, "book")
          /\ UNCHANGED <<batch, tx, lock, budget>>
       \/ sent[tx[d]].fate = "dead" /\ Quit(d) /\ UNCHANGED budget
       \/ /\ Spend("lost") /\ Goto(d, "salvage")
          /\ UNCHANGED <<batch, tx, lock>>
    /\ UNCHANGED <<schedule, chain, book>>

\* waitForTransactionReceipt: mined, reverted (a throw), or timed out (a throw).
Wait(d) ==
    /\ At(d, "wait")
    /\ \/ /\ sent[tx[d]].fate = "ok" /\ Goto(d, "book")
          /\ UNCHANGED <<batch, tx, lock, budget>>
       \/ sent[tx[d]].fate = "dead" /\ Quit(d) /\ UNCHANGED budget
       \/ Spend("lost") /\ Quit(d)
    /\ UNCHANGED <<schedule, chain, book>>

\* The transaction that writes the distribution and its credits and moves the
\* timers; it may fail as a whole.
Book(d) ==
    /\ At(d, "book")
    /\ \/ /\ ledger' = ledger \union {tx[d]}
          /\ ledgerDay' = ledgerDay \union {tx[d]}
          /\ Postpone(batch[d].nodes)
          /\ Goto(d, "clear")
          /\ UNCHANGED budget
       \/ /\ Spend("book")
          /\ Goto(d, "salvage")
          /\ UNCHANGED <<ledger, ledgerDay, schedule>>
    /\ UNCHANGED <<chain, alert, batch, tx, lock>>

SalvageNothing(d) ==
    /\ At(d, "salvage")
    /\ Goto(d, "warn")
    /\ UNCHANGED <<schedule, chain, book, batch, tx, lock, budget>>

\* salvageSchedules
Salvage(d) ==
    /\ At(d, "salvage")
    /\ \/ Postpone(batch[d].nodes) /\ UNCHANGED budget
       \/ Spend("salvage") /\ UNCHANGED schedule
    /\ Goto(d, "warn")
    /\ UNCHANGED <<chain, book, batch, tx, lock>>

\* raiseAlert("credit_unrecorded"): one open row, refreshed in place.
Warn(d) ==
    /\ At(d, "warn")
    /\ \/ alert' = {tx[d]} /\ UNCHANGED budget
       \/ Spend("warn") /\ UNCHANGED alert
    /\ Quit(d)
    /\ UNCHANGED <<schedule, chain, ledger, ledgerDay>>

\* clearAlert("credit_unrecorded"), after a pass that was recorded.
Clear(d) ==
    /\ At(d, "clear")
    /\ alert' = {}
    /\ Quit(d)
    /\ UNCHANGED <<schedule, chain, ledger, ledgerDay, budget>>

----------------------------------------------------------------------------
\* The process dies, or throws where nothing catches.
Crash(d) ==
    /\ pc[d] # "off"
    /\ Spend("crash")
    /\ Quit(d)
    /\ UNCHANGED <<schedule, chain, book>>

\* The connection holding the lock dies; the pass goes on over others.
LoseLock(d) ==
    /\ d \in lock
    /\ Spend("lockLoss")
    /\ lock' = lock \ {d}
    /\ UNCHANGED <<schedule, chain, book, pc, batch, tx>>

\* What a pass that runs on does next.
Go(d) ==
    \/ Look(d) \/ ReadChain(d) \/ Rails(d) \/ DeferAll(d)
    \/ Send(d) \/ Wait(d) \/ Book(d) \/ Salvage(d) \/ Warn(d) \/ Clear(d)

Next ==
    \/ \E n \in Nodes : Come(n)
    \/ \E t \in Txs : Mine(t) \/ Die(t) \/ ChainDayOver(t) \/ LedgerDayOver(t)
    \/ \E d \in Drivers : Start(d) \/ Skip(d) \/ Go(d) \/ Crash(d) \/ LoseLock(d)

\* Some driver starts a pass again and again, a pass that runs goes on, the
\* network executes or forgets what it was sent, and days pass.
Fairness ==
    /\ WF_vars(\E d \in Drivers : Start(d))
    /\ \A d \in Drivers : WF_vars(Go(d))
    /\ \A t \in Txs : WF_vars(Mine(t)) /\ WF_vars(ChainDayOver(t)) /\ WF_vars(LedgerDayOver(t))

Spec == Init /\ [][Next]_vars
FairSpec == Spec /\ Fairness
----------------------------------------------------------------------------
(* Properties.                                                             *)

ScheduleType == due \subseteq Nodes /\ ahead \in [Nodes -> SUBSET Nodes]
ChainType ==
    /\ times \in [Nodes -> 0..2]
    /\ sent \in [Txs -> [nodes : SUBSET Nodes, wei : Nat, fate : Fates]]
    /\ chainDay \subseteq Txs
BookType == ledger \subseteq Txs /\ ledgerDay \subseteq Txs /\ alert \subseteq Txs
DriveType ==
    /\ pc \in [Drivers -> Places]
    /\ batch \in [Drivers -> [nodes : SUBSET Nodes, wei : Nat]]
    /\ tx \in [Drivers -> Txs \union {0}]
    /\ lock \subseteq Drivers
BudgetType == budget \in [Fault -> Nat]

Batched == {"rails", "send"} \union Sending
BatchOK == \A d \in Drivers :
    /\ pc[d] \in Batched => batch[d].nodes # {} /\ batch[d].nodes \intersect Inert = {}
    /\ pc[d] \in Sending => tx[d] \in Txs

\* Every variable keeps its type; what is sent to the contract is never an empty
\* batch nor one with an id it does not know, and is booked by its own hash.
TypeOK == ScheduleType /\ ChainType /\ BookType /\ DriveType /\ BudgetType /\ BatchOK

Unbooked(t) == sent[t].fate = "ok" /\ t \notin ledger

\* Nothing is recorded that did not happen: a distribution in the ledger is a
\* transaction that was mined, whatever receipts, passes and writes fail.
RecordedIsPaid == \A t \in ledger : sent[t].fate = "ok"

\* While the lock holds, a timer moves forward only for a credit its node got
\* since the timer came up, or with every due timer when the operator's
\* conditions refuse the pass: whatever else fails, a failed pass costs a delay
\* and never a credit (schedule.ts, rule 1).
TimersMoveForCredits == [][Unspent("lockLoss")' =>
    \A n \in due : n \notin due' => times[n] > 0 \/ due' = {}]_vars

\* A node is credited once for each time its timer comes up, as long as receipts
\* come, no pass dies and the lock holds, and so also when the ledger write fails
\* after the money moved (salvageSchedules).
PaidOncePerTurn ==
    Unspent("lockLoss") /\ Unspent("lost") /\ Unspent("crash") /\ Unspent("salvage") =>
        \A n \in Nodes : times[n] < 2

\* While the lock holds, the credits recorded within 24 hours stay within the
\* daily cap (checkRails), wherever passes die and receipts are lost.
RecordedUnderCap == Unspent("lockLoss") => Credited24h <= DailyCap

\* Every due node that can be credited is served or put off in the end, however
\* often the others come up meanwhile (dueNodes: oldest due first).
DueIsServed == \A n \in Nodes \ Inert : n \in due ~> n \notin due

\* What runPass says when creditBatch throws: nothing was credited.  So the retry
\* of the next pass pays no node a second time for one turn.
RetryPaysOnce == \A n \in Nodes : times[n] < 2

\* What the alert's description says: the money moved and the rows did not, so
\* until somebody reconciles it by hand the open alert names the transaction.
UnrecordedIsAlerted ==
    lock = {} => \A t \in Txs : Unbooked(t) => t \in alert
=============================================================================
