----------------------------- MODULE NodeLedger -----------------------------
(***************************************************************************)
(* How nodes get from the chain into the ledger: recordMintedNodes and its *)
(* three callers, the reconciler, the sync route and the relay, which know *)
(* nothing of each other.  Each reads the chain and the ledger in several  *)
(* calls and writes at the end, while nodes are minted and the tip of the  *)
(* chain may be replaced.                                                  *)
(*                                                                         *)
(* A mint transaction has one recipient, and its node's id is its place in *)
(* the order of mints.  Prices and tiers of nodes are not followed.        *)
(***************************************************************************)
EXTENDS Naturals, Sequences, FiniteSets

CONSTANTS
    Mint,     \* mint transactions
    Buyer,    \* Buyer[t]: to whom t mints
    Writer,   \* calls that may be under way at once
    Batch,    \* nodes one reconciler run chases (maxNodes)
    None,     \* no session
    Budget    \* Budget[f]: how often fault f, or a call by the relay or a tab, may happen

Fault == {"reorg", "fail", "call"}
Wallet == {Buyer[t] : t \in Mint}

ASSUME LedgerAssumption ==
    /\ IsFiniteSet(Mint)
    /\ Buyer \in [Mint -> Wallet] /\ None \notin Wallet
    /\ Batch \in Nat \ {0}
    /\ Budget \in [Fault -> Nat]

VARIABLES
    minted,   \* the contract's nodes, by id: which transaction minted each
    rows,     \* the table nodes, by chain_node_id: the mint_tx_hash of each row
    timers,   \* ids with a row in node_schedule
    job,      \* job[w]: where a call stands
    torn,     \* ids whose mint was undone after a call had trusted it
    budget

table == <<rows, timers>>
ledgerVars == <<minted, rows, timers, job, torn, budget>>

Id == 1 .. Cardinality(Mint)
OnChain == 1 .. Len(minted)
OwnerOf(id) == IF id \in OnChain THEN Buyer[minted[id]] ELSE None
Logs(ids) == [id \in ids |-> minted[id]]

Call(stage, who, ids, logs) == [stage |-> stage, who |-> who, ids |-> ids, logs |-> logs]
NoLogs == [id \in {} |-> None]
Idle == Call("idle", None, {}, NoLogs)
Free(w) == job[w] = Idle
At(w, stage) == job[w].stage = stage
Goes(w, next) == job' = [job EXCEPT ![w] = next]

Spend(f) == budget[f] > 0 /\ budget' = [budget EXCEPT ![f] = @ - 1]

LedgerInit ==
    /\ minted = <<>>
    /\ rows = NoLogs /\ timers = {}
    /\ job = [w \in Writer |-> Idle]
    /\ torn = {}
    /\ budget = Budget

-----------------------------------------------------------------------------
(* The chain. *)

Mined(t) ==
    /\ \A id \in OnChain : minted[id] # t
    /\ minted' = Append(minted, t)
    /\ UNCHANGED <<table, job, torn, budget>>

(* A call trusts a log when it has checked it; the sync route compares the *)
(* session with the chain, never with the log it is about to write.        *)
Trusted == {id \in Id : \E w \in Writer :
    id \in DOMAIN job[w].logs /\ (id \notin job[w].ids \/ job[w].who # None)}

Undone ==
    /\ minted # <<>>
    /\ Spend("reorg")
    /\ torn' = torn \union ({Len(minted)} \intersect (DOMAIN rows \union Trusted))
    /\ minted' = SubSeq(minted, 1, Len(minted) - 1)
    /\ UNCHANGED <<table, job>>

-----------------------------------------------------------------------------
(* The reconciler: how many nodes there are, which of them have no row, and *)
(* their mint logs.                                                         *)

ReadTotal(w) ==
    /\ Free(w) /\ minted # <<>>
    /\ Goes(w, Call("missing", None, OnChain, NoLogs))
    /\ UNCHANGED <<minted, table, torn, budget>>

Newest(S) == {id \in S : Cardinality({other \in S : other > id}) < Batch}

FindMissing(w) ==
    LET missing == Newest(job[w].ids \ DOMAIN rows) IN
    /\ At(w, "missing")
    /\ Goes(w, IF missing = {} THEN Idle ELSE Call("logs", None, missing, NoLogs))
    /\ UNCHANGED <<minted, table, torn, budget>>

(* The sync route, given an id: its owner must be the session.              *)
AskOwner(w, who, id) ==
    /\ Free(w) /\ OwnerOf(id) = who
    /\ Goes(w, Call("logs", who, {id}, NoLogs))
    /\ UNCHANGED <<minted, table, torn>>

(* eth_getLogs by id, of both; the log index may not have a mint yet.       *)
ReadLogs(w) ==
    /\ At(w, "logs")
    /\ LET there == job[w].ids \intersect OnChain IN
       \E seen \in SUBSET there :
         /\ IF seen = there THEN UNCHANGED budget ELSE Spend("fail")
         /\ Goes(w, IF seen = {} THEN Idle ELSE Call("check", job[w].who, seen, Logs(seen)))
    /\ UNCHANGED <<minted, table, torn>>

(* The sync route, given a transaction: its receipt has the log, whose      *)
(* owner must be the session.                                               *)
ReadReceipt(w, t) ==
    /\ Free(w)
    /\ \E id \in OnChain : minted[id] = t /\ Goes(w, Call("check", None, {id}, Logs({id})))
    /\ UNCHANGED <<minted, table, torn>>

(* What the chain must still say of a log's node before it is written, one  *)
(* call per log: the reconciler wants the log's owner, the sync route the   *)
(* session.                                                                 *)
AgreesAny(w, id) == TRUE
Agrees(w, id) ==
    OwnerOf(id) = IF job[w].who = None THEN Buyer[job[w].logs[id]] ELSE job[w].who

Check(w) ==
    /\ At(w, "check")
    /\ \E id \in job[w].ids :
         LET kept == IF Agrees(w, id) THEN DOMAIN job[w].logs ELSE DOMAIN job[w].logs \ {id} IN
         Goes(w, IF kept = {} THEN Idle
                 ELSE Call("check", job[w].who, job[w].ids \ {id}, [k \in kept |-> job[w].logs[k]]))
    /\ UNCHANGED <<minted, table, torn, budget>>

(* The relay's settle(): the timer, then the row, from its own receipt and  *)
(* without another look at the chain.                                       *)
RelaySchedules(w, t) ==
    /\ Free(w)
    /\ \E id \in OnChain :
         /\ minted[id] = t
         /\ timers' = timers \union {id}
         /\ Goes(w, Call("check", None, {}, Logs({id})))
    /\ UNCHANGED <<minted, rows, torn>>

(* recordMintedNodes, one transaction: a row unless the id or the mint      *)
(* transaction has one, and a timer in any case.                            *)
RowTaken(t) == \E id \in DOMAIN rows : rows[id] = t

New(logs) == {id \in DOMAIN logs \ DOMAIN rows : ~RowTaken(logs[id])}
WithoutTimers(logs) == timers
Timers(logs) == timers \union DOMAIN logs

Record(w) ==
    /\ At(w, "check") /\ job[w].ids = {}
    /\ LET logs == job[w].logs IN
       /\ rows' = [id \in DOMAIN rows \union New(logs) |-> IF id \in DOMAIN rows THEN rows[id] ELSE logs[id]]
       /\ timers' = Timers(logs)
    /\ Goes(w, Idle)
    /\ UNCHANGED <<minted, torn, budget>>

(* A call throws, times out or dies with its process.                       *)
Fail(w) ==
    /\ ~Free(w)
    /\ Spend("fail")
    /\ Goes(w, Idle)
    /\ UNCHANGED <<minted, table, torn>>

-----------------------------------------------------------------------------
(* What is not the reconciler's: a tab, another script, the relay.          *)
OtherCall(w) ==
    /\ Spend("call")
    /\ \/ \E who \in Wallet, id \in Id : AskOwner(w, who, id)
       \/ \E t \in Mint : ReadReceipt(w, t) \/ RelaySchedules(w, t)
Begin(w) == ReadTotal(w) \/ OtherCall(w)
GoOn(w) == FindMissing(w) \/ ReadLogs(w) \/ Check(w) \/ Record(w)

-----------------------------------------------------------------------------
PartialMap(D, R) == UNION {[S -> R] : S \in SUBSET D}
LedgerTypeOK ==
    /\ minted \in Seq(Mint)
    /\ rows \in PartialMap(Id, Mint)
    /\ timers \subseteq Id /\ torn \subseteq Id
    /\ \A w \in Writer :
         /\ job[w].stage \in {"idle", "missing", "logs", "check"}
         /\ job[w].who \in Wallet \union {None}
         /\ job[w].ids \subseteq Id /\ job[w].logs \in PartialMap(Id, Mint)
    /\ budget \in [Fault -> Nat]

\* The ledger says of no node that it is somebody's else: whatever calls
\* overlap and whatever the log index and the tip do meanwhile, a row's owner
\* is the owner the contract has, unless the mint was undone after a call had
\* checked it (the second look of reconcileNodes and of the sync route).
RowsAreChains == \A id \in DOMAIN rows \ torn : OwnerOf(id) = Buyer[rows[id]]

\* "Those nodes are paid for and would otherwise sit dead forever"
\* (reconcile.ts:8): every node on chain gets its row and its timer, although
\* calls overlap, fail and find the log index behind; a node whose transaction
\* a replaced tip had put under another id is the one exception.
EveryNodeEarns == \A id \in Id :
    id \in OnChain ~> id \notin OnChain \/ (id \in timers /\ (id \in DOMAIN rows \/ RowTaken(minted[id])))
=============================================================================
