--------------------------- MODULE WithdrawalIndex ---------------------------
(***************************************************************************)
(* The history of withdrawals (withdrawals.ts): the Withdrawn events of    *)
(* settled blocks are copied into a table, range after range, behind a     *)
(* cursor.  A pass reads the head, then the cursor, then the logs, and     *)
(* writes one row at a time before it moves the cursor.  The payments cron *)
(* runs it under its lock, the administrator's route without one, and a    *)
(* lost lock leaves two cron passes.                                       *)
(*                                                                         *)
(* The log index is complete for blocks with Confirmations above them, and *)
(* no replacement of the tip reaches those.                                *)
(***************************************************************************)
EXTENDS Integers, Sequences, FiniteSets

CONSTANTS
    Withdrawal,     \* withdrawal transactions
    Node,           \* nodes, whose withdrawals may share a transaction
    Pass,           \* passes that may be under way at once
    None,           \* the transaction of a block without withdrawals
    Confirmations,
    MaxSpan,        \* MAX_SPAN
    MaxBlocks,      \* bound on the height of the chain
    MaxCrashes      \* bound on passes that die or fail

ASSUME IndexAssumption ==
    /\ None \notin Withdrawal
    /\ Confirmations \in Nat /\ MaxSpan \in Nat /\ MaxBlocks \in Nat /\ MaxCrashes \in Nat

VARIABLES
    chain,    \* blocks by height, after an empty block 0: [tx, nodes] of its Withdrawn events
    high,     \* the greatest height ever reached
    history,  \* the table: [tx, node, block]
    cursor,   \* the block the cursor is at, -1 before the first run
    at,       \* at[p]: where pass p stands; its range, or the head it read
    crashes

vars == <<chain, high, history, cursor, at, crashes>>

Empty == [tx |-> None, nodes |-> {}]
Tip == Len(chain)
Settled == high - Confirmations
Stand(stage, from, to, todo) == [stage |-> stage, from |-> from, to |-> to, todo |-> todo]
Idle == Stand("idle", 0, 0, {})
Goes(p, next) == at' = [at EXCEPT ![p] = next]

Init ==
    /\ chain = <<>> /\ high = 0
    /\ history = {} /\ cursor = -1
    /\ at = [p \in Pass |-> Idle]
    /\ crashes = 0

-----------------------------------------------------------------------------
(* The chain. *)

Block(b) ==
    /\ Tip < MaxBlocks
    /\ b.tx = None \/ \A h \in 1 .. Tip : chain[h].tx # b.tx
    /\ chain' = Append(chain, b)
    /\ high' = IF Tip + 1 > high THEN Tip + 1 ELSE high
    /\ UNCHANGED <<history, cursor, at, crashes>>

Reorg ==
    /\ Tip > 0 /\ Tip > Settled
    /\ chain' = SubSeq(chain, 1, Tip - 1)
    /\ UNCHANGED <<high, history, cursor, at, crashes>>

Events(from, to) == UNION {
    {[tx |-> chain[h].tx, node |-> n, block |-> h] : n \in chain[h].nodes} :
        h \in (1 .. Tip) \intersect (from .. to)}

-----------------------------------------------------------------------------
(* indexWithdrawals. *)

SafeTip == Tip
SafeHead == IF Tip > Confirmations THEN Tip - Confirmations ELSE 0

ReadHead(p) ==
    /\ at[p] = Idle
    /\ Goes(p, Stand("head", 0, SafeHead, {}))
    /\ UNCHANGED <<chain, high, history, cursor, crashes>>

RangeEnd(from, safe) == IF safe - from > MaxSpan THEN from + MaxSpan ELSE safe

ReadCursor(p) ==
    LET from == cursor + 1
        safe == at[p].to
    IN
    /\ at[p].stage = "head"
    /\ Goes(p, IF from > safe THEN Idle
               ELSE Stand("range", from, RangeEnd(from, safe), {}))
    /\ UNCHANGED <<chain, high, history, cursor, crashes>>

ReadLogs(p) ==
    /\ at[p].stage = "range"
    /\ Goes(p, Stand("rows", at[p].from, at[p].to, Events(at[p].from, at[p].to)))
    /\ UNCHANGED <<chain, high, history, cursor, crashes>>

(* A transaction of withdrawAll has one event per node it empties.          *)
Known(e) == \E r \in history : r.tx = e.tx /\ r.node = e.node

WriteRow(p) ==
    /\ at[p].stage = "rows"
    /\ \E e \in at[p].todo :
         /\ history' = IF Known(e) THEN history ELSE history \union {e}
         /\ Goes(p, [at[p] EXCEPT !.todo = @ \ {e}])
    /\ UNCHANGED <<chain, high, cursor, crashes>>

(* setCursor keeps the greater of the stored and the new block.             *)
MovedIfFound(p) == IF Events(at[p].from, at[p].to) # {} THEN at[p].to ELSE cursor
Moved(p) == IF at[p].to > cursor THEN at[p].to ELSE cursor

Advance(p) ==
    /\ at[p].stage = "rows" /\ at[p].todo = {}
    /\ cursor' = Moved(p)
    /\ Goes(p, Idle)
    /\ UNCHANGED <<chain, high, history, crashes>>

Crash(p) ==
    /\ at[p] # Idle /\ crashes < MaxCrashes
    /\ crashes' = crashes + 1
    /\ Goes(p, Idle)
    /\ UNCHANGED <<chain, high, history, cursor>>

-----------------------------------------------------------------------------
GoOn(p) == ReadCursor(p) \/ ReadLogs(p) \/ WriteRow(p) \/ Advance(p)

Next ==
    \/ \E tx \in Withdrawal, nodes \in SUBSET Node \ {{}} : Block([tx |-> tx, nodes |-> nodes])
    \/ Block(Empty)
    \/ Reorg
    \/ \E p \in Pass : ReadHead(p) \/ GoOn(p) \/ Crash(p)

Spec == Init /\ [][Next]_vars

(* The cron calls every minute, and what a pass asks is answered, or fails. *)
Fairness ==
    /\ WF_vars(\E p \in Pass : ReadHead(p))
    /\ \A p \in Pass : WF_vars(GoOn(p))
FairSpec == Spec /\ Fairness

-----------------------------------------------------------------------------
\* The history is the chain's: every row is an event of a block nothing can
\* replace, and up to the cursor no event is missing, however passes overlap,
\* die between two rows and read ranges again.
HistoryIsChains ==
    /\ \A r \in history :
         r.block \in 1 .. Tip /\ r.block <= Settled /\ r \in Events(r.block, r.block)
    /\ Events(0, cursor) \subseteq history

\* "The history: when a withdrawal happened, for how much, and in which
\* transaction" (withdrawals.ts:12): every withdrawal of a settled block gets
\* into it, over stretches of empty blocks too.
Deep(tx, n) == \E h \in 1 .. SafeHead : chain[h].tx = tx /\ n \in chain[h].nodes
Indexed(tx, n) == \E r \in history : r.tx = tx /\ r.node = n
WithdrawalsAreIndexed ==
    \A tx \in Withdrawal, n \in Node : <>[]Deep(tx, n) => <>Indexed(tx, n)
=============================================================================
