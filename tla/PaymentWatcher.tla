--------------------------- MODULE PaymentWatcher ---------------------------
(***************************************************************************)
(* The payment watcher: how transfers to the payments wallet get into the  *)
(* ledger (src/lib/watcher.ts, src/lib/explorer.ts).                       *)
(*                                                                         *)
(* The explorer discovers and the chain decides.  The explorer's index may *)
(* trail the chain, may say it has reached a block whose transfers it does *)
(* not list, and may place a transfer in a block it was reorganised out    *)
(* of.  One action is one database transaction or one question put to the  *)
(* explorer or the chain; anything may happen between two of them.         *)
(***************************************************************************)
EXTENDS Integers, FiniteSets

CONSTANTS
    Transfers,      \* successful transfers to the payments wallet
    Passes,         \* invocations of the payments cron
    MaxBlock,       \* where the chain stops growing: a bound of the model
    Confirmations,  \* WATCHER_CONFIRMATIONS
    StartBlock,     \* WATCHER_START_BLOCK, or None
    StartWindow,    \* WATCHER_START_WINDOW_BLOCKS
    MaxCatchup,     \* WATCHER_MAX_CATCHUP_BLOCKS
    MaxBlocksPerPass, \* WATCHER_MAX_BLOCKS_PER_PASS, the reach of the block reader
    AuditWindow,    \* AUDIT_WINDOW_BLOCKS
    Budget          \* how often each fault may happen

None == -1
Fault == {"throw", "lockLoss", "reorg"}

ASSUME WatcherAssumption ==
    /\ IsFiniteSet(Transfers)
    /\ MaxBlock \in Nat
    /\ Confirmations \in Nat
    /\ StartBlock \in Nat \union {None}
    /\ StartWindow \in Nat
    /\ MaxCatchup \in Nat \ {0}
    /\ MaxBlocksPerPass \in Nat
    /\ AuditWindow \in Nat
    /\ Budget \in [Fault -> Nat]

VARIABLES
    top, at,             \* height of the chain; the block a transfer is in, 0 if in none
    indexHead, indexAt,  \* the height the explorer admits to; where it lists a transfer
    hidden,              \* transfers it was wrong about in a block it had admitted to
    ledger, cursor,      \* the payments table; watcher_state, None before the first pass
    floor,               \* where the last pass that found no cursor began
    auditDue,            \* is the last audit 15 minutes old?
    pc, from, safe, reach, cands, found, claim, \* per pass, see Init
    lock,                \* passes holding the advisory lock
    skip,                \* a fast-forward under way
    budget

world == <<top, at, indexHead, indexAt, hidden>>
store == <<ledger, cursor, floor, auditDue>>
local == <<from, safe, reach, cands, found, claim>>
vars == <<world, store, pc, local, lock, skip, budget>>

NoSkip == [step |-> "off", from |-> 0, to |-> 0]

Init ==
    /\ top = 0 /\ at = [t \in Transfers |-> 0]
    /\ indexHead = 0 /\ indexAt = [t \in Transfers |-> 0] /\ hidden = {}
    /\ ledger = {} /\ cursor = None /\ floor = 0 /\ auditDue = TRUE
    /\ pc = [s \in Passes |-> "off"]
    /\ from = [s \in Passes |-> 0]    \* start.from
    /\ safe = [s \in Passes |-> 0]    \* safeHead as the pass read it
    /\ reach = [s \in Passes |-> 0]   \* the explorer's height as it read it, or None
    /\ cands = [s \in Passes |-> {}]  \* candidates not looked up yet, and their blocks
    /\ found = [s \in Passes |-> {}]  \* sightings
    /\ claim = [s \in Passes |-> 0]   \* ground the pass may claim
    /\ lock = {}
    /\ skip = NoSkip
    /\ budget = Budget

Spend(what) ==
    /\ budget[what] > 0
    /\ budget' = [budget EXCEPT ![what] = @ - 1]

----------------------------------------------------------------------------
(* The chain and the explorer.                                             *)

SafeHead == IF top > Confirmations THEN top - Confirmations ELSE 0
Final(t) == at[t] \in 1..SafeHead

Block ==
    /\ top < MaxBlock
    /\ top' = top + 1
    /\ \E ts \in SUBSET {t \in Transfers : at[t] = 0} :
         at' = [t \in Transfers |-> IF t \in ts THEN top + 1 ELSE at[t]]
    /\ UNCHANGED <<indexHead, indexAt, hidden, store, pc, local, lock, skip, budget>>

Misplaced(where, listed, height) == {t \in Transfers :
    where[t] \in 1..height /\ listed[t] # where[t]}

\* Blocks with too few confirmations are replaced.
Reorg ==
    /\ Spend("reorg")
    /\ \E where \in [Transfers -> 0..top] :
         /\ \A t \in Transfers :
              Final(t) \/ where[t] \in 1..SafeHead => where[t] = at[t]
         /\ at' = where
         /\ hidden' = hidden \union Misplaced(where, indexAt, indexHead)
    /\ UNCHANGED <<top, indexHead, indexAt, store, pc, local, lock, skip>>

\* The explorer indexes one more block, or at least says so.
IndexBlock ==
    /\ indexHead < top
    /\ indexHead' = indexHead + 1
    /\ hidden' = hidden \union Misplaced(at, indexAt, indexHead + 1)
    /\ UNCHANGED <<top, at, indexAt, store, pc, local, lock, skip, budget>>

\* It lists a transfer where the chain has it, or no longer lists it.
IndexTransfer(t) ==
    /\ indexAt[t] # at[t]
    /\ indexAt' = [indexAt EXCEPT ![t] = at[t]]
    /\ UNCHANGED <<top, at, indexHead, hidden, store, pc, local, lock, skip, budget>>

\* Transfers the explorer lists between two blocks.
Listed(lo, hi) == {t \in Transfers : indexAt[t] > 0 /\ indexAt[t] \in lo..hi}

----------------------------------------------------------------------------
(* scanPayments, up to discovery.                                          *)

At(s, l) == pc[s] = l
Goto(s, l) == pc' = [pc EXCEPT ![s] = l]
Lower(a, b) == IF a < b THEN a ELSE b

Forget(s) ==
    /\ from' = [from EXCEPT ![s] = 0] /\ safe' = [safe EXCEPT ![s] = 0]
    /\ reach' = [reach EXCEPT ![s] = 0] /\ claim' = [claim EXCEPT ![s] = 0]
    /\ cands' = [cands EXCEPT ![s] = {}] /\ found' = [found EXCEPT ![s] = {}]

Quit(s) == Goto(s, "off") /\ Forget(s) /\ lock' = lock \ {s}

Start(s) ==
    /\ At(s, "off") /\ lock = {}
    /\ lock' = {s}
    /\ Goto(s, "head")
    /\ UNCHANGED <<world, store, local, skip, budget>>

ReadHead(s) ==
    /\ At(s, "head") /\ Goto(s, "cursor")
    /\ safe' = [safe EXCEPT ![s] = SafeHead]
    /\ UNCHANGED <<world, store, from, reach, cands, found, claim, lock, skip, budget>>

\* startingPoint
FirstBlock(s) ==
    IF StartBlock # None THEN StartBlock
    ELSE IF safe[s] > StartWindow THEN safe[s] - StartWindow ELSE 0

\* The cursor is read; if it is level with the safe head, the scan is over.
ReadCursor(s) ==
    /\ At(s, "cursor")
    /\ LET first == IF cursor = None THEN FirstBlock(s) ELSE cursor + 1
       IN  IF first > safe[s]
           THEN Goto(s, "audit") /\ Forget(s)
           ELSE /\ from' = [from EXCEPT ![s] = first]
                /\ Goto(s, "reach")
                /\ UNCHANGED <<safe, reach, cands, found, claim>>
    /\ UNCHANGED <<world, store, lock, skip, budget>>

\* indexedHead; an explorer that is behind the range ends the scan.
ReadReach(s) ==
    /\ At(s, "reach")
    /\ \/ /\ indexHead < from[s]
          /\ Goto(s, "audit") /\ Forget(s)
       \/ \E h \in {indexHead, None} :
            /\ h >= from[s] \/ h = None
            /\ reach' = [reach EXCEPT ![s] = h]
            /\ Goto(s, "walk")
            /\ UNCHANGED <<from, safe, cands, found, claim>>
    /\ UNCHANGED <<world, store, lock, skip, budget>>

----------------------------------------------------------------------------
(* discover.                                                               *)

\* Mutant: the walk is not bounded by the safe head.
RangeEndOfIndex(s) == IF reach[s] = None THEN safe[s] ELSE reach[s]

\* The end of the range, and what of it a walk of the index may claim.
RangeEnd(s) == IF reach[s] = None THEN safe[s] ELSE Lower(safe[s], reach[s])
MayClaim(s, b) == IF reach[s] = None THEN from[s] - 1 ELSE b

Take(s, ts, where, b) ==
    /\ At(s, "walk") /\ Goto(s, "verify")
    /\ cands' = [cands EXCEPT ![s] = {[id |-> t, block |-> where[t]] : t \in ts}]
    /\ claim' = [claim EXCEPT ![s] = b]
    /\ UNCHANGED <<world, store, from, safe, reach, found, lock, skip, budget>>

\* walkAddressV2 or walkTxlist to the end of the range.
WalkAll(s) ==
    Take(s, Listed(from[s], RangeEnd(s)), indexAt, MayClaim(s, RangeEnd(s)))

\* walkAddressV2, newest first, stopped by its page limit or the deadline.
WalkNewest(s) ==
    \E ts \in SUBSET Listed(from[s], RangeEnd(s)) :
        /\ \A t \in ts, u \in Listed(from[s], RangeEnd(s)) \ ts : indexAt[u] <= indexAt[t]
        /\ Take(s, ts, indexAt, from[s] - 1)

\* walkTxlist, oldest first, stopped: the block it stopped in may be half read.
WalkOldest(s) ==
    \E b \in (from[s] - 1)..(RangeEnd(s) - 1) :
    \E ts \in SUBSET Listed(from[s], b + 1) :
        /\ Listed(from[s], b) \subseteq ts
        /\ Take(s, ts, indexAt, MayClaim(s, b))

\* fallbackBlockScan, as far as it comes; not at all claims nothing.
ReadBlocks(s) ==
    \E b \in (from[s] - 1)..Lower(RangeEnd(s), from[s] + MaxBlocksPerPass - 1) :
        Take(s, {t \in Transfers : at[t] > 0 /\ at[t] \in from[s]..b}, at, b)

----------------------------------------------------------------------------
(* verify and commit.                                                      *)

Hold(s, b) ==
    /\ claim' = [claim EXCEPT ![s] = Lower(@, b - 1)]
    /\ UNCHANGED found

\* Mutant: a transaction is believed before it is confirmed.
LookAtTheTip(s, c) ==
    /\ At(s, "verify") /\ c \in cands[s]
    /\ cands' = [cands EXCEPT ![s] = @ \ {c}]
    /\ \/ /\ at[c.id] > 0
          /\ found' = [found EXCEPT ![s] = @ \union {c.id}]
          /\ UNCHANGED claim
       \/ at[c.id] = 0 /\ Hold(s, c.block)
    /\ UNCHANGED <<world, store, pc, from, safe, reach, lock, skip, budget>>

\* The chain knows the candidate: confirmed it is a payment, otherwise it holds
\* the claim below the block it is in, or was listed in if it is in none.
Look(s, c) ==
    /\ At(s, "verify") /\ c \in cands[s]
    /\ cands' = [cands EXCEPT ![s] = @ \ {c}]
    /\ \/ /\ at[c.id] \in 1..safe[s]
          /\ found' = [found EXCEPT ![s] = @ \union {c.id}]
          /\ UNCHANGED claim
       \/ at[c.id] > safe[s] /\ Hold(s, at[c.id])
       \/ at[c.id] = 0 /\ Hold(s, c.block)
    /\ UNCHANGED <<world, store, pc, from, safe, reach, lock, skip, budget>>

\* Mutant: an unknown transaction does not hold the claim.
LookAndForget(s, c) ==
    /\ At(s, "verify") /\ c \in cands[s]
    /\ cands' = [cands EXCEPT ![s] = @ \ {c}]
    /\ UNCHANGED <<world, store, pc, from, safe, reach, found, claim, lock, skip, budget>>

\* The RPC node asked does not know the transaction yet, or gives it and its
\* receipt from two views of the chain.
LookInVain(s, c) ==
    /\ At(s, "verify") /\ c \in cands[s]
    /\ cands' = [cands EXCEPT ![s] = @ \ {c}]
    /\ \E b \in {c.block, at[c.id]} : b > 0 /\ Hold(s, b)
    /\ UNCHANGED <<world, store, pc, from, safe, reach, lock, skip, budget>>

SetCursor(b) == cursor' = IF b > cursor THEN b ELSE cursor

\* The payments found, then the cursor, in one transaction.
Commit(s) ==
    /\ At(s, "verify") /\ cands[s] = {}
    /\ ledger' = ledger \union found[s]
    /\ LET b == Lower(claim[s], from[s] + MaxCatchup - 1)
       IN  IF b >= from[s]
           THEN /\ SetCursor(b)
                /\ floor' = IF from[s] > cursor + 1 THEN from[s] ELSE floor
           ELSE UNCHANGED <<cursor, floor>>
    /\ Goto(s, "audit") /\ Forget(s)
    /\ UNCHANGED <<world, auditDue, lock, skip, budget>>

----------------------------------------------------------------------------
(* The audit, and adoption of a payment by its hash.                       *)

AuditFallsDue ==
    /\ ~auditDue /\ auditDue' = TRUE
    /\ UNCHANGED <<world, ledger, cursor, floor, pc, local, lock, skip, budget>>

\* maybeAuditPayments: stamped before the work.
Audit(s) ==
    /\ At(s, "audit")
    /\ IF auditDue THEN Goto(s, "window") /\ UNCHANGED <<local, lock>> ELSE Quit(s)
    /\ auditDue' = FALSE
    /\ UNCHANGED <<world, ledger, cursor, floor, skip, budget>>

\* Mutant: the audit reads on from the cursor.
ReadWindowAhead(s) ==
    /\ At(s, "window") /\ Goto(s, "list")
    /\ safe' = [safe EXCEPT ![s] = SafeHead]
    /\ from' = [from EXCEPT ![s] = cursor + 1]
    /\ UNCHANGED <<world, store, reach, cands, found, claim, lock, skip, budget>>

ReadWindow(s) ==
    /\ At(s, "window") /\ Goto(s, "list")
    /\ safe' = [safe EXCEPT ![s] = SafeHead]
    /\ from' = [from EXCEPT ![s] = IF SafeHead > AuditWindow THEN SafeHead - AuditWindow ELSE 0]
    /\ UNCHANGED <<world, store, reach, cands, found, claim, lock, skip, budget>>

AuditTake(s, ts) ==
    /\ At(s, "list") /\ Goto(s, "adopt")
    /\ cands' = [cands EXCEPT ![s] = {[id |-> t, block |-> indexAt[t]] : t \in ts}]
    /\ UNCHANGED <<world, store, from, safe, reach, found, claim, lock, skip, budget>>

AuditAll(s) == AuditTake(s, Listed(from[s], safe[s]))
AuditNewest(s) ==
    \E ts \in SUBSET Listed(from[s], safe[s]) :
        /\ \A t \in ts, u \in Listed(from[s], safe[s]) \ ts : indexAt[u] <= indexAt[t]
        /\ AuditTake(s, ts)

\* adoptPayment of one the ledger lacks; the chain decides again.
AuditAdopt(s, c) ==
    /\ At(s, "adopt") /\ c \in cands[s]
    /\ cands' = [cands EXCEPT ![s] = @ \ {c}]
    /\ ledger' = IF Final(c.id) THEN ledger \union {c.id} ELSE ledger
    /\ UNCHANGED <<world, cursor, floor, auditDue, pc, from, safe, reach, found, claim,
                   lock, skip, budget>>

AuditInVain(s, c) ==
    /\ At(s, "adopt") /\ c \in cands[s]
    /\ cands' = [cands EXCEPT ![s] = @ \ {c}]
    /\ UNCHANGED <<world, store, pc, from, safe, reach, found, claim, lock, skip, budget>>

AuditDone(s) ==
    /\ At(s, "adopt") /\ cands[s] = {}
    /\ Quit(s)
    /\ UNCHANGED <<world, store, skip, budget>>

\* A buyer or the administrator names the transaction.
Adopt(t) ==
    /\ Final(t) /\ t \notin ledger
    /\ ledger' = ledger \union {t}
    /\ UNCHANGED <<world, cursor, floor, auditDue, pc, local, lock, skip, budget>>

----------------------------------------------------------------------------
(* fastForwardCursor, which takes no lock.                                 *)

AskSkip ==
    /\ skip = NoSkip /\ cursor # None
    /\ \E b \in (cursor + 1)..SafeHead :
         skip' = [step |-> "reach", from |-> cursor + 1, to |-> b]
    /\ UNCHANGED <<world, store, pc, local, lock, budget>>

\* Mutant: how far the index reaches is not asked.
SkipUnasked ==
    /\ skip.step = "reach"
    /\ skip' = [skip EXCEPT !.step = "walk"]
    /\ UNCHANGED <<world, store, pc, local, lock, budget>>

SkipReach ==
    /\ skip.step = "reach"
    /\ indexHead >= skip.to
    /\ skip' = [skip EXCEPT !.step = "walk"]
    /\ UNCHANGED <<world, store, pc, local, lock, budget>>

\* The index lists nothing in the whole range. The wallet's balance refuses too,
\* until a payment was ever recorded or it is swept: one more SkipRefused.
SkipWalk ==
    /\ skip.step = "walk"
    /\ Listed(skip.from, skip.to) = {}
    /\ skip' = [skip EXCEPT !.step = "move"]
    /\ UNCHANGED <<world, store, pc, local, lock, budget>>

SkipRefused ==
    /\ skip.step \in {"reach", "walk"}
    /\ skip' = NoSkip
    /\ UNCHANGED <<world, store, pc, local, lock, budget>>

SkipMove ==
    /\ skip.step = "move"
    /\ SetCursor(skip.to)
    /\ skip' = NoSkip
    /\ UNCHANGED <<world, ledger, floor, auditDue, pc, local, lock, budget>>

----------------------------------------------------------------------------
\* A question is answered by an error nobody catches, or the process dies.
Throw(s) ==
    /\ pc[s] # "off"
    /\ Spend("throw")
    /\ Quit(s)
    /\ UNCHANGED <<world, store, skip>>

LoseLock(s) ==
    /\ s \in lock
    /\ Spend("lockLoss")
    /\ lock' = lock \ {s}
    /\ UNCHANGED <<world, store, pc, local, skip>>

Discover(s) == WalkAll(s) \/ WalkNewest(s) \/ WalkOldest(s) \/ ReadBlocks(s)
Candidate(s) == \E c \in cands[s] :
    Look(s, c) \/ LookInVain(s, c) \/ AuditAdopt(s, c) \/ AuditInVain(s, c)
Go(s) ==
    \/ ReadHead(s) \/ ReadCursor(s) \/ ReadReach(s) \/ Discover(s) \/ Candidate(s) \/ Commit(s)
    \/ Audit(s) \/ ReadWindow(s) \/ AuditAll(s) \/ AuditNewest(s) \/ AuditDone(s)
FastForward == AskSkip \/ SkipReach \/ SkipWalk \/ SkipRefused \/ SkipMove
World == Block \/ Reorg \/ IndexBlock \/ AuditFallsDue \/ \E t \in Transfers : IndexTransfer(t)

Next ==
    \/ World \/ FastForward
    \/ \E t \in Transfers : Adopt(t)
    \/ \E s \in Passes : Start(s) \/ Go(s) \/ Throw(s) \/ LoseLock(s)

\* The scheduler calls the route every minute and audits fall due; a pass that
\* runs goes on; the explorer catches up, and it answers for a whole range and
\* the RPC for a confirmed transaction again and again.
Known(s, t) == \E c \in cands[s] : c.id = t /\ (Look(s, c) \/ AuditAdopt(s, c))
Fairness ==
    /\ WF_vars(\E s \in Passes : Start(s))
    /\ \A s \in Passes : WF_vars(Go(s))
    /\ WF_vars(AuditFallsDue) /\ WF_vars(IndexBlock)
    /\ \A t \in Transfers : WF_vars(IndexTransfer(t))
    /\ SF_vars(\E s \in Passes : WalkAll(s))
    /\ SF_vars(\E s \in Passes : AuditAll(s))
    /\ \A t \in Transfers : SF_vars(\E s \in Passes : Known(s, t))

Spec == Init /\ [][Next]_vars
FairSpec == Spec /\ Fairness
----------------------------------------------------------------------------
(* Properties.                                                             *)

WorldType ==
    /\ top \in Nat /\ at \in [Transfers -> 0..top]
    /\ indexHead \in 0..top /\ indexAt \in [Transfers -> 0..top]
    /\ hidden \subseteq Transfers
StoreType ==
    /\ ledger \subseteq Transfers
    /\ cursor \in Nat \union {None} /\ floor \in 0..(cursor + 1)
    /\ auditDue \in BOOLEAN
Places == {"off", "head", "cursor", "reach", "walk", "verify", "audit", "window", "list", "adopt"}
PassType ==
    /\ pc \in [Passes -> Places]
    /\ from \in [Passes -> Nat] /\ safe \in [Passes -> 0..SafeHead]
    /\ reach \in [Passes -> (0..indexHead) \union {None}]
    /\ cands \in [Passes -> SUBSET [id : Transfers, block : Nat]]
    /\ found \in [Passes -> SUBSET Transfers]
    /\ claim \in [Passes -> Int]
    /\ lock \subseteq Passes
    /\ \A s \in Passes : claim[s] <= safe[s]
SkipType ==
    /\ skip \in [step : {"off", "reach", "walk", "move"}, from : Nat, to : 0..SafeHead]
    /\ budget \in [Fault -> Nat]

\* Every variable keeps its type; a pass claims no ground beyond the safe head it
\* read, and no ground before the cursor is written off but the first run's.
TypeOK == WorldType /\ StoreType /\ PassType /\ SkipType

\* Nothing from the tip is acted on: a recorded payment is in a block no
\* reorganisation reaches, and so is the cursor (verify, scanPayments).
NothingFromTheTip ==
    /\ \A t \in ledger : Final(t)
    /\ cursor <= SafeHead

\* The cursor moves only over ground that was covered: a transfer at or below it,
\* not older than the first run's starting point, is in the ledger, whatever
\* answers, passes and connections fail, and whoever moves the cursor, unless the
\* explorer was wrong about it in a block it said it had indexed.
CursorCovers == \A t \in Transfers :
    at[t] > 0 /\ at[t] \in floor..cursor => t \in ledger \/ t \in hidden

\* A confirmed transfer ahead of the cursor is recorded in the end, unless the
\* explorer hides it.
AheadIsFound == \A t \in Transfers :
    Final(t) /\ cursor # None /\ at[t] > cursor ~> t \in ledger \union hidden

\* What discovery walked past because the explorer hid it, the audit recovers
\* while it is within the window it reads.
HolesAreFilled == \A t \in Transfers :
    t \in hidden /\ Final(t) ~> t \in ledger \/ at[t] < SafeHead - AuditWindow
=============================================================================
