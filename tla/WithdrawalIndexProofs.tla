----------------------- MODULE WithdrawalIndexProofs -----------------------
(***************************************************************************)
(* Proofs about WithdrawalIndex, for any withdrawals, passes, heights,     *)
(* spans and crashes.                                                      *)
(***************************************************************************)
EXTENDS WithdrawalIndex, SequenceTheorems, TLAPS

USE IndexAssumption DEF IndexAssumption

BlockOf == [tx : Withdrawal \union {None}, nodes : SUBSET Node]

\* The height below which no block is replaced: a head that was read is not above it.
Floor == IF Settled > 0 THEN Settled ELSE 0

\* A transaction is in one block, and a block without one has no events.
ChainInv ==
    /\ chain \in Seq(BlockOf)
    /\ high \in Nat /\ Tip <= high /\ Tip >= Settled
    /\ \A h, k \in 1 .. Tip : chain[h].tx = chain[k].tx => h = k \/ chain[h].tx = None
    /\ \A h \in 1 .. Tip : chain[h].tx = None => chain[h].nodes = {}

\* A pass never reaches above the floor, nor beyond the block after the cursor, and
\* what it has left of its range it still has to do.
Fits(s, rows, top) ==
    /\ s.from \in Nat /\ s.to \in Nat
    /\ s.stage \in {"idle", "head", "range", "rows"}
    /\ s.to <= Floor
    /\ s.stage \in {"range", "rows"} => s.from <= top + 1
    /\ s.stage = "rows" =>
         /\ s.todo \subseteq Events(s.from, s.to)
         /\ Events(s.from, s.to) \ s.todo \subseteq rows
StandsWell(s) == Fits(s, history, cursor)

Upright(s) == s = Stand(s.stage, s.from, s.to, s.todo)

TableInv ==
    /\ cursor \in Int /\ cursor >= -1 /\ cursor <= Floor
    /\ \A r \in history : r.block \in 1 .. Floor /\ r \in Events(r.block, r.block)
    /\ Events(0, cursor) \subseteq history

PassInv == DOMAIN at = Pass /\ \A p \in Pass : Upright(at[p]) /\ StandsWell(at[p])

Inv == ChainInv /\ TableInv /\ PassInv

----------------------------------------------------------------------------
LEMMA Heights ==
  ASSUME ChainInv
  PROVE  /\ Tip \in Nat /\ Settled \in Int /\ Floor \in Nat /\ Floor <= Tip /\ (Floor > 0 => Floor = Settled)
         /\ SafeHead \in Nat /\ SafeHead <= Floor
         /\ \A h \in 1 .. Tip : chain[h].nodes \subseteq Node
<1>1. Tip \in Nat /\ high \in Nat /\ Settled \in Int /\ Settled <= Tip /\ Tip - Confirmations <= Settled
  BY DEF ChainInv, Tip, Settled
<1>2. Floor \in Nat /\ Floor <= Tip /\ (Floor > 0 => Floor = Settled)
  BY <1>1 DEF Floor
<1>3. SafeHead \in Nat /\ SafeHead <= Floor
  BY <1>1 DEF Floor, SafeHead
<1>4. ASSUME NEW h \in 1 .. Tip
      PROVE  chain[h].nodes \subseteq Node
  <2>1. chain[h] \in BlockOf
    BY <1>1 DEF ChainInv, Tip
  <2>q. QED BY <2>1 DEF BlockOf
<1>q. QED BY <1>1, <1>2, <1>3, <1>4

\* An event says all of where it is from.
LEMMA EventFields ==
  ASSUME NEW from, NEW to, NEW e \in Events(from, to)
  PROVE  /\ e.block \in 1 .. Tip /\ e.block \in from .. to
         /\ e.tx = chain[e.block].tx /\ e.node \in chain[e.block].nodes
         /\ e = [tx |-> e.tx, node |-> e.node, block |-> e.block]
<1>1. PICK h \in (1 .. Tip) \intersect (from .. to) : \E n \in chain[h].nodes :
        e = [tx |-> chain[h].tx, node |-> n, block |-> h]
  BY DEF Events
<1>q. QED BY <1>1

LEMMA EventIn ==
  ASSUME NEW from, NEW to, NEW h \in 1 .. Tip, h \in from .. to, NEW n \in chain[h].nodes
  PROVE  [tx |-> chain[h].tx, node |-> n, block |-> h] \in Events(from, to)
BY DEF Events

LEMMA EventElsewhere ==
  ASSUME NEW a, NEW b, NEW from, NEW to, NEW e \in Events(a, b), e.block \in from .. to
  PROVE  e \in Events(from, to)
<1>1. /\ e.block \in 1 .. Tip /\ e.tx = chain[e.block].tx /\ e.node \in chain[e.block].nodes
      /\ e = [tx |-> e.tx, node |-> e.node, block |-> e.block]
  BY EventFields
<1>2. [tx |-> chain[e.block].tx, node |-> e.node, block |-> e.block] \in Events(from, to)
  BY <1>1, EventIn
<1>q. QED BY <1>1, <1>2

----------------------------------------------------------------------------
(* How the chain moves: blocks up to the floor keep their events. *)

ChainMoves ==
    /\ ChainInv' /\ Floor' >= Floor /\ Floor <= Tip'
    /\ \A h \in 1 .. Floor : chain'[h] = chain[h]

LEMMA EventsStay ==
  ASSUME ChainInv, ChainMoves
  PROVE  \A from \in Nat, to \in Int : to <= Floor => Events(from, to)' = Events(from, to)
<1> SUFFICES ASSUME NEW from \in Nat, NEW to \in Int, to <= Floor
             PROVE  Events(from, to)' = Events(from, to)
  OBVIOUS
<1>1. Floor \in Nat /\ Floor <= Tip /\ Tip \in Nat /\ Tip' \in Nat /\ Floor <= Tip'
  BY Heights DEF ChainMoves, ChainInv, Tip
<1>2. (1 .. Tip) \intersect (from .. to) = (1 .. Tip') \intersect (from .. to)
  BY <1>1
<1>3. \A h \in (1 .. Tip) \intersect (from .. to) : chain'[h] = chain[h]
  BY <1>1 DEF ChainMoves
<1>4. ASSUME NEW e
      PROVE  e \in Events(from, to)' <=> e \in Events(from, to)
  <2>1. e \in Events(from, to) <=>
          \E h \in (1 .. Tip) \intersect (from .. to) : \E n \in chain[h].nodes :
            e = [tx |-> chain[h].tx, node |-> n, block |-> h]
    BY DEF Events
  <2>2. e \in Events(from, to)' <=>
          \E h \in (1 .. Tip') \intersect (from .. to) : \E n \in chain'[h].nodes :
            e = [tx |-> chain'[h].tx, node |-> n, block |-> h]
    BY DEF Events
  <2>q. QED BY <1>2, <1>3, <2>1, <2>2
<1>q. QED BY <1>4

\* What the table and the passes rest on is not in the blocks that move.
LEMMA RestStays ==
  ASSUME Inv, ChainMoves, UNCHANGED <<history, cursor, at>>
  PROVE  Inv'
<1>0. /\ Floor \in Nat /\ Floor' \in Nat /\ Floor' >= Floor /\ cursor \in Int
      /\ \A from \in Nat, to \in Int : to <= Floor => Events(from, to)' = Events(from, to)
  <2>1. ChainInv' => (Floor \in Nat)'
    BY Heights, PTL
  <2>q. QED BY <2>1, Heights, EventsStay DEF Inv, TableInv, ChainMoves
<1>1. TableInv'
  <2>1. ASSUME NEW r \in history
        PROVE  r.block \in 1 .. Floor' /\ r \in Events(r.block, r.block)'
    <3>1. r.block \in 1 .. Floor /\ r \in Events(r.block, r.block)
      BY DEF Inv, TableInv
    <3>2. PICK b \in Nat : b = r.block
      BY <1>0, <3>1
    <3>3. Events(b, b)' = Events(b, b)
      BY <1>0, <3>1, <3>2
    <3>q. QED BY <1>0, <3>1, <3>2, <3>3
  <2>2. Events(0, cursor)' \subseteq history
    <3>1. PICK c \in Int : c = cursor
      BY <1>0
    <3>2. Events(0, c)' = Events(0, c)
      BY <1>0, <3>1 DEF Inv, TableInv
    <3>q. QED BY <3>1, <3>2 DEF Inv, TableInv
  <2>q. QED BY <1>0, <2>1, <2>2 DEF Inv, TableInv
<1>2. ASSUME NEW p \in Pass
      PROVE  StandsWell(at[p])'
  <2>1. StandsWell(at[p])
    BY DEF Inv, PassInv
  <2>2. PICK from \in Nat, to \in Nat : from = at[p].from /\ to = at[p].to
    BY <2>1 DEF StandsWell, Fits
  <2>3. Events(from, to)' = Events(from, to)
    BY <1>0, <2>1, <2>2 DEF StandsWell, Fits
  <2>q. QED BY <1>0, <2>1, <2>2, <2>3 DEF StandsWell, Fits
<1>3. PassInv'
  BY <1>2 DEF Inv, PassInv, Upright
<1>q. QED BY <1>1, <1>3 DEF Inv, ChainMoves

LEMMA BlockStep ==
  ASSUME Inv, NEW b \in BlockOf, b.tx = None => b.nodes = {}, Block(b)
  PROVE  Inv'
<1>1. /\ b.tx = None \/ \A h \in 1 .. Tip : chain[h].tx # b.tx
      /\ chain' = Append(chain, b)
      /\ high' = IF Tip + 1 > high THEN Tip + 1 ELSE high
      /\ UNCHANGED <<history, cursor, at>>
  BY DEF Block
<1>2. /\ Tip \in Nat /\ high \in Nat /\ chain' \in Seq(BlockOf) /\ Tip' = Tip + 1
      /\ (\A h \in 1 .. Tip : chain'[h] = chain[h]) /\ chain'[Tip + 1] = b
  BY <1>1 DEF Inv, ChainInv, Tip
<1>3. high' \in Nat /\ Tip' <= high' /\ Tip' >= Settled'
  <2>1. Tip <= high /\ Tip >= high - Confirmations /\ Settled' = high' - Confirmations
    BY DEF Inv, ChainInv, Settled
  <2>2. CASE Tip + 1 > high
    BY <1>1, <1>2, <2>1, <2>2
  <2>3. CASE ~(Tip + 1 > high)
    BY <1>1, <1>2, <2>1, <2>3
  <2>q. QED BY <2>2, <2>3
<1>4. \A h, k \in 1 .. Tip' : chain'[h].tx = chain'[k].tx => h = k \/ chain'[h].tx = None
  <2> SUFFICES ASSUME NEW h \in 1 .. Tip', NEW k \in 1 .. Tip', chain'[h].tx = chain'[k].tx,
                      chain'[h].tx # None
               PROVE  h = k
    OBVIOUS
  <2>1. CASE h \in 1 .. Tip /\ k \in 1 .. Tip
    BY <1>2, <2>1 DEF Inv, ChainInv
  <2>2. CASE h \notin 1 .. Tip \/ k \notin 1 .. Tip
    <3>1. (h = Tip + 1 \/ h \in 1 .. Tip) /\ (k = Tip + 1 \/ k \in 1 .. Tip)
      BY <1>2
    <3>2. CASE h = Tip + 1 /\ k \in 1 .. Tip
      BY <1>1, <1>2, <3>2
    <3>3. CASE k = Tip + 1 /\ h \in 1 .. Tip
      BY <1>1, <1>2, <3>3
    <3>q. QED BY <2>2, <3>1, <3>2, <3>3
  <2>q. QED BY <2>1, <2>2
<1>5. \A h \in 1 .. Tip' : chain'[h].tx = None => chain'[h].nodes = {}
  BY <1>2 DEF Inv, ChainInv
<1>6. ChainInv'
  BY <1>2, <1>3, <1>4, <1>5 DEF ChainInv
<1>7. ChainMoves
  <2>1. Floor' >= Floor
    <3>1. high' >= high /\ Settled \in Int /\ Settled' \in Int /\ Settled' >= Settled
      BY <1>1, <1>2 DEF Settled
    <3>q. QED BY <3>1 DEF Floor
  <2>2. Floor \in Nat /\ Floor <= Tip
    BY Heights DEF Inv
  <2>3. Floor <= Tip' /\ \A h \in 1 .. Floor : chain'[h] = chain[h]
    BY <1>2, <2>2
  <2>q. QED BY <1>6, <2>1, <2>3 DEF ChainMoves
<1>q. QED BY <1>1, <1>7, RestStays

LEMMA WithoutTip ==
  ASSUME NEW c \in Seq(BlockOf), Len(c) > 0
  PROVE  /\ SubSeq(c, 1, Len(c) - 1) \in Seq(BlockOf)
         /\ Len(SubSeq(c, 1, Len(c) - 1)) = Len(c) - 1
         /\ \A h \in 1 .. Len(c) - 1 : SubSeq(c, 1, Len(c) - 1)[h] = c[h]
<1>1. PICK n \in Nat : n = Len(c) - 1
  <2>1. Len(c) - 1 \in Nat
    OBVIOUS
  <2>q. QED BY <2>1
<1>2. SubSeq(c, 1, n) \in Seq(BlockOf)
  <2>1. 1 \in Int /\ n \in Int /\ \A h \in 1 .. n : c[h] \in BlockOf
    BY <1>1
  <2>q. QED BY <2>1, SubSeqProperties, Zenon
<1>3. Len(SubSeq(c, 1, n)) = n /\ \A h \in 1 .. n : SubSeq(c, 1, n)[h] = c[h]
  BY <1>1
<1>q. QED BY <1>1, <1>2, <1>3

LEMMA ReorgStep ==
  ASSUME Inv, Reorg
  PROVE  Inv'
<1>1. /\ Tip > 0 /\ Tip > Settled
      /\ chain' = SubSeq(chain, 1, Tip - 1)
      /\ UNCHANGED <<high, history, cursor, at>>
  BY DEF Reorg
<1>2. /\ Tip \in Nat /\ high \in Nat /\ chain' \in Seq(BlockOf) /\ Tip' = Tip - 1
      /\ \A h \in 1 .. Tip - 1 : chain'[h] = chain[h]
  BY <1>1, WithoutTip DEF Inv, ChainInv, Tip
<1>3. Settled' = Settled /\ Floor' = Floor
  BY <1>1 DEF Settled, Floor
<1>4. ChainInv'
  BY <1>1, <1>2, <1>3, Heights DEF Inv, ChainInv
<1>5. Floor <= Tip' /\ Floor \in Nat
  BY <1>1, <1>2, Heights DEF Inv, Floor
<1>6. ChainMoves
  BY <1>2, <1>3, <1>4, <1>5 DEF ChainMoves
<1>q. QED BY <1>1, <1>6, RestStays

----------------------------------------------------------------------------
(* How a pass moves. *)

LEMMA StandFields ==
  ASSUME NEW stage, NEW from, NEW to, NEW todo, NEW s, s = Stand(stage, from, to, todo)
  PROVE  Upright(s) /\ s.stage = stage /\ s.from = from /\ s.to = to /\ s.todo = todo
BY DEF Upright, Stand

LEMMA IdleStands ==
  ASSUME Inv
  PROVE  Upright(Idle) /\ StandsWell(Idle)
<1>1. Upright(Idle) /\ Idle.stage = "idle" /\ Idle.from = 0 /\ Idle.to = 0
  BY DEF Idle, Upright, Stand
<1>q. QED BY <1>1, Heights DEF Inv, StandsWell, Fits

LEMMA GoesWell ==
  ASSUME Inv, NEW p \in Pass, NEW next, Goes(p, next), Upright(next), UNCHANGED <<chain, high>>,
         TableInv', Fits(next, history', cursor'), history \subseteq history', cursor' \in Int, cursor' >= cursor
  PROVE  Inv'
<1>1. at' = [at EXCEPT ![p] = next] /\ DOMAIN at = Pass /\ cursor \in Int
  BY DEF Goes, Inv, PassInv, TableInv
<1>2. DOMAIN at' = Pass /\ \A q \in Pass : at'[q] = IF q = p THEN next ELSE at[q]
  BY <1>1
<1>3. Floor' = Floor /\ \A from, to : Events(from, to)' = Events(from, to)
  BY DEF Floor, Settled, Events, Tip
<1>4. ASSUME NEW q \in Pass
      PROVE  StandsWell(at[q])'
  <2>1. CASE q = p
    BY <1>2, <1>3, <2>1 DEF StandsWell, Fits
  <2>2. CASE q # p
    <3>1. StandsWell(at[q]) /\ at'[q] = at[q]
      BY <1>2, <2>2 DEF Inv, PassInv
    <3>q. QED BY <1>1, <1>3, <3>1 DEF StandsWell, Fits
  <2>q. QED BY <2>1, <2>2
<1>5. \A q \in Pass : Upright(at[q])'
  BY <1>2 DEF Inv, PassInv, Upright
<1>6. ChainInv'
  BY DEF Inv, ChainInv, Tip, Settled
<1>q. QED BY <1>2, <1>4, <1>5, <1>6 DEF Inv, PassInv

LEMMA TableStays ==
  ASSUME Inv, UNCHANGED <<chain, high, history, cursor>>
  PROVE  TableInv' /\ history \subseteq history' /\ cursor' \in Int /\ cursor' >= cursor
BY DEF Inv, TableInv, Floor, Settled, Events, Tip

LEMMA StaysWell ==
  ASSUME Inv, NEW p \in Pass, NEW next, Goes(p, next), Upright(next), UNCHANGED <<chain, high, history, cursor>>,
         StandsWell(next)
  PROVE  Inv'
<1>1. Fits(next, history', cursor')
  BY DEF StandsWell
<1>q. QED BY <1>1, TableStays, GoesWell

LEMMA ReadHeadStep ==
  ASSUME Inv, NEW p \in Pass, ReadHead(p)
  PROVE  Inv'
<1>1. Goes(p, Stand("head", 0, SafeHead, {})) /\ UNCHANGED <<chain, high, history, cursor>>
  BY DEF ReadHead
<1> DEFINE next == Stand("head", 0, SafeHead, {})
<1>2. Upright(next) /\ next.stage = "head" /\ next.from = 0 /\ next.to = SafeHead
  BY DEF Upright, Stand
<1>3. Goes(p, next)
  BY <1>1
<1> HIDE DEF next
<1>4. StandsWell(next)
  BY <1>2, Heights DEF Inv, StandsWell, Fits
<1>q. QED BY <1>1, <1>2, <1>3, <1>4, StaysWell

LEMMA ReadCursorStep ==
  ASSUME Inv, NEW p \in Pass, ReadCursor(p)
  PROVE  Inv'
<1> DEFINE from == cursor + 1
           safe == at[p].to
           range == Stand("range", from, RangeEnd(from, safe), {})
           next == IF from > safe THEN Idle ELSE range
<1>1. Goes(p, next) /\ UNCHANGED <<chain, high, history, cursor>>
  BY DEF ReadCursor
<1>2. StandsWell(at[p])
  BY DEF Inv, PassInv
<1>3. /\ Upright(range) /\ range.stage = "range" /\ range.from = from /\ range.to = RangeEnd(from, safe)
  BY DEF Upright, Stand
<1>4. /\ from \in Nat /\ safe \in Nat /\ safe <= Floor /\ from <= cursor + 1
      /\ from <= safe => RangeEnd(from, safe) \in Nat /\ RangeEnd(from, safe) <= safe
  BY <1>2 DEF Inv, TableInv, StandsWell, Fits, RangeEnd
<1>5. StandsWell(next) /\ Upright(next)
  <2> HIDE DEF range
  <2>1. CASE from > safe
    BY <2>1, IdleStands
  <2>2. CASE ~(from > safe)
    <3>1. next = range /\ from <= safe
      BY <1>4, <2>2
    <3> HIDE DEF next, from, safe
    <3>2. Floor \in Nat
      BY Heights DEF Inv
    <3>q. QED BY <1>3, <1>4, <3>1, <3>2 DEF StandsWell, Fits
  <2>q. QED BY <2>1, <2>2
<1> HIDE DEF next
<1>q. QED BY <1>1, <1>5, StaysWell

LEMMA ReadLogsStep ==
  ASSUME Inv, NEW p \in Pass, ReadLogs(p)
  PROVE  Inv'
<1> DEFINE next == Stand("rows", at[p].from, at[p].to, Events(at[p].from, at[p].to))
<1>1. Goes(p, next) /\ UNCHANGED <<chain, high, history, cursor>> /\ at[p].stage = "range"
  BY DEF ReadLogs
<1>2. StandsWell(at[p])
  BY DEF Inv, PassInv
<1>3. /\ Upright(next) /\ next.stage = "rows" /\ next.from = at[p].from /\ next.to = at[p].to
      /\ next.todo = Events(at[p].from, at[p].to)
  BY DEF Upright, Stand
<1> HIDE DEF next
<1>4. StandsWell(next)
  BY <1>1, <1>2, <1>3 DEF StandsWell, Fits
<1>q. QED BY <1>1, <1>3, <1>4, StaysWell

\* A transaction's event of a node is one event: what is known needs no row.
LEMMA KnownIsThere ==
  ASSUME Inv, NEW from, NEW to, NEW e \in Events(from, to), Known(e)
  PROVE  e \in history
<1>1. PICK r \in history : r.tx = e.tx /\ r.node = e.node
  BY DEF Known
<1>2. r \in Events(r.block, r.block)
  BY DEF Inv, TableInv
<1>3. /\ r.block \in 1 .. Tip /\ r.tx = chain[r.block].tx /\ r.node \in chain[r.block].nodes
      /\ r = [tx |-> r.tx, node |-> r.node, block |-> r.block]
  BY <1>2, EventFields
<1>4. /\ e.block \in 1 .. Tip /\ e.tx = chain[e.block].tx /\ e.node \in chain[e.block].nodes
      /\ e = [tx |-> e.tx, node |-> e.node, block |-> e.block]
  BY EventFields
<1>5. r.block = e.block
  BY <1>1, <1>3, <1>4 DEF Inv, ChainInv
<1>q. QED BY <1>1, <1>3, <1>4, <1>5

LEMMA WriteRowStep ==
  ASSUME Inv, NEW p \in Pass, WriteRow(p)
  PROVE  Inv'
<1>1. PICK e \in at[p].todo :
        /\ history' = IF Known(e) THEN history ELSE history \union {e}
        /\ Goes(p, [at[p] EXCEPT !.todo = @ \ {e}])
  BY DEF WriteRow
<1>2. UNCHANGED <<chain, high, cursor>> /\ at[p].stage = "rows"
  BY DEF WriteRow
<1> DEFINE next == [at[p] EXCEPT !.todo = @ \ {e}]
<1>3. StandsWell(at[p]) /\ Upright(at[p])
  BY DEF Inv, PassInv
<1>4. /\ Upright(next) /\ next.stage = "rows" /\ next.from = at[p].from /\ next.to = at[p].to
      /\ next.todo = at[p].todo \ {e}
  BY <1>2, <1>3 DEF Upright, Stand
<1>5. e \in Events(at[p].from, at[p].to)
  BY <1>2, <1>3 DEF StandsWell, Fits
<1>6. history' = history \union {e}
  BY <1>1, <1>5, KnownIsThere
<1>7. /\ e.block \in 1 .. Floor /\ e \in Events(e.block, e.block)
  <2>1. e.block \in 1 .. Tip /\ e.block \in at[p].from .. at[p].to
    BY <1>5, EventFields
  <2>2. at[p].to <= Floor /\ at[p].from \in Nat /\ at[p].to \in Nat /\ Floor \in Nat
    BY <1>3, Heights DEF StandsWell, Fits, Inv
  <2>3. e.block \in e.block .. e.block
    BY <2>1
  <2>q. QED BY <1>5, <2>1, <2>2, <2>3, EventElsewhere
<1>8. Floor' = Floor /\ \A from, to : Events(from, to)' = Events(from, to)
  BY <1>2 DEF Floor, Settled, Events, Tip
<1>9. TableInv'
  BY <1>2, <1>6, <1>7, <1>8 DEF Inv, TableInv
<1> HIDE DEF next
<1>10. Fits(next, history', cursor')
  BY <1>2, <1>3, <1>4, <1>6 DEF StandsWell, Fits
<1>q. QED
  <2>1. Goes(p, next)
    BY <1>1 DEF next
  <2>2. cursor' \in Int /\ cursor' >= cursor /\ history \subseteq history'
    BY <1>2, <1>6 DEF Inv, TableInv
  <2>q. QED BY <1>2, <1>4, <1>9, <1>10, <2>1, <2>2, GoesWell

\* The cursor moves over what is written: nothing is left between.
LEMMA AdvanceStep ==
  ASSUME Inv, NEW p \in Pass, Advance(p)
  PROVE  Inv'
<1>1. /\ at[p].stage = "rows" /\ at[p].todo = {} /\ cursor' = Moved(p) /\ Goes(p, Idle)
      /\ UNCHANGED <<chain, high, history>>
  BY DEF Advance
<1>2. StandsWell(at[p])
  BY DEF Inv, PassInv
<1>3. /\ cursor \in Int /\ cursor >= -1 /\ cursor <= Floor /\ Floor \in Nat
      /\ at[p].from \in Nat /\ at[p].to \in Nat /\ at[p].to <= Floor /\ at[p].from <= cursor + 1
      /\ Events(at[p].from, at[p].to) \subseteq history /\ Events(0, cursor) \subseteq history
  BY <1>1, <1>2, Heights DEF Inv, TableInv, StandsWell, Fits
<1>4. cursor' \in Int /\ cursor' >= cursor /\ cursor' <= Floor
  BY <1>1, <1>3 DEF Moved
<1>5. ASSUME NEW e \in Events(0, cursor')
      PROVE  e \in history
  <2>1. e.block \in 0 .. cursor'
    BY <1>5, EventFields
  <2>2. CASE e.block <= cursor
    <3>1. e.block \in 0 .. cursor
      BY <1>3, <2>1, <2>2
    <3>q. QED BY <1>3, <1>5, <3>1, EventElsewhere
  <2>3. CASE e.block > cursor
    <3>1. e.block \in at[p].from .. at[p].to
      BY <1>1, <1>3, <2>1, <2>3 DEF Moved
    <3>q. QED BY <1>3, <1>5, <3>1, EventElsewhere
  <2>q. QED BY <1>3, <2>1, <2>2, <2>3
<1>6. Floor' = Floor /\ \A from, to : Events(from, to)' = Events(from, to)
  BY <1>1 DEF Floor, Settled, Events, Tip
<1>7. TableInv'
  <2>1. Events(0, cursor)' \subseteq history
    BY <1>1, <1>5 DEF Events, Tip
  <2>q. QED BY <1>1, <1>3, <1>4, <1>6, <2>1 DEF Inv, TableInv
<1>8. Upright(Idle) /\ Fits(Idle, history', cursor')
  <2>1. Idle.stage = "idle" /\ Idle.from = 0 /\ Idle.to = 0
    BY DEF Idle, Stand
  <2>q. QED BY <1>3, <2>1, IdleStands DEF Fits
<1>q. QED BY <1>1, <1>4, <1>7, <1>8, GoesWell

LEMMA CrashStep ==
  ASSUME Inv, NEW p \in Pass, Crash(p)
  PROVE  Inv'
<1>1. Goes(p, Idle) /\ UNCHANGED <<chain, high, history, cursor>>
  BY DEF Crash
<1>q. QED BY <1>1, IdleStands, StaysWell

----------------------------------------------------------------------------
LEMMA InvStart == Init => Inv
<1> SUFFICES ASSUME Init PROVE Inv
  OBVIOUS
<1>1. chain = <<>> /\ high = 0 /\ history = {} /\ cursor = -1 /\ at = [p \in Pass |-> Idle]
  BY DEF Init
<1>2. ChainInv
  BY <1>1 DEF ChainInv, Tip, Settled
<1>3. Floor \in Nat /\ Tip = 0
  BY <1>1, <1>2, Heights DEF Tip
<1>4. Events(0, cursor) = {}
  BY <1>3 DEF Events
<1>5. TableInv
  BY <1>1, <1>3, <1>4 DEF TableInv
<1>6. Upright(Idle) /\ StandsWell(Idle)
  <2>1. Upright(Idle) /\ Idle.stage = "idle" /\ Idle.from = 0 /\ Idle.to = 0
    BY DEF Idle, Upright, Stand
  <2>q. QED BY <1>3, <2>1 DEF StandsWell, Fits
<1>q. QED BY <1>1, <1>2, <1>5, <1>6 DEF Inv, PassInv

LEMMA InvStep ==
  ASSUME Inv, [Next]_vars
  PROVE  Inv'
<1>1. ASSUME NEW tx \in Withdrawal, NEW nodes \in SUBSET Node \ {{}}, Block([tx |-> tx, nodes |-> nodes])
      PROVE  Inv'
  <2>1. /\ [tx |-> tx, nodes |-> nodes] \in BlockOf
        /\ [tx |-> tx, nodes |-> nodes].tx # None
    BY DEF BlockOf
  <2>q. QED BY <1>1, <2>1, BlockStep
<1>2. CASE Block(Empty)
  <2>1. Empty \in BlockOf /\ Empty.nodes = {}
    BY DEF BlockOf, Empty
  <2>q. QED BY <1>2, <2>1, BlockStep
<1>3. CASE Reorg
  BY <1>3, ReorgStep
<1>4. ASSUME NEW p \in Pass, ReadHead(p) \/ GoOn(p) \/ Crash(p)
      PROVE  Inv'
  BY <1>4, ReadHeadStep, ReadCursorStep, ReadLogsStep, WriteRowStep, AdvanceStep, CrashStep DEF GoOn
<1>5. CASE UNCHANGED vars
  BY <1>5 DEF vars, Inv, ChainInv, TableInv, PassInv, StandsWell, Fits, Upright, Floor, Settled, Events, Tip
<1>q. QED BY <1>1, <1>2, <1>3, <1>4, <1>5 DEF Next

\* Every row is an event of a block nothing can replace, and up to the cursor none
\* is missing (withdrawals.ts), for any number of passes, ranges and crashes.
THEOREM HistoryIsTheChains == Spec => []HistoryIsChains
<1>1. Inv => HistoryIsChains
  <2> SUFFICES ASSUME Inv PROVE HistoryIsChains
    OBVIOUS
  <2>1. Floor \in Nat /\ Floor <= Tip /\ Tip \in Nat /\ Settled \in Int /\ (Floor > 0 => Floor = Settled)
    BY Heights DEF Inv
  <2>2. ASSUME NEW r \in history
        PROVE  r.block \in 1 .. Tip /\ r.block <= Settled /\ r \in Events(r.block, r.block)
    BY <2>1 DEF Inv, TableInv
  <2>q. QED BY <2>2 DEF Inv, TableInv, HistoryIsChains
<1>q. QED BY <1>1, InvStart, InvStep, PTL DEF Spec

\* A node's part of a withdrawal is listed once, though a pass looks for the row
\* and writes it while others do the same (recordWithdrawals).
ListedOnce == \A r, q \in history : r.tx = q.tx /\ r.node = q.node => r = q

\* However passes overlap, no withdrawal is listed twice for a node.
THEOREM HistoryListsOnce == Spec => []ListedOnce
<1>1. Inv => ListedOnce
  <2> SUFFICES ASSUME Inv, NEW r \in history, NEW q \in history, r.tx = q.tx, r.node = q.node
               PROVE  r = q
    BY DEF ListedOnce
  <2>1. q \in Events(q.block, q.block)
    BY DEF Inv, TableInv
  <2>2. Known(q)
    BY DEF Known
  <2>3. /\ r \in Events(r.block, r.block)
    BY DEF Inv, TableInv
  <2>4. /\ r.block \in 1 .. Tip /\ r.tx = chain[r.block].tx /\ r.node \in chain[r.block].nodes
        /\ r = [tx |-> r.tx, node |-> r.node, block |-> r.block]
    BY <2>3, EventFields
  <2>5. /\ q.block \in 1 .. Tip /\ q.tx = chain[q.block].tx /\ q.node \in chain[q.block].nodes
        /\ q = [tx |-> q.tx, node |-> q.node, block |-> q.block]
    BY <2>1, EventFields
  <2>6. r.block = q.block
    BY <2>4, <2>5 DEF Inv, ChainInv
  <2>q. QED BY <2>4, <2>5, <2>6
<1>q. QED BY <1>1, InvStart, InvStep, PTL DEF Spec

----------------------------------------------------------------------------
\* The history is never revised: no step deletes a row, takes the cursor back or
\* replaces the block a row is about.
HistoryKept ==
    /\ history \subseteq history' /\ cursor' >= cursor
    /\ \A r \in history : r.block <= Len(chain') /\ chain'[r.block] = chain[r.block]

\* No pass takes a row or the cursor back.
LEMMA RowsAndCursorStay ==
  ASSUME Inv, NEW p \in Pass, ReadHead(p) \/ GoOn(p) \/ Crash(p)
  PROVE  UNCHANGED chain /\ history \subseteq history' /\ cursor' >= cursor
<1>0. cursor \in Int
  BY DEF Inv, TableInv
<1>1. CASE WriteRow(p)
  BY <1>0, <1>1 DEF WriteRow
<1>2. CASE Advance(p)
  <2>1. at[p].to \in Nat
    BY DEF Inv, PassInv, StandsWell, Fits
  <2>q. QED BY <1>0, <1>2, <2>1 DEF Advance, Moved
<1>3. CASE ReadHead(p) \/ ReadCursor(p) \/ ReadLogs(p) \/ Crash(p)
  BY <1>0, <1>3 DEF ReadHead, ReadCursor, ReadLogs, Crash
<1>q. QED BY <1>1, <1>2, <1>3 DEF GoOn

\* Nor does any other step: a reorganisation ends above the rows.
LEMMA StepKeepsHistory == Inv /\ [Next]_vars => HistoryKept
<1> SUFFICES ASSUME Inv, [Next]_vars PROVE HistoryKept
  OBVIOUS
<1>0. /\ cursor \in Int /\ Tip \in Nat /\ Floor <= Tip /\ Floor \in Nat
      /\ Settled \in Int /\ (Floor > 0 => Floor = Settled)
      /\ \A r \in history : r.block \in 1 .. Tip /\ r.block <= Floor
  BY Heights DEF Inv, TableInv
<1>1. ASSUME UNCHANGED chain, history \subseteq history', cursor' >= cursor
      PROVE  HistoryKept
  BY <1>0, <1>1 DEF HistoryKept, Tip
<1>2. ASSUME NEW b, Block(b)
      PROVE  HistoryKept
  <2>1. UNCHANGED <<history, cursor>> /\ chain' = Append(chain, b) /\ chain \in Seq(BlockOf)
    BY <1>2 DEF Block, Inv, ChainInv
  <2>2. Len(chain') = Tip + 1 /\ \A h \in 1 .. Tip : chain'[h] = chain[h]
    BY <2>1, AppendProperties DEF Tip
  <2>q. QED BY <1>0, <2>1, <2>2 DEF HistoryKept
<1>3. CASE Reorg
  <2>1. /\ UNCHANGED <<history, cursor>> /\ Tip > 0 /\ Tip > Settled
        /\ chain' = SubSeq(chain, 1, Tip - 1)
    BY <1>3 DEF Reorg
  <2>2. Len(chain') = Tip - 1 /\ \A h \in 1 .. Tip - 1 : chain'[h] = chain[h]
    BY <1>0, <2>1, WithoutTip DEF Inv, ChainInv, Tip
  <2>3. Floor < Tip
    BY <1>0, <2>1
  <2>q. QED BY <1>0, <2>1, <2>2, <2>3 DEF HistoryKept
<1>4. ASSUME NEW p \in Pass, ReadHead(p) \/ GoOn(p) \/ Crash(p)
      PROVE  HistoryKept
  BY <1>1, <1>4, RowsAndCursorStay
<1>5. CASE UNCHANGED vars
  BY <1>0, <1>1, <1>5 DEF vars
<1>q. QED BY <1>2, <1>3, <1>4, <1>5 DEF Next

\* The withdrawals listed stay listed, the cursor only advances, and no
\* reorganisation replaces a block a row is about (indexWithdrawals).
THEOREM HistoryIsKept == Spec => [][HistoryKept]_vars
<1>1. Inv /\ [Next]_vars => [HistoryKept]_vars
  BY StepKeepsHistory
<1>q. QED BY <1>1, InvStart, InvStep, PTL DEF Spec
=============================================================================
