------------------------ MODULE PaymentWatcherProofs ------------------------
(***************************************************************************)
(* Proofs about PaymentWatcher, for any transfers, passes, limits, chains  *)
(* and faults.                                                             *)
(***************************************************************************)
EXTENDS PaymentWatcher, TLAPS

USE WatcherAssumption DEF WatcherAssumption

----------------------------------------------------------------------------
(* The chain and the explorer, as the rest of the system sees them move.   *)

\* Confirmed blocks keep their transfers; the index admits to no less than before,
\* and what it was wrong about is not forgotten.
Steady ==
    /\ SafeHead' >= SafeHead
    /\ indexHead' >= indexHead
    /\ hidden \subseteq hidden'
    /\ \A t \in Transfers :
         at[t] \in 1..SafeHead \/ at'[t] \in 1..SafeHead => at'[t] = at[t]

\* The index is only ever wrong, in a block it has admitted to, about hidden transfers.
HiddenIsRight == \A t \in Transfers :
    at[t] \in 1..indexHead /\ indexAt[t] # at[t] => t \in hidden

Explorer == Block \/ Reorg \/ IndexBlock \/ \E t \in Transfers : IndexTransfer(t)

LEMMA SafeHeadType == WorldType => SafeHead \in 0..top
  BY DEF WorldType, SafeHead

LEMMA NextSafeHeadType == WorldType' => SafeHead' \in Nat
<1>1. WorldType' => (SafeHead \in 0..top)'
  BY SafeHeadType, PTL
<1>2. WorldType' => top' \in Nat
  BY DEF WorldType
<1>q. QED BY <1>1, <1>2

\* How the chain and the explorer move.
LEMMA ExplorerStep ==
  ASSUME WorldType, SkipType, HiddenIsRight, Explorer
  PROVE  /\ WorldType' /\ Steady /\ HiddenIsRight'
         /\ UNCHANGED <<store, pc, local, lock, skip>>
         /\ budget' \in [Fault -> Nat]
<1>0. SafeHead \in 0..top
  BY SafeHeadType
<1>1. CASE Block
  <2>1. /\ top' = top + 1
        /\ UNCHANGED <<indexHead, indexAt, hidden>>
        /\ UNCHANGED <<store, pc, local, lock, skip, budget>>
    BY <1>1 DEF Block
  <2>2. PICK ts \in SUBSET {t \in Transfers : at[t] = 0} :
          at' = [t \in Transfers |-> IF t \in ts THEN top + 1 ELSE at[t]]
    BY <1>1 DEF Block
  <2>3. WorldType'
    BY <2>1, <2>2 DEF WorldType
  <2>4. SafeHead' >= SafeHead
    BY <2>1 DEF WorldType, SafeHead
  <2>5. \A t \in Transfers : at'[t] = at[t] \/ (at[t] = 0 /\ at'[t] = top + 1)
    BY <2>2 DEF WorldType
  <2>6. Steady
    BY <2>1, <2>4, <2>5, <1>0 DEF Steady, WorldType
  <2>7. HiddenIsRight'
    BY <2>1, <2>5 DEF HiddenIsRight, WorldType
  <2>q. QED BY <2>1, <2>3, <2>6, <2>7 DEF SkipType
<1>2. CASE Reorg
  <2>1. PICK where \in [Transfers -> 0..top] :
          /\ \A t \in Transfers : Final(t) \/ where[t] \in 1..SafeHead => where[t] = at[t]
          /\ at' = where
          /\ hidden' = hidden \union Misplaced(where, indexAt, indexHead)
    BY <1>2 DEF Reorg
  <2>2. /\ UNCHANGED <<top, indexHead, indexAt>>
        /\ UNCHANGED <<store, pc, local, lock, skip>>
        /\ Spend("reorg")
    BY <1>2 DEF Reorg
  <2>3. WorldType'
    BY <2>1, <2>2 DEF WorldType, Misplaced
  <2>4. Steady
    BY <2>1, <2>2, <1>0 DEF Steady, Final, WorldType, SafeHead
  <2>5. HiddenIsRight'
    BY <2>1, <2>2 DEF HiddenIsRight, Misplaced, WorldType
  <2>6. budget' \in [Fault -> Nat]
    BY <2>2 DEF Spend, SkipType, Fault
  <2>q. QED BY <2>2, <2>3, <2>4, <2>5, <2>6
<1>3. CASE IndexBlock
  <2>1. /\ indexHead < top /\ indexHead' = indexHead + 1
        /\ hidden' = hidden \union Misplaced(at, indexAt, indexHead + 1)
        /\ UNCHANGED <<top, at, indexAt>>
        /\ UNCHANGED <<store, pc, local, lock, skip, budget>>
    BY <1>3 DEF IndexBlock
  <2>2. WorldType'
    BY <2>1 DEF WorldType, Misplaced
  <2>3. Steady
    BY <2>1, <1>0 DEF Steady, WorldType, SafeHead
  <2>4. HiddenIsRight'
    BY <2>1 DEF HiddenIsRight, Misplaced, WorldType
  <2>q. QED BY <2>1, <2>2, <2>3, <2>4 DEF SkipType
<1>4. ASSUME NEW t \in Transfers, IndexTransfer(t)
      PROVE  /\ WorldType' /\ Steady /\ HiddenIsRight'
             /\ UNCHANGED <<store, pc, local, lock, skip>>
             /\ budget' \in [Fault -> Nat]
  <2>1. /\ indexAt' = [indexAt EXCEPT ![t] = at[t]]
        /\ UNCHANGED <<top, at, indexHead, hidden>>
        /\ UNCHANGED <<store, pc, local, lock, skip, budget>>
    BY <1>4 DEF IndexTransfer
  <2>2. WorldType'
    BY <2>1 DEF WorldType
  <2>3. Steady
    BY <2>1, <1>0 DEF Steady, WorldType, SafeHead
  <2>4. HiddenIsRight'
    BY <2>1 DEF HiddenIsRight, WorldType
  <2>q. QED BY <2>1, <2>2, <2>3, <2>4 DEF SkipType
<1>q. QED BY <1>1, <1>2, <1>3, <1>4 DEF Explorer

\* A world that stands still is steady.
LEMMA StillWorld ==
  ASSUME WorldType, HiddenIsRight, UNCHANGED world
  PROVE  WorldType' /\ Steady /\ HiddenIsRight' /\ SafeHead' = SafeHead
<1>1. UNCHANGED <<top, at, indexHead, indexAt, hidden>>
  BY DEF world
<1>2. SafeHead' = SafeHead
  BY <1>1 DEF SafeHead
<1>3. SafeHead \in Nat /\ indexHead \in Nat
  BY SafeHeadType DEF WorldType
<1>q. QED BY <1>1, <1>2, <1>3 DEF WorldType, Steady, HiddenIsRight

----------------------------------------------------------------------------
(* What a pass knows while it runs.                                        *)

\* Ground the pass may still claim holds no transfer it has not found or still
\* has to look up where the chain has it.
Swept(s) == \A t \in Transfers :
    at[t] > 0 /\ at[t] \in from[s]..claim[s] =>
        t \in found[s] \/ t \in hidden \/ [id |-> t, block |-> at[t]] \in cands[s]

PassOK(s) ==
    /\ pc[s] \in {"reach", "walk"} => from[s] <= safe[s]
    /\ pc[s] = "walk" => reach[s] = None \/ reach[s] >= from[s]
    /\ \A t \in found[s] : Final(t)
    /\ pc[s] = "verify" => Swept(s)

Same(s) ==
    /\ pc'[s] = pc[s] /\ from'[s] = from[s] /\ safe'[s] = safe[s] /\ reach'[s] = reach[s]
    /\ cands'[s] = cands[s] /\ found'[s] = found[s] /\ claim'[s] = claim[s]

\* What a pass knows stays true while others act.
LEMMA PassKeeps ==
  ASSUME WorldType, WorldType', PassType, Steady, NEW s \in Passes, PassOK(s), Same(s)
  PROVE  PassOK(s)'
<1>0. SafeHead \in Nat /\ safe[s] \in 0..SafeHead /\ claim[s] \in Int /\ claim[s] <= safe[s]
      /\ from[s] \in Nat /\ found[s] \subseteq Transfers
  BY SafeHeadType DEF WorldType, PassType
<1>a. SafeHead' \in Nat
  BY NextSafeHeadType
<1>1. \A t \in Transfers : at[t] \in Nat /\ (Final(t) => Final(t)')
  BY <1>0, <1>a DEF Steady, Final, WorldType
<1>2. \A t \in found'[s] : Final(t)'
  BY <1>0, <1>1 DEF PassOK, Same
<1>3. ASSUME pc'[s] = "verify" PROVE Swept(s)'
  <2>1. SUFFICES ASSUME NEW t \in Transfers, at'[t] > 0, at'[t] \in from'[s]..claim'[s]
                 PROVE  t \in found'[s] \/ t \in hidden'
                        \/ [id |-> t, block |-> at'[t]] \in cands'[s]
    BY DEF Swept
  <2>2. at'[t] \in 1..SafeHead
    BY <1>0, <2>1 DEF Same
  <2>3. at'[t] = at[t]
    BY <2>2 DEF Steady
  <2>q. QED BY <1>3, <2>1, <2>3 DEF PassOK, Swept, Same, Steady
<1>q. QED BY <1>2, <1>3 DEF PassOK, Same

\* What a step of pass s leaves: a typed record of its own, and the others' alone.
PassStep(s) ==
    /\ UNCHANGED world
    /\ PassType'
    /\ PassOK(s)'
    /\ \A q \in Passes \ {s} : Same(q)

\* A pass that ends, or has ended its scan, knows nothing.
LEMMA Forgotten ==
  ASSUME TypeOK, HiddenIsRight, NEW s \in Passes, Forget(s), UNCHANGED world,
         NEW l \in {"off", "audit"}, Goto(s, l), lock' \in {lock, lock \ {s}}
  PROVE  PassStep(s)
<1>1. SafeHead' = SafeHead /\ SafeHead \in Nat /\ UNCHANGED indexHead /\ indexHead \in Nat
  BY StillWorld, SafeHeadType DEF TypeOK, WorldType, world
<1>2. PassType'
  BY <1>1 DEF TypeOK, PassType, Forget, Goto, Places
<1>3. PassOK(s)'
  BY DEF PassOK, Forget, Goto, TypeOK, PassType
<1>4. \A q \in Passes \ {s} : Same(q)
  BY DEF Same, Forget, Goto, TypeOK, PassType
<1>q. QED BY <1>2, <1>3, <1>4 DEF PassStep

LEMMA StartStep ==
  ASSUME TypeOK, HiddenIsRight, NEW s \in Passes, PassOK(s), Start(s)
  PROVE  PassStep(s)
<1>1. /\ UNCHANGED world /\ UNCHANGED <<from, safe, reach, cands, found, claim>>
      /\ pc' = [pc EXCEPT ![s] = "head"] /\ lock' = {s}
  BY DEF Start, Goto, local
<1>2. SafeHead' = SafeHead /\ UNCHANGED <<at, indexHead, hidden>>
  BY <1>1, StillWorld DEF TypeOK, world
<1>3. PassType'
  BY <1>1, <1>2 DEF TypeOK, PassType, Places
<1>4. PassOK(s)'
  BY <1>1, <1>2 DEF PassOK, TypeOK, PassType, Final
<1>5. \A q \in Passes \ {s} : Same(q)
  BY <1>1 DEF Same, TypeOK, PassType
<1>q. QED BY <1>1, <1>3, <1>4, <1>5 DEF PassStep

LEMMA ReadHeadStep ==
  ASSUME TypeOK, HiddenIsRight, NEW s \in Passes, PassOK(s), ReadHead(s)
  PROVE  PassStep(s)
<1>1. /\ UNCHANGED world /\ UNCHANGED <<from, reach, cands, found, claim, lock>>
      /\ pc' = [pc EXCEPT ![s] = "cursor"] /\ safe' = [safe EXCEPT ![s] = SafeHead]
  BY DEF ReadHead, Goto
<1>2. SafeHead' = SafeHead /\ SafeHead \in Nat /\ UNCHANGED <<at, indexHead, hidden>>
  BY <1>1, StillWorld, SafeHeadType DEF TypeOK, world, WorldType
<1>3. PassType'
  BY <1>1, <1>2 DEF TypeOK, PassType, Places
<1>4. PassOK(s)'
  BY <1>1, <1>2 DEF PassOK, TypeOK, PassType, Final
<1>5. \A q \in Passes \ {s} : Same(q)
  BY <1>1 DEF Same, TypeOK, PassType
<1>q. QED BY <1>1, <1>3, <1>4, <1>5 DEF PassStep

LEMMA ReadCursorStep ==
  ASSUME TypeOK, HiddenIsRight, NEW s \in Passes, PassOK(s), ReadCursor(s)
  PROVE  PassStep(s)
<1> DEFINE first == IF cursor = None THEN FirstBlock(s) ELSE cursor + 1
<1>1. CASE first > safe[s]
  BY <1>1, Forgotten DEF ReadCursor
<1>2. CASE ~(first > safe[s])
  <2>1. /\ UNCHANGED world /\ UNCHANGED <<safe, reach, cands, found, claim, lock>>
        /\ pc' = [pc EXCEPT ![s] = "reach"] /\ from' = [from EXCEPT ![s] = first]
    BY <1>2 DEF ReadCursor, Goto
  <2>2. SafeHead' = SafeHead /\ SafeHead \in Nat /\ UNCHANGED <<at, indexHead, hidden>>
    BY <2>1, StillWorld, SafeHeadType DEF TypeOK, world, WorldType
  <2>3. safe[s] \in Nat
    BY <2>2 DEF TypeOK, PassType
  <2>4. first \in Nat
    BY <2>3 DEF FirstBlock, TypeOK, StoreType, None
  <2>5. PassType'
    BY <2>1, <2>2, <2>4 DEF TypeOK, PassType, Places
  <2>6. PassOK(s)'
    BY <1>2, <2>1, <2>2, <2>3, <2>4 DEF PassOK, TypeOK, PassType, Final
  <2>7. \A q \in Passes \ {s} : Same(q)
    BY <2>1 DEF Same, TypeOK, PassType
  <2>q. QED BY <2>1, <2>5, <2>6, <2>7 DEF PassStep
<1>q. QED BY <1>1, <1>2

LEMMA ReadReachStep ==
  ASSUME TypeOK, HiddenIsRight, NEW s \in Passes, PassOK(s), ReadReach(s)
  PROVE  PassStep(s)
<1>1. CASE Goto(s, "audit") /\ Forget(s)
  BY <1>1, Forgotten DEF ReadReach
<1>2. CASE \E h \in {indexHead, None} :
             /\ h >= from[s] \/ h = None
             /\ reach' = [reach EXCEPT ![s] = h]
             /\ Goto(s, "walk")
             /\ UNCHANGED <<from, safe, cands, found, claim>>
  <2>1. PICK h \in {indexHead, None} :
          /\ h >= from[s] \/ h = None
          /\ reach' = [reach EXCEPT ![s] = h]
          /\ Goto(s, "walk")
          /\ UNCHANGED <<from, safe, cands, found, claim>>
    BY <1>2
  <2>2. UNCHANGED world /\ UNCHANGED lock /\ At(s, "reach")
    BY DEF ReadReach
  <2>3. SafeHead' = SafeHead /\ SafeHead \in Nat /\ UNCHANGED <<at, indexHead, hidden>>
        /\ indexHead \in Nat
    BY <2>2, StillWorld, SafeHeadType DEF TypeOK, world, WorldType
  <2>4. PassType'
    BY <2>1, <2>2, <2>3 DEF TypeOK, PassType, Places, Goto
  <2>5. PassOK(s)'
    BY <2>1, <2>2, <2>3 DEF PassOK, TypeOK, PassType, Final, Goto, At
  <2>6. \A q \in Passes \ {s} : Same(q)
    BY <2>1 DEF Same, TypeOK, PassType, Goto
  <2>q. QED BY <2>2, <2>4, <2>5, <2>6 DEF PassStep
<1>q. QED BY <1>1, <1>2 DEF ReadReach

----------------------------------------------------------------------------
(* Discovery.                                                              *)

\* A listing of a block the index has admitted to is the chain's, or hidden.
LEMMA ListedIsRight ==
  ASSUME WorldType, HiddenIsRight, NEW t \in Transfers, NEW b \in Int, NEW lo \in Nat,
         b <= indexHead, at[t] > 0, at[t] \in lo..b
  PROVE  t \in hidden \/ (indexAt[t] = at[t] /\ t \in Listed(lo, b))
<1>1. at[t] \in Nat /\ indexHead \in Nat /\ at[t] \in 1..indexHead
  BY DEF WorldType
<1>q. QED BY <1>1 DEF HiddenIsRight, Listed

\* A discovery that claims b has taken what it must.
LEMMA TakeStep ==
  ASSUME TypeOK, HiddenIsRight, NEW s \in Passes, PassOK(s),
         NEW ts \in SUBSET Transfers, NEW where \in [Transfers -> Nat], NEW b \in Int,
         Take(s, ts, where, b), b <= safe[s],
         \A t \in Transfers : at[t] > 0 /\ at[t] \in from[s]..b =>
            t \in hidden \/ (t \in ts /\ where[t] = at[t])
  PROVE  PassStep(s)
<1>1. /\ UNCHANGED world /\ UNCHANGED <<from, safe, reach, found, lock>>
      /\ pc' = [pc EXCEPT ![s] = "verify"]
      /\ cands' = [cands EXCEPT ![s] = {[id |-> t, block |-> where[t]] : t \in ts}]
      /\ claim' = [claim EXCEPT ![s] = b]
  BY DEF Take, Goto
<1>2. SafeHead' = SafeHead /\ UNCHANGED <<at, indexHead, hidden>>
  BY <1>1, StillWorld DEF TypeOK, world
<1>3. {[id |-> t, block |-> where[t]] : t \in ts} \in SUBSET [id : Transfers, block : Nat]
  OBVIOUS
<1>4. cands' \in [Passes -> SUBSET [id : Transfers, block : Nat]]
  BY <1>1, <1>3 DEF TypeOK, PassType
<1>5. PassType'
  BY <1>1, <1>2, <1>4 DEF TypeOK, PassType, Places
<1>6. Swept(s)'
  <2>1. SUFFICES ASSUME NEW t \in Transfers, at[t] > 0, at[t] \in from[s]..b, t \notin hidden
                 PROVE  [id |-> t, block |-> at[t]] \in cands'[s]
    BY <1>1, <1>2 DEF Swept, TypeOK, PassType
  <2>2. t \in ts /\ where[t] = at[t]
    BY <2>1
  <2>q. QED BY <1>1, <2>2 DEF TypeOK, PassType
<1>7. PassOK(s)'
  BY <1>1, <1>2, <1>6 DEF PassOK, TypeOK, PassType, Final
<1>8. \A q \in Passes \ {s} : Same(q)
  BY <1>1 DEF Same, TypeOK, PassType
<1>q. QED BY <1>1, <1>5, <1>7, <1>8 DEF PassStep

LEMMA DiscoverStep ==
  ASSUME TypeOK, HiddenIsRight, NEW s \in Passes, PassOK(s), Discover(s)
  PROVE  PassStep(s)
<1>0. /\ at \in [Transfers -> Nat] /\ indexAt \in [Transfers -> Nat]
      /\ indexHead \in Nat /\ from[s] \in Nat /\ safe[s] \in Nat
      /\ reach[s] \in (0..indexHead) \union {None}
  BY SafeHeadType DEF TypeOK, WorldType, PassType
<1>1. At(s, "walk")
  BY DEF Discover, WalkAll, WalkNewest, WalkOldest, ReadBlocks, Take
<1>2. /\ from[s] - 1 <= RangeEnd(s) /\ RangeEnd(s) <= safe[s] /\ RangeEnd(s) \in Nat
      /\ reach[s] # None => RangeEnd(s) <= indexHead
  BY <1>0, <1>1 DEF RangeEnd, Lower, PassOK, At, None
<1>3. CASE WalkAll(s)
  <2>1. \A t \in Transfers : at[t] > 0 /\ at[t] \in from[s]..MayClaim(s, RangeEnd(s)) =>
           t \in hidden \/ (t \in Listed(from[s], RangeEnd(s)) /\ indexAt[t] = at[t])
    BY <1>0, <1>2, ListedIsRight DEF MayClaim, TypeOK
  <2>2. MayClaim(s, RangeEnd(s)) \in Int /\ MayClaim(s, RangeEnd(s)) <= safe[s]
    BY <1>0, <1>2 DEF MayClaim
  <2>3. Listed(from[s], RangeEnd(s)) \in SUBSET Transfers
    BY DEF Listed
  <2>4. Take(s, Listed(from[s], RangeEnd(s)), indexAt, MayClaim(s, RangeEnd(s)))
    BY <1>3 DEF WalkAll
  <2>q. QED BY <1>0, <2>1, <2>2, <2>3, <2>4, TakeStep
<1>4. CASE WalkNewest(s)
  <2>1. PICK ts \in SUBSET Listed(from[s], RangeEnd(s)) : Take(s, ts, indexAt, from[s] - 1)
    BY <1>4 DEF WalkNewest
  <2>2. \A t \in Transfers : ~(at[t] > 0 /\ at[t] \in from[s]..(from[s] - 1))
    BY <1>0
  <2>3. ts \in SUBSET Transfers
    BY <2>1 DEF Listed
  <2>4. from[s] - 1 \in Int /\ from[s] - 1 <= safe[s]
    BY <1>0, <1>2
  <2>q. QED BY <1>0, <2>1, <2>2, <2>3, <2>4, TakeStep
<1>5. CASE WalkOldest(s)
  <2>1. PICK b \in (from[s] - 1)..(RangeEnd(s) - 1) :
          \E ts \in SUBSET Listed(from[s], b + 1) :
            /\ Listed(from[s], b) \subseteq ts
            /\ Take(s, ts, indexAt, MayClaim(s, b))
    BY <1>5 DEF WalkOldest
  <2>2. PICK ts \in SUBSET Listed(from[s], b + 1) :
            /\ Listed(from[s], b) \subseteq ts
            /\ Take(s, ts, indexAt, MayClaim(s, b))
    BY <2>1
  <2>3. b \in Int /\ b <= safe[s] /\ (reach[s] # None => b <= indexHead)
    BY <1>0, <1>2
  <2>4. MayClaim(s, b) \in Int /\ MayClaim(s, b) <= safe[s]
    BY <1>0, <1>2, <2>3 DEF MayClaim
  <2>5. \A t \in Transfers : at[t] > 0 /\ at[t] \in from[s]..MayClaim(s, b) =>
           t \in hidden \/ (t \in Listed(from[s], b) /\ indexAt[t] = at[t])
    BY <1>0, <2>3, ListedIsRight DEF MayClaim, TypeOK
  <2>6. ts \in SUBSET Transfers
    BY <2>2 DEF Listed
  <2>q. QED BY <1>0, <2>2, <2>4, <2>5, <2>6, TakeStep
<1>6. CASE ReadBlocks(s)
  <2>1. PICK b \in (from[s] - 1)..Lower(RangeEnd(s), from[s] + MaxBlocksPerPass - 1) :
          Take(s, {t \in Transfers : at[t] > 0 /\ at[t] \in from[s]..b}, at, b)
    BY <1>6 DEF ReadBlocks
  <2>2. b \in Int /\ b <= safe[s]
    BY <1>0, <1>2 DEF Lower
  <2>q. QED BY <1>0, <2>1, <2>2, TakeStep
<1>q. QED BY <1>3, <1>4, <1>5, <1>6 DEF Discover

----------------------------------------------------------------------------
(* Verification, the audit and the end of a pass.                          *)

LEMMA LookStep ==
  ASSUME TypeOK, HiddenIsRight, NEW s \in Passes, PassOK(s), NEW c \in cands[s],
         Look(s, c) \/ LookInVain(s, c)
  PROVE  PassStep(s)
<1>1. /\ UNCHANGED world /\ UNCHANGED <<pc, from, safe, reach, lock>>
      /\ pc[s] = "verify" /\ cands' = [cands EXCEPT ![s] = @ \ {c}]
  BY DEF Look, LookInVain, At
<1>2. SafeHead' = SafeHead /\ SafeHead \in Nat /\ UNCHANGED <<at, indexHead, hidden>>
  BY <1>1, StillWorld, SafeHeadType DEF TypeOK, world, WorldType
<1>3. /\ claim[s] \in Int /\ claim[s] <= safe[s] /\ safe[s] \in 0..SafeHead
      /\ c.id \in Transfers /\ c.block \in Nat /\ at \in [Transfers -> Nat]
      /\ c = [id |-> c.id, block |-> c.block]
  BY DEF TypeOK, PassType, WorldType
<1>4. \/ /\ at[c.id] \in 1..safe[s]
         /\ found' = [found EXCEPT ![s] = @ \union {c.id}]
         /\ UNCHANGED claim
      \/ \E b \in {c.block, at[c.id]} : /\ b > safe[s] \/ b = c.block \/ b = at[c.id]
                                       /\ Hold(s, b)
  BY DEF Look, LookInVain
<1>5. CASE /\ at[c.id] \in 1..safe[s]
           /\ found' = [found EXCEPT ![s] = @ \union {c.id}]
           /\ UNCHANGED claim
  <2>1. PassType'
    BY <1>1, <1>2, <1>3, <1>5 DEF TypeOK, PassType
  <2>2. Swept(s)'
    BY <1>1, <1>2, <1>3, <1>5 DEF PassOK, Swept, TypeOK, PassType
  <2>3. \A t \in found'[s] : Final(t)'
    BY <1>1, <1>2, <1>3, <1>5 DEF PassOK, Final, TypeOK, PassType
  <2>4. PassOK(s)'
    BY <1>1, <2>2, <2>3 DEF PassOK
  <2>5. \A q \in Passes \ {s} : Same(q)
    BY <1>1, <1>5 DEF Same, TypeOK, PassType
  <2>q. QED BY <1>1, <2>1, <2>4, <2>5 DEF PassStep
<1>6. ASSUME NEW b \in {c.block, at[c.id]}, Hold(s, b) PROVE PassStep(s)
  <2>1. /\ claim' = [claim EXCEPT ![s] = Lower(@, b - 1)] /\ UNCHANGED found
        /\ b \in Nat
    BY <1>3, <1>6 DEF Hold
  <2>2. /\ claim'[s] \in Int /\ claim'[s] <= claim[s] /\ claim'[s] < b
        /\ claim' = [claim EXCEPT ![s] = claim'[s]]
    BY <1>3, <2>1 DEF Lower, TypeOK, PassType
  <2>3. PassType'
    BY <1>1, <1>2, <1>3, <2>1, <2>2 DEF TypeOK, PassType
  <2>4. Swept(s)'
    <3>1. SUFFICES ASSUME NEW t \in Transfers, at[t] > 0, at[t] \in from[s]..claim'[s],
                          t \notin found[s], t \notin hidden
                   PROVE  [id |-> t, block |-> at[t]] \in cands'[s]
      BY <1>1, <1>2, <2>1 DEF Swept
    <3>2. from[s] \in Nat /\ at[t] \in from[s]..claim[s] /\ at[t] < b
      BY <1>3, <2>2, <3>1 DEF TypeOK, PassType
    <3>3. [id |-> t, block |-> at[t]] \in cands[s]
      BY <1>1, <3>1, <3>2 DEF PassOK, Swept
    <3>4. [id |-> t, block |-> at[t]] # c
      BY <1>3, <3>2
    <3>q. QED BY <1>1, <3>3, <3>4 DEF TypeOK, PassType
  <2>5. \A t \in found'[s] : Final(t)'
    BY <1>1, <1>2, <2>1 DEF PassOK, Final
  <2>6. PassOK(s)'
    BY <1>1, <2>4, <2>5 DEF PassOK
  <2>7. \A q \in Passes \ {s} : Same(q)
    BY <1>1, <2>1 DEF Same, TypeOK, PassType
  <2>q. QED BY <1>1, <2>3, <2>6, <2>7 DEF PassStep
<1>q. QED BY <1>4, <1>5, <1>6

\* Steps that only move on, or forget.
LEMMA MoveOn ==
  ASSUME TypeOK, HiddenIsRight, NEW s \in Passes, PassOK(s), UNCHANGED world,
         pc' = pc \/ Goto(s, "window"), pc[s] # "verify", lock' \in SUBSET Passes,
         UNCHANGED <<from, safe, reach, found, claim>>,
         cands' = cands \/ \E c \in cands[s] : cands' = [cands EXCEPT ![s] = @ \ {c}]
  PROVE  PassStep(s)
<1>1. SafeHead' = SafeHead /\ UNCHANGED <<at, indexHead, hidden>>
  BY StillWorld DEF TypeOK, world
<1>2. PassType'
  BY <1>1 DEF TypeOK, PassType, Places, Goto
<1>3. PassOK(s)'
  BY <1>1 DEF PassOK, TypeOK, PassType, Final, Goto
<1>4. \A q \in Passes \ {s} : Same(q)
  BY DEF Same, TypeOK, PassType, Goto
<1>q. QED BY <1>2, <1>3, <1>4 DEF PassStep

LEMMA ReadWindowStep ==
  ASSUME TypeOK, HiddenIsRight, NEW s \in Passes, PassOK(s), ReadWindow(s)
  PROVE  PassStep(s)
<1> DEFINE start == IF SafeHead > AuditWindow THEN SafeHead - AuditWindow ELSE 0
<1>1. /\ UNCHANGED world /\ UNCHANGED <<reach, cands, found, claim, lock>>
      /\ pc' = [pc EXCEPT ![s] = "list"]
      /\ safe' = [safe EXCEPT ![s] = SafeHead] /\ from' = [from EXCEPT ![s] = start]
  BY DEF ReadWindow, Goto
<1>2. SafeHead' = SafeHead /\ SafeHead \in Nat /\ UNCHANGED <<at, indexHead, hidden>>
  BY <1>1, StillWorld, SafeHeadType DEF TypeOK, world, WorldType
<1>3. start \in Nat
  BY <1>2
<1>4. PassType'
  BY <1>1, <1>2, <1>3 DEF TypeOK, PassType, Places
<1>5. PassOK(s)'
  BY <1>1, <1>2 DEF PassOK, TypeOK, PassType, Final
<1>6. \A q \in Passes \ {s} : Same(q)
  BY <1>1 DEF Same, TypeOK, PassType
<1>q. QED BY <1>1, <1>4, <1>5, <1>6 DEF PassStep

LEMMA AuditTakeStep ==
  ASSUME TypeOK, HiddenIsRight, NEW s \in Passes, PassOK(s),
         NEW ts \in SUBSET Transfers, AuditTake(s, ts)
  PROVE  PassStep(s)
<1>1. /\ UNCHANGED world /\ UNCHANGED <<from, safe, reach, found, claim, lock>>
      /\ pc' = [pc EXCEPT ![s] = "adopt"]
      /\ cands' = [cands EXCEPT ![s] = {[id |-> t, block |-> indexAt[t]] : t \in ts}]
  BY DEF AuditTake, Goto
<1>2. SafeHead' = SafeHead /\ UNCHANGED <<at, indexHead, hidden>>
  BY <1>1, StillWorld DEF TypeOK, world
<1>3. {[id |-> t, block |-> indexAt[t]] : t \in ts} \in SUBSET [id : Transfers, block : Nat]
  BY DEF TypeOK, WorldType
<1>4. PassType'
  BY <1>1, <1>2, <1>3 DEF TypeOK, PassType, Places
<1>5. PassOK(s)'
  BY <1>1, <1>2 DEF PassOK, TypeOK, PassType, Final
<1>6. \A q \in Passes \ {s} : Same(q)
  BY <1>1 DEF Same, TypeOK, PassType
<1>q. QED BY <1>1, <1>4, <1>5, <1>6 DEF PassStep

\* Every step of a pass leaves it and the others in order.
LEMMA EveryPassStep ==
  ASSUME TypeOK, HiddenIsRight, NEW s \in Passes, PassOK(s),
         Start(s) \/ Go(s) \/ Throw(s) \/ LoseLock(s)
  PROVE  PassStep(s)
<1>1. CASE Start(s)
  BY <1>1, StartStep
<1>2. CASE ReadHead(s)
  BY <1>2, ReadHeadStep
<1>3. CASE ReadCursor(s)
  BY <1>3, ReadCursorStep
<1>4. CASE ReadReach(s)
  BY <1>4, ReadReachStep
<1>5. CASE Discover(s)
  BY <1>5, DiscoverStep
<1>6. CASE Candidate(s)
  <2>1. PICK c \in cands[s] :
          Look(s, c) \/ LookInVain(s, c) \/ AuditAdopt(s, c) \/ AuditInVain(s, c)
    BY <1>6 DEF Candidate
  <2>2. CASE Look(s, c) \/ LookInVain(s, c)
    BY <2>2, LookStep
  <2>3. CASE AuditAdopt(s, c) \/ AuditInVain(s, c)
    <3>1. /\ UNCHANGED world /\ UNCHANGED <<pc, from, safe, reach, found, claim, lock>>
          /\ pc[s] = "adopt" /\ cands' = [cands EXCEPT ![s] = @ \ {c}]
      BY <2>3 DEF AuditAdopt, AuditInVain, At
    <3>2. lock' \in SUBSET Passes
      BY <3>1 DEF TypeOK, PassType
    <3>q. QED BY <3>1, <3>2, MoveOn
  <2>q. QED BY <2>1, <2>2, <2>3
<1>7. CASE Commit(s)
  BY <1>7, Forgotten DEF Commit
<1>8. CASE Audit(s)
  <2>1. CASE auditDue
    <3>1. /\ UNCHANGED world /\ UNCHANGED <<from, safe, reach, cands, found, claim, lock>>
          /\ Goto(s, "window") /\ pc[s] # "verify"
      BY <1>8, <2>1 DEF Audit, local, At
    <3>2. lock' \in SUBSET Passes
      BY <3>1 DEF TypeOK, PassType
    <3>q. QED BY <3>1, <3>2, MoveOn
  <2>2. CASE ~auditDue
    BY <1>8, <2>2, Forgotten DEF Audit, Quit
  <2>q. QED BY <2>1, <2>2
<1>9. CASE ReadWindow(s)
  BY <1>9, ReadWindowStep
<1>10. CASE AuditAll(s) \/ AuditNewest(s)
  <2>1. PICK ts \in SUBSET Listed(from[s], safe[s]) : AuditTake(s, ts)
    BY <1>10 DEF AuditAll, AuditNewest
  <2>2. ts \in SUBSET Transfers
    BY <2>1 DEF Listed
  <2>q. QED BY <2>1, <2>2, AuditTakeStep
<1>11. CASE AuditDone(s) \/ Throw(s)
  BY <1>11, Forgotten DEF AuditDone, Throw, Quit
<1>12. CASE LoseLock(s)
  <2>1. /\ UNCHANGED world /\ UNCHANGED <<pc, from, safe, reach, cands, found, claim>>
        /\ lock' = lock \ {s}
    BY <1>12 DEF LoseLock, local
  <2>2. SafeHead' = SafeHead /\ UNCHANGED <<at, indexHead, hidden>>
    BY <2>1, StillWorld DEF TypeOK, world
  <2>3. PassType'
    BY <2>1, <2>2 DEF TypeOK, PassType
  <2>4. PassOK(s)'
    BY <2>1, <2>2 DEF PassOK, Final, Swept
  <2>5. \A q \in Passes \ {s} : Same(q)
    BY <2>1 DEF Same
  <2>q. QED BY <2>1, <2>3, <2>4, <2>5 DEF PassStep
<1>q. QED BY <1>1, <1>2, <1>3, <1>4, <1>5, <1>6, <1>7, <1>8, <1>9, <1>10, <1>11, <1>12 DEF Go

----------------------------------------------------------------------------
(* The ledger, the cursor and the fast-forward.                            *)

\* What a fast-forward has established when it moves on.
SkipOK ==
    /\ skip.step # "off" => cursor # None /\ skip.from \in 1..(cursor + 1)
    /\ skip.step \in {"walk", "move"} => skip.to <= indexHead
    /\ skip.step = "move" => \A t \in Transfers :
         at[t] \in skip.from..skip.to => t \in hidden

Covered == NothingFromTheTip /\ CursorCovers /\ SkipOK

\* Nothing that was covered is uncovered by a step that adds to the ledger what is
\* final and leaves the cursor.
LEMMA CoveredKeeps ==
  ASSUME WorldType, WorldType', StoreType, SkipType, Steady, Covered,
         ledger \subseteq ledger', \A t \in ledger' \ ledger : t \in Transfers /\ Final(t),
         UNCHANGED <<cursor, floor, skip>>
  PROVE  Covered'
<1>0. /\ SafeHead \in Nat /\ SafeHead' \in Nat /\ cursor \in Nat \union {None} /\ floor \in Nat
      /\ \A t \in Transfers : at[t] \in Nat /\ at'[t] \in Nat
      /\ indexHead \in Nat /\ indexHead' \in Nat
      /\ skip.from \in Nat /\ skip.to \in 0..SafeHead
  BY SafeHeadType, NextSafeHeadType DEF WorldType, StoreType, SkipType, None
<1>1. \A t \in Transfers : Final(t) => Final(t)'
  BY <1>0 DEF Steady, Final
<1>2. NothingFromTheTip'
  <2>1. \A t \in ledger' : Final(t)'
    BY <1>1 DEF Covered, NothingFromTheTip, StoreType
  <2>2. cursor <= SafeHead /\ SafeHead' >= SafeHead
    BY DEF Covered, NothingFromTheTip, Steady
  <2>3. cursor <= SafeHead'
    BY <1>0, <2>2 DEF None
  <2>q. QED BY <2>1, <2>3 DEF NothingFromTheTip
<1>3. CursorCovers'
  <2>1. SUFFICES ASSUME NEW t \in Transfers, at'[t] > 0, at'[t] \in floor..cursor
                 PROVE  t \in ledger' \/ t \in hidden'
    BY DEF CursorCovers
  <2>2. at'[t] \in 1..SafeHead
    BY <1>0, <2>1 DEF Covered, NothingFromTheTip, None
  <2>3. at'[t] = at[t]
    BY <2>2 DEF Steady
  <2>q. QED BY <2>1, <2>3 DEF Covered, CursorCovers, Steady
<1>4. SkipOK'
  <2>1. \A t \in Transfers : skip.step = "move" /\ at'[t] \in skip.from..skip.to => t \in hidden'
    <3>1. SUFFICES ASSUME NEW t \in Transfers, skip.step = "move",
                          at'[t] \in skip.from..skip.to
                   PROVE  t \in hidden'
      OBVIOUS
    <3>2. skip.from >= 1
      BY <1>0, <3>1 DEF Covered, SkipOK, None
    <3>3. at'[t] \in 1..SafeHead
      BY <1>0, <3>1, <3>2
    <3>4. at'[t] = at[t]
      BY <3>3 DEF Steady
    <3>q. QED BY <3>1, <3>4 DEF Covered, SkipOK, Steady
  <2>2. skip.step \in {"walk", "move"} => skip.to <= indexHead'
    BY <1>0 DEF Covered, SkipOK, Steady
  <2>q. QED BY <2>1, <2>2 DEF Covered, SkipOK
<1>q. QED BY <1>2, <1>3, <1>4 DEF Covered

\* The commit: what lies between the old cursor and the new one was found, or is hidden.
LEMMA CommitCovers ==
  ASSUME TypeOK, HiddenIsRight, Covered, NEW s \in Passes, PassOK(s), Commit(s)
  PROVE  Covered' /\ StoreType'
<1> DEFINE b == Lower(claim[s], from[s] + MaxCatchup - 1)
<1>1. /\ UNCHANGED world /\ UNCHANGED skip /\ UNCHANGED auditDue
      /\ ledger' = ledger \union found[s]
      /\ pc[s] = "verify" /\ cands[s] = {}
      /\ IF b >= from[s]
         THEN /\ SetCursor(b)
              /\ floor' = IF from[s] > cursor + 1 THEN from[s] ELSE floor
         ELSE UNCHANGED <<cursor, floor>>
  BY DEF Commit, At
<1>2. SafeHead' = SafeHead /\ SafeHead \in Nat /\ UNCHANGED <<at, indexHead, hidden>>
  BY <1>1, StillWorld, SafeHeadType DEF TypeOK, world, WorldType
<1>3. /\ claim[s] \in Int /\ claim[s] <= safe[s] /\ safe[s] \in 0..SafeHead /\ from[s] \in Nat
      /\ cursor \in Nat \union {None} /\ floor \in 0..(cursor + 1) /\ found[s] \subseteq Transfers
      /\ at \in [Transfers -> Nat]
  BY DEF TypeOK, PassType, StoreType, WorldType
<1>4. b \in Int /\ b <= claim[s] /\ b <= SafeHead
  BY <1>2, <1>3 DEF Lower
<1>5. /\ cursor' \in Nat \union {None} /\ cursor' >= cursor
      /\ floor' \in Nat /\ floor' <= cursor' + 1 /\ cursor' <= SafeHead
      /\ \A n \in Nat : n \in floor'..cursor' => n \in floor..cursor \/ n \in from[s]..claim[s]
  BY <1>1, <1>2, <1>3, <1>4 DEF SetCursor, None, Covered, NothingFromTheTip
<1>6. StoreType'
  <2>1. \A i, j : i \in Nat /\ j \in Nat \union {-1} /\ i <= j + 1 => i \in 0..(j + 1)
    OBVIOUS
  <2>2. floor' \in 0..(cursor' + 1)
    BY <1>5, <2>1 DEF None
  <2>3. ledger' \subseteq Transfers
    BY <1>1, <1>3 DEF TypeOK, StoreType
  <2>4. cursor' \in Nat \union {None}
    BY <1>5
  <2>q. QED BY <1>1, <2>2, <2>3, <2>4 DEF TypeOK, StoreType
<1>7. \A t \in ledger' : Final(t)'
  BY <1>1, <1>2 DEF Covered, NothingFromTheTip, PassOK, Final
<1>8. NothingFromTheTip'
  BY <1>2, <1>5, <1>7 DEF NothingFromTheTip
<1>9. \A t \in Transfers : at[t] > 0 /\ at[t] \in from[s]..claim[s] => t \in found[s] \/ t \in hidden
  BY <1>1 DEF PassOK, Swept
<1>10. CursorCovers'
  <2>1. SUFFICES ASSUME NEW t \in Transfers, at[t] > 0, at[t] \in floor'..cursor'
                 PROVE  t \in ledger' \/ t \in hidden
    BY <1>2 DEF CursorCovers
  <2>2. at[t] \in floor..cursor \/ at[t] \in from[s]..claim[s]
    BY <1>3, <1>5, <2>1
  <2>q. QED BY <1>1, <1>9, <2>1, <2>2 DEF Covered, CursorCovers
<1>11. SkipOK'
  BY <1>1, <1>2, <1>3, <1>5 DEF Covered, SkipOK, None, TypeOK, SkipType
<1>q. QED BY <1>6, <1>8, <1>10, <1>11 DEF Covered

\* The fast-forward: it moves the cursor over ground that is empty or hidden.
LEMMA FastForwardCovers ==
  ASSUME TypeOK, HiddenIsRight, Covered, FastForward
  PROVE  /\ Covered' /\ StoreType' /\ SkipType'
         /\ UNCHANGED <<world, pc, local, lock>>
<1>0. /\ SafeHead \in Nat /\ cursor \in Nat \union {None} /\ cursor <= SafeHead /\ indexHead \in Nat
      /\ floor \in 0..(cursor + 1) /\ at \in [Transfers -> Nat]
      /\ skip.from \in Nat /\ skip.to \in 0..SafeHead
      /\ skip \in [step : {"off", "reach", "walk", "move"}, from : Nat, to : 0..SafeHead]
  BY SafeHeadType DEF TypeOK, WorldType, StoreType, SkipType, None, Covered, NothingFromTheTip
<1>1. UNCHANGED <<world, pc, local, lock>> /\ UNCHANGED <<ledger, floor, auditDue, budget>>
  BY DEF FastForward, AskSkip, SkipReach, SkipWalk, SkipRefused, SkipMove, store
<1>2. SafeHead' = SafeHead /\ UNCHANGED <<at, indexHead, hidden, indexAt>>
  BY <1>1, StillWorld DEF TypeOK, world
<1>3. \A t \in Transfers : Final(t) => Final(t)'
  BY <1>2 DEF Final
<1>4. CASE AskSkip
  <2>1. /\ cursor # None /\ UNCHANGED cursor
        /\ \E b \in (cursor + 1)..SafeHead : skip' = [step |-> "reach", from |-> cursor + 1, to |-> b]
    BY <1>4 DEF AskSkip, store
  <2>2. SkipType' /\ SkipOK'
    BY <1>0, <1>1, <1>2, <2>1 DEF SkipType, SkipOK, TypeOK, None
  <2>q. QED BY <1>1, <1>2, <1>3, <2>1, <2>2 DEF Covered, NothingFromTheTip, CursorCovers, TypeOK, StoreType
<1>5. CASE SkipReach
  <2>1. /\ skip.step = "reach" /\ indexHead >= skip.to /\ skip' = [skip EXCEPT !.step = "walk"]
        /\ UNCHANGED cursor
    BY <1>5 DEF SkipReach, store
  <2>2. SkipType' /\ SkipOK'
    BY <1>0, <1>1, <1>2, <2>1 DEF SkipType, SkipOK, TypeOK, Covered
  <2>q. QED BY <1>1, <1>2, <1>3, <2>1, <2>2 DEF Covered, NothingFromTheTip, CursorCovers, TypeOK, StoreType
<1>6. CASE SkipWalk
  <2>1. /\ skip.step = "walk" /\ Listed(skip.from, skip.to) = {}
        /\ skip' = [skip EXCEPT !.step = "move"] /\ UNCHANGED cursor
    BY <1>6 DEF SkipWalk, store
  <2>2. /\ skip'.step = "move" /\ skip'.from = skip.from /\ skip'.to = skip.to
        /\ skip.from \in 1..(cursor + 1) /\ cursor # None /\ skip.to <= indexHead
    BY <1>0, <2>1 DEF Covered, SkipOK
  <2>3. ASSUME NEW t \in Transfers, at[t] \in skip.from..skip.to PROVE t \in hidden
    <3>1. at[t] > 0 /\ skip.to \in Int
      BY <1>0, <2>2, <2>3
    <3>q. QED BY <1>0, <2>1, <2>2, <2>3, <3>1, ListedIsRight DEF TypeOK
  <2>4. SkipType'
    BY <1>0, <1>1, <1>2, <2>1 DEF SkipType, TypeOK
  <2>5. SkipOK'
    BY <1>2, <2>1, <2>2, <2>3 DEF SkipOK
  <2>q. QED BY <1>1, <1>2, <1>3, <2>1, <2>4, <2>5 DEF Covered, NothingFromTheTip, CursorCovers, TypeOK, StoreType
<1>7. CASE SkipRefused
  <2>1. skip' = NoSkip /\ UNCHANGED cursor
    BY <1>7 DEF SkipRefused, store
  <2>2. SkipType' /\ SkipOK'
    BY <1>0, <1>1, <1>2, <2>1 DEF SkipType, SkipOK, TypeOK, NoSkip
  <2>q. QED BY <1>1, <1>2, <1>3, <2>1, <2>2 DEF Covered, NothingFromTheTip, CursorCovers, TypeOK, StoreType
<1>8. CASE SkipMove
  <2>1. skip.step = "move" /\ SetCursor(skip.to) /\ skip' = NoSkip
    BY <1>8 DEF SkipMove
  <2>2. SkipType' /\ SkipOK'
    BY <1>0, <1>1, <1>2, <2>1 DEF SkipType, SkipOK, TypeOK, NoSkip
  <2>3. /\ cursor' \in Nat /\ cursor' <= SafeHead /\ floor <= cursor' + 1
        /\ \A n \in Nat : n \in floor..cursor' => n \in floor..cursor \/ n \in skip.from..skip.to
    BY <1>0, <2>1 DEF SetCursor, Covered, SkipOK, None
  <2>4. StoreType'
    <3>1. cursor + 1 \in Nat
      BY <1>0 DEF None
    <3>2. floor \in Nat
      BY <1>0, <3>1
    <3>3. floor' = floor
      BY <1>1
    <3>4. cursor' \in Nat /\ floor <= cursor' + 1
      BY <2>3, Zenon
    <3>5. \A i, j \in Nat : i <= j + 1 => i \in 0..(j + 1)
      OBVIOUS
    <3>6. floor \in 0..(cursor' + 1)
      BY <3>2, <3>4, <3>5
    <3>7. floor' \in 0..(cursor' + 1)
      BY <3>3, <3>6, Zenon
    <3>q. QED BY <1>1, <3>4, <3>7 DEF TypeOK, StoreType
  <2>5. CursorCovers'
    BY <1>0, <1>1, <1>2, <2>1, <2>3 DEF Covered, CursorCovers, SkipOK
  <2>q. QED BY <1>1, <1>2, <1>3, <2>2, <2>3, <2>4, <2>5
           DEF Covered, NothingFromTheTip, TypeOK, StoreType
<1>q. QED BY <1>1, <1>4, <1>5, <1>6, <1>7, <1>8 DEF FastForward

----------------------------------------------------------------------------
(* The invariant.                                                          *)

Inv ==
    /\ TypeOK
    /\ HiddenIsRight
    /\ \A s \in Passes : PassOK(s)
    /\ Covered

LEMMA InitInv == Init => Inv
<1> SUFFICES ASSUME Init PROVE Inv
  OBVIOUS
<1>1. SafeHead = 0
  BY DEF Init, SafeHead
<1>2. TypeOK
  <2>1. WorldType
    BY DEF Init, WorldType
  <2>2. StoreType
    BY DEF Init, StoreType, None
  <2>3. PassType
    BY <1>1 DEF Init, PassType, Places
  <2>4. SkipType
    BY <1>1 DEF Init, SkipType, NoSkip
  <2>q. QED BY <2>1, <2>2, <2>3, <2>4 DEF TypeOK
<1>3. HiddenIsRight
  BY DEF Init, HiddenIsRight
<1>4. \A s \in Passes : PassOK(s)
  BY DEF Init, PassOK
<1>5. Covered
  BY <1>1 DEF Init, Covered, NothingFromTheTip, CursorCovers, SkipOK, NoSkip, None
<1>q. QED BY <1>2, <1>3, <1>4, <1>5 DEF Inv

LEMMA NextInv == Inv /\ [Next]_vars => Inv'
<1> SUFFICES ASSUME Inv, [Next]_vars PROVE Inv'
  OBVIOUS
<1> USE DEF Inv
<1>1. CASE Explorer
  <2>1. /\ WorldType' /\ Steady /\ HiddenIsRight'
        /\ UNCHANGED <<store, pc, local, lock, skip>>
        /\ budget' \in [Fault -> Nat]
    BY <1>1, ExplorerStep DEF TypeOK
  <2>2. /\ UNCHANGED <<ledger, cursor, floor, auditDue, pc, lock, skip>>
        /\ UNCHANGED <<from, safe, reach, cands, found, claim>>
    BY <2>1 DEF store, local
  <2>3. SafeHead \in Nat /\ SafeHead' \in Nat /\ SafeHead' >= SafeHead
        /\ indexHead \in Nat /\ indexHead' \in Nat /\ indexHead' >= indexHead
    BY <2>1, SafeHeadType, NextSafeHeadType DEF TypeOK, WorldType, Steady
  <2>4. StoreType'
    BY <2>2 DEF TypeOK, StoreType
  <2>5. PassType'
    BY <2>2, <2>3 DEF TypeOK, PassType
  <2>6. SkipType'
    BY <2>1, <2>2, <2>3 DEF TypeOK, SkipType
  <2>7. ASSUME NEW s \in Passes PROVE PassOK(s)'
    BY <2>1, <2>2, PassKeeps DEF TypeOK, Same
  <2>8. Covered'
    BY <2>1, <2>2, CoveredKeeps DEF TypeOK
  <2>q. QED BY <2>1, <2>4, <2>5, <2>6, <2>7, <2>8 DEF TypeOK
<1>2. ASSUME UNCHANGED world, UNCHANGED <<pc, local, lock>>, StoreType', SkipType', Covered'
      PROVE  Inv'
  <2>1. WorldType' /\ Steady /\ HiddenIsRight' /\ SafeHead' = SafeHead
    BY <1>2, StillWorld DEF TypeOK
  <2>2. UNCHANGED <<pc, lock, from, safe, reach, cands, found, claim, indexHead>>
    BY <1>2 DEF local, world
  <2>3. PassType'
    BY <2>1, <2>2 DEF TypeOK, PassType
  <2>4. ASSUME NEW s \in Passes PROVE PassOK(s)'
    BY <2>1, <2>2, PassKeeps DEF TypeOK, Same
  <2>q. QED BY <1>2, <2>1, <2>3, <2>4 DEF TypeOK
<1>3. CASE AuditFallsDue
  <2>1. /\ UNCHANGED world /\ UNCHANGED <<pc, local, lock>> /\ auditDue' \in BOOLEAN
        /\ UNCHANGED <<ledger, cursor, floor, skip, budget>>
    BY <1>3 DEF AuditFallsDue
  <2>2. WorldType' /\ Steady /\ SafeHead' = SafeHead
    BY <2>1, StillWorld DEF TypeOK
  <2>3. StoreType' /\ SkipType'
    BY <2>1, <2>2 DEF TypeOK, StoreType, SkipType
  <2>4. Covered'
    BY <2>1, <2>2, CoveredKeeps DEF TypeOK
  <2>q. QED BY <1>2, <2>1, <2>3, <2>4
<1>4. CASE FastForward
  BY <1>2, <1>4, FastForwardCovers
<1>5. ASSUME NEW t \in Transfers, Adopt(t) PROVE Inv'
  <2>1. /\ UNCHANGED world /\ UNCHANGED <<pc, local, lock>> /\ ledger' = ledger \union {t} /\ Final(t)
        /\ UNCHANGED <<auditDue, cursor, floor, skip, budget>>
    BY <1>5 DEF Adopt
  <2>2. WorldType' /\ Steady /\ SafeHead' = SafeHead
    BY <2>1, StillWorld DEF TypeOK
  <2>3. StoreType' /\ SkipType'
    BY <2>1, <2>2 DEF TypeOK, StoreType, SkipType
  <2>4. Covered'
    BY <2>1, <2>2, CoveredKeeps DEF TypeOK
  <2>q. QED BY <1>2, <2>1, <2>3, <2>4
<1>6. ASSUME NEW s \in Passes, Start(s) \/ Go(s) \/ Throw(s) \/ LoseLock(s) PROVE Inv'
  <2>1. PassStep(s)
    BY <1>6, EveryPassStep
  <2>2. WorldType' /\ Steady /\ HiddenIsRight' /\ SafeHead' = SafeHead
    BY <2>1, StillWorld DEF TypeOK, PassStep
  <2>3. ASSUME NEW q \in Passes PROVE PassOK(q)'
    BY <2>1, <2>2, PassKeeps DEF TypeOK, PassStep
  <2>4. UNCHANGED skip /\ budget' \in [Fault -> Nat]
    <3>1. CASE Start(s) \/ Go(s)
      BY <3>1 DEF Start, Go, ReadHead, ReadCursor, ReadReach, Discover, Candidate, Commit, Audit,
            ReadWindow, AuditAll, AuditNewest, AuditDone, WalkAll, WalkNewest, WalkOldest,
            ReadBlocks, Take, Look, LookInVain, AuditTake, AuditAdopt, AuditInVain, TypeOK, SkipType
    <3>2. CASE Throw(s) \/ LoseLock(s)
      BY <3>2 DEF Throw, LoseLock, Spend, Fault, TypeOK, SkipType
    <3>q. QED BY <1>6, <3>1, <3>2
  <2>5. SkipType'
    BY <2>2, <2>4 DEF TypeOK, SkipType
  <2>6. CASE Commit(s)
    <3>1. Covered' /\ StoreType'
      BY <2>6, CommitCovers
    <3>q. QED BY <2>1, <2>2, <2>3, <2>5, <3>1 DEF TypeOK, PassStep
  <2>7. ASSUME ~Commit(s)
        PROVE  /\ UNCHANGED <<cursor, floor>> /\ auditDue' \in BOOLEAN
               /\ ledger' = ledger \/ \E t \in Transfers : Final(t) /\ ledger' = ledger \union {t}
    <3>1. CASE \E c \in cands[s] : AuditAdopt(s, c)
      <4>1. PICK c \in cands[s] : AuditAdopt(s, c)
        BY <3>1
      <4>2. c.id \in Transfers
        BY DEF TypeOK, PassType
      <4>q. QED BY <4>1, <4>2 DEF AuditAdopt, TypeOK, StoreType
    <3>2. CASE ~(\E c \in cands[s] : AuditAdopt(s, c))
      <4>1. UNCHANGED <<ledger, cursor, floor>> /\ auditDue' \in {auditDue, FALSE}
        BY <1>6, <2>7, <3>2
           DEF Start, Go, ReadHead, ReadCursor, ReadReach, Discover, Candidate, Audit,
            ReadWindow, AuditAll, AuditNewest, AuditDone, WalkAll, WalkNewest, WalkOldest,
            ReadBlocks, Take, Look, LookInVain, AuditTake, AuditInVain, Throw, LoseLock, store
      <4>q. QED BY <4>1 DEF TypeOK, StoreType
    <3>q. QED BY <3>1, <3>2
  <2>8. CASE ~Commit(s)
    <3>1. StoreType'
      BY <2>7, <2>8 DEF TypeOK, StoreType
    <3>2. Covered'
      BY <2>2, <2>4, <2>7, <2>8, CoveredKeeps DEF TypeOK
    <3>q. QED BY <2>1, <2>2, <2>3, <2>5, <3>1, <3>2 DEF TypeOK, PassStep
  <2>q. QED BY <2>6, <2>8
<1>7. CASE UNCHANGED vars
  <2>1. /\ UNCHANGED world /\ UNCHANGED <<pc, local, lock, skip, budget>>
        /\ UNCHANGED <<ledger, cursor, floor, auditDue>>
    BY <1>7 DEF vars, store
  <2>2. WorldType' /\ Steady /\ SafeHead' = SafeHead
    BY <2>1, StillWorld DEF TypeOK
  <2>3. StoreType' /\ SkipType'
    BY <2>1, <2>2 DEF TypeOK, StoreType, SkipType
  <2>4. Covered'
    BY <2>1, <2>2, CoveredKeeps DEF TypeOK
  <2>q. QED BY <1>2, <2>1, <2>3, <2>4
<1>q. QED BY <1>1, <1>3, <1>4, <1>5, <1>6, <1>7 DEF Next, World, Explorer

LEMMA SpecInv == Spec => []Inv
  BY InitInv, NextInv, PTL DEF Spec

\* The types hold: no pass claims ground beyond the safe head it read, and only a
\* first run writes off ground before the cursor (scanPayments).
THEOREM WatcherTypeOK == Spec => []TypeOK
  BY SpecInv, PTL DEF Inv

\* Neither a payment nor the cursor is ever in a block that may still be replaced
\* (verify, scanPayments, fastForwardCursor).
THEOREM WatcherNothingFromTheTip == Spec => []NothingFromTheTip
<1>1. Inv => NothingFromTheTip
  BY DEF Inv, Covered
<1>q. QED BY SpecInv, <1>1, PTL

\* The cursor moves only over ground that was covered, however many passes overlap,
\* whatever fails, and with fast-forwards between any two steps (commit).
THEOREM WatcherCursorCovers == Spec => []CursorCovers
<1>1. Inv => CursorCovers
  BY DEF Inv, Covered
<1>q. QED BY SpecInv, <1>1, PTL
----------------------------------------------------------------------------
(* What was recorded stays recorded.                                       *)

\* Payments are never deleted, the cursor never goes back, and a recorded payment
\* is not moved to another block or out of the chain.
PastIsKept ==
    /\ ledger \subseteq ledger' /\ cursor' >= cursor
    /\ \A t \in ledger : at'[t] = at[t]

\* No pass takes a payment out of the ledger, or the cursor back.
LEMMA PassesAddOnly ==
  ASSUME TypeOK, NEW s \in Passes, Start(s) \/ Go(s) \/ Throw(s) \/ LoseLock(s)
  PROVE  ledger \subseteq ledger' /\ cursor' >= cursor
<1>1. cursor \in Int
  BY DEF TypeOK, StoreType, None
<1>2. CASE Commit(s)
  <2>1. ledger \subseteq ledger'
    BY <1>2 DEF Commit
  <2>2. CASE UNCHANGED cursor
    BY <1>1, <2>1, <2>2
  <2>3. CASE \E b \in Int : SetCursor(b)
    BY <1>1, <2>1, <2>3 DEF SetCursor
  <2>4. Lower(claim[s], from[s] + MaxCatchup - 1) \in Int
    BY WatcherAssumption DEF TypeOK, PassType, Lower
  <2>q. QED BY <1>2, <2>2, <2>3, <2>4 DEF Commit
<1>3. CASE \E c \in cands[s] : AuditAdopt(s, c)
  BY <1>1, <1>3 DEF AuditAdopt
<1>4. CASE ~Commit(s) /\ ~(\E c \in cands[s] : AuditAdopt(s, c))
  <2>1. UNCHANGED <<ledger, cursor>>
    BY <1>4 DEF Start, Go, ReadHead, ReadCursor, ReadReach, Discover, Candidate, Audit,
          ReadWindow, AuditAll, AuditNewest, AuditDone, WalkAll, WalkNewest, WalkOldest,
          ReadBlocks, Take, Look, LookInVain, AuditTake, AuditInVain, Throw, LoseLock, store
  <2>q. QED BY <1>1, <2>1
<1>q. QED BY <1>2, <1>3, <1>4

\* Nor does any other step; what was recorded is below the reach of reorganisations.
LEMMA StepKeepsThePast == Inv /\ [Next]_vars => PastIsKept
<1> SUFFICES ASSUME Inv, [Next]_vars PROVE PastIsKept
  OBVIOUS
<1>0. TypeOK /\ HiddenIsRight /\ NothingFromTheTip /\ cursor \in Int
  BY DEF Inv, Covered, TypeOK, StoreType, None
<1>1. CASE Explorer
  <2>1. Steady /\ UNCHANGED <<ledger, cursor>>
    BY <1>0, <1>1, ExplorerStep DEF TypeOK, store
  <2>2. \A t \in ledger : at'[t] = at[t]
    BY <1>0, <2>1 DEF NothingFromTheTip, Final, Steady, TypeOK, StoreType
  <2>q. QED BY <1>0, <2>1, <2>2 DEF PastIsKept
<1>2. ASSUME UNCHANGED world, ledger \subseteq ledger', cursor' >= cursor PROVE PastIsKept
  BY <1>2 DEF world, PastIsKept
<1>3. CASE AuditFallsDue \/ UNCHANGED vars
  BY <1>0, <1>2, <1>3 DEF AuditFallsDue, vars, store
<1>4. CASE FastForward
  <2>1. CASE SkipMove
    <3>1. skip.to \in Int
      BY SafeHeadType, <1>0 DEF TypeOK, SkipType
    <3>2. UNCHANGED world /\ UNCHANGED ledger /\ SetCursor(skip.to)
      BY <2>1 DEF SkipMove
    <3>q. QED BY <1>0, <1>2, <3>1, <3>2 DEF SetCursor
  <2>2. CASE AskSkip \/ SkipReach \/ SkipWalk \/ SkipRefused
    BY <1>0, <1>2, <2>2 DEF AskSkip, SkipReach, SkipWalk, SkipRefused, store
  <2>q. QED BY <1>4, <2>1, <2>2 DEF FastForward
<1>5. ASSUME NEW t \in Transfers, Adopt(t) PROVE PastIsKept
  BY <1>0, <1>2, <1>5 DEF Adopt
<1>6. ASSUME NEW s \in Passes, Start(s) \/ Go(s) \/ Throw(s) \/ LoseLock(s) PROVE PastIsKept
  <2>1. UNCHANGED world
    BY <1>0, <1>6, EveryPassStep DEF PassStep, Inv
  <2>q. QED BY <1>0, <1>2, <1>6, <2>1, PassesAddOnly
<1>q. QED BY <1>1, <1>3, <1>4, <1>5, <1>6 DEF Next, World, Explorer

\* The payments table only grows and the cursor only advances, with overlapping
\* passes, audits, adoptions and fast-forwards in any order, and no reorganisation
\* moves what was recorded (commit, fastForwardCursor).
THEOREM WatcherPastIsKept == Spec => [][PastIsKept]_vars
<1>1. Inv /\ [Next]_vars => [PastIsKept]_vars
  BY StepKeepsThePast
<1>q. QED BY SpecInv, <1>1, PTL DEF Spec
=============================================================================
