----------------------- MODULE OperatorConsoleProofs -----------------------
(***************************************************************************)
(* Proofs about OperatorConsole, for any environment, patches, rows by     *)
(* hand and faults.                                                        *)
(***************************************************************************)
EXTENDS OperatorConsole, TLAPS

USE ConsoleAssumption DEF ConsoleAssumption

Row == UNION {[S -> Nat \union {Unusable}] : S \in SUBSET Field}

\* The rows are numbers or texts that do not parse, and so are those of patches.
SettingsType ==
    /\ table \in Row
    /\ edits \subseteq [patch : Patch, stale : BOOLEAN]
    /\ crossed \in BOOLEAN
    /\ budget \in [Fault -> Nat]
    /\ budget["hand"] <= Budget["hand"]

Orderly == ~crossed /\ budget["hand"] = Budget["hand"]

\* As long as edits do not cross and nobody writes by hand, the rows make sense
\* together with the environment, and would with any edit that is still in time.
RowsFit == Orderly =>
    /\ \A f \in DOMAIN table : table[f] # Unusable
    /\ Valid(Merged)
    /\ \A e \in edits : e.stale \/ Valid(Over(Loaded, e.patch))

SettingsInv == SettingsType /\ RowsFit

----------------------------------------------------------------------------
LEMMA RowType ==
  ASSUME NEW r, AreRows(r, Nat \union {Unusable}), r = [f \in DOMAIN r |-> r[f]]
  PROVE  r \in Row
BY DEF AreRows, Row

LEMMA OverType ==
  ASSUME NEW base \in Config, NEW r, AreRows(r, Nat \union {Unusable})
  PROVE  Over(base, r) \in Config
BY DEF Over, Config, AreRows

LEMMA TableRows == table \in Row => AreRows(table, Nat \union {Unusable})
BY DEF Row, AreRows

LEMMA MergedType == table \in Row => Merged \in Config
BY TableRows, OverType DEF Merged

\* Whatever it is given, reconcile returns settings that make sense, and leaves
\* alone those that did.
LEMMA ReconcileFits ==
  ASSUME NEW c \in Config
  PROVE  /\ Reconcile(c) \in Config
         /\ Valid(Reconcile(c))
         /\ Valid(c) => Reconcile(c) = c
<1>1. /\ FixLo(c) \in Config /\ FixLo(c)["lo"] >= 1
      /\ Valid(c) => FixLo(c) = c
  BY DEF Config, Field, Valid, FixLo
<1>2. ASSUME NEW d \in Config, d["lo"] >= 1
      PROVE  /\ FixRange(d) \in Config
             /\ FixRange(d)["lo"] >= 1 /\ FixRange(d)["hi"] >= FixRange(d)["lo"]
             /\ Valid(d) => FixRange(d) = d
  BY <1>2 DEF Config, Field, Valid, FixRange
<1>3. ASSUME NEW d \in Config, d["lo"] >= 1, d["hi"] >= d["lo"]
      PROVE  /\ FixCap(d) \in Config /\ Valid(FixCap(d))
             /\ Valid(d) => FixCap(d) = d
  BY <1>3 DEF Config, Field, Valid, FixCap
<1>q. QED BY <1>1, <1>2, <1>3 DEF Reconcile

LEMMA LoadedFits ==
  ASSUME table \in Row
  PROVE  /\ Loaded \in Config /\ Valid(Loaded)
         /\ Valid(Merged) => Loaded = Merged
BY MergedType, ReconcileFits DEF Loaded

LEMMA NoneIgnored ==
  ASSUME table \in Row, Valid(Merged), \A f \in DOMAIN table : table[f] # Unusable
  PROVE  Ignored = {}
<1>1. Loaded = Merged
  BY LoadedFits
<1>2. \A f \in DOMAIN table : f \in Field /\ Merged[f] = table[f]
  BY DEF Merged, Over, Row
<1>q. QED BY <1>1, <1>2 DEF Ignored

\* What a check over the settings says, the rows say when the patch is saved.
LEMMA SavedIsChecked ==
  ASSUME NEW p, AreRows(p, Nat), NEW r, AreRows(r, Nat \union {Unusable}), \A f \in DOMAIN r : r[f] # Unusable,
         NEW s, s = [f \in DOMAIN r \union DOMAIN p |-> IF f \in DOMAIN p THEN p[f] ELSE r[f]]
  PROVE  Over(Over(Env, r), p) = Over(Env, s)
<1>1. \A f \in DOMAIN p : p[f] # Unusable
  BY DEF AreRows
<1>2. ASSUME NEW f \in Field
      PROVE  Over(Over(Env, r), p)[f] = Over(Env, s)[f]
  <2>1. CASE f \in DOMAIN p
    BY <1>1, <2>1 DEF Over
  <2>2. CASE f \notin DOMAIN p
    BY <2>2 DEF Over
  <2>q. QED BY <2>1, <2>2
<1>q. QED BY <1>2 DEF Over

LEMMA MergeRows ==
  ASSUME NEW r \in Row, NEW p, AreRows(p, Nat \union {Unusable})
  PROVE  [f \in DOMAIN r \union DOMAIN p |-> IF f \in DOMAIN p THEN p[f] ELSE r[f]] \in Row
<1> DEFINE D == DOMAIN r \union DOMAIN p
<1>1. D \in SUBSET Field /\ \A f \in DOMAIN r : r[f] \in Nat \union {Unusable}
  BY DEF Row, AreRows
<1>2. [f \in D |-> IF f \in DOMAIN p THEN p[f] ELSE r[f]] \in [D -> Nat \union {Unusable}]
  BY <1>1 DEF AreRows
<1>q. QED BY <1>1, <1>2 DEF Row

----------------------------------------------------------------------------
\* Nothing but an edit, a reset or a hand touches the rows.
LEMMA OthersKeep ==
  ASSUME SettingsInv, UNCHANGED settings, budget' \in [Fault -> Nat], budget'["hand"] = budget["hand"]
  PROVE  SettingsInv'
<1>1. SettingsType'
  BY DEF SettingsInv, SettingsType, settings
<1>2. RowsFit'
  BY DEF SettingsInv, RowsFit, Orderly, settings, Merged, Loaded
<1>q. QED BY <1>1, <1>2 DEF SettingsInv

LEMMA StopKeepsHand ==
  ASSUME SettingsType, Spend("stop")
  PROVE  budget' \in [Fault -> Nat] /\ budget'["hand"] = budget["hand"]
BY DEF SettingsType, Spend, Fault

LEMMA SettingsInvStart == Init => SettingsInv
<1> SUFFICES ASSUME Init PROVE SettingsInv
  OBVIOUS
<1>1. table \in Row /\ DOMAIN table = {}
  <2>1. table \in [{} -> Nat \union {Unusable}] /\ DOMAIN table = {}
    BY DEF Init
  <2>q. QED BY <2>1 DEF Row
<1>2. SettingsType
  <2>1. edits = {} /\ crossed = FALSE /\ budget = Budget
    BY DEF Init
  <2>2. budget \in [Fault -> Nat] /\ budget["hand"] <= Budget["hand"]
    BY <2>1 DEF Fault
  <2>q. QED BY <1>1, <2>1, <2>2 DEF SettingsType
<1>3. Merged = Env
  <2>1. Env = [f \in Field |-> Env[f]]
    BY DEF Config
  <2>q. QED BY <1>1, <2>1 DEF Merged, Over
<1>4. RowsFit
  BY <1>1, <1>3 DEF Init, RowsFit
<1>q. QED BY <1>2, <1>4 DEF SettingsInv

LEMMA SettingsInvStep ==
  ASSUME SettingsInv, [Next]_vars
  PROVE  SettingsInv'
<1> USE DEF SettingsInv
<1>0. /\ table \in Row /\ edits \subseteq [patch : Patch, stale : BOOLEAN]
      /\ crossed \in BOOLEAN /\ budget \in [Fault -> Nat] /\ budget["hand"] <= Budget["hand"]
      /\ "hand" \in Fault /\ "stop" \in Fault
  BY DEF SettingsType, Fault
<1>1. ASSUME NEW patch \in Patch, Submit(patch)
      PROVE  SettingsInv'
  <2>1. /\ UNCHANGED <<table, crossed, budget>>
        /\ edits' = edits \union {[patch |-> patch, stale |-> FALSE]}
        /\ Valid(Over(Loaded, patch))
    BY <1>1 DEF Submit, Accepts
  <2>2. SettingsType'
    <3>1. [patch |-> patch, stale |-> FALSE] \in [patch : Patch, stale : BOOLEAN]
      OBVIOUS
    <3>2. edits' \subseteq [patch : Patch, stale : BOOLEAN]
      BY <1>0, <2>1, <3>1
    <3>q. QED BY <1>0, <2>1, <3>2 DEF SettingsType
  <2>3. Merged' = Merged /\ Loaded' = Loaded
    BY <2>1 DEF Merged, Loaded
  <2>4. RowsFit'
    BY <2>1, <2>3 DEF RowsFit, Orderly
  <2>q. QED BY <2>2, <2>4
<1>2. ASSUME NEW e \in edits, Save(e)
      PROVE  SettingsInv'
  <2>1. /\ table' = [f \in DOMAIN table \union DOMAIN e.patch |->
                        IF f \in DOMAIN e.patch THEN e.patch[f] ELSE table[f]]
        /\ edits' = Outdated(edits \ {e})
        /\ crossed' = (crossed \/ e.stale)
        /\ UNCHANGED budget
    BY <1>2 DEF Save
  <2>2. AreRows(e.patch, Nat) /\ AreRows(e.patch, Nat \union {Unusable}) /\ e.stale \in BOOLEAN
    BY <1>0 DEF AreRows
  <2>3. table' \in Row
    BY <1>0, <2>1, <2>2, MergeRows
  <2>4. edits' \subseteq [patch : Patch, stale : {TRUE}]
    BY <1>0, <2>1 DEF Outdated
  <2>5. SettingsType'
    BY <1>0, <2>1, <2>2, <2>3, <2>4 DEF SettingsType
  <2>6. ASSUME Orderly'
        PROVE  Valid(Merged)' /\ \A f \in DOMAIN table' : table'[f] # Unusable
    <3>1. Orderly /\ ~e.stale
      BY <2>1, <2>2, <2>6, <1>0 DEF Orderly
    <3>2. /\ Valid(Merged) /\ Valid(Over(Loaded, e.patch))
          /\ \A f \in DOMAIN table : table[f] # Unusable
      BY <3>1 DEF RowsFit
    <3>3. Loaded = Merged
      BY <1>0, <3>2, LoadedFits
    <3>4. Over(Merged, e.patch) = Over(Env, table')
      <4> DEFINE s == [f \in DOMAIN table \union DOMAIN e.patch |->
                          IF f \in DOMAIN e.patch THEN e.patch[f] ELSE table[f]]
      <4>1. AreRows(table, Nat \union {Unusable})
        BY <1>0, TableRows
      <4> HIDE DEF s
      <4>2. Over(Over(Env, table), e.patch) = Over(Env, s)
        BY <2>2, <3>2, <4>1, SavedIsChecked DEF s
      <4>q. QED BY <2>1, <4>2 DEF Merged, s
    <3>5. Valid(Merged)'
      BY <3>2, <3>3, <3>4 DEF Merged
    <3>6. \A f \in DOMAIN table' : table'[f] # Unusable
      BY <2>1, <2>2, <3>2 DEF AreRows
    <3>q. QED BY <3>5, <3>6
  <2>7. RowsFit'
    BY <2>4, <2>6 DEF RowsFit
  <2>q. QED BY <2>5, <2>7
<1>3. CASE Reset
  <2>1. /\ table' = [f \in {} |-> 0] /\ edits' = Outdated(edits) /\ UNCHANGED <<crossed, budget>>
    BY <1>3 DEF Reset
  <2>2. table' \in [{} -> Nat \union {Unusable}] /\ DOMAIN table' = {}
    BY <2>1
  <2>3. table' \in Row
    BY <2>2 DEF Row
  <2>4. edits' \subseteq [patch : Patch, stale : {TRUE}]
    BY <1>0, <2>1 DEF Outdated
  <2>5. SettingsType'
    BY <1>0, <2>1, <2>3, <2>4 DEF SettingsType
  <2>6. Env = [f \in Field |-> Env[f]]
    BY DEF Config
  <2>7. Merged' = Env
    BY <2>2, <2>6 DEF Merged, Over
  <2>8. RowsFit'
    BY <2>2, <2>4, <2>7 DEF RowsFit
  <2>q. QED BY <2>5, <2>8
<1>4. ASSUME NEW rows \in ByHand, WrittenByHand(rows)
      PROVE  SettingsInv'
  <2>1. /\ table' = [f \in DOMAIN table \union DOMAIN rows |-> IF f \in DOMAIN rows THEN rows[f] ELSE table[f]]
        /\ edits' = Outdated(edits) /\ UNCHANGED crossed
        /\ budget["hand"] > 0 /\ budget' = [budget EXCEPT !["hand"] = @ - 1]
    BY <1>4 DEF WrittenByHand, Spend
  <2>2. table' \in Row
    BY <1>0, <2>1, MergeRows
  <2>3. edits' \subseteq [patch : Patch, stale : {TRUE}]
    BY <1>0, <2>1 DEF Outdated
  <2>4. budget' \in [Fault -> Nat] /\ budget'["hand"] < Budget["hand"] /\ Budget["hand"] \in Nat
    BY <1>0, <2>1
  <2>5. SettingsType'
    <3>1. edits' \subseteq [patch : Patch, stale : BOOLEAN]
      BY <2>3
    <3>2. budget'["hand"] <= Budget["hand"]
      BY <1>0, <2>4
    <3>q. QED BY <1>0, <2>1, <2>2, <2>4, <3>1, <3>2 DEF SettingsType
  <2>6. RowsFit'
    <3>1. budget'["hand"] # Budget["hand"]
      BY <1>0, <2>4
    <3>q. QED BY <3>1 DEF RowsFit, Orderly
  <2>q. QED BY <2>5, <2>6
<1>5. CASE Signal \/ Throw \/ Kill
  BY <1>0, <1>5, StopKeepsHand, OthersKeep DEF Signal, Throw, Kill
<1>6. CASE \/ Click \/ ReadWorkerState \/ RequestRunNow \/ ResolveAlert
           \/ WorkerStep \/ PassStep \/ CronRun \/ GoesSilent
  <2>1. UNCHANGED settings /\ UNCHANGED budget
    BY <1>6 DEF Click, ReadWorkerState, RequestRunNow, ResolveAlert, WorkerStep, Start, MarkTick, Poll, ConsumeRunNow,
                Exit, RunOnce, PassStep, LoadSettings, RaiseOrClear, Finish, CronRun, GoesSilent
  <2>q. QED BY <1>0, <2>1, OthersKeep
<1>7. CASE UNCHANGED vars
  <2>1. UNCHANGED settings /\ UNCHANGED budget
    BY <1>7 DEF vars, settings
  <2>q. QED BY <1>0, <2>1, OthersKeep
<1>q. QED BY <1>1, <1>2, <1>3, <1>4, <1>5, <1>6, <1>7 DEF Next, Operator

\* Whatever the table and the environment hold, a pass acts on settings that make
\* sense, and what the route accepted is what it acts on, unless two requests
\* crossed or somebody wrote by hand (settings.ts, settings/route.ts:65-69).
THEOREM ConsoleSettingsHold == Spec => []SettingsHold
<1>1. SettingsInv => SettingsHold
  <2> SUFFICES ASSUME SettingsInv PROVE SettingsHold
    OBVIOUS
  <2>1. PassMakesSense
    BY LoadedFits DEF SettingsInv, SettingsType, PassMakesSense
  <2>2. EditsHold
    BY NoneIgnored DEF SettingsInv, SettingsType, RowsFit, Orderly, EditsHold
  <2>q. QED BY <2>1, <2>2 DEF SettingsHold
<1>q. QED BY <1>1, SettingsInvStart, SettingsInvStep, PTL DEF Spec
=============================================================================
