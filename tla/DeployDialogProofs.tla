------------------------ MODULE DeployDialogProofs ------------------------
(***************************************************************************)
(* Proofs about DeployDialog and the ledger under it, for any mints,       *)
(* wallets, calls, batches and faults.                                     *)
(***************************************************************************)
EXTENDS DeployDialog, FiniteSetTheorems, FunctionTheorems, SequenceTheorems, TLAPS

USE LedgerAssumption, DialogAssumption DEF LedgerAssumption, DialogAssumption

Logbook == PartialMap(Id, Mint)
Job == [stage : {"idle", "missing", "logs", "check"}, who : Wallet \union {None},
        ids : SUBSET Id, logs : Logbook]

\* No reorganisation has replaced the tip.
Clean == budget["reorg"] = Budget["reorg"]

ChainType ==
    /\ minted \in Seq(Mint)
    /\ \A a, b \in OnChain : minted[a] = minted[b] => a = b
TableType == rows \in Logbook /\ timers \subseteq Id /\ torn \subseteq Id
JobsType == job \in [Writer -> Job]
BudgetType == budget \in [Fault -> Nat] /\ budget["reorg"] <= Budget["reorg"]

\* A log that was checked names its node's owner, and every log says what the
\* chain says unless the tip was replaced.
JobFits(j) == \A id \in DOMAIN j.logs :
    /\ id \notin torn /\ (id \notin j.ids \/ j.who # None) => OwnerOf(id) = Buyer[j.logs[id]]
    /\ Clean => id \in OnChain /\ j.logs[id] = minted[id]
RowsFit == Clean => \A id \in DOMAIN rows : id \in OnChain /\ rows[id] = minted[id]

LedgerInv ==
    /\ ChainType /\ TableType /\ JobsType /\ BudgetType
    /\ RowsAreChains /\ RowsFit
    /\ \A w \in Writer : JobFits(job[w])

----------------------------------------------------------------------------
(* Types. *)

LEMMA OwnerTypes ==
  ASSUME ChainType
  PROVE  /\ Len(minted) \in Nat
         /\ \A id \in OnChain : minted[id] \in Mint /\ OwnerOf(id) = Buyer[minted[id]]
                                /\ OwnerOf(id) \in Wallet /\ OwnerOf(id) # None
         /\ \A id : id \notin OnChain => OwnerOf(id) = None
BY DEF ChainType, OnChain, OwnerOf, Wallet

\* No more nodes than mints, since no transaction mints two.
LEMMA FitsInId ==
  ASSUME NEW m \in Seq(Mint), \A a, b \in 1 .. Len(m) : m[a] = m[b] => a = b
  PROVE  Len(m) \in 0 .. Cardinality(Mint) /\ Cardinality(Mint) \in Nat
<1>1. m \in [1 .. Len(m) -> Mint] /\ Len(m) \in Nat
  OBVIOUS
<1>2. m \in Injection(1 .. Len(m), Mint)
  BY <1>1, Fun_IsInj
<1>3. Cardinality(1 .. Len(m)) <= Cardinality(Mint) /\ Cardinality(Mint) \in Nat
  BY <1>2, FS_Injection, FS_CardinalityType
<1>4. Cardinality(1 .. Len(m)) = Len(m)
  <2>1. 1 \in Int /\ Len(m) \in Int
    BY <1>1
  <2>2. Cardinality(1 .. Len(m)) = IF 1 > Len(m) THEN 0 ELSE Len(m) - 1 + 1
    BY <2>1, FS_Interval, Zenon
  <2>q. QED BY <1>1, <2>2
<1>q. QED BY <1>1, <1>3, <1>4

LEMMA OnChainIsId ==
  ASSUME ChainType
  PROVE  OnChain \subseteq Id /\ Len(minted) \in 0 .. Cardinality(Mint) /\ Cardinality(Mint) \in Nat
<1>1. Len(minted) \in 0 .. Cardinality(Mint) /\ Cardinality(Mint) \in Nat
  BY FitsInId DEF ChainType, OnChain
<1>q. QED BY <1>1 DEF OnChain, Id

LEMMA LogbookType ==
  ASSUME NEW S \in SUBSET Id, NEW f \in [S -> Mint]
  PROVE  f \in Logbook
BY DEF Logbook, PartialMap

LEMMA LogbookFields ==
  ASSUME NEW f \in Logbook
  PROVE  DOMAIN f \subseteq Id /\ (\A id \in DOMAIN f : f[id] \in Mint) /\ f \in [DOMAIN f -> Mint]
BY DEF Logbook, PartialMap

LEMMA JobType ==
  ASSUME NEW stage \in {"idle", "missing", "logs", "check"}, NEW who \in Wallet \union {None},
         NEW ids \in SUBSET Id, NEW logs \in Logbook
  PROVE  /\ Call(stage, who, ids, logs) \in Job
         /\ Call(stage, who, ids, logs).stage = stage /\ Call(stage, who, ids, logs).who = who
         /\ Call(stage, who, ids, logs).ids = ids /\ Call(stage, who, ids, logs).logs = logs
BY DEF Job, Call

LEMMA JobFields ==
  ASSUME NEW j \in Job
  PROVE  /\ j.who \in Wallet \union {None}
         /\ j.ids \in SUBSET Id /\ j.logs \in Logbook
BY DEF Job

\* No logs, nothing to fit.
LEMMA EmptyBook == NoLogs \in Logbook /\ DOMAIN NoLogs = {}
<1>1. NoLogs \in [{} -> Mint] /\ {} \in SUBSET Id /\ DOMAIN NoLogs = {}
  BY DEF NoLogs
<1>q. QED BY <1>1, LogbookType

LEMMA IdleType == Idle \in Job /\ DOMAIN Idle.logs = {} /\ Idle.stage = "idle" /\ Idle.ids = {}
<1>1. {} \in SUBSET Id
  OBVIOUS
<1>q. QED BY <1>1, EmptyBook, JobType DEF Idle

LEMMA GoesTyped ==
  ASSUME JobsType, NEW w \in Writer, NEW next \in Job, Goes(w, next)
  PROVE  JobsType' /\ job'[w] = next /\ \A v \in Writer \ {w} : job'[v] = job[v]
BY DEF JobsType, Goes

LEMMA LogsType ==
  ASSUME ChainType, NEW S \in SUBSET OnChain
  PROVE  /\ Logs(S) \in Logbook /\ DOMAIN Logs(S) = S
         /\ \A id \in S : Logs(S)[id] = minted[id] /\ OwnerOf(id) = Buyer[Logs(S)[id]]
<1>1. Logs(S) \in [S -> Mint] /\ DOMAIN Logs(S) = S /\ \A id \in S : Logs(S)[id] = minted[id]
  BY OwnerTypes DEF Logs
<1>2. S \in SUBSET Id
  BY OnChainIsId
<1>q. QED BY <1>1, <1>2, LogbookType, OwnerTypes

----------------------------------------------------------------------------
(* A step of one call, that leaves the chain and the table alone.           *)

Settled == UNCHANGED <<minted, torn>> /\ budget' \in [Fault -> Nat] /\ budget'["reorg"] = budget["reorg"]

LEMMA SpendKeeps ==
  ASSUME BudgetType, NEW f \in {"fail", "call"}, Spend(f)
  PROVE  budget' \in [Fault -> Nat] /\ budget'["reorg"] = budget["reorg"]
BY DEF BudgetType, Spend, Fault

LEMMA CallStep ==
  ASSUME LedgerInv, Settled, UNCHANGED rows, timers' \subseteq Id,
         NEW w \in Writer, NEW next \in Job, JobFits(next), Goes(w, next)
  PROVE  LedgerInv'
<1>1. JobsType' /\ job'[w] = next /\ \A v \in Writer \ {w} : job'[v] = job[v]
  BY GoesTyped DEF LedgerInv
<1>2. ChainType' /\ OnChain' = OnChain /\ \A id : OwnerOf(id)' = OwnerOf(id)
  BY DEF LedgerInv, ChainType, Settled, OnChain, OwnerOf
<1>3. BudgetType' /\ Clean' = Clean
  BY DEF LedgerInv, BudgetType, Settled, Clean
<1>4. TableType'
  BY DEF LedgerInv, TableType, Settled
<1>5. RowsAreChains' /\ RowsFit'
  BY <1>2, <1>3 DEF LedgerInv, RowsAreChains, RowsFit, Settled
<1>6. ASSUME NEW v \in Writer
      PROVE  JobFits(job[v])'
  <2>1. JobFits(job'[v])
    BY <1>1 DEF LedgerInv
  <2>q. QED BY <2>1, <1>2, <1>3 DEF JobFits, Settled
<1>q. QED BY <1>1, <1>2, <1>3, <1>4, <1>5, <1>6 DEF LedgerInv

LEMMA IdleFits == JobFits(Idle)
BY IdleType DEF JobFits

----------------------------------------------------------------------------
(* The steps of the ledger. *)

LEMMA LedgerInvStart == LedgerInit => LedgerInv
<1> SUFFICES ASSUME LedgerInit PROVE LedgerInv
  OBVIOUS
<1>1. minted = <<>> /\ rows = NoLogs /\ timers = {} /\ torn = {} /\ budget = Budget
  BY DEF LedgerInit
<1>2. job = [w \in Writer |-> Idle]
  BY DEF LedgerInit
<1>3. ChainType
  BY <1>1 DEF ChainType, OnChain
<1>4. TableType /\ DOMAIN rows = {}
  BY <1>1, EmptyBook DEF TableType
<1>5. JobsType
  BY <1>2, IdleType DEF JobsType
<1>6. BudgetType
  BY <1>1 DEF BudgetType, Fault
<1>7. RowsAreChains /\ RowsFit
  BY <1>4 DEF RowsAreChains, RowsFit
<1>8. \A w \in Writer : JobFits(job[w])
  BY <1>2, IdleFits
<1>q. QED BY <1>3, <1>4, <1>5, <1>6, <1>7, <1>8 DEF LedgerInv

LEMMA MinedStep ==
  ASSUME LedgerInv, NEW t \in Mint, Mined(t)
  PROVE  /\ LedgerInv'
         /\ \A id \in OnChain : id \in OnChain' /\ minted'[id] = minted[id] /\ OwnerOf(id)' = OwnerOf(id)
         /\ \A id \in OnChain' : id \in OnChain \/ minted'[id] = t
         /\ \E id \in OnChain' : minted'[id] = t
<1>1. /\ minted' = Append(minted, t) /\ \A id \in OnChain : minted[id] # t
      /\ UNCHANGED <<table, job, torn, budget>>
  BY DEF Mined
<1>2. /\ minted' \in Seq(Mint) /\ Len(minted') = Len(minted) + 1 /\ Len(minted) \in Nat
      /\ \A id \in 1 .. Len(minted) : minted'[id] = minted[id]
      /\ minted'[Len(minted) + 1] = t
  BY <1>1 DEF LedgerInv, ChainType
<1>3. OnChain' = OnChain \union {Len(minted) + 1} /\ Len(minted) + 1 \notin OnChain
  BY <1>2 DEF OnChain
<1>4. \A id \in OnChain : id \in OnChain' /\ minted'[id] = minted[id]
  BY <1>2, <1>3 DEF OnChain
<1>5. \A id \in OnChain : OwnerOf(id)' = OwnerOf(id)
  BY <1>4 DEF OwnerOf
<1>6. ChainType'
  <2>1. ASSUME NEW a \in OnChain', NEW b \in OnChain', minted'[a] = minted'[b]
        PROVE  a = b
    <3>1. CASE a \in OnChain /\ b \in OnChain
      BY <1>4, <2>1, <3>1 DEF LedgerInv, ChainType
    <3>2. CASE a \notin OnChain \/ b \notin OnChain
      BY <1>1, <1>2, <1>3, <1>4, <2>1, <3>2
    <3>q. QED BY <3>1, <3>2
  <2>q. QED BY <1>2, <2>1 DEF ChainType
<1>7. TableType' /\ JobsType' /\ BudgetType' /\ Clean' = Clean
  BY <1>1 DEF LedgerInv, TableType, JobsType, BudgetType, Clean, table
<1>8. ASSUME NEW id, OwnerOf(id) \in Wallet
      PROVE  OwnerOf(id)' = OwnerOf(id)
  BY <1>5, <1>8, OwnerTypes DEF LedgerInv
<1>9. RowsAreChains'
  <2>1. ASSUME NEW id \in DOMAIN rows \ torn
        PROVE  OwnerOf(id)' = Buyer[rows[id]]
    <3>1. OwnerOf(id) = Buyer[rows[id]] /\ rows[id] \in Mint
      BY LogbookFields DEF LedgerInv, RowsAreChains, TableType
    <3>2. OwnerOf(id) \in Wallet
      BY <3>1 DEF Wallet
    <3>q. QED BY <1>8, <3>1, <3>2
  <2>q. QED BY <1>1, <2>1 DEF RowsAreChains, table
<1>10. RowsFit'
  BY <1>1, <1>4, <1>7 DEF LedgerInv, RowsFit, table
<1>11. ASSUME NEW w \in Writer
       PROVE  JobFits(job[w])'
  <2>1. JobFits(job[w]) /\ job[w] \in Job
    BY DEF LedgerInv, JobsType
  <2>2. ASSUME NEW id \in DOMAIN job[w].logs, id \notin torn, id \notin job[w].ids \/ job[w].who # None
        PROVE  OwnerOf(id)' = Buyer[job[w].logs[id]]
    <3>1. OwnerOf(id) = Buyer[job[w].logs[id]]
      BY <2>1, <2>2 DEF JobFits
    <3>2. job[w].logs \in Logbook
      BY <2>1 DEF Job
    <3>3. job[w].logs[id] \in Mint
      BY <3>2, LogbookFields
    <3>4. OwnerOf(id) \in Wallet
      BY <3>1, <3>3 DEF Wallet
    <3>q. QED BY <1>8, <3>1, <3>4
  <2>3. ASSUME NEW id \in DOMAIN job[w].logs, Clean
        PROVE  id \in OnChain' /\ job[w].logs[id] = minted'[id]
    BY <1>4, <2>1, <2>3 DEF JobFits
  <2>q. QED BY <1>1, <1>7, <2>2, <2>3 DEF JobFits
<1>12. LedgerInv'
  BY <1>6, <1>7, <1>9, <1>10, <1>11 DEF LedgerInv
<1>q. QED BY <1>12, <1>2, <1>3, <1>4, <1>5

LEMMA WithoutTip ==
  ASSUME NEW m \in Seq(Mint), m # <<>>
  PROVE  /\ SubSeq(m, 1, Len(m) - 1) \in Seq(Mint)
         /\ Len(SubSeq(m, 1, Len(m) - 1)) = Len(m) - 1
         /\ \A id \in 1 .. Len(m) - 1 : SubSeq(m, 1, Len(m) - 1)[id] = m[id]
<1>1. PICK n \in Nat : n = Len(m) - 1
  <2>1. Len(m) - 1 \in Nat
    OBVIOUS
  <2>q. QED BY <2>1
<1>2. SubSeq(m, 1, n) \in Seq(Mint)
  <2>1. 1 \in Int /\ n \in Int /\ \A id \in 1 .. n : m[id] \in Mint
    BY <1>1
  <2>q. QED BY <2>1, SubSeqProperties, Zenon
<1>3. Len(SubSeq(m, 1, n)) = n /\ \A id \in 1 .. n : SubSeq(m, 1, n)[id] = m[id]
  BY <1>1
<1>q. QED BY <1>1, <1>2, <1>3

LEMMA UndoneStep ==
  ASSUME LedgerInv, Undone
  PROVE  LedgerInv' /\ ~Clean'
<1> DEFINE n == Len(minted)
<1>1. /\ minted # <<>> /\ minted' = SubSeq(minted, 1, n - 1)
      /\ budget["reorg"] > 0 /\ budget' = [budget EXCEPT !["reorg"] = @ - 1]
      /\ torn' = torn \union ({n} \intersect (DOMAIN rows \union Trusted))
      /\ UNCHANGED <<table, job>>
  BY DEF Undone, Spend
<1>2. minted \in Seq(Mint) /\ n \in Nat /\ n > 0
  BY <1>1 DEF LedgerInv, ChainType
<1>3. /\ minted' \in Seq(Mint) /\ Len(minted') = n - 1
      /\ \A id \in 1 .. n - 1 : minted'[id] = minted[id]
  BY <1>1, <1>2, WithoutTip
<1>4. OnChain = OnChain' \union {n} /\ n \notin OnChain'
  BY <1>2, <1>3 DEF OnChain
<1>5. \A id : id # n => OwnerOf(id)' = OwnerOf(id)
  BY <1>2, <1>3 DEF OnChain, OwnerOf
<1>6. ChainType'
  BY <1>2, <1>3 DEF LedgerInv, ChainType, OnChain
<1>7. n \in Id
  BY <1>4, OnChainIsId DEF LedgerInv
<1>8. TableType' /\ JobsType'
  BY <1>1, <1>7 DEF LedgerInv, TableType, JobsType, table
<1>9. BudgetType' /\ ~Clean'
  BY <1>1 DEF LedgerInv, BudgetType, Clean, Fault
<1>10. RowsAreChains'
  BY <1>1, <1>5 DEF LedgerInv, RowsAreChains, table
<1>11. RowsFit'
  BY <1>9 DEF RowsFit
<1>12. ASSUME NEW w \in Writer
       PROVE  JobFits(job[w])'
  <2>1. JobFits(job[w])
    BY DEF LedgerInv
  <2>2. ASSUME NEW id \in DOMAIN job[w].logs, id \notin torn', id \notin job[w].ids \/ job[w].who # None
        PROVE  OwnerOf(id)' = Buyer[job[w].logs[id]]
    <3>1. OwnerOf(id) = Buyer[job[w].logs[id]]
      BY <1>1, <2>1, <2>2 DEF JobFits
    <3>2. id # n
      BY <1>1, <1>7, <2>2 DEF Trusted
    <3>q. QED BY <1>5, <3>1, <3>2
  <2>q. QED BY <1>1, <1>9, <2>2 DEF JobFits
<1>q. QED BY <1>6, <1>8, <1>9, <1>10, <1>11, <1>12 DEF LedgerInv

LEMMA ReadTotalStep ==
  ASSUME LedgerInv, NEW w \in Writer, ReadTotal(w)
  PROVE  LedgerInv'
<1> DEFINE next == Call("missing", None, OnChain, NoLogs)
<1>1. Goes(w, next) /\ UNCHANGED <<minted, table, torn, budget>>
  BY DEF ReadTotal
<1>2. next \in Job /\ DOMAIN next.logs = {}
  BY OnChainIsId, EmptyBook, JobType DEF LedgerInv
<1> HIDE DEF next
<1>3. JobFits(next)
  BY <1>2 DEF JobFits
<1>4. Settled
  BY <1>1 DEF Settled, LedgerInv, BudgetType
<1>q. QED BY <1>1, <1>2, <1>3, <1>4, CallStep DEF table, LedgerInv, TableType

LEMMA FindMissingStep ==
  ASSUME LedgerInv, NEW w \in Writer, FindMissing(w)
  PROVE  LedgerInv'
<1> DEFINE missing == Newest(job[w].ids \ DOMAIN rows)
           next == IF missing = {} THEN Idle ELSE Call("logs", None, missing, NoLogs)
<1>1. Goes(w, next) /\ UNCHANGED <<minted, table, torn, budget>>
  BY DEF FindMissing
<1>2. missing \in SUBSET Id
  BY DEF Newest, LedgerInv, JobsType, Job
<1>3. next \in Job /\ DOMAIN next.logs = {}
  <2> HIDE DEF missing
  <2>q. QED BY <1>2, EmptyBook, JobType, IdleType
<1> HIDE DEF next
<1>4. JobFits(next)
  BY <1>3 DEF JobFits
<1>5. Settled
  BY <1>1 DEF Settled, LedgerInv, BudgetType
<1>q. QED BY <1>1, <1>3, <1>4, <1>5, CallStep DEF table, LedgerInv, TableType

LEMMA AskOwnerStep ==
  ASSUME LedgerInv, NEW w \in Writer, NEW who, who # None, NEW id, AskOwner(w, who, id),
         budget' \in [Fault -> Nat], budget'["reorg"] = budget["reorg"]
  PROVE  LedgerInv' /\ job'[w].stage = "logs" /\ job'[w].ids = {id}
<1> DEFINE next == Call("logs", who, {id}, NoLogs)
<1>1. Goes(w, next) /\ UNCHANGED <<minted, table, torn>> /\ OwnerOf(id) = who
  BY DEF AskOwner
<1>2. id \in OnChain /\ who \in Wallet
  BY <1>1, OwnerTypes DEF LedgerInv
<1>3. {id} \in SUBSET Id
  BY <1>2, OnChainIsId DEF LedgerInv
<1>4. next \in Job /\ next.stage = "logs" /\ next.ids = {id} /\ DOMAIN next.logs = {}
  BY <1>2, <1>3, EmptyBook, JobType
<1> HIDE DEF next
<1>5. JobFits(next)
  BY <1>4 DEF JobFits
<1>6. LedgerInv'
  BY <1>1, <1>4, <1>5, CallStep DEF table, LedgerInv, TableType, Settled
<1>7. job'[w] = next
  BY <1>1, <1>4, GoesTyped DEF LedgerInv
<1>q. QED BY <1>4, <1>6, <1>7

LEMMA ReadLogsStep ==
  ASSUME LedgerInv, NEW w \in Writer, ReadLogs(w)
  PROVE  /\ LedgerInv'
         /\ UNCHANGED <<minted, table>> /\ budget'["reorg"] = budget["reorg"]
         /\ \/ job'[w] = Idle
            \/ \E seen \in SUBSET job[w].ids :
                 seen # {} /\ job'[w].stage = "check" /\ DOMAIN job'[w].logs = seen
<1>1. PICK seen \in SUBSET (job[w].ids \intersect OnChain) :
        /\ UNCHANGED budget \/ Spend("fail")
        /\ Goes(w, IF seen = {} THEN Idle ELSE Call("check", job[w].who, seen, Logs(seen)))
  BY DEF ReadLogs
<1> DEFINE look == Call("check", job[w].who, seen, Logs(seen))
           next == IF seen = {} THEN Idle ELSE look
<1>2. job[w] \in Job
  BY DEF LedgerInv, JobsType
<1>3. job[w].who \in Wallet \union {None}
  BY <1>2, JobFields
<1>4. /\ Logs(seen) \in Logbook /\ DOMAIN Logs(seen) = seen /\ seen \in SUBSET Id
      /\ \A id \in seen : id \in OnChain /\ Logs(seen)[id] = minted[id] /\ OwnerOf(id) = Buyer[Logs(seen)[id]]
  BY LogsType, OnChainIsId DEF LedgerInv
<1>5. look \in Job /\ JobFits(look) /\ look.stage = "check" /\ DOMAIN look.logs = seen
  <2>1. look \in Job /\ look.stage = "check" /\ look.logs = Logs(seen)
    BY <1>3, <1>4, JobType
  <2> HIDE DEF look
  <2>2. JobFits(look)
    BY <1>4, <2>1 DEF JobFits
  <2>q. QED BY <1>4, <2>1, <2>2
<1>6. next \in Job /\ JobFits(next)
  <2> HIDE DEF look
  <2>q. QED BY <1>5, IdleType, IdleFits
<1>7. UNCHANGED <<minted, table, torn>> /\ Settled
  <2>1. UNCHANGED <<minted, table, torn>>
    BY DEF ReadLogs
  <2>2. budget' \in [Fault -> Nat] /\ budget'["reorg"] = budget["reorg"]
    BY <1>1, SpendKeeps DEF LedgerInv, BudgetType
  <2>q. QED BY <2>1, <2>2 DEF Settled
<1>8. LedgerInv' /\ job'[w] = next
  <2> HIDE DEF next
  <2>1. Goes(w, next)
    BY <1>1 DEF next
  <2>2. LedgerInv'
    BY <1>6, <1>7, <2>1, CallStep DEF table, LedgerInv, TableType
  <2>3. job'[w] = next
    BY <1>6, <2>1, GoesTyped DEF LedgerInv
  <2>q. QED BY <2>2, <2>3
<1>q. QED
  <2> HIDE DEF look
  <2>q. QED BY <1>5, <1>7, <1>8 DEF Settled

LEMMA ReadReceiptStep ==
  ASSUME LedgerInv, NEW w \in Writer, NEW t \in Mint, ReadReceipt(w, t) \/ RelaySchedules(w, t),
         budget' \in [Fault -> Nat], budget'["reorg"] = budget["reorg"]
  PROVE  LedgerInv'
<1> DEFINE next(k, ids) == Call("check", None, ids, Logs({k}))
<1>1. PICK id \in OnChain, ids \in SUBSET OnChain : ids \subseteq {id} /\ Goes(w, next(id, ids))
  BY DEF ReadReceipt, RelaySchedules
<1>2. /\ Logs({id}) \in Logbook /\ DOMAIN Logs({id}) = {id} /\ id \in Id
      /\ Logs({id})[id] = minted[id] /\ OwnerOf(id) = Buyer[Logs({id})[id]]
  BY LogsType, OnChainIsId DEF LedgerInv
<1>3. ids \in SUBSET Id
  BY <1>1, <1>2
<1>4. next(id, ids) \in Job /\ next(id, ids).logs = Logs({id})
  BY <1>2, <1>3, JobType
<1> HIDE DEF next
<1>5. JobFits(next(id, ids))
  BY <1>2, <1>4 DEF JobFits
<1>6. Settled /\ UNCHANGED rows /\ timers' \subseteq Id
  BY OnChainIsId DEF ReadReceipt, RelaySchedules, table, Settled, LedgerInv, TableType
<1>q. QED BY <1>1, <1>4, <1>5, <1>6, CallStep

LEMMA CheckStep ==
  ASSUME LedgerInv, NEW w \in Writer, Check(w)
  PROVE  /\ LedgerInv'
         /\ UNCHANGED <<minted, table, budget>>
         /\ \/ job'[w] = Idle
            \/ /\ job'[w].stage = "check" /\ DOMAIN job'[w].logs # {}
               /\ DOMAIN job'[w].logs \subseteq DOMAIN job[w].logs
<1>0. /\ job[w] \in Job /\ JobFits(job[w]) /\ job[w].stage = "check"
      /\ UNCHANGED <<minted, table, torn, budget>>
  <2>1. job[w].stage = "check" /\ UNCHANGED <<minted, table, torn, budget>>
    BY DEF Check, At
  <2>q. QED BY <2>1 DEF LedgerInv, JobsType
<1>1. PICK id \in job[w].ids, kept \in SUBSET DOMAIN job[w].logs :
        /\ id \in kept => Agrees(w, id)
        /\ Goes(w, IF kept = {} THEN Idle
                   ELSE Call("check", job[w].who, job[w].ids \ {id}, [k \in kept |-> job[w].logs[k]]))
  BY DEF Check
<1> DEFINE logs == [k \in kept |-> job[w].logs[k]]
           look == Call("check", job[w].who, job[w].ids \ {id}, logs)
           next == IF kept = {} THEN Idle ELSE look
<1>2. /\ job[w].who \in Wallet \union {None}
      /\ job[w].ids \in SUBSET Id /\ job[w].logs \in Logbook
  BY <1>0, JobFields
<1>3. logs \in Logbook /\ DOMAIN logs = kept /\ \A k \in kept : logs[k] = job[w].logs[k]
  <2>1. kept \in SUBSET Id /\ logs \in [kept -> Mint]
    BY <1>2, LogbookFields
  <2>q. QED BY <2>1, LogbookType
<1>4. /\ look \in Job /\ look.stage = "check" /\ look.who = job[w].who
      /\ look.ids = job[w].ids \ {id} /\ look.logs = logs
  <2> HIDE DEF logs
  <2>1. job[w].ids \ {id} \in SUBSET Id
    BY <1>2
  <2>q. QED BY <1>2, <1>3, <2>1, JobType
<1>5. JobFits(look)
  <2> HIDE DEF look, logs
  <2>1. ASSUME NEW k \in kept, k \notin torn, k \notin job[w].ids \ {id} \/ job[w].who # None
        PROVE  OwnerOf(k) = Buyer[logs[k]]
    <3>1. CASE k \notin job[w].ids \/ job[w].who # None
      BY <1>0, <1>3, <2>1, <3>1 DEF JobFits
    <3>2. CASE k = id /\ job[w].who = None
      BY <1>1, <1>3, <3>2 DEF Agrees
    <3>q. QED BY <2>1, <3>1, <3>2
  <2>2. ASSUME NEW k \in kept, Clean
        PROVE  k \in OnChain /\ logs[k] = minted[k]
    BY <1>0, <1>3, <2>2 DEF JobFits
  <2>q. QED BY <1>3, <1>4, <2>1, <2>2 DEF JobFits
<1>6. next \in Job /\ JobFits(next)
  <2> HIDE DEF look, logs
  <2>q. QED BY <1>4, <1>5, IdleType, IdleFits
<1>7. Settled
  BY <1>0 DEF Settled, LedgerInv, BudgetType
<1>8. LedgerInv' /\ job'[w] = next
  <2>1. Goes(w, next)
    BY <1>1
  <2> HIDE DEF next
  <2>2. LedgerInv'
    BY <1>0, <1>6, <1>7, <2>1, CallStep DEF table, LedgerInv, TableType
  <2>3. job'[w] = next
    BY <1>6, <2>1, GoesTyped DEF LedgerInv
  <2>q. QED BY <2>2, <2>3
<1>q. QED
  <2> HIDE DEF look, logs
  <2>q. QED BY <1>0, <1>3, <1>4, <1>8

LEMMA FailStep ==
  ASSUME LedgerInv, NEW w \in Writer, Fail(w)
  PROVE  /\ LedgerInv' /\ job'[w] = Idle
         /\ UNCHANGED <<minted, table>> /\ budget'["reorg"] = budget["reorg"]
<1>1. UNCHANGED <<minted, table, torn>> /\ Goes(w, Idle) /\ Spend("fail")
  BY DEF Fail
<1>2. Settled
  BY <1>1, SpendKeeps DEF Settled, LedgerInv
<1>q. QED BY <1>1, <1>2, IdleType, IdleFits, CallStep, GoesTyped DEF table, LedgerInv, TableType, Settled

\* What recordMintedNodes leaves: the rows it found, and its logs' unless the id or
\* the mint transaction had one.
LEMMA RecordStep ==
  ASSUME LedgerInv, NEW w \in Writer, Record(w)
  PROVE  /\ LedgerInv' /\ job'[w] = Idle
         /\ UNCHANGED <<minted, budget>> /\ DOMAIN rows \subseteq DOMAIN rows'
         /\ Clean => DOMAIN job[w].logs \subseteq DOMAIN rows'
<1> DEFINE logs == job[w].logs
           D == DOMAIN rows \union New(logs)
<1>1. /\ job[w].ids = {} /\ Goes(w, Idle) /\ UNCHANGED <<minted, torn, budget>>
      /\ timers' = timers \union DOMAIN logs
      /\ rows' = [id \in D |-> IF id \in DOMAIN rows THEN rows[id] ELSE logs[id]]
  BY DEF Record, Timers
<1>2. JobFits(job[w]) /\ job[w] \in Job /\ logs \in Logbook /\ rows \in Logbook
  BY DEF LedgerInv, JobsType, TableType, Job
<1>3. New(logs) \subseteq DOMAIN logs
  BY DEF New
<1>4. DOMAIN logs \subseteq Id /\ (\A id \in DOMAIN logs : logs[id] \in Mint)
  BY <1>2, LogbookFields
<1>5. DOMAIN rows \subseteq Id /\ (\A id \in DOMAIN rows : rows[id] \in Mint)
  BY <1>2, LogbookFields
<1>6. rows' \in Logbook /\ DOMAIN rows' = D
  <2>1. D \in SUBSET Id /\ rows' \in [D -> Mint]
    BY <1>1, <1>3, <1>4, <1>5
  <2>q. QED BY <2>1, LogbookType
<1>7. TableType'
  BY <1>1, <1>4, <1>6 DEF LedgerInv, TableType
<1>8. ChainType' /\ OnChain' = OnChain /\ \A id : OwnerOf(id)' = OwnerOf(id)
  BY <1>1 DEF LedgerInv, ChainType, OnChain, OwnerOf
<1>9. BudgetType' /\ Clean' = Clean
  BY <1>1 DEF LedgerInv, BudgetType, Clean
<1>10. JobsType' /\ job'[w] = Idle /\ \A v \in Writer \ {w} : job'[v] = job[v]
  BY <1>1, IdleType, GoesTyped DEF LedgerInv
<1>11. ASSUME NEW v \in Writer
       PROVE  JobFits(job[v])'
  <2>1. JobFits(job'[v])
    BY <1>10, IdleFits DEF LedgerInv
  <2>q. QED BY <1>1, <1>8, <1>9, <2>1 DEF JobFits
<1>12. RowsAreChains'
  <2>1. ASSUME NEW id \in D, id \notin torn
        PROVE  OwnerOf(id) = Buyer[rows'[id]]
    <3>1. CASE id \in DOMAIN rows
      BY <1>1, <2>1, <3>1 DEF LedgerInv, RowsAreChains
    <3>2. CASE id \notin DOMAIN rows
      BY <1>1, <1>2, <1>3, <2>1, <3>2 DEF JobFits
    <3>q. QED BY <3>1, <3>2
  <2>q. QED BY <1>1, <1>6, <1>8, <2>1 DEF RowsAreChains
<1>13. ASSUME Clean, NEW id \in D
       PROVE  id \in OnChain /\ rows'[id] = minted[id]
  BY <1>1, <1>2, <1>3, <1>13 DEF LedgerInv, RowsFit, JobFits
<1>14. RowsFit'
  BY <1>1, <1>6, <1>8, <1>9, <1>13 DEF RowsFit
<1>15. ASSUME Clean, NEW id \in DOMAIN logs
       PROVE  id \in D
  <2>1. id \in OnChain /\ logs[id] = minted[id]
    BY <1>2, <1>15 DEF JobFits
  <2>2. ASSUME NEW k \in DOMAIN rows, rows[k] = logs[id]
        PROVE  k = id
    BY <1>15, <2>1, <2>2 DEF LedgerInv, RowsFit, ChainType
  <2>q. QED BY <1>15, <2>2 DEF New, RowTaken
<1>16. LedgerInv'
  BY <1>7, <1>8, <1>9, <1>10, <1>11, <1>12, <1>14 DEF LedgerInv
<1>q. QED BY <1>1, <1>6, <1>10, <1>15, <1>16

----------------------------------------------------------------------------
(* What one call of the server or the relay does. *)

LEMMA OthersStep ==
  ASSUME LedgerInv, NEW w \in Writer, Begin(w) \/ GoOn(w) \/ Fail(w)
  PROVE  /\ LedgerInv' /\ UNCHANGED minted /\ Clean' = Clean
         /\ DOMAIN rows \subseteq DOMAIN rows'
         /\ \A v \in Writer \ {w} : job'[v] = job[v]
<1>0. ASSUME NEW next, Goes(w, next)
      PROVE  \A v \in Writer \ {w} : job'[v] = job[v]
  BY <1>0 DEF Goes, LedgerInv, JobsType
<1>1. CASE ReadTotal(w)
  BY <1>0, <1>1, ReadTotalStep DEF ReadTotal, table, Clean
<1>2. CASE OtherCall(w)
  <2>1. budget' \in [Fault -> Nat] /\ budget'["reorg"] = budget["reorg"]
    BY <1>2, SpendKeeps DEF OtherCall, LedgerInv
  <2>2. ASSUME NEW who \in Wallet, NEW id \in Id, AskOwner(w, who, id)
        PROVE  LedgerInv' /\ UNCHANGED <<minted, rows>> /\ \A v \in Writer \ {w} : job'[v] = job[v]
    BY <1>0, <2>1, <2>2, AskOwnerStep DEF AskOwner, table
  <2>3. ASSUME NEW t \in Mint, ReadReceipt(w, t) \/ RelaySchedules(w, t)
        PROVE  LedgerInv' /\ UNCHANGED <<minted, rows>> /\ \A v \in Writer \ {w} : job'[v] = job[v]
    BY <1>0, <2>1, <2>3, ReadReceiptStep DEF ReadReceipt, RelaySchedules, table
  <2>q. QED BY <1>2, <2>1, <2>2, <2>3 DEF OtherCall, Clean
<1>3. CASE FindMissing(w)
  BY <1>0, <1>3, FindMissingStep DEF FindMissing, table, Clean
<1>4. CASE ReadLogs(w)
  BY <1>0, <1>4, ReadLogsStep DEF ReadLogs, table, Clean
<1>5. CASE Check(w)
  BY <1>0, <1>5, CheckStep DEF Check, table, Clean
<1>6. CASE Record(w)
  BY <1>0, <1>6, RecordStep DEF Record, Clean
<1>7. CASE Fail(w)
  BY <1>0, <1>7, FailStep DEF Fail, table, Clean
<1>q. QED BY <1>1, <1>2, <1>3, <1>4, <1>5, <1>6, <1>7 DEF Begin, GoOn

----------------------------------------------------------------------------
(* The dialog. *)

Stage == {"closed", "ready", "sending", "prompt", "confirming", "waiting", "syncing", "registering",
          "queued", "noted", "done"}

\* While the dialog registers its node, the tab's call is about that node.
CallIsDialogs == InStage("registering") =>
    \/ job[Tab].stage = "logs" /\ job[Tab].ids = {dlg.id}
    \/ job[Tab].stage = "check" /\ DOMAIN job[Tab].logs = {dlg.id}

\* The baseline holds what the wallet has, but for what the payment bought, and no
\* other payment of its own is on its way; so what is new is the payment's.
Sighted == Clean /\ ~dlg.muddled
Reached(t) == \E id \in OnChain : minted[id] = t
BaselineHolds ==
    /\ InStage("prompt") =>
         /\ \A t \in paid : Buyer[t] = Me => Reached(t)
         /\ Held \subseteq dlg.before
    /\ dlg.stage \in {"confirming", "waiting"} =>
         /\ \A t \in paid : Buyer[t] = Me => t = dlg.tx \/ Reached(t)
         /\ \A id \in Held : minted[id] = dlg.tx \/ id \in dlg.before
    /\ dlg.stage \in {"syncing", "registering", "noted", "done"} =>
         dlg.id \in OnChain /\ minted[dlg.id] = dlg.tx
    /\ InStage("done") => dlg.id \in DOMAIN rows

DialogInv ==
    /\ dlg = View(dlg.stage, dlg.before, dlg.tx, dlg.id, dlg.muddled)
    /\ dlg.stage \in Stage
    /\ paid \subseteq Mint
    /\ CallIsDialogs
    /\ Sighted => BaselineHolds

Inv == LedgerInv /\ DialogInv

LEMMA ViewFields ==
  ASSUME NEW stage, NEW before, NEW tx, NEW id, NEW muddled, NEW d, d = View(stage, before, tx, id, muddled)
  PROVE  /\ d = View(d.stage, d.before, d.tx, d.id, d.muddled)
         /\ d.stage = stage /\ d.before = before /\ d.tx = tx /\ d.id = id /\ d.muddled = muddled
BY DEF View

LEMMA GoesOnFields ==
  ASSUME DialogInv, NEW stage, GoesOn(stage)
  PROVE  dlg' = View(stage, dlg.before, dlg.tx, dlg.id, dlg.muddled)
BY DEF DialogInv, GoesOn, View

LEMMA LedgerStays ==
  ASSUME LedgerInv, UNCHANGED ledgerVars
  PROVE  /\ LedgerInv' /\ Clean' = Clean /\ OnChain' = OnChain /\ Held' = Held
         /\ UNCHANGED <<minted, rows, job>> /\ \A t : Reached(t)' = Reached(t)
<1>1. UNCHANGED <<minted, rows, timers, job, torn, budget>>
  BY DEF ledgerVars, table
<1>2. Clean' = Clean /\ OnChain' = OnChain /\ Held' = Held
  BY <1>1 DEF Clean, OnChain, Held, OwnerOf
<1>3. ChainType' /\ TableType' /\ JobsType' /\ BudgetType'
  BY <1>1 DEF LedgerInv, ChainType, TableType, JobsType, BudgetType, OnChain
<1>4. RowsAreChains' /\ RowsFit'
  BY <1>1 DEF LedgerInv, RowsAreChains, RowsFit, OwnerOf, OnChain, Clean
<1>5. \A w \in Writer : JobFits(job[w])'
  BY <1>1 DEF LedgerInv, JobFits, OwnerOf, OnChain, Clean
<1>q. QED BY <1>1, <1>2, <1>3, <1>4, <1>5 DEF LedgerInv, Reached

\* In the ledger is in the wallet, as long as no tip is replaced.
LEMMA ListedIsHeld ==
  ASSUME LedgerInv, Clean
  PROVE  Listed \subseteq Held
<1> SUFFICES ASSUME NEW id \in DOMAIN rows, Buyer[rows[id]] = Me PROVE id \in Held
  BY DEF Listed
<1>1. id \in OnChain /\ rows[id] = minted[id]
  BY DEF LedgerInv, RowsFit
<1>q. QED BY <1>1, OwnerTypes DEF Held, LedgerInv

\* A step of the dialog alone.
LEMMA DialogStep ==
  ASSUME Inv, UNCHANGED ledgerVars, UNCHANGED paid,
         NEW stage \in Stage, NEW before, NEW tx, NEW id, NEW muddled,
         dlg' = View(stage, before, tx, id, muddled),
         stage # "registering",
         Clean /\ ~muddled /\ stage = "prompt" =>
             (\A t \in paid : Buyer[t] = Me => Reached(t)) /\ Held \subseteq before,
         Clean /\ ~muddled /\ stage \in {"confirming", "waiting"} =>
             /\ \A t \in paid : Buyer[t] = Me => t = tx \/ Reached(t)
             /\ \A k \in Held : minted[k] = tx \/ k \in before,
         Clean /\ ~muddled /\ stage \in {"syncing", "noted", "done"} => id \in OnChain /\ minted[id] = tx,
         Clean /\ ~muddled /\ stage = "done" => id \in DOMAIN rows
  PROVE  Inv'
<1>1. /\ LedgerInv' /\ Clean' = Clean /\ OnChain' = OnChain /\ Held' = Held
      /\ UNCHANGED <<minted, rows, job>> /\ \A t : Reached(t)' = Reached(t)
  BY LedgerStays DEF Inv
<1>2. /\ dlg' = View(dlg'.stage, dlg'.before, dlg'.tx, dlg'.id, dlg'.muddled)
      /\ dlg'.stage = stage /\ dlg'.before = before /\ dlg'.tx = tx /\ dlg'.id = id /\ dlg'.muddled = muddled
  BY ViewFields
<1>3. CallIsDialogs'
  BY <1>2 DEF CallIsDialogs, InStage
<1>4. Sighted' => BaselineHolds'
  BY <1>1, <1>2 DEF Sighted, BaselineHolds, InStage
<1>q. QED BY <1>1, <1>2, <1>3, <1>4 DEF Inv, DialogInv

LEMMA TurnsStep ==
  ASSUME Inv, NEW stage \in {"closed", "ready", "sending", "queued"}, Turns(stage), Stays
  PROVE  Inv'
<1>1. dlg' = View(stage, {}, None, 0, FALSE) /\ UNCHANGED ledgerVars /\ UNCHANGED paid
  BY DEF Turns, Stays
<1>q. QED BY <1>1, DialogStep DEF Stage

LEMMA BaselineStep ==
  ASSUME Inv, Baseline
  PROVE  Inv'
<1> DEFINE muddled == \E t \in paid : Awaited(t)
<1>1. UNCHANGED ledgerVars /\ UNCHANGED paid
  BY DEF Baseline, Stays
<1>2. CASE dlg' = View("prompt", OwnedIds, None, 0, muddled)
  <2>1. ~muddled => \A t \in paid : Buyer[t] = Me => Reached(t)
    BY DEF Reached, Awaited
  <2>2. Held \subseteq OwnedIds
    BY DEF OwnedIds
  <2> HIDE DEF muddled
  <2>q. QED BY <1>1, <1>2, <2>1, <2>2, DialogStep DEF Stage
<1>3. ASSUME NEW ids, dlg' = View("prompt", ids, None, 0, TRUE)
      PROVE  Inv'
  BY <1>1, <1>3, DialogStep DEF Stage
<1>q. QED BY <1>2, <1>3 DEF Baseline

LEMMA ReceiptStep ==
  ASSUME Inv, Receipt
  PROVE  Inv'
<1>1. CASE GoesOn("waiting")
  <2>1. dlg' = View("waiting", dlg.before, dlg.tx, dlg.id, dlg.muddled)
    BY <1>1, GoesOnFields DEF Inv
  <2>2. UNCHANGED ledgerVars /\ UNCHANGED paid /\ dlg.stage = "confirming"
    BY DEF Receipt, Stays, InStage
  <2>3. Clean /\ ~dlg.muddled =>
          /\ \A t \in paid : Buyer[t] = Me => t = dlg.tx \/ Reached(t)
          /\ \A k \in Held : minted[k] = dlg.tx \/ k \in dlg.before
    BY <2>2 DEF Inv, DialogInv, Sighted, BaselineHolds
  <2>q. QED BY <2>1, <2>2, <2>3, DialogStep DEF Stage
<1>2. CASE Turns("queued")
  BY <1>2, TurnsStep DEF Receipt
<1>q. QED BY <1>1, <1>2 DEF Receipt

\* The node that is new is the one the payment bought.
LEMMA PollStep ==
  ASSUME Inv, Poll
  PROVE  Inv'
<1>1. PICK id \in OwnedIds \union Listed :
        id \notin dlg.before /\ dlg' = View("syncing", {}, dlg.tx, id, dlg.muddled)
  BY DEF Poll
<1>2. UNCHANGED ledgerVars /\ UNCHANGED paid /\ dlg.stage = "waiting"
  BY DEF Poll, Stays, InStage
<1>3. ASSUME Clean, ~dlg.muddled
      PROVE  id \in OnChain /\ minted[id] = dlg.tx
  <2>1. id \in Held
    BY <1>1, <1>3, ListedIsHeld DEF OwnedIds, Inv
  <2>2. minted[id] = dlg.tx \/ id \in dlg.before
    BY <1>2, <1>3, <2>1 DEF Inv, DialogInv, Sighted, BaselineHolds
  <2>q. QED BY <1>1, <2>1, <2>2 DEF Held
<1>q. QED BY <1>1, <1>2, <1>3, DialogStep DEF Stage

LEMMA SyncRefusedStep ==
  ASSUME Inv, SyncRefused
  PROVE  Inv'
<1>1. dlg' = View("noted", dlg.before, dlg.tx, dlg.id, dlg.muddled)
  BY GoesOnFields DEF Inv, SyncRefused
<1>2. UNCHANGED ledgerVars /\ UNCHANGED paid /\ dlg.stage = "syncing"
  BY DEF SyncRefused, Stays, InStage
<1>3. Clean /\ ~dlg.muddled => dlg.id \in OnChain /\ minted[dlg.id] = dlg.tx
  BY <1>2 DEF Inv, DialogInv, Sighted, BaselineHolds
<1>q. QED BY <1>1, <1>2, <1>3, DialogStep DEF Stage

LEMMA SendStep ==
  ASSUME Inv, NEW t \in Mint, Send(t)
  PROVE  Inv'
<1>1. /\ dlg' = View("confirming", dlg.before, t, 0, dlg.muddled) /\ paid' = paid \union {t}
      /\ UNCHANGED ledgerVars /\ dlg.stage = "prompt"
  BY DEF Send, InStage
<1>2. /\ LedgerInv' /\ Clean' = Clean /\ OnChain' = OnChain /\ Held' = Held
      /\ UNCHANGED <<minted, rows, job>> /\ \A u : Reached(u)' = Reached(u)
  BY <1>1, LedgerStays DEF Inv
<1>3. /\ dlg' = View(dlg'.stage, dlg'.before, dlg'.tx, dlg'.id, dlg'.muddled)
      /\ dlg'.stage = "confirming" /\ dlg'.before = dlg.before /\ dlg'.tx = t /\ dlg'.muddled = dlg.muddled
  BY <1>1, ViewFields
<1>4. Sighted' => BaselineHolds'
  BY <1>1, <1>2, <1>3 DEF Inv, DialogInv, Sighted, BaselineHolds, InStage
<1>q. QED BY <1>1, <1>2, <1>3, <1>4 DEF Inv, DialogInv, CallIsDialogs, InStage, Stage

LEMMA PaidElsewhereStep ==
  ASSUME Inv, NEW t \in Mint, PaidElsewhere(t)
  PROVE  Inv'
<1> DEFINE muddled == (Buyer[t] = Me /\ dlg.stage \in {"prompt", "confirming", "waiting"}) \/ dlg.muddled
<1>1. /\ dlg' = [dlg EXCEPT !.muddled = muddled] /\ paid' = paid \union {t} /\ UNCHANGED ledgerVars
  BY DEF PaidElsewhere
<1>2. /\ LedgerInv' /\ Clean' = Clean /\ OnChain' = OnChain /\ Held' = Held
      /\ UNCHANGED <<minted, rows, job>> /\ \A u : Reached(u)' = Reached(u)
  BY <1>1, LedgerStays DEF Inv
<1>3. /\ dlg' = View(dlg'.stage, dlg'.before, dlg'.tx, dlg'.id, dlg'.muddled)
      /\ dlg'.stage = dlg.stage /\ dlg'.before = dlg.before /\ dlg'.tx = dlg.tx /\ dlg'.id = dlg.id
      /\ dlg'.muddled = muddled
  <2> HIDE DEF muddled
  <2>q. QED BY <1>1 DEF Inv, DialogInv, View
<1>4. Sighted' => BaselineHolds'
  <2> SUFFICES ASSUME Sighted' PROVE BaselineHolds'
    OBVIOUS
  <2>1. ~muddled
    <3> HIDE DEF muddled
    <3>q. QED BY <1>3 DEF Sighted
  <2>2. Sighted /\ (Buyer[t] = Me => dlg.stage \notin {"prompt", "confirming", "waiting"})
    BY <1>2, <2>1 DEF Sighted
  <2>3. BaselineHolds
    BY <2>2 DEF Inv, DialogInv
  <2>4. \A u \in paid' : u \in paid \/ u = t
    BY <1>1
  <2> HIDE DEF muddled
  <2>q. QED BY <1>2, <1>3, <2>2, <2>3, <2>4 DEF BaselineHolds, InStage
<1>5. CallIsDialogs'
  BY <1>2, <1>3 DEF Inv, DialogInv, CallIsDialogs, InStage
<1>q. QED BY <1>1, <1>2, <1>3, <1>4, <1>5 DEF Inv, DialogInv

----------------------------------------------------------------------------
(* The tab's call. *)

LEMMA SyncArrivesStep ==
  ASSUME Inv, SyncArrives
  PROVE  Inv'
<1>1. AskOwner(Tab, Me, dlg.id) /\ GoesOn("registering") /\ UNCHANGED <<paid, budget>> /\ dlg.stage = "syncing"
  BY DEF SyncArrives, InStage
<1>2. LedgerInv' /\ job'[Tab].stage = "logs" /\ job'[Tab].ids = {dlg.id}
  BY <1>1, AskOwnerStep DEF Inv, LedgerInv, BudgetType
<1>3. UNCHANGED <<minted, rows>>
  BY <1>1 DEF AskOwner, table
<1>4. dlg' = View("registering", dlg.before, dlg.tx, dlg.id, dlg.muddled)
  BY <1>1, GoesOnFields DEF Inv
<1>5. /\ dlg' = View(dlg'.stage, dlg'.before, dlg'.tx, dlg'.id, dlg'.muddled)
      /\ dlg'.stage = "registering" /\ dlg'.tx = dlg.tx /\ dlg'.id = dlg.id /\ dlg'.muddled = dlg.muddled
  BY <1>4, ViewFields
<1>6. Sighted' => BaselineHolds'
  BY <1>1, <1>3, <1>5 DEF Inv, DialogInv, Sighted, BaselineHolds, InStage, Clean, OnChain
<1>7. CallIsDialogs'
  BY <1>2, <1>5 DEF CallIsDialogs, InStage
<1>q. QED BY <1>1, <1>2, <1>5, <1>6, <1>7 DEF Inv, DialogInv, Stage

\* What the server answers is so, when the call was the dialog's.
LEMMA SyncGoesOnStep ==
  ASSUME Inv, SyncGoesOn
  PROVE  Inv'
<1>1. /\ LedgerInv' /\ UNCHANGED minted /\ Clean' = Clean /\ DOMAIN rows \subseteq DOMAIN rows'
      /\ UNCHANGED paid
  BY OthersStep DEF SyncGoesOn, GoOn, Inv
<1>2. OnChain' = OnChain /\ Held' = Held /\ \A t : Reached(t)' = Reached(t)
  BY <1>1 DEF OnChain, Held, OwnerOf, Reached
<1>3. CASE UNCHANGED dlg /\ ~InStage("registering")
  <2>1. Sighted' => BaselineHolds'
    BY <1>1, <1>2, <1>3 DEF Inv, DialogInv, Sighted, BaselineHolds, InStage
  <2>q. QED BY <1>1, <1>3, <2>1 DEF Inv, DialogInv, CallIsDialogs, InStage
<1>4. CASE InStage("registering") /\ UNCHANGED dlg /\ job'[Tab] # Idle
  <2>1. Sighted' => BaselineHolds'
    BY <1>1, <1>2, <1>4 DEF Inv, DialogInv, Sighted, BaselineHolds, InStage
  <2>2. CASE ReadLogs(Tab)
    <3>1. job[Tab].stage = "logs"
      BY <2>2 DEF ReadLogs, At
    <3>2. job[Tab].ids = {dlg.id}
      BY <1>4, <3>1 DEF Inv, DialogInv, CallIsDialogs
    <3>3. PICK seen \in SUBSET job[Tab].ids :
            seen # {} /\ job'[Tab].stage = "check" /\ DOMAIN job'[Tab].logs = seen
      BY <1>4, <2>2, ReadLogsStep DEF Inv
    <3>4. CallIsDialogs'
      BY <1>4, <3>2, <3>3 DEF CallIsDialogs
    <3>q. QED BY <1>1, <1>4, <2>1, <3>4 DEF Inv, DialogInv
  <2>3. CASE Check(Tab)
    <3>1. job[Tab].stage = "check"
      BY <2>3 DEF Check, At
    <3>2. DOMAIN job[Tab].logs = {dlg.id}
      BY <1>4, <3>1 DEF Inv, DialogInv, CallIsDialogs
    <3>3. /\ job'[Tab].stage = "check" /\ DOMAIN job'[Tab].logs # {}
          /\ DOMAIN job'[Tab].logs \subseteq DOMAIN job[Tab].logs
      BY <1>4, <2>3, CheckStep DEF Inv
    <3>4. CallIsDialogs'
      BY <1>4, <3>2, <3>3 DEF CallIsDialogs
    <3>q. QED BY <1>1, <1>4, <2>1, <3>4 DEF Inv, DialogInv
  <2>4. CASE Fail(Tab) \/ Record(Tab)
    BY <1>4, <2>4, FailStep, RecordStep DEF Inv
  <2>q. QED BY <2>2, <2>3, <2>4 DEF SyncGoesOn
<1>5. ASSUME InStage("registering"), NEW stage \in {"noted", "done"}, GoesOn(stage),
             stage = "done" => Record(Tab)
      PROVE  Inv'
  <2>1. dlg' = View(stage, dlg.before, dlg.tx, dlg.id, dlg.muddled)
    BY <1>5, GoesOnFields DEF Inv
  <2>2. /\ dlg' = View(dlg'.stage, dlg'.before, dlg'.tx, dlg'.id, dlg'.muddled)
        /\ dlg'.stage = stage /\ dlg'.tx = dlg.tx /\ dlg'.id = dlg.id /\ dlg'.muddled = dlg.muddled
    BY <2>1, ViewFields
  <2>3. stage = "done" /\ Clean => dlg.id \in DOMAIN rows'
    <3> SUFFICES ASSUME stage = "done", Clean PROVE dlg.id \in DOMAIN rows'
      OBVIOUS
    <3>1. DOMAIN job[Tab].logs \subseteq DOMAIN rows'
      BY <1>5, RecordStep DEF Inv
    <3>2. job[Tab].stage = "check"
      BY <1>5 DEF Record, At
    <3>3. DOMAIN job[Tab].logs = {dlg.id}
      BY <1>5, <3>2 DEF Inv, DialogInv, CallIsDialogs
    <3>q. QED BY <3>1, <3>3
  <2>4. Sighted' => BaselineHolds'
    BY <1>1, <1>2, <1>5, <2>2, <2>3 DEF Inv, DialogInv, Sighted, BaselineHolds, InStage
  <2>q. QED BY <1>1, <2>2, <2>4 DEF Inv, DialogInv, CallIsDialogs, InStage, Stage
<1>6. CASE (ReadLogs(Tab) \/ Check(Tab) \/ Fail(Tab)) /\ Answered("noted")
  BY <1>3, <1>4, <1>5, <1>6 DEF Answered
<1>7. CASE Record(Tab) /\ Answered("done")
  BY <1>3, <1>4, <1>5, <1>7 DEF Answered
<1>q. QED BY <1>6, <1>7 DEF SyncGoesOn

----------------------------------------------------------------------------
(* What goes on without the dialog. *)

LEMMA WithoutDialogStep ==
  ASSUME Inv, UNCHANGED <<paid, dlg>>,
         \/ \E t \in paid : Mined(t)
         \/ Undone
         \/ \E w \in Writer \ {Tab} : Begin(w) \/ GoOn(w) \/ Fail(w)
  PROVE  Inv'
<1>1. ASSUME NEW t \in paid, Mined(t)
      PROVE  Inv'
  <2>1. t \in Mint /\ ~Reached(t)
    BY <1>1 DEF Inv, DialogInv, Reached, Mined
  <2>2. /\ LedgerInv'
        /\ \A id \in OnChain : id \in OnChain' /\ minted'[id] = minted[id] /\ OwnerOf(id)' = OwnerOf(id)
        /\ \A id \in OnChain' : id \in OnChain \/ minted'[id] = t
        /\ \E id \in OnChain' : minted'[id] = t
    BY <1>1, <2>1, MinedStep DEF Inv
  <2>3. UNCHANGED <<rows, job>> /\ Clean' = Clean
    BY <1>1 DEF Mined, table, Clean
  <2>4. \A u : Reached(u) => Reached(u)'
    BY <2>2 DEF Reached
  <2>5. \A id \in Held' : id \in Held \/ (minted'[id] = t /\ Buyer[t] = Me)
    BY <2>2 DEF Held, OwnerOf
  <2>6. Sighted' => BaselineHolds'
    <3> SUFFICES ASSUME Sighted' PROVE BaselineHolds'
      OBVIOUS
    <3>1. BaselineHolds
      BY <2>3 DEF Inv, DialogInv, Sighted
    <3>2. InStage("prompt") =>
            /\ \A u \in paid : Buyer[u] = Me => Reached(u)'
            /\ Held' \subseteq dlg.before
      <4> SUFFICES ASSUME InStage("prompt")
                   PROVE  /\ \A u \in paid : Buyer[u] = Me => Reached(u)'
                          /\ Held' \subseteq dlg.before
        OBVIOUS
      <4>1. Buyer[t] # Me
        BY <2>1, <3>1 DEF BaselineHolds
      <4>q. QED BY <2>4, <2>5, <3>1, <4>1 DEF BaselineHolds
    <3>3. dlg.stage \in {"confirming", "waiting"} =>
            /\ \A u \in paid : Buyer[u] = Me => u = dlg.tx \/ Reached(u)'
            /\ \A id \in Held' : minted'[id] = dlg.tx \/ id \in dlg.before
      <4> SUFFICES ASSUME dlg.stage \in {"confirming", "waiting"}
                   PROVE  /\ \A u \in paid : Buyer[u] = Me => u = dlg.tx \/ Reached(u)'
                          /\ \A id \in Held' : minted'[id] = dlg.tx \/ id \in dlg.before
        OBVIOUS
      <4>1. Buyer[t] = Me => t = dlg.tx
        BY <2>1, <3>1 DEF BaselineHolds
      <4>2. \A u \in paid : Buyer[u] = Me => u = dlg.tx \/ Reached(u)'
        BY <2>4, <3>1 DEF BaselineHolds
      <4>3. ASSUME NEW id \in Held'
            PROVE  minted'[id] = dlg.tx \/ id \in dlg.before
        <5>1. CASE minted'[id] = t /\ Buyer[t] = Me
          BY <4>1, <5>1
        <5>2. CASE id \in Held
          BY <2>2, <3>1, <5>2 DEF BaselineHolds, Held
        <5>q. QED BY <2>5, <5>1, <5>2
      <4>q. QED BY <4>2, <4>3
    <3>4. dlg.stage \in {"syncing", "registering", "noted", "done"} => dlg.id \in OnChain' /\ minted'[dlg.id] = dlg.tx
      BY <2>2, <3>1 DEF BaselineHolds
    <3>5. InStage("done") => dlg.id \in DOMAIN rows'
      BY <2>3, <3>1 DEF BaselineHolds
    <3>q. QED BY <3>2, <3>3, <3>4, <3>5 DEF BaselineHolds, InStage
  <2>q. QED BY <2>2, <2>3, <2>6 DEF Inv, DialogInv, CallIsDialogs, InStage
<1>2. CASE Undone
  <2>1. LedgerInv' /\ ~Clean' /\ UNCHANGED job
    BY <1>2, UndoneStep DEF Inv, Undone
  <2>q. QED BY <2>1 DEF Inv, DialogInv, CallIsDialogs, InStage, Sighted
<1>3. ASSUME NEW w \in Writer \ {Tab}, Begin(w) \/ GoOn(w) \/ Fail(w)
      PROVE  Inv'
  <2>1. /\ LedgerInv' /\ UNCHANGED minted /\ Clean' = Clean
        /\ DOMAIN rows \subseteq DOMAIN rows' /\ job'[Tab] = job[Tab]
    BY <1>3, OthersStep DEF Inv
  <2>2. OnChain' = OnChain /\ Held' = Held /\ \A t : Reached(t)' = Reached(t)
    BY <2>1 DEF OnChain, Held, OwnerOf, Reached
  <2>3. Sighted' => BaselineHolds'
    BY <2>1, <2>2 DEF Inv, DialogInv, Sighted, BaselineHolds, InStage
  <2>q. QED BY <2>1, <2>3 DEF Inv, DialogInv, CallIsDialogs, InStage
<1>q. QED BY <1>1, <1>2, <1>3

----------------------------------------------------------------------------
LEMMA InvStart == Init => Inv
<1> SUFFICES ASSUME Init PROVE Inv
  OBVIOUS
<1>1. LedgerInv
  BY LedgerInvStart DEF Init
<1>2. dlg = View("closed", {}, None, 0, FALSE) /\ paid = {}
  BY DEF Init
<1>3. dlg = View(dlg.stage, dlg.before, dlg.tx, dlg.id, dlg.muddled) /\ dlg.stage = "closed"
  BY <1>2 DEF View
<1>4. CallIsDialogs /\ BaselineHolds
  BY <1>3 DEF CallIsDialogs, BaselineHolds, InStage
<1>5. dlg.stage \in Stage /\ paid \subseteq Mint
  BY <1>2, <1>3 DEF Stage
<1>q. QED BY <1>1, <1>3, <1>4, <1>5 DEF Inv, DialogInv

LEMMA InvStep ==
  ASSUME Inv, [Next]_vars
  PROVE  Inv'
<1>1. CASE Open \/ Pay \/ Refused \/ GiveUp \/ Close
  BY <1>1, TurnsStep DEF Open, Pay, Refused, GiveUp, Close
<1>2. CASE Baseline
  BY <1>2, BaselineStep
<1>3. CASE Receipt
  BY <1>3, ReceiptStep
<1>4. CASE Poll
  BY <1>4, PollStep
<1>5. CASE SyncRefused
  BY <1>5, SyncRefusedStep
<1>6. CASE SyncArrives
  BY <1>6, SyncArrivesStep
<1>7. CASE SyncGoesOn
  BY <1>7, SyncGoesOnStep
<1>8. CASE \E t \in Mint : Send(t) \/ PaidElsewhere(t)
  BY <1>8, SendStep, PaidElsewhereStep
<1>9. CASE \/ \E t \in paid : Mined(t) /\ UNCHANGED <<paid, dlg>>
           \/ Undone /\ UNCHANGED <<paid, dlg>>
           \/ \E w \in Writer \ {Tab} : (Begin(w) \/ GoOn(w) \/ Fail(w)) /\ UNCHANGED <<paid, dlg>>
  BY <1>9, WithoutDialogStep
<1>10. CASE UNCHANGED vars
  <2>1. UNCHANGED ledgerVars /\ UNCHANGED <<paid, dlg>>
    BY <1>10 DEF vars
  <2>2. /\ LedgerInv' /\ Clean' = Clean /\ OnChain' = OnChain /\ Held' = Held
        /\ UNCHANGED <<minted, rows, job>> /\ \A t : Reached(t)' = Reached(t)
    BY <2>1, LedgerStays DEF Inv
  <2>q. QED BY <2>1, <2>2 DEF Inv, DialogInv, CallIsDialogs, Sighted, BaselineHolds, InStage
<1>q. QED BY <1>1, <1>2, <1>3, <1>4, <1>5, <1>6, <1>7, <1>8, <1>9, <1>10 DEF Next

\* The state of the ledger, of the calls and of the chain has its type, of any
\* number of mints and calls; no id is beyond the number of mints.
THEOREM LedgerTypes == Spec => []LedgerTypeOK
<1>1. Inv => LedgerTypeOK
  <2> SUFFICES ASSUME Inv PROVE LedgerTypeOK
    OBVIOUS
  <2>1. \A w \in Writer :
          /\ job[w].stage \in {"idle", "missing", "logs", "check"}
          /\ job[w].who \in Wallet \union {None}
          /\ job[w].ids \subseteq Id /\ job[w].logs \in Logbook
    BY DEF Inv, LedgerInv, JobsType, Job
  <2>q. QED BY <2>1 DEF Inv, LedgerInv, ChainType, TableType, BudgetType, LedgerTypeOK, Logbook
<1>q. QED BY <1>1, InvStart, InvStep, PTL DEF Spec

\* A row's owner is the owner the contract has, unless the mint was undone after a
\* call had checked it (reconcile.ts, sync/route.ts), whatever calls overlap.
THEOREM RowsAreTheChains == Spec => []RowsAreChains
<1>1. Inv => RowsAreChains
  BY DEF Inv, LedgerInv
<1>q. QED BY <1>1, InvStart, InvStep, PTL DEF Spec

\* What the dialog says at the end is true, of the node its payment bought and of
\* the ledger (DeployModal.tsx), for any number of wallets that pay at any time, of
\* nodes and of calls; only a second payment of this wallet on its way beside the
\* dialog's, a blind baseline and a replaced tip are excluded.
THEOREM DeployedTheNode == Spec => []DeployedIsTrue
<1>1. Inv => DeployedIsTrue
  BY DEF Inv, DialogInv, Sighted, Clean, BaselineHolds, InStage, DeployedIsTrue
<1>q. QED BY <1>1, InvStart, InvStep, PTL DEF Spec
=============================================================================
