--------------------------- MODULE OperatorConsole ---------------------------
(***************************************************************************)
(* The administrator's hold on the credit pass: the settings that override *)
(* the environment (settings.ts) and the request to distribute now, which  *)
(* is a flag in worker_state that the worker's loop polls between passes   *)
(* (worker/index.ts).  The cron route runs the same pass under the same    *)
(* lock.  What a pass does with its settings is CreditPass.                *)
(*                                                                         *)
(* The two ranges, of delays and of amounts, are checked alike, so there   *)
(* is one, from lo to hi.  The mode is left out.                           *)
(***************************************************************************)
EXTENDS Naturals, FiniteSets

CONSTANTS
    Env,        \* distConfig(): the settings of the environment, which it has validated
    Patch,      \* the patches administrators submit
    ByHand,     \* rows somebody writes into the table without the route
    Unusable,   \* a stored text that does not parse
    Nobody,     \* holder of a free lock
    MaxEdits,   \* bound on patches between their check and their save
    Budget      \* Budget[f]: how often rows are written by hand, and the loop or a pass is stopped

Field == {"on", "lo", "hi", "cap"}
Config == [Field -> Nat]
AreRows(r, V) == DOMAIN r \subseteq Field /\ \A f \in DOMAIN r : r[f] \in V
Fault == {"hand", "stop"}

Valid(c) == c["lo"] >= 1 /\ c["hi"] >= c["lo"] /\ c["cap"] > 0

ASSUME ConsoleAssumption ==
    /\ Env \in Config /\ Valid(Env)
    /\ \A patch \in Patch : AreRows(patch, Nat)
    /\ \A rows \in ByHand : AreRows(rows, Nat \union {Unusable})
    /\ Unusable \notin Nat /\ MaxEdits \in Nat
    /\ Budget \in [Fault -> Nat]

VARIABLES
    table,    \* the rows dist.* of settings
    edits,    \* patches validated and not yet saved: [patch, stale]
    crossed,  \* a patch was saved over a table that had changed since it was validated
    alert,    \* the alert "config" is open
    click,    \* how far a request of the distribute route has got
    flag,     \* worker_state.run_now_at
    silent,   \* worker_state.last_tick_at is older than WORKER_STALL_SEC
    worker,   \* where the loop stands
    stopping, \* it was told to stop
    pass,     \* the pass under the lock: who runs it, its stage, whether it ignores rows
    asked,    \* a request no pass has begun after
    budget

vars == <<table, edits, crossed, alert, click, flag, silent, worker, stopping, pass, asked, budget>>
settings == <<table, edits, crossed>>
request == <<click, flag, asked>>
loop == <<worker, stopping>>

NoPass == [who |-> Nobody, stage |-> "none", ignores |-> FALSE]
Spend(f) == budget[f] > 0 /\ budget' = [budget EXCEPT ![f] = @ - 1]

Init ==
    /\ table = [f \in {} |-> 0] /\ edits = {} /\ crossed = FALSE
    /\ alert = FALSE
    /\ click = "none" /\ flag = FALSE /\ asked = FALSE
    /\ silent = FALSE
    /\ worker = "down" /\ stopping = FALSE
    /\ pass = NoPass
    /\ budget = Budget

-----------------------------------------------------------------------------
(* loadSettings. *)

Over(base, rows) == [f \in Field |-> IF f \in DOMAIN rows /\ rows[f] # Unusable THEN rows[f] ELSE base[f]]
Merged == Over(Env, table)

FixLo(c) == IF c["lo"] < 1 THEN [c EXCEPT !["lo"] = Env["lo"]] ELSE c
FixRange(c) == IF c["hi"] < c["lo"] THEN [c EXCEPT !["lo"] = Env["lo"], !["hi"] = Env["hi"]] ELSE c
FixCap(c) == IF c["cap"] = 0 THEN [c EXCEPT !["cap"] = Env["cap"]] ELSE c
Reconcile(c) == FixCap(FixRange(FixLo(c)))

Loaded == Reconcile(Merged)
Ignored == {f \in DOMAIN table : Loaded[f] # table[f]}

-----------------------------------------------------------------------------
(* The settings route: validate what the worker would end up with, then     *)
(* save, in two statements; or drop every row.                              *)

AcceptsAlone(patch) == Valid(Over(Env, patch))
Accepts(patch) == Valid(Over(Loaded, patch))

Submit(patch) ==
    /\ Accepts(patch) /\ Cardinality(edits) < MaxEdits
    /\ edits' = edits \union {[patch |-> patch, stale |-> FALSE]}
    /\ UNCHANGED <<table, crossed, alert, request, silent, loop, pass, budget>>

Outdated(es) == {[e EXCEPT !.stale = TRUE] : e \in es}

Save(e) ==
    /\ e \in edits
    /\ table' = [f \in DOMAIN table \union DOMAIN e.patch |->
                    IF f \in DOMAIN e.patch THEN e.patch[f] ELSE table[f]]
    /\ edits' = Outdated(edits \ {e})
    /\ crossed' = (crossed \/ e.stale)
    /\ UNCHANGED <<alert, request, silent, loop, pass, budget>>

Reset ==
    /\ table' = [f \in {} |-> 0]
    /\ edits' = Outdated(edits)
    /\ UNCHANGED <<crossed, alert, request, silent, loop, pass, budget>>

WrittenByHand(rows) ==
    /\ Spend("hand")
    /\ table' = [f \in DOMAIN table \union DOMAIN rows |-> IF f \in DOMAIN rows THEN rows[f] ELSE table[f]]
    /\ edits' = Outdated(edits)
    /\ UNCHANGED <<crossed, alert, request, silent, loop, pass>>

-----------------------------------------------------------------------------
(* The distribute route: only while distribution is on, and while the       *)
(* worker, or a cron pass in its place, has given a sign of life.           *)

Click ==
    /\ click = "none" /\ Loaded["on"] = 1
    /\ click' = "enabled"
    /\ UNCHANGED <<settings, alert, flag, asked, silent, loop, pass, budget>>

ReadWorkerState ==
    /\ click = "enabled"
    /\ click' = IF silent THEN "none" ELSE "alive"
    /\ UNCHANGED <<settings, alert, flag, asked, silent, loop, pass, budget>>

RequestRunNow ==
    /\ click = "alive" /\ click' = "none"
    /\ flag' = TRUE /\ asked' = TRUE
    /\ UNCHANGED <<settings, alert, silent, loop, pass, budget>>

-----------------------------------------------------------------------------
(* The worker's loop. *)

At(stage) == worker = stage
Goes(stage) == worker' = stage

Start ==
    /\ At("down")
    /\ Goes("top") /\ stopping' = FALSE /\ silent' = FALSE
    /\ UNCHANGED <<settings, alert, request, pass, budget>>

Signal ==
    /\ ~At("down") /\ ~stopping
    /\ Spend("stop")
    /\ stopping' = TRUE
    /\ UNCHANGED <<settings, alert, request, silent, worker, pass>>

MarkTickAfresh ==
    /\ At("top") /\ ~stopping
    /\ Goes("asleep") /\ silent' = FALSE /\ flag' = FALSE
    /\ UNCHANGED <<settings, alert, click, asked, stopping, pass, budget>>

MarkTick ==
    /\ At("top") /\ ~stopping
    /\ Goes("asleep") /\ silent' = FALSE
    /\ UNCHANGED <<settings, alert, request, stopping, pass, budget>>

(* A slice of the sleep is over; the sleep is over.                         *)
Poll ==
    /\ At("asleep") /\ ~stopping
    /\ Goes("poll") \/ Goes("run")
    /\ silent' = FALSE
    /\ UNCHANGED <<settings, alert, request, stopping, pass, budget>>

(* The signal may come between the look at `stopping` and this statement,   *)
(* which then takes the request all the same.                               *)
ConsumeRunNow ==
    /\ At("poll")
    /\ flag' = FALSE
    /\ Goes(IF flag THEN "run" ELSE "asleep")
    /\ UNCHANGED <<settings, alert, click, asked, silent, stopping, pass, budget>>

Exit ==
    /\ worker \in {"top", "asleep", "run"} /\ stopping
    /\ Goes("down")
    /\ UNCHANGED <<settings, alert, request, silent, stopping, pass, budget>>

RunOnce ==
    /\ At("run") /\ ~stopping
    /\ IF pass.who = Nobody
       THEN Goes("pass") /\ pass' = [NoPass EXCEPT !.who = "worker", !.stage = "begun"]
       ELSE Goes("top") /\ UNCHANGED pass
    /\ UNCHANGED <<settings, alert, request, silent, stopping, budget>>

CronRun ==
    /\ pass.who = Nobody
    /\ pass' = [NoPass EXCEPT !.who = "cron", !.stage = "begun"]
    /\ UNCHANGED <<settings, alert, request, silent, loop, budget>>

-----------------------------------------------------------------------------
(* A pass: the settings, the alert about them, and then the crediting.      *)

LoadSettings ==
    /\ pass.stage = "begun"
    /\ pass' = [pass EXCEPT !.stage = "loaded", !.ignores = Ignored # {}]
    /\ asked' = FALSE
    /\ UNCHANGED <<settings, alert, click, flag, silent, loop, budget>>

RaiseOrClear ==
    /\ pass.stage = "loaded"
    /\ alert' = pass.ignores
    /\ pass' = [pass EXCEPT !.stage = "acting"]
    /\ UNCHANGED <<settings, request, silent, loop, budget>>

(* The lock goes with the pass, in a finally, or with its connection.       *)
Ends(stage) == IF pass.who = "worker" THEN Goes(stage) ELSE UNCHANGED worker

(* creditTick's heartbeat, or recordError's.                                *)
Finish ==
    /\ pass.stage = "acting"
    /\ pass' = NoPass
    /\ Ends("top") /\ silent' = FALSE
    /\ UNCHANGED <<settings, alert, request, stopping, budget>>

Throw ==
    /\ pass.who # Nobody
    /\ Spend("stop")
    /\ pass' = NoPass
    /\ Ends("top") /\ silent' = (silent /\ pass.who = "cron")
    /\ UNCHANGED <<settings, alert, request, stopping>>

(* The process is killed, at any point.                                     *)
Kill ==
    /\ \/ pass.who # Nobody /\ pass' = NoPass /\ Ends("down")
       \/ ~At("pass") /\ ~At("down") /\ Goes("down") /\ UNCHANGED pass
    /\ Spend("stop")
    /\ UNCHANGED <<settings, alert, request, silent, stopping>>

-----------------------------------------------------------------------------
(* Fifteen minutes without a heartbeat; the button that closes an alert.    *)

GoesSilent ==
    /\ At("down") /\ pass.who = Nobody
    /\ silent' = TRUE
    /\ UNCHANGED <<settings, alert, request, loop, pass, budget>>

ResolveAlert ==
    /\ alert
    /\ alert' = FALSE
    /\ UNCHANGED <<settings, request, silent, loop, pass, budget>>

-----------------------------------------------------------------------------
Operator ==
    \/ \E patch \in Patch : Submit(patch)
    \/ \E e \in edits : Save(e)
    \/ Reset \/ Click \/ ReadWorkerState \/ RequestRunNow \/ ResolveAlert
    \/ \E rows \in ByHand : WrittenByHand(rows)
WorkerStep == Start \/ MarkTick \/ Poll \/ ConsumeRunNow \/ Exit \/ RunOnce
PassStep == LoadSettings \/ RaiseOrClear \/ Finish

Next == Operator \/ WorkerStep \/ PassStep \/ CronRun \/ Signal \/ Throw \/ Kill \/ GoesSilent

Spec == Init /\ [][Next]_vars

(* The worker is "a supervised process" (index.ts:9): one that is down is   *)
(* started again; a slice of its sleep comes to an end, though the sleep    *)
(* may not, and passes answer or throw.                                     *)
Fairness == WF_vars(WorkerStep) /\ WF_vars(PassStep)
FairSpec == Spec /\ Fairness

-----------------------------------------------------------------------------
\* A pass acts on settings that make sense: whatever the table and the
\* environment say together, the range is not empty or inverted and nothing is
\* zero, although each half may be fine on its own (settings.ts:101-106).
PassMakesSense == Valid(Loaded)

\* What the settings route accepted is what the worker acts on: no row is
\* ignored, unless somebody wrote into the table by hand, or two requests
\* crossed between the check of one and its save.
EditsHold == ~crossed /\ budget["hand"] = Budget["hand"] => Ignored = {}

SettingsHold == PassMakesSense /\ EditsHold

\* "The worker picks the flag up within seconds" (distribute/route.ts:8): a
\* request is followed by a pass that begins after it although no scheduled pass
\* ever comes, over heartbeats, a pass under way, a worker that was killed with
\* the flag set, and requests that overlap.  It is lost, until the next scheduled
\* pass, only when the worker, having taken the flag or about to run, finds the
\* lock taken, or when the loop or a pass is stopped while the flag is out.
FindsItLocked == At("run") /\ pass.who # Nobody
RequestIsServed == \A n \in 0 .. Budget["stop"] :
    flag /\ budget["stop"] = n ~> ~asked \/ FindsItLocked \/ stopping \/ budget["stop"] # n
=============================================================================
