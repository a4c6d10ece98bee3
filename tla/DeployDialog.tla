---------------------------- MODULE DeployDialog ----------------------------
(***************************************************************************)
(* Buying a node from the dashboard (DeployModal.tsx) over the ledger: the *)
(* dialog takes what the wallet holds as a baseline, has a plain transfer  *)
(* sent, polls GET /api/me until a node appears that was not there before, *)
(* registers it through the sync route and says it is deployed.            *)
(*                                                                         *)
(* A payment and the mint it leads to have one name here: the queue and    *)
(* the relay between them are MintRelay, and may take any time or for ever.*)
(* The session is the wallet's own, or gone (WalletSession says when not). *)
(***************************************************************************)
EXTENDS NodeLedger

CONSTANTS
    Me,     \* the wallet of this tab
    Tab     \* the sync call this tab has under way

ASSUME DialogAssumption == Me # None /\ Tab \in Writer

VARIABLES
    paid,   \* payments sent, from this tab or elsewhere
    dlg     \* [stage, before, tx, id, muddled]: the dialog

vars == <<ledgerVars, paid, dlg>>

View(stage, before, tx, id, muddled) ==
    [stage |-> stage, before |-> before, tx |-> tx, id |-> id, muddled |-> muddled]
InStage(stage) == dlg.stage = stage
Turns(stage) == dlg' = View(stage, {}, None, 0, FALSE)   \* the locals of pay() end with it
GoesOn(stage) == dlg' = [dlg EXCEPT !.stage = stage]
Stays == UNCHANGED <<ledgerVars, paid>>

Init == LedgerInit /\ paid = {} /\ dlg = View("closed", {}, None, 0, FALSE)

-----------------------------------------------------------------------------
(* GET /api/me, as ownedIds takes it: the ledger's nodes of the wallet and, *)
(* if the chain could be read, the contract's.                              *)
Listed == {id \in DOMAIN rows : Buyer[rows[id]] = Me}
Held == {id \in OnChain : OwnerOf(id) = Me}
OwnedIdsOfLedger == Listed
OwnedIds == Listed \union Held

(* The form, with the first quote or without it.                            *)
Open ==
    /\ InStage("closed")
    /\ Turns("ready")
    /\ Stays

Pay ==
    /\ InStage("ready")
    /\ Turns("sending")
    /\ Stays

(* The network, the second quote, a paused contract, the tier, GET /api/me, *)
(* the wallet's prompt: any of them takes the dialog back to its form.      *)
Refused ==
    /\ dlg.stage \in {"sending", "prompt"}
    /\ Turns("ready")
    /\ Stays

(* The baseline, before the wallet is asked.  Without a session it is empty *)
(* and without the chain it is the ledger's: the dialog can then not tell   *)
(* an old node from the new one, nor can it while another payment of the    *)
(* wallet is on its way.  Payments of other wallets do not matter to it.    *)
Awaited(t) == Buyer[t] = Me /\ \A id \in OnChain : minted[id] # t

Baseline ==
    /\ InStage("sending")
    /\ \/ dlg' = View("prompt", OwnedIds, None, 0, \E t \in paid : Awaited(t))
       \/ \E ids \in {{}, Listed} : dlg' = View("prompt", ids, None, 0, TRUE)
    /\ Stays

Send(t) ==
    /\ InStage("prompt") /\ t \notin paid /\ Buyer[t] = Me
    /\ paid' = paid \union {t}
    /\ dlg' = View("confirming", dlg.before, t, 0, dlg.muddled)
    /\ UNCHANGED ledgerVars

(* With the receipt the server is told the hash; without one the payment is *)
(* left to the scan.                                                        *)
Receipt ==
    /\ InStage("confirming")
    /\ GoesOn("waiting") \/ Turns("queued")
    /\ Stays

(* A poll may lack the chain's part, and one that fails is no answer.       *)
Poll ==
    /\ InStage("waiting")
    /\ \E ids \in {OwnedIds, Listed} : \E id \in ids \ dlg.before :
         dlg' = View("syncing", {}, dlg.tx, id, dlg.muddled)
    /\ Stays

GiveUp ==
    /\ InStage("waiting")
    /\ Turns("queued")
    /\ Stays

(* The sync route is not reached, refuses, or answers when its call ends:   *)
(* deployed, or deployed with a note that it is not in the ledger yet.      *)
SyncRefused ==
    /\ InStage("syncing")
    /\ GoesOn("noted")
    /\ Stays

SyncArrives ==
    /\ InStage("syncing")
    /\ AskOwner(Tab, Me, dlg.id)
    /\ GoesOn("registering")
    /\ UNCHANGED <<paid, budget>>

Answered(stage) == IF InStage("registering") /\ job'[Tab] = Idle THEN GoesOn(stage) ELSE UNCHANGED dlg

SyncGoesOn ==
    /\ \/ (ReadLogs(Tab) \/ Check(Tab) \/ Fail(Tab)) /\ Answered("noted")
       \/ Record(Tab) /\ Answered("done")
    /\ UNCHANGED paid

(* The dialog cannot be dismissed while it is sending or confirming; what   *)
(* it has asked the server for goes on without it.                          *)
Close ==
    /\ dlg.stage \in {"ready", "waiting", "syncing", "registering", "queued", "noted", "done"}
    /\ Turns("closed")
    /\ Stays

-----------------------------------------------------------------------------
(* Another tab or wallet pays; the relay mints what was paid.               *)
PaidElsewhere(t) ==
    /\ t \notin paid
    /\ paid' = paid \union {t}
    /\ dlg' = [dlg EXCEPT !.muddled = (Buyer[t] = Me /\ dlg.stage \in {"prompt", "confirming", "waiting"}) \/ @]
    /\ UNCHANGED ledgerVars

Next ==
    \/ Open \/ Pay \/ Refused \/ Baseline \/ Receipt \/ Poll \/ GiveUp
    \/ SyncRefused \/ SyncArrives \/ SyncGoesOn \/ Close
    \/ \E t \in Mint : Send(t) \/ PaidElsewhere(t)
    \/ \E t \in paid : Mined(t) /\ UNCHANGED <<paid, dlg>>
    \/ Undone /\ UNCHANGED <<paid, dlg>>
    \/ \E w \in Writer \ {Tab} : (Begin(w) \/ GoOn(w) \/ Fail(w)) /\ UNCHANGED <<paid, dlg>>

Spec == Init /\ [][Next]_vars

(* The reconciler is "meant to be called on a timer every few minutes"      *)
(* (admin/reconcile/route.ts:11), and a call that began goes on or fails.   *)
Fairness ==
    /\ SF_vars(\E w \in Writer \ {Tab} : ReadTotal(w) /\ UNCHANGED <<paid, dlg>>)
    /\ \A w \in Writer \ {Tab} : WF_vars(GoOn(w) /\ UNCHANGED <<paid, dlg>>)
FairSpec == Spec /\ Fairness

-----------------------------------------------------------------------------
\* What the dialog says at the end is true, whatever other wallets pay and get
\* meanwhile: the node it names is the one its payment bought, and without the
\* note it is in the ledger.  Not so if the tip of the chain was replaced, if
\* the baseline was taken without the session or the chain, or if another
\* payment of this wallet was on its way.
DeployedIsTrue ==
    dlg.stage \in {"noted", "done"} /\ ~dlg.muddled /\ budget["reorg"] = Budget["reorg"] =>
        /\ dlg.id \in OnChain /\ minted[dlg.id] = dlg.tx
        /\ InStage("noted") \/ dlg.id \in DOMAIN rows
=============================================================================
