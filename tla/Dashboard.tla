------------------------------ MODULE Dashboard ------------------------------
(***************************************************************************)
(* The signed-in dashboard (useDashboardData.ts, Dashboard.tsx,            *)
(* WithdrawModal.tsx) over the wallet session of its tab.  It is mounted   *)
(* while the phase is `ready` with an address, and everything it holds is  *)
(* gone when it is not.  GET /api/me answers for the session's address,    *)
(* not for the one on screen; every figure is then read from the contract, *)
(* node by node, while credits and withdrawals change it.                  *)
(*                                                                         *)
(* A load is live while its generation is the hook's, here while its       *)
(* dashboard is mounted.  The ledger's list of nodes is fixed here         *)
(* (NodeLedger models how it grows).                                       *)
(***************************************************************************)
EXTENDS WalletSession

CONSTANTS
    Node,        \* nodes, by their row in the ledger
    Holder,      \* Holder[n]: the address whose node it is
    MaxReceived, \* credits a node may have received
    MaxFaults,   \* requests that fail or outlast the refresh interval
    MaxLoads     \* requests of one dashboard under way at once

ASSUME HolderType == Holder \in [Node -> Address]
ASSUME NoneIsNoFigure == None \notin Nat

VARIABLES
    chain,    \* [Node -> [received, withdrawn]]: contract storage
    status,   \* "none" (not mounted), "loading", "ready", "error"
    rows,     \* the figures on screen, per node listed
    details,  \* [Node -> [at, seen]]: detailAt, and what the contract had received when it was read
    loads,    \* calls of load() and loadDetail() under way
    modal,    \* [stage, node, balance, paid]: the withdrawal dialog (node None: all of them)
    pending,  \* withdrawals sent and not mined: [from, node, dialog]
    faults

screenVars == <<status, rows, details, loads>>
dashVars == <<chain, status, rows, details, loads, modal, pending, faults>>
vars == <<walletVars, dashVars>>

Figure == [balance : Nat, cumulative : Nat, withdrawn : Nat]
NoRows == [n \in {} |-> None]
NoDetail == [at |-> None, seen |-> None]
Closed == [stage |-> "closed", node |-> None, balance |-> None, paid |-> NoRows]

Owned(a) == {n \in Node : Holder[n] = a}
Holding(n) == chain[n].received - chain[n].withdrawn
Figures(n) == [balance |-> Holding(n), cumulative |-> chain[n].received, withdrawn |-> chain[n].withdrawn]

-----------------------------------------------------------------------------
(* load(mode) bumps the generation, so the one before it is live no longer. *)

Load(mode, session) ==
    [mode |-> mode, live |-> TRUE, here |-> TRUE, stage |-> "me", ask |-> session, got |-> NoRows]
Superseded == {[l EXCEPT !.live = FALSE] : l \in {k \in loads : k.here}} \union {k \in loads : ~k.here}
Loading == \E l \in loads : l.live /\ l.here /\ l.stage # "details"

(* What React does when the phase leaves or enters `ready`.  Of the loads   *)
(* of a dashboard that is gone only one that waits for /api/me can still    *)
(* do something: it may report the session lost.                            *)
Unmounted == {[l EXCEPT !.here = FALSE] : l \in {k \in loads : k.live /\ k.stage = "me"}}

Mounts ==
    \/ Gate /\ ~Gate' /\ status' = "none" /\ rows' = NoRows /\ details' = [n \in Node |-> NoDetail]
         /\ loads' = Unmounted /\ modal' = Closed
    \/ ~Gate /\ Gate' /\ status' = "loading" /\ loads' = loads \union {Load("initial", cookie'.session)}
         /\ UNCHANGED <<rows, details, modal>>
    \/ Gate = Gate' /\ UNCHANGED <<screenVars, modal>>

(* The account bar, with its button to disconnect, comes with the rows. *)
NoBar == Gate /\ status # "ready"
WalletStep ==
    /\ WalletNext
    /\ NoBar => ~(leaving = "no" /\ leaving' = "logout")
    /\ Mounts
    /\ UNCHANGED <<chain, pending, faults>>

-----------------------------------------------------------------------------
(* A refresh: the interval, a closed dialog, a retry.  The interval         *)
(* overtakes a load that takes longer than it, and that counts as a fault.  *)
Restart == loads' = Superseded \union {Load("refresh", cookie.session)}

PollsWhenReady == Gate /\ status = "ready"
Polls == Gate

Refresh ==
    /\ Polls /\ Cardinality(loads) < MaxLoads
    /\ \/ ~Loading /\ UNCHANGED faults
       \/ Loading /\ faults < MaxFaults /\ faults' = faults + 1
    /\ Restart
    /\ UNCHANGED <<walletVars, chain, status, rows, details, modal, pending>>

(* GET /api/me failed, or a chain read did: one failed read rejects them    *)
(* all.  A first load becomes the error panel, a refresh says nothing.      *)
LoadFails(l) ==
    /\ l.stage \in {"me", "chain"} /\ faults < MaxFaults
    /\ faults' = faults + 1
    /\ loads' = loads \ {l}
    /\ status' = IF l.live /\ l.here /\ l.mode = "initial" THEN "error" ELSE status
    /\ UNCHANGED <<walletVars, chain, rows, details, modal, pending>>

MeListsNothing(l) ==
    /\ l.stage = "me" /\ l.ask = None
    /\ loads' = loads \ {l}
    /\ UNCHANGED <<walletVars, chain, status, rows, details, modal, pending, faults>>

(* No session: back to the sign-in gate, from a dashboard that is gone too. *)
MeAnswersNobody(l) ==
    /\ l.stage = "me" /\ l.ask = None
    /\ IF l.live /\ SessionLost(ui) # ui
       THEN /\ ui' = SessionLost(ui)
            /\ status' = "none" /\ rows' = NoRows /\ details' = [n \in Node |-> NoDetail]
            /\ loads' = (IF Gate THEN Unmounted ELSE loads) \ {l, [l EXCEPT !.here = FALSE]}
            /\ modal' = Closed
       ELSE loads' = loads \ {l} /\ UNCHANGED <<ui, status, rows, details, modal>>
    /\ UNCHANGED <<jar, account, known, home, flows, moves, chain, pending, faults>>

MeAnswers(l) ==
    /\ l.stage = "me" /\ l.ask # None
    /\ loads' = (loads \ {l}) \union (IF l.live /\ l.here THEN {[l EXCEPT !.stage = "chain"]} ELSE {})
    /\ UNCHANGED <<walletVars, chain, status, rows, details, modal, pending, faults>>

(* readNodeInfo: the three figures of one node in one call. *)
ReadNode(l) ==
    /\ l.stage = "chain"
    /\ \E n \in Owned(l.ask) \ DOMAIN l.got :
         loads' = (loads \ {l}) \union
             {[l EXCEPT !.got = [k \in DOMAIN l.got \union {n} |-> IF k = n THEN Figures(n) ELSE l.got[k]]]}
    /\ UNCHANGED <<walletVars, chain, status, rows, details, modal, pending, faults>>

Read(l) == l.stage = "chain" /\ DOMAIN l.got = Owned(l.ask)
Stale(l) == {n \in DOMAIN l.got : details[n].at # l.got[n].cumulative}

AcceptsAny(l) == TRUE
Accepts(l) == l.live   \* generation.current === mine

MarkedEarly(l) == [n \in Node |-> IF n \in DOMAIN l.got
                                  THEN [details[n] EXCEPT !.at = l.got[n].cumulative] ELSE NoDetail]
Kept(l) == [n \in Node |-> IF n \in DOMAIN l.got THEN details[n] ELSE NoDetail]

(* The rows go on screen together; details of rows that left are dropped    *)
(* and those whose cumulative figure moved are fetched again.               *)
ShowRows(l) ==
    /\ Read(l) /\ Accepts(l)
    /\ status' = "ready"
    /\ rows' = l.got
    /\ details' = Kept(l)
    /\ loads' = (loads \ {l}) \union
         (IF Stale(l) = {} THEN {} ELSE {[l EXCEPT !.stage = "details", !.got = [n \in Stale(l) |-> l.got[n]]]})
    /\ UNCHANGED <<walletVars, chain, modal, pending, faults>>

DropRows(l) ==
    /\ Read(l) /\ ~Accepts(l)
    /\ loads' = loads \ {l}
    /\ UNCHANGED <<walletVars, chain, status, rows, details, modal, pending, faults>>

(* The details of the nodes whose request was answered. *)
Detailed(l, answered) ==
    IF Accepts(l)
    THEN [n \in Node |-> IF n \in answered
                         THEN [at |-> l.got[n].cumulative, seen |-> chain[n].received]
                         ELSE details[n]]
    ELSE details

DetailsAnswer(l) ==
    /\ l.stage = "details"
    /\ \E answered \in SUBSET DOMAIN l.got :
         /\ \/ answered = DOMAIN l.got /\ UNCHANGED faults
            \/ answered # DOMAIN l.got /\ faults < MaxFaults /\ faults' = faults + 1
         /\ details' = Detailed(l, answered)
    /\ loads' = loads \ {l}
    /\ UNCHANGED <<walletVars, chain, status, rows, modal, pending>>

(* loadDetail, when a row is expanded: it runs under the hook's present     *)
(* generation.                                                              *)
Expand(n) ==
    /\ status = "ready" /\ n \in DOMAIN rows /\ details[n].seen = None
    /\ Cardinality(loads) < MaxLoads
    /\ loads' = loads \union {[Load("refresh", None) EXCEPT !.stage = "details",
                                                           !.got = [k \in {n} |-> rows[n]]]}
    /\ UNCHANGED <<walletVars, chain, status, rows, details, modal, pending, faults>>

-----------------------------------------------------------------------------
(* The withdrawal dialog.                                                   *)

OpenWithdraw(n) ==
    /\ status = "ready" /\ modal.stage = "closed" /\ DOMAIN rows # {}
    /\ n \in DOMAIN rows \union {None}
    /\ moves < MaxMoves /\ moves' = moves + 1
    /\ modal' = [Closed EXCEPT !.stage = "form", !.node = n]
    /\ UNCHANGED <<ui, jar, account, known, home, flows, chain, screenVars, pending, faults>>

(* What a withdrawal of address `from` empties: its node, or all it has.    *)
Targets(from, n) == IF n = None THEN Owned(from) ELSE Owned(from) \intersect {n}
Payable(from, n) == {k \in Targets(from, n) : Holding(k) > 0}

(* The balance in the form: of the node, or of all the wallet's nodes.  A   *)
(* failed read leaves it unknown, and nothing can be sent.                  *)
ReadBalance ==
    /\ modal.stage = "form" /\ modal.balance = None
    /\ modal' = [modal EXCEPT !.balance =
           IF modal.node = None THEN Payable(ui.address, None) # {} ELSE Holding(modal.node) > 0]
    /\ UNCHANGED <<walletVars, chain, screenVars, pending, faults>>

Submit ==
    /\ modal.stage = "form" /\ modal.balance = TRUE
    /\ modal' = [modal EXCEPT !.stage = "running"]
    /\ UNCHANGED <<walletVars, chain, screenVars, pending, faults>>

Again == [modal EXCEPT !.stage = "form", !.balance = None]

(* ensureChain, then the wallet's prompt; the wallet sends from the address *)
(* on screen if it approves.                                                *)
SendFails ==
    /\ modal.stage = "running"
    /\ modal' = Again
    /\ UNCHANGED <<walletVars, chain, screenVars, pending, faults>>

SendWithdraw ==
    /\ modal.stage = "running"
    /\ home' = TRUE
    /\ pending' = pending \union {[from |-> ui.address, node |-> modal.node, dialog |-> TRUE]}
    /\ modal' = [modal EXCEPT !.stage = "confirming"]
    /\ UNCHANGED <<ui, jar, account, known, flows, moves, chain, screenVars, faults>>

Heard(tx) == tx.dialog /\ modal.stage = "confirming"

(* The contract pays every node out or reverts; the dialog learns of it     *)
(* with the receipt, later.                                                 *)
MineWithdraw(tx) ==
    LET paid == Payable(tx.from, tx.node) IN
    /\ pending' = pending \ {tx}
    /\ chain' = [n \in Node |-> IF n \in paid THEN [chain[n] EXCEPT !.withdrawn = chain[n].received] ELSE chain[n]]
    /\ modal' = IF Heard(tx)
                THEN IF paid = {} THEN Again
                     ELSE [modal EXCEPT !.stage = "mined", !.paid = [n \in paid |-> Holding(n)]]
                ELSE modal
    /\ UNCHANGED <<walletVars, screenVars, faults>>

LessAny(x, y) == x - y
Less(x, y) == IF x > y THEN x - y ELSE 0

(* applyWithdrawals: the rows are decremented by what the receipt says, and *)
(* their details are due again.                                             *)
Receipt ==
    /\ modal.stage = "mined"
    /\ modal' = [modal EXCEPT !.stage = "done", !.balance = FALSE, !.paid = NoRows]
    /\ rows' = [n \in DOMAIN rows |->
          IF n \notin DOMAIN modal.paid THEN rows[n]
          ELSE [rows[n] EXCEPT !.balance = Less(@, modal.paid[n]),
                               !.withdrawn = @ + modal.paid[n]]]
    /\ details' = [n \in Node |-> IF n \in DOMAIN modal.paid \intersect DOMAIN rows
                                  THEN [details[n] EXCEPT !.at = None] ELSE details[n]]
    /\ UNCHANGED <<walletVars, chain, status, loads, pending, faults>>

(* The receipt is given up on; the transaction is not. *)
ReceiptTimesOut ==
    /\ modal.stage \in {"confirming", "mined"} /\ faults < MaxFaults
    /\ faults' = faults + 1
    /\ modal' = [Again EXCEPT !.paid = NoRows]
    /\ pending' = {[tx EXCEPT !.dialog = FALSE] : tx \in pending}
    /\ UNCHANGED <<walletVars, chain, screenVars>>

CloseWithdraw ==
    /\ modal.stage \in {"form", "done"} /\ Cardinality(loads) < MaxLoads
    /\ modal' = Closed
    /\ Restart
    /\ UNCHANGED <<walletVars, chain, status, rows, details, pending, faults>>

-----------------------------------------------------------------------------
(* The distributor credits a node. *)
CreditNode(n) ==
    /\ chain[n].received < MaxReceived
    /\ chain' = [chain EXCEPT ![n].received = @ + 1]
    /\ UNCHANGED <<walletVars, screenVars, modal, pending, faults>>

Init ==
    /\ WalletInit
    /\ chain = [n \in Node |-> [received |-> 1, withdrawn |-> 0]]
    /\ status = "none" /\ rows = NoRows /\ details = [n \in Node |-> NoDetail]
    /\ loads = {} /\ modal = Closed /\ pending = {}
    /\ faults = 0

LoadStep(l) ==
    MeAnswersNobody(l) \/ MeAnswers(l) \/ ReadNode(l) \/ ShowRows(l) \/ DropRows(l) \/ DetailsAnswer(l)

Next ==
    \/ WalletStep
    \/ Refresh
    \/ \E l \in loads : LoadStep(l) \/ LoadFails(l)
    \/ \E n \in Node : Expand(n) \/ CreditNode(n)
    \/ \E n \in Node \union {None} : OpenWithdraw(n)
    \/ ReadBalance \/ Submit \/ SendFails \/ SendWithdraw \/ Receipt \/ ReceiptTimesOut \/ CloseWithdraw
    \/ \E tx \in pending : MineWithdraw(tx)

Spec == Init /\ [][Next]_vars

(* The interval ticks in a visible tab, requests and the wallet's silent    *)
(* reads are answered; nobody has to press a button or answer a prompt.     *)
WalletFlow == WalletAnswer \/ \E i \in Attempts : SignAnswer(i)
Fairness ==
    /\ WF_vars(Refresh)
    /\ WF_vars(\E l \in loads : LoadStep(l))
    /\ WF_vars(WalletFlow /\ Mounts /\ UNCHANGED <<chain, pending, faults>>)

FairSpec == Spec /\ Fairness

-----------------------------------------------------------------------------
\* Every variable keeps its type; balances on screen are never negative.
TypeOK ==
    /\ WalletTypeOK
    /\ chain \in [Node -> [received : Nat, withdrawn : Nat]]
    /\ status \in {"none", "loading", "ready", "error"}
    /\ DOMAIN rows \subseteq Node /\ \A n \in DOMAIN rows : rows[n] \in Figure
    /\ \A n \in Node : details[n].at \in Nat \union {None} /\ details[n].seen \in Nat \union {None}
    /\ \A l \in loads : l.stage \in {"me", "chain", "details"} /\ l.ask \in Someone /\ DOMAIN l.got \subseteq Node
    /\ modal.stage \in {"closed", "form", "running", "confirming", "mined", "done"}
    /\ \A tx \in pending : tx.from \in Address

\* "A cookie issued for one address must never decorate another address's
\* dashboard" (walletMachine.ts:13), as far as the flows of one tab keep it: a
\* dashboard with another address's session got that session from another tab,
\* or from a signature verified after the address on screen had changed.
ReadyIsOwn == Gate /\ cookie.session \notin {None, ui.address} => author \in {"late", "otherTab"}

\* A detail the hook takes for current was read from the ledger after the
\* contract had reached the total its row shows (detailAt in load, loadDetail
\* and applyWithdrawals), however loads overtake one another.
FreshIsFresh == \A n \in DOMAIN rows :
    details[n].at = rows[n].cumulative => details[n].seen # None /\ details[n].seen >= rows[n].cumulative

\* An answer that comes late never replaces a newer one on screen: while a
\* dashboard is mounted no node's lifetime total goes back (the generation in
\* load).
FiguresNeverGoBack ==
    [][\A n \in DOMAIN rows \intersect DOMAIN rows' : rows'[n].cumulative >= rows[n].cumulative]_vars

\* A dashboard whose session expired or was cleared by another tab does not
\* stay on screen (getMe's null in load, sessionLost in the reducer).
SessionLossIsNoticed ==
    Gate /\ cookie.session = None ~> ~Gate \/ cookie.session # None

\* Whatever overlapped, failed or was applied twice, a dashboard that stays
\* open comes to show the contract's figures for the session's nodes (the
\* interval, applyWithdrawals and the refresh that reconciles it).
Current == status = "ready" /\ rows = [n \in Owned(cookie.session) |-> Figures(n)]
ScreenCatchesUp == []<>(Gate => Current)

\* "A failure never strands the user mid-phase" (walletMachine.ts:121): a tab
\* that is starting, connecting or signing gets out of it, unless the wallet
\* waits for the person, however attempts cross.
PromptOpen == link.stage = "prompt" \/ \E i \in Attempts : sign[i].stage = "prompt"
NobodyStranded == []<>(ui.phase \in {"starting", "connecting", "signing"} => PromptOpen)

\* walletMachine.ts:13 as it is written: the nodes on screen are those of the
\* address on screen.
NeverDecorates == \A n \in DOMAIN rows : Holder[n] = ui.address

\* useDashboardData.ts:72 as it is written: the three figures of a row are of
\* one block, so what is left and what was paid out make up what was credited.
RowsAddUp == \A n \in DOMAIN rows : rows[n].balance + rows[n].withdrawn = rows[n].cumulative
=============================================================================
