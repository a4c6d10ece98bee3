# Sitowise: a TLA+ model

Sitowise sells *nodes*. A buyer sends a plain transfer of one exact price to a
payments wallet; a scheduled pass finds the transfer, a relayer mints the node on
the factory contract, and another scheduled pass puts small amounts of ETH on the
balances of all nodes, which their owners withdraw from the contract themselves.
Nothing of this happens in one place: every step crosses a Postgres database, a
chain, a block explorer and the processes that run the passes, and each of these
can fail, lag or disagree with the others between any two steps. These modules
model those steps, one database statement or one call at a time.

Paths below are relative to `src/`.

## Contents

1. [The system](#the-system)
2. [Modules](#modules)
3. [What the runs check](#what-the-runs-check)
4. [Bounds](#bounds)
5. [Fairness](#fairness)
6. [What is proved](#what-is-proved)
7. [Where the code departs from its own words](#where-the-code-departs-from-its-own-words)
8. [Assumptions of the models](#assumptions-of-the-models)
9. [What is not modelled](#what-is-not-modelled)
10. [Plan](#plan)
11. [Running it](#running-it)

## The system

| Component | State | Operations | Talks to | What makes it correct |
|---|---|---|---|---|
| **SitowiseFactory** (`contracts/src/SitowiseFactory.sol`) | roles, nodes and their three amounts, owners' lists, used payment refs, totals, `_entered` | `mintFor`, `creditBatch`, `withdraw`, `withdrawAll`, `rescue`, `fund`, the owner's setters | everybody; calls recipients back when it pays them | it always covers what nodes hold; one payment, one node; a holder can always withdraw |
| **Payment watcher** (`lib/watcher.ts`, `lib/explorer.ts`) | the `payments` rows, the cursor, the audit stamp | `scanPayments`, `adoptPayment`, the audit, `fastForwardCursor` | explorer, RPC, database | no unconfirmed transfer is recorded; the cursor never passes a transfer that was not recorded |
| **Payments queue** (`lib/payments.ts`) | status, attempts, node id, `updated_at` of a payment | record, claim, mark, requeue, refund, sweep of stuck rows | watcher, relay, administrator | a row is worked on by one pass; `minted` and `refunded` are final |
| **Mint relay** (`lib/mintRelay.ts`) | the rows it holds, transactions in flight, timers and ledger rows of new nodes | `runMintRelay`, `mintOne`, `settle` | queue, factory, log index | a payment gets one node and `minted` is said only of a node that is there, with its timer |
| **Credit pass** (`lib/credit.ts`, `lib/schedule.ts`, `worker/chain.ts`) | timers, distributions and credits, the `credit_unrecorded` alert | `creditTick` | factory, ledger | a turn is paid once, within the cap, and what is recorded was paid |
| **Cron routes, worker loop** (`app/api/cron`, `worker/index.ts`) | `worker_state` | start passes, run-now flag, heartbeat | the passes, through advisory locks (`lib/db.ts`) | one pass of a kind at a time; requests of the operator are served |
| **Settings, alerts** (`lib/settings.ts`, `lib/alerts.ts`) | key/value overrides, one open alert per kind | load, reconcile, validate, save, reset; raise, clear | passes, administrator | a pass never runs on an inverted range; an accepted edit stays in force |
| **Ledger of nodes** (`lib/reconcile.ts`, `app/api/nodes/sync`) | `nodes`, `wallets`, `node_schedule` | `recordMintedNodes`, `reconcileNodes`, sync | factory's logs | every node on chain gets a row and a timer, and no row is another owner's |
| **Withdrawals index** (`lib/withdrawals.ts`) | `withdrawals`, a cursor of its own | `indexWithdrawals` | factory's logs | every withdrawal is in the history once |
| **Tiers** (`lib/tiers.ts`) | tier settings | `tierUsageFor`, prices, gates | watcher, relay | a wallet buys no more of a tier than it may |
| **Wallet session** (`lib/session.ts`, `components/dashboard/walletMachine.ts`, `WalletProvider.tsx`) | two cookies shared by all tabs; a tab's phase and address, the wallet's account | restore, connect, sign in, disconnect, account and network changes | API, wallet extension | one address's session never decorates another address's dashboard; no phase is a dead end |
| **Dashboard** (`useDashboardData.ts`, `WithdrawModal.tsx`) | rows and details on screen, a generation, the dialog | load, interval, in-place withdrawal | `/api/me`, factory, wallet | a stale answer never overwrites a newer one; the screen comes to agree with the chain |
| **Deploy dialog** (`DeployModal.tsx`) | its stage, the baseline of nodes, the transfer sent | pay, confirm, poll, sync | `/api/me`, `/api/nodes/sync`, wallet | the node it announces is the one that was bought |
| **SitowiseHook** (`contracts/src/SitowiseHook.sol`) | share, owner, wei left behind | `afterSwap`, `forwardBalance`, `sweep` | pool manager, factory's `fund` | not deployed (`contracts/HOOK.md:3`) |
| **Passkeys, admin session, rate limit** (`lib/passkeys.ts`, `lib/admin.ts`, `lib/rateLimit.ts`) | cookies, one counter, one map per process | enrol, sign in, count | administrator, API | — |
| **Reads, pages, scripts** (`lib/rpc.ts`, `lib/onchain.ts`, `lib/adminData.ts`, `app/docs`, ...) | none | format and show | — | — |

How they interact. The payments cron takes an advisory lock and does, in this
order: put rows stuck in `minting` back, scan for new payments, mint claimed rows,
audit, index withdrawals. The credit cron and the worker's loop take another lock
and run `creditTick`. Buyers and the administrator write to the same `payments`
rows without any lock. Passes talk to the chain between database statements and
hold no transaction meanwhile. A browser tab shares its cookies with other tabs, asks
the API with whatever cookie is in the jar at that moment, and draws what the contract
says of the nodes the API listed. A node reaches the ledger from three sides (the
relay, the reconciler, the sync route a tab calls), none of which knows of the others.

What is hard, then: a pass acts on rows it read earlier; the lock lives on one
pooled connection and can vanish under a running pass; a transaction that was sent
may be mined after its sender gave up; a process dies between the chain call and
the ledger; the explorer says it has reached a block whose transfers it does not
list yet; the tip is reorganised; a recipient calls back into the contract; a request answered late meets a tab that
has another account by now; two edits of the settings cross.
`PROJECT.json` lists these hazards, each at the line where it bites and with the
properties that would notice.

## Modules

| Module | Models | Composed with |
|---|---|---|
| `Sums` | sums over `1..n` as a recursive *function*, so that modules using it can be proved about | — |
| `NodeEscrow` | abstract: a pot of wei and each node's claim on it | refined by `SitowiseFactory` |
| `SitowiseFactory` | the contract, one action per external function that changes storage | `Sums`, `NodeEscrow` |
| `NodeSale` | abstract: payment taken, node delivered, delivery announced | refined by `MintRelay` |
| `MintRelay` | payments queue, relay, the part of the cron pass around them, the administrator's actions, the network | `NodeSale` |
| `CreditPass` | the credit pass of several drivers, timers, chain, ledger, alert | `Sums` |
| `PaymentWatcher` | discovery, verification, cursor, audit, adoption, fast-forward; chain and explorer as environment | — |
| `WalletSession` | cookies, the reducer of the wallet machine, the flows around it, the wallet | — |
| `Dashboard` | the signed-in dashboard and the withdrawal dialog | extends `WalletSession` |
| `NodeLedger` | `recordMintedNodes` and its three callers over a chain with a replaceable tip | — |
| `DeployDialog` | buying a node from the browser | extends `NodeLedger` |
| `WithdrawalIndex` | the history of withdrawals behind its cursor | — |
| `OperatorConsole` | settings, the run-now flag, the worker's loop, the cron route's share of the lock | — |
| `MC*` | the small instances TLC runs | one of the above |
| `*Proofs` | theorems and their proofs | one of the above |

**SitowiseFactory.** Storage fields are variables of the same names; `_node` is
split into `nodeOwner`, `balance`, `received` and `withdrawn`. `refOf` remembers the
ref of each `NodeMinted` event, so that a property can speak of it. A call that
reverts is no step. A function that sends ETH is two steps: its effects up to the
call, which leave `entered` set, and `CallReturns`; in between the recipient may call
everything the flag does not exclude. If the recipient fails, the EVM undoes the
whole transaction, so that no separate step is needed. `uint128` arithmetic is
checked against `MaxUint128`, as the compiler does.

**MintRelay.** A payment is its place in the queue's order. `status`, `attempts`,
`nodeId`, `aged` (is `updated_at` older than the stuck limit?) are the row; `verdict`
is what `decide()` answered before `Record` wrote it. `pc[s]` is where pass `s` stands
in the route, `runMintRelay` or `mintOne`; `todo`, `row`, `tx`, `found` are its local
variables. `sent` holds every `mintFor` handed to the network, which `Network` mines,
reverts or drops whenever it likes, and `indexed` is how many mint logs the log index
shows already. `Refund` and `Requeue` are the administrator's buttons.

**CreditPass.** `due` and `ahead` give the order by `next_credit_at` without clock
values: `ahead[n]` is who has been due for longer. `times[n]` counts the credits of
`n`'s current turn. `sent`, `chainDay`, `ledger`, `ledgerDay` tell what was sent,
what is mined, what is recorded and what is younger than a day on each side. A
transaction's number is used again when nothing refers to it any more, so that
behaviours are infinite over finitely many numbers.

**PaymentWatcher.** `at[t]` is the block transfer `t` is in and `indexAt[t]` where
the explorer lists it; `indexHead` is the height the explorer admits to, which may
run ahead of its listing. Each pass reads the head, the cursor and the explorer's
height one after the other, takes one of the walks (complete, stopped newest first,
stopped oldest first, or the block reader), looks up every candidate and commits.
Two ghosts: `hidden`, the transfers the explorer was wrong about in a block it said
it had indexed, and `floor`, where the first run began, since ground before it is
given up by design.

**WalletSession.** `ui` is the reducer's state; `cookie` the jar; `link`, `sign[i]`,
`logouts`, `leaving`, `switching` are the asynchronous flows under way; the restoring of a
page is a step for each of its answers: session, accounts, network, logout. A request is two
steps: it leaves with the cookies of its moment, and what its answer sets or clears
happens when it arrives. The ghost `author` says who wrote the session in the jar.

**Dashboard.** `chain` is the contract's storage of each node, `rows` and `details` what
is on screen, `loads` the calls of `load` and `loadDetail` under way; `live` is "the
generation is still mine", `here` "my dashboard is still mounted". `Mounts` is what React
does when the phase enters or leaves `ready`, and is part of the same step. The three
figures of a row are read in one call, different rows in different calls.

**NodeLedger.** `minted` is the contract's list of nodes, by id; `rows` and `timers` the
tables; `job[w]` a call under way: what it asked, of which session, and the logs it holds.
`Undone` replaces the tip, so that an id may come to mean another mint. The ghost `torn`
marks the ids whose mint was undone after a call had checked it.

**DeployDialog.** The dialog's stage, its baseline (`before`), the transfer it sent and
the node it found. Its sync call is a `Writer` of `NodeLedger`. A payment and the mint it
leads to have one name: the queue and the relay between the two are `MintRelay`, and may
take any time. The ghost `muddled` is set when the baseline was blind (no session, chain
not readable) or another payment of the same wallet was on its way; what other wallets pay
does not set it. It only records: no step asks for it.

**WithdrawalIndex.** `chain` is a list of blocks with their `Withdrawn` events, `high` the
greatest height ever reached, which bounds how far the tip can be replaced; `at[p]` is a
pass: head read, range taken, rows still to write.

**OperatorConsole.** `table` is the rows `dist.*`; `edits` patches that were validated and
not saved; `click` says how far the distribute route has got, which reads the settings,
then the heartbeat, and writes the flag last, so that either may be stale by then; `worker`
and `pass` stand for the loop and for the pass under the lock. The
ghost `asked` is a request that no pass has begun after; `crossed` says an edit was saved
over a table it had not been checked against.

`PROJECT.json` maps every definition to the lines it stands for.

## What the runs check

| Run | Configuration | Properties | Shows |
|---|---|---|---|
| `factory` | `MCSitowiseFactory.cfg` | `Solvent`, `BooksAgree`, `WithdrawalsFit`, `OneNodePerPayment`, `SweepBounded`, `NodesAreKept`, `KeepsEscrow` | solvency, exact books, withdrawals that always fit, one node per payment, the ceiling on a sweep, and that the contract implements `NodeEscrow`, with re-entering recipients and a `uint128` that overflows at once |
| `relay_overlap` | `MCMintRelay.cfg` | `RowsHeldOnce`, `MintedIsBacked`, `FinalStays` | two passes overlapping after a lost lock, lost receipts, a `markMinted` whose answer is lost, a refund, a requeue: a row stays with one pass, a payment keeps the node it named, final statuses stay |
| `relay_ends` | `MCMintRelayEnds.cfg` | `AllowanceKept`, `EverySaleEnds`, `KeepsSale` | two payments of one buyer with room for one, batches of one row, a pass that dies: the allowance holds for nodes on chain and mints under way, rows parked for a human apart; every payment is minted, parked or refunded, and the relay implements `NodeSale` |
| `relay_refund_race` | `MCMintRelayRefund.cfg` | `RefundIsTerminal` (violated) | a finding, see below |
| `credit_faults` | `MCCreditPass.cfg` | `RecordedIsPaid`, `RecordedUnderCap`, `PaidOncePerTurn`, `TimersMoveForCredits` | two drivers, lost lock, lost receipt, failing ledger write and substitute |
| `credit_served` | `MCCreditPassServed.cfg` | `DueIsServed` | every creditable node that is due is served, with an inert id in the batch and nodes that keep coming due |
| `watcher_overlap` | `MCPaymentWatcher.cfg` | `NothingFromTheTip`, `CursorCovers` | two overlapping passes and a fast-forward over a lagging, lying explorer and a replaced tip |
| `watcher_finds` | `MCPaymentWatcherFinds.cfg` | `AheadIsFound`, `HolesAreFilled` | a confirmed transfer ahead of the cursor is recorded, and what the explorer hid is recovered by the audit |
| `dashboard` | `MCDashboard.cfg` | `ReadyIsOwn`, `FreshIsFresh`, `FiguresNeverGoBack`, `SessionLossIsNoticed`, `ScreenCatchesUp`, `NobodyStranded` | one tab, two accounts, other tabs, expiring sessions, loads that overlap credits, withdrawals and one another |
| `nodes` | `MCDeployDialog.cfg` | `RowsAreChains`, `DeployedIsTrue`, `EveryNodeEarns` | a dialog and a server's calls record two nodes beside each other, one at a time in a reconciler run, while the tip is replaced, a call fails and the log index lags |
| `withdrawals` | `MCWithdrawalIndex.cfg` | `HistoryIsChains`, `WithdrawalsAreIndexed` | overlapping passes, one of which dies between two rows, a replaced tip, two nodes' withdrawals in one transaction |
| `console` | `MCOperatorConsole.cfg` | `SettingsHold`, `RequestIsServed` | edits, resets and rows written by hand that cross; a request for a round is picked up without waiting for a scheduled pass, through heartbeats, passes under way and a worker that is killed with the flag set |

`TypeOK` is checked once per module, in one of its runs or by its theorem.

Every property of a passing run has a mutant in `PROJECT.json`: a plausible mistake
in one mapped definition under which TLC finds the property violated. The operators
marked `Mutant`, or named for what they break (`AllBalance`, `ReadChainEmpty`, ...),
are those mistakes and appear in no `Next`.

The properties that are easy to underestimate:

- `IdleRefundsStay` against `RefundIsTerminal`. The comment promises the second. Only
  the first is true: a refund is final if no pass holds the row.
- `PaidOncePerTurn` holds when the ledger write fails after the money moved, because
  `salvageSchedules` moves the timers anyway. It does not hold when a receipt is late.
- `CursorCovers` speaks of every way the cursor moves, the fast-forward included,
  which takes no lock. The clause `t \in hidden` is the exact price of trusting the
  explorer's height, and `HolesAreFilled` says what the audit gives back.
- `MintedStays` (half of `FinalStays`) has two clauses because a lost answer of
  `markMinted` takes a minted row back to `failed`: the row may be minted again, but
  never with another node, and never once the pass has let go of it.
- `AllowanceKept` counts the nodes a buyer has on chain and the mints still under way,
  whatever the rows say of them, but for the rows parked for a human. It is about the time
  before the administrator refunds or requeues anything. Until then the second count in
  `mintOne` suffices, although discovery decides several payments against one free place
  and a mint may land long after its pass gave up on it.
- `RequestIsServed` speaks of the flag and not of the next scheduled pass: no sleep need
  ever come to its end. A heartbeat, a restart or a pass under way that lost the flag would
  break it. It excepts what the code does lose: a flag taken while somebody else holds the
  lock, or while the loop or a pass is being stopped.
- `DeployedIsTrue` lets every other wallet pay and be served at any time. It excepts a second
  payment of the wallet in the dialog, which the dialog cannot tell from its own.
- `ReadyIsOwn` is what the flows of one tab guarantee of the sentence at
  `walletMachine.ts:13`; the exceptions it names (`late`, `otherTab`) are reachable.
- `RowsAreChains` holds without the log and the session ever being compared by the sync
  route, because both it and the log are compared with the chain.
- `HistoryIsChains` relates every row to the chain as it is now, and the cursor to
  everything below it: a range read up to the tip instead of the safe head breaks it.
- `SettingsHold` is a fact about `reconcile` composed with `validate`: an edit validated
  against the reconciled settings is in force when it is saved, if nothing crossed it.
- `WithdrawalsFit` says a holder cannot be locked out by arithmetic: neither a
  `uint128` sum nor the balance of the contract can make `withdraw` revert.

## Bounds

| Bound | Value | Why it is enough |
|---|---|---|
| factory: accounts, refs, nodes | 2, 3, 3 | an owner and a stranger; one node above the ceiling of 2; a ref used twice |
| factory: `MaxUint128`, `MaxWei` | 1, 2 | the second credit of a node overflows; there is surplus beside one credited wei |
| relay: payments | 1 or 2 | every property is about one payment or two competing ones; `relay_ends` has two of one buyer, of which one may fail before the other |
| relay: `MaxAttempts`, `BatchLimit` | 2 or 1, 1 or 2 | a first failure and a last one; a full batch with one row left out |
| credit: nodes, drivers, transactions | 2–3, 1–2, 2–3 | one node served and one waiting; one pass and one that lost the lock; one transaction lost, one unrecorded, one at work |
| credit: cap, amounts | 1–2 wei, 1 wei | the cap is reached by the first credit; amounts only matter as their sum against the cap |
| watcher: transfers, blocks, passes | 1, 3, 1–2 | a block behind the cursor, one at the safe head, one at the tip; all properties are about one transfer at a time |
| watcher: confirmations, audit window | 1, 0 | the smallest that separate tip from safe head and window from history (2 and 100 000 by default) |
| dashboard: accounts, nodes | 2, 1 | the account that is left and the one that comes; loads of several nodes differ only in how long their reading takes, which credits in between show with one |
| dashboard: `MaxSigns`, `MaxMoves`, `MaxReceived`, `MaxFaults`, `MaxLoads` | 2, 1, 2, 1, 2 | a sign-in that crosses another; one outside event in the middle of any flow; a credit between two reads; a load overtaken by the next |
| nodes: mints, wallets, calls, `Batch` | 2, 1, 2, 1 | the node bought and the one it may be mistaken for; the tab's call and one beside it; a node that waits for the next run of the reconciler. Other wallets are in the proofs, which hold for any number (a third mint by another wallet is beyond the time of a run). With one replaced tip at most one id can never get a row, and with two mints nothing older waits behind it |
| withdrawals: `MaxBlocks`, `Confirmations`, `MaxSpan`, passes | 3, 1, 1, 2 | a settled range, a second one behind it, a block the tip takes back; the pass that overtakes another |
| console: patches, hand rows, `MaxEdits` | 2, 2, 2 | two edits each fine alone and not together; a row that does not parse and one that is zero |
| faults (`Budget`) | 1 of each kind named in the run | combinations of distinct faults; repetition of one kind is left to the theorems, which know no bound |

Symmetry is used between passes, between drivers, between nodes of `CreditPass`,
and between accounts and refs of the factory, in runs that check safety only.
Counters that would grow for ever (`times`, credits per turn) stop at two, which is
the first value any property distinguishes.

## Fairness

| Module | Assumed | Because |
|---|---|---|
| relay | `WF` on *some* pass starting; `WF` on each started pass; `SF` on a pass finding time for a row; `WF` on a row growing older | the scheduler calls every minute; every call has a timeout; a pass reserves time for minting; clocks advance |
| credit | `WF` on some driver starting; `WF` on each running pass; `WF` on mining and on days passing | the worker's loop and the cron; timeouts again; a sent transaction is mined or dropped |
| watcher | `WF` on some pass starting, on each running pass, on audits falling due, on the explorer catching up; `SF` on a walk that reaches the end of its range and on the RPC knowing a confirmed transaction | the same; and an explorer or RPC that never answers completely again cannot be programmed around |
| dashboard | `WF` on the interval, on loads going on, on the wallet's and the server's answers | the interval ticks in a visible tab; requests are answered or fail; nobody has to press a button or answer a prompt, and `NobodyStranded` excepts an open prompt |
| nodes | `SF` on the reconciler starting, `WF` on its calls going on | it is "meant to be called on a timer every few minutes" (`app/api/admin/reconcile/route.ts:11`); strong, because calls of others take the one free place of the model from time to time |
| withdrawals | `WF` on some pass starting, `WF` on each pass going on | the payments cron runs it every minute |
| console | `WF` on the loop's own steps and on a pass's; none on a sleep coming to its end | the worker is "a supervised process" (`worker/index.ts:9`), which is started again; it sleeps in slices of `pollMs`; without the end of the sleep no scheduled pass can stand in for the flag |

No fairness is given to faults, to people or to reorganisations, and a fault may
happen only as often as `Budget` allows, so liveness is claimed only once the faults
are over.

## What is proved

TLAPS checks the 43 theorems listed in `PROJECT.json`, and the lemmas they rest on, for
every value of the constants that the named assumption of each module allows. Only safety
is proved: `ENABLED` and fairness are out of the prover's reach, and so is induction over
what recursive definitions compute, but for the sums of `Sums`. Every safety property of
a passing run is stated by one of them.

**Factory** (`SitowiseFactoryProofs`). From `FactoryAssumption`.
`TypeOK` is inductive. `MoneyInv` is solvency, exact totals and node histories
together: solvency alone is not inductive, because a withdrawal preserves it only if
`outstanding` equals the sum of balances. The step lemmas say how each action moves
the sums. Its first part derives the facts about `Sum` (additivity, monotony, bounds)
from the recursive definition by a least-number argument (`SumAdds`). `FactoryKeepsEscrow` is
the refinement: credits map to `Credit`, payouts to `Settle`, `rescue` to `TakeSurplus`.
`EscrowCoversClaims` is what the refinement is worth: whatever implements `NodeEscrow`, by
whichever steps, owes no more than it holds.

**Relay** (`MintRelayProofs`). From `RelayAssumption`. `Shape` is the type invariant
with the relation between place and local variables; `Held` (needs `~SlowPasses`, that
no pass outlives `WATCHER_STUCK_AFTER_SEC`) says a row belongs to at most one pass.
`EveryRowStep` lists once what any step may do to a row, and the theorems draw on it:
`MintedIsBacked`, `MintedStays`, `IdleRefundsStay`, and the refinement of `NodeSale`.
None of these needs `~SlowPasses`; `RowsHeldOnce` and the allowance do. `EveryPassStep` lists what
a step may do to the place of a pass. A payment is *committed* once it has got beyond the
allowance check (its ref is used, its mint is under way, or a pass is past `Allow` with
it) while its row still counts; `Room` says the committed payments of one buyer and tier
fit the allowance. It is inductive because a payment becomes committed only in `Allow`,
which counts everything not refused, and the committed ones are among those. A payment with
a node or a mint under way has a row (`RecordedFirst`), so unless that row is parked the
payment is committed, which is `RelayAllowanceKept`. `SaleDeliversOnce` is what the refinement is worth: whatever
implements `NodeSale` makes at most one node of a payment, none of a payment not taken, and
announces only nodes that exist.

**Credit** (`CreditPassProofs`). From `CreditAssumption`. `Confirmed` (a pass that
books has its transaction mined) gives `RecordedIsPaid`. While the lock holds,
`OneAtWork` and `BatchWaits` give the timers, `Room` (the cap has room for what is
being paid) gives the cap, and `Accounted` (each credit of the turn belongs to the
transaction at work, or the node's timer has moved) gives `PaidOncePerTurn`.
Two theorems are about the queue of the due nodes, for any overlap of passes, locked or
not: `ahead` is a strict order in which any two due nodes compare, so that `dueNodes`
answers its head, as many as `BatchLimit` allows and somebody whenever anybody is due
(`CreditOldestFirst`), and nobody overtakes a node that stays due (`CreditNeverOvertaken`).
The set of those ahead of a node only shrinks while it waits; this is the measure under
`DueIsServed`, whose other half, that passes keep taking the head, needs fairness and is
model-checked.

**Watcher** (`PaymentWatcherProofs`). From `WatcherAssumption`. The invariant relates,
for each pass, what it has claimed so far to what lies in that ground: every transfer in it
is recorded, found, still a candidate, or hidden (`Swept`); `HiddenIsRight` says the index is right
below its own height about everything not hidden; `SkipOK` is the same for the
fast-forward. `CommitCovers` and `FastForwardCovers` turn these into `CursorCovers`.
`WatcherPastIsKept` says of every step, those of a pass that commits on a cursor it read
long ago included, that no recorded payment disappears or moves to another block and that
the cursor does not go down.

**Ledger and dialog** (`DeployDialogProofs`). From `LedgerAssumption` and
`DialogAssumption`, for any number of wallets, nodes and calls. That ids stay within the number of mints is a pigeonhole argument over
the injective list `minted`. `RowsAreTheChains` rests on: what a row says, or a checked log
of a call, is what the contract says, but for torn ids. `DeployedTheNode` rests on: while
nothing was muddled and no tip replaced, the baseline holds every node of the wallet but
the one the payment buys, no other payment of the wallet (of others, any) waits for its
node, the tab's call is about the node the dialog found, and rows and
logs are the chain's.

**Withdrawals** (`WithdrawalIndexProofs`). From `IndexAssumption`. The chain up to
`Settled` never changes; a pass's range lies within it; what a pass has still to write and
what is in the history make up its range; the cursor's ground is covered. A lost or
doubled row would break one of these four. From them also follow that no withdrawal is
listed twice (`HistoryListsOnce`), although two passes may write the same ground, and
that what the history says is never revised and the cursor never goes back
(`HistoryIsKept`), although the slower of two passes saves its cursor last.

**Console** (`OperatorConsoleProofs`). From `ConsoleAssumption`. While nothing crossed and
nobody wrote by hand, the table fits together with the environment, and so would the table
after any edit that is not outdated; `reconcile` then changes nothing.

**Wallet and dashboard** (`DashboardProofs`). From `NoneIsNoAddress`, `HolderType`,
`BoundsAreCounts` and `NoneIsNoFigure`: the marker for "nothing" is no address and no
number, and the bounds are counts. `IInv` has five parts. `WalletOK` relates who wrote the
session in the jar (`author`) to what the interface shows: a link that holds a session
answer holds the cookie's, as long as no other tab or late sign-in wrote it since; this
makes `ReadyIsOwn` inductive over logouts, expiries and account changes that overtake each
other. `LoadsOK` says at most one load that lists rows is still of the current generation,
and that what it has read is at least what is on the screen and at most what the contract
holds; hence `FiguresNeverGoBack`, whichever answers come last. `ScreenOK` says rows stand
only behind the gate and show no more than was received (`DashboardShowsTheEarned`), and
that a detail was read at or after the figure it is marked with, which is `FreshIsFresh`.
`ChainOK` says a node was never paid more than it received, `DialogOK` that the withdrawal
dialog is open only behind the gate. `DashboardNeverDecorates` is the counterpart of the
finding of `MCDashboardDecorates.cfg`: the sentence of `walletMachine.ts:13` is true of a
tab as long as no other tab signs in and no signature arrives for an address already left
(`Tidy`), because loads that may still show rows ask for the address on screen
(`OwnScreen`), whichever of them is answered last.

Model-checked only: all liveness (`EverySaleEnds`, `DueIsServed`, `AheadIsFound`,
`HolesAreFilled`, `SessionLossIsNoticed`, `ScreenCatchesUp`, `NobodyStranded`,
`EveryNodeEarns`, `WithdrawalsAreIndexed`, `RequestIsServed`), because fairness and
`ENABLED` cannot be reasoned about here. Refuted and so not proved: `RefundIsTerminal`.

## Where the code departs from its own words

Each of these configurations checks a sentence of the repository against what the code
does, and TLC answers with a behaviour that contradicts it. The first is a run of
`PROJECT.json`; the others are kept beside it to be run by hand.

| Configuration | The sentence | What happens |
|---|---|---|
| `MCMintRelayRefund.cfg` | `lib/payments.ts:26`: refunded is "Terminal: no pass may ever turn one into a node" | `markMinted` and `markMintFailed` write by id and overwrite a refund made while the pass held the row |
| `MCMintRelayRequeue.cfg` | `lib/payments.ts:248`: back "in front of the minting pass, on a fresh decision" | the decision counts the requeued row itself against its buyer's allowance and parks it (compare `lib/mintRelay.ts:317`, which allows for that) |
| `MCCreditPassRetry.cfg` | `lib/credit.ts:388`: "creditBatch failed, so nothing was credited or recorded" | the receipt times out, the transaction is mined later, and the next pass pays the same turn again |
| `MCCreditPassAlert.cfg` | `lib/alerts.ts:24`: the one alert that means "go and reconcile by hand" | the next recorded pass clears the alert of a transaction nobody has reconciled |
| `MCDashboardDecorates.cfg` | `walletMachine.ts:13`: "A cookie issued for one address must never decorate another address's dashboard" | the account changes while the signature is pending, or another tab signs in: `/api/me` then answers for the cookie's address under the other one's |
| `MCDashboardRows.cfg` | `useDashboardData.ts:71-72`: a row's figures "always describe the same block" | a withdrawal is applied in place to a row read before the node's last credit: until the next refresh the row shows more paid out than was ever credited |

Consequences met on the way that have no configuration of their own.

Payments and nodes:

- a requeue written on a verdict computed earlier can sell one node beyond the allowance: a
  parked row does not count, "because neither will ever become a node without somebody
  deliberately putting it back" (`lib/tiers.ts:306`), but a row parked with its mint in
  flight does become one, and putting it back is what `Requeue` does. Hence the condition
  of `AllowanceKept`; with a requeue allowed TLC finds two payments minted where one is allowed;
- a lost answer of `markMinted` puts a minted row back to `failed` (`lib/mintRelay.ts:482`),
  or parks it if that was the last attempt; the next claim finds the ref used and marks
  the same node again, and until then the row can be refunded;
- a payment whose node is on chain but whose row is not `minted` yet can be refunded
  (`lib/payments.ts:336`): node and money both go to the buyer;
- a buyer can end with more nodes on chain than the allowance when a row is parked with
  a mint in flight (`lib/tiers.ts:318`); `AllowanceKept` therefore excepts the nodes of rows
  that are parked, and no others: a node too many always comes with such a row;
- a refund of an unrecorded hash reads the payment's facts without asking for
  confirmations (`lib/watcher.ts:1232`), so a row can be written for a transfer that a
  replaced tip takes away;
- the sync route compares the session with the chain, but never with the log it writes;
  `reconcileNodes` compares the owner, but not the transaction. A tip replaced in between
  can therefore give a row another mint of the same buyer;
- after such a replacement "either unique constraint" (`lib/reconcile.ts:118`) can keep a
  node out of the table for ever, because its transaction is recorded under the old id;
  if `maxNodes` such ids are the newest, they take every place of the reconciler's run;
- the dialog can name another payment's node if it is closed while waiting and opened
  again, or if its baseline was taken without a session or without the chain
  (`DeployModal.tsx:203-205`); a receipt that does not come in time leads to "queued"
  without a claim, which `:237-240` says it makes.

Money:

- the daily cap bounds recorded credits, not paid ones (`lib/credit.ts:495`);
- as many inert ids as a batch has places, due for longest, starve all others
  (`lib/schedule.ts:54`); `DueIsServed` is checked with fewer inert ids than places.

Discovery:

- the comment at `lib/watcher.ts:1027` says the wallet "must not be holding ETH that no
  recorded payment accounts for" before a fast-forward, while line 1130 looks at the
  balance only if no payment was ever recorded;
- while discovery fails, a first run without `WATCHER_START_BLOCK` starts over from a
  point that moves with the head (`lib/watcher.ts:692`);
- a newest-first walk with more pages ahead of the cursor than it may read reads the
  same pages for ever (`lib/explorer.ts:442`); the strong fairness on complete walks
  excludes this;
- the audit is stamped before it runs (`lib/watcher.ts:1361`), so one that dies is
  skipped until the next is due.

Browser:

- leaving the dashboard does not advance its generation, so a load that is still waiting
  for `/api/me` may report the session lost to the provider of a later sign-in
  (`useDashboardData.ts:218`);
- a failed network switch dispatches `failed` and takes a signed-in tab to `unsigned`,
  although its session is valid (`walletMachine.ts:120-127`, against `:16-18`);
- a `signed` that arrives after a disconnect makes the machine `ready` with no address,
  which `Dashboard.tsx:225` shows as the connect screen;
- an account change between `requestAccounts` and `connected` is not heard, since
  listeners are bound to a connected wallet;
- the re-read of a node's history after a withdrawal may precede the index's next pass.

Operator:

- `consumeRunNow` takes the request before the lock is tried, and also after a signal
  (`worker/index.ts:78-87`, `:95-101`). A request taken while another pass holds the lock,
  or by a loop that then stops, is lost, although its sender was told that it was accepted;
  the next scheduled pass does the round. `RequestIsServed` names these cases and says that
  there is no other;
- the cron route's heartbeat makes a dead worker look alive, so a request waits for the
  next worker or cron pass;
- the settings route validates a patch against the reconciled settings, not the stored
  rows (`settings/route.ts:65-69`), so two crossed edits leave a row that has no effect, of
  which only the alert tells;
- the tiers route's header says that a value which would make two tiers share a price "is
  refused here" (`app/api/admin/tiers/route.ts:11`); it is saved and answered with a warning.

## Assumptions of the models

- A transaction of the EVM or of Postgres is atomic. A statement takes effect
  exactly when its caller gets its answer, with one exception, `markMinted`: a lost answer
  of `markManualReview` only has the row judged again, one of `markMintFailed` counts the
  attempt twice or is the crash of the pass, and one of the claim is a crash after it.
- Nonces are not modelled: a sent transaction is mined, reverts or is dropped on its own.
- Settings, tier prices and the daily cap are constant within a behaviour.
- A payment's tier is a function of the amount paid; other reasons for parking a
  payment (token gates, wrong amounts) are a free choice for the payments in `Doubtful`.
- `Inert`, the scheduled ids that cannot be credited, does not change.
- In `CreditPass` a batch has any total between what its nodes may be given at least
  and at most; how it is divided matters to no property.
- In `PaymentWatcher` a reorganisation reaches no deeper than `Confirmations`; the RPC
  may at any time not know a transaction or answer from two views; transfers that
  revert or go elsewhere are rejected by `verify` and left out; a fast-forward's reading
  of head and cursor is one step.
- One wallet extension is installed; signatures and cookie authentication are sound; a
  pressed button stays pressed until its request ends.
- The ledger's list of nodes does not change under a dashboard (`NodeLedger` says how it
  changes), and prices, totals and the ETH figure are display only.
- The log index of `WithdrawalIndex` is complete for blocks with `Confirmations` above
  them, and no reorganisation reaches those; that of `NodeLedger` may miss any log.
- In `OperatorConsole` the ranges of delays and of amounts are checked alike, so there is one.
- Nothing is assumed of the order in which passes, people and the network act.

## What is not modelled

- **SitowiseHook**: written and tested, not deployed (`contracts/HOOK.md:3`), and the mode
  it would feed is refused by the worker. What it would do to the factory is `fund()`,
  which is an action of `SitowiseFactory`.
- **Passkeys and the admin session**: cryptography around one counter. **Rate limit**: one
  synchronous counter per process, per instance by its own account.
- **Alerts** other than `credit_unrecorded` and `config`: raised and cleared for a reader,
  nothing acts on them.
- **Tiers**: prices, multipliers and token gates are a free choice of a verdict; editing
  them is not followed.
- **Explorer client and database pool**: what they may answer is in their callers'
  modules; parsing, retries and pooling are not.
- **Reads, pages, documentation, scripts**: the read-only routes, `lib/abi.ts`,
  `lib/env.ts`, `lib/onchain.ts`, `lib/adminData.ts`, the panels and the pages under
  `app/docs` keep no state. They are most of the repository's lines: about half of the
  35 000 are pages and their components, and no property could be stated of them but
  what they display.

`PROJECT.json` names every component and its status.

## Plan

Built: factory, relay and queue, credit pass, watcher, wallet session with dashboard and
withdrawal dialog, ledger with deploy dialog, withdrawals index, settings with worker loop;
each with its invariants and their proofs.

Left, in this order:

1. the refund of an unrecorded hash (`readPaymentFacts` without confirmations) in
   `PaymentWatcher`, with its row in `MintRelay`;
2. lost answers of the credit pass's ledger transaction (today a failing write followed by
   its substitute);
3. an abstract, append-only copy of the chain's log that `NodeLedger` and
   `WithdrawalIndex` both refine;
4. editing tiers while payments are decided;
5. `SitowiseHook` over `fund`, if it is deployed.

## Running it

    tlc -workers 2 -config MCMintRelay.cfg MCMintRelay.tla
    tlapm MintRelayProofs.tla

The largest runs (`credit_faults`, 4.7 million states, `watcher_overlap`, 2.5 million, and
`relay_overlap`, 1.8 million) and those with liveness over several hundred thousand states
(`relay_ends`, `console`, `dashboard`, `nodes`, `withdrawals`) take one to three
minutes with two workers; the proofs of a module half a minute to a few minutes.
