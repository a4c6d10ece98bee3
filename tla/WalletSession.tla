---------------------------- MODULE WalletSession ----------------------------
(***************************************************************************)
(* Wallet connection and sign-in of one open tab: the reducer of           *)
(* walletMachine.ts, the flows of WalletProvider.tsx around it, the wallet *)
(* they talk to, and the browser's cookies, which its tabs share.          *)
(*                                                                         *)
(* The server keeps no sessions: a request carries the cookies of the      *)
(* moment it is sent, and what its answer sets or clears takes effect when *)
(* it arrives.  Every request is therefore two steps with anything in      *)
(* between.  The connected wallet is set and cleared with the address, so  *)
(* the address stands for both; one wallet extension is installed.         *)
(***************************************************************************)
EXTENDS Naturals, FiniteSets

CONSTANTS
    Address,    \* accounts the wallet may expose
    None,       \* no account, no session
    MaxSigns,   \* sign-in attempts of one page view
    MaxMoves    \* the person's connections and departures, and outside events, counted in `moves`

ASSUME NoneIsNoAddress == None \notin Address
ASSUME BoundsAreCounts == MaxSigns \in Nat /\ MaxMoves \in Nat

VARIABLES
    ui,         \* [phase, address]: the State of the reducer
    cookie,     \* [session, nonce]: whose session, and which attempt's nonce (0: no usable one)
    author,     \* who wrote the session in the jar
    account,    \* the account the wallet exposes to the site
    known,      \* the wallet remembered in localStorage
    home,       \* the wallet is on the chain of the site
    link,       \* [stage, ask, address]: restore() or connectWallet() under way
    sign,       \* [1 .. MaxSigns -> [stage, address, good]]: the runs of signIn()
    logouts,    \* logout requests nobody waits for
    leaving,    \* disconnect() under way
    switching,  \* switchNetwork() under way
    moves

walletVars == <<ui, cookie, author, account, known, home, link, sign, logouts, leaving, switching, moves>>
jar == <<cookie, author>>
flows == <<link, sign, logouts, leaving, switching>>

Someone == Address \union {None}
Attempts == 1 .. MaxSigns
Phases == {"starting", "disconnected", "connecting", "unsigned", "signing", "ready"}

-----------------------------------------------------------------------------
(* The reducer. *)

Connecting(s) == [s EXCEPT !.phase = "connecting"]
Connected(a, signed) == [phase |-> IF signed THEN "ready" ELSE "unsigned", address |-> a]
Signing(s) == [s EXCEPT !.phase = "signing"]
Signed(s) == [s EXCEPT !.phase = "ready"]
SessionLost(s) == IF s.address = None THEN s ELSE [s EXCEPT !.phase = "unsigned"]
AccountChanged(a) == [phase |-> "unsigned", address |-> a]
Disconnected == [phase |-> "disconnected", address |-> None]
FailedInPlace(s) == s
Failed(s) == [s EXCEPT !.phase = IF s.address = None THEN "disconnected" ELSE "unsigned"]

(* The screens that offer a button (Phase in Dashboard.tsx). *)
ConnectScreen == ui.phase = "disconnected" \/ (ui.phase = "ready" /\ ui.address = None)
SignScreen == ui.phase \in {"unsigned", "signing"}
Gate == ui.phase = "ready" /\ ui.address # None

-----------------------------------------------------------------------------
(* The jar: a verified signature writes a session and spends the nonce, a   *)
(* logout clears both.                                                      *)

Issue(a) == [session |-> a, nonce |-> 0]
Cleared == [session |-> None, nonce |-> 0]
Logout ==   \* best effort
    \/ cookie' = Cleared /\ author' = "nobody"
    \/ UNCHANGED jar

NoLink == [stage |-> "idle", ask |-> None, address |-> None]
Unused == [stage |-> "unused", address |-> None, good |-> FALSE]
Over == [Unused EXCEPT !.stage = "over"]

(* A page load: any cookie, wallet and memory an earlier visit may have     *)
(* left; restore() asks GET /api/me first.                                  *)
WalletInit ==
    /\ ui = [phase |-> "starting", address |-> None]
    /\ cookie \in [session : Someone, nonce : {0}]
    /\ author = IF cookie.session = None THEN "nobody" ELSE "earlier"
    /\ account \in Someone
    /\ known \in BOOLEAN
    /\ home = TRUE
    /\ link = [stage |-> "restore", ask |-> cookie.session, address |-> None]
    /\ sign = [i \in Attempts |-> Unused]
    /\ logouts = 0
    /\ leaving = "no"
    /\ switching = FALSE
    /\ moves = 0

-----------------------------------------------------------------------------
(* restore() and connectWallet().                                           *)

OwnsAny(session, a) == session # None
Owns(session, a) == session = a

(* Their common end: the address is the dashboard's if the session answered *)
(* is its own; a session of another address is signed out first.            *)
Decide(a, session) ==
    IF session # None /\ ~Owns(session, a)
    THEN /\ link' = [stage |-> "logout", ask |-> None, address |-> a]
         /\ UNCHANGED ui
    ELSE /\ link' = NoLink
         /\ ui' = Connected(a, Owns(session, a))

(* The session's answer (a failed request counts as none) and the 400 ms in *)
(* which wallets announce themselves.                                       *)
RestoreAnswer ==
    /\ link.stage = "restore"
    /\ \E session \in {link.ask, None} : link' = [link EXCEPT !.stage = "accounts", !.ask = session]
    /\ UNCHANGED <<ui, jar, account, known, home, sign, logouts, leaving, switching, moves>>

RestoreAccounts ==
    /\ link.stage = "accounts"
    /\ \/ /\ known /\ account # None
          /\ link' = [link EXCEPT !.stage = "chain", !.address = account]
          /\ UNCHANGED ui
       \/ link' = NoLink /\ ui' = Disconnected
    /\ UNCHANGED <<jar, account, known, home, sign, logouts, leaving, switching, moves>>

(* The network, asked for last: by now the account may be another, and no   *)
(* listener is bound yet to hear of it.                                     *)
RestoreChain ==
    /\ link.stage = "chain"
    /\ Decide(link.address, link.ask)
    /\ UNCHANGED <<jar, account, known, home, sign, logouts, leaving, switching, moves>>

(* A second click while the wallet's prompt is open is refused by the       *)
(* wallet, so one connection is under way at a time.                        *)
Connect ==
    /\ ConnectScreen /\ link.stage = "idle"
    /\ ui' = Connecting(ui)
    /\ link' = [NoLink EXCEPT !.stage = "prompt"]
    /\ UNCHANGED <<jar, account, known, home, sign, logouts, leaving, switching>>

ConnectApproved(a) ==
    /\ link.stage = "prompt"
    /\ account' = a
    /\ known' = TRUE
    /\ link' = [stage |-> "connect", ask |-> cookie.session, address |-> a]
    /\ UNCHANGED <<ui, jar, home, sign, logouts, leaving, switching, moves>>

ConnectRefused ==
    /\ link.stage = "prompt"
    /\ link' = NoLink
    /\ ui' = Failed(ui)
    /\ UNCHANGED <<jar, account, known, home, sign, logouts, leaving, switching, moves>>

ConnectAnswer ==
    /\ link.stage = "connect"
    /\ \E session \in {link.ask, None} : Decide(link.address, session)
    /\ UNCHANGED <<jar, account, known, home, sign, logouts, leaving, switching, moves>>

LinkLoggedOut ==
    /\ link.stage = "logout"
    /\ Logout
    /\ ui' = Connected(link.address, FALSE)
    /\ link' = NoLink
    /\ UNCHANGED <<account, known, home, sign, logouts, leaving, switching, moves>>

-----------------------------------------------------------------------------
(* signIn(): the nonce, the wallet's signature, the verification.  The      *)
(* address is the one on screen when the button was pressed.                *)

SignIn(i) ==
    /\ ui.phase = "unsigned"
    /\ sign[i].stage = "unused" /\ \A j \in 1 .. i - 1 : sign[j].stage # "unused"
    /\ sign' = [sign EXCEPT ![i] = [stage |-> "nonce", address |-> ui.address, good |-> FALSE]]
    /\ ui' = Signing(ui)
    /\ UNCHANGED <<jar, account, known, home, link, logouts, leaving, switching, moves>>

SignFails(i) ==
    /\ sign[i].stage \in {"nonce", "prompt", "verify"}
    /\ sign' = [sign EXCEPT ![i] = Over]
    /\ ui' = Failed(ui)
    /\ UNCHANGED <<jar, account, known, home, link, logouts, leaving, switching, moves>>

NonceAnswer(i) ==
    /\ sign[i].stage = "nonce"
    /\ cookie' = [cookie EXCEPT !.nonce = i]
    /\ sign' = [sign EXCEPT ![i].stage = "prompt"]
    /\ UNCHANGED <<ui, author, account, known, home, link, logouts, leaving, switching, moves>>

(* The signature is checked against the nonce cookie sent along with it.    *)
Signature(i) ==
    /\ sign[i].stage = "prompt"
    /\ sign' = [sign EXCEPT ![i].stage = "verify", ![i].good = cookie.nonce = i]
    /\ UNCHANGED <<ui, jar, account, known, home, link, logouts, leaving, switching, moves>>

Verified(i) ==
    /\ sign[i].stage = "verify" /\ sign[i].good
    /\ cookie' = Issue(sign[i].address)
    /\ author' = IF sign[i].address = ui.address THEN "own" ELSE "late"
    /\ sign' = [sign EXCEPT ![i] = Over]
    /\ ui' = Signed(ui)
    /\ UNCHANGED <<account, known, home, link, logouts, leaving, switching, moves>>

-----------------------------------------------------------------------------
(* Leaving, and what the wallet tells a connected tab.                      *)

Disconnect ==
    /\ SignScreen \/ Gate
    /\ leaving = "no"
    /\ ui' = Disconnected
    /\ known' = FALSE
    /\ leaving' = "logout"
    /\ UNCHANGED <<jar, account, home, link, sign, logouts, switching>>

DisconnectLoggedOut ==
    /\ leaving = "logout"
    /\ Logout
    /\ leaving' = "revoke"
    /\ UNCHANGED <<ui, account, known, home, link, sign, logouts, switching, moves>>

(* accountsChanged, heard only by a tab with a wallet: no account left      *)
(* disconnects, another one starts over unsigned, and neither waits for the *)
(* logout it sends.                                                         *)
OnAccounts(a) ==
    /\ account' = a
    /\ IF ui.address \in {None, a}
       THEN UNCHANGED <<ui, known, logouts>>
       ELSE /\ logouts' = logouts + 1
            /\ known' = (known /\ a # None)
            /\ ui' = IF a = None THEN Disconnected ELSE AccountChanged(a)

(* The revocation that ends disconnect(): a wallet may not implement it.    *)
Revoke ==
    /\ leaving = "revoke"
    /\ \/ OnAccounts(None)
       \/ UNCHANGED <<ui, account, known, logouts>>
    /\ leaving' = "no"
    /\ UNCHANGED <<jar, home, link, sign, switching, moves>>

LogoutAnswer ==
    /\ logouts > 0
    /\ Logout
    /\ logouts' = logouts - 1
    /\ UNCHANGED <<ui, account, known, home, link, sign, leaving, switching, moves>>

SwitchNetwork ==
    /\ ui.address # None /\ ~home /\ ~switching
    /\ switching' = TRUE
    /\ UNCHANGED <<ui, jar, account, known, home, link, sign, logouts, leaving, moves>>

SwitchEnds ==
    /\ switching
    /\ switching' = FALSE
    /\ \/ home' = TRUE /\ UNCHANGED ui
       \/ UNCHANGED home /\ ui' = Failed(ui)
    /\ UNCHANGED <<jar, account, known, link, sign, logouts, leaving, moves>>

-----------------------------------------------------------------------------
(* What happens to the tab: the person changes the account or the network   *)
(* in the wallet, the wallet drops the connection, another tab signs in or  *)
(* out with the same cookies, the session expires.  The bound on these and  *)
(* on the buttons that can be pressed for ever keeps the model finite.      *)

SwitchAccount(a) ==
    /\ a # account
    /\ OnAccounts(a)
    /\ UNCHANGED <<jar, home, link, sign, leaving, switching>>

ProviderDisconnect ==
    /\ ui.address # None
    /\ ui' = Disconnected
    /\ UNCHANGED <<jar, account, known, home, flows>>

LeaveChain ==
    /\ home
    /\ home' = FALSE
    /\ UNCHANGED <<ui, jar, account, known, flows>>

OtherTab(a) ==
    /\ cookie' = Issue(a)
    /\ author' = IF a = None THEN "nobody" ELSE "otherTab"
    /\ UNCHANGED <<ui, account, known, home, flows>>

SessionExpires ==
    /\ cookie.session # None
    /\ cookie' = [cookie EXCEPT !.session = None]
    /\ author' = "nobody"
    /\ UNCHANGED <<ui, account, known, home, flows>>

Move ==
    /\ moves < MaxMoves
    /\ moves' = moves + 1
    /\ \/ Connect \/ Disconnect
       \/ \E a \in Someone : SwitchAccount(a) \/ OtherTab(a)
       \/ ProviderDisconnect
       \/ LeaveChain
       \/ SessionExpires

-----------------------------------------------------------------------------
WalletAnswer ==
    \/ RestoreAnswer \/ RestoreAccounts \/ RestoreChain \/ ConnectAnswer \/ LinkLoggedOut
    \/ DisconnectLoggedOut \/ Revoke \/ LogoutAnswer \/ SwitchEnds

SignAnswer(i) == sign[i].stage # "prompt" /\ (NonceAnswer(i) \/ Verified(i) \/ SignFails(i))

WalletNext ==
    \/ WalletAnswer
    \/ ConnectRefused \/ SwitchNetwork
    \/ \E a \in Address : ConnectApproved(a)
    \/ \E i \in Attempts : SignIn(i) \/ NonceAnswer(i) \/ Signature(i) \/ Verified(i) \/ SignFails(i)
    \/ Move

-----------------------------------------------------------------------------
WalletTypeOK ==
    /\ ui \in [phase : Phases, address : Someone]
    /\ cookie \in [session : Someone, nonce : 0 .. MaxSigns]
    /\ author \in {"nobody", "earlier", "own", "late", "otherTab"}
    /\ account \in Someone
    /\ known \in BOOLEAN /\ home \in BOOLEAN /\ switching \in BOOLEAN
    /\ link \in [stage : {"idle", "restore", "accounts", "chain", "prompt", "connect", "logout"},
                 ask : Someone, address : Someone]
    /\ sign \in [Attempts -> [stage : {"unused", "nonce", "prompt", "verify", "over"},
                              address : Someone, good : BOOLEAN]]
    /\ logouts \in Nat
    /\ leaving \in {"no", "logout", "revoke"}
    /\ moves \in 0 .. MaxMoves
=============================================================================
