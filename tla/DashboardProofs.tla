-------------------------- MODULE DashboardProofs --------------------------
(***************************************************************************)
(* Proofs about Dashboard and the WalletSession under it, for any          *)
(* addresses, nodes, owners, sign-ins and credits, and any number of loads *)
(* under way at once.                                                      *)
(*                                                                         *)
(* The wallet's part of the invariant follows who holds the session and    *)
(* which address the interface shows.  The dashboard's part says that one  *)
(* load at most can still put rows on the screen, that what it has read    *)
(* is no older than the rows there and no newer than the contract, and     *)
(* that a detail was read after the figure it belongs to.                  *)
(***************************************************************************)
EXTENDS Dashboard, TLAPS

----------------------------------------------------------------------------
(* The wallet: types, and who holds the session.                           *)

UiType == [phase : Phases, address : Someone]
CookieType == [session : Someone, nonce : 0 .. MaxSigns]
LinkType == [stage : {"idle", "restore", "accounts", "chain", "prompt", "connect", "logout"},
             ask : Someone, address : Someone]
SignType == [stage : {"unused", "nonce", "prompt", "verify", "over"}, address : Someone, good : BOOLEAN]

\* A signed-in interface shows an address, a flow that is under way keeps the one
\* it began with, and a session the browser restored or asked for is its cookie's
\* until another tab changes it.
WalletInv ==
    /\ ui.phase \in {"unsigned", "signing"} => ui.address # None
    /\ ui.phase = "disconnected" => ui.address = None
    /\ author = "nobody" <=> cookie.session = None
    /\ link.stage # "idle" => ui.address = None
    /\ link.stage \in {"chain", "connect", "logout"} => link.address # None
    /\ \A i \in Attempts : sign[i].stage \in {"nonce", "prompt", "verify"} => sign[i].address # None
    /\ link.stage \in {"restore", "accounts", "chain", "connect"} /\ link.ask # None /\ author \in {"earlier", "own"}
         => cookie.session = link.ask
    /\ ReadyIsOwn

FlowTypes ==
    /\ ui \in UiType /\ cookie \in CookieType
    /\ author \in {"nobody", "earlier", "own", "late", "otherTab"}
    /\ link \in LinkType /\ sign \in [Attempts -> SignType]

RestTypes ==
    /\ account \in Someone
    /\ known \in BOOLEAN /\ home \in BOOLEAN /\ switching \in BOOLEAN
    /\ logouts \in Nat
    /\ leaving \in {"no", "logout", "revoke"}
    /\ moves \in 0 .. MaxMoves

WalletOK == FlowTypes /\ RestTypes /\ WalletInv

\* What the functions of the wallet machine return.
LEMMA UiOperators ==
  ASSUME NEW s \in UiType
  PROVE  /\ Connecting(s) \in UiType /\ Signing(s) \in UiType /\ Signed(s) \in UiType
         /\ SessionLost(s) \in UiType /\ Failed(s) \in UiType /\ Disconnected \in UiType
         /\ \A a \in Someone : AccountChanged(a) \in UiType
  BY DEF UiType, Phases, Someone, Connecting, Signing, Signed, SessionLost, Failed,
     Disconnected, AccountChanged

\* They leave the address alone.
LEMMA UiFields ==
  ASSUME NEW s \in UiType
  PROVE  /\ Connecting(s).address = s.address /\ Connecting(s).phase = "connecting"
         /\ Signing(s).address = s.address /\ Signing(s).phase = "signing"
         /\ Signed(s).address = s.address /\ Signed(s).phase = "ready"
         /\ SessionLost(s).address = s.address /\ (s.address # None => SessionLost(s).phase = "unsigned")
         /\ Failed(s).address = s.address
         /\ Failed(s).phase = IF s.address = None THEN "disconnected" ELSE "unsigned"
  BY DEF Connecting, Signing, Signed, SessionLost, Failed

\* Connecting shows a typed state, signed in or not.
LEMMA ConnectedType ==
  ASSUME NEW a \in Someone, NEW signed
  PROVE  Connected(a, signed) \in UiType
  BY DEF Connected, UiType, Phases

\* The flows and cookies a step may leave behind are typed.
LEMMA OtherOperators ==
  /\ NoLink \in LinkType /\ Unused \in SignType /\ Over \in SignType /\ Cleared \in CookieType
  /\ \A a \in Someone : Issue(a) \in CookieType
  /\ NoLink.stage = "idle" /\ Over.stage = "over" /\ Unused.stage = "unused"
<1>1. NoLink \in LinkType /\ NoLink.stage = "idle"
  BY DEF NoLink, LinkType, Someone
<1>2. Unused \in SignType /\ Unused.stage = "unused"
  BY DEF Unused, SignType, Someone
<1>3. Over \in SignType /\ Over.stage = "over"
  BY DEF Over, Unused, SignType, Someone
<1>4. Cleared \in CookieType /\ \A a \in Someone : Issue(a) \in CookieType
  BY BoundsAreCounts DEF Cleared, Issue, CookieType, Someone
<1>q. QED
  BY <1>1, <1>2, <1>3, <1>4

\* WalletTypeOK in the terms of these proofs.
LEMMA WalletTypes == WalletTypeOK <=> FlowTypes /\ RestTypes
  BY DEF WalletTypeOK, FlowTypes, RestTypes, UiType, CookieType, LinkType, SignType

\* Deciding on a restored or connected address keeps the types.
LEMMA DecideTypes ==
  ASSUME NEW a \in Someone, NEW session, ui \in UiType, link \in LinkType, Decide(a,
         session)
  PROVE  ui' \in UiType /\ link' \in LinkType
<1>1. CASE session # None /\ ~Owns(session, a)
  BY <1>1 DEF Decide, LinkType, Someone
<1>2. CASE ~(session # None /\ ~Owns(session, a))
  BY <1>2, ConnectedType, OtherOperators DEF Decide
<1>q. QED
  BY <1>1, <1>2

\* So does an account the extension reports.
LEMMA OnAccountsTypes ==
  ASSUME FlowTypes, RestTypes, NEW a \in Someone, OnAccounts(a)
  PROVE  ui' \in UiType /\ known' \in BOOLEAN /\ logouts' \in Nat /\ account' \in Someone
<1>1. CASE ui.address \in {None, a}
  BY <1>1 DEF OnAccounts, FlowTypes, RestTypes
<1>2. CASE ui.address \notin {None, a}
  <2>1. ui' \in UiType
    BY <1>2, UiOperators DEF OnAccounts, FlowTypes
  <2>2. known' \in BOOLEAN
    BY <1>2 DEF OnAccounts
  <2>3. logouts' \in Nat /\ account' \in Someone
    BY <1>2 DEF OnAccounts, RestTypes
  <2>q. QED
    BY <2>1, <2>2, <2>3
<1>q. QED
  BY <1>1, <1>2

\* A page that was just opened satisfies the invariant.
LEMMA WalletStart == WalletInit => WalletOK
<1> SUFFICES ASSUME WalletInit PROVE WalletOK
  OBVIOUS
<1>1. FlowTypes
  <2>1. ui \in UiType /\ link \in LinkType /\ cookie \in CookieType /\ sign \in [Attempts -> SignType]
    BY OtherOperators, BoundsAreCounts DEF WalletInit, UiType, LinkType, CookieType,
       Phases, Someone
  <2>2. author \in {"nobody", "earlier", "own", "late", "otherTab"}
    BY DEF WalletInit
  <2>q. QED
    BY <2>1, <2>2 DEF FlowTypes
<1>2. RestTypes
  <2>1. account \in Someone /\ known \in BOOLEAN /\ home \in BOOLEAN /\ switching \in BOOLEAN
    BY DEF WalletInit
  <2>2. logouts \in Nat /\ moves \in 0 .. MaxMoves /\ leaving \in {"no", "logout", "revoke"}
    BY BoundsAreCounts DEF WalletInit
  <2>q. QED
    BY <2>1, <2>2 DEF RestTypes
<1>3. WalletInv
  BY DEF WalletInit, WalletInv, Unused, ReadyIsOwn, Gate
<1>q. QED
  BY <1>1, <1>2, <1>3 DEF WalletOK

----------------------------------------------------------------------------
(* One lemma for each action of the wallet: it keeps its types, the types  *)
(* it does not touch, and the invariant.                                   *)

\* The restored session is the cookie's.
LEMMA RestoreAnswerKeeps ==
  ASSUME WalletOK, RestoreAnswer
  PROVE  WalletOK'
<1>1. FlowTypes'
  BY DEF WalletOK, FlowTypes, RestoreAnswer, jar, LinkType, Someone
<1>2. RestTypes'
  BY DEF WalletOK, RestTypes, RestoreAnswer
<1>3. WalletInv'
  BY <1>1 DEF WalletOK, WalletInv, ReadyIsOwn, Gate, RestoreAnswer, jar
<1>q. QED
  BY <1>1, <1>2, <1>3 DEF WalletOK

\* The address restored is one the wallet has; none is shown yet.
LEMMA RestoreAccountsKeeps ==
  ASSUME WalletOK, RestoreAccounts
  PROVE  WalletOK'
<1>1. FlowTypes'
  <2>1. ui' \in UiType /\ link' \in LinkType
    <3>1. CASE link' = [link EXCEPT !.stage = "chain", !.address = account] /\ UNCHANGED ui
      BY <3>1 DEF WalletOK, FlowTypes, RestTypes, LinkType
    <3>2. CASE link' = NoLink /\ ui' = Disconnected
      BY <3>2, UiOperators, OtherOperators DEF WalletOK, FlowTypes
    <3>q. QED
      BY <3>1, <3>2 DEF RestoreAccounts
  <2>q. QED
    BY <2>1 DEF WalletOK, FlowTypes, RestoreAccounts, jar
<1>2. RestTypes'
  BY DEF WalletOK, RestTypes, RestoreAccounts
<1>3. WalletInv'
  <2>1. CASE /\ link.stage = "accounts" /\ account # None /\ UNCHANGED <<ui, jar, sign>>
             /\ link' = [link EXCEPT !.stage = "chain", !.address = account]
    <3>1. link'.stage = "chain" /\ link'.address # None /\ link'.ask = link.ask
      BY <2>1 DEF WalletOK, FlowTypes, LinkType
    <3>q. QED
      BY <2>1, <3>1 DEF WalletOK, WalletInv, ReadyIsOwn, Gate, jar
  <2>2. CASE link' = NoLink /\ ui' = Disconnected /\ UNCHANGED <<jar, sign>>
    BY <2>2, OtherOperators DEF WalletOK, WalletInv, ReadyIsOwn, Gate, jar, Disconnected
  <2>q. QED
    BY <2>1, <2>2 DEF RestoreAccounts
<1>q. QED
  BY <1>1, <1>2, <1>3 DEF WalletOK

\* Restoring ends signed in only with the address the session is of.
LEMMA RestoreChainKeeps ==
  ASSUME WalletOK, RestoreChain
  PROVE  WalletOK'
<1>1. FlowTypes'
  <2>1. ui' \in UiType /\ link' \in LinkType
    BY DecideTypes DEF WalletOK, FlowTypes, RestoreChain, LinkType
  <2>q. QED
    BY <2>1 DEF WalletOK, FlowTypes, RestoreChain, jar
<1>2. RestTypes'
  BY DEF WalletOK, RestTypes, RestoreChain
<1>3. WalletInv'
  BY <1>1, OtherOperators DEF WalletOK, FlowTypes, WalletInv, ReadyIsOwn, Gate,
     RestoreChain, jar, Decide, Owns, Connected
<1>q. QED
  BY <1>1, <1>2, <1>3 DEF WalletOK

\* A connection starts from a screen without an address.
LEMMA ConnectKeeps ==
  ASSUME WalletOK, Connect, moves' \in 0 .. MaxMoves
  PROVE  WalletOK'
<1>1. FlowTypes'
  BY UiOperators, OtherOperators DEF WalletOK, FlowTypes, Connect, jar, LinkType
<1>2. RestTypes'
  BY DEF WalletOK, RestTypes, Connect
<1>3. WalletInv'
  BY <1>1, UiFields DEF WalletOK, FlowTypes, WalletInv, ReadyIsOwn, Gate, Connect, jar,
     ConnectScreen
<1>q. QED
  BY <1>1, <1>2, <1>3 DEF WalletOK

\* The session is asked for together with the address that was approved.
LEMMA ConnectApprovedKeeps ==
  ASSUME WalletOK, NEW a \in Address, ConnectApproved(a)
  PROVE  WalletOK'
<1>1. FlowTypes'
  BY DEF WalletOK, FlowTypes, ConnectApproved, jar, LinkType, CookieType, Someone
<1>2. RestTypes'
  BY DEF WalletOK, RestTypes, ConnectApproved, Someone
<1>3. WalletInv'
  BY <1>1, NoneIsNoAddress DEF WalletOK, WalletInv, ReadyIsOwn, Gate, ConnectApproved, jar
<1>q. QED
  BY <1>1, <1>2, <1>3 DEF WalletOK

\* A refusal leaves the screen without an address.
LEMMA ConnectRefusedKeeps ==
  ASSUME WalletOK, ConnectRefused
  PROVE  WalletOK'
<1>1. FlowTypes'
  BY UiOperators, OtherOperators DEF WalletOK, FlowTypes, ConnectRefused, jar
<1>2. RestTypes'
  BY DEF WalletOK, RestTypes, ConnectRefused
<1>3. WalletInv'
  BY <1>1, UiFields, OtherOperators DEF WalletOK, FlowTypes, WalletInv, ReadyIsOwn, Gate,
     ConnectRefused, jar
<1>q. QED
  BY <1>1, <1>2, <1>3 DEF WalletOK

\* A connected address is signed in only with its own session.
LEMMA ConnectAnswerKeeps ==
  ASSUME WalletOK, ConnectAnswer
  PROVE  WalletOK'
<1>1. FlowTypes'
  <2>1. ui' \in UiType /\ link' \in LinkType
    BY DecideTypes DEF WalletOK, FlowTypes, ConnectAnswer, LinkType
  <2>q. QED
    BY <2>1 DEF WalletOK, FlowTypes, ConnectAnswer, jar
<1>2. RestTypes'
  BY DEF WalletOK, RestTypes, ConnectAnswer
<1>3. WalletInv'
  BY <1>1, OtherOperators DEF WalletOK, FlowTypes, WalletInv, ReadyIsOwn, Gate,
     ConnectAnswer, jar, Decide, Owns, Connected
<1>q. QED
  BY <1>1, <1>2, <1>3 DEF WalletOK

\* Somebody else's session is dropped before the address is shown.
LEMMA LinkLoggedOutKeeps ==
  ASSUME WalletOK, LinkLoggedOut
  PROVE  WalletOK'
<1>1. FlowTypes'
  <2>1. ui' \in UiType
    BY ConnectedType DEF WalletOK, FlowTypes, LinkLoggedOut, LinkType
  <2>q. QED
    BY <2>1, OtherOperators DEF WalletOK, FlowTypes, LinkLoggedOut, Logout, jar
<1>2. RestTypes'
  BY DEF WalletOK, RestTypes, LinkLoggedOut
<1>3. WalletInv'
  BY <1>1, OtherOperators DEF WalletOK, WalletInv, ReadyIsOwn, Gate, LinkLoggedOut, jar,
     Logout, Cleared, Connected
<1>q. QED
  BY <1>1, <1>2, <1>3 DEF WalletOK

\* A sign-in is for the address shown when it starts.
LEMMA SignInKeeps ==
  ASSUME WalletOK, NEW i \in Attempts, SignIn(i)
  PROVE  WalletOK'
<1>1. FlowTypes'
  <2>1. [stage |-> "nonce", address |-> ui.address, good |-> FALSE] \in SignType
    BY DEF WalletOK, FlowTypes, UiType, SignType
  <2>q. QED
    BY <2>1, UiOperators DEF WalletOK, FlowTypes, SignIn, jar
<1>2. RestTypes'
  BY DEF WalletOK, RestTypes, SignIn
<1>3. WalletInv'
  BY <1>1, UiFields DEF WalletOK, FlowTypes, WalletInv, ReadyIsOwn, Gate, SignIn, jar
<1>q. QED
  BY <1>1, <1>2, <1>3 DEF WalletOK

\* A sign-in that fails leaves address and session as they are.
LEMMA SignFailsKeeps ==
  ASSUME WalletOK, NEW i \in Attempts, SignFails(i)
  PROVE  WalletOK'
<1>1. FlowTypes'
  BY UiOperators, OtherOperators DEF WalletOK, FlowTypes, SignFails, jar
<1>2. RestTypes'
  BY DEF WalletOK, RestTypes, SignFails
<1>3. WalletInv'
  BY <1>1, UiFields, OtherOperators DEF WalletOK, FlowTypes, WalletInv, ReadyIsOwn, Gate,
     SignFails, jar
<1>q. QED
  BY <1>1, <1>2, <1>3 DEF WalletOK

\* The nonce is in the cookie, whosever session it holds.
LEMMA NonceAnswerKeeps ==
  ASSUME WalletOK, NEW i \in Attempts, NonceAnswer(i)
  PROVE  WalletOK'
<1>1. FlowTypes'
  <2>1. [sign[i] EXCEPT !.stage = "prompt"] \in SignType
    BY DEF WalletOK, FlowTypes, SignType
  <2>2. sign' \in [Attempts -> SignType]
    BY <2>1 DEF WalletOK, FlowTypes, NonceAnswer
  <2>3. cookie' \in CookieType
    BY DEF WalletOK, FlowTypes, NonceAnswer, CookieType, Attempts
  <2>q. QED
    BY <2>2, <2>3 DEF WalletOK, FlowTypes, NonceAnswer
<1>2. RestTypes'
  BY DEF WalletOK, RestTypes, NonceAnswer
<1>3. WalletInv'
  BY <1>1 DEF WalletOK, WalletInv, ReadyIsOwn, Gate, NonceAnswer
<1>q. QED
  BY <1>1, <1>2, <1>3 DEF WalletOK

\* A signature is good for the nonce the cookie holds by then.
LEMMA SignatureKeeps ==
  ASSUME WalletOK, NEW i \in Attempts, Signature(i)
  PROVE  WalletOK'
<1>1. FlowTypes'
  <2>1. (cookie.nonce = i) \in BOOLEAN
    OBVIOUS
  <2>2. \A good \in BOOLEAN : [sign[i] EXCEPT !.stage = "verify", !.good = good] \in SignType
    BY DEF WalletOK, FlowTypes, SignType
  <2>3. [sign[i] EXCEPT !.stage = "verify", !.good = (cookie.nonce = i)] \in SignType
    BY <2>1, <2>2
  <2>4. sign' \in [Attempts -> SignType]
    BY <2>3 DEF WalletOK, FlowTypes, Signature
  <2>q. QED
    BY <2>4 DEF WalletOK, FlowTypes, Signature, jar
<1>2. RestTypes'
  BY DEF WalletOK, RestTypes, Signature
<1>3. WalletInv'
  BY <1>1 DEF WalletOK, FlowTypes, WalletInv, ReadyIsOwn, Gate, Signature, jar
<1>q. QED
  BY <1>1, <1>2, <1>3 DEF WalletOK

\* A verified sign-in writes the session of its address, whatever is shown by then.
LEMMA VerifiedKeeps ==
  ASSUME WalletOK, NEW i \in Attempts, Verified(i)
  PROVE  WalletOK'
<1>1. FlowTypes'
  BY UiOperators, OtherOperators DEF WalletOK, FlowTypes, Verified, SignType
<1>2. RestTypes'
  BY DEF WalletOK, RestTypes, Verified
<1>3. WalletInv'
  BY <1>1, UiFields, OtherOperators DEF WalletOK, FlowTypes, WalletInv, ReadyIsOwn,
     Verified, Issue
<1>q. QED
  BY <1>1, <1>2, <1>3 DEF WalletOK

\* Disconnecting shows no address.
LEMMA DisconnectKeeps ==
  ASSUME WalletOK, Disconnect, moves' \in 0 .. MaxMoves
  PROVE  WalletOK'
<1>1. FlowTypes'
  BY UiOperators DEF WalletOK, FlowTypes, Disconnect, jar
<1>2. RestTypes'
  BY DEF WalletOK, RestTypes, Disconnect
<1>3. WalletInv'
  BY <1>1 DEF WalletOK, WalletInv, ReadyIsOwn, Gate, Disconnect, jar, Disconnected
<1>q. QED
  BY <1>1, <1>2, <1>3 DEF WalletOK

\* Its logout clears the session.
LEMMA DisconnectLoggedOutKeeps ==
  ASSUME WalletOK, DisconnectLoggedOut
  PROVE  WalletOK'
<1>1. FlowTypes'
  BY BoundsAreCounts DEF WalletOK, FlowTypes, DisconnectLoggedOut, jar, Logout, Cleared,
     CookieType, Someone
<1>2. RestTypes'
  BY DEF WalletOK, RestTypes, DisconnectLoggedOut
<1>3. WalletInv'
  BY <1>1 DEF WalletOK, WalletInv, ReadyIsOwn, Gate, DisconnectLoggedOut, jar, Logout,
     Cleared
<1>q. QED
  BY <1>1, <1>2, <1>3 DEF WalletOK

\* The extension takes its permission back, and says so.
LEMMA RevokeKeeps ==
  ASSUME WalletOK, Revoke
  PROVE  WalletOK'
<1>1. FlowTypes'
  BY UiOperators DEF WalletOK, FlowTypes, Revoke, jar, OnAccounts
<1>2. RestTypes'
  <2>1. CASE OnAccounts(None)
    BY <2>1, OnAccountsTypes DEF WalletOK, RestTypes, Revoke, Someone
  <2>2. CASE UNCHANGED <<ui, account, known, logouts>>
    BY <2>2 DEF WalletOK, RestTypes, Revoke
  <2>q. QED
    BY <2>1, <2>2 DEF Revoke
<1>3. WalletInv'
  BY <1>1 DEF WalletOK, WalletInv, ReadyIsOwn, Gate, Revoke, jar, OnAccounts, Disconnected
<1>q. QED
  BY <1>1, <1>2, <1>3 DEF WalletOK

\* A logout that was under way clears the session.
LEMMA LogoutAnswerKeeps ==
  ASSUME WalletOK, LogoutAnswer
  PROVE  WalletOK'
<1>1. FlowTypes'
  BY BoundsAreCounts DEF WalletOK, FlowTypes, LogoutAnswer, jar, Logout, Cleared,
     CookieType, Someone
<1>2. RestTypes'
  BY DEF WalletOK, RestTypes, LogoutAnswer
<1>3. WalletInv'
  BY <1>1 DEF WalletOK, WalletInv, ReadyIsOwn, Gate, LogoutAnswer, jar, Logout, Cleared
<1>q. QED
  BY <1>1, <1>2, <1>3 DEF WalletOK

\* A change of the network is asked for.
LEMMA SwitchNetworkKeeps ==
  ASSUME WalletOK, SwitchNetwork
  PROVE  WalletOK'
<1>1. FlowTypes'
  BY DEF WalletOK, FlowTypes, SwitchNetwork, jar
<1>2. RestTypes'
  BY DEF WalletOK, RestTypes, SwitchNetwork
<1>3. WalletInv'
  BY <1>1 DEF WalletOK, WalletInv, ReadyIsOwn, Gate, SwitchNetwork, jar
<1>q. QED
  BY <1>1, <1>2, <1>3 DEF WalletOK

\* The network is changed or not; address and session stay.
LEMMA SwitchEndsKeeps ==
  ASSUME WalletOK, SwitchEnds
  PROVE  WalletOK'
<1>1. FlowTypes'
  BY UiOperators DEF WalletOK, FlowTypes, SwitchEnds, jar
<1>2. RestTypes'
  BY DEF WalletOK, RestTypes, SwitchEnds
<1>3. WalletInv'
  BY <1>1, UiFields DEF WalletOK, FlowTypes, WalletInv, ReadyIsOwn, Gate, SwitchEnds, jar
<1>q. QED
  BY <1>1, <1>2, <1>3 DEF WalletOK

\* Another account ends the sign-in and asks for a logout.
LEMMA SwitchAccountKeeps ==
  ASSUME WalletOK, NEW a \in Someone, SwitchAccount(a), moves' \in 0 .. MaxMoves
  PROVE  WalletOK'
<1>1. FlowTypes'
  BY OnAccountsTypes DEF WalletOK, FlowTypes, SwitchAccount, jar
<1>2. RestTypes'
  BY OnAccountsTypes DEF WalletOK, RestTypes, SwitchAccount
<1>3. WalletInv'
  BY <1>1 DEF WalletOK, WalletInv, ReadyIsOwn, Gate, SwitchAccount, jar, OnAccounts,
     Disconnected, AccountChanged
<1>q. QED
  BY <1>1, <1>2, <1>3 DEF WalletOK

\* Another tab signs in, or out, under the same cookie.
LEMMA OtherTabKeeps ==
  ASSUME WalletOK, NEW a \in Someone, OtherTab(a), moves' \in 0 .. MaxMoves
  PROVE  WalletOK'
<1>1. FlowTypes'
  BY BoundsAreCounts DEF WalletOK, FlowTypes, OtherTab, flows, Issue, CookieType
<1>2. RestTypes'
  BY DEF WalletOK, RestTypes, OtherTab, flows
<1>3. WalletInv'
  BY <1>1 DEF WalletOK, WalletInv, ReadyIsOwn, OtherTab, flows, Issue
<1>q. QED
  BY <1>1, <1>2, <1>3 DEF WalletOK

\* A wallet that drops the connection takes the address with it.
LEMMA ProviderDisconnectKeeps ==
  ASSUME WalletOK, ProviderDisconnect, moves' \in 0 .. MaxMoves
  PROVE  WalletOK'
<1>1. FlowTypes'
  BY UiOperators DEF WalletOK, FlowTypes, ProviderDisconnect, jar, flows
<1>2. RestTypes'
  BY DEF WalletOK, RestTypes, ProviderDisconnect, flows
<1>3. WalletInv'
  BY <1>1 DEF WalletOK, WalletInv, ReadyIsOwn, Gate, ProviderDisconnect, jar, flows,
     Disconnected
<1>q. QED
  BY <1>1, <1>2, <1>3 DEF WalletOK

\* Leaving the chain touches neither the address nor the session.
LEMMA LeaveChainKeeps ==
  ASSUME WalletOK, LeaveChain, moves' \in 0 .. MaxMoves
  PROVE  WalletOK'
<1>1. FlowTypes'
  BY DEF WalletOK, FlowTypes, LeaveChain, jar, flows
<1>2. RestTypes'
  BY DEF WalletOK, RestTypes, LeaveChain, flows
<1>3. WalletInv'
  BY <1>1 DEF WalletOK, WalletInv, ReadyIsOwn, Gate, LeaveChain, jar, flows
<1>q. QED
  BY <1>1, <1>2, <1>3 DEF WalletOK

\* An expired session is nobody's.
LEMMA SessionExpiresKeeps ==
  ASSUME WalletOK, SessionExpires, moves' \in 0 .. MaxMoves
  PROVE  WalletOK'
<1>1. FlowTypes'
  BY DEF WalletOK, FlowTypes, SessionExpires, flows, CookieType, Someone
<1>2. RestTypes'
  BY DEF WalletOK, RestTypes, SessionExpires, flows
<1>3. WalletInv'
  BY <1>1 DEF WalletOK, WalletInv, ReadyIsOwn, SessionExpires, flows
<1>q. QED
  BY <1>1, <1>2, <1>3 DEF WalletOK

\* A request answered 401 takes the interface back to the address alone.
LEMMA SessionLostKeeps ==
  ASSUME WalletOK, ui' = SessionLost(ui), UNCHANGED <<jar, account, known, home, flows,
         moves>>
  PROVE  WalletOK'
<1>1. ui' \in UiType /\ ui'.address = ui.address /\ (ui.address # None => ui'.phase = "unsigned")
  BY UiOperators, UiFields DEF WalletOK, FlowTypes
<1>2. ui.address = None => ui' = ui
  BY DEF SessionLost
<1>3. FlowTypes' /\ RestTypes'
  BY <1>1 DEF WalletOK, FlowTypes, RestTypes, jar, flows
<1>4. WalletInv'
  BY <1>1, <1>2 DEF WalletOK, WalletInv, ReadyIsOwn, Gate, jar, flows
<1>q. QED
  BY <1>3, <1>4 DEF WalletOK

\* The network and the count of moves are no part of it.
LEMMA WalletApart ==
  ASSUME WalletOK, UNCHANGED <<ui, jar, account, known, flows>>, home' \in BOOLEAN,
         moves' \in 0 .. MaxMoves
  PROVE  WalletOK'
<1>1. FlowTypes' /\ RestTypes'
  BY DEF WalletOK, FlowTypes, RestTypes, jar, flows
<1>2. WalletInv'
  BY DEF WalletOK, WalletInv, ReadyIsOwn, Gate, jar, flows
<1>q. QED
  BY <1>1, <1>2 DEF WalletOK

\* A step without the wallet keeps it.
LEMMA WalletStays == WalletOK /\ UNCHANGED walletVars => WalletOK'
  BY WalletApart DEF walletVars, jar, flows, WalletOK, RestTypes

\* What the user and the other tabs do, within the bound on their moves.
LEMMA MoveKeeps == ASSUME WalletOK, Move PROVE WalletOK'
<1>1. moves' \in 0 .. MaxMoves
  BY BoundsAreCounts DEF Move, WalletOK, RestTypes
<1>2. CASE Connect
  BY <1>1, <1>2, ConnectKeeps
<1>3. CASE Disconnect
  BY <1>1, <1>3, DisconnectKeeps
<1>4. ASSUME NEW a \in Someone, SwitchAccount(a)
      PROVE  WalletOK'
  BY <1>1, <1>4, SwitchAccountKeeps
<1>5. ASSUME NEW a \in Someone, OtherTab(a)
      PROVE  WalletOK'
  BY <1>1, <1>5, OtherTabKeeps
<1>6. CASE ProviderDisconnect
  BY <1>1, <1>6, ProviderDisconnectKeeps
<1>7. CASE LeaveChain
  BY <1>1, <1>7, LeaveChainKeeps
<1>8. CASE SessionExpires
  BY <1>1, <1>8, SessionExpiresKeeps
<1>q. QED
  BY <1>2, <1>3, <1>4, <1>5, <1>6, <1>7, <1>8 DEF Move

\* Every step of the wallet.
LEMMA WalletKeeps == ASSUME WalletOK, WalletNext PROVE WalletOK'
<1>1. CASE WalletAnswer
  BY <1>1, RestoreAnswerKeeps, RestoreAccountsKeeps, RestoreChainKeeps, ConnectAnswerKeeps, LinkLoggedOutKeeps,
     DisconnectLoggedOutKeeps, RevokeKeeps, LogoutAnswerKeeps, SwitchEndsKeeps DEF WalletAnswer
<1>2. CASE ConnectRefused \/ SwitchNetwork
  BY <1>2, ConnectRefusedKeeps, SwitchNetworkKeeps
<1>3. ASSUME NEW a \in Address, ConnectApproved(a)
      PROVE  WalletOK'
  BY <1>3, ConnectApprovedKeeps
<1>4. ASSUME NEW i \in Attempts, SignIn(i) \/ NonceAnswer(i) \/ Signature(i) \/ Verified(i) \/ SignFails(i)
      PROVE  WalletOK'
  BY <1>4, SignInKeeps, NonceAnswerKeeps, SignatureKeeps, VerifiedKeeps, SignFailsKeeps
<1>5. CASE Move
  BY <1>5, MoveKeeps
<1>q. QED
  BY <1>1, <1>2, <1>3, <1>4, <1>5 DEF WalletNext

----------------------------------------------------------------------------
(* The dashboard: types and the inductive invariant.                       *)
FigureMap == UNION {[S -> Figure] : S \in SUBSET Node}
PaidMap == UNION {[S -> Nat] : S \in SUBSET Node}
LoadType == [mode : {"initial", "refresh"}, live : BOOLEAN, here : BOOLEAN,
             stage : {"me", "chain", "details"}, ask : Someone, got : FigureMap]
DetailType == [at : Nat \union {None}, seen : Nat \union {None}]
ModalType == [stage : {"closed", "form", "running", "confirming", "mined", "done"},
              node : Node \union {None}, balance : BOOLEAN \union {None}, paid : PaidMap]

TxType == [from : Address, node : Node \union {None}, dialog : BOOLEAN]

\* The contract paid out no more than it received.
ChainOK ==
    /\ chain \in [Node -> [received : Nat, withdrawn : Nat]]
    /\ \A n \in Node : chain[n].withdrawn <= chain[n].received

\* A load that may still put rows on the screen.
Main(l) == l.live /\ l.here /\ l.stage # "details"

\* One load at most may; what it read is no newer than the contract, and no older
\* than what the screen shows of the same node.
LoadsOK ==
    /\ loads \subseteq LoadType
    /\ \A l \in loads : IF l.here THEN Gate ELSE l.stage = "me"
    /\ \A l \in loads : l.stage = "me" => DOMAIN l.got = {}
    /\ \A l, k \in loads : Main(l) /\ Main(k) => l = k
    /\ \A l \in loads : \A n \in DOMAIN l.got : l.got[n].cumulative <= chain[n].received
    /\ \A l \in loads : l.live /\ l.stage = "chain" =>
          \A n \in DOMAIN l.got \intersect DOMAIN rows : rows[n].cumulative <= l.got[n].cumulative

\* Rows are there behind the gate only, and show nothing the contract has not
\* received; a detail was read no earlier than the figure it stands beside.
ScreenOK ==
    /\ status \in {"none", "loading", "ready", "error"}
    /\ status # "none" => Gate
    /\ rows \in FigureMap
    /\ DOMAIN rows # {} => Gate
    /\ \A n \in DOMAIN rows : rows[n].cumulative <= chain[n].received
    /\ details \in [Node -> DetailType]
    /\ \A n \in Node : details[n].at # None => details[n].seen # None /\ details[n].at <= details[n].seen

\* The dialog is open behind the gate only.
DialogOK ==
    /\ modal \in ModalType
    /\ modal.stage # "closed" => Gate
    /\ pending \subseteq TxType

IInv == WalletOK /\ ChainOK /\ LoadsOK /\ ScreenOK /\ DialogOK

\* What is in a table of figures, or of amounts, and how one is made.
LEMMA FigureMapIn ==
  ASSUME NEW f \in FigureMap
  PROVE  DOMAIN f \subseteq Node /\ \A n \in DOMAIN f : f[n] \in Figure
  BY DEF FigureMap

LEMMA FigureMapMade ==
  ASSUME NEW S \in SUBSET Node, NEW f \in [S -> Figure]
  PROVE  f \in FigureMap
  BY DEF FigureMap

LEMMA PaidMapIn ==
  ASSUME NEW f \in PaidMap
  PROVE  DOMAIN f \subseteq Node /\ \A n \in DOMAIN f : f[n] \in Nat
  BY DEF PaidMap

LEMMA PaidMapMade ==
  ASSUME NEW S \in SUBSET Node, NEW f \in [S -> Nat]
  PROVE  f \in PaidMap
  BY DEF PaidMap

\* The screen, the details and the dialog when nothing is shown.
LEMMA NothingShown ==
  /\ NoRows \in FigureMap /\ NoRows \in PaidMap /\ DOMAIN NoRows = {}
  /\ NoDetail \in DetailType /\ NoDetail.at = None
  /\ Closed \in ModalType /\ Closed.stage = "closed" /\ Closed.paid = NoRows
<1>1. NoRows \in [{} -> Figure] /\ NoRows \in [{} -> Nat] /\ DOMAIN NoRows = {}
  BY DEF NoRows
<1>2. NoRows \in FigureMap /\ NoRows \in PaidMap
  BY <1>1, FigureMapMade, PaidMapMade
<1>3. NoDetail \in DetailType /\ NoDetail.at = None
  BY DEF NoDetail, DetailType
<1>4. Closed \in ModalType /\ Closed.stage = "closed" /\ Closed.paid = NoRows
  BY <1>2 DEF Closed, ModalType
<1>q. QED
  BY <1>1, <1>2, <1>3, <1>4

\* What the contract answers about a node.
LEMMA FiguresType ==
  ASSUME ChainOK, NEW n \in Node
  PROVE  /\ Holding(n) \in Nat
         /\ Figures(n) \in Figure /\ Figures(n).cumulative = chain[n].received
  BY DEF ChainOK, Holding, Figures, Figure

\* A new load has read nothing.
LEMMA LoadFields ==
  ASSUME NEW mode \in {"initial", "refresh"}, NEW session \in Someone
  PROVE  /\ Load(mode, session) \in LoadType
         /\ Load(mode, session).here /\ Load(mode, session).stage = "me"
         /\ Load(mode, session).got = NoRows
  BY NothingShown DEF Load, LoadType

\* The loads a new one supersedes can show nothing any more.
LEMMA SupersededFields ==
  ASSUME loads \subseteq LoadType, NEW l \in Superseded
  PROVE  /\ l \in LoadType /\ ~(l.live /\ l.here)
         /\ \E k \in loads : l.here = k.here /\ l.stage = k.stage /\ l.got = k.got
<1>1. CASE \E k \in loads : k.here /\ l = [k EXCEPT !.live = FALSE]
  BY <1>1 DEF LoadType
<1>2. CASE l \in loads /\ ~l.here
  BY <1>2
<1>q. QED
  BY <1>1, <1>2 DEF Superseded

\* Of those whose screen is gone only the question for the session goes on.
LEMMA UnmountedFields ==
  ASSUME loads \subseteq LoadType, NEW l \in Unmounted
  PROVE  /\ l \in LoadType /\ ~l.here /\ l.stage = "me"
         /\ \E k \in loads : k.stage = "me" /\ l.got = k.got
<1>1. PICK k \in loads : k.live /\ k.stage = "me" /\ l = [k EXCEPT !.here = FALSE]
  BY DEF Unmounted
<1>q. QED
  BY <1>1 DEF LoadType

----------------------------------------------------------------------------
(* The loads under the steps of the others.                                *)

\* The contract's totals only grow; no figure of the screen is raised.
Grown == \A n \in Node : chain[n].received <= chain'[n].received
NoneRaised == \A n \in DOMAIN rows' : n \in DOMAIN rows /\ rows'[n].cumulative <= rows[n].cumulative

\* Loads stay right while the contract grows and the screen shows no more.
LEMMA LoadsStay ==
  ASSUME LoadsOK, ChainOK, ChainOK', ScreenOK, ScreenOK', ui' = ui,
         loads' \subseteq loads, Grown, NoneRaised
  PROVE  LoadsOK'
<1>1. ASSUME NEW l \in loads'
      PROVE  \A n \in DOMAIN l.got : l.got[n].cumulative <= chain'[n].received
  <2>1. \A n \in DOMAIN l.got : n \in Node /\ l.got[n].cumulative \in Nat
    BY FigureMapIn DEF LoadsOK, LoadType, Figure
  <2>2. \A n \in Node : chain[n].received \in Nat /\ chain'[n].received \in Nat
    BY DEF ChainOK
  <2>q. QED
    BY <2>1, <2>2 DEF LoadsOK, Grown
<1>2. ASSUME NEW l \in loads', l.live, l.stage = "chain", NEW n \in DOMAIN l.got \intersect DOMAIN rows'
      PROVE  rows'[n].cumulative <= l.got[n].cumulative
  <2>1. l.got[n].cumulative \in Nat
    BY FigureMapIn DEF LoadsOK, LoadType, Figure
  <2>2. rows'[n].cumulative \in Nat /\ n \in DOMAIN rows /\ rows[n].cumulative \in Nat
    BY FigureMapIn DEF ScreenOK, Figure, NoneRaised
  <2>q. QED
    BY <1>2, <2>1, <2>2 DEF LoadsOK, NoneRaised
<1>q. QED
  BY <1>1, <1>2 DEF LoadsOK, Gate, Main

\* A refresh supersedes all loads there are.
LEMMA RestartKeeps ==
  ASSUME LoadsOK, WalletOK, Gate, Restart, UNCHANGED <<ui, chain, rows>>
  PROVE  LoadsOK'
<1> DEFINE new == Load("refresh", cookie.session)
<1>1. new \in LoadType /\ new.here /\ new.stage = "me" /\ DOMAIN new.got = {}
  BY LoadFields, NothingShown DEF WalletOK, FlowTypes, CookieType
<1> HIDE DEF new
<1>2. loads' = Superseded \union {new}
  BY DEF Restart, new
<1>3. \A l \in Superseded : /\ l \in LoadType /\ ~(l.live /\ l.here)
                            /\ \E k \in loads : l.here = k.here /\ l.stage = k.stage /\ l.got = k.got
  BY SupersededFields DEF LoadsOK
<1>4. loads' \subseteq LoadType
  BY <1>1, <1>2, <1>3
<1>5. \A l \in loads' : IF l.here THEN Gate' ELSE l.stage = "me"
  BY <1>1, <1>2, <1>3 DEF LoadsOK, Gate
<1>6. \A l, k \in loads' : Main(l) /\ Main(k) => l = k
  BY <1>2, <1>3 DEF Main
<1>7. \A l \in loads' : \A n \in DOMAIN l.got : l.got[n].cumulative <= chain'[n].received
  BY <1>1, <1>2, <1>3 DEF LoadsOK
<1>8. \A l \in loads' : l.live => l.stage # "chain"
  BY <1>1, <1>2, <1>3 DEF LoadsOK
<1>9. \A l \in loads' : l.stage = "me" => DOMAIN l.got = {}
  BY <1>1, <1>2, <1>3 DEF LoadsOK
<1>q. QED
  BY <1>4, <1>5, <1>6, <1>7, <1>8, <1>9 DEF LoadsOK

\* The dashboard comes and goes with the gate.
LEMMA MountsKeeps ==
  ASSUME IInv, WalletOK', Mounts, UNCHANGED <<chain, pending>>
  PROVE  ChainOK' /\ LoadsOK' /\ ScreenOK' /\ DialogOK'
<1>0. WalletOK /\ ChainOK /\ LoadsOK /\ ScreenOK /\ DialogOK
  BY DEF IInv
<1>1. ChainOK'
  BY <1>0 DEF ChainOK
<1>2. CASE /\ Gate /\ ~Gate' /\ status' = "none" /\ rows' = NoRows
           /\ details' = [n \in Node |-> NoDetail] /\ loads' = Unmounted /\ modal' = Closed
  <2>1. \A l \in loads' : /\ l \in LoadType /\ ~l.here /\ l.stage = "me"
                          /\ \E k \in loads : k.stage = "me" /\ l.got = k.got
    BY <1>0, <1>2, UnmountedFields DEF LoadsOK
  <2>2. LoadsOK'
    BY <1>0, <2>1 DEF LoadsOK, Main
  <2>3. ScreenOK'
    BY <1>2, NothingShown DEF ScreenOK
  <2>4. DialogOK'
    BY <1>0, <1>2, NothingShown DEF DialogOK
  <2>q. QED
    BY <1>1, <2>2, <2>3, <2>4
<1>3. CASE /\ ~Gate /\ Gate' /\ status' = "loading" /\ UNCHANGED <<rows, details, modal>>
           /\ loads' = loads \union {Load("initial", cookie'.session)}
  <2> DEFINE new == Load("initial", cookie'.session)
  <2>1. cookie'.session \in Someone
    BY DEF WalletOK, FlowTypes, CookieType
  <2>2. new \in LoadType /\ new.here /\ new.stage = "me" /\ DOMAIN new.got = {}
    BY <2>1, LoadFields, NothingShown
  <2> HIDE DEF new
  <2>3. loads' = loads \union {new}
    BY <1>3 DEF new
  <2>4. \A l \in loads : ~l.here /\ l.stage = "me"
    BY <1>0, <1>3 DEF LoadsOK
  <2>5. LoadsOK'
    <3>1. loads' \subseteq LoadType
      BY <1>0, <2>2, <2>3 DEF LoadsOK
    <3>2. \A l \in loads' : IF l.here THEN Gate' ELSE l.stage = "me"
      BY <1>3, <2>2, <2>3, <2>4
    <3>3. \A l, k \in loads' : Main(l) /\ Main(k) => l = k
      BY <2>3, <2>4 DEF Main
    <3>4. \A l \in loads' : \A n \in DOMAIN l.got : l.got[n].cumulative <= chain'[n].received
      BY <1>0, <2>2, <2>3 DEF LoadsOK
    <3>5. \A l \in loads' : l.stage # "chain"
      BY <2>2, <2>3, <2>4
    <3>6. \A l \in loads' : l.stage = "me" => DOMAIN l.got = {}
      BY <1>0, <2>2, <2>3 DEF LoadsOK
    <3>q. QED
      BY <3>1, <3>2, <3>3, <3>4, <3>5, <3>6 DEF LoadsOK
  <2>6. ScreenOK'
    BY <1>0, <1>3 DEF ScreenOK
  <2>7. DialogOK'
    BY <1>0, <1>3 DEF DialogOK
  <2>q. QED
    BY <1>1, <2>5, <2>6, <2>7
<1>4. CASE Gate = Gate' /\ UNCHANGED <<screenVars, modal>>
  BY <1>0, <1>1, <1>4 DEF LoadsOK, ScreenOK, DialogOK, screenVars, Main
<1>q. QED
  BY <1>2, <1>3, <1>4 DEF Mounts

----------------------------------------------------------------------------
(* One lemma for each action of the dashboard.                             *)

\* A step of the wallet, with the screen it may open or close.
LEMMA WalletStepKeeps == ASSUME IInv, WalletStep PROVE IInv'
<1>1. WalletOK'
  BY WalletKeeps DEF IInv, WalletStep
<1>q. QED
  BY <1>1, MountsKeeps DEF WalletStep, IInv

\* A refresh, by the user or the timer.
LEMMA RefreshKeeps == ASSUME IInv, Refresh PROVE IInv'
<1>1. WalletOK'
  BY WalletStays DEF IInv, Refresh
<1>2. LoadsOK'
  BY RestartKeeps DEF IInv, Refresh, Polls, walletVars
<1>3. ChainOK' /\ ScreenOK' /\ DialogOK'
  BY DEF IInv, Refresh, ChainOK, ScreenOK, DialogOK, Gate, walletVars
<1>q. QED
  BY <1>1, <1>2, <1>3 DEF IInv

\* A load leaves: nothing else but the status may change.
LEMMA LoadLeaves ==
  ASSUME IInv, loads' \subseteq loads, UNCHANGED <<walletVars, chain, rows, details,
         modal, pending>>,
         status' = status \/ (status' = "error" /\ Gate)
  PROVE  IInv'
<1>0. WalletOK /\ ChainOK /\ LoadsOK /\ ScreenOK /\ DialogOK
  BY DEF IInv
<1>1. WalletOK'
  BY <1>0, WalletStays
<1>2. ChainOK' /\ ScreenOK' /\ DialogOK'
  BY <1>0 DEF ChainOK, ScreenOK, DialogOK, Gate, walletVars
<1>3. Grown /\ NoneRaised
  <2>1. \A n \in Node : chain[n].received \in Nat
    BY <1>0 DEF ChainOK
  <2>2. \A n \in DOMAIN rows : rows[n].cumulative \in Nat
    BY <1>0, FigureMapIn DEF ScreenOK, Figure
  <2>q. QED
    BY <2>1, <2>2 DEF Grown, NoneRaised
<1>4. LoadsOK'
  BY <1>0, <1>2, <1>3, LoadsStay DEF walletVars
<1>q. QED
  BY <1>1, <1>2, <1>4 DEF IInv

\* A load that fails says so, if its screen is there.
LEMMA LoadFailsKeeps == ASSUME IInv, NEW l \in loads, LoadFails(l) PROVE IInv'
<1>1. loads' \subseteq loads
  BY DEF LoadFails
<1>2. l.here => Gate
  BY DEF IInv, LoadsOK
<1>3. status' = status \/ (status' = "error" /\ Gate)
  BY <1>2 DEF LoadFails
<1>q. QED
  BY <1>1, <1>3, LoadLeaves DEF LoadFails

\* A superseded load drops what it read.
LEMMA DropRowsKeeps == ASSUME IInv, NEW l \in loads, DropRows(l) PROVE IInv'
<1>1. loads' \subseteq loads
  BY DEF DropRows
<1>2. UNCHANGED <<walletVars, chain, rows, details, modal, pending>> /\ status' = status
  BY DEF DropRows
<1>q. QED
  BY <1>1, <1>2, LoadLeaves

\* A load moves on: it becomes k, or k takes its place.
LEMMA LoadGoesOn ==
  ASSUME LoadsOK, NEW l \in loads, NEW k \in LoadType, loads' = (loads \ {l}) \union {k},
         UNCHANGED <<ui, chain>>, ScreenOK, ScreenOK',
         NoneRaised \/ (k.live /\ k.stage = "details" /\ Main(l)),
         l.here, k.here, k.stage # "me", Main(k) => Main(l),
         \A n \in DOMAIN k.got : k.got[n].cumulative <= chain[n].received,
         k.live /\ k.stage = "chain" =>
           \A n \in DOMAIN k.got \intersect DOMAIN rows' : rows'[n].cumulative <= k.got[n].cumulative
  PROVE  LoadsOK'
<1>1. loads' \subseteq LoadType
  BY DEF LoadsOK
<1>2. \A j \in loads' : IF j.here THEN Gate' ELSE j.stage = "me"
  BY DEF LoadsOK, Gate
<1>3. \A j, i \in loads' : Main(j) /\ Main(i) => j = i
  BY DEF LoadsOK
<1>4. \A j \in loads' : \A n \in DOMAIN j.got : j.got[n].cumulative <= chain'[n].received
  BY DEF LoadsOK
<1>5. ASSUME NEW j \in loads', j.live, j.stage = "chain", NEW n \in DOMAIN j.got \intersect DOMAIN rows'
      PROVE  rows'[n].cumulative <= j.got[n].cumulative
  <2>1. CASE j = k
    BY <1>5, <2>1
  <2>2. CASE j # k /\ NoneRaised
    <3>1. j \in loads /\ j.got[n].cumulative \in Nat
      BY <2>2, FigureMapIn DEF LoadsOK, LoadType, Figure
    <3>2. rows'[n].cumulative \in Nat /\ n \in DOMAIN rows /\ rows[n].cumulative \in Nat
      BY <2>2, FigureMapIn DEF ScreenOK, Figure, NoneRaised
    <3>q. QED
      BY <1>5, <2>2, <3>1, <3>2 DEF LoadsOK, NoneRaised
  <2>3. CASE j # k /\ Main(l)
    <3>1. (j \in loads /\ j # l) \/ j = k
      OBVIOUS
    <3>2. j.here
      BY <1>5, <2>3 DEF LoadsOK
    <3>q. QED
      BY <1>5, <2>3, <3>1, <3>2 DEF LoadsOK, Main
  <2>q. QED
    BY <2>1, <2>2, <2>3
<1>q. QED
  BY <1>1, <1>2, <1>3, <1>4, <1>5 DEF LoadsOK

\* A load that learns the session is gone takes the screen with it; a superseded
\* one learns it in vain.
LEMMA MeAnswersNobodyKeeps == ASSUME IInv, NEW l \in loads, MeAnswersNobody(l) PROVE IInv'
<1>0. WalletOK /\ ChainOK /\ LoadsOK /\ ScreenOK /\ DialogOK
  BY DEF IInv
<1>1. CASE l.live /\ SessionLost(ui) # ui
  <2>1. WalletOK' /\ ~Gate'
    <3>1. WalletOK'
      BY <1>0, <1>1, SessionLostKeeps DEF MeAnswersNobody
    <3>2. ui' = SessionLost(ui)
      BY <1>1 DEF MeAnswersNobody
    <3>3. ui.address # None /\ SessionLost(ui).phase = "unsigned"
      BY <1>0, <1>1, UiFields DEF WalletOK, FlowTypes, SessionLost
    <3>q. QED
      BY <3>1, <3>2, <3>3 DEF Gate
  <2>2. \A j \in loads' : /\ j \in LoadType /\ ~j.here /\ j.stage = "me"
                          /\ \E k \in loads : k.stage = "me" /\ j.got = k.got
    <3>1. CASE Gate
      <4>1. loads' \subseteq Unmounted
        BY <1>1, <3>1 DEF MeAnswersNobody
      <4>q. QED
        BY <1>0, <4>1, UnmountedFields DEF LoadsOK
    <3>2. CASE ~Gate
      <4>1. loads' \subseteq loads
        BY <1>1, <3>2 DEF MeAnswersNobody
      <4>q. QED
        BY <1>0, <3>2, <4>1 DEF LoadsOK
    <3>q. QED
      BY <3>1, <3>2
  <2>3. chain' = chain /\ pending' = pending /\ status' = "none" /\ rows' = NoRows /\ modal' = Closed
        /\ details' = [n \in Node |-> NoDetail]
    BY <1>1 DEF MeAnswersNobody
  <2>4. ChainOK' /\ LoadsOK'
    BY <1>0, <2>2, <2>3 DEF ChainOK, LoadsOK, Main
  <2>5. ScreenOK' /\ DialogOK'
    BY <1>0, <2>3, NothingShown DEF ScreenOK, DialogOK
  <2>q. QED
    BY <2>1, <2>4, <2>5 DEF IInv
<1>2. CASE ~(l.live /\ SessionLost(ui) # ui)
  <2>1. loads' \subseteq loads
    BY <1>2 DEF MeAnswersNobody
  <2>2. UNCHANGED <<walletVars, chain, rows, details, modal, pending>> /\ status' = status
    BY <1>2 DEF MeAnswersNobody, walletVars, jar, flows
  <2>q. QED
    BY <2>1, <2>2, LoadLeaves
<1>q. QED
  BY <1>1, <1>2

\* A step of a load that stays, with the rows as they are.
LEMMA RestStays ==
  ASSUME IInv, UNCHANGED <<walletVars, chain, status, rows, details, modal, pending>>
  PROVE  WalletOK' /\ ChainOK' /\ ScreenOK' /\ DialogOK' /\ NoneRaised
<1>1. WalletOK'
  BY WalletStays DEF IInv
<1>2. ChainOK' /\ ScreenOK' /\ DialogOK'
  BY DEF IInv, ChainOK, ScreenOK, DialogOK, Gate, walletVars
<1>3. \A n \in DOMAIN rows : rows[n].cumulative \in Nat
  BY FigureMapIn DEF IInv, ScreenOK, Figure
<1>4. NoneRaised
  BY <1>3 DEF NoneRaised
<1>q. QED
  BY <1>1, <1>2, <1>4

\* The session is there: the load goes on to the contract.
LEMMA MeAnswersKeeps == ASSUME IInv, NEW l \in loads, MeAnswers(l) PROVE IInv'
<1>0. LoadsOK /\ ScreenOK
  BY DEF IInv
<1>1. UNCHANGED <<walletVars, chain, status, rows, details, modal, pending>>
  BY DEF MeAnswers
<1>2. WalletOK' /\ ChainOK' /\ ScreenOK' /\ DialogOK' /\ NoneRaised
  BY <1>1, RestStays
<1>3. CASE l.live /\ l.here
  <2> DEFINE k == [l EXCEPT !.stage = "chain"]
  <2>1. k \in LoadType /\ k.here /\ k.stage # "me" /\ k.got = l.got /\ Main(l)
    BY <1>0, <1>3 DEF LoadsOK, LoadType, MeAnswers, Main
  <2>2. loads' = (loads \ {l}) \union {k}
    BY <1>3 DEF MeAnswers
  <2> HIDE DEF k
  <2>3. \A n \in DOMAIN k.got : k.got[n].cumulative <= chain[n].received
    BY <1>0, <2>1 DEF LoadsOK
  <2>4. DOMAIN l.got = {}
    BY <1>0 DEF LoadsOK, MeAnswers
  <2>q. QED
    BY <1>0, <1>1, <1>2, <1>3, <2>1, <2>2, <2>3, <2>4, LoadGoesOn DEF IInv, walletVars
<1>4. CASE ~(l.live /\ l.here)
  BY <1>1, <1>4, LoadLeaves DEF MeAnswers
<1>q. QED
  BY <1>3, <1>4

\* A node is read: the figure is the contract's of this moment, no older than the
\* row on the screen.
LEMMA ReadNodeKeeps == ASSUME IInv, NEW l \in loads, ReadNode(l) PROVE IInv'
<1>0. LoadsOK /\ ScreenOK /\ ChainOK
  BY DEF IInv
<1>1. UNCHANGED <<walletVars, chain, status, rows, details, modal, pending>>
  BY DEF ReadNode
<1>2. WalletOK' /\ ChainOK' /\ ScreenOK' /\ DialogOK' /\ NoneRaised
  BY <1>1, RestStays
<1>3. PICK n \in Owned(l.ask) \ DOMAIN l.got :
         loads' = (loads \ {l}) \union
             {[l EXCEPT !.got = [k \in DOMAIN l.got \union {n} |-> IF k = n THEN Figures(n) ELSE l.got[k]]]}
  BY DEF ReadNode
<1> DEFINE got == [k \in DOMAIN l.got \union {n} |-> IF k = n THEN Figures(n) ELSE l.got[k]]
<1> DEFINE m == [l EXCEPT !.got = got]
<1>4. n \in Node /\ Figures(n) \in Figure /\ Figures(n).cumulative = chain[n].received
  BY <1>0, FiguresType DEF Owned
<1>5. l \in LoadType /\ l.got \in FigureMap /\ l.stage = "chain" /\ l.here
  BY <1>0 DEF LoadsOK, LoadType, ReadNode
<1>6. got \in FigureMap
  <2>1. DOMAIN l.got \union {n} \in SUBSET Node
    BY <1>4, <1>5, FigureMapIn
  <2>2. got \in [DOMAIN l.got \union {n} -> Figure]
    BY <1>4, <1>5, FigureMapIn
  <2>q. QED
    BY <2>1, <2>2, FigureMapMade
<1>7. \A k \in DOMAIN got : got[k].cumulative <= chain[k].received
  BY <1>0, <1>4 DEF LoadsOK, ChainOK
<1>8. ASSUME l.live, NEW k \in DOMAIN got \intersect DOMAIN rows
      PROVE  rows[k].cumulative <= got[k].cumulative
  BY <1>0, <1>4, <1>5, <1>8 DEF LoadsOK, ScreenOK
<1> HIDE DEF got
<1>9. m \in LoadType /\ m.here /\ m.got = got /\ m.live = l.live /\ m.stage = l.stage
  BY <1>5, <1>6 DEF LoadType
<1>10. loads' = (loads \ {l}) \union {m}
  BY <1>3 DEF got
<1> HIDE DEF m
<1>11. LoadsOK'
  BY <1>0, <1>1, <1>2, <1>5, <1>7, <1>8, <1>9, <1>10, LoadGoesOn DEF Main, walletVars
<1>q. QED
  BY <1>2, <1>11 DEF IInv

\* The rows are shown: no other load is left that could show older ones.
LEMMA ShowRowsKeeps == ASSUME IInv, NEW l \in loads, ShowRows(l) PROVE IInv'
<1>0. LoadsOK /\ ScreenOK /\ ChainOK
  BY DEF IInv
<1>1. l \in LoadType /\ l.got \in FigureMap /\ l.stage = "chain" /\ l.here /\ l.live /\ Main(l)
  BY <1>0 DEF LoadsOK, LoadType, ShowRows, Read, Accepts, Main
<1>2. WalletOK' /\ ChainOK' /\ DialogOK'
  <2>1. WalletOK'
    BY WalletStays DEF IInv, ShowRows
  <2>q. QED
    BY <2>1 DEF IInv, ShowRows, ChainOK, DialogOK, Gate, walletVars
<1>3. ScreenOK'
  <2>1. Gate' /\ status' = "ready" /\ rows' = l.got
    BY <1>0, <1>1 DEF LoadsOK, ShowRows, Gate, walletVars
  <2>2. \A n \in DOMAIN rows' : rows'[n].cumulative <= chain'[n].received
    BY <1>0, <2>1 DEF LoadsOK, ShowRows
  <2>3. \A n \in Node : details'[n] = details[n] \/ details'[n] = NoDetail
    BY DEF ShowRows, Kept
  <2>4. details' = [n \in Node |-> IF n \in DOMAIN l.got THEN details[n] ELSE NoDetail]
    BY DEF ShowRows, Kept
  <2>5. details' \in [Node -> DetailType]
    BY <1>0, <2>4, NothingShown DEF ScreenOK
  <2>6. \A n \in Node : details'[n].at # None => details'[n].seen # None /\ details'[n].at <= details'[n].seen
    BY <1>0, <2>3, NothingShown DEF ScreenOK
  <2>q. QED
    BY <1>1, <2>1, <2>2, <2>5, <2>6 DEF ScreenOK
<1>4. LoadsOK'
  <2>1. CASE Stale(l) = {}
    <3>1. loads' = loads \ {l}
      BY <2>1 DEF ShowRows
    <3>2. \A k \in loads' : ~Main(k)
      BY <1>0, <1>1, <3>1 DEF LoadsOK
    <3>3. \A k \in loads' : k.live => k.stage # "chain"
      BY <1>0, <3>1, <3>2 DEF LoadsOK, Main
    <3>q. QED
      BY <1>0, <3>1, <3>2, <3>3 DEF LoadsOK, ShowRows, Gate, walletVars, Main
  <2>2. CASE Stale(l) # {}
    <3> DEFINE got == [n \in Stale(l) |-> l.got[n]]
    <3> DEFINE k == [l EXCEPT !.stage = "details", !.got = got]
    <3>1. Stale(l) \in SUBSET Node /\ Stale(l) \subseteq DOMAIN l.got
      BY <1>1, FigureMapIn DEF Stale
    <3>2. got \in [Stale(l) -> Figure]
      BY <1>1, <3>1, FigureMapIn
    <3>3. got \in FigureMap
      BY <3>1, <3>2, FigureMapMade
    <3>4. \A n \in DOMAIN got : got[n].cumulative <= chain[n].received
      BY <1>0, <3>1 DEF LoadsOK
    <3> HIDE DEF got
    <3>5. k \in LoadType /\ k.here /\ k.live /\ k.stage = "details" /\ k.got = got
      BY <1>1, <3>3 DEF LoadType
    <3>6. loads' = (loads \ {l}) \union {k}
      BY <2>2 DEF ShowRows, got
    <3> HIDE DEF k
    <3>7. ~Main(k) /\ UNCHANGED <<ui, chain>>
      BY <3>5 DEF Main, ShowRows, walletVars
    <3>q. QED
      BY <1>0, <1>1, <1>3, <3>4, <3>5, <3>6, <3>7, LoadGoesOn
  <2>q. QED
    BY <2>1, <2>2
<1>q. QED
  BY <1>2, <1>3, <1>4 DEF IInv

\* Details are read after the figures they are asked for, and noted with them.
LEMMA DetailsAnswerKeeps == ASSUME IInv, NEW l \in loads, DetailsAnswer(l) PROVE IInv'
<1>0. WalletOK /\ LoadsOK /\ ScreenOK /\ ChainOK /\ DialogOK
  BY DEF IInv
<1>1. PICK answered \in SUBSET DOMAIN l.got : details' = Detailed(l, answered)
  BY DEF DetailsAnswer
<1>2. UNCHANGED <<walletVars, chain, status, rows, modal, pending>> /\ loads' = loads \ {l}
  BY DEF DetailsAnswer
<1>3. WalletOK' /\ ChainOK' /\ DialogOK'
  BY <1>0, <1>2, WalletStays DEF ChainOK, DialogOK, Gate, walletVars
<1>4. ScreenOK'
  <2>1. \A n \in DOMAIN l.got : /\ n \in Node /\ l.got[n].cumulative \in Nat
                                /\ l.got[n].cumulative <= chain[n].received
    BY <1>0, FigureMapIn DEF LoadsOK, LoadType, Figure
  <2>2. \A n \in Node : chain[n].received \in Nat
    BY <1>0 DEF ChainOK
  <2>3. details' \in [Node -> DetailType]
    BY <1>0, <1>1, <2>1, <2>2 DEF Detailed, ScreenOK, DetailType
  <2>4. \A n \in Node : \/ details'[n] = details[n]
                        \/ /\ n \in DOMAIN l.got
                           /\ details'[n] = [at |-> l.got[n].cumulative, seen |-> chain[n].received]
    BY <1>0, <1>1 DEF Detailed, ScreenOK
  <2>5. \A n \in Node : details'[n].at # None => details'[n].seen # None /\ details'[n].at <= details'[n].seen
    <3>1. ASSUME NEW n \in Node, n \in DOMAIN l.got,
                 details'[n] = [at |-> l.got[n].cumulative, seen |-> chain[n].received]
          PROVE  details'[n].seen # None /\ details'[n].at <= details'[n].seen
      BY <2>1, <2>2, <3>1, NoneIsNoFigure
    <3>q. QED
      BY <1>0, <2>4, <3>1 DEF ScreenOK
  <2>q. QED
    BY <1>0, <1>2, <2>3, <2>5 DEF ScreenOK, Gate, walletVars
<1>5. LoadsOK'
  <2>1. Grown
    BY <1>0, <1>2 DEF Grown, ChainOK
  <2>2. NoneRaised
    BY <1>0, <1>2, FigureMapIn DEF NoneRaised, ScreenOK, Figure
  <2>q. QED
    BY <1>0, <1>2, <1>3, <1>4, <2>1, <2>2, LoadsStay DEF walletVars
<1>q. QED
  BY <1>3, <1>4, <1>5 DEF IInv

\* A row that is opened asks for its detail alone.
LEMMA ExpandKeeps == ASSUME IInv, NEW n \in Node, Expand(n) PROVE IInv'
<1>0. LoadsOK /\ ScreenOK /\ ChainOK
  BY DEF IInv
<1>1. UNCHANGED <<walletVars, chain, status, rows, details, modal, pending>>
  BY DEF Expand
<1>2. WalletOK' /\ ChainOK' /\ ScreenOK' /\ DialogOK' /\ NoneRaised
  BY <1>1, RestStays
<1> DEFINE got == [k \in {n} |-> rows[n]]
<1> DEFINE new == [Load("refresh", None) EXCEPT !.stage = "details", !.got = got]
<1>3. n \in DOMAIN rows /\ rows[n] \in Figure
  BY <1>0, FigureMapIn DEF ScreenOK, Expand
<1>4. got \in [{n} -> Figure] /\ {n} \in SUBSET Node /\ DOMAIN got = {n} /\ got[n] = rows[n]
  BY <1>3
<1>5. got \in FigureMap
  BY <1>4, FigureMapMade
<1>6. loads' = loads \union {new}
  BY DEF Expand
<1> HIDE DEF got
<1>7. new \in LoadType /\ new.here /\ new.stage = "details" /\ new.got = got
  <2> DEFINE bare == Load("refresh", None)
  <2>1. bare \in LoadType /\ bare.here
    BY LoadFields DEF Someone
  <2> HIDE DEF bare
  <2>2. new = [bare EXCEPT !.stage = "details", !.got = got]
    BY DEF bare
  <2>q. QED
    BY <1>5, <2>1, <2>2 DEF LoadType
<1> HIDE DEF new
<1>8. Gate'
  BY <1>0, <1>1 DEF ScreenOK, Expand, Gate, walletVars
<1>9. loads' \subseteq LoadType
  BY <1>0, <1>6, <1>7 DEF LoadsOK
<1>10. \A l \in loads' : IF l.here THEN Gate' ELSE l.stage = "me"
  BY <1>0, <1>6, <1>7, <1>8 DEF LoadsOK
<1>11. \A l, k \in loads' : Main(l) /\ Main(k) => l = k
  BY <1>0, <1>6, <1>7 DEF LoadsOK, Main
<1>12. \A l \in loads' : \A k \in DOMAIN l.got : l.got[k].cumulative <= chain'[k].received
  BY <1>0, <1>1, <1>3, <1>4, <1>6, <1>7 DEF LoadsOK, ScreenOK
<1>13. \A l \in loads' : l.live /\ l.stage = "chain" =>
          \A k \in DOMAIN l.got \intersect DOMAIN rows' : rows'[k].cumulative <= l.got[k].cumulative
  BY <1>0, <1>1, <1>6, <1>7 DEF LoadsOK
<1>14. \A l \in loads' : l.stage = "me" => DOMAIN l.got = {}
  BY <1>0, <1>6, <1>7 DEF LoadsOK
<1>15. LoadsOK'
  BY <1>9, <1>10, <1>11, <1>12, <1>13, <1>14 DEF LoadsOK
<1>q. QED
  BY <1>2, <1>15 DEF IInv

\* Steps of the dialog that leave the screen and the contract alone.
LEMMA DialogAlone ==
  ASSUME IInv, WalletOK', DialogOK', UNCHANGED <<ui, chain, status, rows, details, loads>>
  PROVE  IInv'
<1>1. ChainOK' /\ ScreenOK' /\ LoadsOK'
  BY DEF IInv, ChainOK, ScreenOK, LoadsOK, Gate, Main
<1>q. QED
  BY <1>1 DEF IInv

\* The dialog opens over a screen that is there.
LEMMA OpenWithdrawKeeps == ASSUME IInv, NEW n \in Node \union {None},
       OpenWithdraw(n) PROVE IInv'
<1>1. WalletOK'
  <2>1. moves' \in 0 .. MaxMoves
    BY BoundsAreCounts DEF OpenWithdraw, IInv, WalletOK, RestTypes
  <2>2. home' \in BOOLEAN
    BY DEF OpenWithdraw, IInv, WalletOK, RestTypes
  <2>q. QED
    BY <2>1, <2>2, WalletApart DEF OpenWithdraw, IInv
<1>2. DialogOK'
  BY NothingShown DEF IInv, ScreenOK, DialogOK, ModalType, OpenWithdraw, Gate
<1>q. QED
  BY <1>1, <1>2, DialogAlone DEF OpenWithdraw, screenVars

\* Its form asks for the balance and is submitted.
LEMMA FormKeeps == ASSUME IInv, ReadBalance \/ Submit \/ SendFails PROVE IInv'
<1>1. UNCHANGED <<walletVars, chain, screenVars, pending>>
  BY DEF ReadBalance, Submit, SendFails
<1>2. WalletOK'
  BY <1>1, WalletStays DEF IInv
<1>3. modal' \in ModalType /\ modal.stage # "closed"
  <2>1. CASE ReadBalance
    <3>1. (Payable(ui.address, None) # {}) \in BOOLEAN /\ (Holding(modal.node) > 0) \in BOOLEAN
      OBVIOUS
    <3>2. PICK b \in BOOLEAN : modal' = [modal EXCEPT !.balance = b]
      BY <2>1, <3>1 DEF ReadBalance
    <3>q. QED
      BY <2>1, <3>2 DEF IInv, DialogOK, ModalType, ReadBalance
  <2>2. CASE Submit \/ SendFails
    BY <2>2 DEF IInv, DialogOK, ModalType, Submit, SendFails, Again
  <2>q. QED
    BY <2>1, <2>2
<1>4. DialogOK'
  BY <1>1, <1>3 DEF IInv, DialogOK, Gate, walletVars
<1>q. QED
  BY <1>1, <1>2, <1>4, DialogAlone DEF walletVars, screenVars

\* A withdrawal is sent from the address shown.
LEMMA SendWithdrawKeeps == ASSUME IInv, SendWithdraw PROVE IInv'
<1>1. WalletOK'
  BY WalletApart DEF SendWithdraw, IInv, WalletOK, RestTypes
<1>2. Gate /\ ui.address \in Address
  BY DEF IInv, DialogOK, SendWithdraw, Gate, WalletOK, FlowTypes, UiType, Someone
<1>3. [from |-> ui.address, node |-> modal.node, dialog |-> TRUE] \in TxType
  BY <1>2 DEF IInv, DialogOK, ModalType, TxType
<1>4. modal' \in ModalType
  BY DEF IInv, DialogOK, ModalType, SendWithdraw
<1>5. DialogOK'
  BY <1>2, <1>3, <1>4 DEF IInv, DialogOK, SendWithdraw, Gate
<1>q. QED
  BY <1>1, <1>5, DialogAlone DEF SendWithdraw, screenVars

\* A withdrawal that is mined raises what was paid out, never what was received.
LEMMA MineWithdrawKeeps == ASSUME IInv, NEW tx \in pending, MineWithdraw(tx) PROVE IInv'
<1>0. WalletOK /\ ChainOK /\ LoadsOK /\ ScreenOK /\ DialogOK
  BY DEF IInv
<1> DEFINE paid == Payable(tx.from, tx.node)
<1>1. paid \in SUBSET Node
  BY DEF Payable, Targets, Owned
<1>2. UNCHANGED <<walletVars, screenVars>> /\ pending' = pending \ {tx}
  BY DEF MineWithdraw
<1>3. ChainOK' /\ \A n \in Node : chain'[n].received = chain[n].received
  <2>1. chain' = [n \in Node |->
          IF n \in paid THEN [chain[n] EXCEPT !.withdrawn = chain[n].received] ELSE chain[n]]
    BY DEF MineWithdraw
  <2> HIDE DEF paid
  <2>q. QED
    BY <1>0, <2>1 DEF ChainOK
<1>4. modal' \in ModalType /\ (modal.stage = "closed" => modal' = modal)
  <2>1. CASE ~Heard(tx)
    BY <1>0, <2>1 DEF MineWithdraw, DialogOK
  <2>2. CASE Heard(tx) /\ paid = {}
    BY <1>0, <2>2 DEF MineWithdraw, DialogOK, ModalType, Again, Heard
  <2>3. CASE Heard(tx) /\ paid # {}
    <3>1. [n \in paid |-> Holding(n)] \in PaidMap
      BY <1>0, <1>1, FiguresType, PaidMapMade
    <3>2. modal' = [modal EXCEPT !.stage = "mined", !.paid = [n \in paid |-> Holding(n)]]
      BY <2>3 DEF MineWithdraw
    <3> HIDE DEF paid
    <3>q. QED
      BY <1>0, <2>3, <3>1, <3>2 DEF DialogOK, ModalType, Heard
  <2>q. QED
    BY <2>1, <2>2, <2>3
<1> HIDE DEF paid
<1>5. WalletOK' /\ DialogOK'
  BY <1>0, <1>2, <1>4, WalletStays DEF DialogOK, Gate, walletVars
<1>6. ScreenOK'
  BY <1>0, <1>2, <1>3, FigureMapIn DEF ScreenOK, Gate, screenVars, walletVars
<1>7. LoadsOK'
  <2>1. Grown
    BY <1>0, <1>3 DEF Grown, ChainOK
  <2>2. NoneRaised
    BY <1>0, <1>2, FigureMapIn DEF NoneRaised, ScreenOK, Figure, screenVars
  <2>q. QED
    BY <1>0, <1>2, <1>3, <1>6, <2>1, <2>2, LoadsStay DEF walletVars, screenVars
<1>q. QED
  BY <1>3, <1>5, <1>6, <1>7 DEF IInv

\* The receipt moves a row's balance to what was withdrawn: its total stays.
LEMMA ReceiptKeeps == ASSUME IInv, Receipt PROVE IInv'
<1>0. WalletOK /\ ChainOK /\ LoadsOK /\ ScreenOK /\ DialogOK
  BY DEF IInv
<1>1. UNCHANGED <<walletVars, chain, status, loads, pending>>
  BY DEF Receipt
<1>2. WalletOK' /\ ChainOK'
  BY <1>0, <1>1, WalletStays DEF ChainOK
<1>3. modal' \in ModalType /\ Gate
  BY <1>0, NothingShown DEF Receipt, DialogOK, ModalType
<1>4. DialogOK'
  BY <1>0, <1>1, <1>3 DEF DialogOK, Gate, walletVars
<1>5. /\ DOMAIN rows \in SUBSET Node /\ \A n \in DOMAIN rows : rows[n] \in Figure
      /\ \A n \in DOMAIN modal.paid : modal.paid[n] \in Nat
  BY <1>0, FigureMapIn, PaidMapIn DEF ScreenOK, DialogOK, ModalType
<1>6. /\ DOMAIN rows' = DOMAIN rows /\ rows' \in [DOMAIN rows -> Figure]
      /\ \A n \in DOMAIN rows : rows'[n].cumulative = rows[n].cumulative
  <2>1. ASSUME NEW n \in DOMAIN rows, n \in DOMAIN modal.paid
        PROVE  LET row == [rows[n] EXCEPT !.balance = Less(@, modal.paid[n]),
                                          !.withdrawn = @ + modal.paid[n]]
               IN  row \in Figure /\ row.cumulative = rows[n].cumulative
    <3>1. /\ rows[n].balance \in Nat /\ rows[n].withdrawn \in Nat /\ modal.paid[n] \in Nat
          /\ rows[n] \in Figure
      BY <1>5, <2>1 DEF Figure
    <3>2. Less(rows[n].balance, modal.paid[n]) \in Nat /\ rows[n].withdrawn + modal.paid[n] \in Nat
      BY <3>1 DEF Less
    <3>3. \A b, w \in Nat : LET row == [rows[n] EXCEPT !.balance = b, !.withdrawn = w]
                           IN  row \in Figure /\ row.cumulative = rows[n].cumulative
      BY <3>1 DEF Figure
    <3>q. QED
      BY <3>2, <3>3
  <2>q. QED
    BY <1>5, <2>1 DEF Receipt
<1>7. details' \in [Node -> DetailType]
      /\ \A n \in Node : details'[n] = details[n] \/ details'[n].at = None
  BY <1>0 DEF Receipt, ScreenOK, DetailType
<1>8. ScreenOK'
  <2>1. rows' \in FigureMap
    BY <1>5, <1>6, FigureMapMade
  <2>q. QED
    BY <1>0, <1>1, <1>6, <1>7, <2>1 DEF ScreenOK, Gate, walletVars
<1>9. LoadsOK'
  <2>1. Grown
    BY <1>0, <1>1 DEF Grown, ChainOK
  <2>2. NoneRaised
    BY <1>5, <1>6 DEF NoneRaised, Figure
  <2>q. QED
    BY <1>0, <1>1, <1>2, <1>8, <2>1, <2>2, LoadsStay DEF walletVars
<1>q. QED
  BY <1>2, <1>4, <1>8, <1>9 DEF IInv

\* A receipt nobody waits for any more leaves the withdrawal to the chain.
LEMMA ReceiptTimesOutKeeps == ASSUME IInv, ReceiptTimesOut PROVE IInv'
<1>1. UNCHANGED <<walletVars, chain, screenVars>>
  BY DEF ReceiptTimesOut
<1>2. WalletOK'
  BY <1>1, WalletStays DEF IInv
<1>3. modal' \in ModalType /\ Gate
  BY NothingShown DEF IInv, DialogOK, ReceiptTimesOut, Again, ModalType
<1>4. pending' \subseteq TxType
  BY DEF IInv, DialogOK, TxType, ReceiptTimesOut
<1>5. DialogOK'
  BY <1>1, <1>3, <1>4 DEF DialogOK, Gate, walletVars
<1>q. QED
  BY <1>1, <1>2, <1>5, DialogAlone DEF walletVars, screenVars

\* A dialog that is closed asks for the rows anew.
LEMMA CloseWithdrawKeeps == ASSUME IInv, CloseWithdraw PROVE IInv'
<1>1. UNCHANGED <<walletVars, chain, status, rows, details, pending>> /\ modal' = Closed
  BY DEF CloseWithdraw
<1>2. WalletOK' /\ ChainOK' /\ ScreenOK' /\ DialogOK'
  BY <1>1, WalletStays, NothingShown DEF IInv, ChainOK, ScreenOK, DialogOK, Gate, walletVars
<1>3. LoadsOK'
  BY <1>1, RestartKeeps DEF IInv, DialogOK, CloseWithdraw, walletVars
<1>q. QED
  BY <1>2, <1>3 DEF IInv

\* A credit raises what was received, behind the screen's back.
LEMMA CreditNodeKeeps == ASSUME IInv, NEW n \in Node, CreditNode(n) PROVE IInv'
<1>0. WalletOK /\ ChainOK /\ LoadsOK /\ ScreenOK /\ DialogOK
  BY DEF IInv
<1>1. UNCHANGED <<walletVars, screenVars, modal, pending>>
  BY DEF CreditNode
<1>2. ChainOK' /\ Grown
  BY <1>0 DEF ChainOK, CreditNode, Grown
<1>3. WalletOK' /\ DialogOK'
  BY <1>0, <1>1, WalletStays DEF DialogOK, Gate, walletVars
<1>4. \A k \in DOMAIN rows : k \in Node /\ rows[k].cumulative \in Nat
  BY <1>0, FigureMapIn DEF ScreenOK, Figure
<1>5. ScreenOK'
  <2>1. \A k \in Node : chain[k].received \in Nat /\ chain'[k].received \in Nat
    BY <1>0, <1>2 DEF ChainOK
  <2>2. \A k \in DOMAIN rows : rows[k].cumulative <= chain'[k].received
    BY <1>0, <1>2, <1>4, <2>1 DEF ScreenOK, Grown
  <2>q. QED
    BY <1>0, <1>1, <2>2 DEF ScreenOK, Gate, screenVars, walletVars
<1>6. NoneRaised
  BY <1>1, <1>4 DEF NoneRaised, screenVars
<1>7. LoadsOK'
  BY <1>0, <1>1, <1>2, <1>5, <1>6, LoadsStay DEF walletVars, screenVars
<1>q. QED
  BY <1>2, <1>3, <1>5, <1>7 DEF IInv

----------------------------------------------------------------------------
(* The inductive invariant, and the theorems.                              *)

\* Nothing is loaded and nothing shown at first.
LEMMA IInvStart == Init => IInv
<1> SUFFICES ASSUME Init PROVE IInv
  OBVIOUS
<1>1. WalletOK
  BY WalletStart DEF Init
<1>2. ChainOK
  BY DEF Init, ChainOK
<1>3. LoadsOK /\ ScreenOK /\ DialogOK
  BY NothingShown DEF Init, LoadsOK, ScreenOK, DialogOK
<1>q. QED
  BY <1>1, <1>2, <1>3 DEF IInv

\* Every step keeps the invariant.
LEMMA IInvStep == IInv /\ [Next]_vars => IInv'
<1> SUFFICES ASSUME IInv, [Next]_vars PROVE IInv'
  OBVIOUS
<1>1. CASE WalletStep
  BY <1>1, WalletStepKeeps
<1>2. CASE Refresh
  BY <1>2, RefreshKeeps
<1>3. ASSUME NEW l \in loads, LoadStep(l) \/ LoadFails(l)
      PROVE  IInv'
  BY <1>3, MeAnswersNobodyKeeps, MeAnswersKeeps, ReadNodeKeeps, ShowRowsKeeps,
     DropRowsKeeps,
     DetailsAnswerKeeps, LoadFailsKeeps DEF LoadStep
<1>4. ASSUME NEW n \in Node, Expand(n) \/ CreditNode(n)
      PROVE  IInv'
  BY <1>4, ExpandKeeps, CreditNodeKeeps
<1>5. ASSUME NEW n \in Node \union {None}, OpenWithdraw(n)
      PROVE  IInv'
  BY <1>5, OpenWithdrawKeeps
<1>6. CASE ReadBalance \/ Submit \/ SendFails
  BY <1>6, FormKeeps
<1>7. CASE SendWithdraw
  BY <1>7, SendWithdrawKeeps
<1>8. CASE Receipt
  BY <1>8, ReceiptKeeps
<1>9. CASE ReceiptTimesOut
  BY <1>9, ReceiptTimesOutKeeps
<1>10. CASE CloseWithdraw
  BY <1>10, CloseWithdrawKeeps
<1>11. ASSUME NEW tx \in pending, MineWithdraw(tx)
       PROVE  IInv'
  BY <1>11, MineWithdrawKeeps
<1>12. CASE UNCHANGED vars
  <2>1. UNCHANGED <<walletVars, chain, status, rows, details, modal, pending, loads>>
    BY <1>12 DEF vars, dashVars
  <2>q. QED
    BY <2>1, LoadLeaves
<1>q. QED
  BY <1>1, <1>2, <1>3, <1>4, <1>5, <1>6, <1>7, <1>8, <1>9, <1>10, <1>11, <1>12 DEF Next

\* The invariant holds in every state.
LEMMA DashboardIInv == Spec => []IInv
<1>q. QED
  BY IInvStart, IInvStep, PTL DEF Spec

\* The types hold, of any number of loads, sign-ins and withdrawals.
THEOREM DashboardTypeOK == Spec => []TypeOK
<1>1. IInv => TypeOK
  <2> SUFFICES ASSUME IInv PROVE TypeOK
    OBVIOUS
  <2>1. WalletTypeOK
    BY WalletTypes DEF IInv, WalletOK
  <2>2. chain \in [Node -> [received : Nat, withdrawn : Nat]] /\ \A tx \in pending : tx.from \in Address
    BY DEF IInv, ChainOK, DialogOK, TxType
  <2>3. /\ status \in {"none", "loading", "ready", "error"}
        /\ DOMAIN rows \subseteq Node /\ \A n \in DOMAIN rows : rows[n] \in Figure
        /\ \A n \in Node : details[n].at \in Nat \union {None} /\ details[n].seen \in Nat \union {None}
    BY FigureMapIn DEF IInv, ScreenOK, DetailType
  <2>4. \A l \in loads :
          l.stage \in {"me", "chain", "details"} /\ l.ask \in Someone /\ DOMAIN l.got \subseteq Node
    BY FigureMapIn DEF IInv, LoadsOK, LoadType
  <2>5. modal.stage \in {"closed", "form", "running", "confirming", "mined", "done"}
    BY DEF IInv, DialogOK, ModalType
  <2>q. QED
    BY <2>1, <2>2, <2>3, <2>4, <2>5 DEF TypeOK
<1>q. QED
  BY <1>1, DashboardIInv, PTL

\* The interface says "signed in" of the address whose session the browser holds,
\* unless another tab or a late sign-in replaced it (walletMachine.ts,
\* WalletContext.tsx), however sign-ins, logouts and account changes interleave.
THEOREM DashboardReadyIsOwn == Spec => []ReadyIsOwn
<1>1. IInv => ReadyIsOwn
  BY DEF IInv, WalletOK, WalletInv
<1>q. QED
  BY <1>1, DashboardIInv, PTL

\* A detail taken for fresh was read when the contract had at least the total its
\* row shows (useDashboard.ts), however many loads overlap.
THEOREM DashboardFreshIsFresh == Spec => []FreshIsFresh
<1>1. IInv => FreshIsFresh
  <2> SUFFICES ASSUME IInv, NEW n \in DOMAIN rows, details[n].at = rows[n].cumulative
               PROVE  details[n].seen # None /\ details[n].seen >= rows[n].cumulative
    BY DEF FreshIsFresh
  <2>1. n \in Node /\ rows[n].cumulative \in Nat
    BY FigureMapIn DEF IInv, ScreenOK, Figure
  <2>2. details[n].at # None
    BY <2>1, NoneIsNoFigure
  <2>3. details[n].seen # None /\ details[n].at <= details[n].seen /\ details[n].seen \in Nat \union {None}
    BY <2>1, <2>2 DEF IInv, ScreenOK, DetailType
  <2>q. QED
    BY <2>1, <2>3
<1>q. QED
  BY <1>1, DashboardIInv, PTL

\* Between two screens no node's total becomes less.
Forward == \A n \in DOMAIN rows \intersect DOMAIN rows' : rows'[n].cumulative >= rows[n].cumulative

\* Only a load puts rows on the screen, and none is older than those there.
LEMMA RowsGoForward == ASSUME IInv, IInv', [Next]_vars PROVE Forward
<1>0. /\ \A n \in DOMAIN rows : rows[n].cumulative \in Nat
      /\ \A n \in DOMAIN rows' : rows'[n].cumulative \in Nat
  BY FigureMapIn DEF IInv, ScreenOK, Figure
<1>1. CASE rows' = rows \/ rows' = NoRows
  BY <1>0, <1>1, NothingShown DEF Forward
<1>2. CASE WalletStep
  BY <1>1, <1>2 DEF WalletStep, Mounts, screenVars
<1>3. ASSUME NEW l \in loads, LoadStep(l) \/ LoadFails(l)
      PROVE  Forward
  <2>1. CASE ShowRows(l)
    <3>1. rows' = l.got /\ l.live /\ l.stage = "chain"
      BY <2>1 DEF ShowRows, Read, Accepts
    <3>q. QED
      BY <1>0, <3>1 DEF IInv, LoadsOK, Forward
  <2>2. CASE ~ShowRows(l)
    BY <1>1, <1>3, <2>2 DEF LoadStep, MeAnswersNobody, MeAnswers, ReadNode, DropRows,
       DetailsAnswer, LoadFails
  <2>q. QED
    BY <2>1, <2>2
<1>4. CASE Receipt
  <2>1. \A n \in DOMAIN rows : rows[n] \in Figure
    BY FigureMapIn DEF IInv, ScreenOK
  <2>2. DOMAIN rows' = DOMAIN rows /\ \A n \in DOMAIN rows : rows'[n].cumulative = rows[n].cumulative
    BY <1>4, <2>1 DEF Receipt, Figure
  <2>q. QED
    BY <1>0, <2>2 DEF Forward
<1>5. CASE Refresh \/ CloseWithdraw
  BY <1>1, <1>5 DEF Refresh, CloseWithdraw
<1>6. ASSUME NEW n \in Node, Expand(n) \/ CreditNode(n)
      PROVE  Forward
  BY <1>1, <1>6 DEF Expand, CreditNode, screenVars
<1>7. ASSUME NEW n \in Node \union {None}, OpenWithdraw(n)
      PROVE  Forward
  BY <1>1, <1>7 DEF OpenWithdraw, screenVars
<1>8. CASE ReadBalance \/ Submit \/ SendFails \/ SendWithdraw \/ ReceiptTimesOut
  BY <1>1, <1>8 DEF ReadBalance, Submit, SendFails, SendWithdraw, ReceiptTimesOut,
     screenVars
<1>9. ASSUME NEW tx \in pending, MineWithdraw(tx)
      PROVE  Forward
  BY <1>1, <1>9 DEF MineWithdraw, screenVars
<1>10. CASE UNCHANGED vars
  BY <1>1, <1>10 DEF vars, dashVars
<1>q. QED
  BY <1>2, <1>3, <1>4, <1>5, <1>6, <1>7, <1>8, <1>9, <1>10 DEF Next

\* What a node has earned never goes down on the screen, whichever answers of
\* superseded loads arrive last (useDashboard.ts).
THEOREM DashboardFiguresNeverGoBack == Spec => FiguresNeverGoBack
<1>1. IInv /\ IInv' /\ [Next]_vars => [Forward]_vars
  BY RowsGoForward
<1>2. Spec => [][Forward]_vars
  BY <1>1, DashboardIInv, PTL DEF Spec
<1>q. QED
  BY <1>2 DEF FiguresNeverGoBack, Forward

\* An account's nodes are on the screen only while it is signed in, and no total is
\* shown that the contract did not receive (useDashboard.ts, applyWithdrawals).
ShownWasEarned == \A n \in DOMAIN rows : Gate /\ rows[n].cumulative <= chain[n].received

THEOREM DashboardShowsTheEarned == Spec => []ShownWasEarned
<1>1. IInv => ShownWasEarned
  BY DEF IInv, ScreenOK, ShownWasEarned
<1>q. QED
  BY <1>1, DashboardIInv, PTL

----------------------------------------------------------------------------
(* Whose nodes are on the screen.                                          *)

\* The session in the jar is nobody's or this tab's own: no other tab signed in,
\* and no signature arrived for an address that had been left.
Tidy == author \notin {"late", "otherTab"}

\* What is on screen, and what a load under way asks for, is the address's own.
OwnScreen ==
    /\ NeverDecorates
    /\ \A l \in loads : l.here => l.ask \in {None, ui.address}

\* While the dashboard stays mounted the address on it stays the same.
LEMMA SameAddress ==
  ASSUME WalletOK, WalletNext, Gate, Gate'
  PROVE  ui'.address = ui.address
<1>0. ui \in UiType /\ ui.phase = "ready" /\ ui.address # None /\ link.stage = "idle"
  BY DEF WalletOK, FlowTypes, WalletInv, LinkType, Gate
<1>1. CASE WalletAnswer
  <2>1. CASE Revoke \/ SwitchEnds \/ LogoutAnswer \/ DisconnectLoggedOut
    BY <1>0, <2>1, UiFields DEF Revoke, SwitchEnds, LogoutAnswer, DisconnectLoggedOut, OnAccounts,
       Disconnected, AccountChanged, Gate
  <2>2. ~(RestoreAnswer \/ RestoreAccounts \/ RestoreChain \/ ConnectAnswer \/ LinkLoggedOut)
    BY <1>0 DEF RestoreAnswer, RestoreAccounts, RestoreChain, ConnectAnswer, LinkLoggedOut
  <2>q. QED
    BY <1>1, <2>1, <2>2 DEF WalletAnswer
<1>2. CASE ConnectRefused \/ SwitchNetwork
  BY <1>0, <1>2, UiFields DEF ConnectRefused, SwitchNetwork
<1>3. ASSUME NEW a \in Address, ConnectApproved(a)
      PROVE  ui'.address = ui.address
  BY <1>3 DEF ConnectApproved
<1>4. ASSUME NEW i \in Attempts, SignIn(i) \/ NonceAnswer(i) \/ Signature(i) \/ Verified(i) \/ SignFails(i)
      PROVE  ui'.address = ui.address
  BY <1>0, <1>4, UiFields DEF SignIn, NonceAnswer, Signature, Verified, SignFails
<1>5. CASE Move
  <2>1. ASSUME NEW a \in Someone, SwitchAccount(a) \/ OtherTab(a)
        PROVE  ui'.address = ui.address
    BY <1>0, <2>1 DEF SwitchAccount, OtherTab, OnAccounts, Disconnected, AccountChanged, Gate
  <2>2. CASE Connect \/ Disconnect \/ ProviderDisconnect \/ LeaveChain \/ SessionExpires
    BY <1>0, <2>2, UiFields DEF Connect, Disconnect, ProviderDisconnect, LeaveChain, SessionExpires,
       Disconnected, Gate
  <2>q. QED
    BY <1>5, <2>1, <2>2 DEF Move
<1>q. QED
  BY <1>1, <1>2, <1>3, <1>4, <1>5 DEF WalletNext

\* A mounted dashboard asks with its own session, and a new one with a new.
LEMMA WalletStepOwn ==
  ASSUME IInv, IInv', OwnScreen, Tidy', WalletStep
  PROVE  OwnScreen'
<1>1. CASE /\ Gate /\ ~Gate' /\ rows' = NoRows /\ loads' = Unmounted
  <2>1. \A l \in loads' : ~l.here
    BY <1>1, UnmountedFields DEF IInv, LoadsOK
  <2>q. QED
    BY <1>1, <2>1, NothingShown DEF OwnScreen, NeverDecorates
<1>2. CASE /\ ~Gate /\ Gate' /\ rows' = rows /\ loads' = loads \union {Load("initial", cookie'.session)}
  <2>1. cookie'.session \in {None, ui'.address}
    BY <1>2 DEF IInv, WalletOK, WalletInv, ReadyIsOwn, Tidy
  <2>2. Load("initial", cookie'.session).ask = cookie'.session
    BY DEF Load
  <2>3. \A l \in loads : ~l.here
    BY <1>2 DEF IInv, LoadsOK
  <2>4. DOMAIN rows = {}
    BY <1>2 DEF IInv, ScreenOK
  <2>q. QED
    BY <1>2, <2>1, <2>2, <2>3, <2>4 DEF OwnScreen, NeverDecorates
<1>3. CASE Gate = Gate' /\ UNCHANGED <<rows, loads>>
  <2>1. CASE Gate
    BY <1>3, <2>1, SameAddress DEF IInv, WalletStep, OwnScreen, NeverDecorates
  <2>2. CASE ~Gate
    BY <1>3, <2>2 DEF IInv, LoadsOK, ScreenOK, OwnScreen, NeverDecorates
  <2>q. QED
    BY <2>1, <2>2
<1>q. QED
  BY <1>1, <1>2, <1>3 DEF WalletStep, Mounts, screenVars

\* A refresh asks with the session of its moment, which is the address's own.
LEMMA RestartOwn ==
  ASSUME IInv, OwnScreen, Tidy, Gate, Restart, UNCHANGED <<ui, rows>>
  PROVE  OwnScreen'
<1>1. cookie.session \in {None, ui.address}
  BY DEF IInv, WalletOK, WalletInv, ReadyIsOwn, Tidy
<1>2. Load("refresh", cookie.session).ask = cookie.session
  BY DEF Load
<1>3. \A l \in Superseded : \E k \in loads : l.here = k.here /\ l.ask = k.ask
  <2>1. \A k \in loads : [k EXCEPT !.live = FALSE].here = k.here /\ [k EXCEPT !.live = FALSE].ask = k.ask
    BY DEF IInv, LoadsOK, LoadType
  <2>q. QED
    BY <2>1 DEF Superseded
<1>q. QED
  BY <1>1, <1>2, <1>3 DEF OwnScreen, NeverDecorates, Restart

\* A load that goes on asks for the same account, and shows that account's nodes.
LEMMA LoadStepOwn ==
  ASSUME IInv, OwnScreen, NEW l \in loads, LoadStep(l) \/ LoadFails(l)
  PROVE  OwnScreen'
<1>0. l \in LoadType /\ loads \subseteq LoadType
  BY DEF IInv, LoadsOK
<1>1. CASE MeAnswersNobody(l)
  <2>1. CASE l.live /\ SessionLost(ui) # ui
    <3>1. rows' = NoRows /\ \A k \in loads' : k \in Unmounted \/ (~Gate /\ k \in loads)
      BY <1>1, <2>1 DEF MeAnswersNobody
    <3>2. \A k \in loads' : ~k.here
      BY <1>0, <3>1, UnmountedFields DEF IInv, LoadsOK
    <3>q. QED
      BY <3>1, <3>2, NothingShown DEF OwnScreen, NeverDecorates
  <2>2. CASE ~(l.live /\ SessionLost(ui) # ui)
    BY <1>1, <2>2 DEF MeAnswersNobody, OwnScreen, NeverDecorates
  <2>q. QED
    BY <2>1, <2>2
<1>2. CASE MeAnswers(l)
  <2> DEFINE k == [l EXCEPT !.stage = "chain"]
  <2>1. UNCHANGED <<ui, rows>> /\ loads' \subseteq loads \union {k}
    BY <1>2 DEF MeAnswers, walletVars
  <2>2. k.here = l.here /\ k.ask = l.ask
    BY <1>0 DEF LoadType
  <2> HIDE DEF k
  <2>q. QED
    BY <2>1, <2>2 DEF OwnScreen, NeverDecorates
<1>3. CASE ReadNode(l)
  <2>1. UNCHANGED <<ui, rows>>
    BY <1>3 DEF ReadNode, walletVars
  <2>2. PICK got : loads' = (loads \ {l}) \union {[l EXCEPT !.got = got]}
    BY <1>3 DEF ReadNode
  <2>3. [l EXCEPT !.got = got].here = l.here /\ [l EXCEPT !.got = got].ask = l.ask
    BY <1>0 DEF LoadType
  <2>q. QED
    BY <2>1, <2>2, <2>3 DEF OwnScreen, NeverDecorates
<1>4. CASE ShowRows(l)
  <2>1. ui' = ui /\ rows' = l.got
    BY <1>4 DEF ShowRows, walletVars
  <2>2. DOMAIN l.got = Owned(l.ask) /\ l.stage = "chain" /\ l.here
    BY <1>4 DEF ShowRows, Read, IInv, LoadsOK
  <2>3. \A n \in DOMAIN rows' : Holder[n] = l.ask /\ Holder[n] # None
    BY <2>1, <2>2, HolderType, NoneIsNoAddress DEF Owned
  <2>4. PICK got : loads' \subseteq loads \union {[l EXCEPT !.stage = "details", !.got = got]}
    BY <1>4 DEF ShowRows
  <2>5. /\ [l EXCEPT !.stage = "details", !.got = got].here = l.here
        /\ [l EXCEPT !.stage = "details", !.got = got].ask = l.ask
    BY <1>0 DEF LoadType
  <2>q. QED
    BY <2>1, <2>2, <2>3, <2>4, <2>5 DEF OwnScreen, NeverDecorates
<1>5. CASE DropRows(l) \/ DetailsAnswer(l) \/ LoadFails(l)
  BY <1>5 DEF DropRows, DetailsAnswer, LoadFails, walletVars, OwnScreen, NeverDecorates
<1>q. QED
  BY <1>1, <1>2, <1>3, <1>4, <1>5 DEF LoadStep

\* Every step of a tidy tab leaves its own nodes on the screen.
LEMMA OwnScreenStep ==
  ASSUME IInv, IInv', OwnScreen, Tidy, Tidy', [Next]_vars
  PROVE  OwnScreen'
<1>1. CASE ui' = ui /\ rows' = rows /\ loads' \subseteq loads
  BY <1>1 DEF OwnScreen, NeverDecorates
<1>2. CASE WalletStep
  BY <1>2, WalletStepOwn
<1>3. ASSUME NEW l \in loads, LoadStep(l) \/ LoadFails(l)
      PROVE  OwnScreen'
  BY <1>3, LoadStepOwn
<1>4. CASE Refresh
  BY <1>4, RestartOwn DEF Refresh, Polls, walletVars
<1>5. CASE CloseWithdraw
  <2>1. Gate
    BY <1>5 DEF CloseWithdraw, IInv, DialogOK
  <2>q. QED
    BY <1>5, <2>1, RestartOwn DEF CloseWithdraw, walletVars
<1>6. CASE Receipt
  <2>1. ui' = ui /\ loads' = loads /\ DOMAIN rows' = DOMAIN rows
    BY <1>6 DEF Receipt, walletVars
  <2>q. QED
    BY <2>1 DEF OwnScreen, NeverDecorates
<1>7. ASSUME NEW n \in Node, Expand(n)
      PROVE  OwnScreen'
  <2>1. UNCHANGED <<ui, rows>> /\ \A l \in loads' : l \in loads \/ l.ask = None
    BY <1>7 DEF Expand, Load, walletVars
  <2>q. QED
    BY <2>1 DEF OwnScreen, NeverDecorates
<1>8. ASSUME NEW n \in Node, CreditNode(n)
      PROVE  OwnScreen'
  BY <1>1, <1>8 DEF CreditNode, screenVars, walletVars
<1>9. ASSUME NEW n \in Node \union {None}, OpenWithdraw(n)
      PROVE  OwnScreen'
  BY <1>1, <1>9 DEF OpenWithdraw, screenVars
<1>10. CASE ReadBalance \/ Submit \/ SendFails \/ SendWithdraw \/ ReceiptTimesOut
  BY <1>1, <1>10 DEF ReadBalance, Submit, SendFails, SendWithdraw, ReceiptTimesOut,
     screenVars, walletVars
<1>11. ASSUME NEW tx \in pending, MineWithdraw(tx)
       PROVE  OwnScreen'
  BY <1>1, <1>11 DEF MineWithdraw, screenVars, walletVars
<1>12. CASE UNCHANGED vars
  BY <1>1, <1>12 DEF vars, dashVars, walletVars
<1>q. QED
  BY <1>2, <1>3, <1>4, <1>5, <1>6, <1>7, <1>8, <1>9, <1>10, <1>11, <1>12 DEF Next

\* "A cookie issued for one address must never decorate another address's
\* dashboard" (walletMachine.ts:13) is true of a tab in whose browser no other tab
\* signs in and no signature arrives for an address already left, however its own
\* sign-ins, logouts, expiries, account changes and loads interleave.
THEOREM DashboardNeverDecorates == Spec /\ []Tidy => []NeverDecorates
<1>1. Init => OwnScreen
  BY NothingShown DEF Init, OwnScreen, NeverDecorates
<1>2. IInv /\ IInv' /\ OwnScreen /\ Tidy /\ Tidy' /\ [Next]_vars => OwnScreen'
  BY OwnScreenStep
<1>3. OwnScreen => NeverDecorates
  BY DEF OwnScreen
<1>q. QED
  BY <1>1, <1>2, <1>3, DashboardIInv, PTL DEF Spec
=============================================================================
