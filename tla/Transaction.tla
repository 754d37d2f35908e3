---------------------------- MODULE Transaction ----------------------------
(***************************************************************************)
(* How every screen writes: the wallet a page knows                        *)
(* (frontend/src/context/WalletContext.tsx), one useTransaction hook       *)
(* (frontend/src/hooks/useTransaction.ts) and the translation of what was  *)
(* thrown (frontend/src/lib/errors.ts).                                    *)
(*                                                                         *)
(* Freighter is external: its user may change account and network at any   *)
(* moment, also while the page waits for it.  A request to it is in `asks` *)
(* from the call to the end of the function that made it; `send` is in     *)
(* `sends` in the same way, with the wallet it closed over.                *)
(***************************************************************************)
EXTENDS Naturals, FiniteSets

CONSTANTS
  Accounts,       \* accounts Freighter may be switched to
  NoAccount,      \* null
  MaxAsks,        \* bound on the requests to Freighter in flight
  MaxSends        \* bound on the calls of `send`

VARIABLES
  freighter,   \* [account, network, installed, allowed]
  wallet,      \* [status, address, wrongNetwork]
  asks,        \* requests to Freighter in flight: [ask, at, address]
  tx,          \* the hook: phase, error, inFlight, slow
  sends,       \* calls of `send` in flight: [n, by, at, signer]
  landed,      \* what the ledger applied: [n, source, signer]
  sent         \* how many calls of `send` got past the guard

txVars == <<freighter, wallet, asks, tx, sends, landed, sent>>

Networks == {"testnet", "another"}
Expected == freighter.network = "testnet"

------------------------------------------------------------------------------
(* The wallet context *)

Ask(kind, at, address) == [ask |-> kind, at |-> at, address |-> address]
Asking(kind) == \E a \in asks : a.ask = kind

\* readNetwork: leaves its verdict in networkError.
NetworkRead == wallet' = [wallet EXCEPT !.wrongNetwork = ~Expected]

\* Restoring, the first half: is Freighter there, is this page allowed, which
\* account.  The effect starts when the page loads.
RestoreAddress(a) ==
  /\ a \in asks /\ a.ask = "restore" /\ a.at = "address"
  /\ IF freighter.installed /\ freighter.allowed
     THEN /\ asks' = (asks \ {a}) \cup {Ask("restore", "network", freighter.account)}
          /\ UNCHANGED wallet
     ELSE /\ asks' = asks \ {a}
          /\ wallet' = [wallet EXCEPT !.status =
               IF freighter.installed THEN "disconnected" ELSE "unavailable"]
  /\ UNCHANGED <<freighter, tx, sends, landed, sent>>

\* The second half writes what the first half found, whatever happened since.
RestoreNetwork(a) ==
  /\ a \in asks /\ a.ask = "restore" /\ a.at = "network"
  /\ asks' = asks \ {a}
  /\ \/ wallet' = [wallet EXCEPT !.wrongNetwork = ~Expected, !.address = a.address,
                     !.status = IF a.address = NoAccount THEN "disconnected"
                                ELSE IF Expected THEN "connected" ELSE "wrong-network"]
     \/ wallet' = [wallet EXCEPT !.status = "unavailable"]      \* getNetwork failed
  /\ UNCHANGED <<freighter, tx, sends, landed, sent>>

\* "Freighter" in the sign-in sheet, which offers it unless it is unavailable.
Connect ==
  /\ wallet.status # "unavailable" /\ wallet.address = NoAccount
  /\ ~Asking("connect") /\ Cardinality(asks) < MaxAsks
  /\ asks' = asks \cup {Ask("connect", "address", NoAccount)}
  /\ UNCHANGED <<freighter, wallet, tx, sends, landed, sent>>

\* Its user grants access, or refuses: the sheet shows that and nothing changes.
ConnectGranted(a) ==
  /\ a \in asks /\ a.ask = "connect" /\ a.at = "address"
  /\ \/ /\ freighter.account # NoAccount
        /\ asks' = (asks \ {a}) \cup {Ask("connect", "network", freighter.account)}
        /\ freighter' = [freighter EXCEPT !.allowed = TRUE]
     \/ asks' = asks \ {a} /\ UNCHANGED freighter
  /\ UNCHANGED <<wallet, tx, sends, landed, sent>>

ConnectNetwork(a) ==
  /\ a \in asks /\ a.ask = "connect" /\ a.at = "network"
  /\ asks' = asks \ {a}
  /\ wallet' = [address |-> a.address, wrongNetwork |-> ~Expected,
                status |-> IF Expected THEN "connected" ELSE "wrong-network"]
  /\ UNCHANGED <<freighter, tx, sends, landed, sent>>

\* "Disconnect" forgets the account; Freighter is not told.
Disconnect ==
  /\ wallet.address # NoAccount
  /\ wallet' = [wallet EXCEPT !.address = NoAccount, !.status = "disconnected"]
  /\ UNCHANGED <<freighter, asks, tx, sends, landed, sent>>

\* "Check again" in the banner of a wrong network closes over the address.
Recheck ==
  /\ wallet.status = "wrong-network"
  /\ ~Asking("recheck") /\ Cardinality(asks) < MaxAsks
  /\ asks' = asks \cup {Ask("recheck", "network", wallet.address)}
  /\ UNCHANGED <<freighter, wallet, tx, sends, landed, sent>>

Rechecked(a) ==
  /\ a \in asks /\ a.ask = "recheck"
  /\ asks' = asks \ {a}
  /\ wallet' = [wallet EXCEPT !.wrongNetwork = ~Expected, !.status =
       IF @ = "wrong-network" /\ Expected
       THEN IF a.address # NoAccount THEN "connected" ELSE "disconnected"
       ELSE IF ~Expected /\ a.address # NoAccount THEN "wrong-network" ELSE @]
  /\ UNCHANGED <<freighter, tx, sends, landed, sent>>

\* What its user does in Freighter itself.
FreighterChanges ==
  /\ \E account \in Accounts \cup {NoAccount}, network \in Networks :
       freighter' = [freighter EXCEPT !.account = account, !.network = network]
  /\ UNCHANGED <<wallet, asks, tx, sends, landed, sent>>

------------------------------------------------------------------------------
(* What was thrown, explained *)

\* Contract errors of the programme that are ordinary answers, not failures.
OrdinaryAnswers == {8, 19, 20, 27, 29, 32, 42}
BlockedCodes == {2, 12, 14, 16, 23, 25, 28, 34, 35, 38, 39}
InvalidCodes == {3, 4, 5, 6, 7, 11, 18, 33, 36, 40, 41, 43}
DeniedCodes == {1, 17, 21, 30}
ConflictCodes == {9, 10, 13, 22, 24, 26, 31, 37}

KindOfCode(code) ==
  CASE code \in OrdinaryAnswers -> "none"
    [] code \in BlockedCodes -> "blocked"
    [] code \in InvalidCodes -> "invalid"
    [] code \in DeniedCodes -> "denied"
    [] code \in ConflictCodes -> "conflict"
    [] OTHER -> "fault"

ErrorKinds == {"no error", "none", "blocked", "invalid", "denied", "conflict", "fault"}
NoError == [kind |-> "no error", code |-> 0]
Explained(kind, code) == [kind |-> kind, code |-> code]

\* A thrown value is a contract error code, or one of these.  The refusal of
\* `sign` on another network tells its reader to "switch network", which the
\* test for an unreachable network matches first.
Causes == {"declined", "archived", "unreachable", "wrong network", "unknown"}
Explain(cause) ==
  CASE cause = "declined" -> Explained("none", 0)
    [] cause = "archived" -> Explained("blocked", 0)
    [] cause \in {"unreachable", "wrong network", "unknown"} -> Explained("fault", 0)
ExplainCode(code) == Explained(KindOfCode(code), code)

\* A panel says "Nothing was transferred" of a contract error, and "Nothing was
\* submitted" of a declined signature.
ClaimsNothingHappened(error) == error.code # 0 \/ error.kind = "none"

------------------------------------------------------------------------------
(* useTransaction *)

InProgress(hook) == hook.phase \in {"building", "signing", "submitting"}

MutFree == ~InProgress(tx)

\* The guard against a double click is a ref, which `reset` leaves alone.
Free == ~tx.inFlight

Refused == wallet.address = NoAccount \/ wallet.status = "wrong-network"

MutStarted == [tx EXCEPT !.phase = "building", !.inFlight = TRUE]

Started == [tx EXCEPT !.phase = "building", !.inFlight = TRUE, !.error = NoError]

\* The click on a button that sends.  Refused without a wallet, or on a network
\* the page knows to be the wrong one.
Send ==
  /\ Free
  /\ \/ /\ Refused
        /\ tx' = [tx EXCEPT !.phase = "error", !.error = Explained("blocked", 0)]
        /\ UNCHANGED <<sends, sent>>
     \/ /\ ~Refused /\ sent < MaxSends
        /\ sent' = sent + 1
        /\ sends' = sends \cup {[n |-> sent + 1, by |-> wallet.address,
                                 at |-> "building", signer |-> NoAccount]}
        /\ tx' = Started
  /\ UNCHANGED <<freighter, wallet, asks, landed>>

\* The catch and the finally of `send`.
EndWith(s, error) ==
  /\ sends' = sends \ {s}
  /\ tx' = [tx EXCEPT !.error = error, !.inFlight = FALSE,
                      !.phase = IF error.kind = "none" THEN "idle" ELSE "error"]

\* Building simulates: a contract refuses here, before anything is signed.
Build(s) ==
  /\ s \in sends /\ s.at = "building"
  /\ \/ /\ sends' = (sends \ {s}) \cup {[s EXCEPT !.at = "signing"]}
        /\ tx' = [tx EXCEPT !.phase = "signing"]
     \/ \E code \in {1, 2, 20} : EndWith(s, ExplainCode(code))
     \/ \E cause \in {"archived", "unreachable", "unknown"} : EndWith(s, Explain(cause))
  /\ UNCHANGED <<freighter, wallet, asks, landed, sent>>

MutSigner(s) == wallet.address

\* The function `send` closed over signs for the address it closed over.
Signer(s) == s.by

\* wallet.signTransaction: asks for the network again, then for a signature by
\* that address, which Freighter gives for that address or not at all.
Sign(s) ==
  /\ s \in sends /\ s.at = "signing"
  /\ \/ /\ ~Expected /\ EndWith(s, Explain("wrong network"))
     \/ /\ Expected
        /\ sends' = (sends \ {s}) \cup {[s EXCEPT !.at = "confirming", !.signer = Signer(s)]}
        /\ UNCHANGED tx
     \/ \E cause \in {"declined", "unreachable", "unknown"} : EndWith(s, Explain(cause))
  /\ UNCHANGED <<freighter, wallet, asks, landed, sent>>

\* It is submitted and applied; the answer says so.  The phase is "submitting"
\* only between two statements.
Confirm(s) ==
  /\ s \in sends /\ s.at = "confirming"
  /\ landed' = landed \cup {[n |-> s.n, source |-> s.by, signer |-> s.signer]}
  /\ sends' = sends \ {s}
  /\ tx' = [tx EXCEPT !.phase = "success", !.inFlight = FALSE]
  /\ UNCHANGED <<freighter, wallet, asks, sent>>

\* The contract refused after all, or no answer came back: then it may have been
\* applied or not.
NotConfirmed(s) ==
  /\ s \in sends /\ s.at = "confirming"
  /\ \/ \E code \in {1, 2, 20} : EndWith(s, ExplainCode(code)) /\ UNCHANGED landed
     \/ /\ EndWith(s, Explain("unreachable"))
        /\ \/ UNCHANGED landed
           \/ landed' = landed \cup {[n |-> s.n, source |-> s.by, signer |-> s.signer]}
  /\ UNCHANGED <<freighter, wallet, asks, sent>>

\* A screen resets when it opens another form, also while it is in flight.
Reset ==
  /\ tx.phase # "idle"
  /\ tx' = [tx EXCEPT !.phase = "idle", !.error = NoError, !.slow = FALSE]
  /\ UNCHANGED <<freighter, wallet, asks, sends, landed, sent>>

\* Ten seconds in one phase.  Nothing but a reset clears it.
TurnSlow ==
  /\ tx.inFlight /\ ~tx.slow
  /\ tx' = [tx EXCEPT !.slow = TRUE]
  /\ UNCHANGED <<freighter, wallet, asks, sends, landed, sent>>

\* What TransactionOutcome shows: an error before anything else.
Outcome ==
  IF tx.error # NoError THEN "error"
  ELSE IF InProgress(tx) THEN IF tx.slow THEN "do not send again" ELSE "waiting"
  ELSE IF tx.phase = "success" THEN "success" ELSE "nothing"

TransactionInit ==
  /\ freighter \in {[account |-> NoAccount, network |-> "testnet", installed |-> i, allowed |-> a] :
                      i, a \in BOOLEAN}
  /\ wallet = [status |-> "checking", address |-> NoAccount, wrongNetwork |-> FALSE]
  /\ asks = {Ask("restore", "address", NoAccount)}
  /\ tx = [phase |-> "idle", error |-> NoError, inFlight |-> FALSE, slow |-> FALSE]
  /\ sends = {} /\ landed = {} /\ sent = 0

WalletNext ==
  \/ Connect \/ Disconnect \/ Recheck \/ FreighterChanges
  \/ \E a \in asks : \/ RestoreAddress(a) \/ RestoreNetwork(a)
                     \/ ConnectGranted(a) \/ ConnectNetwork(a) \/ Rechecked(a)

SendNext ==
  \/ Send \/ Reset \/ TurnSlow
  \/ \E s \in sends : Build(s) \/ Sign(s) \/ Confirm(s) \/ NotConfirmed(s)

TransactionNext == WalletNext \/ SendNext

TransactionSpec == TransactionInit /\ [][TransactionNext]_txVars

------------------------------------------------------------------------------
(* Properties *)

Account == Accounts \cup {NoAccount}
WalletType == [status : {"checking", "unavailable", "disconnected", "connected", "wrong-network"},
               address : Account, wrongNetwork : BOOLEAN]
HookType == [phase : {"idle", "building", "signing", "submitting", "success", "error"},
             error : [kind : ErrorKinds, code : Nat], inFlight : BOOLEAN, slow : BOOLEAN]
CallType == [n : Nat, by : Accounts, at : {"building", "signing", "confirming"},
             signer : Account]
AppliedType == [n : Nat, source : Accounts, signer : Account]

\* What the variables hold.
TransactionTypeOK ==
  /\ freighter \in [account : Account, network : Networks, installed : BOOLEAN, allowed : BOOLEAN]
  /\ wallet \in WalletType
  /\ asks \subseteq [ask : {"restore", "connect", "recheck"}, at : {"address", "network"},
                     address : Account]
  /\ tx \in HookType
  /\ sends \subseteq CallType
  /\ landed \subseteq AppliedType
  /\ sent \in Nat

\* At most one transaction of a hook is under way, however often a button is
\* clicked and whatever is reset meanwhile ("a duplicated contribution is real
\* money", useTransaction.ts:67).
NoDoubleSubmit == Cardinality(sends) <= 1

\* What the ledger applied was signed by the account it was built for, although
\* the page's account and Freighter's may change between the two.
SignerIsSource == \A applied \in landed : applied.signer = applied.source

\* When the page says that nothing was transferred or submitted, the last
\* transaction was not applied (AsyncStates.tsx:156), whatever its answer was.
NothingTransferredIsTrue ==
  Outcome = "error" /\ ClaimsNothingHappened(tx.error) /\ sends = {} =>
    \A applied \in landed : applied.n < sent
============================================================================
