------------------------- MODULE TransactionProofs -------------------------
(***************************************************************************)
(* What Transaction promises for every set of accounts and every bound.    *)
(*                                                                         *)
(* One inductive invariant carries the three properties.  It ties the ref  *)
(* `inFlight` to the call that is in flight, of which there is one or      *)
(* none: `reset` changes the phase a button looks at, but not the ref.     *)
(* From it follows, besides the properties, that Transaction implements    *)
(* HookPromise, the specification that the screens rely on.                *)
(***************************************************************************)
EXTENDS Transaction, AdminScreen, TLAPS, FiniteSetTheorems, SequenceTheorems

\* While the ref is set there is one call in flight, the last that got past the
\* guard; else there is none.
OneInFlight ==
  IF tx.inFlight THEN \E s \in sends : sends = {s} /\ s.n = sent ELSE sends = {}

\* A signature is by the account the call was built for.
SignedByCaller ==
  /\ \A s \in sends : s.at = "confirming" => s.signer = s.by
  /\ \A applied \in landed : applied.signer = applied.source

\* What was applied is an earlier call than the one in flight; and an error that
\* says nothing happened is of the last call, which was not applied.
AppliedBefore ==
  /\ \A applied \in landed : applied.n <= sent
  /\ tx.inFlight => tx.error = NoError
  /\ tx.inFlight \/ ClaimsNothingHappened(tx.error) =>
       \A applied \in landed : applied.n < sent

TransactionInv == TransactionTypeOK /\ OneInFlight /\ SignedByCaller /\ AppliedBefore

------------------------------------------------------------------------------

LEMMA TransactionInvInit == ASSUME TransactionInit PROVE TransactionInv
<1>1. TransactionTypeOK
  <2>1. freighter \in [account : Account, network : Networks,
                       installed : BOOLEAN, allowed : BOOLEAN]
    BY DEF TransactionInit, Networks, Account
  <2>2. tx \in HookType BY DEF TransactionInit, NoError, ErrorKinds, HookType
  <2>3. wallet \in WalletType BY DEF TransactionInit, WalletType, Account
  <2> QED BY <2>1, <2>2, <2>3 DEF TransactionInit, TransactionTypeOK, Ask, Account
<1>2. OneInFlight BY DEF TransactionInit, OneInFlight
<1>3. SignedByCaller BY DEF TransactionInit, SignedByCaller
<1>4. AppliedBefore
  <2>1. ~tx.inFlight /\ landed = {} BY DEF TransactionInit
  <2> QED BY <2>1 DEF AppliedBefore
<1> QED BY <1>1, <1>2, <1>3, <1>4 DEF TransactionInv

\* The wallet's steps leave the hook and its calls alone.
LEMMA WalletKeepsInv ==
  ASSUME TransactionInv, WalletNext PROVE TransactionInv'
<1>1. UNCHANGED <<tx, sends, landed, sent>>
  BY DEF WalletNext, Connect, Disconnect, Recheck, FreighterChanges, RestoreAddress,
         RestoreNetwork, ConnectGranted, ConnectNetwork, Rechecked
<1>2. OneInFlight' /\ SignedByCaller' /\ AppliedBefore'
  BY <1>1 DEF TransactionInv, OneInFlight, SignedByCaller, AppliedBefore
<1>3. TransactionTypeOK'
  <2> USE DEF TransactionInv, TransactionTypeOK, Ask, Asking, Expected, Account, WalletType
  <2>1. CASE Connect BY <2>1 DEF Connect
  <2>2. CASE Disconnect BY <2>2 DEF Disconnect
  <2>3. CASE Recheck BY <2>3 DEF Recheck
  <2>4. CASE FreighterChanges BY <2>4 DEF FreighterChanges
  <2>5. ASSUME NEW r \in asks, RestoreAddress(r) PROVE TransactionTypeOK'
    BY <2>5 DEF RestoreAddress
  <2>6. ASSUME NEW r \in asks, RestoreNetwork(r) PROVE TransactionTypeOK'
    <3>1. wallet' \in WalletType
      <4>1. CASE wallet' = [wallet EXCEPT !.status = "unavailable"] BY <4>1
      <4> DEFINE status == IF r.address = NoAccount THEN "disconnected"
                           ELSE IF Expected THEN "connected" ELSE "wrong-network"
      <4>2. CASE wallet' = [wallet EXCEPT !.wrongNetwork = ~Expected, !.address = r.address,
                                          !.status = status]
        <5>1. status \in {"disconnected", "connected", "wrong-network"} OBVIOUS
        <5>2. r.address \in Account /\ Expected \in BOOLEAN BY <2>6
        <5> HIDE DEF status
        <5> QED BY <4>2, <5>1, <5>2
      <4> QED BY <2>6, <4>1, <4>2 DEF RestoreNetwork
    <3>2. asks' \subseteq asks /\ UNCHANGED <<freighter, tx, sends, landed, sent>>
      BY <2>6 DEF RestoreNetwork
    <3> HIDE DEF WalletType, Account
    <3> QED BY <3>1, <3>2
  <2>7. ASSUME NEW r \in asks, ConnectGranted(r) PROVE TransactionTypeOK'
    <3>1. freighter' \in [account : Account, network : Networks,
                          installed : BOOLEAN, allowed : BOOLEAN]
      BY <2>7 DEF ConnectGranted
    <3>2. asks' \subseteq [ask : {"restore", "connect", "recheck"}, at : {"address", "network"},
                          address : Account]
      BY <2>7 DEF ConnectGranted
    <3> QED BY <2>7, <3>1, <3>2 DEF ConnectGranted
  <2>8. ASSUME NEW r \in asks, ConnectNetwork(r) PROVE TransactionTypeOK'
    BY <2>8 DEF ConnectNetwork
  <2>9. ASSUME NEW r \in asks, Rechecked(r) PROVE TransactionTypeOK'
    BY <2>9 DEF Rechecked
  <2> QED BY <2>1, <2>2, <2>3, <2>4, <2>5, <2>6, <2>7, <2>8, <2>9 DEF WalletNext
<1> QED BY <1>2, <1>3 DEF TransactionInv

\* A call that ends with an error was not applied, or its error says so.
LEMMA EndKeepsInv ==
  ASSUME TransactionInv, NEW s \in sends, NEW error \in [kind : ErrorKinds, code : Nat],
         EndWith(s, error), UNCHANGED <<freighter, wallet, asks, sent>>,
         \/ UNCHANGED landed
         \/ /\ s.at = "confirming" /\ ~ClaimsNothingHappened(error)
            /\ landed' = landed \cup {[n |-> s.n, source |-> s.by, signer |-> s.signer]}
  PROVE  TransactionInv'
<1>1. tx.inFlight /\ sends = {s} /\ s.n = sent
  BY DEF TransactionInv, OneInFlight
<1>2. sends' = {} /\ ~tx'.inFlight /\ tx'.error = error /\ tx' \in HookType
  BY <1>1 DEF EndWith, TransactionInv, TransactionTypeOK, HookType
<1>3. s \in CallType
  BY DEF TransactionInv, TransactionTypeOK
<1>4. TransactionTypeOK'
  BY <1>2, <1>3 DEF TransactionInv, TransactionTypeOK, CallType, AppliedType
<1>5. OneInFlight' BY <1>2 DEF OneInFlight
<1>6. SignedByCaller' BY <1>2, <1>3 DEF TransactionInv, SignedByCaller
<1>7. AppliedBefore'
  BY <1>1, <1>2, <1>3 DEF TransactionInv, AppliedBefore, TransactionTypeOK, CallType, AppliedType
<1> QED BY <1>4, <1>5, <1>6, <1>7 DEF TransactionInv

\* Every error that is explained has a kind.
LEMMA CodesAreExplained == ASSUME NEW code \in Nat PROVE ExplainCode(code) \in [kind : ErrorKinds, code : Nat]
  BY DEF ExplainCode, Explained, KindOfCode, ErrorKinds

LEMMA CausesAreExplained ==
  ASSUME NEW cause \in Causes
  PROVE  Explain(cause) \in [kind : ErrorKinds, code : Nat]
  BY DEF Causes, Explain, Explained, ErrorKinds

LEMMA NoErrorClaimsNothing == ~ClaimsNothingHappened(NoError)
  BY DEF NoError, ClaimsNothingHappened

\* A step that changes the hook's phase alone, or makes it slow.
LEMMA HookKeepsInv ==
  ASSUME TransactionInv, tx' \in HookType, tx'.inFlight = tx.inFlight,
         tx'.error = tx.error \/ ~ClaimsNothingHappened(tx'.error),
         tx.inFlight => tx'.error = NoError,
         UNCHANGED <<freighter, wallet, asks, sends, landed, sent>>
  PROVE  TransactionInv'
<1>1. TransactionTypeOK' BY DEF TransactionInv, TransactionTypeOK
<1>2. OneInFlight' /\ SignedByCaller' BY DEF TransactionInv, OneInFlight, SignedByCaller
<1>3. AppliedBefore' BY DEF TransactionInv, AppliedBefore
<1> QED BY <1>1, <1>2, <1>3 DEF TransactionInv

LEMMA SendKeepsInv ==
  ASSUME TransactionInv, SendNext PROVE TransactionInv'
<1>0. tx \in HookType /\ sends \subseteq CallType /\ sent \in Nat /\ landed \subseteq AppliedType
  BY DEF TransactionInv, TransactionTypeOK
<1>1. CASE Send
  <2>1. ~tx.inFlight /\ sends = {} BY <1>1 DEF Send, Free, TransactionInv, OneInFlight
  <2>2. CASE Refused /\ UNCHANGED <<sends, sent>> /\
             tx' = [tx EXCEPT !.phase = "error", !.error = Explained("blocked", 0)]
    <3>1. tx' \in HookType /\ tx'.error = Explained("blocked", 0) /\ tx'.inFlight = tx.inFlight
      BY <1>0, <2>2 DEF HookType, Explained, ErrorKinds
    <3>2. ~ClaimsNothingHappened(tx'.error)
      BY <3>1 DEF ClaimsNothingHappened, Explained
    <3> QED BY <1>1, <2>1, <2>2, <3>1, <3>2, HookKeepsInv DEF Send
  <2>3. CASE /\ ~Refused /\ sent' = sent + 1 /\ tx' = Started
             /\ sends' = sends \cup {[n |-> sent + 1, by |-> wallet.address,
                                      at |-> "building", signer |-> NoAccount]}
    <3>1. wallet.address \in Accounts
      BY <2>3 DEF Refused, TransactionInv, TransactionTypeOK, WalletType, Account
    <3>2. tx' \in HookType /\ tx'.inFlight /\ tx'.error = NoError
      BY <1>0, <2>3 DEF Started, HookType, NoError, ErrorKinds
    <3>3. TransactionTypeOK'
      BY <1>1, <2>1, <2>3, <3>1, <3>2 DEF Send, TransactionInv, TransactionTypeOK, CallType, Account
    <3>4. OneInFlight' BY <2>1, <2>3, <3>2 DEF OneInFlight
    <3>5. SignedByCaller'
      BY <1>1, <2>1, <2>3 DEF Send, SignedByCaller, TransactionInv
    <3>6. \A applied \in landed' : applied.n < sent' /\ applied.n <= sent'
      BY <1>0, <1>1, <2>3 DEF Send, AppliedType, TransactionInv, AppliedBefore
    <3>7. AppliedBefore' BY <3>2, <3>6 DEF AppliedBefore
    <3> QED BY <3>3, <3>4, <3>5, <3>7 DEF TransactionInv
  <2> QED BY <1>1, <2>2, <2>3 DEF Send
<1>2. CASE Reset
  <2>1. tx' \in HookType /\ tx'.error = NoError /\ tx'.inFlight = tx.inFlight
    BY <1>0, <1>2 DEF Reset, HookType, NoError, ErrorKinds
  <2>2. ~ClaimsNothingHappened(tx'.error)
    BY <2>1, NoErrorClaimsNothing
  <2> QED BY <1>2, <2>1, <2>2, HookKeepsInv DEF Reset
<1>3. CASE TurnSlow
  <2>1. tx' \in HookType /\ tx'.error = tx.error /\ tx'.inFlight = tx.inFlight
    BY <1>0, <1>3 DEF TurnSlow, HookType
  <2> QED BY <1>3, <2>1, HookKeepsInv DEF TurnSlow, TransactionInv, AppliedBefore
<1>4. ASSUME NEW s \in sends, Build(s) PROVE TransactionInv'
  <2>1. CASE /\ sends' = (sends \ {s}) \cup {[s EXCEPT !.at = "signing"]}
             /\ tx' = [tx EXCEPT !.phase = "signing"]
    <3>1. tx.inFlight /\ sends = {s} /\ s.n = sent /\ s \in CallType
      BY <1>0, <1>4 DEF TransactionInv, OneInFlight
    <3>2. tx' \in HookType /\ tx'.error = tx.error /\ tx'.inFlight
      BY <1>0, <2>1, <3>1 DEF HookType
    <3> DEFINE c == [s EXCEPT !.at = "signing"]
    <3>8. sends' = {c} BY <2>1, <3>1
    <3>9. c \in CallType /\ c.n = sent /\ c.at = "signing" BY <3>1 DEF CallType
    <3> HIDE DEF c
    <3>3. sends' = {c} /\ c \in CallType /\ c.n = sent /\ c.at = "signing" BY <3>8, <3>9
    <3>4. TransactionTypeOK'
      BY <1>4, <3>2, <3>3 DEF Build, TransactionInv, TransactionTypeOK
    <3>5. OneInFlight' BY <1>4, <3>2, <3>3 DEF Build, OneInFlight
    <3>6. SignedByCaller' BY <1>4, <3>3 DEF Build, TransactionInv, SignedByCaller
    <3>7. AppliedBefore' BY <1>4, <3>1, <3>2 DEF Build, TransactionInv, AppliedBefore
    <3> QED BY <3>4, <3>5, <3>6, <3>7 DEF TransactionInv
  <2>2. ASSUME NEW code \in {1, 2, 20}, EndWith(s, ExplainCode(code)) PROVE TransactionInv'
    BY <1>4, <2>2, EndKeepsInv, CodesAreExplained DEF Build
  <2>3. ASSUME NEW cause \in {"archived", "unreachable", "unknown"}, EndWith(s, Explain(cause))
        PROVE  TransactionInv'
    BY <1>4, <2>3, EndKeepsInv, CausesAreExplained DEF Build, Causes
  <2> QED BY <1>4, <2>1, <2>2, <2>3 DEF Build
<1>5. ASSUME NEW s \in sends, Sign(s) PROVE TransactionInv'
  <2>1. CASE /\ sends' = (sends \ {s}) \cup {[s EXCEPT !.at = "confirming", !.signer = Signer(s)]}
             /\ UNCHANGED tx
    <3>1. tx.inFlight /\ sends = {s} /\ s.n = sent /\ s \in CallType
      BY <1>0, <1>5 DEF TransactionInv, OneInFlight
    <3> DEFINE c == [s EXCEPT !.at = "confirming", !.signer = Signer(s)]
    <3>8. sends' = {c} BY <2>1, <3>1
    <3>9. c \in CallType /\ c.n = sent /\ c.signer = c.by
      BY <3>1 DEF CallType, Signer, Account
    <3> HIDE DEF c
    <3>2. sends' = {c} /\ c \in CallType /\ c.n = sent /\ c.signer = c.by BY <3>8, <3>9
    <3>3. TransactionTypeOK'
      BY <1>5, <2>1, <3>2 DEF Sign, TransactionInv, TransactionTypeOK
    <3>4. OneInFlight' BY <1>5, <2>1, <3>1, <3>2 DEF Sign, OneInFlight
    <3>5. SignedByCaller' BY <1>5, <3>2 DEF Sign, TransactionInv, SignedByCaller
    <3>6. AppliedBefore' BY <1>5, <2>1 DEF Sign, TransactionInv, AppliedBefore
    <3> QED BY <3>3, <3>4, <3>5, <3>6 DEF TransactionInv
  <2>2. ASSUME NEW cause \in {"wrong network", "declined", "unreachable", "unknown"},
               EndWith(s, Explain(cause))
        PROVE  TransactionInv'
    BY <1>5, <2>2, EndKeepsInv, CausesAreExplained DEF Sign, Causes
  <2> QED BY <1>5, <2>1, <2>2 DEF Sign
<1>6. ASSUME NEW s \in sends, Confirm(s) PROVE TransactionInv'
  <2>1. tx.inFlight /\ sends = {s} /\ s.n = sent /\ s \in CallType /\ s.signer = s.by
    BY <1>0, <1>6 DEF TransactionInv, OneInFlight, SignedByCaller, Confirm
  <2>2. sends' = {} /\ tx' \in HookType /\ tx'.error = NoError /\ ~tx'.inFlight
    BY <1>0, <1>6, <2>1 DEF Confirm, HookType, TransactionInv, AppliedBefore
  <2> DEFINE new == [n |-> s.n, source |-> s.by, signer |-> s.signer]
  <2>9. landed' = landed \cup {new} BY <1>6 DEF Confirm
  <2>10. new \in AppliedType /\ new.n = sent /\ new.signer = new.source
    BY <2>1 DEF AppliedType, CallType
  <2> HIDE DEF new
  <2>3. landed' = landed \cup {new} /\ new \in AppliedType /\ new.n = sent /\ new.signer = new.source
    BY <2>9, <2>10
  <2>4. TransactionTypeOK'
    BY <1>6, <2>2, <2>3 DEF Confirm, TransactionInv, TransactionTypeOK
  <2>5. OneInFlight' BY <2>2 DEF OneInFlight
  <2>6. SignedByCaller' BY <2>2, <2>3 DEF SignedByCaller, TransactionInv
  <2>7. ~ClaimsNothingHappened(tx'.error) BY <2>2, NoErrorClaimsNothing
  <2>8. AppliedBefore'
    BY <1>0, <1>6, <2>2, <2>3, <2>7 DEF Confirm, AppliedBefore, TransactionInv
  <2> QED BY <2>4, <2>5, <2>6, <2>8 DEF TransactionInv
<1>7. ASSUME NEW s \in sends, NotConfirmed(s) PROVE TransactionInv'
  <2>1. ASSUME NEW code \in {1, 2, 20}, EndWith(s, ExplainCode(code)), UNCHANGED landed
        PROVE  TransactionInv'
    BY <1>7, <2>1, EndKeepsInv, CodesAreExplained DEF NotConfirmed
  <2>2. CASE /\ EndWith(s, Explain("unreachable"))
             /\ \/ UNCHANGED landed
                \/ landed' = landed \cup {[n |-> s.n, source |-> s.by, signer |-> s.signer]}
    <3>1. ~ClaimsNothingHappened(Explain("unreachable"))
      BY DEF ClaimsNothingHappened, Explain, Explained
    <3> QED BY <1>7, <2>2, <3>1, EndKeepsInv, CausesAreExplained DEF NotConfirmed, Causes
  <2> QED BY <1>7, <2>1, <2>2 DEF NotConfirmed
<1> QED BY <1>1, <1>2, <1>3, <1>4, <1>5, <1>6, <1>7 DEF SendNext

\* The invariant holds in every state of every behaviour.
THEOREM TransactionCorrect == TransactionSpec => []TransactionInv
<1>1. TransactionInv /\ [TransactionNext]_txVars => TransactionInv'
  <2> SUFFICES ASSUME TransactionInv, [TransactionNext]_txVars PROVE TransactionInv'
    OBVIOUS
  <2>1. CASE UNCHANGED txVars
    BY <2>1 DEF txVars, TransactionInv, TransactionTypeOK, OneInFlight, SignedByCaller,
       AppliedBefore
  <2> QED BY <2>1, WalletKeepsInv, SendKeepsInv DEF TransactionNext
<1> QED BY <1>1, TransactionInvInit, PTL DEF TransactionSpec

\* At most one call of a hook is in flight, however often a button is clicked and
\* whatever is reset meanwhile.
THEOREM OneSendAtATime == TransactionSpec => []NoDoubleSubmit
<1>1. TransactionInv => NoDoubleSubmit
  BY FS_EmptySet, FS_Singleton DEF TransactionInv, OneInFlight, NoDoubleSubmit
<1> QED BY <1>1, TransactionCorrect, PTL

\* What the ledger applied was signed by the account it was built for, whatever
\* accounts the page and Freighter change to.
THEOREM SourceSigns == TransactionSpec => []SignerIsSource
<1>1. TransactionInv => SignerIsSource
  BY DEF TransactionInv, SignedByCaller, SignerIsSource
<1> QED BY <1>1, TransactionCorrect, PTL

\* An error that says nothing was transferred is right about the last call.
THEOREM NothingMeansNothing == TransactionSpec => []NothingTransferredIsTrue
<1>1. TransactionInv => NothingTransferredIsTrue
  BY DEF TransactionInv, AppliedBefore, NothingTransferredIsTrue
<1> QED BY <1>1, TransactionCorrect, PTL

------------------------------------------------------------------------------
(* The hook as the screens see it *)

CallNumber(n) == IF n = 0 THEN Nothing ELSE [do |-> "send", n |-> n]
Shown ==
  [phase |-> IF InProgress(tx) THEN "busy" ELSE tx.phase,
   inFlight |-> tx.inFlight, call |-> CallNumber(sent)]
AppliedCalls == {CallNumber(call.n) : call \in landed}

Promise == INSTANCE HookPromise WITH
  hook <- Shown, applied <- AppliedCalls,
  Calls <- [do : {"send"}, n : Nat], Addresses <- Wallets

\* One more call is applied.
LEMMA OneMoreApplied ==
  ASSUME NEW new, landed' = landed \cup {new}, new.n = sent
  PROVE  AppliedCalls' = AppliedCalls \cup {CallNumber(sent)}
BY DEF AppliedCalls

\* The ends of a call, as they are shown.
LEMMA EndsShown ==
  ASSUME NEW outcome
  PROVE  Promise!Settled(Shown, outcome) =
           [phase |-> IF outcome = "success" THEN "success"
                      ELSE IF outcome = "declined" THEN "idle" ELSE "error",
            inFlight |-> FALSE, call |-> CallNumber(sent)]
<1> DEFINE phase == CASE outcome = "success" -> "success"
                      [] outcome = "declined" -> "idle"
                      [] OTHER -> "error"
<1>1. phase = IF outcome = "success" THEN "success"
              ELSE IF outcome = "declined" THEN "idle" ELSE "error"
  OBVIOUS
<1>2. Promise!Settled(Shown, outcome) = [Shown EXCEPT !.inFlight = FALSE, !.phase = phase]
  BY DEF Promise!Settled
<1> HIDE DEF phase
<1> QED BY <1>1, <1>2 DEF Shown

\* Whatever explains it, a call that ends with an error ends in one of the ways
\* the screens know.
LEMMA EndIsPromised ==
  ASSUME TransactionInv, NEW s \in sends, NEW error,
         EndWith(s, error), UNCHANGED sent,
         \/ UNCHANGED landed
         \/ /\ error.kind # "none"
            /\ landed' = landed \cup {[n |-> s.n, source |-> s.by, signer |-> s.signer]}
  PROVE  Promise!End
<1> DEFINE phase == IF error.kind = "none" THEN "idle" ELSE "error"
           ended == [phase |-> phase, inFlight |-> FALSE, call |-> CallNumber(sent)]
<1>1. tx.inFlight /\ s.n = sent /\ tx \in HookType
  BY DEF TransactionInv, OneInFlight, TransactionTypeOK
<1>2. tx'.phase = phase /\ tx'.inFlight = FALSE
  BY <1>1 DEF EndWith, HookType
<1>3. Shown' = ended
  BY <1>2 DEF Shown, InProgress
<1>4. Shown.inFlight /\ Shown.call = CallNumber(sent)
  BY <1>1 DEF Shown
<1>5. CASE UNCHANGED landed
  <2>1. AppliedCalls' = AppliedCalls
    BY <1>5 DEF AppliedCalls
  <2>2. CASE error.kind = "none"
    <3>1. Promise!Settled(Shown, "declined") = ended
      BY <2>2, EndsShown
    <3> QED BY <1>3, <1>4, <2>1, <3>1 DEF Promise!End, Promise!Outcomes, Promise!Applied
  <2>3. CASE error.kind # "none"
    <3>1. Promise!Settled(Shown, "refused") = ended
      BY <2>3, EndsShown
    <3> QED BY <1>3, <1>4, <2>1, <3>1 DEF Promise!End, Promise!Outcomes, Promise!Applied
  <2> QED BY <2>2, <2>3
<1>6. CASE /\ error.kind # "none"
           /\ landed' = landed \cup {[n |-> s.n, source |-> s.by, signer |-> s.signer]}
  <2> DEFINE new == [n |-> s.n, source |-> s.by, signer |-> s.signer]
  <2>3. landed' = landed \cup {new} /\ new.n = sent
    BY <1>1, <1>6
  <2> HIDE DEF new
  <2>1. AppliedCalls' = AppliedCalls \cup {CallNumber(sent)}
    BY <2>3, OneMoreApplied
  <2>2. Promise!Settled(Shown, "lost") = ended
    BY <1>6, EndsShown
  <2> QED BY <1>3, <1>4, <2>1, <2>2 DEF Promise!End, Promise!Outcomes, Promise!Applied
<1> QED BY <1>5, <1>6

LEMMA SendIsPromised ==
  ASSUME TransactionInv, Send PROVE Promise!Send
<1>1. /\ tx \in HookType /\ sent \in Nat /\ ~tx.inFlight
      /\ AppliedCalls' = AppliedCalls
  BY DEF TransactionInv, TransactionTypeOK, Send, Free, AppliedCalls
<1>2. CASE /\ UNCHANGED sent
           /\ tx' = [tx EXCEPT !.phase = "error", !.error = Explained("blocked", 0)]
  <2>1. tx'.phase = "error" /\ tx'.inFlight = FALSE
    BY <1>1, <1>2 DEF HookType
  <2>2. Shown' = [phase |-> "error", inFlight |-> FALSE, call |-> CallNumber(sent)]
    BY <1>2, <2>1 DEF Shown, InProgress
  <2>5. tx.inFlight = FALSE
    BY <1>1 DEF HookType
  <2>6. ~Shown.inFlight
    BY <1>1 DEF Shown
  <2>7. [Shown EXCEPT !.phase = "error"] = Shown'
    <3>1. [Shown EXCEPT !.phase = "error"] =
            [phase |-> "error", inFlight |-> tx.inFlight, call |-> CallNumber(sent)]
      BY DEF Shown
    <3> QED BY <2>2, <2>5, <3>1
  <2>3. ASSUME NEW call PROVE Promise!SendAs(Shown, NoAddress, call) = Shown'
    BY <2>6, <2>7 DEF Promise!SendAs
  <2>4. CallNumber(1) \in [do : {"send"}, n : Nat] /\ NoAddress \in Wallets
    BY DEF CallNumber, Wallets
  <2> QED BY <1>1, <2>3, <2>4 DEF Promise!Send
<1>3. CASE sent' = sent + 1 /\ tx' = Started
  <2> DEFINE call == [do |-> "send", n |-> sent + 1]
  <2>1. CallNumber(sent') = call /\ call \in [do : {"send"}, n : Nat]
    BY <1>1, <1>3 DEF CallNumber
  <2>2. tx'.phase = "building" /\ tx'.inFlight
    BY <1>1, <1>3 DEF Started, HookType
  <2>3. Shown' = [phase |-> "busy", inFlight |-> TRUE, call |-> call]
    BY <1>1, <1>3, <2>1, <2>2 DEF Shown, InProgress, Started, HookType
  <2>4. Promise!SendAs(Shown, Creator, call) = Shown'
    BY <1>1, <2>3, AddressesAssumption DEF Promise!SendAs, Shown
  <2> HIDE DEF call
  <2> QED BY <1>1, <2>1, <2>4 DEF Promise!Send, Wallets
<1> QED BY <1>2, <1>3 DEF Send

\* Each step of the hook, of its calls and of the wallet is one of the promise, or
\* shows nothing.
LEMMA StepIsPromised ==
  ASSUME TransactionInv, TransactionNext
  PROVE  Promise!Next \/ UNCHANGED <<Shown, AppliedCalls>>
<1>0. tx \in HookType
  BY DEF TransactionInv, TransactionTypeOK
<1>1. CASE WalletNext
  <2>1. UNCHANGED <<tx, sent, landed>>
    BY <1>1 DEF WalletNext, Connect, Disconnect, Recheck, FreighterChanges, RestoreAddress,
       RestoreNetwork, ConnectGranted, ConnectNetwork, Rechecked
  <2> QED BY <2>1 DEF Shown, InProgress, AppliedCalls
<1>2. CASE Send
  BY <1>2, SendIsPromised DEF Promise!Next
<1>3. CASE Reset
  <2>1. tx'.phase = "idle" /\ tx'.inFlight = tx.inFlight /\ sent' = sent /\ landed' = landed
    BY <1>0, <1>3 DEF Reset, HookType
  <2>2. Shown' = Promise!ResetOn(Shown) /\ AppliedCalls' = AppliedCalls
    BY <2>1 DEF Shown, InProgress, Promise!ResetOn, AppliedCalls
  <2> QED BY <2>2 DEF Promise!Next, Promise!Reset
<1>4. CASE TurnSlow
  <2>1. tx'.phase = tx.phase /\ tx'.inFlight = tx.inFlight /\ sent' = sent /\ landed' = landed
    BY <1>0, <1>4 DEF TurnSlow, HookType
  <2> QED BY <2>1 DEF Shown, InProgress, AppliedCalls
<1>5. ASSUME NEW s \in sends, Build(s) PROVE Promise!Next
  <2>1. CASE tx' = [tx EXCEPT !.phase = "signing"]
    <3>1. /\ tx'.phase = "signing" /\ tx'.inFlight /\ tx.inFlight
          /\ sent' = sent /\ landed' = landed
      BY <1>0, <1>5, <2>1 DEF Build, HookType, TransactionInv, OneInFlight
    <3>2. AppliedCalls' = AppliedCalls
      BY <3>1 DEF AppliedCalls
    <3>4. InProgress(tx)'
      BY <3>1 DEF InProgress
    <3>5. Shown' = [phase |-> "busy", inFlight |-> tx.inFlight, call |-> CallNumber(sent)]
      BY <3>1, <3>4 DEF Shown
    <3>6. Shown' = [Shown EXCEPT !.phase = "busy"]
      BY <3>5 DEF Shown
    <3>3. Shown.inFlight
      BY <3>1 DEF Shown
    <3> QED BY <3>2, <3>3, <3>6 DEF Promise!Next, Promise!GoOn
  <2>2. ASSUME NEW error, EndWith(s, error) PROVE Promise!Next
    BY <1>5, <2>2, EndIsPromised DEF Build, Promise!Next
  <2> QED BY <1>5, <2>1, <2>2 DEF Build
<1>6. ASSUME NEW s \in sends, Sign(s) PROVE Promise!Next \/ UNCHANGED <<Shown, AppliedCalls>>
  <2>1. CASE UNCHANGED tx
    BY <1>6, <2>1 DEF Sign, Shown, InProgress, AppliedCalls
  <2>2. ASSUME NEW error, EndWith(s, error) PROVE Promise!Next
    BY <1>6, <2>2, EndIsPromised DEF Sign, Promise!Next
  <2> QED BY <1>6, <2>1, <2>2 DEF Sign
<1>7. ASSUME NEW s \in sends, Confirm(s) PROVE Promise!Next
  <2>1. /\ tx.inFlight /\ s.n = sent /\ sent' = sent
        /\ tx'.phase = "success" /\ tx'.inFlight = FALSE
    BY <1>0, <1>7 DEF Confirm, HookType, TransactionInv, OneInFlight
  <2> DEFINE new == [n |-> s.n, source |-> s.by, signer |-> s.signer]
  <2>2. landed' = landed \cup {new} /\ new.n = sent
    BY <1>7, <2>1 DEF Confirm
  <2> HIDE DEF new
  <2>3. AppliedCalls' = AppliedCalls \cup {CallNumber(sent)}
    BY <2>2, OneMoreApplied
  <2>4. Shown' = [phase |-> "success", inFlight |-> FALSE, call |-> CallNumber(sent)]
    BY <2>1 DEF Shown, InProgress
  <2>5. Shown' = Promise!Settled(Shown, "success")
    BY <2>4, EndsShown
  <2>6. Shown.inFlight /\ Shown.call = CallNumber(sent)
    BY <2>1 DEF Shown
  <2> QED BY <2>3, <2>5, <2>6 DEF Promise!Next, Promise!End, Promise!Outcomes, Promise!Applied
<1>8. ASSUME NEW s \in sends, NotConfirmed(s) PROVE Promise!Next
  <2>1. ASSUME NEW error, EndWith(s, error), UNCHANGED landed PROVE Promise!Next
    BY <1>8, <2>1, EndIsPromised DEF NotConfirmed, Promise!Next
  <2>2. ASSUME EndWith(s, Explain("unreachable")),
               landed' = landed \cup {[n |-> s.n, source |-> s.by, signer |-> s.signer]}
        PROVE  Promise!Next
    <3>1. Explain("unreachable").kind # "none"
      BY DEF Explain, Explained
    <3> QED BY <1>8, <2>2, <3>1, EndIsPromised DEF NotConfirmed, Promise!Next
  <2> QED BY <1>8, <2>1, <2>2 DEF NotConfirmed
<1> QED BY <1>1, <1>2, <1>3, <1>4, <1>5, <1>6, <1>7, <1>8 DEF TransactionNext, SendNext

\* Whatever the wallet does, a useTransaction is what the screens take it for: a click
\* is refused or becomes the one call in flight, and the call ends once, in one of
\* four ways (hooks/useTransaction.ts).
THEOREM SendsAsPromised == TransactionSpec => Promise!Spec
<1>1. TransactionInit => Promise!Init
  <2> SUFFICES ASSUME TransactionInit PROVE Promise!Init
    OBVIOUS
  <2>1. tx.phase = "idle" /\ tx.inFlight = FALSE /\ sent = 0 /\ landed = {}
    BY DEF TransactionInit
  <2> QED BY <2>1 DEF Promise!Init, Shown, InProgress, CallNumber, Promise!IdleTx, Nothing,
     Promise!Nothing, AppliedCalls
<1>2. TransactionInv /\ [TransactionNext]_txVars => [Promise!Next]_<<Shown, AppliedCalls>>
  <2> SUFFICES ASSUME TransactionInv, [TransactionNext]_txVars
               PROVE  [Promise!Next]_<<Shown, AppliedCalls>>
    OBVIOUS
  <2>1. CASE UNCHANGED txVars
    BY <2>1 DEF txVars, Shown, InProgress, AppliedCalls
  <2> QED BY <2>1, StepIsPromised
<1> QED BY <1>1, <1>2, TransactionCorrect, PTL DEF TransactionSpec, Promise!Spec

\* When a screen is told of a success, the last call that it made was applied.
THEOREM SuccessWasApplied ==
  TransactionSpec => [](tx.phase = "success" => \E applied \in landed : applied.n = sent)
<1> DEFINE Success == Promise!SuccessIsApplied
<1>1. Promise!Init => Success
  BY DEF Promise!Init, Promise!SuccessIsApplied, Promise!IdleTx
<1>2. Success /\ [Promise!Next]_<<Shown, AppliedCalls>> => Success'
  <2> SUFFICES ASSUME Success, [Promise!Next]_<<Shown, AppliedCalls>>, Shown'.phase = "success"
               PROVE  Shown'.call \in AppliedCalls'
    BY DEF Promise!SuccessIsApplied
  <2>1. CASE UNCHANGED <<Shown, AppliedCalls>>
    BY <2>1 DEF Promise!SuccessIsApplied
  <2>2. CASE Promise!Send
    BY <2>2 DEF Promise!Send, Promise!SendAs, Promise!SuccessIsApplied, Shown
  <2>3. CASE Promise!Reset
    BY <2>3 DEF Promise!Reset, Promise!ResetOn, Shown
  <2>4. CASE Promise!GoOn
    BY <2>4 DEF Promise!GoOn, Shown
  <2>5. CASE Promise!End
    <3>1. PICK outcome : /\ Shown' = Promise!Settled(Shown, outcome)
                         /\ AppliedCalls' = IF Promise!Applied(outcome)
                                            THEN AppliedCalls \cup {Shown.call} ELSE AppliedCalls
      BY <2>5 DEF Promise!End
    <3>2. Shown' = [phase |-> IF outcome = "success" THEN "success"
                              ELSE IF outcome = "declined" THEN "idle" ELSE "error",
                    inFlight |-> FALSE, call |-> CallNumber(sent)]
      BY <3>1, EndsShown
    <3>3. Shown'.call = CallNumber(sent)
      BY <3>2
    <3>4. outcome = "success"
      BY <3>2
    <3>5. Shown.call = CallNumber(sent)
      BY DEF Shown
    <3>6. AppliedCalls' = AppliedCalls \cup {Shown.call}
      BY <3>1, <3>4 DEF Promise!Applied
    <3> QED BY <3>3, <3>5, <3>6
  <2> QED BY <2>1, <2>2, <2>3, <2>4, <2>5 DEF Promise!Next
<1>3. TransactionInv /\ Success =>
        (tx.phase = "success" => \E applied \in landed : applied.n = sent)
  <2> SUFFICES ASSUME TransactionInv, Success, tx.phase = "success"
               PROVE  \E applied \in landed : applied.n = sent
    OBVIOUS
  <2>1. Shown.phase = "success" /\ Shown.call = CallNumber(sent)
    BY DEF Shown, InProgress
  <2>2. PICK applied \in landed : CallNumber(applied.n) = CallNumber(sent)
    BY <2>1 DEF Promise!SuccessIsApplied, AppliedCalls
  <2>3. applied.n \in Nat /\ sent \in Nat
    BY DEF TransactionInv, TransactionTypeOK, AppliedType
  <2>4. DOMAIN Nothing = {"do"} /\ \A k : "n" \in DOMAIN [do |-> "send", n |-> k]
    BY DEF Nothing
  <2>5. applied.n = sent
    BY <2>2, <2>3, <2>4 DEF CallNumber
  <2> QED BY <2>5
<1> HIDE DEF Success
<1> QED BY <1>1, <1>2, <1>3, SendsAsPromised, TransactionCorrect, PTL DEF Promise!Spec

------------------------------------------------------------------------------
(* The form that deploys a programme *)

\* What the form holds and what it sends.
Entered == People \cup {NoPeople}
Scheduled == Schedules \cup {NoDeadlines}
CreateCalls ==
  [do : {"create"}, creator : Wallets, schema : Uids, people : Entered,
   deadlines : Scheduled, minimum : Nat, answered : BOOLEAN]
Calls == CreateCalls \cup {Nothing}
Hooks == [phase : {"idle", "busy", "success", "error"}, inFlight : BOOLEAN, call : Calls]
Forms ==
  [is : {"deploy"}, step : Nat, schema : Uids \cup {Malformed, NoAddress},
   asking : Uids \cup {NoAddress}, found : BOOLEAN, failed : BOOLEAN, people : Entered,
   deadlines : Scheduled, minimum : Nat, now : Nat, tx : Hooks, deployed : Calls]

\* The terms that were checked where they were entered.
TermsMet(call) ==
  /\ call \in CreateCalls
  /\ \A i, j \in 1 .. 4 : i < j => 0 < call.deadlines[i] /\ call.deadlines[i] < call.deadlines[j]
  /\ call.people.quorum \in 1 .. Len(call.people.reviewers) /\ call.people.quorum \in 1 .. 16
  /\ call.people.reviewers # <<>> /\ call.people.verifiers # <<>> /\ call.people.tranches > 0
  /\ call.answered => call.schema \in KnownSchemas

\* The newest read of a schema is of the one in the field, when that is a uid: it has
\* answered that the schema is there, or has failed, or has not answered.
ReadIsOfField ==
  screen.schema \in Uids =>
    IF screen.asking = NoAddress THEN screen.failed \/ screen.schema \in KnownSchemas
    ELSE screen.asking = screen.schema

\* While a send is under way the page stays at its last step, so that the people that
\* were sent are still those in the fields when it succeeds.
FieldsAreOf(scr) ==
  /\ scr.tx.inFlight =>
       scr.step = 4 /\ scr.tx.phase = "busy" /\ scr.people = scr.tx.call.people
  /\ scr.deployed # Nothing => scr.tx.phase = "success" /\ scr.people = scr.deployed.people

DeployInv ==
  /\ screen \in Forms /\ me \in Wallets /\ ledger \in Seq(Calls)
  /\ screen.tx.inFlight => TermsMet(screen.tx.call)
  /\ screen.deployed = Nothing \/ screen.deployed \in ToSet(ledger)
  /\ ReadIsOfField /\ FieldsAreOf(screen)

LEMMA DeployInvInit == ASSUME ScreenInit, DeployInit PROVE DeployInv
<1>1. NoPeople \in Entered /\ NoDeadlines \in Scheduled /\ Nothing \in Calls
  BY DEF Entered, Scheduled, Calls
<1>2. IdleTx \in Hooks /\ IdleTx.inFlight = FALSE
  BY <1>1 DEF IdleTx, Hooks
<1>3. screen \in Forms /\ screen.tx = IdleTx /\ screen.deployed = Nothing
  BY <1>1, <1>2 DEF DeployInit, Forms
<1>4. ReadIsOfField
  BY DeployAssumption DEF ReadIsOfField, DeployInit
<1> QED BY <1>2, <1>3, <1>4 DEF DeployInv, ScreenInit, Wallets, FieldsAreOf

\* What is entered on the form, and its steps, leave its transaction alone.
LEMMA EnteringKeeps ==
  ASSUME DeployInv, screen' \in Forms, me' = me, ledger' = ledger,
         screen'.tx.inFlight => screen.tx.inFlight /\ screen'.tx.call = screen.tx.call,
         screen'.deployed \in {screen.deployed, Nothing}, ReadIsOfField', FieldsAreOf(screen')
  PROVE  DeployInv'
BY DEF DeployInv

\* With every step valid, the call meets the terms.
LEMMA ValidMeetsTerms ==
  ASSUME screen \in Forms, me \in Wallets, AllValid,
         ReadIsOfField, NEW call, call = CreateCall
  PROVE  TermsMet(call)
<1>1. StepValid(1) /\ StepValid(2) /\ StepValid(3)
  BY DEF AllValid
<1>2. screen.schema \in Uids
  BY <1>1 DEF StepValid, SchemaConfirmed
<1>3. ~PeopleErrors /\ ~QuorumFinalError /\ screen.people.tranches > 0
  BY <1>1 DEF StepValid
<1>4. ~SequenceError
  BY <1>1 DEF StepValid
<1>5. /\ screen.people \in Entered /\ screen.deadlines \in Scheduled /\ screen.minimum \in Nat
  BY DEF Forms
<1>6. call \in CreateCalls
  BY <1>2, <1>5 DEF CreateCalls, CreateCall
<1>7. screen.deadlines \in [1 .. 4 -> Nat]
  BY <1>5, DeployAssumption DEF Scheduled, NoDeadlines
<1>8. \A i, j \in 1 .. 4 : i < j => 0 < call.deadlines[i] /\ call.deadlines[i] < call.deadlines[j]
  <2> DEFINE d == screen.deadlines
  <2>1. d[1] \in Nat /\ d[2] \in Nat /\ d[3] \in Nat /\ d[4] \in Nat
    BY <1>7
  <2>2. d[1] # 0 /\ d[2] # 0 /\ d[3] # 0 /\ d[4] # 0
    BY <1>4 DEF SequenceError
  <2>3. d[1] < d[2] /\ d[2] < d[3] /\ d[3] < d[4]
    <3>1. ~(d[1] >= d[2]) /\ ~(d[2] >= d[3]) /\ ~(d[3] >= d[4])
      BY <1>4 DEF SequenceError
    <3> QED BY <2>1, <3>1
  <2>4. call.deadlines = d
    BY DEF CreateCall
  <2> HIDE DEF d
  <2>5. ASSUME NEW i \in 1 .. 4, NEW j \in 1 .. 4, i < j PROVE 0 < d[i] /\ d[i] < d[j]
    BY <2>1, <2>2, <2>3, <2>5
  <2> QED BY <2>4, <2>5
<1>9. call.people.quorum \in 1 .. Len(call.people.reviewers) /\ call.people.quorum \in 1 .. 16
  <2>1. screen.people.reviewers \in Seq(STRING)
    <3>1. ASSUME NEW people \in People PROVE people.reviewers \in Seq(STRING)
      BY DeployAssumption
    <3>2. NoPeople.reviewers = <<>> /\ <<>> \in Seq(STRING)
      BY DEF NoPeople
    <3> QED BY <1>5, <3>1, <3>2 DEF Entered
  <2>2. Len(screen.people.reviewers) \in Nat
    BY <2>1
  <2>3. screen.people.quorum \in 1 .. 16 /\ ~(screen.people.quorum > Len(screen.people.reviewers))
    BY <1>3 DEF QuorumFinalError
  <2>4. call.people = screen.people
    BY DEF CreateCall
  <2> DEFINE quorum == screen.people.quorum
             reviewers == Len(screen.people.reviewers)
  <2>5. quorum \in Int /\ 1 <= quorum /\ ~(quorum > reviewers) /\ reviewers \in Nat
    BY <2>2, <2>3, SMTT(30)
  <2> HIDE DEF quorum, reviewers
  <2>6. quorum \in 1 .. reviewers
    BY <2>5
  <2> QED BY <2>3, <2>4, <2>6 DEF quorum, reviewers
<1>10. /\ call.people.reviewers # <<>> /\ call.people.verifiers # <<>>
       /\ call.people.tranches > 0
  BY <1>3 DEF PeopleErrors, CreateCall
<1>11. call.answered => call.schema \in KnownSchemas
  <2>1. call.answered = (screen.asking = NoAddress) /\ call.schema = screen.schema
    BY DEF CreateCall
  <2>2. ~screen.failed
    BY <1>1 DEF StepValid, SchemaConfirmed
  <2>3. screen.asking = NoAddress => screen.schema \in KnownSchemas
    BY <1>2, <2>2 DEF ReadIsOfField
  <2> QED BY <2>1, <2>3
<1> QED BY <1>6, <1>8, <1>9, <1>10, <1>11 DEF TermsMet

LEMMA DeployInvKept ==
  ASSUME DeployInv, [DeployNext \/ ChangeWallet]_screenVars PROVE DeployInv'
<1>1. screen \in Forms /\ me \in Wallets /\ ledger \in Seq(Calls) /\ screen.tx \in Hooks
      /\ ReadIsOfField /\ FieldsAreOf(screen)
  BY DEF DeployInv, Forms
<1>2. CASE UNCHANGED screenVars \/ ChangeWallet
  BY <1>2 DEF DeployInv, screenVars, ChangeWallet, ReadIsOfField, FieldsAreOf
<1> DEFINE SameRead == UNCHANGED <<screen.schema, screen.asking, screen.failed>>
           SameSend == UNCHANGED <<screen.tx, screen.deployed, me, ledger>>
<1>r. SameRead => ReadIsOfField'
  BY <1>1 DEF ReadIsOfField
<1>f. SameSend /\ UNCHANGED <<screen.step, screen.people>> => FieldsAreOf(screen')
  BY <1>1 DEF FieldsAreOf
<1>3. CASE SchemaAnswers \/ SchemaReadFails
  <2>1. /\ screen' \in Forms /\ SameSend /\ UNCHANGED <<screen.step, screen.people, screen.schema>>
    BY <1>1, <1>3 DEF SchemaAnswers, SchemaReadFails, Show, Forms
  <2>2. ReadIsOfField'
    BY <1>1, <1>3, DeployAssumption DEF SchemaAnswers, SchemaReadFails, Show, Forms, ReadIsOfField
  <2> QED BY <1>f, <2>1, <2>2, EnteringKeeps
<1>4. CASE GoOn \/ GoBack
  <2>1. screen' \in Forms /\ SameRead /\ SameSend /\ UNCHANGED screen.people /\ ~Busy(screen.tx)
    BY <1>1, <1>4 DEF GoOn, GoBack, Show, Forms
  <2>2. FieldsAreOf(screen') BY <1>1, <2>1 DEF FieldsAreOf, Busy
  <2> QED BY <1>r, <2>1, <2>2, EnteringKeeps
<1>5. ASSUME NEW text \in Uids \cup {Malformed}, EnterDetails(text) PROVE DeployInv'
  <2>1. /\ screen' \in Forms /\ SameSend /\ UNCHANGED <<screen.step, screen.people>>
    BY <1>1, <1>5 DEF EnterDetails, Show, Forms
  <2>2. ReadIsOfField'
    BY <1>1, <1>5, DeployAssumption DEF EnterDetails, Show, Forms, ReadIsOfField
  <2> QED BY <1>f, <2>1, <2>2, EnteringKeeps
<1>6. ASSUME NEW people \in People, EnterPeople(people) PROVE DeployInv'
  <2>1. /\ screen' \in Forms /\ SameRead /\ SameSend /\ AtDeploy /\ screen.step = 2
    BY <1>1, <1>6 DEF EnterPeople, Show, Forms, Entered
  <2>2. FieldsAreOf(screen') BY <1>1, <2>1 DEF FieldsAreOf, AtDeploy
  <2> QED BY <1>r, <2>1, <2>2, EnteringKeeps
<1>7. ASSUME NEW deadlines \in Schedules, EnterDeadlines(deadlines) PROVE DeployInv'
  <2>1. /\ screen' \in Forms /\ SameRead /\ SameSend /\ UNCHANGED <<screen.step, screen.people>>
    BY <1>1, <1>7 DEF EnterDeadlines, Show, Forms, Scheduled
  <2> QED BY <1>r, <1>f, <2>1, EnteringKeeps
<1>8. ASSUME \/ ClockPasses
             \/ \E minimum \in 0 .. 1 : EnterFunds(minimum)
      PROVE  DeployInv'
  <2>1. /\ screen' \in Forms /\ SameRead /\ SameSend /\ UNCHANGED <<screen.step, screen.people>>
    BY <1>1, <1>8 DEF EnterFunds, ClockPasses, Show, Forms
  <2> QED BY <1>r, <1>f, <2>1, EnteringKeeps
<1>9. CASE Deploy
  <2> DEFINE call == CreateCall
             sending == SendAs(screen.tx, me, call)
  <2>1. /\ AllValid /\ me # NoAddress /\ UNCHANGED <<me, ledger>>
        /\ screen' = [screen EXCEPT !.tx = sending]
        /\ AtDeploy /\ screen.step = 4 /\ ~Busy(screen.tx)
    BY <1>9 DEF Deploy, SendOn
  <2>2. TermsMet(call) /\ call.people = screen.people
    BY <1>1, <2>1, ValidMeetsTerms DEF CreateCall
  <2> HIDE DEF call
  <2>3. call \in Calls
    BY <2>2 DEF TermsMet, Calls
  <2>4. ~screen.tx.inFlight /\ screen.deployed = Nothing
    BY <1>1, <2>1 DEF FieldsAreOf, Busy, AtDeploy
  <2>5. sending = [phase |-> "busy", inFlight |-> TRUE, call |-> call]
    BY <2>1, <2>4 DEF SendAs
  <2> HIDE DEF sending
  <2>6. sending \in Hooks
    BY <2>3, <2>5 DEF Hooks
  <2>7. /\ screen' \in Forms /\ screen'.tx = sending /\ SameRead
        /\ UNCHANGED <<screen.deployed, screen.step, screen.people>>
    BY <1>1, <2>1, <2>6 DEF Forms
  <2>8. FieldsAreOf(screen')
    BY <2>1, <2>2, <2>4, <2>5, <2>7 DEF FieldsAreOf
  <2>9. TermsMet(screen'.tx.call)
    BY <2>2, <2>5, <2>7
  <2>10. screen'.deployed = Nothing BY <2>4, <2>7
  <2> QED BY <1>1, <1>r, <2>1, <2>7, <2>8, <2>9, <2>10 DEF DeployInv
<1>10. ASSUME NEW outcome \in Outcomes, DeploySettled(outcome) PROVE DeployInv'
  <2> DEFINE settled == Settled(screen.tx, outcome)
             call == screen.tx.call
  <2>1. /\ screen' = [screen EXCEPT !.tx = settled,
                        !.deployed = IF outcome = "success" THEN call ELSE screen.deployed]
        /\ ledger' = IF Applied(outcome) THEN Append(ledger, call) ELSE ledger
        /\ me' = me
    BY <1>1, <1>10 DEF DeploySettled, Record
  <2>2. settled \in Hooks /\ ~settled.inFlight /\ call \in Calls
    BY <1>1 DEF Settled, Hooks
  <2> HIDE DEF settled, call
  <2>3. /\ screen' \in Forms /\ screen'.tx = settled
        /\ screen'.deployed = IF outcome = "success" THEN call ELSE screen.deployed
        /\ SameRead /\ screen'.people = screen.people
    BY <1>1, <2>1, <2>2 DEF Forms
  <2>4. ledger' \in Seq(Calls)
    BY <1>1, <2>1, <2>2
  <2>5. screen'.deployed = Nothing \/ screen'.deployed \in ToSet(ledger')
    <3>1. ToSet(ledger) \subseteq ToSet(ledger')
      <4>1. CASE ledger' = ledger
        BY <4>1
      <4>2. CASE ledger' = Append(ledger, call)
        <5>1. DOMAIN ledger \subseteq DOMAIN ledger' /\ \A i \in DOMAIN ledger : ledger'[i] = ledger[i]
          BY <1>1, <2>2, <4>2
        <5> QED BY <5>1 DEF ToSet
      <4> QED BY <2>1, <4>1, <4>2
    <3>2. outcome = "success" => call \in ToSet(ledger')
      <4>1. SUFFICES ASSUME outcome = "success" PROVE call \in ToSet(ledger')
        OBVIOUS
      <4>2. ledger' = Append(ledger, call)
        BY <2>1, <4>1 DEF Applied
      <4>3. Len(ledger) + 1 \in DOMAIN ledger' /\ ledger'[Len(ledger) + 1] = call
        BY <1>1, <2>2, <4>2
      <4> QED BY <4>3 DEF ToSet
    <3> QED BY <2>3, <3>1, <3>2 DEF DeployInv
  <2>6. FieldsAreOf(screen')
    <3>1. /\ screen.tx.inFlight /\ screen.people = call.people /\ screen.tx.phase = "busy"
          /\ screen.deployed = Nothing
      BY <1>1, <1>10 DEF DeploySettled, FieldsAreOf, call
    <3>2. outcome = "success" => settled.phase = "success"
      BY <1>1 DEF settled, Settled, Hooks
    <3> QED BY <2>2, <2>3, <3>1, <3>2 DEF FieldsAreOf
  <2> QED BY <1>1, <1>r, <2>1, <2>2, <2>3, <2>4, <2>5, <2>6 DEF DeployInv
<1>11. CASE ResetDeploy
  <2>1. ResetOn(screen.tx) \in Hooks /\ ResetOn(screen.tx).inFlight = screen.tx.inFlight
        /\ ResetOn(screen.tx).call = screen.tx.call
    BY <1>1 DEF ResetOn, Hooks
  <2>2. Nothing \in Calls
    BY DEF Calls
  <2>3. screen' = [screen EXCEPT !.tx = ResetOn(screen.tx), !.deployed = Nothing, !.step = 1]
        /\ UNCHANGED <<me, ledger>>
    BY <1>1, <1>11 DEF ResetDeploy, Show
  <2>4. screen' \in Forms /\ screen'.tx = ResetOn(screen.tx) /\ screen'.deployed = Nothing
        /\ SameRead
    BY <1>1, <2>1, <2>2, <2>3 DEF Forms
  <2>5. ~screen.tx.inFlight
    BY <1>1, <1>11 DEF ResetDeploy, AtDeploy, FieldsAreOf, Forms
  <2>6. FieldsAreOf(screen') BY <2>1, <2>4, <2>5 DEF FieldsAreOf
  <2> QED BY <1>r, <2>1, <2>3, <2>4, <2>6, EnteringKeeps
<1> QED BY <1>2, <1>3, <1>4, <1>5, <1>6, <1>7, <1>8, <1>9, <1>10, <1>11 DEF DeployNext

\* What the constructor may have against terms that were checked where they were
\* entered.
LEMMA TermsAndObjections ==
  ASSUME DeployInv, screen.tx.inFlight PROVE DeployMeetsTerms
<1> DEFINE call == screen.tx.call
           objections == Objections(call, screen.now)
           d == call.deadlines
<1>1. /\ TermsMet(call) /\ screen.now \in Nat
  BY DEF DeployInv, Forms
<1> HIDE DEF call
<1>2. /\ call.people.quorum \in 1 .. Len(call.people.reviewers) /\ call.people.quorum \in 1 .. 16
      /\ call.people.reviewers # <<>> /\ call.people.verifiers # <<>> /\ call.people.tranches > 0
      /\ (call.answered => call.schema \in KnownSchemas) /\ call.minimum \in Nat
  BY <1>1 DEF TermsMet, CreateCalls
<1>3. call.people.tranches \in Int /\ Len(call.people.reviewers) \in Nat
  <2>1. ASSUME NEW people \in Entered
        PROVE  people.tranches \in Int /\ people.reviewers \in Seq(STRING)
    <3>1. CASE people \in People BY <3>1, DeployAssumption
    <3>2. CASE people = NoPeople
      <4>1. people.tranches = 3 /\ people.reviewers = <<>> BY <3>2 DEF NoPeople
      <4> QED BY <4>1
    <3> QED BY <3>1, <3>2 DEF Entered
  <2>2. call.people \in Entered BY <1>1 DEF TermsMet, CreateCalls
  <2>3. call.people.tranches \in Int /\ call.people.reviewers \in Seq(STRING) BY <2>1, <2>2
  <2> QED BY <2>3
<1>4. /\ d[1] \in Nat /\ d[2] \in Nat /\ d[3] \in Nat /\ d[4] \in Nat
      /\ 0 < d[1] /\ d[1] < d[2] /\ d[2] < d[3] /\ d[3] < d[4]
  <2>1. d \in [1 .. 4 -> Nat]
    BY <1>1, DeployAssumption DEF TermsMet, CreateCalls, Scheduled, NoDeadlines
  <2>2. \A i, j \in 1 .. 4 : i < j => 0 < d[i] /\ d[i] < d[j]
    BY <1>1 DEF TermsMet
  <2> HIDE DEF d
  <2>3. d[1] \in Nat /\ d[2] \in Nat /\ d[3] \in Nat /\ d[4] \in Nat BY <2>1
  <2>4. 0 < d[1] /\ d[1] < d[2] BY <2>2
  <2>5. d[2] < d[3] /\ d[3] < d[4] BY <2>2
  <2> QED BY <2>3, <2>4, <2>5
<1>5. ~(\E i \in 1 .. 3 : d[i + 1] <= d[i])
  <2> SUFFICES ASSUME NEW i \in 1 .. 3, d[i + 1] <= d[i] PROVE FALSE
    OBVIOUS
  <2>1. i = 1 \/ i = 2 \/ i = 3 OBVIOUS
  <2> HIDE DEF d
  <2> QED BY <1>4, <2>1
<1>6. ~(call.people.quorum \notin 1 .. 16 \/ call.people.quorum > Len(call.people.reviewers))
  <2> DEFINE quorum == call.people.quorum
             reviewers == Len(call.people.reviewers)
  <2>1. quorum \in 1 .. reviewers /\ quorum \in 1 .. 16 /\ reviewers \in Nat BY <1>2, <1>3
  <2> HIDE DEF quorum, reviewers
  <2>2. ~(quorum > reviewers) BY <2>1
  <2> QED BY <2>1, <2>2 DEF quorum, reviewers
<1>7. /\ "NoReviewers" \notin objections /\ "NoVerifiers" \notin objections
      /\ "InvalidQuorum" \notin objections
  BY <1>2, <1>6 DEF Objections
<1>8. "InvalidDeadlines" \in objections =>
        d[1] <= screen.now /\ "InvalidDeadlines" \notin Objections(call, 0)
  <2>1. ASSUME NEW time \in Nat PROVE "InvalidDeadlines" \in Objections(call, time) <=> d[1] <= time
    BY <1>5 DEF Objections
  <2>2. ~(d[1] <= 0)
    <3> HIDE DEF d
    <3> QED BY <1>4
  <2> QED BY <1>1, <2>1, <2>2
<1>9. "InvalidAmount" \in objections => call.minimum \in 1 .. (call.people.tranches - 1)
  <2> DEFINE minimum == call.minimum
             tranches == call.people.tranches
  <2>1. "InvalidAmount" \in objections <=>
          tranches = 0 \/ minimum < 0 \/ (minimum > 0 /\ minimum < tranches)
    BY DEF Objections
  <2>2. minimum \in Nat /\ tranches \in Int /\ tranches > 0 BY <1>2, <1>3
  <2> HIDE DEF minimum, tranches, objections
  <2> QED BY <2>1, <2>2 DEF minimum, tranches
<1>10. "SchemaNotFound" \in objections => ~call.answered
  BY <1>2 DEF Objections
<1>11. objections \subseteq {"InvalidDeadlines", "InvalidAmount", "SchemaNotFound",
                            "SchemaAuthorityNotVerifier"}
  <2>1. objections \subseteq {"InvalidDeadlines", "NoReviewers", "NoVerifiers", "InvalidQuorum",
                             "InvalidAmount", "SchemaNotFound", "SchemaAuthorityNotVerifier"}
    BY DEF Objections
  <2> QED BY <1>7, <2>1
<1> QED BY <1>8, <1>9, <1>10, <1>11 DEF DeployMeetsTerms, call

\* However the steps of the form are left and entered again, whatever answers come
\* meanwhile and however time passes: the constructor has nothing against what waits
\* for a signature but in the four cases that DeployMeetsTerms names, and a programme
\* that the page announces was applied, with the quorum and the tranches it names.
THEOREM DeploySendsItsTerms ==
  DeploySpec => [](DeployMeetsTerms /\ DeployShown /\ DeployDone \subseteq ToSet(ledger))
<1>1. DeployInv => DeployMeetsTerms /\ DeployShown /\ DeployDone \subseteq ToSet(ledger)
  <2> SUFFICES ASSUME DeployInv
               PROVE  DeployMeetsTerms /\ DeployShown /\ DeployDone \subseteq ToSet(ledger)
    OBVIOUS
  <2>1. DeployMeetsTerms BY TermsAndObjections DEF DeployMeetsTerms
  <2>2. DeployShown BY DEF DeployInv, FieldsAreOf, DeployShown
  <2>3. DeployDone \subseteq ToSet(ledger) BY DEF DeployInv, DeployDone
  <2> QED BY <2>1, <2>2, <2>3
<1> QED BY <1>1, DeployInvInit, DeployInvKept, PTL DEF DeploySpec
=============================================================================
