-------------------------- MODULE RecipientScreen --------------------------
(***************************************************************************)
(* The recipient's cards (frontend/src/components/recipient): applying to  *)
(* a programme, withdrawing, releasing a tranche of an award, and sending  *)
(* escrow to a payee.  Each is the whole screen of a behaviour.            *)
(***************************************************************************)
EXTENDS Screen

CONSTANTS
  Tranches        \* tranches of the award, and the escrow of the spending card

------------------------------------------------------------------------------
(* ApplyForm *)

NoReceipt == Nothing

ApplyInit ==
  screen = [is |-> "apply", open |-> {}, read |-> FALSE, chosen |-> NoAddress,
            amount |-> NoAddress, notes |-> FALSE, tx |-> IdleTx, receipt |-> NoReceipt]
AtApply == screen.is = "apply"

\* useOpenProgrammes: which programmes are Open.  How it reads them is ListScreens;
\* a read that fails leaves nothing read.
OpenProgrammesRead ==
  /\ AtApply /\ ~screen.read
  /\ \E open \in SUBSET Programmes : Show([screen EXCEPT !.open = open, !.read = TRUE])
OpenProgrammesRefetched == AtApply /\ screen.read /\ Show([screen EXCEPT !.read = FALSE])

\* The choice while it is on the list, else the first of the list.
EffectiveSelection ==
  IF screen.chosen \in screen.open THEN screen.chosen
  ELSE IF screen.open = {} THEN NoAddress ELSE CHOOSE p \in screen.open : TRUE

IsValid ==
  screen.amount \notin {NoAddress, Malformed} /\ screen.notes /\ EffectiveSelection # NoAddress

\* A receipt hides the form, until an error of another send.
ShowReceipt == screen.receipt # NoReceipt /\ screen.tx.phase # "error"
FormShown == AtApply /\ ~Busy(screen.tx) /\ ~ShowReceipt

EditApplication ==
  /\ FormShown
  /\ \/ \E p \in screen.open : Show([screen EXCEPT !.chosen = p])
     \/ \E amount \in {Malformed, "much", "little"} : Show([screen EXCEPT !.amount = amount])
     \/ Show([screen EXCEPT !.notes = ~@])

Application == [do |-> "apply", programme |-> EffectiveSelection, requested |-> screen.amount]

HandleSubmit ==
  /\ FormShown /\ IsValid /\ Click
  /\ screen' = [screen EXCEPT !.tx = SendOn(@, Application)]
  /\ UNCHANGED <<me, ledger>>

MutReceiptOf(call) == Application

\* The receipt was put together before anything was signed.
ReceiptOf(call) == call

ApplicationSettled(outcome) ==
  /\ AtApply /\ screen.tx.inFlight
  /\ screen' = [screen EXCEPT !.tx = Settled(@, outcome),
       !.receipt = IF outcome = "success" THEN ReceiptOf(screen.tx.call) ELSE @]
  /\ Record(screen.tx.call, outcome)
  /\ UNCHANGED <<me, clicks>>

\* "Apply to another".
HandleReset ==
  /\ AtApply /\ ~Busy(screen.tx) /\ ShowReceipt
  /\ Show([screen EXCEPT !.amount = NoAddress, !.notes = FALSE, !.receipt = NoReceipt,
                         !.tx = ResetOn(@)])

ApplyNext ==
  \/ OpenProgrammesRead \/ OpenProgrammesRefetched \/ EditApplication \/ HandleSubmit
  \/ HandleReset \/ \E outcome \in Outcomes : ApplicationSettled(outcome)

------------------------------------------------------------------------------
(* ApplicationWithdraw *)

WithdrawInit ==
  \E real \in BOOLEAN, flag \in {"none", "finalized", "withdrawn"} :
    screen = [is |-> "withdraw", real |-> real, flag |-> flag, shown |-> "none",
              read |-> IF real THEN "reading" ELSE "ready", confirm |-> FALSE, tx |-> IdleTx]
AtWithdraw == screen.is = "withdraw"

\* get_application answers with the flag of now, or fails.
ApplicationRead ==
  /\ AtWithdraw /\ screen.read \in {"reading", "failed"}
  /\ \/ Show([screen EXCEPT !.read = "ready", !.shown = screen.flag])
     \/ screen.read = "reading" /\ Show([screen EXCEPT !.read = "failed"])

\* Another reviewer finalizes it meanwhile.
ApplicationFinalized ==
  /\ AtWithdraw /\ screen.flag = "none" /\ Show([screen EXCEPT !.flag = "finalized"])

\* The reasons come before the button.
WithdrawView ==
  IF me = NoAddress THEN "sign in"
  ELSE IF screen.read # "ready" THEN screen.read
  ELSE IF screen.shown # "none" THEN screen.shown ELSE "action"

ConfirmDialog ==
  /\ AtWithdraw /\ WithdrawView = "action" /\ ~Busy(screen.tx)
  /\ Show([screen EXCEPT !.confirm = ~@])

HandleConfirm ==
  /\ AtWithdraw /\ WithdrawView = "action" /\ screen.confirm /\ ~Busy(screen.tx) /\ Click
  /\ screen' = [screen EXCEPT !.tx = SendOn(ResetOn(@), [do |-> "withdraw", applicant |-> me])]
  /\ UNCHANGED <<me, ledger>>

\* Its success reads the application again; a sample remembers it here.
WithdrawSettled(outcome) ==
  /\ AtWithdraw /\ screen.tx.inFlight
  /\ screen.flag = "finalized" => outcome \notin {"success", "lost"}
  /\ screen' = [screen EXCEPT !.tx = Settled(@, outcome),
       !.flag = IF Applied(outcome) THEN "withdrawn" ELSE @,
       !.shown = IF outcome = "success" /\ ~screen.real THEN "withdrawn" ELSE @,
       !.read = IF outcome = "success" /\ screen.real THEN "reading" ELSE @]
  /\ Record(screen.tx.call, outcome)
  /\ UNCHANGED <<me, clicks>>

WithdrawNext ==
  \/ ApplicationRead \/ ApplicationFinalized \/ ConfirmDialog \/ HandleConfirm
  \/ \E outcome \in Outcomes : WithdrawSettled(outcome)

------------------------------------------------------------------------------
(* AwardCard *)

ReleaseInit ==
  \E sample \in BOOLEAN :
    screen = [is |-> "award", sample |-> sample, released |-> 0, live |-> 0,
              proof |-> NoAddress, attester |-> NoAddress, formOpen |-> FALSE, tx |-> IdleTx,
              rereading |-> FALSE]
AtAward == screen.is = "award"

\* Anyone with a proof may release a tranche meanwhile.
OthersRelease ==
  /\ AtAward /\ ~screen.sample /\ screen.released < Tranches
  /\ Show([screen EXCEPT !.released = @ + 1])

\* The tile of each tranche, from the award as the card has it.
TileStatus(i, proofReady) ==
  IF i <= screen.live THEN "Released"
  ELSE IF i = screen.live + 1 THEN IF proofReady THEN "Proof received" ELSE "Waiting on verifier"
  ELSE "Locked"

AllReleased == screen.live >= Tranches
ReleaseFormShown == ~AllReleased /\ (screen.formOpen \/ screen.sample)
CanRelease ==
  /\ ~AllReleased /\ ~Busy(screen.tx)
  /\ screen.sample \/ (IsAddress(screen.proof) /\ IsAddress(screen.attester))

OpenReleaseForm ==
  /\ AtAward /\ ~AllReleased /\ ~screen.sample /\ ~screen.formOpen
  /\ Show([screen EXCEPT !.formOpen = TRUE])

EditRelease(text) ==
  /\ AtAward /\ ReleaseFormShown /\ ~screen.sample
  /\ \/ Show([screen EXCEPT !.proof = text]) \/ Show([screen EXCEPT !.attester = text])

\* "Cancel" is enabled while a release is in flight, and resets the transaction.
CancelRelease ==
  /\ AtAward /\ ReleaseFormShown /\ ~screen.sample
  /\ Show([screen EXCEPT !.formOpen = FALSE, !.proof = NoAddress, !.attester = NoAddress,
                         !.tx = ResetOn(@)])

HandleRelease ==
  /\ AtAward /\ ReleaseFormShown /\ CanRelease /\ Click
  /\ screen' = [screen EXCEPT !.tx = SendOn(@, [do |-> "release", attestation |-> screen.proof])]
  /\ UNCHANGED <<me, ledger>>

\* The release is applied; the card is still in its `send`, reading the award
\* again.
ReleaseApplied ==
  /\ AtAward /\ screen.tx.inFlight /\ ~screen.rereading /\ ~screen.sample
  /\ screen.released < Tranches
  /\ screen' = [screen EXCEPT !.released = @ + 1, !.rereading = TRUE]
  /\ Record(screen.tx.call, "success")
  /\ UNCHANGED <<me, clicks>>

Closed(s) == [s EXCEPT !.formOpen = FALSE, !.proof = NoAddress, !.attester = NoAddress,
                       !.rereading = FALSE, !.tx = Settled(@, "success")]

\* The answer of that read, or one more than is shown by then where it fails:
\* one too many if a new award came from the page in between.
LiveAfter(answered) == IF answered THEN screen.released ELSE screen.live + 1

ReleaseSucceeded ==
  /\ AtAward /\ screen.tx.inFlight
  /\ \/ /\ screen.rereading
        /\ \E answered \in BOOLEAN : Show(Closed([screen EXCEPT !.live = LiveAfter(answered)]))
     \/ screen.sample /\ Show(Closed([screen EXCEPT !.live = @ + 1, !.released = @ + 1]))

ReleaseFailed(outcome) ==
  /\ AtAward /\ screen.tx.inFlight /\ ~screen.rereading /\ outcome # "success"
  /\ Applied(outcome) => ~screen.sample /\ screen.released < Tranches
  /\ screen' = [screen EXCEPT !.tx = Settled(@, outcome),
                              !.released = IF Applied(outcome) THEN @ + 1 ELSE @]
  /\ Record(screen.tx.call, outcome)
  /\ UNCHANGED <<me, clicks>>

\* A new award from the page replaces the card's copy, a release in flight or not.
AwardReread ==
  /\ AtAward /\ ~screen.sample /\ screen.live # screen.released
  /\ Show([screen EXCEPT !.live = screen.released])

ReleaseNext ==
  \/ OthersRelease \/ OpenReleaseForm \/ CancelRelease \/ HandleRelease
  \/ ReleaseApplied \/ ReleaseSucceeded \/ AwardReread
  \/ \E outcome \in Outcomes : ReleaseFailed(outcome)
  \/ \E text \in {"proof", Malformed} : EditRelease(text)

------------------------------------------------------------------------------
(* AllocatedSpending *)

SpendInit ==
  \E real \in BOOLEAN, phase \in {"Review", "Settled"}, escrow \in {0, Tranches} :
    screen = [is |-> "spend", real |-> real, phase |-> phase,
              phaseRead |-> IF real THEN "reading" ELSE "ready",
              escrow |-> escrow, shown |-> IF real THEN 0 ELSE escrow,
              payee |-> NoAddress, check |-> "idle", asking |-> {},
              amount |-> 0, sent |-> Nothing, tx |-> IdleTx]
AtSpend == screen.is = "spend"

PhaseOrEscrowRead ==
  /\ AtSpend /\ screen.real
  /\ \/ /\ screen.phaseRead # "ready"
        /\ \E end \in {"ready", "failed"} \ {screen.phaseRead} : Show([screen EXCEPT !.phaseRead = end])
     \/ screen.shown # screen.escrow /\ Show([screen EXCEPT !.shown = screen.escrow])

\* The gates, in their order.
SpendView ==
  IF me = NoAddress THEN "sign in"
  ELSE IF screen.phaseRead # "ready" THEN screen.phaseRead
  ELSE IF screen.real /\ screen.phase # "Settled" THEN "only once Settled"
  ELSE IF screen.shown = 0 THEN "empty" ELSE "form"

AtSpendForm == AtSpend /\ SpendView = "form"
EditSpend ==
  /\ AtSpendForm
  /\ \/ \E text \in Payees \cup {Malformed} : Show([screen EXCEPT !.payee = text, !.check = "idle"])
     \/ \E amount \in 0 .. Tranches : Show([screen EXCEPT !.amount = amount])

\* The answer is set on the card whatever the field says by then: an edit sets
\* the status back to "idle", and does not cancel.
HandleCheckPayee ==
  /\ AtSpendForm /\ IsAddress(screen.payee) /\ screen.check # "checking"
  /\ Show([screen EXCEPT !.check = IF screen.real THEN "checking" ELSE "verified",
                         !.asking = IF screen.real THEN @ \cup {screen.payee} ELSE @])
PayeeChecked(p) ==
  /\ AtSpend /\ p \in screen.asking
  /\ \E answered \in BOOLEAN :
       Show([screen EXCEPT !.asking = @ \ {p},
         !.check = IF ~answered THEN "error" ELSE IF p \in Verified THEN "verified" ELSE "unverified"])

CanSend ==
  /\ screen.check = "verified" /\ screen.amount \in 1 .. screen.shown
  /\ ~Busy(screen.tx) /\ me # NoAddress

HandleSend ==
  /\ AtSpendForm /\ CanSend /\ Click
  /\ LET call == [do |-> "spend", payee |-> screen.payee, amount |-> screen.amount]
     IN screen' = [screen EXCEPT !.sent = call, !.tx = SendOn(ResetOn(@), call)]
  /\ UNCHANGED <<me, ledger>>

\* The contract looks at the payee and at the escrow itself.
SpendSettled(outcome) ==
  /\ AtSpend /\ screen.tx.inFlight
  /\ Applied(outcome) /\ screen.real =>
       screen.tx.call.payee \in Verified /\ screen.tx.call.amount <= screen.escrow
  /\ LET settled == [screen EXCEPT !.tx = Settled(@, outcome), !.escrow =
           IF Applied(outcome) /\ screen.real THEN @ - screen.tx.call.amount ELSE @]
     IN screen' = IF outcome # "success" THEN settled
                  ELSE [settled EXCEPT !.payee = NoAddress, !.amount = 0, !.check = "idle"]
  /\ Record(screen.tx.call, outcome)
  /\ UNCHANGED <<me, clicks>>

SpendNext ==
  \/ PhaseOrEscrowRead \/ EditSpend \/ HandleCheckPayee \/ HandleSend
  \/ \E p \in screen.asking : PayeeChecked(p)
  \/ \E outcome \in Outcomes : SpendSettled(outcome)

------------------------------------------------------------------------------
\* A receipt is of an application that was applied, with its programme and its
\* amount, although the list of programmes and the form move on meanwhile.
ReceiptWasApplied ==
  screen.is = "apply" /\ screen.receipt # NoReceipt =>
    \E i \in DOMAIN ledger : ledger[i] = screen.receipt

\* Money said to be sent was sent, to the payee and of the amount that are named,
\* although the form has been cleared by then (AllocatedSpending.tsx:122).
SpendIsReported ==
  screen.is = "spend" /\ screen.tx.phase = "success" => screen.sent \in ToSet(ledger)
=============================================================================
