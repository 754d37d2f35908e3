--------------------------- MODULE FinalizeScreen ---------------------------
(***************************************************************************)
(* Finalizing awards (frontend/src/pages/FinalizeAwards.tsx): the board of *)
(* sample applications, and the flow that settles one real application.    *)
(***************************************************************************)
EXTENDS Screen

CONSTANTS
  Medians,        \* of each: what the reviewers agreed on, 0 short of a quorum
  Budget,         \* the programme's budget that is not awarded yet
  MinimumAward

Insufficient(median, left) == median > left
BelowMinimum(median) == MinimumAward > 0 /\ median < MinimumAward

------------------------------------------------------------------------------
(* FinalizeBoard *)

BoardInit == screen = [is |-> "board", fin |-> [a \in Applicants |-> "none"]]
AtBoard == screen.is = "board"

\* A row that is pending counts as still wanted, and not as awarded.
Remaining ==
  Budget - MapThenSumSet(LAMBDA a : Medians[a], {a \in Applicants : screen.fin[a] = "done"})
Wanted == MapThenSumSet(LAMBDA a : Medians[a], {a \in Applicants : screen.fin[a] # "done"})
Oversubscribed == Wanted > Remaining

RowReason(a) ==
  CASE screen.fin[a] = "done" -> "finalized"
    [] screen.fin[a] = "error" -> "does not fit"
    [] Medians[a] = 0 -> "needs votes"
    [] me = NoAddress -> "sign in"
    [] OTHER -> "ready"

FinalizeRow(a) ==
  /\ AtBoard /\ Medians[a] > 0 /\ me # NoAddress /\ screen.fin[a] \notin {"pending", "done"}
  /\ Show([screen EXCEPT !.fin[a] =
       IF Insufficient(Medians[a], Remaining) THEN "error" ELSE "pending"])

\* Its timer is not cancelled by anything.
RowFinalized(a) ==
  /\ AtBoard /\ screen.fin[a] = "pending"
  /\ Show([screen EXCEPT !.fin[a] = "done"])

BoardNext == \E a \in Applicants : FinalizeRow(a) \/ RowFinalized(a)

------------------------------------------------------------------------------
(* The flow for one applicant *)

NoAnswer == [of |-> NoAddress, yes |-> FALSE]

\* `app` and `payee` are what get_application and is_payee said last, and of
\* whom: a read keeps its data while it asks for another.
FinalizeInit ==
  screen = [is |-> "finalize", finalized |-> {}, applicant |-> NoAddress, app |-> NoAnswer,
            mode |-> "none", payeeInput |-> NoAddress, toVerify |-> NoAddress, payee |-> NoAnswer,
            tx |-> IdleTx, settled |-> Nothing]
AtFinalize == screen.is = "finalize"

\* "Load application" forgets the choices made for the last one.
SubmitApplicant(a) ==
  /\ AtFinalize
  /\ Show([screen EXCEPT !.applicant = a, !.mode = "none", !.payeeInput = NoAddress,
                         !.toVerify = NoAddress, !.settled = Nothing])

\* get_application answers, of the applicant of now.
ApplicationAnswers ==
  LET answer == [of |-> screen.applicant, yes |-> screen.applicant \in screen.finalized]
  IN /\ AtFinalize /\ screen.applicant # NoAddress /\ screen.app # answer
     /\ Show([screen EXCEPT !.app = answer])

\* What the shown application says: its own votes make the award.
Granted == Medians[screen.app.of]
FlowShown == AtFinalize /\ screen.app.of # NoAddress /\ ~screen.app.yes /\ Granted > 0

ChooseMode(mode) ==
  /\ FlowShown /\ screen.mode # mode
  /\ Show([screen EXCEPT !.mode = mode, !.toVerify = NoAddress])

NeedsVerifiedPayee == screen.mode = "Direct"
EditPayee(text) ==
  /\ FlowShown /\ NeedsVerifiedPayee
  /\ Show([screen EXCEPT !.payeeInput = text, !.toVerify = NoAddress])
VerifyPayee ==
  /\ FlowShown /\ NeedsVerifiedPayee /\ screen.payeeInput \notin {NoAddress, screen.toVerify}
  /\ Show([screen EXCEPT !.toVerify = screen.payeeInput])
PayeeAnswers ==
  LET answer == [of |-> screen.toVerify, yes |-> screen.toVerify \in Verified]
  IN /\ AtFinalize /\ screen.toVerify # NoAddress /\ screen.payee # answer
     /\ Show([screen EXCEPT !.payee = answer])

PayeeReady == NeedsVerifiedPayee => screen.payee.yes
FinalizeEnabled ==
  /\ FlowShown /\ screen.mode # "none" /\ PayeeReady /\ me # NoAddress /\ ~Busy(screen.tx)
  /\ ~Insufficient(Granted, Budget) /\ ~BelowMinimum(Granted)

FinalizeCall ==
  [do |-> "finalize", applicant |-> screen.applicant, mode |-> screen.mode,
   payee |-> IF NeedsVerifiedPayee THEN screen.toVerify ELSE screen.applicant]

Finalize ==
  /\ FinalizeEnabled /\ Click
  /\ screen' = [screen EXCEPT !.tx = SendOn(@, FinalizeCall)]
  /\ UNCHANGED <<me, ledger>>

\* What the contract insists on.
FinalizeAccepted(call) ==
  /\ call.applicant \notin screen.finalized /\ Medians[call.applicant] > 0
  /\ ~BelowMinimum(Medians[call.applicant])
  /\ call.mode = "Direct" => call.payee \in Verified

MutAwardSaid(call) == FinalizeCall

\* The award is the contract's answer to the call that was made.
AwardSaid(call) == call

\* Whoever's application is on the screen by then, the award is shown with it,
\* under its own recipient.
FinalizeSettled(outcome) ==
  /\ AtFinalize /\ screen.tx.inFlight
  /\ Applied(outcome) => FinalizeAccepted(screen.tx.call)
  /\ screen' = [screen EXCEPT !.tx = Settled(@, outcome),
       !.finalized = IF Applied(outcome) THEN @ \cup {screen.tx.call.applicant} ELSE @,
       !.settled = IF outcome = "success" THEN AwardSaid(screen.tx.call) ELSE @]
  /\ Record(screen.tx.call, outcome)
  /\ UNCHANGED <<me, clicks>>

FinalizeNext ==
  \/ \E a \in Applicants : SubmitApplicant(a)
  \/ ApplicationAnswers \/ PayeeAnswers \/ VerifyPayee \/ Finalize
  \/ \E mode \in {"Direct", "Open"} : ChooseMode(mode)
  \/ \E text \in Payees : EditPayee(text)
  \/ \E outcome \in Outcomes : FinalizeSettled(outcome)

FinalizeDone == IF screen.settled = Nothing THEN {} ELSE {screen.settled}
=============================================================================
