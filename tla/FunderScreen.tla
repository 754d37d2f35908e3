---------------------------- MODULE FunderScreen ----------------------------
(***************************************************************************)
(* The funder's page (frontend/src/pages/FunderDashboard.tsx and           *)
(* components/funder): contributing in three steps, claiming a refund, and *)
(* the creator's tools for the seeded programme.                           *)
(***************************************************************************)
EXTENDS Screen

CONSTANTS
  Amounts,      \* what a person types as an amount, 0 for nothing
  Balance       \* the account's balance on the programme's token

Phases == {"Open", "Review", "Settled", "Cancelled"}
Unchecked == [status |-> "checking", phase |-> "Open"]

FunderScreenInit ==
  \E phase \in {"Open", "Review"}, sample \in BOOLEAN :
    screen = [is |-> "funder", chain |-> phase, listed |-> "Open", sample |-> sample,
              balance |-> "reading", amount |-> 0, step |-> "amount", check |-> Unchecked,
              checks |-> {}, signing |-> {}, refusal |-> FALSE, edited |-> FALSE, tx |-> IdleTx]

AtFunder == screen.is = "funder"

\* What the chain does meanwhile.
ProgrammeMovesOn ==
  /\ AtFunder /\ screen.chain = "Open"
  /\ Show([screen EXCEPT !.chain = "Review"])

------------------------------------------------------------------------------
(* Contributing *)

\* readPhase: a sample keeps the phase it is listed with; a read of a real one
\* answers with the phase of some moment since it was asked.
PhasesRead(asked) == IF screen.sample THEN {screen.listed} ELSE {asked, screen.chain}

\* useProgrammeBalance: an amount is refused only against a balance that was read.
BalanceRead ==
  /\ AtFunder /\ screen.balance = "reading"
  /\ \E status \in {"ready", "unavailable"} : Show([screen EXCEPT !.balance = status])
BalanceKnown == screen.sample \/ screen.balance = "ready"
ValidAmount == screen.amount > 0 /\ (BalanceKnown => screen.amount <= Balance)

ContributionBlocked == screen.listed # "Open"
CanContinue == ~ContributionBlocked /\ ValidAmount

\* The last send was declined: useTransaction is idle and keeps its error.
Declined == screen.tx.phase = "idle" /\ screen.step = "outcome"

\* Which of the steps is shown.
View ==
  IF screen.step = "amount" THEN "amount"
  ELSE IF screen.refusal THEN "error"
  ELSE IF screen.step = "confirm" \/ Declined THEN "confirm"
  ELSE IF screen.tx.phase = "error" THEN "error"
  ELSE IF screen.tx.phase = "success" THEN "done" ELSE "pending"

\* A contribution is on its way.  `edited` keeps whether the amount was changed then.
OnItsWay == screen.signing # {} \/ screen.tx.inFlight

TypeAmount(amount) ==
  /\ AtFunder /\ View = "amount"
  /\ Show([screen EXCEPT !.amount = amount, !.edited = @ \/ OnItsWay])

\* checkPhase: asked without a guard, the last answer to come is shown.
CheckPhase(s) == [s EXCEPT !.check = Unchecked, !.checks = @ \cup {s.chain}]
PhaseChecked(asked) ==
  /\ AtFunder /\ asked \in screen.checks
  /\ \/ \E phase \in PhasesRead(asked) :
          Show([screen EXCEPT !.checks = @ \ {asked},
                              !.check = [status |-> "read", phase |-> phase]])
     \/ Show([screen EXCEPT !.checks = @ \ {asked}, !.check.status = "failed"])

ToConfirm ==
  /\ AtFunder /\ View = "amount" /\ CanContinue
  /\ Show(CheckPhase([screen EXCEPT !.tx = ResetOn(@), !.refusal = FALSE, !.step = "confirm"]))

PhaseOk == screen.check.status = "read" /\ screen.check.phase = "Open"

\* The summary is shown of a valid amount only.
AtConfirm == AtFunder /\ View = "confirm" /\ ValidAmount
Back == AtConfirm /\ Show([screen EXCEPT !.step = "amount"])
CheckAgain == AtConfirm /\ screen.check.status = "failed" /\ Show(CheckPhase(screen))

\* "Confirm and sign" starts by asking for the phase once more, and stays
\* enabled while it waits.
ConfirmAndSign ==
  /\ AtConfirm /\ PhaseOk /\ me # NoAddress /\ Click
  /\ screen' = [screen EXCEPT !.tx = ResetOn(@), !.refusal = FALSE, !.edited = @ /\ OnItsWay,
       !.signing = @ \cup {[click |-> clicks + 1, by |-> me,
                            amount |-> screen.amount, asked |-> screen.chain]}]
  /\ UNCHANGED <<me, ledger>>

MutContribution(signing) ==
  [do |-> "contribute", amount |-> screen.amount, confirmed |-> signing.amount, asked |-> signing.asked]

\* The amount is the one of the click.  `confirmed` and `asked` keep what the
\* summary said and what the chain's phase was at the click.
Contribution(signing) ==
  [do |-> "contribute", amount |-> signing.amount, confirmed |-> signing.amount, asked |-> signing.asked]

\* Its answer: refuse, or send.
SignRead(signing) ==
  /\ AtFunder /\ signing \in screen.signing
  /\ LET asked == [screen EXCEPT !.signing = @ \ {signing}, !.step = "outcome"]
     IN \/ \E phase \in PhasesRead(signing.asked) :
             Show(IF phase # "Open" THEN [asked EXCEPT !.refusal = TRUE]
                  ELSE [asked EXCEPT !.tx = SendAs(@, signing.by, Contribution(signing))])
        \/ Show([asked EXCEPT !.refusal = TRUE])

ContributionSettled(outcome) ==
  /\ AtFunder /\ screen.tx.inFlight
  /\ screen' = [screen EXCEPT !.tx = Settled(@, outcome)]
  /\ Record(screen.tx.call, outcome)
  /\ UNCHANGED <<me, clicks>>

\* "Try again" under a failure goes back to the summary and its check.
Retry ==
  /\ AtFunder /\ View = "error"
  /\ Show(CheckPhase([screen EXCEPT !.tx = ResetOn(@), !.refusal = FALSE, !.step = "confirm"]))

\* "Contribute again" on the receipt, which shows the amount field.
StartOver ==
  /\ AtFunder /\ View = "done" /\ ValidAmount
  /\ Show([screen EXCEPT !.tx = ResetOn(@), !.refusal = FALSE, !.amount = 0, !.step = "amount",
                         !.edited = @ \/ OnItsWay])

FunderNext ==
  \/ ProgrammeMovesOn \/ BalanceRead \/ ToConfirm \/ Back \/ CheckAgain \/ ConfirmAndSign
  \/ Retry \/ StartOver
  \/ \E amount \in Amounts : TypeAmount(amount)
  \/ \E asked \in screen.checks : PhaseChecked(asked)
  \/ \E signing \in screen.signing : SignRead(signing)
  \/ \E outcome \in Outcomes : ContributionSettled(outcome)

------------------------------------------------------------------------------
(* The contributions, and the seeded programme's tools *)

\* A card offers a refund when the programme's listed figures leave a share and
\* this visit has not claimed it.
PledgeShareOf(amount, pool, contributed) == IF contributed = 0 THEN 0 ELSE (amount * pool) \div contributed
Claimable(card) ==
  /\ ~card.refunded /\ PledgeShareOf(card.amount, card.pool, card.contributed) > 0
  /\ card.phase \in {"Cancelled", "Settled"}

ToolsInit ==
  \E phase \in Phases, pool \in {0, 2}, refunded \in BOOLEAN :
    screen = [is |-> "tools", paused |-> FALSE, shownPaused |-> FALSE, cancelled |-> FALSE,
              card |-> [phase |-> phase, amount |-> 1, pool |-> pool, contributed |-> 2,
                        refunded |-> refunded],
              refundTx |-> IdleTx, pausing |-> TRUE, pauseTx |-> IdleTx,
              cancelOpen |-> FALSE, cancelTx |-> IdleTx]

AtTools == screen.is = "tools" /\ me # NoAddress    \* signed out, an invitation is all there is

ClaimRefund ==
  /\ AtTools /\ Claimable(screen.card) /\ ~Busy(screen.refundTx) /\ Click
  /\ screen' = [screen EXCEPT !.refundTx = SendOn(@, [do |-> "refund", donor |-> me])]
  /\ UNCHANGED <<me, ledger>>

\* The creator's controls, while the page has not read that it is cancelled.
ToolsOffered == AtTools /\ me = Creator /\ ~screen.cancelled

PauseCall == [do |-> IF screen.shownPaused THEN "unpause" ELSE "pause"]

MutPauseAnnouncement ==
  IF screen.pauseTx.phase # "success" THEN "nothing"
  ELSE IF screen.shownPaused THEN "unpause" ELSE "pause"

\* What the announcer says of it, recomputed at every render.
PauseAnnouncement ==
  IF screen.pauseTx.phase # "success" THEN "nothing"
  ELSE IF screen.pausing THEN "pause" ELSE "unpause"

\* What will be announced is fixed when the write is sent.
TogglePause ==
  /\ ToolsOffered /\ ~Busy(screen.pauseTx) /\ Click
  /\ screen' = [screen EXCEPT !.pausing = ~screen.shownPaused, !.pauseTx = SendOn(@, PauseCall)]
  /\ UNCHANGED <<me, ledger>>

PausedRefetched ==
  /\ screen.is = "tools" /\ screen.shownPaused # screen.paused
  /\ Show([screen EXCEPT !.shownPaused = screen.paused])

\* "Cancel programme" opens a dialog, which cannot be left while it is busy.
CancelDialog ==
  /\ ToolsOffered /\ ~Busy(screen.cancelTx)
  /\ Show([screen EXCEPT !.cancelOpen = ~@])
CancelProgramme ==
  /\ ToolsOffered /\ screen.cancelOpen /\ ~Busy(screen.cancelTx) /\ Click
  /\ screen' = [screen EXCEPT !.cancelTx = SendOn(@, [do |-> "cancel"])]
  /\ UNCHANGED <<me, ledger>>

ToolSettled(outcome) ==
  /\ screen.is = "tools"
  /\ \/ /\ screen.refundTx.inFlight /\ Record(screen.refundTx.call, outcome)
        /\ screen' = [screen EXCEPT !.refundTx = Settled(@, outcome),
                                    !.card.refunded = @ \/ outcome = "success"]
     \/ /\ screen.pauseTx.inFlight /\ Record(screen.pauseTx.call, outcome)
        /\ screen' = [screen EXCEPT !.pauseTx = Settled(@, outcome),
             !.paused = IF Applied(outcome) THEN screen.pauseTx.call.do = "pause" ELSE @]
     \/ /\ screen.cancelTx.inFlight /\ Record(screen.cancelTx.call, outcome)
        /\ screen' = [screen EXCEPT !.cancelTx = Settled(@, outcome),
             !.cancelOpen = IF outcome = "success" THEN FALSE ELSE @,
             !.cancelled = @ \/ outcome = "success"]
  /\ UNCHANGED <<me, clicks>>

ToolsNext ==
  \/ ClaimRefund \/ TogglePause \/ PausedRefetched \/ CancelDialog \/ CancelProgramme
  \/ \E outcome \in Outcomes : ToolSettled(outcome)

------------------------------------------------------------------------------
\* No contribution is signed unless the programme was still Open when its person
\* pressed "Confirm and sign", whatever the summary had been told before; and it
\* is the contribution that the summary named ("refused with `WrongPhase` rather
\* than sent to fail on-chain", ContributeFlow.tsx:71).
ContributionWasConfirmed ==
  screen.is = "funder" /\ screen.tx.call # Nothing =>
    /\ ~screen.sample => screen.tx.call.asked = "Open"
    /\ screen.tx.call.amount = screen.tx.call.confirmed

\* The receipt is of a contribution that was applied.  It shows the amount field, which
\* is the contribution's amount unless the field was edited while it was on its way
\* (ContributeFlow.tsx:367): then the receipt names an amount that was not given.
ReceiptIsOfContribution ==
  screen.is = "funder" /\ View = "done" =>
    /\ screen.tx.call \in ToSet(ledger)
    /\ ~screen.edited => screen.amount = screen.tx.call.amount

\* The announcement of a pause names what was applied last, although the button's own
\* label turns over meanwhile (SeededProgrammeTools.tsx:35).
PauseIsAnnouncedTruly ==
  screen.is = "tools" /\ PauseAnnouncement # "nothing" =>
    \E i \in DOMAIN ledger :
      /\ ledger[i].do = PauseAnnouncement
      /\ \A j \in i + 1 .. Len(ledger) : ledger[j].do \notin {"pause", "unpause"}
=============================================================================
