------------------------------- MODULE Offers -------------------------------
(***************************************************************************)
(* What the screens say about a programme: which actions they offer, with  *)
(* which figures, and why they refuse the others (frontend/src/lib,        *)
(* frontend/src/components and the pages that use them).                   *)
(*                                                                         *)
(* Everything here is computed from reads of the contract.  The operators  *)
(* take them from the state as it is, as a screen whose reads have all     *)
(* just arrived; what a screen does with reads that are late is the        *)
(* subject of ReadHooks and of the modules of the single screens.  A       *)
(* signed-in address and a programme confirmed by the registry are         *)
(* assumed, both are asked for before anything else.                       *)
(***************************************************************************)
EXTENDS ProgrammeProperties

------------------------------------------------------------------------------
(* The panel of a programme's page *)

\* RULES: the phase an action needs.
Needs ==
  [contribute |-> "Open", apply |-> "Open", finalize |-> "Review",
   release |-> "Settled", refund |-> "Settled"]

\* What the page computes as `refundable`: the rest of the budget once
\* refunds are open.
Refundable ==
  IF RefundsOpen THEN Available - released - refundedTotal - sweptTotal ELSE 0

\* phaseAllows: the panel's rule for one action.
PhaseAllows(key) ==
  IF key = "refund"
  THEN \/ Phase = "Cancelled"
       \/ Phase = "Settled" /\ RefundsOpen /\ Refundable > 0
  ELSE Phase = Needs[key]

------------------------------------------------------------------------------
(* The flows that end in a call *)

\* ContributeFlow and ApplyForm list the Open programmes; the amount is parsed,
\* and zero is not an amount.
ContributeOffered(amount) == Phase = "Open" /\ amount > 0
ApplyOffered(requested) == Phase = "Open" /\ requested > 0

\* Mutant: the gate of an earlier design, where withdrawing ended with the review.
MutWithdrawOffered(a) ==
  HasApplied(a) /\ ~application[a].withdrawn /\ ~application[a].finalized
    /\ Phase \in {"Open", "Review"}

\* ApplicationWithdraw, of an application that is there to be read.
WithdrawOffered(a) ==
  HasApplied(a) /\ ~application[a].withdrawn /\ ~application[a].finalized

QuorumReached(a) == HasApplied(a) /\ Len(application[a].votes) >= Quorum

MutComputedAward(a) ==
  LET votes == application[a].votes
      middle == Len(votes) \div 2
  IN IF Len(votes) % 2 = 1 THEN votes[middle + 1]
     ELSE (votes[middle] + votes[middle + 1]) \div 2

\* FinalizeAwards: the award shown before the call is made.
ComputedAward(a) == application[a].votes[(Quorum - 1) \div 2 + 1]

\* "Remaining budget" is the whole budget: awards made before are not counted.
Insufficient(a) == Available - ComputedAward(a) < 0
BelowMinimum(a) == MinimumAward > 0 /\ ComputedAward(a) < MinimumAward

\* The payee that is submitted: for a Direct award one that is_payee confirmed,
\* for any other the applicant.
SubmittedPayee(a, chosen, mode) == IF mode = "Direct" THEN chosen ELSE a
PayeeReady(chosen, mode) == mode = "Direct" => chosen \in payees

\* The phase, the pause and a withdrawal are not asked about.
FinalizeOffered(a, chosen, mode) ==
  /\ QuorumReached(a) /\ ~application[a].finalized
  /\ PayeeReady(chosen, mode)
  /\ ~Insufficient(a) /\ ~BelowMinimum(a)

\* AwardCard: the release form is there while a tile is not released.
ReleaseOffered(a) == HasAward(a) /\ award[a].tranches_released < award[a].tranches

\* AllocatedSpending.
SpendOffered(a, payee, amount) ==
  /\ award[a].mode = "Allocated"
  /\ Phase = "Settled"
  /\ payee \in payees
  /\ amount > 0 /\ amount <= allocation[a]

MutClaimableRefund(d) ==
  IF ~RefundsOpen \/ contributed = 0 \/ Unpaid <= 0 THEN 0
  ELSE LET share == ShareOf(donated[d], Available, contributed)
                      - ShareOf(donated[d], released, contributed)
       IN IF share > refunded[d] THEN share - refunded[d] ELSE 0

\* claimableRefund, in its own order of steps and early returns.
ClaimableRefund(d) ==
  LET fee == (contributed * FeeBps) \div BPS_DENOMINATOR
      unpaid == contributed - fee - released
      share == (donated[d] * unpaid) \div contributed
  IN IF \/ ~RefundsOpen
        \/ contributed <= 0 \/ donated[d] <= 0
        \/ unpaid <= 0
        \/ share <= 0
        \/ share <= refunded[d]
     THEN 0 ELSE share - refunded[d]

------------------------------------------------------------------------------
(* Figures *)

\* AwardCard: what tile i (from 0) of an award says it pays.
MutTileAmount(aw, i) == aw.granted \div aw.tranches

TileAmount(aw, i) ==
  LET base == aw.granted \div aw.tranches
  IN IF i = aw.tranches - 1 THEN aw.granted - base * (aw.tranches - 1) ELSE base

Clamp(value) == IF value > 0 THEN value ELSE 0

MutNotYetAwarded == IF RefundsOpen THEN 0 ELSE Clamp(contributed - granted)

\* WhereTheMoneyIs: the three parts of the budget that are not released.
NotYetAwarded == IF RefundsOpen THEN 0 ELSE Clamp(Available - granted)
AwardedLocked == IF RefundsOpen THEN 0 ELSE Clamp(granted - released)
RefundableShown == IF RefundsOpen THEN Clamp(Refundable) ELSE 0

\* chainFromRead: the contributions as the directory derives them back from
\* the budget and the fee rate, rounded up.
DerivedContributed ==
  LET rate == BPS_DENOMINATOR - FeeBps
  IN IF rate <= 0 THEN Available
     ELSE (Available * BPS_DENOMINATOR + rate - 1) \div rate

------------------------------------------------------------------------------
(* The recipient's timeline *)

\* applicationStatus: the sentence, by its case.
ApplicationStatus(a) ==
  IF application[a].withdrawn THEN "Withdrawn"
  ELSE IF application[a].finalized THEN "Finalised"
  ELSE IF Phase = "Cancelled" THEN "Cancelled"
  ELSE IF Phase = "Settled" THEN "Not finalised"
  ELSE "In review"

MutReviewStep(a) ==
  IF application[a].withdrawn THEN "Stopped"
  ELSE IF application[a].finalized \/ Len(application[a].votes) >= Quorum THEN "Done"
  ELSE CASE Phase = "Cancelled" -> "Stopped"
         [] Phase = "Settled" -> "Closed"
         [] Phase = "Review" -> "Now"
         [] Phase = "Open" -> "Next"

\* reviewStep and awardStep: the tag each stage carries.
ReviewStep(a) ==
  IF application[a].withdrawn THEN "Stopped"
  ELSE IF application[a].finalized THEN "Done"
  ELSE CASE Phase = "Cancelled" -> "Stopped"
         [] Phase = "Settled" -> "Closed"
         [] Phase = "Review" -> "Now"
         [] Phase = "Open" -> "Next"

AwardStep(a) ==
  IF application[a].withdrawn THEN "Stopped"
  ELSE IF application[a].finalized THEN "Done" ELSE "Next"

------------------------------------------------------------------------------
(* What makes the screens right *)

\* Nobody is locked out: a call that the contract would accept, because all the
\* checks of its Can-operator pass (Undecided for a withdrawal), is offered by the
\* screen it is made from.  (Two gates are stricter than the contract and stay
\* out: the panel sends nobody to Finalize or to a release outside the phase it
\* names, and AllocatedSpending waits for Settled.)
AcceptedIsOffered ==
  /\ \A amount \in Contributions :
       CanContribute(amount) => ContributeOffered(amount) /\ PhaseAllows("contribute")
  /\ \A d \in Donors : CanRefund(d, RefundDue(d)) => PhaseAllows("refund")
  /\ \A a \in Applicants :
       /\ \A requested \in Requests :
            CanApply(a, requested) => ApplyOffered(requested) /\ PhaseAllows("apply")
       /\ Undecided(a) => WithdrawOffered(a)
       /\ \A chosen \in Destinations, mode \in Modes :
            CanFinalize(a, SubmittedPayee(a, chosen, mode), mode)
              => FinalizeOffered(a, chosen, mode)
       /\ \A u \in Attestations, v \in Verifiers :
            CanRelease(a, u, v) => ReleaseOffered(a)
       /\ \A payee \in Destinations, amount \in PartialAmounts :
            Phase = "Settled" /\ CanSpend(a, payee, amount)
              => SpendOffered(a, payee, amount)

\* What is offered is refused for no other reason than these, none of which is
\* want of money: the pause, somebody who was faster, a cancellation, or a
\* window that has closed.
RefusedForAReason ==
  /\ \A amount \in Contributions :
       ContributeOffered(amount) /\ contributed + amount <= MAX_AMOUNT /\ ~paused
         => CanContribute(amount)
  /\ \A a \in Applicants :
       /\ \A requested \in Requests :
            ApplyOffered(requested) /\ ~HasApplied(a) /\ ~paused
              => CanApply(a, requested)
       /\ WithdrawOffered(a) => Undecided(a)
       /\ \A chosen \in Destinations, mode \in Modes :
            /\ FinalizeOffered(a, chosen, mode)
            /\ ~application[a].withdrawn /\ Phase # "Cancelled" /\ ~paused
            /\ WithinBudget(ComputedAward(a))
            => CanFinalize(a, SubmittedPayee(a, chosen, mode), mode)
       /\ \A u \in Attestations, v \in Verifiers :
            /\ ReleaseOffered(a) /\ NotOverReleased
            /\ Unused(u) /\ Proven(u, a, v) /\ v \in verifiers
            /\ ReleasesOpen /\ PolicyHolds(a) /\ NextTranche(award[a]) > 0 /\ ~paused
            => CanRelease(a, u, v)
       /\ \A payee \in Destinations, amount \in PartialAmounts :
            /\ SpendOffered(a, payee, amount) /\ NotOverReleased
            /\ now < sweepDeadline /\ ~paused
            => CanSpend(a, payee, amount)

\* "Claimable" is what the contract pays: claimableRefund gives a figure exactly
\* while a claim would succeed, and the whole claim is that figure, between any
\* partial claims of any donors ("so the UI never shows a figure that disagrees
\* with what the chain would return", funding.ts:37).
ClaimableIsDue ==
  \A d \in Donors : sweptTotal = 0 /\ NotOverReleased =>
    /\ ClaimableRefund(d) > 0 <=> CanRefund(d, RefundDue(d))
    /\ ClaimableRefund(d) > 0 => ClaimableRefund(d) = RefundDue(d)

\* What the screens offer and the contract accepts are the same, but for what the
\* screens do not know: its calls are offered, its refusals have a reason that is
\* named above, and a claim pays the figure beside it.
OffersMatchContract == AcceptedIsOffered /\ RefusedForAReason /\ ClaimableIsDue

\* The award shown before `finalize` is the award it makes, whoever calls it and
\* however many votes beyond the quorum came in ("uses the same lookup the
\* contract performs at `finalize`", FinalizeAwards.tsx:100).
ComputedAwardIsGranted ==
  [][\A a \in Applicants : HasAward(a)' /\ ~HasAward(a) =>
       award'[a].granted = ComputedAward(a) /\ ~BelowMinimum(a) /\ ~Insufficient(a)]_vars

\* The tiles of an award that are marked released add up to what was released,
\* single releases and batches mixed.
ReleasedTilesAddUp ==
  NotOverReleased =>
    \A a \in Applicants : HasAward(a) =>
      award[a].released =
        SumFunction([i \in 0 .. award[a].tranches_released - 1 |-> TileAmount(award[a], i)])

\* The money panel's parts are the budget, and what they call refundable is in
\* the contract beside the escrow and the fee; the directory, which derives the
\* contributions from the budget, is at most two units above them.
MoneyPanelAddsUp ==
  sweptTotal = 0 /\ NotOverReleased =>
    /\ released + NotYetAwarded + AwardedLocked + RefundableShown
         = Available - (IF RefundsOpen THEN refundedTotal ELSE 0)
    /\ RefundsOpen =>
         balance = RefundableShown + SumFunction(allocation) + (IF feeSwept THEN 0 ELSE Fee)
    /\ DerivedContributed - contributed \in 0 .. 2

\* The timeline says who may still act: the review is "Now" exactly while votes
\* are taken, a stage called done, closed or stopped takes none any more, and the
\* award is set exactly when there is one.
StepsAreTrue ==
  \A a \in Applicants : HasApplied(a) =>
    LET votable == \E approved \in Approvals : CanReview(a, approved) IN
    /\ ~paused /\ (\E approved \in Approvals : approved \in 1 .. application[a].requested)
         => (ReviewStep(a) = "Now" <=> votable)
    /\ ReviewStep(a) \in {"Stopped", "Done", "Closed"} => ~votable
    /\ AwardStep(a) = "Done" <=> HasAward(a)
    /\ ApplicationStatus(a) = "Finalised" <=> HasAward(a)
==============================================================================
