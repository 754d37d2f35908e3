------------------------ MODULE ProgrammeProperties ------------------------
(***************************************************************************)
(* What makes a programme correct.  ProgrammeProofs proves some of these   *)
(* for every value of the constants; the MCProgramme runs check all of     *)
(* them on small instances.                                                *)
(***************************************************************************)
EXTENDS Programme

Application ==
  [requested : Nat, votes : Seq(Nat), finalized : BOOLEAN, withdrawn : BOOLEAN]
Award ==
  [granted : Nat, released : Nat, tranches : Nat, tranches_released : Nat,
   payee : Address \cup {None}, mode : AllModes \cup {"none"}]

\* Every variable holds a value of the type the contract stores; in
\* particular no amount is ever negative, the token balance included.
TypeOK ==
  /\ now \in Nat /\ releaseDeadline \in Nat /\ sweepDeadline \in Nat
  /\ cancelled \in BOOLEAN /\ paused \in BOOLEAN /\ feeSwept \in BOOLEAN
  /\ contributed \in Nat /\ granted \in Nat /\ released \in Nat
  /\ refundedTotal \in Nat /\ sweptTotal \in Nat
  /\ donated \in [Donors -> Nat] /\ refunded \in [Donors -> Nat]
  /\ application \in [Applicants -> Application]
  /\ voted \in [Applicants -> [Reviewers -> Nat]]
  /\ award \in [Applicants -> Award]
  /\ payees \subseteq Destinations /\ verifiers \subseteq Verifiers
  /\ used \subseteq Attestations
  /\ allocation \in [Applicants -> Nat]
  /\ balance \in Nat /\ paid \in [Address -> Nat]
  /\ attested \in [Attestations -> {"unissued", "live", "void"}]
  /\ installed \subseteq Wallets
  /\ credited \in [Applicants -> [total : Nat, tranches : Nat]]

------------------------------------------------------------------------------
(* Reviewing *)

\* An application's vote vector is sorted and holds exactly one vote, the
\* latest, of each reviewer who voted on it, through any series of `review`
\* calls that amend equal and unequal votes.
VotesMatchBallots ==
  \A a \in Applicants :
    LET votes == application[a].votes IN
    /\ IsSorted(votes, <=)
    /\ \A amount \in ToSet(votes) \cup {voted[a][r] : r \in Reviewers} :
         amount # NoVote =>
           Cardinality({i \in DOMAIN votes : votes[i] = amount})
             = Cardinality({r \in Reviewers : voted[a][r] = amount})
    /\ NoVote \notin ToSet(votes)

\* The committee promise behind "median": whenever an award exists, more than
\* half of a quorum of distinct reviewers approved at least what it grants,
\* and no more was granted than was asked for.
AwardBackedByQuorum ==
  \A a \in Applicants : HasAward(a) =>
    /\ 2 * Cardinality({r \in Reviewers : voted[a][r] >= award[a].granted})
         > Quorum
    /\ award[a].granted <= application[a].requested
    /\ award[a].granted >= MinimumAward

\* An application is decided once: after `finalize` neither a late vote, an
\* amendment, a withdrawal nor another finalization changes what the award
\* promises, and a withdrawn application never gets an award.
AwardTermsFixed ==
  [][\A a \in Applicants :
       /\ HasAward(a) =>
            /\ HasAward(a)'
            /\ UNCHANGED application[a]
            /\ award'[a].granted = award[a].granted
            /\ award'[a].payee = award[a].payee
            /\ award'[a].mode = award[a].mode
       /\ application[a].withdrawn =>
            UNCHANGED <<application[a], voted[a], award[a]>>]_vars

\* First finalised, first served, but whatever the order, what finalize has
\* committed never exceeds the contributions less the fee.
BudgetNeverExceeded == granted <= Available

------------------------------------------------------------------------------
(* Releasing *)

\* No award has released more tranches than it has.  release_batch breaks
\* this, so the properties that depend on it say so.
NotOverReleased ==
  \A a \in Applicants : award[a].tranches_released <= award[a].tranches

\* One proof, one tranche: an award has released as many tranches as there
\* are used attestations about its recipient, and the standing contract was
\* credited for exactly those, through any mix of release and release_batch.
OneProofOneTranche ==
  \A a \in Applicants :
    /\ award[a].tranches_released = Cardinality({u \in used : u.subject = a})
    /\ credited[a] = [total |-> award[a].released,
                      tranches |-> award[a].tranches_released]

\* Single releases and batches cut an award alike: regular tranches, and the
\* rest with the last one, so that a completed award strands no dust.
ReleasedOnSchedule ==
  \A a \in Applicants : HasAward(a) => OnSchedule(award[a])

\* While tranches may be released the contract holds everything it promised:
\* what every award has left, on top of the escrow and of the unswept fee.
\* So no release is ever refused for want of money.
AwardsPayable ==
  ReleasesOpen /\ NotOverReleased =>
    SumFunction([a \in Applicants |-> award[a].granted - award[a].released])
      + SumFunction(allocation) + (IF feeSwept THEN 0 ELSE Fee) <= balance

\* Money leaves only for a sanctioned destination: the treasury, a donor once
\* refunds are open, a verified payee out of a recipient's escrow, or the
\* payee of the award being released, as its mode allows: the recipient
\* itself in Open mode, a wallet with its policy installed in Restricted
\* mode, and nobody in Allocated mode.
PaymentsAreSanctioned ==
  [][\A x \in Address : paid'[x] # paid[x] =>
       \/ x = Treasury
       \/ x \in Donors /\ RefundsOpen
       \/ x \in payees /\ \E a \in Applicants : allocation'[a] < allocation[a]
       \/ \E a \in Applicants :
            /\ award'[a].released > award[a].released
            /\ award[a].payee = x
            /\ award[a].mode # "Allocated"
            /\ award[a].mode = "Open" => x = a
            /\ award[a].mode = "Restricted" => x \in installed]_vars

\* What `pause` covers, by its own comment, the releases included.
PauseStopsReleases == [][paused => UNCHANGED released]_vars

\* Each tranche of an award is at least one unit, so that it can be released.
TranchesArePayable ==
  \A a \in Applicants : HasAward(a) => TrancheOf(award[a]) > 0

\* A programme's four deadlines stay in strict order.
DeadlinesInOrder ==
  /\ ApplyDeadline < ReviewDeadline
  /\ ReviewDeadline < releaseDeadline
  /\ releaseDeadline < sweepDeadline

------------------------------------------------------------------------------
(* Money *)

\* The contract's token balance is what its own books say: contributions,
\* less what was refunded, taken by the treasury, or released and not still
\* in escrow; and the totals are the sums of the per-address entries.
Conservation ==
  /\ balance = contributed - released + SumFunction(allocation)
                 - refundedTotal - paid[Treasury]
  /\ contributed = SumFunction(donated)
  /\ refundedTotal = SumFunction(refunded)
  /\ released = SumFunction([a \in Applicants |-> award[a].released])
  /\ granted = SumFunction([a \in Applicants |-> award[a].granted])

\* Refund entitlement still open to donor d.
Pending(d) ==
  IF donated[d] = 0 \/ RefundDue(d) < 0 THEN 0 ELSE RefundDue(d)

\* Until the sweep, the contract covers every donor's whole remaining share
\* at once, on top of the escrow and of the unswept fee, in whatever order
\* donors claim, in parts or at once: rounding never lets the refunds exceed
\* the pool.
DonorsPayable ==
  sweptTotal = 0 /\ NotOverReleased =>
    SumFunction([d \in Donors |-> Pending(d)])
      + SumFunction(allocation) + (IF feeSwept THEN 0 ELSE Fee) <= balance

\* No donor ever gets more than the proportional share of what was unpaid.
RefundsAreProportional ==
  \A d \in Donors :
    refunded[d] > 0 => refunded[d] * contributed <= donated[d] * Unpaid

\* Once one donor can claim, the pool that all shares are computed from can
\* not move again: no contribution, no release, and refunds stay open.
PoolFrozen ==
  [][RefundsOpen => RefundsOpen' /\ UNCHANGED <<contributed, released>>]_vars

\* Donors are never trapped: once refunds are open and until the sweep, a
\* donor with something due can claim it, paused or not, cancelled or not.
DonorsNeverTrapped ==
  \A d \in Donors :
    RefundsOpen /\ sweptTotal = 0 /\ NotOverReleased /\ Pending(d) > 0
      => CanRefund(d, RefundDue(d))

\* The treasury takes the fee once, and takes the fee of the final
\* contributions, whether sweep_fee or sweep_unclaimed comes first.
FeeTakenOnce ==
  /\ paid[Treasury] - sweptTotal \in {0, Fee}
  /\ ~feeSwept => paid[Treasury] = 0

\* A cancelled programme has paid no recipient: cancellation and release
\* exclude each other for good, in either order.
CancelledUnspent ==
  cancelled => /\ released = 0
               /\ \A a \in Applicants : allocation[a] = 0 /\ award[a].released = 0

------------------------------------------------------------------------------
(* Liveness *)

\* Time passes, and somebody makes the permissionless sweep call when it is
\* open; nothing is asked of donors, reviewers, recipients or the creator.
Fairness == WF_vars(Tick) /\ WF_vars(SweepUnclaimed)

FairSpec == Spec /\ Fairness

\* No token is stuck in a programme for ever, whatever its parties do or leave
\* undone, pause and cancellation included, once its creator has stopped
\* extending the release deadline (NewDeadlines bounds the extensions).
NothingStranded == <>[](balance = 0)
==============================================================================
