------------------------------ MODULE Programme ------------------------------
(***************************************************************************)
(* One funding round: contracts/program/src/lib.rs.                        *)
(*                                                                         *)
(* Donors contribute while the round is open, applicants ask, reviewers    *)
(* approve amounts, anyone finalizes an application into an award, and     *)
(* anyone releases a tranche of an award against an attestation that no    *)
(* tranche has used.  After the release window, or on cancellation, donors *)
(* reclaim what was never paid; after the sweep deadline what is left goes *)
(* to the treasury.                                                        *)
(*                                                                         *)
(* A Soroban invocation is atomic: it commits all of its writes or none of *)
(* them.  So each entry point is one action, its guard is the conjunction  *)
(* of every check the call makes (the ones after its first write and the   *)
(* ones of the contracts it calls included), and a rejected call is a      *)
(* stuttering step.  The order of calls is arbitrary.  Where the checks of *)
(* a call are the subject of properties they are an operator of their own, *)
(* CanContribute and its like; the rest of such an action assigns.         *)
(*                                                                         *)
(* The last two sections of the state stand for the contracts a programme  *)
(* calls: its balance at the token, the attestations it asks about, the    *)
(* wallets with a spending policy, and the standing it credits.            *)
(***************************************************************************)
EXTENDS Amounts, Votes

CONSTANTS
  Donors, Applicants,      \* addresses that contribute and that apply
  ReviewerList,            \* the reviewers argument of the constructor, a Vec
  VerifierList,            \* the verifiers argument of the constructor, a Vec
  Verifiers,               \* addresses that may ever be verifiers
  Destinations,            \* schools, suppliers and wallets money may go to
  Wallets,                 \* destinations that can hold a spending policy
  Treasury, None,          \* the treasury address; no payee
  Attestations,            \* records [subject, attester, ...] under the schema
  SchemaAuthority,         \* who alone may attest, or None if anybody may
  FeeBps, Quorum, Tranches, MinimumAward,
  ApplyDeadline, ReviewDeadline, InitialReleaseDeadline, InitialSweepDeadline,
  MAX_AMOUNT,              \* stands for i128::MAX: totals never exceed it
  \* The arguments the environment may pass.
  Contributions, Requests, Approvals, PartialAmounts, Modes, NewDeadlines,
  MaxTime,                 \* bound on the ledger clock
  MaxBatch                 \* bound on uids per batch, at most MAX_PAYEE_BATCH

MAX_QUORUM == 16
MAX_PAYEE_BATCH == 50
AllModes == {"Direct", "Allocated", "Restricted", "Open"}

Reviewers == ToSet(ReviewerList)
Address == Donors \cup Applicants \cup Destinations \cup {Treasury}

ASSUME SetsAssumption ==
  /\ IsFiniteSet(Donors) /\ IsFiniteSet(Applicants) /\ IsFiniteSet(Attestations)
  /\ Wallets \subseteq Destinations
  /\ ToSet(VerifierList) \subseteq Verifiers
  /\ \A u \in Attestations : u.subject \in Applicants /\ u.attester \in Verifiers
  /\ None \notin Address
  /\ Treasury \notin Donors \cup Applicants \cup Destinations
  /\ Modes \subseteq AllModes

ASSUME InputsAssumption ==
  /\ Contributions \subseteq Int /\ Requests \subseteq Int
  /\ Approvals \subseteq Int /\ PartialAmounts \subseteq Int
  /\ NewDeadlines \subseteq Nat
  /\ MAX_AMOUNT \in Nat /\ MaxTime \in Nat
  /\ MaxBatch \in 1 .. MAX_PAYEE_BATCH

\* What __constructor insists on before a programme exists, at time 0.  The
\* quorum is compared with the length of the Vec, not with the number of
\* distinct reviewers.
ConstructorChecks ==
  /\ FeeBps \in 0 .. MAX_FEE_BPS
  /\ ApplyDeadline \in Nat /\ ReviewDeadline \in Nat
  /\ InitialReleaseDeadline \in Nat /\ InitialSweepDeadline \in Nat
  /\ 0 < ApplyDeadline
  /\ ApplyDeadline < ReviewDeadline
  /\ ReviewDeadline < InitialReleaseDeadline
  /\ InitialReleaseDeadline < InitialSweepDeadline
  /\ Len(ReviewerList) > 0 /\ Len(VerifierList) > 0
  /\ Quorum \in 1 .. MAX_QUORUM /\ Quorum <= Len(ReviewerList)
  /\ Tranches \in Nat \ {0}
  /\ MinimumAward \in Nat
  /\ MinimumAward > 0 => MinimumAward >= Tranches
  /\ SchemaAuthority = None \/ SchemaAuthority \in ToSet(VerifierList)

ASSUME ConstructorAssumption == ConstructorChecks

------------------------------------------------------------------------------
VARIABLES
  now, releaseDeadline, sweepDeadline,      \* clock and the movable deadlines
  cancelled, paused, feeSwept,              \* instance flags
  contributed, granted, released,           \* instance totals
  refundedTotal, sweptTotal,
  donated, refunded,                        \* Key::Donor, Key::Refunded
  application, voted, award,                \* per applicant
  payees, verifiers, used, allocation,      \* Key::Payee .. Key::Allocation
  balance, paid,                            \* token: held here, and sent on
  attested, installed, credited             \* attest, policy-spend, record

timeVars == <<now, releaseDeadline, sweepDeadline>>
flagVars == <<cancelled, paused>>
donorVars == <<contributed, donated>>
refundVars == <<refundedTotal, refunded>>
reviewVars == <<application, voted>>
releaseVars == <<released, used, credited>>
trustVars == <<payees, verifiers>>
treasuryVars == <<feeSwept, sweptTotal>>
tokenVars == <<balance, paid>>
outsideVars == <<attested, installed>>
vars == <<timeVars, flagVars, donorVars, refundVars, reviewVars, granted, award,
          releaseVars, trustVars, treasuryVars, allocation, tokenVars,
          outsideVars>>

NoApplication ==
  [requested |-> 0, votes |-> << >>, finalized |-> FALSE, withdrawn |-> FALSE]
NoAward ==
  [granted |-> 0, released |-> 0, tranches |-> 0, tranches_released |-> 0,
   payee |-> None, mode |-> "none"]
NoVote == 0

Init ==
  /\ now = 0
  /\ releaseDeadline = InitialReleaseDeadline
  /\ sweepDeadline = InitialSweepDeadline
  /\ cancelled = FALSE /\ paused = FALSE /\ feeSwept = FALSE
  /\ contributed = 0 /\ granted = 0 /\ released = 0
  /\ refundedTotal = 0 /\ sweptTotal = 0
  /\ donated = [d \in Donors |-> 0] /\ refunded = [d \in Donors |-> 0]
  /\ application = [a \in Applicants |-> NoApplication]
  /\ voted = [a \in Applicants |-> [r \in Reviewers |-> NoVote]]
  /\ award = [a \in Applicants |-> NoAward]
  /\ payees = {} /\ verifiers = ToSet(VerifierList) /\ used = {}
  /\ allocation = [a \in Applicants |-> 0]
  /\ balance = 0 /\ paid = [x \in Address |-> 0]
  /\ attested = [u \in Attestations |-> "unissued"] /\ installed = {}
  /\ credited = [a \in Applicants |-> [total |-> 0, tranches |-> 0]]

------------------------------------------------------------------------------
(* Views and checks the entry points share. *)

Phase ==
  IF cancelled THEN "Cancelled"
  ELSE IF now < ApplyDeadline THEN "Open"
  ELSE IF now < ReviewDeadline THEN "Review"
  ELSE "Settled"

Fee == FeeOf(contributed, FeeBps)
Available == AvailableOf(contributed, FeeBps)

\* What was never paid to a recipient: the pool that refunds share.
Unpaid == Available - released

HasApplied(a) == application[a].requested # 0
HasAward(a) == award[a].mode # "none"

\* Mutant: a finalized application is still open to votes.
MutUndecided(a) == HasApplied(a) /\ ~application[a].withdrawn

\* Neither finalized nor withdrawn: still open to votes and to finalization.
Undecided(a) ==
  HasApplied(a) /\ ~application[a].finalized /\ ~application[a].withdrawn

RefundsOpen == Phase = "Cancelled" \/ now >= releaseDeadline

ReleasesOpen == Phase # "Cancelled" /\ now < releaseDeadline

\* Token transfer out of the contract, which reverts beyond its balance.
Pay(to, amount) ==
  /\ balance >= amount
  /\ balance' = balance - amount
  /\ paid' = [paid EXCEPT ![to] = @ + amount]

------------------------------------------------------------------------------
(* Funding and applying. *)

CanContribute(amount) ==
  /\ ~paused
  /\ Phase = "Open"
  /\ amount > 0
  /\ contributed + amount <= MAX_AMOUNT

Contribute(d, amount) ==
  /\ CanContribute(amount)
  /\ donated' = [donated EXCEPT ![d] = @ + amount]
  /\ contributed' = contributed + amount
  /\ balance' = balance + amount
  /\ UNCHANGED <<timeVars, flagVars, refundVars, reviewVars, granted, award,
                 releaseVars, trustVars, treasuryVars, allocation, paid,
                 outsideVars>>

CanApply(a, requested) ==
  /\ ~paused
  /\ Phase = "Open"
  /\ requested > 0
  /\ ~HasApplied(a)

Apply(a, requested) ==
  /\ CanApply(a, requested)
  /\ application' = [application EXCEPT ![a] =
                       [NoApplication EXCEPT !.requested = requested]]
  /\ UNCHANGED <<timeVars, flagVars, donorVars, refundVars, voted, granted,
                 award, releaseVars, trustVars, treasuryVars, allocation,
                 tokenVars, outsideVars>>

\* A withdrawn application stays on record, so the applicant cannot reapply.
Withdraw(a) ==
  /\ Undecided(a)
  /\ application' = [application EXCEPT ![a].withdrawn = TRUE]
  /\ UNCHANGED <<timeVars, flagVars, donorVars, refundVars, voted, granted,
                 award, releaseVars, trustVars, treasuryVars, allocation,
                 tokenVars, outsideVars>>

------------------------------------------------------------------------------
(* Reviewing and finalizing. *)

CanReview(a, approved) ==
  /\ ~paused
  /\ Phase = "Review"
  /\ Undecided(a)
  /\ approved > 0
  /\ approved <= application[a].requested

\* A first vote, or the amendment of an earlier one.
Review(r, a, approved) ==
  /\ CanReview(a, approved)
  /\ application' =
       [application EXCEPT ![a].votes =
          IF voted[a][r] = NoVote
          THEN InsertVote(@, approved)
          ELSE AmendVote(@, voted[a][r], approved)]
  /\ voted' = [voted EXCEPT ![a][r] = approved]
  /\ UNCHANGED <<timeVars, flagVars, donorVars, refundVars, granted, award,
                 releaseVars, trustVars, treasuryVars, allocation, tokenVars,
                 outsideVars>>

\* What each mode asks of the payee when it is chosen.
PayeeFits(a, payee, mode) ==
  /\ mode = "Direct" => payee \in payees
  /\ mode = "Open" => payee = a

\* Mutant: budgets one award against the contributions, fee included.
MutWithinBudget(amount) == granted + amount <= contributed

WithinBudget(amount) == granted + amount <= Available

\* What finalize computes from the votes.
SettledAward(a) == SettledAmount(application[a].votes, Quorum)

CanFinalize(a, payee, mode) ==
  /\ ~paused
  /\ Phase \in {"Review", "Settled"}
  /\ Undecided(a)
  /\ Len(application[a].votes) >= Quorum
  /\ SettledAward(a) >= MinimumAward
  /\ PayeeFits(a, payee, mode)
  /\ WithinBudget(SettledAward(a))

\* Permissionless: anybody may call it, and picks the payee and the mode.
Finalize(a, payee, mode) ==
  /\ CanFinalize(a, payee, mode)
  /\ application' = [application EXCEPT ![a].finalized = TRUE]
  /\ granted' = granted + SettledAward(a)
  /\ award' = [award EXCEPT ![a] =
                 [granted |-> SettledAward(a), released |-> 0,
                  tranches |-> Tranches, tranches_released |-> 0,
                  payee |-> payee, mode |-> mode]]
  /\ UNCHANGED <<timeVars, flagVars, donorVars, refundVars, voted, releaseVars,
                 trustVars, treasuryVars, allocation, tokenVars, outsideVars>>

------------------------------------------------------------------------------
(* Releasing tranches against attestations. *)

\* attest.verify: a live claim by this attester about this recipient.
Proven(u, a, attester) ==
  attested[u] = "live" /\ u.subject = a /\ u.attester = attester

\* Mutant: a proof may be used again.
MutUnused(u) == TRUE

Unused(u) == u \notin used

\* Mutant: a Restricted tranche is paid without asking for the policy.
MutPolicyHolds(a) == TRUE

\* Restricted money goes only to a wallet whose policy is installed.
PolicyHolds(a) == award[a].mode = "Restricted" => award[a].payee \in installed

\* pay_out: Allocated money stays here in escrow, any other is transferred.
PayOut(a, amount) ==
  /\ PolicyHolds(a)
  /\ \/ /\ award[a].mode = "Allocated"
        /\ allocation' = [allocation EXCEPT ![a] = @ + amount]
        /\ UNCHANGED tokenVars
     \/ /\ award[a].mode \in {"Direct", "Restricted", "Open"}
        /\ Pay(award[a].payee, amount)
        /\ UNCHANGED allocation

\* record.credit, once per tranche; the record keeps the sum and the count.
Credit(a, amount, n) ==
  credited' = [credited EXCEPT
                 ![a] = [total |-> @.total + amount, tranches |-> @.tranches + n]]

TranchesLeft(a) == HasAward(a) /\ award[a].tranches_released < award[a].tranches

\* The last three are checks of record.credit, the policy and the token.
CanRelease(a, u, attester) ==
  LET amount == NextTranche(award[a]) IN
  /\ ~paused
  /\ ReleasesOpen
  /\ attester \in verifiers
  /\ Unused(u)
  /\ Proven(u, a, attester)
  /\ TranchesLeft(a)
  /\ amount > 0
  /\ PolicyHolds(a)
  /\ award[a].mode # "Allocated" => balance >= amount

Release(a, u, attester) ==
  LET amount == NextTranche(award[a]) IN
  /\ CanRelease(a, u, attester)
  /\ award' = [award EXCEPT ![a] = Advance(@)]
  /\ used' = used \cup {u}
  /\ released' = released + amount
  /\ PayOut(a, amount)
  /\ Credit(a, amount, 1)
  /\ UNCHANGED <<timeVars, flagVars, donorVars, refundVars, reviewVars, granted,
                 trustVars, treasuryVars, outsideVars>>

\* All uids of the batch or none.  A uid given twice is refused as used, and
\* the order of the uids makes no difference to anything modelled here, so
\* the Vec is a set.  The call does not ask whether the programme is paused,
\* and asks only once, before the loop, whether any tranche is left.
ReleaseBatch(a, uids, attester) ==
  LET n == Cardinality(uids)
      amount == BatchAmount(award[a], n) IN
  /\ n \in 1 .. MaxBatch
  /\ ReleasesOpen
  /\ attester \in verifiers
  /\ TranchesLeft(a)
  /\ \A u \in uids : Unused(u) /\ Proven(u, a, attester)
  /\ EveryTranchePositive(award[a], n)              \* record.credit insists
  /\ award' = [award EXCEPT ![a] = AdvanceBy(@, n)]
  /\ used' = used \cup uids
  /\ released' = released + amount
  /\ PayOut(a, amount)
  /\ Credit(a, amount, n)
  /\ UNCHANGED <<timeVars, flagVars, donorVars, refundVars, reviewVars, granted,
                 trustVars, treasuryVars, outsideVars>>

\* Mutant: a recipient may direct whatever the contract holds.
MutEscrowed(a, amount) == balance >= amount

Escrowed(a, amount) == allocation[a] >= amount

CanSpend(a, payee, amount) ==
  /\ ~paused
  /\ now < sweepDeadline
  /\ amount > 0
  /\ payee \in payees
  /\ Escrowed(a, amount)
  /\ balance >= amount

\* A recipient directs escrowed money to a verified payee.
Spend(a, payee, amount) ==
  /\ CanSpend(a, payee, amount)
  /\ allocation' = [allocation EXCEPT ![a] = @ - amount]
  /\ Pay(payee, amount)
  /\ UNCHANGED <<timeVars, flagVars, donorVars, refundVars, reviewVars, granted,
                 award, releaseVars, trustVars, treasuryVars, outsideVars>>

------------------------------------------------------------------------------
(* Refunds, the fee and the sweep. *)

RefundShare(d) == ShareOf(donated[d], Unpaid, contributed)

\* Mutant: forgets what the donor already claimed.
MutRefundDue(d) == RefundShare(d)

\* What donor d may still claim; zero or less when there is nothing.
RefundDue(d) == RefundShare(d) - refunded[d]

\* Mutant: a partial claim uses up the whole share.
MutBookRefund(d, amount) ==
  /\ refunded' = [refunded EXCEPT ![d] = RefundShare(d)]
  /\ refundedTotal' = refundedTotal + amount

BookRefund(d, amount) ==
  /\ refunded' = [refunded EXCEPT ![d] = @ + amount]
  /\ refundedTotal' = refundedTotal + amount

CanRefund(d, amount) ==
  /\ RefundsOpen
  /\ donated[d] # 0
  /\ Unpaid > 0
  /\ RefundShare(d) > 0
  /\ amount > 0
  /\ amount <= RefundDue(d)
  /\ balance >= amount

\* execute_refund: part or all of what is due.
ExecuteRefund(d, amount) ==
  /\ CanRefund(d, amount)
  /\ BookRefund(d, amount)
  /\ Pay(d, amount)
  /\ UNCHANGED <<timeVars, flagVars, donorVars, reviewVars, granted, award,
                 releaseVars, trustVars, treasuryVars, allocation, outsideVars>>

Refund(d) == ExecuteRefund(d, RefundDue(d))
RefundPartial(d, amount) == ExecuteRefund(d, amount)

\* Mutant: the fee may be taken while contributions still come in.
MutFeeSweepable == ~feeSwept

\* Mutant: the fee may be taken again.
MutFeeUnswept == Phase # "Open"

FeeSweepable == Phase # "Open" /\ ~feeSwept

\* A fee of zero is marked swept without a transfer.
SweepFee ==
  /\ FeeSweepable
  /\ feeSwept' = TRUE
  /\ Pay(Treasury, Fee)
  /\ UNCHANGED <<timeVars, flagVars, donorVars, refundVars, reviewVars, granted,
                 award, releaseVars, trustVars, sweptTotal, allocation,
                 outsideVars>>

\* Mutant: a programme whose fee was swept cannot be swept again.
MutSweepOpen == now >= sweepDeadline /\ ~feeSwept

SweepOpen == now >= sweepDeadline

\* The whole balance goes, an unswept fee and undirected escrow included.
SweepUnclaimed ==
  /\ SweepOpen
  /\ balance > 0
  /\ feeSwept' = TRUE
  /\ sweptTotal' = sweptTotal + balance
  /\ Pay(Treasury, balance)
  /\ UNCHANGED <<timeVars, flagVars, donorVars, refundVars, reviewVars, granted,
                 award, releaseVars, trustVars, allocation, outsideVars>>

------------------------------------------------------------------------------
(* The creator's powers. *)

\* Mutant: cancels although money has been released.
MutCancellable == ~cancelled

Cancellable == ~cancelled /\ released = 0

Cancel ==
  /\ Cancellable
  /\ cancelled' = TRUE
  /\ UNCHANGED <<timeVars, paused, donorVars, refundVars, reviewVars, granted,
                 award, releaseVars, trustVars, treasuryVars, allocation,
                 tokenVars, outsideVars>>

\* Mutant: extends a window that has already closed.
MutExtendable(deadline) == deadline > releaseDeadline

Extendable(deadline) == now < releaseDeadline /\ deadline > releaseDeadline

\* The sweep deadline is pushed along when the new one lies beyond it.
ExtendReleaseDeadline(deadline) ==
  /\ Extendable(deadline)
  /\ releaseDeadline' = deadline
  /\ sweepDeadline' = IF deadline > sweepDeadline THEN deadline ELSE sweepDeadline
  /\ UNCHANGED <<now, flagVars, donorVars, refundVars, reviewVars, granted, award,
                 releaseVars, trustVars, treasuryVars, allocation, tokenVars,
                 outsideVars>>

Pause ==
  /\ ~paused /\ ~cancelled
  /\ paused' = TRUE
  /\ UNCHANGED <<timeVars, cancelled, donorVars, refundVars, reviewVars, granted,
                 award, releaseVars, trustVars, treasuryVars, allocation,
                 tokenVars, outsideVars>>

\* Unpausing what is not paused succeeds and changes nothing.
Unpause ==
  /\ paused
  /\ paused' = FALSE
  /\ UNCHANGED <<timeVars, cancelled, donorVars, refundVars, reviewVars, granted,
                 award, releaseVars, trustVars, treasuryVars, allocation,
                 tokenVars, outsideVars>>

\* What a change of the payee or verifier list leaves alone.
ListChange ==
  UNCHANGED <<timeVars, flagVars, donorVars, refundVars, reviewVars, granted,
              award, releaseVars, treasuryVars, allocation, tokenVars,
              outsideVars>>

AllowPayee(p) ==
  p \notin payees /\ payees' = payees \cup {p} /\ UNCHANGED verifiers /\ ListChange

DenyPayee(p) ==
  p \in payees /\ payees' = payees \ {p} /\ UNCHANGED verifiers /\ ListChange

\* The batch forms skip the payees that are, or are not, already there.
AllowPayees(ps) ==
  /\ Cardinality(ps) <= MAX_PAYEE_BATCH
  /\ payees' = payees \cup ps
  /\ UNCHANGED verifiers /\ ListChange

DenyPayees(ps) ==
  /\ Cardinality(ps) <= MAX_PAYEE_BATCH
  /\ payees' = payees \ ps
  /\ UNCHANGED verifiers /\ ListChange

AddVerifier(v) ==
  /\ v \notin verifiers
  /\ verifiers' = verifiers \cup {v}
  /\ UNCHANGED payees /\ ListChange

RemoveVerifier(v) ==
  /\ v \in verifiers
  /\ verifiers' = verifiers \ {v}
  /\ UNCHANGED payees /\ ListChange

------------------------------------------------------------------------------
(* The world outside the contract. *)

\* What time and the other contracts leave alone.
ProgrammeUnchanged ==
  UNCHANGED <<releaseDeadline, sweepDeadline, flagVars, donorVars, refundVars,
              reviewVars, granted, award, releaseVars, trustVars, treasuryVars,
              allocation, tokenVars>>

\* Ledger time moves forward whatever the contract does.
Tick ==
  /\ now < MaxTime
  /\ now' = now + 1
  /\ ProgrammeUnchanged /\ UNCHANGED outsideVars

\* attest.attest: a restricted schema accepts claims of its authority only.
\* The uid hashes a nonce, so it is never issued twice.
Attest(u) ==
  /\ attested[u] = "unissued"
  /\ SchemaAuthority = None \/ u.attester = SchemaAuthority
  /\ attested' = [attested EXCEPT ![u] = "live"]
  /\ ProgrammeUnchanged /\ UNCHANGED <<now, installed>>

\* attest.revoke, or the attestation's expiry: it never verifies again.
Void(u) ==
  /\ attested[u] = "live"
  /\ attested' = [attested EXCEPT ![u] = "void"]
  /\ ProgrammeUnchanged /\ UNCHANGED <<now, installed>>

\* policy-spend install and uninstall.
Install(w) ==
  /\ w \notin installed
  /\ installed' = installed \cup {w}
  /\ ProgrammeUnchanged /\ UNCHANGED <<now, attested>>

Uninstall(w) ==
  /\ w \in installed
  /\ installed' = installed \ {w}
  /\ ProgrammeUnchanged /\ UNCHANGED <<now, attested>>

------------------------------------------------------------------------------

DonorStep ==
  \E d \in Donors :
    \/ \E amount \in Contributions : Contribute(d, amount)
    \/ Refund(d)
    \/ \E amount \in PartialAmounts : RefundPartial(d, amount)

ApplicantStep ==
  \E a \in Applicants :
    \/ \E requested \in Requests : Apply(a, requested)
    \/ Withdraw(a)
    \/ \E r \in Reviewers, approved \in Approvals : Review(r, a, approved)
    \/ \E payee \in Destinations \cup {a}, mode \in Modes : Finalize(a, payee, mode)
    \/ \E p \in Destinations, amount \in PartialAmounts : Spend(a, p, amount)

ReleaseStep ==
  \E a \in Applicants, v \in Verifiers :
    \/ \E u \in Attestations : Release(a, u, v)
    \/ \E uids \in SUBSET Attestations : ReleaseBatch(a, uids, v)

TreasuryStep == SweepFee \/ SweepUnclaimed

CreatorStep ==
  \/ Cancel \/ Pause \/ Unpause
  \/ \E deadline \in NewDeadlines : ExtendReleaseDeadline(deadline)
  \/ \E p \in Destinations : AllowPayee(p) \/ DenyPayee(p)
  \/ \E ps \in SUBSET Destinations : AllowPayees(ps) \/ DenyPayees(ps)
  \/ \E v \in Verifiers : AddVerifier(v) \/ RemoveVerifier(v)

OutsideStep ==
  \/ Tick
  \/ \E u \in Attestations : Attest(u) \/ Void(u)
  \/ \E w \in Wallets : Install(w) \/ Uninstall(w)

Next ==
  DonorStep \/ ApplicantStep \/ ReleaseStep \/ TreasuryStep \/ CreatorStep
  \/ OutsideStep

Spec == Init /\ [][Next]_vars

==============================================================================
