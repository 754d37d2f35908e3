--------------------------- MODULE ProgrammeProofs ---------------------------
(***************************************************************************)
(* Properties of Programme that hold for every value of its constants.     *)
(*                                                                         *)
(* The argument is one chain of inductive invariants.  TypeOK and AwardsOK *)
(* come first and together, since an amount is a natural number only       *)
(* because releases keep an award on its schedule; each later theorem uses *)
(* the invariants proved before it.                                        *)
(***************************************************************************)
EXTENDS ProgrammeProperties, AlgorithmProofs, FiniteSetTheorems

\* Every award is as finalize made it and as releases advanced it: it belongs
\* to a decided application, can be paid, and is on its schedule.
AwardsOK ==
  \A a \in Applicants :
    \/ award[a] = NoAward
    \/ /\ award[a] \in AwardOf(Destinations \cup {a}, Modes)
       /\ award[a].mode = "Open" => award[a].payee = a
       /\ HasApplied(a) /\ application[a].finalized /\ ~application[a].withdrawn
       /\ OnSchedule(award[a])

TypedAwards == TypeOK /\ AwardsOK

\* Steps of the lists, the pause switch, the clock and the other contracts:
\* none of them touches money, applications, awards or deadlines.
Quiet ==
  /\ UNCHANGED <<releaseDeadline, sweepDeadline, cancelled, donorVars, refundVars,
                 reviewVars, granted, award, releaseVars, treasuryVars,
                 allocation, tokenVars>>
  /\ now' \in {now, now + 1} /\ (paused' \in BOOLEAN \/ paused' = paused)
  /\ payees' \subseteq payees \cup Destinations
  /\ verifiers' \subseteq verifiers \cup Verifiers
  /\ installed' \subseteq installed \cup Wallets
  /\ \/ attested' = attested
     \/ \E u \in Attestations, s \in {"live", "void"} :
          attested' = [attested EXCEPT ![u] = s]

\* What a release does, alone or in a batch: uids unlock n tranches of award a
\* that are worth amount together.
ReleaseEffect(a, amount, n, uids) ==
  /\ ReleasesOpen /\ TranchesLeft(a)
  /\ award[a] \in AwardOf(Destinations \cup {a}, Modes)
  /\ \E next \in AwardOf(Destinations \cup {a}, Modes) :
       /\ award' = [award EXCEPT ![a] = next]
       /\ next.granted = award[a].granted
       /\ next.payee = award[a].payee /\ next.mode = award[a].mode
       /\ next.released = award[a].released + amount
       /\ next.tranches_released = award[a].tranches_released + n
       /\ OnSchedule(next)
  /\ uids \cap used = {} /\ used' = used \cup uids
  /\ Cardinality(uids) = n /\ \A u \in uids : u.subject = a
  /\ released' = released + amount
  /\ PayOut(a, amount) /\ Credit(a, amount, n)
  /\ UNCHANGED <<timeVars, flagVars, donorVars, refundVars, reviewVars, granted,
                 trustVars, treasuryVars, outsideVars>>

------------------------------------------------------------------------------
(* Facts about a typed state that several proofs use. *)

\* The fee, the budget and the unpaid pool are numbers, and the first two are
\* part of what was contributed.
LEMMA AmountFacts ==
  ASSUME TypeOK
  PROVE  /\ Fee \in Nat /\ Fee <= contributed
         /\ Available \in Nat /\ Available = contributed - Fee
         /\ Unpaid \in Int /\ (Unpaid > 0 => contributed > 0)
<1>1. contributed \in Nat /\ released \in Nat
  BY DEF TypeOK
<1>2. /\ FeeOf(contributed, FeeBps) \in Nat
      /\ FeeOf(contributed, FeeBps) <= contributed
      /\ AvailableOf(contributed, FeeBps) \in Nat
  BY <1>1, FeeBounds, ConstructorAssumption DEF ConstructorChecks
<1>3. Available = contributed - Fee
  BY DEF Available, Fee, AvailableOf
<1> QED
  BY <1>1, <1>2, <1>3 DEF Fee, Available, Unpaid

\* What a refund takes is a positive number within the donor's share.
LEMMA RefundFacts ==
  ASSUME TypeOK, NEW d \in Donors,
         NEW amount \in PartialAmounts \cup {RefundDue(d)},
         ExecuteRefund(d, amount)
  PROVE  /\ amount \in Nat \ {0}
         /\ contributed > 0 /\ Unpaid \in Int
         /\ refunded[d] + amount \in Nat
         /\ refunded[d] + amount <= (donated[d] * Unpaid) \div contributed
<1>1. Unpaid > 0 /\ amount > 0 /\ amount <= RefundDue(d)
  BY DEF ExecuteRefund, CanRefund
<1>2. contributed \in Nat /\ contributed > 0 /\ Unpaid \in Int
  BY <1>1, AmountFacts DEF TypeOK
<1>3. donated[d] \in Nat /\ refunded[d] \in Nat
  BY DEF TypeOK
<1> DEFINE s == (donated[d] * Unpaid) \div contributed
<1>4. s \in Int
  <2>1. donated[d] * Unpaid \in Int
    BY <1>2, <1>3
  <2> QED
    BY <1>2, <2>1, SMT
<1>5. RefundDue(d) = s - refunded[d]
  BY DEF RefundDue, RefundShare, ShareOf
<1>6. amount \in Int
  BY <1>3, <1>4, <1>5, InputsAssumption
<1> HIDE DEF s
<1> QED
  BY <1>1, <1>2, <1>3, <1>4, <1>5, <1>6 DEF s

\* A payment keeps the balance and what was paid numbers, and moves money to
\* its destination only.
LEMMA PayFacts ==
  ASSUME TypeOK, NEW to \in Address, NEW amount \in Nat, Pay(to, amount)
  PROVE  /\ balance' \in Nat /\ paid' \in [Address -> Nat]
         /\ balance' = balance - amount
         /\ paid'[to] = paid[to] + amount
         /\ \A x \in Address : x # to => paid'[x] = paid[x]
BY DEF Pay, TypeOK

\* A single release has that effect ...
LEMMA ReleaseHasEffect ==
  ASSUME TypedAwards, NEW a \in Applicants, NEW u \in Attestations,
         NEW v \in Verifiers, Release(a, u, v)
  PROVE  NextTranche(award[a]) \in Nat \ {0}
         /\ ReleaseEffect(a, NextTranche(award[a]), 1, {u})
<1> DEFINE amount == NextTranche(award[a])
           next == Advance(award[a])
<1>1. /\ TranchesLeft(a) /\ amount > 0 /\ ReleasesOpen
      /\ award' = [award EXCEPT ![a] = next] /\ released' = released + amount
      /\ used' = used \cup {u} /\ PayOut(a, amount) /\ Credit(a, amount, 1)
      /\ u \notin used /\ u.subject = a
      /\ UNCHANGED <<timeVars, flagVars, donorVars, refundVars, reviewVars,
                     granted, trustVars, treasuryVars, outsideVars>>
  BY DEF Release, CanRelease, Unused, Proven
<1>2. /\ award[a] \in AwardOf(Destinations \cup {a}, Modes)
      /\ OnSchedule(award[a])
      /\ award[a].tranches_released < award[a].tranches
  BY <1>1 DEF TypedAwards, AwardsOK, TranchesLeft, HasAward, NoAward
<1>3. amount \in Nat /\ OnSchedule(next)
  BY <1>2, AdvanceOnSchedule
<1>4. next \in AwardOf(Destinations \cup {a}, Modes)
  <2>1. award[a].released + amount \in Nat
    BY <1>2, <1>3 DEF AwardOf
  <2> QED
    BY <1>2, <2>1, AdvanceType
<1>5. /\ next.granted = award[a].granted
      /\ next.payee = award[a].payee /\ next.mode = award[a].mode
      /\ next.released = award[a].released + amount
      /\ next.tranches_released = award[a].tranches_released + 1
  BY <1>2 DEF Advance, AwardOf
<1>6. Cardinality({u}) = 1
  BY FS_Singleton
<1> HIDE DEF amount, next
<1>7. amount \in Nat \ {0}
  BY <1>1, <1>3
<1>8. ReleaseEffect(a, amount, 1, {u})
  BY <1>1, <1>2, <1>3, <1>4, <1>5, <1>6 DEF ReleaseEffect
<1> QED
  BY <1>7, <1>8 DEF amount

\* ... and so has a batch.
LEMMA BatchHasEffect ==
  ASSUME TypedAwards, NEW a \in Applicants, NEW uids \in SUBSET Attestations,
         NEW v \in Verifiers, ReleaseBatch(a, uids, v)
  PROVE  /\ Cardinality(uids) \in Nat \ {0}
         /\ BatchAmount(award[a], Cardinality(uids)) \in Nat \ {0}
         /\ ReleaseEffect(a, BatchAmount(award[a], Cardinality(uids)),
                          Cardinality(uids), uids)
<1> DEFINE n == Cardinality(uids)
           amount == BatchAmount(award[a], n)
           next == AdvanceBy(award[a], n)
<1>1. /\ TranchesLeft(a) /\ ReleasesOpen /\ EveryTranchePositive(award[a], n)
      /\ award' = [award EXCEPT ![a] = next] /\ released' = released + amount
      /\ used' = used \cup uids /\ PayOut(a, amount) /\ Credit(a, amount, n)
      /\ uids \cap used = {} /\ \A u \in uids : u.subject = a
      /\ UNCHANGED <<timeVars, flagVars, donorVars, refundVars, reviewVars,
                     granted, trustVars, treasuryVars, outsideVars>>
  BY DEF ReleaseBatch, Unused, Proven
<1>2. n \in Nat \ {0}
  BY InputsAssumption DEF ReleaseBatch, MAX_PAYEE_BATCH
<1>3. /\ award[a] \in AwardOf(Destinations \cup {a}, Modes)
      /\ OnSchedule(award[a])
      /\ award[a].tranches_released < award[a].tranches
  BY <1>1 DEF TypedAwards, AwardsOK, TranchesLeft, HasAward, NoAward
<1> HIDE DEF n
<1>4. amount \in Nat \ {0} /\ OnSchedule(next)
  BY <1>1, <1>2, <1>3, AdvanceByOnSchedule
<1>5. next \in AwardOf(Destinations \cup {a}, Modes)
  <2>1. award[a].released + amount \in Nat
    BY <1>3, <1>4 DEF AwardOf
  <2> QED
    BY <1>2, <1>3, <2>1, AdvanceType
<1>6. /\ next.granted = award[a].granted
      /\ next.payee = award[a].payee /\ next.mode = award[a].mode
      /\ next.released = award[a].released + amount
      /\ next.tranches_released = award[a].tranches_released + n
  BY <1>2, <1>3 DEF AdvanceBy, AwardOf
<1>7. Cardinality(uids) = n
  BY DEF n
<1> HIDE DEF amount, next
<1>8. ReleaseEffect(a, amount, n, uids)
  BY <1>1, <1>3, <1>4, <1>5, <1>6, <1>7 DEF ReleaseEffect
<1> QED
  BY <1>2, <1>4, <1>8 DEF amount, n

\* pay_out: the escrow and the token stay typed, the escrow only grows, and
\* nothing leaves for an address other than the award's payee.
LEMMA PayOutFacts ==
  ASSUME TypeOK, NEW a \in Applicants, NEW amount \in Nat,
         award[a].payee \in Destinations \cup {a}, PayOut(a, amount)
  PROVE  /\ allocation' \in [Applicants -> Nat]
         /\ balance' \in Nat /\ paid' \in [Address -> Nat]
         /\ \A x \in Address : x # award[a].payee => paid'[x] = paid[x]
         /\ award[a].mode = "Allocated" => UNCHANGED tokenVars
<1>1. CASE /\ award[a].mode = "Allocated"
           /\ allocation' = [allocation EXCEPT ![a] = @ + amount]
           /\ UNCHANGED tokenVars
  BY <1>1 DEF TypeOK, tokenVars
<1>2. CASE /\ award[a].mode \in {"Direct", "Restricted", "Open"}
           /\ Pay(award[a].payee, amount)
           /\ UNCHANGED allocation
  <2>1. award[a].payee \in Address
    BY DEF Address
  <2> QED
    BY <1>2, <2>1, PayFacts DEF TypeOK
<1> QED
  BY <1>1, <1>2 DEF PayOut

\* Every step is one of these; the invariance proofs split on them.
LEMMA StepCases ==
  ASSUME TypedAwards, [Next]_vars
  PROVE  \/ \E d \in Donors, amount \in Contributions : Contribute(d, amount)
         \/ \E d \in Donors : \E amount \in PartialAmounts \cup {RefundDue(d)} :
              ExecuteRefund(d, amount)
         \/ \E a \in Applicants, requested \in Requests : Apply(a, requested)
         \/ \E a \in Applicants : Withdraw(a)
         \/ \E a \in Applicants, r \in Reviewers, approved \in Approvals :
              Review(r, a, approved)
         \/ \E a \in Applicants : \E payee \in Destinations \cup {a}, mode \in Modes :
              Finalize(a, payee, mode)
         \/ \E a \in Applicants, p \in Destinations, amount \in PartialAmounts :
              Spend(a, p, amount)
         \/ \E a \in Applicants, amount \in Nat \ {0}, n \in Nat \ {0},
               uids \in SUBSET Attestations : ReleaseEffect(a, amount, n, uids)
         \/ SweepFee
         \/ SweepUnclaimed
         \/ Cancel
         \/ \E deadline \in NewDeadlines : ExtendReleaseDeadline(deadline)
         \/ Quiet
<1>1. CASE DonorStep
  BY <1>1 DEF DonorStep, Refund, RefundPartial
<1>2. CASE ApplicantStep
  BY <1>2, Zenon DEF ApplicantStep
<1>3. CASE ReleaseStep
  <2> PICK a \in Applicants, v \in Verifiers :
             \/ \E u \in Attestations : Release(a, u, v)
             \/ \E uids \in SUBSET Attestations : ReleaseBatch(a, uids, v)
    BY <1>3 DEF ReleaseStep
  <2>1. CASE \E u \in Attestations : Release(a, u, v)
    <3> PICK u \in Attestations : Release(a, u, v)
      BY <2>1
    <3>1. {u} \in SUBSET Attestations /\ 1 \in Nat \ {0}
      OBVIOUS
    <3> QED
      BY <3>1, ReleaseHasEffect
  <2>2. CASE \E uids \in SUBSET Attestations : ReleaseBatch(a, uids, v)
    BY <2>2, BatchHasEffect
  <2> QED
    BY <2>1, <2>2
<1>4. CASE TreasuryStep
  BY <1>4 DEF TreasuryStep
<1>5. CASE CreatorStep
  <2>1. CASE \/ Pause \/ Unpause
             \/ \E p \in Destinations : AllowPayee(p) \/ DenyPayee(p)
             \/ \E ps \in SUBSET Destinations : AllowPayees(ps) \/ DenyPayees(ps)
             \/ \E v \in Verifiers : AddVerifier(v) \/ RemoveVerifier(v)
    BY <2>1 DEF Quiet, Pause, Unpause, AllowPayee, DenyPayee, AllowPayees,
                DenyPayees, AddVerifier, RemoveVerifier, ListChange, timeVars,
                flagVars, trustVars, outsideVars
  <2> QED
    BY <1>5, <2>1, Zenon DEF CreatorStep
<1>6. CASE OutsideStep
  BY <1>6 DEF OutsideStep, Quiet, Tick, Attest, Void, Install, Uninstall,
              ProgrammeUnchanged, outsideVars, flagVars, trustVars
<1>7. CASE UNCHANGED vars
  BY <1>7 DEF Quiet, vars, timeVars, flagVars, trustVars, outsideVars
<1> QED
  BY <1>1, <1>2, <1>3, <1>4, <1>5, <1>6, <1>7, Zenon DEF Next

------------------------------------------------------------------------------
(* Types, and the soundness of awards. *)

\* A new programme is typed and has no award.
LEMMA TypedAwardsInit ==
  Init => TypedAwards
<1> SUFFICES ASSUME Init PROVE TypedAwards
  OBVIOUS
<1>1. ToSet(VerifierList) \subseteq Verifiers
  BY SetsAssumption
<1>2. << >> \in Seq(Nat)
  OBVIOUS
<1>3. NoApplication \in Application
  BY <1>2 DEF NoApplication, Application
<1>4. NoAward \in Award
  BY DEF NoAward, Award
<1>5. TypeOK
  BY <1>1, <1>3, <1>4, ConstructorAssumption DEF ConstructorChecks, Init, TypeOK, NoVote
<1>6. AwardsOK
  BY DEF Init, AwardsOK
<1> QED
  BY <1>5, <1>6 DEF TypedAwards

\* An award of the invariant is an award of TypeOK.
LEMMA AwardTypes ==
  ASSUME NEW a \in Applicants, NEW x \in AwardOf(Destinations \cup {a}, Modes)
  PROVE  x \in Award /\ x # NoAward /\ x.payee # Treasury /\ x.payee \in Address
<1>1. Modes \subseteq AllModes /\ Treasury \notin Applicants \cup Destinations
  BY SetsAssumption
<1>2. x.mode \in Modes /\ x.payee \in Destinations \cup {a} /\ x.tranches # 0
  BY DEF AwardOf
<1>3. x \in Award
  BY <1>1 DEF AwardOf, Award, Address
<1> QED
  BY <1>1, <1>2, <1>3 DEF NoAward, Address

\* record.credit adds to the standing of the one recipient.
LEMMA CreditFacts ==
  ASSUME TypeOK, NEW a \in Applicants, NEW amount \in Nat, NEW n \in Nat,
         Credit(a, amount, n)
  PROVE  /\ credited' \in [Applicants -> [total : Nat, tranches : Nat]]
         /\ credited'[a] = [total |-> credited[a].total + amount,
                            tranches |-> credited[a].tranches + n]
         /\ \A b \in Applicants \ {a} : credited'[b] = credited[b]
<1>1. credited \in [Applicants -> [total : Nat, tranches : Nat]]
  BY DEF TypeOK
<1> DEFINE c == credited[a]
           d == [total |-> c.total + amount, tranches |-> c.tranches + n]
<1>2. c \in [total : Nat, tranches : Nat]
  BY <1>1
<1>3. d \in [total : Nat, tranches : Nat]
  BY <1>2
<1>4. credited' = [credited EXCEPT ![a] = d]
  BY DEF Credit
<1> HIDE DEF d
<1>5. credited'[a] = d
  BY <1>1, <1>4
<1> QED
  BY <1>1, <1>3, <1>4, <1>5 DEF d

\* Applications stay applications as their fields change.
LEMMA ApplicationFields ==
  ASSUME NEW x \in Application, NEW vs \in Seq(Nat)
  PROVE  /\ x.votes \in Seq(Nat)
         /\ [x EXCEPT !.votes = vs] \in Application
         /\ [x EXCEPT !.withdrawn = TRUE] \in Application
         /\ [x EXCEPT !.finalized = TRUE] \in Application
BY DEF Application

\* Awards stay sound while neither they nor the applications change.
LEMMA AwardsKept ==
  ASSUME AwardsOK, UNCHANGED <<award, application>>
  PROVE  AwardsOK'
BY DEF AwardsOK, HasApplied

\* The one step of the invariance proof per kind of step of the programme.
LEMMA TypedAwardsStep ==
  TypedAwards /\ [Next]_vars => TypedAwards'
<1> SUFFICES ASSUME TypedAwards, [Next]_vars PROVE TypedAwards'
  OBVIOUS
<1>0. TypeOK /\ AwardsOK
  BY DEF TypedAwards
<1>1. CASE \E d \in Donors, amount \in Contributions : Contribute(d, amount)
  <2> PICK d \in Donors, amount \in Contributions : Contribute(d, amount)
    BY <1>1
  <2>1. amount \in Nat
    BY InputsAssumption DEF Contribute, CanContribute
  <2>2. TypeOK'
    BY <1>0, <2>1 DEF TypeOK, Contribute, timeVars, flagVars, refundVars, reviewVars,
       releaseVars, trustVars, treasuryVars, outsideVars
  <2> QED
    BY <1>0, <2>2, AwardsKept DEF TypedAwards, Contribute, reviewVars
<1>2. CASE \E d \in Donors : \E amount \in PartialAmounts \cup {RefundDue(d)} :
             ExecuteRefund(d, amount)
  <2> PICK d \in Donors : \E amount \in PartialAmounts \cup {RefundDue(d)} :
             ExecuteRefund(d, amount)
    BY <1>2
  <2> PICK amount \in PartialAmounts \cup {RefundDue(d)} : ExecuteRefund(d, amount)
    OBVIOUS
  <2>1. amount \in Nat
    BY <1>0, RefundFacts
  <2>2. balance' \in Nat /\ paid' \in [Address -> Nat]
    BY <1>0, <2>1, PayFacts DEF ExecuteRefund, Address
  <2>3. TypeOK'
    BY <1>0, <2>1, <2>2 DEF TypeOK, ExecuteRefund, BookRefund, timeVars, flagVars, donorVars,
       reviewVars, releaseVars, trustVars, treasuryVars, outsideVars
  <2> QED
    BY <1>0, <2>3, AwardsKept DEF TypedAwards, ExecuteRefund, reviewVars
<1>3. CASE \E a \in Applicants, requested \in Requests : Apply(a, requested)
  <2> PICK a \in Applicants, requested \in Requests : Apply(a, requested)
    BY <1>3
  <2>1. requested \in Nat /\ << >> \in Seq(Nat)
    BY InputsAssumption DEF Apply, CanApply
  <2>2. [NoApplication EXCEPT !.requested = requested] \in Application
    BY <2>1 DEF NoApplication, Application
  <2>3. TypeOK'
    BY <1>0, <2>2 DEF TypeOK, Apply, timeVars, flagVars, donorVars, refundVars,
       releaseVars, trustVars, treasuryVars, tokenVars, outsideVars
  <2>4. award[a] = NoAward
    BY <1>0 DEF AwardsOK, Apply, CanApply
  <2> QED
    BY <1>0, <2>3, <2>4 DEF TypedAwards, AwardsOK, TypeOK, HasApplied, Apply
<1>4. CASE \E a \in Applicants : Withdraw(a)
  <2> PICK a \in Applicants : Withdraw(a)
    BY <1>4
  <2>1. [application[a] EXCEPT !.withdrawn = TRUE] \in Application
    <3>1. application[a] \in Application /\ << >> \in Seq(Nat)
      BY <1>0 DEF TypeOK
    <3> QED
      BY <3>1, ApplicationFields
  <2>2. TypeOK'
    BY <1>0, <2>1 DEF TypeOK, Withdraw, timeVars, flagVars, donorVars, refundVars,
       releaseVars, trustVars, treasuryVars, tokenVars, outsideVars
  <2>3. award[a] = NoAward
    BY <1>0 DEF AwardsOK, Withdraw, Undecided
  <2> QED
    BY <1>0, <2>2, <2>3 DEF TypedAwards, AwardsOK, TypeOK, HasApplied, Withdraw
<1>5. CASE \E a \in Applicants, r \in Reviewers, approved \in Approvals :
             Review(r, a, approved)
  <2> PICK a \in Applicants, r \in Reviewers, approved \in Approvals :
             Review(r, a, approved)
    BY <1>5
  <2> DEFINE before == application[a].votes
             after == IF voted[a][r] = NoVote THEN InsertVote(before, approved)
                      ELSE AmendVote(before, voted[a][r], approved)
  <2>1. approved \in Nat /\ before \in Seq(Nat) /\ voted[a][r] \in Nat
    <3>1. application[a] \in Application /\ << >> \in Seq(Nat) /\ voted[a][r] \in Nat
      BY <1>0 DEF TypeOK
    <3>2. approved \in Nat
      BY InputsAssumption DEF Review, CanReview
    <3> QED
      BY <3>1, <3>2, ApplicationFields
  <2>2. after \in Seq(Nat)
    BY <2>1, InsertVoteType, AmendVoteType
  <2>3. application' = [application EXCEPT ![a].votes = after]
    BY DEF Review
  <2> HIDE DEF after
  <2>4. [application[a] EXCEPT !.votes = after] \in Application
    <3>1. application[a] \in Application
      BY <1>0 DEF TypeOK
    <3> QED
      BY <2>2, <3>1, ApplicationFields
  <2>5. application' \in [Applicants -> Application]
    BY <1>0, <2>3, <2>4 DEF TypeOK
  <2>6. TypeOK'
    BY <1>0, <2>1, <2>5 DEF TypeOK, Review, timeVars, flagVars, donorVars,
       refundVars, releaseVars, trustVars, treasuryVars, tokenVars, outsideVars
  <2>7. award[a] = NoAward
    BY <1>0 DEF AwardsOK, Review, CanReview, Undecided
  <2> QED
    BY <1>0, <2>3, <2>6, <2>7 DEF TypedAwards, AwardsOK, TypeOK, HasApplied, Review
<1>6. CASE \E a \in Applicants : \E payee \in Destinations \cup {a}, mode \in Modes :
             Finalize(a, payee, mode)
  <2> PICK a \in Applicants : \E payee \in Destinations \cup {a}, mode \in Modes :
             Finalize(a, payee, mode)
    BY <1>6
  <2> PICK payee \in Destinations \cup {a}, mode \in Modes : Finalize(a, payee, mode)
    OBVIOUS
  <2> DEFINE amount == SettledAmount(application[a].votes, Quorum)
             made == [granted |-> amount, released |-> 0, tranches |-> Tranches,
                      tranches_released |-> 0, payee |-> payee, mode |-> mode]
  <2>1. amount \in Nat
    <3>1. application[a].votes \in Seq(Nat) /\ Quorum <= Len(application[a].votes)
      BY <1>0, ConstructorAssumption DEF ConstructorChecks, Finalize, CanFinalize, SettledAward, TypeOK, Application
    <3> QED
      BY <3>1, SettledAmountType, ConstructorAssumption DEF ConstructorChecks
  <2>2. /\ award' = [award EXCEPT ![a] = made] /\ granted' = granted + amount
        /\ application' = [application EXCEPT ![a].finalized = TRUE]
        /\ UNCHANGED <<timeVars, flagVars, donorVars, refundVars, voted, releaseVars,
                       trustVars, treasuryVars, allocation, tokenVars, outsideVars>>
        /\ Undecided(a)
    BY DEF Finalize, CanFinalize, SettledAward
  <2> HIDE DEF amount
  <2>3. made \in AwardOf(Destinations \cup {a}, Modes)
    BY <2>1, ConstructorAssumption DEF ConstructorChecks, AwardOf
  <2>4. OnSchedule(made) /\ (made.mode = "Open" => made.payee = a)
    <3>1. amount \div Tranches \in Int /\ 0 * (amount \div Tranches) = 0 /\ Tranches # 0
      BY <2>1, TrancheBounds, ConstructorAssumption DEF ConstructorChecks
    <3> QED
      BY <3>1 DEF OnSchedule, TrancheOf, Finalize, CanFinalize, SettledAward, PayeeFits
  <2>5. made \in Award
    BY <2>3, AwardTypes
  <2>6. [application[a] EXCEPT !.finalized = TRUE] \in Application
    <3>1. application[a] \in Application /\ << >> \in Seq(Nat)
      BY <1>0 DEF TypeOK
    <3> QED
      BY <3>1, ApplicationFields
  <2> HIDE DEF made
  <2>7. TypeOK'
    BY <1>0, <2>1, <2>2, <2>5, <2>6 DEF TypeOK, timeVars, flagVars, donorVars,
       refundVars, releaseVars, trustVars, treasuryVars, tokenVars, outsideVars
  <2>8. AwardsOK'
    <3>1. /\ award'[a] = made
          /\ application'[a] = [application[a] EXCEPT !.finalized = TRUE]
          /\ \A b \in Applicants \ {a} :
               award'[b] = award[b] /\ application'[b] = application[b]
      BY <1>0, <2>2 DEF TypeOK
    <3>2. /\ application'[a].requested # 0 /\ application'[a].finalized
          /\ ~application'[a].withdrawn
      <4>1. application[a] \in Application
        BY <1>0 DEF TypeOK
      <4> QED
        BY <2>2, <3>1, <4>1 DEF Application, Undecided, HasApplied
    <3> QED
      BY <1>0, <2>3, <2>4, <3>1, <3>2, ZenonT(60) DEF AwardsOK, HasApplied
  <2> QED
    BY <2>7, <2>8 DEF TypedAwards
<1>7. CASE \E a \in Applicants, p \in Destinations, amount \in PartialAmounts :
             Spend(a, p, amount)
  <2> PICK a \in Applicants, p \in Destinations, amount \in PartialAmounts :
             Spend(a, p, amount)
    BY <1>7
  <2>1. amount \in Nat
    BY InputsAssumption DEF Spend, CanSpend
  <2>2. balance' \in Nat /\ paid' \in [Address -> Nat]
    BY <1>0, <2>1, PayFacts DEF Spend, Address
  <2>3. TypeOK'
    BY <1>0, <2>1, <2>2 DEF TypeOK, Spend, CanSpend, Escrowed, timeVars, flagVars, donorVars, refundVars,
       reviewVars, releaseVars, trustVars, treasuryVars, outsideVars
  <2> QED
    BY <1>0, <2>3, AwardsKept DEF TypedAwards, Spend, reviewVars
<1>8. CASE \E a \in Applicants, amount \in Nat \ {0}, n \in Nat \ {0},
              uids \in SUBSET Attestations : ReleaseEffect(a, amount, n, uids)
  <2> PICK a \in Applicants, amount \in Nat \ {0}, n \in Nat \ {0},
           uids \in SUBSET Attestations : ReleaseEffect(a, amount, n, uids)
    BY <1>8
  <2>1. /\ award[a] \in AwardOf(Destinations \cup {a}, Modes)
        /\ used' = used \cup uids /\ released' = released + amount
        /\ PayOut(a, amount) /\ Credit(a, amount, n)
        /\ UNCHANGED <<timeVars, flagVars, donorVars, refundVars, reviewVars,
                       granted, trustVars, treasuryVars, outsideVars>>
    BY DEF ReleaseEffect
  <2> PICK next \in AwardOf(Destinations \cup {a}, Modes) :
             /\ award' = [award EXCEPT ![a] = next]
             /\ next.payee = award[a].payee /\ next.mode = award[a].mode
             /\ OnSchedule(next)
    BY DEF ReleaseEffect
  <2>3. award[a].payee \in Destinations \cup {a} /\ next \in Award
    BY <2>1, AwardTypes DEF AwardOf
  <2>4. /\ allocation' \in [Applicants -> Nat]
        /\ balance' \in Nat /\ paid' \in [Address -> Nat]
    BY <1>0, <2>1, <2>3, PayOutFacts
  <2>5. credited' \in [Applicants -> [total : Nat, tranches : Nat]]
    BY <1>0, <2>1, CreditFacts
  <2>6. TypeOK'
    <3>1. /\ award' \in [Applicants -> Award] /\ used' \subseteq Attestations
          /\ released' \in Nat
      BY <1>0, <2>1, <2>3 DEF TypeOK
    <3> QED
      BY <1>0, <2>1, <2>4, <2>5, <3>1 DEF TypeOK, timeVars, flagVars, donorVars,
         refundVars, reviewVars, trustVars, treasuryVars, outsideVars
  <2>7. AwardsOK'
    <3>1. /\ award'[a] = next /\ application' = application
          /\ \A b \in Applicants \ {a} : award'[b] = award[b]
      BY <1>0, <2>1 DEF TypeOK, reviewVars
    <3>2. /\ HasApplied(a) /\ application[a].finalized /\ ~application[a].withdrawn
          /\ award[a].mode = "Open" => award[a].payee = a
      BY <1>0, <2>1, AwardTypes DEF AwardsOK
    <3> QED
      BY <1>0, <3>1, <3>2 DEF AwardsOK, HasApplied
  <2> QED
    BY <2>6, <2>7 DEF TypedAwards
<1>9. CASE SweepFee
  <2>1. balance' \in Nat /\ paid' \in [Address -> Nat]
    BY <1>0, <1>9, AmountFacts, PayFacts DEF SweepFee, Address
  <2>2. TypeOK'
    BY <1>0, <1>9, <2>1 DEF TypeOK, SweepFee, timeVars, flagVars, donorVars,
       refundVars, reviewVars, releaseVars, trustVars, outsideVars
  <2> QED
    BY <1>0, <1>9, <2>2, AwardsKept DEF TypedAwards, SweepFee, reviewVars
<1>10. CASE SweepUnclaimed
  <2>1. balance \in Nat /\ balance' \in Nat /\ paid' \in [Address -> Nat]
    BY <1>0, <1>10, PayFacts DEF SweepUnclaimed, Address, TypeOK
  <2>2. TypeOK'
    BY <1>0, <1>10, <2>1 DEF TypeOK, SweepUnclaimed, timeVars, flagVars, donorVars,
       refundVars, reviewVars, releaseVars, trustVars, outsideVars
  <2> QED
    BY <1>0, <1>10, <2>2, AwardsKept DEF TypedAwards, SweepUnclaimed, reviewVars
<1>11. CASE Cancel
  <2>1. TypeOK'
    BY <1>0, <1>11 DEF TypeOK, Cancel, timeVars, donorVars, refundVars, reviewVars,
       releaseVars, trustVars, treasuryVars, tokenVars, outsideVars
  <2> QED
    BY <1>0, <1>11, <2>1, AwardsKept DEF TypedAwards, Cancel, reviewVars
<1>12. CASE \E deadline \in NewDeadlines : ExtendReleaseDeadline(deadline)
  <2> PICK deadline \in NewDeadlines : ExtendReleaseDeadline(deadline)
    BY <1>12
  <2>1. TypeOK'
    BY <1>0, InputsAssumption DEF TypeOK, ExtendReleaseDeadline, flagVars, donorVars,
       refundVars, reviewVars, releaseVars, trustVars, treasuryVars, tokenVars,
       outsideVars
  <2> QED
    BY <1>0, <2>1, AwardsKept DEF TypedAwards, ExtendReleaseDeadline, reviewVars
<1>13. CASE Quiet
  <2>1. TypeOK'
    <3>1. attested' \in [Attestations -> {"unissued", "live", "void"}]
      BY <1>0, <1>13 DEF TypeOK, Quiet
    <3>2. /\ payees' \subseteq Destinations /\ verifiers' \subseteq Verifiers
          /\ installed' \subseteq Wallets
      BY <1>0, <1>13 DEF TypeOK, Quiet
    <3>3. now' \in Nat
      BY <1>0, <1>13 DEF TypeOK, Quiet
    <3>4. paused' \in BOOLEAN
      BY <1>0, <1>13 DEF TypeOK, Quiet
    <3> QED
      BY <1>0, <1>13, <3>1, <3>2, <3>3, <3>4 DEF TypeOK, Quiet, donorVars, refundVars,
         reviewVars, releaseVars, treasuryVars, tokenVars
  <2> QED
    BY <1>0, <1>13, <2>1, AwardsKept DEF TypedAwards, Quiet, reviewVars
<1> QED
  BY <1>1, <1>2, <1>3, <1>4, <1>5, <1>6, <1>7, <1>8, <1>9, <1>10, <1>11,
     <1>12, <1>13, StepCases, Zenon

\* Types and awards stay sound for ever.
LEMMA Typed == Spec => []TypedAwards
<1> QED
  BY TypedAwardsInit, TypedAwardsStep, PTL DEF Spec

\* Every variable keeps the type of what the contract stores there: whatever
\* is called, in whatever order, no amount turns negative and no payment
\* exceeds the balance.
THEOREM TypeCorrect == Spec => []TypeOK
<1>1. TypedAwards => TypeOK
  BY DEF TypedAwards
<1> QED
  BY <1>1, Typed, PTL

\* Single releases and batches cut every award into its regular tranches and
\* leave nothing behind with the last one.
THEOREM ReleasesOnSchedule == Spec => []ReleasedOnSchedule
<1>1. TypedAwards => ReleasedOnSchedule
  <2> SUFFICES ASSUME AwardsOK, NEW a \in Applicants, HasAward(a)
               PROVE  OnSchedule(award[a])
    BY DEF TypedAwards, ReleasedOnSchedule
  <2>1. NoAward.mode = "none"
    BY DEF NoAward
  <2> QED
    BY <2>1 DEF AwardsOK, HasAward
<1> QED
  BY <1>1, Typed, PTL

------------------------------------------------------------------------------
(* Deadlines, and the frozen pool. *)

\* The order of the deadlines, as far as extensions keep it: the release and
\* the sweep deadline may meet.
DeadlinesOK ==
  /\ ReviewDeadline < releaseDeadline
  /\ releaseDeadline <= sweepDeadline

\* The constructor orders the deadlines.
LEMMA DeadlinesInit == Init => DeadlinesOK
BY ConstructorAssumption DEF ConstructorChecks, Init, DeadlinesOK

\* An extension moves the release deadline forward and drags the sweep along.
LEMMA DeadlinesStep ==
  TypedAwards /\ DeadlinesOK /\ [Next]_vars => DeadlinesOK'
<1> SUFFICES ASSUME TypedAwards, DeadlinesOK, [Next]_vars PROVE DeadlinesOK'
  OBVIOUS
<1>1. CASE UNCHANGED <<releaseDeadline, sweepDeadline>>
  BY <1>1 DEF DeadlinesOK
<1>2. CASE \E deadline \in NewDeadlines : ExtendReleaseDeadline(deadline)
  BY <1>2, InputsAssumption, ConstructorAssumption
     DEF ConstructorChecks, DeadlinesOK, ExtendReleaseDeadline, Extendable,
         TypedAwards, TypeOK
<1>3. ASSUME NEW a, NEW amount, NEW n, NEW uids, ReleaseEffect(a, amount, n, uids)
      PROVE  UNCHANGED <<releaseDeadline, sweepDeadline>>
  BY <1>3 DEF ReleaseEffect, timeVars
<1> QED
  BY <1>1, <1>2, <1>3, StepCases DEF Contribute, ExecuteRefund, Apply, Withdraw, Review, Finalize,
     Spend, SweepFee, SweepUnclaimed, Cancel, Quiet, timeVars

\* The deadlines stay ordered, the last two weakly.
LEMMA Deadlines == Spec => []DeadlinesOK
<1> QED
  BY DeadlinesInit, DeadlinesStep, Typed, PTL DEF Spec

\* Once refunds are open they stay open, and nothing a share is computed from
\* moves any more.
LEMMA PoolFrozenStep ==
  ASSUME TypedAwards, DeadlinesOK, [Next]_vars, RefundsOpen
  PROVE  RefundsOpen' /\ UNCHANGED <<contributed, donated, released>>
<1>0. /\ now \in Nat /\ releaseDeadline \in Nat
      /\ ApplyDeadline < releaseDeadline /\ ApplyDeadline \in Nat
  BY ConstructorAssumption DEF ConstructorChecks, TypedAwards, TypeOK, DeadlinesOK
<1>1. ASSUME NEW d, NEW amount, Contribute(d, amount)
      PROVE  FALSE
  BY <1>0, <1>1 DEF Contribute, CanContribute, RefundsOpen, Phase
<1>2. ASSUME NEW a, NEW amount, NEW n, NEW uids, ReleaseEffect(a, amount, n, uids)
      PROVE  FALSE
  BY <1>0, <1>2 DEF ReleaseEffect, ReleasesOpen, RefundsOpen, Phase
<1>3. ASSUME NEW deadline \in NewDeadlines, ExtendReleaseDeadline(deadline)
      PROVE  RefundsOpen' /\ UNCHANGED <<contributed, donated, released>>
  BY <1>0, <1>3 DEF ExtendReleaseDeadline, Extendable, RefundsOpen, Phase, flagVars,
     donorVars, releaseVars
<1>4. CASE Cancel
  BY <1>4 DEF Cancel, RefundsOpen, Phase, donorVars, releaseVars
<1>5. CASE Quiet
  BY <1>0, <1>5 DEF Quiet, RefundsOpen, Phase, donorVars, releaseVars
<1>6. CASE /\ UNCHANGED <<timeVars, flagVars>>
           /\ UNCHANGED <<contributed, donated, released>>
  BY <1>6 DEF RefundsOpen, Phase, timeVars, flagVars
<1> QED
  BY <1>1, <1>2, <1>3, <1>4, <1>5, <1>6, StepCases, ZenonT(60) DEF ExecuteRefund, Apply, Withdraw,
     Review, Finalize, Spend, SweepFee, SweepUnclaimed, donorVars, releaseVars

\* No call changes the pool once the first donor may claim from it.
THEOREM PoolIsFrozen == Spec => PoolFrozen
<1>1. TypedAwards /\ DeadlinesOK /\ [Next]_vars
        => [RefundsOpen => RefundsOpen' /\ UNCHANGED <<contributed, released>>]_vars
  BY PoolFrozenStep
<1> QED
  BY <1>1, Typed, Deadlines, PTL DEF Spec, PoolFrozen

------------------------------------------------------------------------------
(* Refunds. *)

\* A donor holds a refund only in the frozen pool, to which it contributed, and
\* within its share.
RefundsOK ==
  \A d \in Donors : refunded[d] > 0 =>
    /\ RefundsOpen /\ donated[d] > 0
    /\ refunded[d] * contributed <= donated[d] * Unpaid

\* Nobody has been refunded at first.
LEMMA RefundsInit == Init => RefundsOK
BY DEF Init, RefundsOK

\* A claim stays within its share, and the share cannot shrink under it.
LEMMA RefundsStep ==
  TypedAwards /\ DeadlinesOK /\ RefundsOK /\ [Next]_vars => RefundsOK'
<1> SUFFICES ASSUME TypedAwards, DeadlinesOK, RefundsOK, [Next]_vars,
                    NEW d \in Donors, refunded'[d] > 0
             PROVE  /\ RefundsOpen' /\ donated'[d] > 0
                    /\ refunded'[d] * contributed' <= donated'[d] * Unpaid'
  BY DEF RefundsOK
<1>0. TypeOK
  BY DEF TypedAwards
<1>1. CASE refunded'[d] = refunded[d]
  <2>1. /\ RefundsOpen /\ donated[d] > 0
        /\ refunded[d] * contributed <= donated[d] * Unpaid
    BY <1>1 DEF RefundsOK
  <2>2. RefundsOpen' /\ UNCHANGED <<contributed, donated, released>>
    BY <2>1, PoolFrozenStep
  <2> QED
    BY <1>1, <2>1, <2>2 DEF Unpaid, Available
<1>2. CASE \E e \in Donors : \E amount \in PartialAmounts \cup {RefundDue(e)} :
             ExecuteRefund(e, amount)
  <2> PICK e \in Donors : \E amount \in PartialAmounts \cup {RefundDue(e)} :
             ExecuteRefund(e, amount)
    BY <1>2
  <2> PICK amount \in PartialAmounts \cup {RefundDue(e)} : ExecuteRefund(e, amount)
    OBVIOUS
  <2>1. CASE e = d
    <3>1. RefundsOpen /\ donated[d] > 0
      BY <1>0, <2>1 DEF ExecuteRefund, CanRefund, TypeOK
    <3>2. RefundsOpen' /\ UNCHANGED <<contributed, donated, released>>
      BY <3>1, PoolFrozenStep
    <3>3. refunded'[d] = refunded[d] + amount
      BY <1>0, <2>1 DEF ExecuteRefund, BookRefund, TypeOK
    <3>4. /\ contributed \in Nat \ {0} /\ donated[d] * Unpaid \in Int
          /\ refunded'[d] \in Int
          /\ refunded'[d] <= (donated[d] * Unpaid) \div contributed
      <4>1. /\ contributed > 0 /\ Unpaid \in Int
            /\ refunded[d] + amount \in Nat
            /\ refunded[d] + amount <= (donated[d] * Unpaid) \div contributed
        BY <1>0, <2>1, RefundFacts
      <4>2. contributed \in Nat /\ donated[d] \in Nat
        BY <1>0 DEF TypeOK
      <4>3. donated[d] * Unpaid \in Int
        BY <4>1, <4>2
      <4> QED
        BY <3>3, <4>1, <4>2, <4>3
    <3>5. refunded'[d] * contributed <= donated[d] * Unpaid
      BY <3>4, ShareRoundsDown
    <3> QED
      BY <3>1, <3>2, <3>5 DEF Unpaid, Available
  <2>2. CASE e # d
    BY <1>0, <1>1, <2>2 DEF ExecuteRefund, BookRefund, TypeOK
  <2> QED
    BY <2>1, <2>2
<1>3. ASSUME NEW a, NEW amount, NEW n, NEW uids, ReleaseEffect(a, amount, n, uids)
      PROVE  refunded' = refunded
  BY <1>3 DEF ReleaseEffect, refundVars
<1> QED
  BY <1>1, <1>2, <1>3, StepCases DEF Contribute, Apply, Withdraw, Review, Finalize,
     Spend, SweepFee, SweepUnclaimed, Cancel, ExtendReleaseDeadline, Quiet, refundVars

\* However a donor's claims are cut up, and whatever the order in which donors
\* claim, nobody gets more than the proportional share of what was unpaid.
THEOREM RefundsStayProportional == Spec => []RefundsAreProportional
<1>1. RefundsOK => RefundsAreProportional
  BY DEF RefundsOK, RefundsAreProportional
<1> QED
  BY <1>1, RefundsInit, RefundsStep, Typed, Deadlines, PTL DEF Spec

------------------------------------------------------------------------------
(* The budget. *)

\* Nothing is granted from an empty budget.
LEMMA BudgetInit == Init => BudgetNeverExceeded
<1> SUFFICES ASSUME Init PROVE BudgetNeverExceeded
  OBVIOUS
<1>1. AvailableOf(0, FeeBps) \in Nat
  BY FeeBounds, ConstructorAssumption DEF ConstructorChecks
<1> QED
  BY <1>1 DEF Init, BudgetNeverExceeded, Available

\* Finalizing keeps within the budget, and the budget never shrinks.
LEMMA BudgetStep ==
  TypedAwards /\ BudgetNeverExceeded /\ [Next]_vars => BudgetNeverExceeded'
<1> SUFFICES ASSUME TypedAwards, BudgetNeverExceeded, [Next]_vars
             PROVE  BudgetNeverExceeded'
  OBVIOUS
<1>0. TypeOK
  BY DEF TypedAwards
<1>1. CASE UNCHANGED <<granted, contributed>>
  BY <1>1 DEF BudgetNeverExceeded, Available
<1>2. CASE \E d \in Donors, amount \in Contributions : Contribute(d, amount)
  <2> PICK d \in Donors, amount \in Contributions : Contribute(d, amount)
    BY <1>2
  <2>1. /\ amount \in Nat /\ contributed \in Nat /\ granted \in Nat
        /\ contributed' = contributed + amount /\ granted' = granted
    BY <1>0, InputsAssumption DEF Contribute, CanContribute, TypeOK
  <2>2. /\ AvailableOf(contributed, FeeBps) <= AvailableOf(contributed + amount, FeeBps)
        /\ AvailableOf(contributed, FeeBps) \in Nat
        /\ AvailableOf(contributed + amount, FeeBps) \in Nat
    <3>1. contributed + amount \in Nat
      BY <2>1
    <3> QED
      BY <2>1, <3>1, BudgetGrows, FeeBounds, ConstructorAssumption DEF ConstructorChecks
  <2> QED
    BY <2>1, <2>2 DEF BudgetNeverExceeded, Available
<1>3. ASSUME NEW a, NEW payee, NEW mode, Finalize(a, payee, mode)
      PROVE  BudgetNeverExceeded'
  BY <1>3 DEF Finalize, CanFinalize, SettledAward, WithinBudget, BudgetNeverExceeded, Available, donorVars
<1>4. ASSUME NEW a, NEW amount, NEW n, NEW uids, ReleaseEffect(a, amount, n, uids)
      PROVE  UNCHANGED <<granted, contributed>>
  BY <1>4 DEF ReleaseEffect, donorVars
<1> QED
  BY <1>1, <1>2, <1>3, <1>4, StepCases DEF ExecuteRefund, Apply, Withdraw, Review,
     Spend, SweepFee, SweepUnclaimed, Cancel, ExtendReleaseDeadline, Quiet, donorVars

\* Awards never add up to more than the contributions less the fee, although
\* the budget moves with every contribution.
THEOREM BudgetHolds == Spec => []BudgetNeverExceeded
<1> QED
  BY BudgetInit, BudgetStep, Typed, PTL DEF Spec

------------------------------------------------------------------------------
(* Cancellation. *)

\* Until the first release no award and no escrow holds anything, and a
\* cancelled programme never got that far.
UnspentOK ==
  /\ released = 0 =>
       \A a \in Applicants : allocation[a] = 0 /\ award[a].released = 0
  /\ cancelled => released = 0

\* A new programme has released nothing.
LEMMA UnspentInit == Init => UnspentOK
BY DEF Init, UnspentOK, NoAward

\* Nothing is released, or escrowed, after a cancellation.
LEMMA UnspentStep ==
  TypedAwards /\ UnspentOK /\ [Next]_vars => UnspentOK'
<1> SUFFICES ASSUME TypedAwards, UnspentOK, [Next]_vars PROVE UnspentOK'
  OBVIOUS
<1>0. TypeOK
  BY DEF TypedAwards
<1>1. CASE UNCHANGED <<released, allocation, award, cancelled>>
  BY <1>1 DEF UnspentOK
<1>2. ASSUME NEW a \in Applicants, NEW payee, NEW mode, Finalize(a, payee, mode)
      PROVE  UnspentOK'
  <2>1. /\ UNCHANGED <<released, allocation, cancelled>>
        /\ \A b \in Applicants : award'[b].released \in {0, award[b].released}
    BY <1>0, <1>2 DEF Finalize, TypeOK, releaseVars, flagVars
  <2> QED
    BY <2>1 DEF UnspentOK
<1>3. ASSUME NEW a \in Applicants, NEW p \in Destinations, NEW amount \in PartialAmounts,
             Spend(a, p, amount)
      PROVE  UnspentOK'
  <2>1. /\ allocation[a] \in Nat /\ amount \in Int /\ amount > 0
        /\ allocation[a] >= amount
        /\ UNCHANGED <<released, cancelled, award>>
    BY <1>0, <1>3, InputsAssumption DEF Spend, CanSpend, Escrowed, TypeOK, releaseVars, flagVars
  <2>2. released # 0
    BY <2>1 DEF UnspentOK
  <2> QED
    BY <2>1, <2>2 DEF UnspentOK
<1>4. ASSUME NEW a \in Applicants, NEW amount \in Nat \ {0}, NEW n, NEW uids,
             ReleaseEffect(a, amount, n, uids)
      PROVE  UnspentOK'
  <2>1. /\ released \in Nat /\ released' = released + amount
        /\ ~cancelled /\ UNCHANGED cancelled
    BY <1>0, <1>4 DEF ReleaseEffect, ReleasesOpen, Phase, TypeOK, flagVars
  <2> QED
    BY <2>1 DEF UnspentOK
<1>5. CASE Cancel
  BY <1>5 DEF Cancel, Cancellable, UnspentOK, releaseVars
<1> QED
  BY <1>1, <1>2, <1>3, <1>4, <1>5, StepCases DEF Contribute, ExecuteRefund, Apply,
     Withdraw, Review, SweepFee, SweepUnclaimed, ExtendReleaseDeadline, Quiet,
     releaseVars, flagVars

\* Cancellation and release exclude each other, whichever comes first.
THEOREM CancelledStaysUnspent == Spec => []CancelledUnspent
<1>1. UnspentOK => CancelledUnspent
  BY DEF UnspentOK, CancelledUnspent
<1> QED
  BY <1>1, UnspentInit, UnspentStep, Typed, PTL DEF Spec

------------------------------------------------------------------------------
(* The fee. *)

\* The treasury has had the fee or not, and what it had was the fee of the
\* final contributions because the round was no longer open; until the sweep, a
\* fee that counts as swept was paid.
FeeOK ==
  /\ paid[Treasury] - sweptTotal \in {0, Fee}
  /\ ~feeSwept => paid[Treasury] = 0 /\ sweptTotal = 0
  /\ feeSwept => Phase # "Open"
  /\ feeSwept /\ sweptTotal = 0 => paid[Treasury] = Fee

\* The treasury starts with nothing.
LEMMA FeeInit == Init => FeeOK
BY DEF Init, FeeOK, Address

\* The treasury is paid the fee once, by sweep_fee or within a sweep.
LEMMA FeeStep ==
  TypedAwards /\ DeadlinesOK /\ FeeOK /\ [Next]_vars => FeeOK'
<1> SUFFICES ASSUME TypedAwards, DeadlinesOK, FeeOK, [Next]_vars PROVE FeeOK'
  OBVIOUS
<1>0. /\ TypeOK
      /\ now \in Nat /\ ApplyDeadline \in Nat /\ ApplyDeadline < sweepDeadline
      /\ Treasury \in Address /\ paid[Treasury] \in Nat /\ sweptTotal \in Nat
  BY ConstructorAssumption
     DEF ConstructorChecks, TypedAwards, TypeOK, DeadlinesOK, Address
<1>1. ASSUME feeSwept => Phase' # "Open",
             UNCHANGED <<feeSwept, sweptTotal, contributed>>,
             paid'[Treasury] = paid[Treasury]
      PROVE  FeeOK'
  BY <1>1 DEF FeeOK, Fee
<1>2. ASSUME NEW d \in Donors, NEW amount \in Contributions, Contribute(d, amount)
      PROVE  FeeOK'
  <2>1. /\ Phase = "Open" /\ UNCHANGED <<feeSwept, sweptTotal, paid>>
    BY <1>2 DEF Contribute, CanContribute, treasuryVars
  <2>2. ~feeSwept /\ paid[Treasury] = 0 /\ sweptTotal = 0
    BY <2>1 DEF FeeOK
  <2> QED
    BY <2>1, <2>2 DEF FeeOK
<1>3. ASSUME NEW d \in Donors, NEW amount \in PartialAmounts \cup {RefundDue(d)},
             ExecuteRefund(d, amount)
      PROVE  FeeOK'
  <2>1. amount \in Nat
    BY <1>0, <1>3, RefundFacts
  <2>2. d \in Address /\ d # Treasury
    BY SetsAssumption DEF Address
  <2>3. paid'[Treasury] = paid[Treasury]
    BY <1>0, <1>3, <2>1, <2>2, PayFacts DEF ExecuteRefund
  <2> QED
    BY <1>1, <1>3, <2>3 DEF ExecuteRefund, FeeOK, Phase, treasuryVars, donorVars,
       timeVars, flagVars
<1>4. ASSUME NEW a \in Applicants, NEW p \in Destinations, NEW amount \in PartialAmounts,
             Spend(a, p, amount)
      PROVE  FeeOK'
  <2>1. amount \in Nat
    BY <1>4, InputsAssumption DEF Spend, CanSpend
  <2>2. p \in Address /\ p # Treasury
    BY SetsAssumption DEF Address
  <2>3. paid'[Treasury] = paid[Treasury]
    BY <1>0, <1>4, <2>1, <2>2, PayFacts DEF Spend
  <2> QED
    BY <1>1, <1>4, <2>3 DEF Spend, FeeOK, Phase, treasuryVars, donorVars, timeVars,
       flagVars
<1>5. ASSUME NEW a \in Applicants, NEW amount \in Nat \ {0}, NEW n, NEW uids,
             ReleaseEffect(a, amount, n, uids)
      PROVE  FeeOK'
  <2>1. /\ award[a] \in AwardOf(Destinations \cup {a}, Modes) /\ PayOut(a, amount)
        /\ UNCHANGED <<timeVars, flagVars, donorVars, treasuryVars>>
    BY <1>5 DEF ReleaseEffect
  <2>2. award[a].payee \in Destinations \cup {a} /\ award[a].payee # Treasury
    BY <2>1, AwardTypes DEF AwardOf
  <2>3. paid'[Treasury] = paid[Treasury]
    BY <1>0, <2>1, <2>2, PayOutFacts
  <2> QED
    BY <1>1, <2>1, <2>3 DEF FeeOK, Phase, treasuryVars, donorVars, timeVars, flagVars
<1>6. CASE SweepFee
  <2>1. Fee \in Nat
    BY <1>0, AmountFacts
  <2>2. paid'[Treasury] = paid[Treasury] + Fee
    BY <1>0, <1>6, <2>1, PayFacts DEF SweepFee
  <2>3. /\ Phase # "Open" /\ ~feeSwept /\ feeSwept'
        /\ UNCHANGED <<timeVars, flagVars, contributed, sweptTotal>>
    BY <1>6 DEF SweepFee, FeeSweepable, donorVars
  <2>4. Phase' # "Open" /\ Fee' = Fee
    BY <2>3 DEF Phase, Fee, timeVars, flagVars
  <2> QED
    BY <1>0, <2>1, <2>2, <2>3, <2>4 DEF FeeOK
<1>7. CASE SweepUnclaimed
  <2>1. balance \in Nat
    BY <1>0 DEF TypeOK
  <2>2. paid'[Treasury] = paid[Treasury] + balance
    BY <1>0, <1>7, <2>1, PayFacts DEF SweepUnclaimed
  <2>3. /\ now >= sweepDeadline /\ feeSwept' /\ sweptTotal' = sweptTotal + balance
        /\ UNCHANGED <<timeVars, flagVars, contributed>>
    BY <1>7 DEF SweepUnclaimed, SweepOpen, donorVars
  <2>4. Phase' # "Open" /\ Fee' = Fee
    BY <1>0, <2>3 DEF Phase, Fee, timeVars, flagVars, TypeOK
  <2>5. /\ paid'[Treasury] - sweptTotal' = paid[Treasury] - sweptTotal
        /\ sweptTotal' # 0
    BY <1>0, <1>7, <2>1, <2>2, <2>3 DEF SweepUnclaimed
  <2> QED
    BY <2>3, <2>4, <2>5 DEF FeeOK
<1>8. CASE Cancel
  BY <1>1, <1>8 DEF Cancel, Phase, treasuryVars, donorVars, tokenVars
<1>9. ASSUME NEW deadline, ExtendReleaseDeadline(deadline)
      PROVE  FeeOK'
  BY <1>1, <1>9 DEF ExtendReleaseDeadline, FeeOK, Phase, treasuryVars, donorVars,
     tokenVars, flagVars
<1>10. CASE Quiet
  BY <1>0, <1>1, <1>10 DEF Quiet, FeeOK, Phase, treasuryVars, donorVars, tokenVars
<1>11. CASE UNCHANGED <<timeVars, flagVars, donorVars, treasuryVars, tokenVars>>
  BY <1>1, <1>11 DEF FeeOK, Phase, timeVars, flagVars, donorVars, treasuryVars,
     tokenVars
<1> QED
  BY <1>2, <1>3, <1>4, <1>5, <1>6, <1>7, <1>8, <1>9, <1>10, <1>11, StepCases
     DEF Apply, Withdraw, Review, Finalize

\* The treasury takes the protocol fee at most once, and takes the fee of what
\* was contributed in the end.
THEOREM FeeIsTakenOnce == Spec => []FeeTakenOnce
<1>1. FeeOK => FeeTakenOnce
  BY DEF FeeOK, FeeTakenOnce
<1> QED
  BY <1>1, FeeInit, FeeStep, Typed, Deadlines, PTL DEF Spec

------------------------------------------------------------------------------
(* Proofs and tranches. *)

\* No proof is used before the first release.
LEMMA ProofsInit == Init => OneProofOneTranche
<1> SUFFICES ASSUME Init, NEW a \in Applicants
             PROVE  /\ award[a].tranches_released
                         = Cardinality({u \in used : u.subject = a})
                    /\ credited[a] = [total |-> award[a].released,
                                      tranches |-> award[a].tranches_released]
  BY DEF OneProofOneTranche
<1>1. {u \in used : u.subject = a} = {}
  BY DEF Init
<1>2. Cardinality({u \in used : u.subject = a}) = 0
  BY <1>1, FS_EmptySet
<1> QED
  BY <1>2 DEF Init, NoAward

\* A release uses as many proofs as it unlocks tranches.
LEMMA ProofsStep ==
  TypedAwards /\ OneProofOneTranche /\ [Next]_vars => OneProofOneTranche'
<1> SUFFICES ASSUME TypedAwards, OneProofOneTranche, [Next]_vars
             PROVE  OneProofOneTranche'
  OBVIOUS
<1>0. TypeOK /\ AwardsOK
  BY DEF TypedAwards
<1>1. CASE UNCHANGED <<award, used, credited>>
  BY <1>1 DEF OneProofOneTranche
<1>2. ASSUME NEW a \in Applicants, NEW payee, NEW mode, Finalize(a, payee, mode)
      PROVE  OneProofOneTranche'
  <2>1. award[a] = NoAward
    BY <1>0, <1>2 DEF AwardsOK, Finalize, CanFinalize, SettledAward, Undecided
  <2>2. /\ UNCHANGED <<used, credited>>
        /\ award'[a].tranches_released = 0 /\ award'[a].released = 0
        /\ \A b \in Applicants \ {a} : award'[b] = award[b]
    BY <1>0, <1>2 DEF Finalize, releaseVars, TypeOK
  <2>3. award[a].tranches_released = 0 /\ award[a].released = 0
    BY <2>1 DEF NoAward
  <2> QED
    BY <2>2, <2>3 DEF OneProofOneTranche
<1>3. ASSUME NEW a \in Applicants, NEW amount \in Nat \ {0}, NEW n \in Nat \ {0},
             NEW uids \in SUBSET Attestations, ReleaseEffect(a, amount, n, uids)
      PROVE  OneProofOneTranche'
  <2> DEFINE Of(b, set) == {u \in set : u.subject = b}
  <2>1. /\ award[a] \in AwardOf(Destinations \cup {a}, Modes)
        /\ uids \cap used = {} /\ used' = used \cup uids
        /\ Cardinality(uids) = n /\ \A u \in uids : u.subject = a
        /\ Credit(a, amount, n)
    BY <1>3 DEF ReleaseEffect
  <2>2. /\ award'[a].tranches_released = award[a].tranches_released + n
        /\ award'[a].released = award[a].released + amount
        /\ \A b \in Applicants \ {a} : award'[b] = award[b]
    BY <1>0, <1>3 DEF ReleaseEffect, TypeOK
  <2>3. /\ credited'[a] = [total |-> credited[a].total + amount,
                           tranches |-> credited[a].tranches + n]
        /\ \A b \in Applicants \ {a} : credited'[b] = credited[b]
    BY <1>0, <2>1, CreditFacts
  <2>4. /\ Of(a, used') = Of(a, used) \cup uids
        /\ Of(a, used) \cap uids = {}
        /\ \A b \in Applicants \ {a} : Of(b, used') = Of(b, used)
    BY <2>1
  <2>5. Cardinality(Of(a, used')) = Cardinality(Of(a, used)) + n
    <3>1. IsFiniteSet(Of(a, used)) /\ IsFiniteSet(uids)
      <4>1. Of(a, used) \subseteq Attestations /\ IsFiniteSet(Attestations)
        BY <1>0, SetsAssumption DEF TypeOK
      <4> QED
        BY <4>1, FS_Subset
    <3>2. Cardinality(Of(a, used) \cup uids)
            = Cardinality(Of(a, used)) + Cardinality(uids)
                - Cardinality(Of(a, used) \cap uids)
      BY <3>1, FS_Union
    <3>3. Cardinality(Of(a, used) \cap uids) = 0
      BY <2>4, FS_EmptySet
    <3>4. Cardinality(Of(a, used)) \in Nat
      BY <3>1, FS_CardinalityType
    <3> QED
      BY <2>1, <2>4, <3>2, <3>3, <3>4
  <2>6. /\ award[a].tranches_released = Cardinality(Of(a, used))
        /\ credited[a] = [total |-> award[a].released,
                          tranches |-> award[a].tranches_released]
        /\ \A b \in Applicants \ {a} :
             /\ award[b].tranches_released = Cardinality(Of(b, used))
             /\ credited[b] = [total |-> award[b].released,
                               tranches |-> award[b].tranches_released]
    BY DEF OneProofOneTranche
  <2>7. /\ award'[a].tranches_released = Cardinality(Of(a, used'))
        /\ credited'[a] = [total |-> award'[a].released,
                           tranches |-> award'[a].tranches_released]
    BY <2>2, <2>3, <2>5, <2>6
  <2>8. \A b \in Applicants \ {a} :
          /\ award'[b].tranches_released = Cardinality(Of(b, used'))
          /\ credited'[b] = [total |-> award'[b].released,
                             tranches |-> award'[b].tranches_released]
    BY <2>2, <2>3, <2>4, <2>6
  <2> QED
    BY <2>7, <2>8 DEF OneProofOneTranche
<1> QED
  BY <1>1, <1>2, <1>3, StepCases DEF Contribute, ExecuteRefund, Apply, Withdraw,
     Review, Spend, SweepFee, SweepUnclaimed, Cancel, ExtendReleaseDeadline, Quiet,
     releaseVars

\* One proof unlocks one tranche: through any mix of single releases and
\* batches, an award has released as many tranches as there are used proofs
\* about its recipient, and the record was credited for exactly those.
THEOREM EveryTrancheHasItsProof == Spec => []OneProofOneTranche
<1> QED
  BY ProofsInit, ProofsStep, Typed, PTL DEF Spec

------------------------------------------------------------------------------
(* What a step may never do. *)

\* Only an application that was made can be withdrawn.
WithdrawnOK == \A a \in Applicants : application[a].withdrawn => HasApplied(a)

\* No application is withdrawn at first.
LEMMA WithdrawnInit == Init => WithdrawnOK
BY DEF Init, WithdrawnOK, NoApplication

\* A withdrawn application is never voted on or finalized.
LEMMA WithdrawnStep ==
  TypedAwards /\ WithdrawnOK /\ [Next]_vars => WithdrawnOK'
<1> SUFFICES ASSUME TypedAwards, WithdrawnOK, [Next]_vars PROVE WithdrawnOK'
  OBVIOUS
<1>0. TypeOK
  BY DEF TypedAwards
<1>1. CASE UNCHANGED application
  BY <1>1 DEF WithdrawnOK, HasApplied
<1>2. ASSUME NEW a \in Applicants,
             \A b \in Applicants \ {a} : application'[b] = application[b],
             application'[a].requested # 0
      PROVE  WithdrawnOK'
  BY <1>2 DEF WithdrawnOK, HasApplied
<1>3. ASSUME NEW a \in Applicants, NEW requested, Apply(a, requested)
      PROVE  WithdrawnOK'
  <2>1. /\ \A b \in Applicants \ {a} : application'[b] = application[b]
        /\ application'[a] = [NoApplication EXCEPT !.requested = requested]
        /\ requested # 0
    BY <1>0, <1>3 DEF Apply, CanApply, TypeOK
  <2>2. application'[a].requested = requested
    BY <2>1 DEF NoApplication
  <2> QED
    BY <1>2, <2>1, <2>2
<1>4. ASSUME NEW a \in Applicants, Undecided(a),
             \A b \in Applicants \ {a} : application'[b] = application[b],
             application'[a].requested = application[a].requested
      PROVE  WithdrawnOK'
  BY <1>2, <1>4 DEF Undecided, HasApplied
<1>5. ASSUME NEW a \in Applicants, Withdraw(a)
      PROVE  WithdrawnOK'
  <2>1. application[a] \in Application
    BY <1>0 DEF TypeOK
  <2> QED
    BY <1>0, <1>4, <1>5, <2>1 DEF Withdraw, TypeOK, Application
<1>6. ASSUME NEW a \in Applicants, NEW r, NEW approved, Review(r, a, approved)
      PROVE  WithdrawnOK'
  <2>1. application[a] \in Application
    BY <1>0 DEF TypeOK
  <2> DEFINE after == IF voted[a][r] = NoVote
                      THEN InsertVote(application[a].votes, approved)
                      ELSE AmendVote(application[a].votes, voted[a][r], approved)
  <2>2. application' = [application EXCEPT ![a].votes = after] /\ Undecided(a)
    BY <1>6 DEF Review, CanReview
  <2> HIDE DEF after
  <2> QED
    BY <1>0, <1>4, <2>1, <2>2 DEF TypeOK, Application
<1>7. ASSUME NEW a \in Applicants, NEW payee, NEW mode, Finalize(a, payee, mode)
      PROVE  WithdrawnOK'
  <2>1. application[a] \in Application
    BY <1>0 DEF TypeOK
  <2>2. /\ application' = [application EXCEPT ![a].finalized = TRUE]
        /\ Undecided(a)
    BY <1>7 DEF Finalize, CanFinalize, SettledAward
  <2> QED
    BY <1>0, <1>4, <2>1, <2>2 DEF TypeOK, Application
<1>8. ASSUME NEW a, NEW amount, NEW n, NEW uids, ReleaseEffect(a, amount, n, uids)
      PROVE  UNCHANGED application
  BY <1>8 DEF ReleaseEffect, reviewVars
<1> QED
  BY <1>1, <1>3, <1>5, <1>6, <1>7, <1>8, StepCases DEF Contribute, ExecuteRefund,
     Spend, SweepFee, SweepUnclaimed, Cancel, ExtendReleaseDeadline, Quiet, reviewVars

\* What a step may do to one applicant's award and application.
TermsKept(a) ==
  /\ HasAward(a) =>
       /\ HasAward(a)'
       /\ UNCHANGED application[a]
       /\ award'[a].granted = award[a].granted
       /\ award'[a].payee = award[a].payee
       /\ award'[a].mode = award[a].mode
  /\ application[a].withdrawn =>
       UNCHANGED <<application[a], voted[a], award[a]>>

\* No step changes what is decided about an application.
LEMMA TermsKeptStep ==
  ASSUME TypedAwards, WithdrawnOK, [Next]_vars, NEW a \in Applicants
  PROVE  TermsKept(a)
<1>0. TypeOK /\ AwardsOK
  BY DEF TypedAwards
<1>a. HasAward(a) => /\ award[a] # NoAward
                     /\ HasApplied(a) /\ application[a].finalized
                     /\ ~application[a].withdrawn
  <2>1. NoAward.mode = "none"
    BY DEF NoAward
  <2> QED
    BY <1>0, <2>1 DEF AwardsOK, HasAward
<1>1. CASE UNCHANGED <<application[a], voted[a], award[a]>>
  BY <1>1 DEF TermsKept, HasAward
<1>2. CASE ~HasAward(a) /\ ~application[a].withdrawn
  BY <1>2 DEF TermsKept
<1>3. ASSUME NEW b \in Applicants, NEW requested, Apply(b, requested)
      PROVE  TermsKept(a)
  <2>1. CASE b = a
    BY <1>a, <1>2, <1>3, <2>1 DEF Apply, CanApply, WithdrawnOK
  <2>2. CASE b # a
    BY <1>0, <1>1, <1>3, <2>2 DEF Apply, TypeOK
  <2> QED
    BY <2>1, <2>2
<1>4. ASSUME NEW b \in Applicants, Withdraw(b)
      PROVE  TermsKept(a)
  <2>1. CASE b = a
    BY <1>a, <1>2, <1>4, <2>1 DEF Withdraw, Undecided
  <2>2. CASE b # a
    BY <1>0, <1>1, <1>4, <2>2 DEF Withdraw, TypeOK
  <2> QED
    BY <2>1, <2>2
<1>5. ASSUME NEW b \in Applicants, NEW r, NEW approved, Review(r, b, approved)
      PROVE  TermsKept(a)
  <2>1. CASE b = a
    BY <1>a, <1>2, <1>5, <2>1 DEF Review, CanReview, Undecided
  <2>2. CASE b # a
    <3>1. UNCHANGED <<application[a], voted[a], award>>
      BY <1>0, <1>5, <2>2 DEF Review, TypeOK
    <3> QED
      BY <1>1, <3>1
  <2> QED
    BY <2>1, <2>2
<1>6. ASSUME NEW b \in Applicants, NEW payee, NEW mode, Finalize(b, payee, mode)
      PROVE  TermsKept(a)
  <2>1. CASE b = a
    BY <1>a, <1>2, <1>6, <2>1 DEF Finalize, CanFinalize, SettledAward, Undecided
  <2>2. CASE b # a
    <3>1. UNCHANGED <<application[a], voted, award[a]>>
      BY <1>0, <1>6, <2>2 DEF Finalize, TypeOK
    <3> QED
      BY <1>1, <3>1
  <2> QED
    BY <2>1, <2>2
<1>7. ASSUME NEW b \in Applicants, NEW amount \in Nat \ {0}, NEW n \in Nat \ {0},
             NEW uids, ReleaseEffect(b, amount, n, uids)
      PROVE  TermsKept(a)
  <2>1. CASE b = a
    <3>1. /\ HasAward(a) /\ UNCHANGED application
          /\ award'[a].granted = award[a].granted
          /\ award'[a].payee = award[a].payee
          /\ award'[a].mode = award[a].mode
      BY <1>0, <1>7, <2>1 DEF ReleaseEffect, TranchesLeft, TypeOK, reviewVars
    <3> QED
      BY <1>a, <3>1 DEF TermsKept, HasAward
  <2>2. CASE b # a
    <3>1. UNCHANGED <<application, voted, award[a]>>
      BY <1>0, <1>7, <2>2 DEF ReleaseEffect, TypeOK, reviewVars
    <3> QED
      BY <1>1, <3>1
  <2> QED
    BY <2>1, <2>2
<1>8. CASE UNCHANGED <<application, voted, award>>
  BY <1>1, <1>8
<1> QED
  BY <1>3, <1>4, <1>5, <1>6, <1>7, <1>8, StepCases DEF Contribute, ExecuteRefund, Spend,
     SweepFee, SweepUnclaimed, Cancel, ExtendReleaseDeadline, Quiet, reviewVars

\* Finalizing decides an application once and for all: no later call changes
\* what its award promises, and a withdrawn application never gets one.
THEOREM AwardTermsStayFixed == Spec => AwardTermsFixed
<1>1. TypedAwards /\ WithdrawnOK /\ [Next]_vars
        => [\A a \in Applicants : TermsKept(a)]_vars
  BY TermsKeptStep
<1>2. Spec => []WithdrawnOK
  BY WithdrawnInit, WithdrawnStep, Typed, PTL DEF Spec
<1>3. Spec => [][\A a \in Applicants : TermsKept(a)]_vars
  BY <1>1, <1>2, Typed, PTL DEF Spec
<1> QED
  BY <1>3 DEF AwardTermsFixed, TermsKept

\* The grounds on which a step may pay address x.
Sanctioned(x) ==
  \/ x = Treasury
  \/ x \in Donors /\ RefundsOpen
  \/ x \in payees /\ \E a \in Applicants : allocation'[a] < allocation[a]
  \/ \E a \in Applicants :
       /\ award'[a].released > award[a].released
       /\ award[a].payee = x
       /\ award[a].mode # "Allocated"
       /\ award[a].mode = "Open" => x = a
       /\ award[a].mode = "Restricted" => x \in installed

\* Whatever step pays an address has a sanction for it.
LEMMA SanctionedStep ==
  ASSUME TypedAwards, [Next]_vars, NEW x \in Address, paid'[x] # paid[x]
  PROVE  Sanctioned(x)
<1>0. TypeOK /\ AwardsOK
  BY DEF TypedAwards
<1>1. ASSUME NEW d \in Donors, NEW amount \in PartialAmounts \cup {RefundDue(d)},
             ExecuteRefund(d, amount)
      PROVE  Sanctioned(x)
  <2>1. amount \in Nat /\ d \in Address /\ RefundsOpen /\ Pay(d, amount)
    BY <1>0, <1>1, RefundFacts DEF Address, ExecuteRefund, CanRefund
  <2>2. x = d
    BY <1>0, <2>1, PayFacts
  <2> QED
    BY <2>1, <2>2 DEF Sanctioned
<1>2. ASSUME NEW a \in Applicants, NEW p \in Destinations, NEW amount \in PartialAmounts,
             Spend(a, p, amount)
      PROVE  Sanctioned(x)
  <2>1. /\ amount \in Nat \ {0} /\ p \in Address /\ p \in payees
        /\ Pay(p, amount) /\ allocation' = [allocation EXCEPT ![a] = @ - amount]
    BY <1>2, InputsAssumption DEF Spend, CanSpend, Address
  <2>2. x = p
    BY <1>0, <2>1, PayFacts
  <2>3. allocation'[a] < allocation[a]
    BY <1>0, <2>1 DEF TypeOK
  <2> QED
    BY <2>1, <2>2, <2>3 DEF Sanctioned
<1>3. ASSUME NEW a \in Applicants, NEW amount \in Nat \ {0}, NEW n, NEW uids,
             ReleaseEffect(a, amount, n, uids)
      PROVE  Sanctioned(x)
  <2>1. /\ award[a] \in AwardOf(Destinations \cup {a}, Modes)
        /\ PayOut(a, amount)
        /\ award'[a].released = award[a].released + amount
    BY <1>0, <1>3 DEF ReleaseEffect, TypeOK
  <2>2. award[a].payee \in Destinations \cup {a} /\ award[a].released \in Nat
    BY <2>1 DEF AwardOf
  <2>3. x = award[a].payee /\ award[a].mode # "Allocated"
    BY <1>0, <2>1, <2>2, PayOutFacts DEF tokenVars
  <2>4. award[a].mode = "Open" => award[a].payee = a
    BY <1>0, <2>1, AwardTypes DEF AwardsOK
  <2>5. award[a].mode = "Restricted" => award[a].payee \in installed
    BY <2>1 DEF PayOut, PolicyHolds
  <2>6. award'[a].released > award[a].released
    BY <2>1, <2>2
  <2> QED
    BY <2>3, <2>4, <2>5, <2>6 DEF Sanctioned
<1>4. CASE SweepFee
  <2>1. Fee \in Nat /\ Treasury \in Address /\ Pay(Treasury, Fee)
    BY <1>0, <1>4, AmountFacts DEF SweepFee, Address
  <2> QED
    BY <1>0, <2>1, PayFacts DEF Sanctioned
<1>5. CASE SweepUnclaimed
  <2>1. balance \in Nat /\ Treasury \in Address /\ Pay(Treasury, balance)
    BY <1>0, <1>5 DEF SweepUnclaimed, Address, TypeOK
  <2> QED
    BY <1>0, <2>1, PayFacts DEF Sanctioned
<1>6. CASE paid' = paid
  BY <1>6
<1> QED
  BY <1>1, <1>2, <1>3, <1>4, <1>5, <1>6, StepCases DEF Contribute, Apply, Withdraw,
     Review, Finalize, Cancel, ExtendReleaseDeadline, Quiet, tokenVars

\* Money never leaves a programme except to the treasury, to donors once
\* refunds are open, to verified payees out of escrow, and to the payee of the
\* award being released as its mode allows.
THEOREM PaymentsStaySanctioned == Spec => PaymentsAreSanctioned
<1>1. TypedAwards /\ [Next]_vars
        => [\A x \in Address : paid'[x] # paid[x] => Sanctioned(x)]_vars
  BY SanctionedStep
<1>2. Spec => [][\A x \in Address : paid'[x] # paid[x] => Sanctioned(x)]_vars
  BY <1>1, Typed, PTL DEF Spec
<1> QED
  BY <1>2 DEF PaymentsAreSanctioned, Sanctioned
==============================================================================
