----------------------------- MODULE MoneyProofs -----------------------------
(***************************************************************************)
(* The money of a programme, for any number of donors and applicants: its  *)
(* books balance, and what it holds covers what it has promised.           *)
(*                                                                         *)
(* The books are sums over tables.  The sum lemmas of AlgorithmProofs say  *)
(* what one entry more or less does to a sum; with them Conservation is    *)
(* an invariant that every step keeps, and the promises follow from it     *)
(* and from the invariants of ProgrammeProofs by comparing sums.           *)
(***************************************************************************)
EXTENDS ProgrammeProofs, Offers

ReleasedOf == [a \in Applicants |-> award[a].released]
GrantedOf == [a \in Applicants |-> award[a].granted]

------------------------------------------------------------------------------
(* Tables of numbers *)

\* The sum of a table of natural numbers is one.
LEMMA TableSum ==
  ASSUME NEW S, IsFiniteSet(S), NEW f \in [S -> Nat]
  PROVE  SumFunction(f) \in Nat /\ SumFunction(f) = SumFunctionOnSet(f, S)
<1>1. SumFunction(f) = SumFunctionOnSet(f, S)
  BY DEF SumFunction
<1>2. \A x \in S : f[x] \in Int /\ f[x] >= 0
  OBVIOUS
<1> QED BY <1>1, <1>2, SumType

\* A new value in one entry.
LEMMA TableUpdate ==
  ASSUME NEW S, IsFiniteSet(S), NEW f \in [S -> Nat], NEW g \in [S -> Nat], NEW e \in S,
         \A x \in S \ {e} : g[x] = f[x]
  PROVE  SumFunction(g) = SumFunction(f) - f[e] + g[e]
<1>1. g[e] \in Int /\ \A x \in S : f[x] \in Int
  OBVIOUS
<1>2. SumFunctionOnSet(g, S) = SumFunctionOnSet(f, S) - f[e] + g[e]
  BY <1>1, SumUpdate
<1> QED BY <1>2, TableSum

\* A table of zeros.
LEMMA TableOfZeros ==
  ASSUME NEW S, IsFiniteSet(S), NEW f \in [S -> Nat], \A x \in S : f[x] = 0
  PROVE  SumFunction(f) = 0
  BY TableSum, SumOfZeros

\* An entry is part of the sum.
LEMMA TablePart ==
  ASSUME NEW S, IsFiniteSet(S), NEW f \in [S -> Nat], NEW e \in S
  PROVE  f[e] \in Nat /\ f[e] <= SumFunction(f)
<1>1. SumFunctionOnSet(f, S) = f[e] + SumFunctionOnSet(f, S \ {e})
  <2>1. \A x \in S : f[x] \in Int
    OBVIOUS
  <2> QED BY <2>1, SumRemove
<1>2. SumFunctionOnSet(f, S \ {e}) \in Nat
  <2>1. IsFiniteSet(S \ {e})
    BY FS_Subset
  <2>2. \A x \in S \ {e} : f[x] \in Int /\ f[x] >= 0
    OBVIOUS
  <2>3. /\ SumFunctionOnSet(f, S \ {e}) \in Int
        /\ SumFunctionOnSet(f, S \ {e}) >= 0
    BY <2>1, <2>2, SumType
  <2> QED BY <2>3
<1>3. f[e] \in Nat
  OBVIOUS
<1> QED BY <1>1, <1>2, <1>3, TableSum

\* What is known of the tables and of their sums in a typed state.
LEMMA BookTypes ==
  ASSUME TypeOK
  PROVE  /\ IsFiniteSet(Donors) /\ IsFiniteSet(Applicants)
         /\ donated \in [Donors -> Nat] /\ refunded \in [Donors -> Nat]
         /\ allocation \in [Applicants -> Nat]
         /\ ReleasedOf \in [Applicants -> Nat] /\ GrantedOf \in [Applicants -> Nat]
         /\ SumFunction(donated) \in Nat /\ SumFunction(refunded) \in Nat
         /\ SumFunction(allocation) \in Nat
         /\ SumFunction(ReleasedOf) \in Nat /\ SumFunction(GrantedOf) \in Nat
<1>1. IsFiniteSet(Donors) /\ IsFiniteSet(Applicants)
  BY SetsAssumption
<1>2. /\ donated \in [Donors -> Nat] /\ refunded \in [Donors -> Nat]
      /\ allocation \in [Applicants -> Nat]
  BY DEF TypeOK
<1>3. ReleasedOf \in [Applicants -> Nat] /\ GrantedOf \in [Applicants -> Nat]
  BY DEF TypeOK, ReleasedOf, GrantedOf, Award
<1> HIDE DEF ReleasedOf, GrantedOf
<1> QED BY <1>1, <1>2, <1>3, TableSum

\* The sums over the awards after one award has changed.
LEMMA AwardSumsUpdate ==
  ASSUME TypeOK, NEW a \in Applicants, NEW next, award' = [award EXCEPT ![a] = next],
         next.released \in Nat, next.granted \in Nat
  PROVE  /\ SumFunction(ReleasedOf') = SumFunction(ReleasedOf) - award[a].released + next.released
         /\ SumFunction(GrantedOf') = SumFunction(GrantedOf) - award[a].granted + next.granted
<1>1. /\ ReleasedOf \in [Applicants -> Nat] /\ GrantedOf \in [Applicants -> Nat]
      /\ IsFiniteSet(Applicants)
  BY BookTypes
<1>2. /\ ReleasedOf' \in [Applicants -> Nat] /\ GrantedOf' \in [Applicants -> Nat]
      /\ ReleasedOf'[a] = next.released /\ GrantedOf'[a] = next.granted
      /\ \A x \in Applicants \ {a} :
           ReleasedOf'[x] = ReleasedOf[x] /\ GrantedOf'[x] = GrantedOf[x]
  BY DEF ReleasedOf, GrantedOf, TypeOK, Award
<1>3. ReleasedOf[a] = award[a].released /\ GrantedOf[a] = award[a].granted
  BY DEF ReleasedOf, GrantedOf
<1> HIDE DEF ReleasedOf, GrantedOf
<1>4. SumFunction(ReleasedOf') = SumFunction(ReleasedOf) - ReleasedOf[a] + ReleasedOf'[a]
  BY <1>1, <1>2, TableUpdate
<1>5. SumFunction(GrantedOf') = SumFunction(GrantedOf) - GrantedOf[a] + GrantedOf'[a]
  BY <1>1, <1>2, TableUpdate
<1> QED BY <1>2, <1>3, <1>4, <1>5

\* The sum of a table of the state after one entry has changed.
LEMMA BookUpdate ==
  ASSUME NEW S, IsFiniteSet(S), NEW f \in [S -> Nat], NEW e \in S, NEW v \in Nat
  PROVE  SumFunction([f EXCEPT ![e] = v]) = SumFunction(f) - f[e] + v
<1> DEFINE g == [f EXCEPT ![e] = v]
<1>1. g \in [S -> Nat] /\ g[e] = v /\ \A x \in S \ {e} : g[x] = f[x]
  OBVIOUS
<1> HIDE DEF g
<1>2. SumFunction(g) = SumFunction(f) - f[e] + v
  BY <1>1, TableUpdate
<1> QED BY <1>2 DEF g

------------------------------------------------------------------------------
(* The books balance *)

\* A new programme holds nothing and has promised nothing.
LEMMA ConservationInit == Init => Conservation
<1> SUFFICES ASSUME Init PROVE Conservation
  OBVIOUS
<1>1. IsFiniteSet(Donors) /\ IsFiniteSet(Applicants)
  BY SetsAssumption
<1>2. /\ donated \in [Donors -> Nat] /\ \A d \in Donors : donated[d] = 0
      /\ refunded \in [Donors -> Nat] /\ \A d \in Donors : refunded[d] = 0
      /\ allocation \in [Applicants -> Nat] /\ \A a \in Applicants : allocation[a] = 0
      /\ ReleasedOf \in [Applicants -> Nat] /\ \A a \in Applicants : ReleasedOf[a] = 0
      /\ GrantedOf \in [Applicants -> Nat] /\ \A a \in Applicants : GrantedOf[a] = 0
  BY DEF Init, ReleasedOf, GrantedOf, NoAward
<1>3. /\ SumFunction(donated) = 0 /\ SumFunction(refunded) = 0
      /\ SumFunction(allocation) = 0
      /\ SumFunction(ReleasedOf) = 0 /\ SumFunction(GrantedOf) = 0
  BY <1>1, <1>2, TableOfZeros
<1>4. paid[Treasury] = 0 /\ balance = 0 /\ contributed = 0 /\ released = 0
      /\ refundedTotal = 0 /\ granted = 0
  BY DEF Init, Address
<1> QED BY <1>3, <1>4 DEF Conservation, ReleasedOf, GrantedOf

\* Every step books what it moves.
LEMMA ConservationStep ==
  TypedAwards /\ Conservation /\ [Next]_vars => Conservation'
<1> SUFFICES ASSUME TypedAwards, Conservation, [Next]_vars PROVE Conservation'
  OBVIOUS
<1>0. TypeOK
  BY DEF TypedAwards
<1>t. /\ balance \in Nat /\ contributed \in Nat /\ released \in Nat
      /\ refundedTotal \in Nat /\ granted \in Nat
      /\ paid \in [Address -> Nat] /\ Treasury \in Address
  BY <1>0 DEF TypeOK, Address
<1>b. /\ SumFunction(donated) \in Nat /\ SumFunction(refunded) \in Nat
      /\ SumFunction(allocation) \in Nat
      /\ SumFunction(ReleasedOf) \in Nat /\ SumFunction(GrantedOf) \in Nat
  BY <1>0, BookTypes
<1>c. /\ balance = contributed - released + SumFunction(allocation)
                     - refundedTotal - paid[Treasury]
      /\ contributed = SumFunction(donated)
      /\ refundedTotal = SumFunction(refunded)
      /\ released = SumFunction(ReleasedOf)
      /\ granted = SumFunction(GrantedOf)
  BY DEF Conservation, ReleasedOf, GrantedOf
<1> DEFINE Balanced ==
      /\ balance' = contributed' - released' + SumFunction(allocation')
                      - refundedTotal' - paid'[Treasury]
      /\ contributed' = SumFunction(donated')
      /\ refundedTotal' = SumFunction(refunded')
      /\ released' = SumFunction(ReleasedOf')
      /\ granted' = SumFunction(GrantedOf')
<1>d. Balanced => Conservation'
  BY DEF Conservation, ReleasedOf, GrantedOf
<1>1. CASE UNCHANGED <<donorVars, refundVars, granted, award, released, allocation, tokenVars>>
  <2>1. UNCHANGED <<contributed, donated, refundedTotal, refunded, granted, ReleasedOf,
                    GrantedOf, released, allocation, balance, paid>>
    BY <1>1 DEF donorVars, refundVars, tokenVars, ReleasedOf, GrantedOf
  <2> QED BY <1>c, <1>d, <2>1
<1>2. ASSUME NEW d \in Donors, NEW amount \in Contributions, Contribute(d, amount)
      PROVE  Conservation'
  <2>1. /\ amount \in Nat /\ donated[d] + amount \in Nat
        /\ donated' = [donated EXCEPT ![d] = donated[d] + amount]
        /\ contributed' = contributed + amount /\ balance' = balance + amount
        /\ UNCHANGED <<refundedTotal, refunded, granted, award, released, allocation, paid>>
    BY <1>0, <1>2, InputsAssumption DEF Contribute, CanContribute, TypeOK, refundVars, releaseVars
  <2>2. SumFunction(donated') = SumFunction(donated) - donated[d] + (donated[d] + amount)
    <3>1. donated \in [Donors -> Nat] /\ IsFiniteSet(Donors)
      BY <1>0, BookTypes
    <3> QED BY <2>1, <3>1, BookUpdate
  <2>3. UNCHANGED <<ReleasedOf, GrantedOf>>
    BY <2>1 DEF ReleasedOf, GrantedOf
  <2>4. donated[d] \in Nat
    BY <1>0 DEF TypeOK
  <2> QED BY <1>t, <1>b, <1>c, <1>d, <2>1, <2>2, <2>3, <2>4
<1>3. ASSUME NEW d \in Donors, NEW amount \in PartialAmounts \cup {RefundDue(d)},
             ExecuteRefund(d, amount)
      PROVE  Conservation'
  <2>1. /\ amount \in Nat /\ refunded[d] + amount \in Nat
        /\ refunded' = [refunded EXCEPT ![d] = refunded[d] + amount]
        /\ refundedTotal' = refundedTotal + amount
        /\ UNCHANGED <<contributed, donated, granted, award, released, allocation>>
    BY <1>0, <1>3, RefundFacts DEF ExecuteRefund, BookRefund, donorVars, releaseVars
  <2>2. /\ balance' = balance - amount /\ paid'[Treasury] = paid[Treasury]
    <3>1. d \in Address /\ d # Treasury
      BY SetsAssumption DEF Address
    <3> QED BY <1>0, <1>t, <1>3, <2>1, <3>1, PayFacts DEF ExecuteRefund
  <2>3. SumFunction(refunded') = SumFunction(refunded) - refunded[d] + (refunded[d] + amount)
    <3>1. refunded \in [Donors -> Nat] /\ IsFiniteSet(Donors)
      BY <1>0, BookTypes
    <3> QED BY <2>1, <3>1, BookUpdate
  <2>4. UNCHANGED <<ReleasedOf, GrantedOf>>
    BY <2>1 DEF ReleasedOf, GrantedOf
  <2>5. refunded[d] \in Nat /\ paid[Treasury] \in Nat
    BY <1>0, <1>t DEF TypeOK
  <2> QED BY <1>t, <1>b, <1>c, <1>d, <2>1, <2>2, <2>3, <2>4, <2>5
<1>4. ASSUME NEW a \in Applicants, NEW payee \in Destinations \cup {a}, NEW mode \in Modes,
             Finalize(a, payee, mode)
      PROVE  Conservation'
  <2> DEFINE amount == SettledAmount(application[a].votes, Quorum)
             next == [granted |-> amount, released |-> 0, tranches |-> Tranches,
                      tranches_released |-> 0, payee |-> payee, mode |-> mode]
  <2>1. /\ Undecided(a) /\ award' = [award EXCEPT ![a] = next] /\ granted' = granted + amount
        /\ Len(application[a].votes) >= Quorum
        /\ UNCHANGED <<contributed, donated, refundedTotal, refunded, released, allocation,
                       balance, paid>>
    BY <1>4 DEF Finalize, CanFinalize, SettledAward, donorVars, refundVars, releaseVars, tokenVars
  <2>2. amount \in Nat
    <3>1. application[a].votes \in Seq(Nat)
      BY <1>0 DEF TypeOK, Application
    <3>2. Quorum \in Nat \ {0}
      BY ConstructorAssumption DEF ConstructorChecks, MAX_QUORUM
    <3> QED BY <2>1, <3>1, <3>2, SettledAmountType
  <2>3. award[a] = NoAward
    BY <2>1 DEF TypedAwards, AwardsOK, Undecided
  <2>4. award[a].released = 0 /\ award[a].granted = 0
    BY <2>3 DEF NoAward
  <2> HIDE DEF amount
  <2>5. next.released = 0 /\ next.granted = amount
    OBVIOUS
  <2> HIDE DEF next
  <2>6. /\ SumFunction(ReleasedOf') = SumFunction(ReleasedOf) - award[a].released + next.released
        /\ SumFunction(GrantedOf') = SumFunction(GrantedOf) - award[a].granted + next.granted
    <3>1. next.released \in Nat /\ next.granted \in Nat
      BY <2>2, <2>5
    <3> QED BY <1>0, <2>1, <3>1, AwardSumsUpdate
  <2> QED BY <1>t, <1>b, <1>c, <1>d, <2>1, <2>2, <2>4, <2>5, <2>6
<1>5. ASSUME NEW a \in Applicants, NEW p \in Destinations, NEW amount \in PartialAmounts,
             Spend(a, p, amount)
      PROVE  Conservation'
  <2>1. /\ amount \in Nat /\ allocation[a] \in Nat /\ allocation[a] - amount \in Nat
        /\ allocation' = [allocation EXCEPT ![a] = allocation[a] - amount]
        /\ UNCHANGED <<contributed, donated, refundedTotal, refunded, granted, award, released>>
    BY <1>0, <1>5, InputsAssumption DEF Spend, CanSpend, Escrowed, TypeOK, donorVars, refundVars, releaseVars
  <2>2. balance' = balance - amount /\ paid'[Treasury] = paid[Treasury]
    <3>1. p \in Address /\ p # Treasury
      BY SetsAssumption DEF Address
    <3> QED BY <1>0, <1>t, <1>5, <2>1, <3>1, PayFacts DEF Spend
  <2>3. SumFunction(allocation') = SumFunction(allocation) - allocation[a] + (allocation[a] - amount)
    <3>1. allocation \in [Applicants -> Nat] /\ IsFiniteSet(Applicants)
      BY <1>0, BookTypes
    <3> QED BY <2>1, <3>1, BookUpdate
  <2>4. UNCHANGED <<ReleasedOf, GrantedOf>>
    BY <2>1 DEF ReleasedOf, GrantedOf
  <2>5. paid[Treasury] \in Nat
    BY <1>t
  <2> QED BY <1>t, <1>b, <1>c, <1>d, <2>1, <2>2, <2>3, <2>4, <2>5
<1>6. ASSUME NEW a \in Applicants, NEW amount \in Nat \ {0}, NEW n \in Nat \ {0},
             NEW uids \in SUBSET Attestations, ReleaseEffect(a, amount, n, uids)
      PROVE  Conservation'
  <2>1. /\ released' = released + amount /\ PayOut(a, amount)
        /\ award[a] \in AwardOf(Destinations \cup {a}, Modes)
        /\ UNCHANGED <<contributed, donated, refundedTotal, refunded, granted>>
    BY <1>6 DEF ReleaseEffect, donorVars, refundVars
  <2>2. PICK next \in AwardOf(Destinations \cup {a}, Modes) :
          /\ award' = [award EXCEPT ![a] = next]
          /\ next.granted = award[a].granted /\ next.released = award[a].released + amount
    BY <1>6 DEF ReleaseEffect
  <2>3. /\ award[a].released \in Nat /\ award[a].granted \in Nat
        /\ next.released \in Nat /\ next.granted \in Nat
    BY <2>1, <2>2 DEF AwardOf
  <2>4. /\ SumFunction(ReleasedOf') = SumFunction(ReleasedOf) - award[a].released + next.released
        /\ SumFunction(GrantedOf') = SumFunction(GrantedOf) - award[a].granted + next.granted
    BY <1>0, <2>2, <2>3, AwardSumsUpdate
  <2>5. /\ balance' - SumFunction(allocation') = balance - SumFunction(allocation) - amount
        /\ balance' \in Nat /\ SumFunction(allocation') \in Nat
        /\ paid'[Treasury] = paid[Treasury]
    <3>1. award[a].payee \in Address /\ award[a].payee # Treasury
      BY <2>1, AwardTypes
    <3>2. CASE /\ allocation' = [allocation EXCEPT ![a] = @ + amount]
               /\ UNCHANGED tokenVars
      <4> DEFINE more == allocation[a] + amount
      <4>1. allocation[a] \in Nat /\ more \in Nat /\ more = allocation[a] + amount
        BY <1>0 DEF TypeOK
      <4>2. allocation' = [allocation EXCEPT ![a] = more]
        BY <3>2
      <4> HIDE DEF more
      <4>3. SumFunction(allocation') = SumFunction(allocation) - allocation[a] + more
        <5>1. allocation \in [Applicants -> Nat] /\ IsFiniteSet(Applicants)
          BY <1>0, BookTypes
        <5> QED BY <4>1, <4>2, <5>1, BookUpdate
      <4> QED BY <1>t, <1>b, <3>2, <4>1, <4>3 DEF tokenVars
    <3>3. CASE Pay(award[a].payee, amount) /\ UNCHANGED allocation
      <4>1. balance' \in Nat /\ balance' = balance - amount /\ paid'[Treasury] = paid[Treasury]
        BY <1>0, <1>t, <3>1, <3>3, PayFacts
      <4> QED BY <1>t, <1>b, <3>3, <4>1
    <3> QED BY <2>1, <3>2, <3>3 DEF PayOut
  <2>6. paid[Treasury] \in Nat
    BY <1>t
  <2> QED BY <1>t, <1>b, <1>c, <1>d, <2>1, <2>2, <2>3, <2>4, <2>5, <2>6
<1>7. CASE SweepFee \/ SweepUnclaimed
  <2> DEFINE amount == IF SweepFee THEN Fee ELSE balance
  <2>1. amount \in Nat
    BY <1>0, <1>t, AmountFacts
  <2>2. /\ Pay(Treasury, amount)
        /\ UNCHANGED <<contributed, donated, refundedTotal, refunded, granted, award,
                       released, allocation>>
    BY <1>7 DEF SweepFee, SweepUnclaimed, donorVars, refundVars, releaseVars
  <2> HIDE DEF amount
  <2>3. balance' = balance - amount /\ paid'[Treasury] = paid[Treasury] + amount
    BY <1>0, <1>t, <2>1, <2>2, PayFacts
  <2>4. UNCHANGED <<ReleasedOf, GrantedOf>>
    BY <2>2 DEF ReleasedOf, GrantedOf
  <2>5. paid[Treasury] \in Nat
    BY <1>t
  <2> QED BY <1>t, <1>b, <1>c, <1>d, <2>1, <2>2, <2>3, <2>4, <2>5
<1> QED
  BY <1>1, <1>2, <1>3, <1>4, <1>5, <1>6, <1>7, StepCases, ZenonT(60) DEF Apply, Withdraw, Review, Cancel,
     ExtendReleaseDeadline, Quiet, donorVars, refundVars, releaseVars, tokenVars

\* Whatever is called, the token balance is what the books say, and the totals
\* are the sums of the entries: no token appears, and none is lost.
THEOREM BooksBalance == Spec => []Conservation
<1> QED BY ConservationInit, ConservationStep, Typed, PTL DEF Spec

------------------------------------------------------------------------------
(* What the promises rest on *)

\* Nothing has been swept before the sweep deadline, wherever an extension has
\* moved it.
SweptLate == sweptTotal > 0 => now >= sweepDeadline

\* Nothing is swept at first.
LEMMA SweptLateInit == Init => SweptLate
BY DEF Init, SweptLate

\* The sweep deadline moves only before the release deadline, so before a sweep.
LEMMA SweptLateStep ==
  TypedAwards /\ DeadlinesOK /\ SweptLate /\ [Next]_vars => SweptLate'
<1> SUFFICES ASSUME TypedAwards, DeadlinesOK, SweptLate, [Next]_vars PROVE SweptLate'
  OBVIOUS
<1>0. /\ now \in Nat /\ releaseDeadline \in Nat /\ sweepDeadline \in Nat
      /\ sweptTotal \in Nat /\ releaseDeadline <= sweepDeadline
  BY DEF TypedAwards, TypeOK, DeadlinesOK
<1>1. CASE UNCHANGED <<now, sweepDeadline, sweptTotal>>
  BY <1>1 DEF SweptLate
<1>2. ASSUME NEW deadline \in NewDeadlines, ExtendReleaseDeadline(deadline)
      PROVE  SweptLate'
  BY <1>0, <1>2 DEF ExtendReleaseDeadline, Extendable, SweptLate, treasuryVars
<1>3. CASE SweepUnclaimed
  BY <1>3 DEF SweepUnclaimed, SweepOpen, SweptLate, timeVars
<1>4. CASE Quiet
  BY <1>0, <1>4 DEF Quiet, SweptLate, treasuryVars
<1>5. ASSUME NEW a, NEW amount, NEW n, NEW uids, ReleaseEffect(a, amount, n, uids)
      PROVE  SweptLate'
  BY <1>1, <1>5 DEF ReleaseEffect, timeVars, treasuryVars
<1> QED
  BY <1>1, <1>2, <1>3, <1>4, <1>5, StepCases, ZenonT(60) DEF Contribute, ExecuteRefund, Apply, Withdraw,
     Review, Finalize, Spend, SweepFee, Cancel, timeVars, treasuryVars

\* Everything the two promises are derived from.
Solvent ==
  /\ TypedAwards /\ Conservation /\ BudgetNeverExceeded
  /\ DeadlinesOK /\ RefundsOK /\ FeeOK /\ SweptLate

\* It is an invariant.
LEMMA SolventHolds == Spec => []Solvent
<1> QED
  BY Typed, BooksBalance, BudgetHolds, Deadlines, RefundsInit, RefundsStep, FeeInit, FeeStep,
     SweptLateInit, SweptLateStep, PTL DEF Spec, Solvent

\* What the treasury has and may still take is the fee, before a sweep.
LEMMA FeeAccounted ==
  ASSUME Solvent, sweptTotal = 0
  PROVE  /\ paid[Treasury] \in Nat /\ Fee \in Nat
         /\ paid[Treasury] + (IF feeSwept THEN 0 ELSE Fee) = Fee
<1>1. TypeOK /\ FeeOK
  BY DEF Solvent, TypedAwards
<1>2. paid[Treasury] \in Nat /\ Fee \in Nat
  BY <1>1, AmountFacts DEF TypeOK, Address
<1> QED BY <1>1, <1>2 DEF FeeOK

\* An award that is not released beyond its tranches has released no more than
\* it grants.
LEMMA ReleasedWithinGrant ==
  ASSUME TypedAwards, NotOverReleased, NEW a \in Applicants
  PROVE  /\ award[a].released \in Nat /\ award[a].granted \in Nat
         /\ award[a].released <= award[a].granted
<1>1. CASE award[a] = NoAward
  BY <1>1 DEF NoAward
<1>2. CASE award[a] \in AwardOf(Destinations \cup {a}, Modes) /\ OnSchedule(award[a])
  <2> DEFINE g == award[a].granted
             t == award[a].tranches
             k == award[a].tranches_released
  <2>1. /\ g \in Nat /\ t \in Nat \ {0} /\ k \in Nat /\ k <= t
        /\ award[a].released \in Nat
        /\ award[a].released = IF k = t THEN g ELSE k * (g \div t)
    BY <1>2 DEF NotOverReleased, AwardOf, OnSchedule, TrancheOf
  <2> HIDE DEF g, t, k
  <2>2. k * (g \div t) <= g
    BY <2>1, TrancheBounds
  <2> QED BY <2>1, <2>2 DEF g
<1> QED BY <1>1, <1>2 DEF TypedAwards, AwardsOK

\* So the releases are within the grants, and the unpaid pool is not negative.
LEMMA PoolIsThere ==
  ASSUME Solvent, NotOverReleased
  PROVE  /\ released <= granted /\ granted <= Available
         /\ Available \in Nat /\ Available = contributed - Fee
         /\ Unpaid \in Nat /\ Unpaid = Available - released
<1>1. TypedAwards /\ TypeOK /\ Conservation /\ BudgetNeverExceeded
  BY DEF Solvent, TypedAwards
<1>2. released \in Nat /\ granted \in Nat
  BY <1>1 DEF TypeOK
<1>3. /\ IsFiniteSet(Applicants)
      /\ ReleasedOf \in [Applicants -> Nat] /\ GrantedOf \in [Applicants -> Nat]
  BY <1>1, BookTypes
<1>4. \A a \in Applicants : ReleasedOf[a] <= GrantedOf[a]
  BY <1>1, ReleasedWithinGrant DEF ReleasedOf, GrantedOf
<1>5. SumFunctionOnSet(ReleasedOf, Applicants) <= SumFunctionOnSet(GrantedOf, Applicants)
  <2>1. \A a \in Applicants : ReleasedOf[a] \in Int /\ GrantedOf[a] \in Int
    BY <1>3
  <2> QED BY <1>3, <1>4, <2>1, SumMonotone
<1>6. released <= granted
  <2>1. released = SumFunction(ReleasedOf) /\ granted = SumFunction(GrantedOf)
    BY <1>1 DEF Conservation, ReleasedOf, GrantedOf
  <2> QED BY <1>3, <1>5, <2>1, TableSum
<1> QED BY <1>1, <1>2, <1>6, AmountFacts DEF BudgetNeverExceeded, Unpaid

------------------------------------------------------------------------------
(* Every award can be paid out *)

\* While releases are open nothing was refunded and nothing was swept.
LEMMA NothingTakenBack ==
  ASSUME Solvent, ReleasesOpen
  PROVE  refundedTotal = 0 /\ sweptTotal = 0
<1>1. TypeOK /\ RefundsOK /\ SweptLate /\ DeadlinesOK /\ Conservation
  BY DEF Solvent, TypedAwards
<1>2. /\ now \in Nat /\ releaseDeadline \in Nat /\ sweepDeadline \in Nat
      /\ sweptTotal \in Nat /\ refunded \in [Donors -> Nat]
  BY <1>1 DEF TypeOK
<1>3. now < releaseDeadline /\ ~RefundsOpen
  BY <1>2 DEF ReleasesOpen, RefundsOpen
<1>4. sweptTotal = 0
  BY <1>1, <1>2, <1>3 DEF SweptLate, DeadlinesOK
<1>5. \A d \in Donors : refunded[d] = 0
  BY <1>1, <1>2, <1>3 DEF RefundsOK
<1>6. refundedTotal = 0
  <2>1. refundedTotal = SumFunction(refunded) /\ IsFiniteSet(Donors)
    BY <1>1, SetsAssumption DEF Conservation
  <2> QED BY <1>2, <1>5, <2>1, TableOfZeros
<1> QED BY <1>4, <1>6

\* The promise follows from the books.
LEMMA AwardsPayableFromBooks == Solvent => AwardsPayable
<1> SUFFICES ASSUME Solvent, ReleasesOpen, NotOverReleased
             PROVE  SumFunction([a \in Applicants |-> award[a].granted - award[a].released])
                      + SumFunction(allocation) + (IF feeSwept THEN 0 ELSE Fee) <= balance
  BY DEF AwardsPayable
<1> DEFINE Left == [a \in Applicants |-> award[a].granted - award[a].released]
           fee == IF feeSwept THEN 0 ELSE Fee
<1>1. TypeOK /\ Conservation
  BY DEF Solvent, TypedAwards
<1>2. /\ released \in Nat /\ granted \in Nat /\ balance \in Nat /\ contributed \in Nat
      /\ SumFunction(allocation) \in Nat
  BY <1>1, BookTypes DEF TypeOK
<1>3. SumFunction(Left) = granted - released
  <2>1. /\ IsFiniteSet(Applicants)
        /\ ReleasedOf \in [Applicants -> Nat] /\ GrantedOf \in [Applicants -> Nat]
    BY <1>1, BookTypes
  <2>2. \A a \in Applicants : GrantedOf[a] = Left[a] + ReleasedOf[a] /\ Left[a] \in Int
    BY <1>1 DEF ReleasedOf, GrantedOf, TypeOK, Award
  <2>3. DOMAIN Left = Applicants
    OBVIOUS
  <2> HIDE DEF Left
  <2>4. SumFunctionOnSet(GrantedOf, Applicants)
          = SumFunctionOnSet(Left, Applicants) + SumFunctionOnSet(ReleasedOf, Applicants)
    <3>1. \A a \in Applicants : ReleasedOf[a] \in Int
      BY <2>1
    <3> QED BY <2>1, <2>2, <3>1, SumOfBoth
  <2>5. granted = SumFunctionOnSet(GrantedOf, Applicants)
        /\ released = SumFunctionOnSet(ReleasedOf, Applicants)
    <3>1. granted = SumFunction(GrantedOf) /\ released = SumFunction(ReleasedOf)
      BY <1>1 DEF Conservation, ReleasedOf, GrantedOf
    <3> QED BY <2>1, <3>1, TableSum
  <2>6. SumFunctionOnSet(Left, Applicants) \in Int
    BY <2>1, <2>2, SumType
  <2>7. SumFunction(Left) = SumFunctionOnSet(Left, Applicants)
    BY <2>3 DEF SumFunction
  <2> QED BY <1>2, <2>4, <2>5, <2>6, <2>7
<1> HIDE DEF Left
<1>4. refundedTotal = 0 /\ sweptTotal = 0
  BY NothingTakenBack
<1>5. paid[Treasury] \in Nat /\ Fee \in Nat /\ paid[Treasury] + fee = Fee
  BY <1>4, FeeAccounted
<1>6. granted <= contributed - Fee
  BY PoolIsThere
<1>7. balance = contributed - released + SumFunction(allocation) - refundedTotal - paid[Treasury]
  BY <1>1 DEF Conservation
<1>8. fee \in Nat
  BY <1>5
<1> HIDE DEF fee
<1>9. SumFunction(Left) + SumFunction(allocation) + fee <= balance
  BY <1>2, <1>3, <1>4, <1>5, <1>6, <1>7, <1>8
<1> QED BY <1>9 DEF Left, fee

\* While tranches may be released, the contract holds everything its awards
\* still promise, beside the escrow and the fee: no release waits for money.
THEOREM AwardsStayPayable == Spec => []AwardsPayable
<1> QED BY SolventHolds, AwardsPayableFromBooks, PTL

------------------------------------------------------------------------------
(* Every donor can be refunded *)

\* What donor d has claimed and may still claim.
Entitlement == [d \in Donors |-> Pending(d) + refunded[d]]

\* A donor's entitlement is a natural number, within the proportional share.
LEMMA EntitlementFacts ==
  ASSUME Solvent, Unpaid \in Nat, NEW d \in Donors
  PROVE  /\ Pending(d) \in Nat /\ Entitlement[d] \in Nat
         /\ Entitlement[d] = Pending(d) + refunded[d]
         /\ donated[d] \in Nat
         /\ donated[d] = 0 => Entitlement[d] = 0
         /\ contributed > 0 => Entitlement[d] * contributed <= donated[d] * Unpaid
<1>1. TypeOK /\ RefundsOK
  BY DEF Solvent, TypedAwards
<1>2. contributed \in Nat /\ donated[d] \in Nat /\ refunded[d] \in Nat
  BY <1>1 DEF TypeOK
<1>3. Entitlement[d] = Pending(d) + refunded[d]
  BY DEF Entitlement
<1>4. refunded[d] > 0 =>
        donated[d] > 0 /\ refunded[d] * contributed <= donated[d] * Unpaid
  BY <1>1 DEF RefundsOK
<1>5. donated[d] * Unpaid \in Nat
  BY <1>2
<1>6. CASE Pending(d) = 0
  <2>1. Entitlement[d] = refunded[d]
    BY <1>2, <1>3, <1>6
  <2>2. refunded[d] = 0 => refunded[d] * contributed <= donated[d] * Unpaid
    BY <1>2, <1>5
  <2> QED BY <1>2, <1>3, <1>4, <1>6, <2>1, <2>2
<1>7. CASE donated[d] # 0 /\ RefundDue(d) >= 0 /\ Pending(d) = RefundDue(d) /\ contributed > 0
  <2> DEFINE x == donated[d] * Unpaid
             share == x \div contributed
  <2>1. share \in Int
    BY <1>2, <1>5, <1>7, SMT
  <2>2. RefundDue(d) = share - refunded[d]
    BY DEF RefundDue, RefundShare, ShareOf
  <2> HIDE DEF share
  <2>3. Pending(d) \in Nat /\ Entitlement[d] = share /\ Entitlement[d] \in Nat
    BY <1>2, <1>3, <1>7, <2>1, <2>2
  <2>4. share * contributed <= x
    <3>1. contributed \in Nat \ {0} /\ x \in Int /\ share <= x \div contributed
      BY <1>2, <1>5, <1>7, <2>1 DEF share
    <3> HIDE DEF x
    <3> QED BY <2>1, <3>1, ShareRoundsDown
  <2> QED BY <1>2, <1>3, <1>7, <2>3, <2>4
<1>8. CASE contributed = 0
  <2>1. donated[d] = 0
    <3>1. donated \in [Donors -> Nat] /\ IsFiniteSet(Donors) /\ contributed = SumFunction(donated)
      BY <1>1, BookTypes DEF Solvent, Conservation
    <3> QED BY <1>2, <1>8, <3>1, TablePart
  <2>2. Pending(d) = 0
    BY <2>1 DEF Pending
  <2> QED BY <1>6, <2>2
<1>9. Pending(d) = 0 \/ (donated[d] # 0 /\ ~(RefundDue(d) < 0) /\ Pending(d) = RefundDue(d))
  BY DEF Pending
<1>10. contributed > 0 => RefundDue(d) \in Int
  <2>1. contributed > 0 => (donated[d] * Unpaid) \div contributed \in Int
    BY <1>2, <1>5, SMT
  <2> QED BY <1>2, <2>1 DEF RefundDue, RefundShare, ShareOf
<1> QED BY <1>2, <1>6, <1>7, <1>8, <1>9, <1>10

\* All entitlements together are within the unpaid pool: rounding is down.
LEMMA EntitlementsWithinPool ==
  ASSUME Solvent, Unpaid \in Nat
  PROVE  /\ Entitlement \in [Donors -> Nat]
         /\ SumFunction(Entitlement) <= Unpaid
<1>1. /\ TypeOK /\ IsFiniteSet(Donors) /\ donated \in [Donors -> Nat]
      /\ contributed \in Nat /\ contributed = SumFunction(donated)
  BY BookTypes DEF Solvent, TypedAwards, Conservation, TypeOK
<1>2. Entitlement \in [Donors -> Nat]
  <2>1. \A d \in Donors : Pending(d) + refunded[d] \in Nat
    BY EntitlementFacts
  <2> QED BY <2>1 DEF Entitlement
<1>3. CASE contributed > 0
  <2> DEFINE Left == [d \in Donors |-> Entitlement[d] * contributed]
             Right == [d \in Donors |-> donated[d] * Unpaid]
             total == SumFunctionOnSet(Entitlement, Donors)
  <2>1. \A d \in Donors : Left[d] \in Int /\ Right[d] \in Int /\ Left[d] <= Right[d]
    BY <1>1, <1>2, <1>3, EntitlementFacts
  <2>2. /\ \A d \in Donors : Entitlement[d] \in Int /\ Left[d] = Entitlement[d] * contributed
        /\ \A d \in Donors : donated[d] \in Int /\ Right[d] = donated[d] * Unpaid
        /\ contributed \in Int /\ Unpaid \in Int
    BY <1>1, <1>2
  <2> HIDE DEF Left, Right
  <2>3. SumFunctionOnSet(Left, Donors) <= SumFunctionOnSet(Right, Donors)
    BY <1>1, <2>1, SumMonotone
  <2>4. SumFunctionOnSet(Left, Donors) = total * contributed
    BY <1>1, <2>2, SumScaled
  <2>5. SumFunctionOnSet(Right, Donors) = SumFunctionOnSet(donated, Donors) * Unpaid
    BY <1>1, <2>2, SumScaled
  <2>6. SumFunctionOnSet(donated, Donors) = contributed
    BY <1>1, TableSum
  <2>7. total * contributed <= contributed * Unpaid
    BY <2>3, <2>4, <2>5, <2>6
  <2>8. total \in Nat /\ total = SumFunction(Entitlement)
    BY <1>1, <1>2, TableSum
  <2> HIDE DEF total
  <2>9. total <= Unpaid
    <3>1. SUFFICES ASSUME total >= Unpaid + 1 PROVE FALSE
      BY <2>8
    <3>2. total * contributed >= (Unpaid + 1) * contributed
      BY <1>1, <2>8, <3>1, SMT
    <3>3. (Unpaid + 1) * contributed = contributed * Unpaid + contributed
      BY <1>1, SMT
    <3>4. total * contributed \in Int /\ contributed * Unpaid \in Int
      BY <1>1, <2>8
    <3> QED BY <1>1, <1>3, <2>7, <3>2, <3>3, <3>4
  <2> QED BY <1>2, <2>8, <2>9
<1>4. CASE contributed = 0
  <2>1. \A d \in Donors : Entitlement[d] = 0
    <3> TAKE d \in Donors
    <3>1. donated[d] \in Nat /\ donated[d] <= SumFunction(donated)
      BY <1>1, TablePart
    <3>2. donated[d] = 0
      BY <1>1, <1>4, <3>1
    <3> QED BY <3>2, EntitlementFacts
  <2>2. SumFunction(Entitlement) = 0
    BY <1>1, <1>2, <2>1, TableOfZeros
  <2> QED BY <1>2, <2>2
<1> QED BY <1>1, <1>3, <1>4

\* What may still be claimed and what has been add up to the entitlements.
LEMMA PendingAndRefunded ==
  ASSUME Solvent, Unpaid \in Nat
  PROVE  /\ SumFunction([d \in Donors |-> Pending(d)]) \in Nat
         /\ SumFunction([d \in Donors |-> Pending(d)]) + refundedTotal <= Unpaid
<1> DEFINE Open == [d \in Donors |-> Pending(d)]
<1>1. /\ TypeOK /\ IsFiniteSet(Donors) /\ refunded \in [Donors -> Nat]
      /\ refundedTotal \in Nat /\ refundedTotal = SumFunction(refunded)
  BY BookTypes DEF Solvent, TypedAwards, Conservation, TypeOK
<1>2. Open \in [Donors -> Nat] /\ \A d \in Donors : Entitlement[d] = Open[d] + refunded[d]
  BY EntitlementFacts
<1>3. Entitlement \in [Donors -> Nat] /\ SumFunction(Entitlement) <= Unpaid
  BY EntitlementsWithinPool
<1> HIDE DEF Open
<1>4. SumFunctionOnSet(Entitlement, Donors)
        = SumFunctionOnSet(Open, Donors) + SumFunctionOnSet(refunded, Donors)
  <2>1. \A d \in Donors : Open[d] \in Int /\ refunded[d] \in Int
    BY <1>1, <1>2
  <2> QED BY <1>1, <1>2, <2>1, SumOfBoth
<1>5. SumFunction(Open) \in Nat /\ SumFunction(Open) + refundedTotal <= Unpaid
  BY <1>1, <1>2, <1>3, <1>4, TableSum
<1> QED BY <1>5 DEF Open

\* The promise follows from the books.
LEMMA DonorsPayableFromBooks == Solvent => DonorsPayable
<1> SUFFICES ASSUME Solvent, sweptTotal = 0, NotOverReleased
             PROVE  SumFunction([d \in Donors |-> Pending(d)])
                      + SumFunction(allocation) + (IF feeSwept THEN 0 ELSE Fee) <= balance
  BY DEF DonorsPayable
<1> DEFINE fee == IF feeSwept THEN 0 ELSE Fee
           pending == SumFunction([d \in Donors |-> Pending(d)])
<1>1. TypeOK /\ Conservation
  BY DEF Solvent, TypedAwards
<1>2. /\ released \in Nat /\ balance \in Nat /\ contributed \in Nat
      /\ refundedTotal \in Nat /\ SumFunction(allocation) \in Nat
  BY <1>1, BookTypes DEF TypeOK
<1>3. Unpaid \in Nat /\ Unpaid = contributed - Fee - released
  BY PoolIsThere
<1>4. pending \in Nat /\ pending + refundedTotal <= Unpaid
  BY <1>3, PendingAndRefunded
<1>5. paid[Treasury] \in Nat /\ Fee \in Nat /\ paid[Treasury] + fee = Fee
  BY FeeAccounted
<1>6. fee \in Nat
  BY <1>5
<1>7. balance = contributed - released + SumFunction(allocation) - refundedTotal - paid[Treasury]
  BY <1>1 DEF Conservation
<1> HIDE DEF fee, pending
<1>8. pending + SumFunction(allocation) + fee <= balance
  BY <1>2, <1>3, <1>4, <1>5, <1>6, <1>7
<1> QED BY <1>8 DEF fee, pending

\* Until the sweep, every donor's whole remaining share is there at once, beside
\* the escrow and the fee, however claims are cut up and whoever comes first.
THEOREM DonorsStayPayable == Spec => []DonorsPayable
<1> QED BY SolventHolds, DonorsPayableFromBooks, PTL

------------------------------------------------------------------------------
(* No call that is due is refused for want of money *)

\* Every claim of a donor with something due passes all the checks of refund, in
\* whole or in part; every tranche and batch that an award has left can be paid;
\* and so can the whole escrow of every recipient until the sweep deadline.
MoneyIsThere ==
  NotOverReleased =>
    /\ \A d \in Donors : RefundsOpen /\ sweptTotal = 0 /\ Pending(d) > 0 =>
         \A amount \in 1 .. Pending(d) : CanRefund(d, amount)
    /\ \A a \in Applicants : ReleasesOpen /\ TranchesLeft(a) =>
         /\ NextTranche(award[a]) <= balance
         /\ \A n \in 1 .. award[a].tranches - award[a].tranches_released :
              BatchAmount(award[a], n) <= balance
    /\ \A a \in Applicants : now < sweepDeadline => allocation[a] <= balance

\* One of several numbers that fit in the balance together fits in it.
LEMMA PartFits ==
  ASSUME NEW S, IsFiniteSet(S), NEW f \in [S -> Nat], NEW e \in S,
         NEW x \in Nat, NEW fee \in Nat, NEW b \in Nat, SumFunction(f) + x + fee <= b
  PROVE  f[e] <= b
<1>1. f[e] \in Nat /\ f[e] <= SumFunction(f) /\ SumFunction(f) \in Nat
  BY TablePart, TableSum
<1> QED BY <1>1

\* It follows from the two promises.
LEMMA MoneyIsThereFromBooks == Solvent => MoneyIsThere
<1> SUFFICES ASSUME Solvent, NotOverReleased
             PROVE  /\ \A d \in Donors : RefundsOpen /\ sweptTotal = 0 /\ Pending(d) > 0 =>
                         \A amount \in 1 .. Pending(d) : CanRefund(d, amount)
                    /\ \A a \in Applicants : ReleasesOpen /\ TranchesLeft(a) =>
                         /\ NextTranche(award[a]) <= balance
                         /\ \A n \in 1 .. award[a].tranches - award[a].tranches_released :
                              BatchAmount(award[a], n) <= balance
                    /\ \A a \in Applicants : now < sweepDeadline => allocation[a] <= balance
  BY DEF MoneyIsThere
<1> DEFINE fee == IF feeSwept THEN 0 ELSE Fee
           Open == [d \in Donors |-> Pending(d)]
           Left == [a \in Applicants |-> award[a].granted - award[a].released]
<1>1. /\ TypedAwards /\ TypeOK /\ AwardsPayable /\ DonorsPayable /\ SweptLate
      /\ IsFiniteSet(Donors) /\ IsFiniteSet(Applicants)
      /\ balance \in Nat /\ allocation \in [Applicants -> Nat]
      /\ SumFunction(allocation) \in Nat /\ fee \in Nat
  BY BookTypes, AmountFacts, AwardsPayableFromBooks, DonorsPayableFromBooks
     DEF Solvent, TypedAwards, TypeOK
<1>2. /\ Unpaid \in Nat /\ Open \in [Donors -> Nat] /\ SumFunction(Open) \in Nat
  <2>1. Unpaid \in Nat
    BY PoolIsThere
  <2>2. Open \in [Donors -> Nat]
    BY <2>1, EntitlementFacts
  <2> QED BY <2>1, <2>2, PendingAndRefunded
<1>3. Left \in [Applicants -> Nat]
  BY <1>1, ReleasedWithinGrant
<1>4. ASSUME NEW d \in Donors, RefundsOpen, sweptTotal = 0, Pending(d) > 0,
             NEW amount \in 1 .. Pending(d)
      PROVE  CanRefund(d, amount)
  <2>1. donated[d] # 0 /\ Pending(d) = RefundDue(d) /\ Pending(d) \in Nat
    BY <1>2, <1>4, EntitlementFacts DEF Pending
  <2>2. Pending(d) <= balance
    <3>1. SumFunction(Open) + SumFunction(allocation) + fee <= balance
      BY <1>1, <1>4 DEF DonorsPayable
    <3>2. Open[d] = Pending(d)
      OBVIOUS
    <3> HIDE DEF Open, fee
    <3>3. Open[d] <= balance
      BY <1>1, <1>2, <3>1, PartFits
    <3> QED BY <3>2, <3>3
  <2>3. /\ refunded[d] \in Nat /\ donated[d] \in Nat \ {0}
        /\ contributed \in Nat \ {0}
    <3>1. /\ donated \in [Donors -> Nat] /\ refunded \in [Donors -> Nat]
          /\ contributed = SumFunction(donated)
      BY <1>1 DEF TypeOK, Solvent, Conservation
    <3>2. donated[d] \in Nat /\ donated[d] <= contributed /\ contributed \in Nat
      BY <1>1, <3>1, TablePart, TableSum
    <3> QED BY <2>1, <3>1, <3>2
  <2>4. RefundShare(d) = RefundDue(d) + refunded[d]
    <3>1. donated[d] * Unpaid \in Nat
      BY <1>2, <2>3
    <3>2. (donated[d] * Unpaid) \div contributed \in Int
      BY <2>3, <3>1, SMT
    <3> QED BY <2>3, <3>2 DEF RefundDue, RefundShare, ShareOf
  <2>5. RefundShare(d) > 0
    BY <1>4, <2>1, <2>3, <2>4
  <2>6. Unpaid > 0
    <3>1. SUFFICES ASSUME Unpaid = 0 PROVE FALSE
      BY <1>2
    <3>2. RefundShare(d) = 0 \div contributed
      BY <2>3, <3>1 DEF RefundShare, ShareOf
    <3>3. 0 \div contributed = 0
      BY <2>3, SMT
    <3> QED BY <2>5, <3>2, <3>3
  <2> QED BY <1>1, <1>4, <2>1, <2>2, <2>5, <2>6 DEF CanRefund
<1>5. ASSUME NEW a \in Applicants, ReleasesOpen, TranchesLeft(a),
             NEW n \in 1 .. award[a].tranches - award[a].tranches_released
      PROVE  NextTranche(award[a]) <= balance /\ BatchAmount(award[a], n) <= balance
  <2> DEFINE g == award[a].granted
             t == award[a].tranches
             k == award[a].tranches_released
             b == TrancheOf(award[a])
  <2>1. award[a] \in AwardOf(Destinations \cup {a}, Modes) /\ OnSchedule(award[a])
    BY <1>1, <1>5 DEF TypedAwards, AwardsOK, TranchesLeft, HasAward, NoAward
  <2>2. g \in Nat /\ t \in Nat \ {0} /\ k \in Nat /\ k < t /\ n \in 1 .. t - k
    BY <1>5, <2>1 DEF AwardOf, TranchesLeft
  <2>3. award[a].released = k * b /\ b = g \div t
    BY <2>1, <2>2 DEF OnSchedule, TrancheOf
  <2>4. \A m \in 1 .. t - k : b \in Nat /\ k * b + m * b <= g /\ k * b \in Nat /\ m * b \in Nat
    <3> TAKE m \in 1 .. t - k
    <3>1. k \in 0 .. t /\ k + m \in 0 .. t /\ m \in 0 .. t
      BY <2>2
    <3> HIDE DEF g, t, k, b
    <3>2. b \in Nat /\ k * b \in Nat /\ m * b \in Nat /\ (k + m) * b <= g
      BY <2>2, <2>3, <3>1, TrancheBounds
    <3>3. (k + m) * b = k * b + m * b
      BY <3>1, <3>2, <2>2, SMT
    <3> QED BY <3>2, <3>3
  <2>5. Left[a] <= balance /\ Left[a] = g - k * b
    <3>1. SumFunction(Left) + SumFunction(allocation) + fee <= balance
      BY <1>1, <1>5 DEF AwardsPayable
    <3>2. Left[a] = g - k * b
      BY <2>3
    <3> HIDE DEF Left, fee
    <3>3. Left[a] <= balance
      BY <1>1, <1>3, <3>1, PartFits
    <3> QED BY <3>2, <3>3
  <2>6. BatchAmount(award[a], n) = IF k + n < t THEN n * b ELSE g - k * b + (k + n - t) * b
    BY <2>3 DEF BatchAmount
  <2>7. NextTranche(award[a]) = IF k + 1 = t THEN g - k * b ELSE b
    BY <2>3 DEF NextTranche
  <2>8. k + n >= t => (k + n - t) * b = 0
    <3>1. k + n >= t => k + n - t = 0
      BY <2>2
    <3>2. 0 * b = 0
      BY <2>2, <2>4
    <3> QED BY <3>1, <3>2
  <2>9. n * b <= g - k * b /\ n * b \in Nat
    BY <2>2, <2>4
  <2>10. b <= g - k * b
    <3>1. 1 \in 1 .. t - k
      BY <2>2
    <3>2. k * b + 1 * b <= g /\ k * b \in Nat /\ b \in Nat
      BY <2>4, <3>1
    <3> QED BY <2>2, <3>2
  <2>11. k * b \in Nat /\ b \in Nat
    BY <2>2, <2>4
  <2> HIDE DEF g, t, k, b
  <2> QED BY <1>1, <2>2, <2>5, <2>6, <2>7, <2>8, <2>9, <2>10, <2>11
<1>6. ASSUME NEW a \in Applicants, now < sweepDeadline PROVE allocation[a] <= balance
  <2>1. sweptTotal = 0
    BY <1>1, <1>6 DEF SweptLate, TypeOK
  <2>2. SumFunction(Open) + SumFunction(allocation) + fee <= balance
    BY <1>1, <2>1 DEF DonorsPayable
  <2> HIDE DEF Open, fee
  <2>3. SumFunction(allocation) + SumFunction(Open) + fee <= balance
    BY <1>1, <1>2, <2>2
  <2> QED BY <1>1, <1>2, <2>3, PartFits
<1>7. ASSUME NEW a \in Applicants, ReleasesOpen, TranchesLeft(a)
      PROVE  NextTranche(award[a]) <= balance
  <2>1. 1 \in 1 .. award[a].tranches - award[a].tranches_released
    <3>1. award[a] \in AwardOf(Destinations \cup {a}, Modes)
      BY <1>1, <1>7 DEF TypedAwards, AwardsOK, TranchesLeft, HasAward, NoAward
    <3> QED BY <1>7, <3>1 DEF AwardOf, TranchesLeft
  <2> QED BY <1>5, <1>7, <2>1
<1> QED BY <1>4, <1>5, <1>6, <1>7

\* Refunds, releases and spending that are due are never refused for want of
\* money: what the transfer inside them asks of the balance always holds.
THEOREM MoneyStaysThere == Spec => []MoneyIsThere
<1> QED BY SolventHolds, MoneyIsThereFromBooks, PTL

------------------------------------------------------------------------------
(* The figures on the screens *)

\* The first k tiles of an award, by the card's own formula, are what k tranches
\* release on the contract's schedule.
LEMMA TilesSum ==
  ASSUME NEW P, NEW M, NEW aw \in AwardOf(P, M), NEW k \in 0 .. aw.tranches
  PROVE  SumFunction([i \in 0 .. k - 1 |-> TileAmount(aw, i)])
           = IF k = aw.tranches THEN aw.granted ELSE k * TrancheOf(aw)
<1> DEFINE g == aw.granted
           t == aw.tranches
           b == g \div t
           Tiles == [i \in 0 .. k - 1 |-> TileAmount(aw, i)]
           S == 0 .. k - 1
<1>1. g \in Nat /\ t \in Nat \ {0} /\ k \in Nat /\ k <= t
  BY DEF AwardOf
<1>2. b \in Nat
  BY <1>1, TrancheBounds
<1>3. \A i \in S : Tiles[i] = IF i = t - 1 THEN g - b * (t - 1) ELSE b
  BY DEF TileAmount
<1>4. SumFunction(Tiles) = SumFunctionOnSet(Tiles, S)
  BY DEF SumFunction
<1>5. IsFiniteSet(S) /\ Cardinality(S) = k
  <2>1. 0 \in Int /\ k - 1 \in Int
    BY <1>1
  <2>2. IsFiniteSet(S) /\ Cardinality(S) = IF 0 > k - 1 THEN 0 ELSE k - 1 - 0 + 1
    BY <2>1, FS_Interval
  <2> QED BY <1>1, <2>2
<1>6. TrancheOf(aw) = b
  BY DEF TrancheOf
<1>s. S = 0 .. k - 1
  OBVIOUS
<1>g. g = aw.granted /\ t = aw.tranches
  OBVIOUS
<1> HIDE DEF Tiles, S, b, g, t
<1>7. CASE k < t
  <2>1. \A i \in S : Tiles[i] = b
    BY <1>1, <1>3, <1>7, <1>s
  <2>2. SumFunctionOnSet(Tiles, S) = k * b
    BY <1>2, <1>5, <2>1, SumOfConstant
  <2> QED BY <1>1, <1>4, <1>6, <1>7, <1>g, <2>2 DEF Tiles
<1>8. CASE k = t
  <2> DEFINE last == t - 1
             rest == S \ {last}
  <2>1. last \in S /\ last \in Nat
    BY <1>1, <1>8, <1>s
  <2>2. Tiles[last] = g - b * last /\ \A i \in rest : Tiles[i] = b
    BY <1>3, <2>1
  <2>3. IsFiniteSet(rest) /\ Cardinality(rest) = last
    BY <1>1, <1>5, <1>8, <2>1, FS_RemoveElement
  <2>4. b * last \in Nat
    BY <1>2, <2>1
  <2>5. \A i \in S : Tiles[i] \in Int
    BY <1>1, <1>2, <2>2, <2>4
  <2>6. SumFunctionOnSet(Tiles, S) = Tiles[last] + SumFunctionOnSet(Tiles, rest)
    BY <1>5, <2>1, <2>5, SumRemove
  <2> HIDE DEF rest, last
  <2>7. SumFunctionOnSet(Tiles, rest) = last * b
    BY <1>2, <2>2, <2>3, SumOfConstant
  <2>8. last * b = b * last
    BY <1>2, <2>1
  <2>9. SumFunctionOnSet(Tiles, S) = g
    BY <1>1, <2>2, <2>4, <2>6, <2>7, <2>8
  <2> QED BY <1>4, <1>8, <1>g, <2>9 DEF Tiles
<1> QED BY <1>1, <1>7, <1>8

\* So an award on its schedule shows as released what was released.
LEMMA TilesFromSchedule == TypedAwards => ReleasedTilesAddUp
<1> SUFFICES ASSUME TypedAwards, NotOverReleased, NEW a \in Applicants, HasAward(a)
             PROVE  award[a].released =
                      SumFunction([i \in 0 .. award[a].tranches_released - 1
                                     |-> TileAmount(award[a], i)])
  BY DEF ReleasedTilesAddUp
<1>1. award[a] \in AwardOf(Destinations \cup {a}, Modes) /\ OnSchedule(award[a])
  BY DEF TypedAwards, AwardsOK, HasAward, NoAward
<1>2. award[a].tranches_released \in 0 .. award[a].tranches
  BY <1>1 DEF AwardOf, NotOverReleased
<1>3. award[a].tranches_released <= award[a].tranches
  BY DEF NotOverReleased
<1> QED BY <1>1, <1>2, <1>3, TilesSum DEF OnSchedule

\* The tiles marked released on an award's card add up to what the contract
\* released, whatever the remainder and however the releases were batched.
THEOREM TilesAlwaysAddUp == Spec => []ReleasedTilesAddUp
<1> QED BY Typed, TilesFromSchedule, PTL

\* Dividing what lies less than three divisors above a multiple.
LEMMA QuotientNear ==
  ASSUME NEW c \in Nat, NEW d \in Nat \ {0}, NEW e \in Nat, e < 3 * d
  PROVE  (c * d + e) \div d - c \in 0 .. 2
<1> DEFINE x == c * d + e
           q == x \div d
<1>1. c * d \in Nat /\ x \in Nat
  OBVIOUS
<1>2. q \in Int /\ q * d <= x /\ x < q * d + d
  BY <1>1, SMT
<1> HIDE DEF q
<1>3. q >= c
  <2>1. SUFFICES ASSUME q + 1 <= c PROVE FALSE
    BY <1>2
  <2>2. (q + 1) * d <= c * d
    BY <1>2, <2>1, SMT
  <2>3. (q + 1) * d = q * d + d /\ q * d \in Int
    BY <1>2, SMT
  <2> QED BY <1>1, <1>2, <2>2, <2>3
<1>4. q <= c + 2
  <2>1. SUFFICES ASSUME q >= c + 3 PROVE FALSE
    BY <1>2
  <2>2. (c + 3) * d <= q * d
    BY <1>2, <2>1, SMT
  <2>3. (c + 3) * d = c * d + 3 * d /\ q * d \in Int
    BY <1>2, SMT
  <2> QED BY <1>1, <1>2, <2>2, <2>3
<1> QED BY <1>2, <1>3, <1>4 DEF q

\* The directory's way back from the budget to the contributions.
LEMMA ContributionsDerived ==
  ASSUME TypeOK PROVE DerivedContributed - contributed \in 0 .. 2
<1> DEFINE rate == BPS_DENOMINATOR - FeeBps
           cut == contributed * FeeBps
           r == cut % 10000
<1>1. contributed \in Nat /\ FeeBps \in Nat /\ FeeBps <= 1000
  BY ConstructorAssumption DEF ConstructorChecks, MAX_FEE_BPS, TypeOK
<1>2. rate \in Nat /\ rate >= 9000 /\ rate = 10000 - FeeBps
  BY <1>1 DEF BPS_DENOMINATOR
<1>3. /\ cut \in Nat /\ contributed * rate \in Nat
      /\ contributed * rate = contributed * 10000 - cut
  BY <1>1, <1>2, SMT
<1>4. Available = contributed - cut \div 10000
  BY DEF Available, AvailableOf, FeeOf, BPS_DENOMINATOR
<1> HIDE DEF cut
<1>5. r \in 0 .. 9999 /\ cut \div 10000 \in Nat /\ cut = 10000 * (cut \div 10000) + r
  BY <1>3, SMT
<1>6. Available * BPS_DENOMINATOR = contributed * rate + r
  BY <1>1, <1>3, <1>5, <1>4 DEF BPS_DENOMINATOR
<1>7. DerivedContributed = (contributed * rate + r + rate - 1) \div rate
  BY <1>2, <1>6 DEF DerivedContributed
<1> HIDE DEF rate, r
<1> DEFINE e == r + rate - 1
<1>8. e \in Nat /\ e < 3 * rate /\ contributed * rate + r + rate - 1 = contributed * rate + e
  <2>1. e \in Nat /\ e < 3 * rate
    BY <1>2, <1>5
  <2>2. \A p \in Nat : p + r + rate - 1 = p + e
    BY <1>2, <1>5
  <2> QED BY <1>3, <2>1, <2>2
<1> HIDE DEF e
<1>9. (contributed * rate + e) \div rate - contributed \in 0 .. 2
  BY <1>1, <1>2, <1>8, QuotientNear
<1> QED BY <1>7, <1>8, <1>9

\* The panel's parts are the books, cut where refunds open.
LEMMA PanelFromBooks == Solvent => MoneyPanelAddsUp
<1> SUFFICES ASSUME Solvent, sweptTotal = 0, NotOverReleased
             PROVE  /\ released + NotYetAwarded + AwardedLocked + RefundableShown
                         = Available - (IF RefundsOpen THEN refundedTotal ELSE 0)
                    /\ RefundsOpen =>
                         balance = RefundableShown + SumFunction(allocation)
                                     + (IF feeSwept THEN 0 ELSE Fee)
                    /\ DerivedContributed - contributed \in 0 .. 2
  BY DEF MoneyPanelAddsUp
<1> DEFINE fee == IF feeSwept THEN 0 ELSE Fee
<1>1. TypeOK /\ Conservation
  BY DEF Solvent, TypedAwards
<1>2. /\ released \in Nat /\ granted \in Nat /\ balance \in Nat /\ contributed \in Nat
      /\ refundedTotal \in Nat /\ SumFunction(allocation) \in Nat
  BY <1>1, BookTypes DEF TypeOK
<1>3. /\ released <= granted /\ granted <= Available
      /\ Available \in Nat /\ Available = contributed - Fee
      /\ Unpaid \in Nat /\ Unpaid = Available - released
  BY PoolIsThere
<1>4. refundedTotal <= Unpaid
  BY <1>2, <1>3, PendingAndRefunded
<1>5. paid[Treasury] \in Nat /\ Fee \in Nat /\ paid[Treasury] + fee = Fee /\ fee \in Nat
  BY FeeAccounted
<1>6. balance = contributed - released + SumFunction(allocation) - refundedTotal - paid[Treasury]
  BY <1>1 DEF Conservation
<1>7. DerivedContributed - contributed \in 0 .. 2
  BY <1>1, ContributionsDerived
<1> HIDE DEF fee
<1>8. CASE RefundsOpen
  <2>1. NotYetAwarded = 0 /\ AwardedLocked = 0
    BY <1>8 DEF NotYetAwarded, AwardedLocked
  <2>2. Refundable = Available - released - refundedTotal
    BY <1>2, <1>3, <1>8 DEF Refundable
  <2>3. RefundableShown = Available - released - refundedTotal
    BY <1>2, <1>3, <1>4, <1>8, <2>2 DEF RefundableShown, Clamp
  <2>4. balance = RefundableShown + SumFunction(allocation) + fee
    BY <1>2, <1>3, <1>5, <1>6, <2>3
  <2> QED BY <1>2, <1>3, <1>7, <1>8, <2>1, <2>3, <2>4 DEF fee
<1>9. CASE ~RefundsOpen
  <2>1. RefundableShown = 0
    BY <1>9 DEF RefundableShown
  <2>2. NotYetAwarded = Available - granted /\ AwardedLocked = granted - released
    BY <1>2, <1>3, <1>9 DEF NotYetAwarded, AwardedLocked, Clamp
  <2> QED BY <1>2, <1>3, <1>7, <1>9, <2>1, <2>2
<1> QED BY <1>8, <1>9

\* The money panel accounts for the whole budget, what it calls refundable is in
\* the contract, and the directory's contributions are at most two units high.
THEOREM PanelAlwaysAddsUp == Spec => []MoneyPanelAddsUp
<1> QED BY SolventHolds, PanelFromBooks, PTL

------------------------------------------------------------------------------
(* The figure beside the button of a claim *)

\* claimableRefund says that there is something exactly while refund() passes all
\* of its checks, the transfer's included, and then it says what refund() pays.
LEMMA ClaimableFromBooks == Solvent => ClaimableIsDue
<1> SUFFICES ASSUME Solvent, sweptTotal = 0, NotOverReleased, NEW d \in Donors
             PROVE  /\ ClaimableRefund(d) > 0 <=> CanRefund(d, RefundDue(d))
                    /\ ClaimableRefund(d) > 0 => ClaimableRefund(d) = RefundDue(d)
  BY DEF ClaimableIsDue
<1>1. /\ contributed \in Nat /\ donated[d] \in Nat /\ refunded[d] \in Nat
      /\ Unpaid \in Nat /\ Unpaid = contributed - Fee - released
      /\ Unpaid > 0 => contributed > 0
  <2>1. TypeOK
    BY DEF Solvent, TypedAwards
  <2>2. contributed \in Nat /\ donated[d] \in Nat /\ refunded[d] \in Nat /\ released \in Nat
    BY <2>1 DEF TypeOK
  <2>3. Fee \in Nat /\ Available = contributed - Fee /\ (Unpaid > 0 => contributed > 0)
    BY <2>1, AmountFacts
  <2>4. Unpaid \in Nat /\ Unpaid = Available - released
    BY PoolIsThere
  <2> QED BY <2>2, <2>3, <2>4
<1> DEFINE share == RefundShare(d)
           nothing == \/ ~RefundsOpen
                      \/ contributed <= 0 \/ donated[d] <= 0
                      \/ Unpaid <= 0
                      \/ share <= 0
                      \/ share <= refunded[d]
<1>2. ClaimableRefund(d) = IF nothing THEN 0 ELSE share - refunded[d]
  <2>1. (contributed * FeeBps) \div BPS_DENOMINATOR = Fee
    BY DEF Fee, FeeOf
  <2>2. contributed - Fee - released = Unpaid
    BY <1>1
  <2>3. (donated[d] * Unpaid) \div contributed = share
    BY DEF RefundShare, ShareOf
  <2> HIDE DEF share
  <2> QED BY <2>1, <2>2, <2>3, Zenon DEF ClaimableRefund
<1>3. RefundDue(d) = share - refunded[d]
  BY DEF RefundDue
<1>4. contributed > 0 => share \in Nat
  <2>1. SUFFICES ASSUME contributed > 0 PROVE share \in Nat
    OBVIOUS
  <2>2. donated[d] * Unpaid \in Nat
    BY <1>1
  <2> QED BY <1>1, <2>1, <2>2 DEF RefundShare, ShareOf
<1>5. ~nothing /\ share - refunded[d] > 0 => CanRefund(d, share - refunded[d])
  <2> SUFFICES ASSUME ~nothing, share - refunded[d] > 0
               PROVE  CanRefund(d, share - refunded[d])
    OBVIOUS
  <2>1. share \in Nat /\ RefundsOpen /\ donated[d] # 0
    BY <1>1, <1>4
  <2> HIDE DEF share, nothing
  <2>2. Pending(d) = share - refunded[d] /\ Pending(d) > 0
    BY <1>1, <1>3, <2>1 DEF Pending
  <2>3. share - refunded[d] \in 1 .. Pending(d)
    BY <1>1, <2>1, <2>2
  <2>4. MoneyIsThere
    BY MoneyIsThereFromBooks
  <2> QED BY <2>1, <2>2, <2>3, <2>4 DEF MoneyIsThere
<1>6. CanRefund(d, share - refunded[d]) => ~nothing /\ share - refunded[d] > 0
  <2> SUFFICES ASSUME CanRefund(d, share - refunded[d])
               PROVE  ~nothing /\ share - refunded[d] > 0
    OBVIOUS
  <2>1. RefundsOpen /\ donated[d] # 0 /\ Unpaid > 0 /\ share > 0 /\ share - refunded[d] > 0
    BY DEF CanRefund
  <2>2. contributed > 0 /\ share \in Nat
    BY <1>1, <1>4, <2>1
  <2> HIDE DEF share
  <2> QED BY <1>1, <2>1, <2>2
<1>7. ~nothing => share - refunded[d] > 0
  <2>1. ~nothing => contributed > 0 /\ share > refunded[d]
    BY <1>1, <1>4
  <2> HIDE DEF share, nothing
  <2> QED BY <1>1, <1>4, <2>1
<1> HIDE DEF share, nothing
<1>8. CASE nothing
  <2>1. ClaimableRefund(d) = 0
    BY <1>2, <1>8
  <2> QED BY <1>3, <1>6, <1>8, <2>1
<1>9. CASE ~nothing
  <2>1. ClaimableRefund(d) = share - refunded[d] /\ ClaimableRefund(d) > 0
    BY <1>2, <1>7, <1>9
  <2> QED BY <1>3, <1>5, <1>9, <2>1
<1> QED BY <1>8, <1>9

\* Between any partial claims of any donors, the figure a donor is shown is neither
\* a promise the contract would refuse nor less than it would pay.
THEOREM ClaimableIsPaid == Spec => []ClaimableIsDue
<1> QED BY SolventHolds, ClaimableFromBooks, PTL

------------------------------------------------------------------------------
(* What is offered and what is accepted *)

\* Once refunds are open, and until the sweep, every check of refund() passes for
\* every donor with something due, paused or not, cancelled or not.
THEOREM NoDonorIsTrapped == Spec => []DonorsNeverTrapped
<1>1. Solvent => DonorsNeverTrapped
  <2> SUFFICES ASSUME Solvent, NEW d \in Donors, RefundsOpen, sweptTotal = 0, NotOverReleased,
                      Pending(d) > 0
               PROVE  CanRefund(d, RefundDue(d))
    BY DEF DonorsNeverTrapped
  <2>1. Pending(d) = RefundDue(d)
    BY DEF Pending
  <2>2. Unpaid \in Nat /\ TypeOK
    BY PoolIsThere DEF Solvent, TypedAwards
  <2>3. Pending(d) \in Nat
    BY <2>2, EntitlementFacts
  <2>4. Pending(d) \in 1 .. Pending(d)
    BY <2>3
  <2>5. MoneyIsThere
    BY MoneyIsThereFromBooks
  <2> QED BY <2>1, <2>4, <2>5 DEF MoneyIsThere
<1> QED BY <1>1, SolventHolds, PTL

\* What the gates of the screens leave out and the contract asks for, or the other
\* way round, because it cannot be otherwise: after a sweep nothing is left or comes
\* in; only an Allocated award has escrow; and votes come after the Open phase.
SweptOut == sweptTotal > 0 => balance = 0
EscrowIsAllocated == \A a \in Applicants : allocation[a] > 0 => award[a].mode = "Allocated"
VotesAfterOpen == \A a \in Applicants : Len(application[a].votes) > 0 => now >= ApplyDeadline

LEMMA SweptOutStep ==
  Solvent /\ SweptOut /\ [Next]_vars => SweptOut'
<1> SUFFICES ASSUME Solvent, SweptOut, [Next]_vars PROVE SweptOut'
  OBVIOUS
<1>0. /\ TypedAwards /\ TypeOK /\ balance \in Nat /\ sweptTotal \in Nat
      /\ ApplyDeadline \in Nat /\ ReviewDeadline \in Nat /\ now \in Nat
      /\ releaseDeadline \in Nat /\ sweepDeadline \in Nat
      /\ ApplyDeadline < ReviewDeadline /\ ReviewDeadline < releaseDeadline
      /\ releaseDeadline <= sweepDeadline
  BY ConstructorAssumption DEF Solvent, TypedAwards, TypeOK, ConstructorChecks, DeadlinesOK
<1>1. CASE UNCHANGED <<sweptTotal, balance>>
  BY <1>1 DEF SweptOut
<1>2. ASSUME NEW to \in Address, NEW amount \in Nat, Pay(to, amount), UNCHANGED sweptTotal
      PROVE  SweptOut'
  <2>1. balance' = balance - amount /\ balance' \in Nat
    BY <1>0, <1>2, PayFacts
  <2> QED BY <1>0, <1>2, <2>1 DEF SweptOut
<1>3. ASSUME NEW d \in Donors, NEW amount \in Contributions, Contribute(d, amount)
      PROVE  SweptOut'
  <2>1. now < ApplyDeadline /\ UNCHANGED sweptTotal
    BY <1>3 DEF Contribute, CanContribute, Phase, treasuryVars
  <2>2. sweptTotal = 0
    BY <1>0, <2>1 DEF Solvent, SweptLate
  <2> QED BY <2>1, <2>2 DEF SweptOut
<1>4. ASSUME NEW d \in Donors, NEW amount \in PartialAmounts \cup {RefundDue(d)},
             ExecuteRefund(d, amount)
      PROVE  SweptOut'
  <2>1. amount \in Nat /\ d \in Address /\ Pay(d, amount) /\ UNCHANGED sweptTotal
    BY <1>0, <1>4, RefundFacts DEF ExecuteRefund, Address, treasuryVars
  <2> QED BY <1>2, <2>1
<1>5. ASSUME NEW a \in Applicants, NEW p \in Destinations, NEW amount \in PartialAmounts,
             Spend(a, p, amount)
      PROVE  SweptOut'
  <2>1. amount \in Nat /\ p \in Address /\ Pay(p, amount) /\ UNCHANGED sweptTotal
    BY <1>5, InputsAssumption DEF Spend, CanSpend, Address, treasuryVars
  <2> QED BY <1>2, <2>1
<1>6. ASSUME NEW a \in Applicants, NEW amount \in Nat \ {0}, NEW n \in Nat \ {0},
             NEW uids, ReleaseEffect(a, amount, n, uids)
      PROVE  SweptOut'
  <2>1. ReleasesOpen /\ UNCHANGED sweptTotal
    BY <1>6 DEF ReleaseEffect, treasuryVars
  <2>2. sweptTotal = 0
    BY <2>1, NothingTakenBack
  <2> QED BY <2>1, <2>2 DEF SweptOut
<1>7. CASE SweepFee
  <2>1. Fee \in Nat /\ Treasury \in Address /\ Pay(Treasury, Fee) /\ UNCHANGED sweptTotal
    BY <1>0, <1>7, AmountFacts DEF SweepFee, Address
  <2> QED BY <1>2, <2>1
<1>8. CASE SweepUnclaimed
  <2>1. balance' = balance - balance
    BY <1>8 DEF SweepUnclaimed, Pay
  <2> QED BY <1>0, <2>1 DEF SweptOut
<1> QED
  BY <1>0, <1>1, <1>3, <1>4, <1>5, <1>6, <1>7, <1>8, StepCases, ZenonT(60)
     DEF Apply, Withdraw, Review, Finalize, Cancel, ExtendReleaseDeadline, Quiet,
     treasuryVars, tokenVars

LEMMA EscrowIsAllocatedStep ==
  TypedAwards /\ EscrowIsAllocated /\ [Next]_vars => EscrowIsAllocated'
<1> SUFFICES ASSUME TypedAwards, EscrowIsAllocated, [Next]_vars, NEW a \in Applicants,
                    allocation'[a] > 0
             PROVE  award'[a].mode = "Allocated"
  BY DEF EscrowIsAllocated
<1>0. TypeOK /\ AwardsOK /\ allocation[a] \in Nat
  BY DEF TypedAwards, TypeOK
<1>a. allocation[a] > 0 => award[a].mode = "Allocated"
  BY DEF EscrowIsAllocated
<1>1. CASE UNCHANGED <<allocation, award>>
  BY <1>a, <1>1
<1>2. ASSUME NEW b \in Applicants, NEW p, NEW amount \in PartialAmounts, Spend(b, p, amount)
      PROVE  award'[a].mode = "Allocated"
  <2>1. UNCHANGED award /\ allocation'[a] <= allocation[a] /\ allocation'[a] \in Int
    BY <1>0, <1>2, InputsAssumption DEF Spend, CanSpend, TypeOK
  <2> QED BY <1>0, <1>a, <2>1
<1>3. ASSUME NEW b \in Applicants, NEW payee, NEW mode, Finalize(b, payee, mode)
      PROVE  award'[a].mode = "Allocated"
  <2>1. UNCHANGED allocation /\ award[a].mode = "Allocated"
    BY <1>a, <1>3 DEF Finalize
  <2>2. a # b
    <3>1. award[a] # NoAward
      BY <2>1 DEF NoAward
    <3>2. application[a].finalized
      BY <1>0, <3>1 DEF AwardsOK
    <3> QED BY <1>3, <3>2 DEF Finalize, CanFinalize, Undecided
  <2> QED BY <1>0, <1>3, <2>1, <2>2 DEF Finalize, TypeOK
<1>4. ASSUME NEW b \in Applicants, NEW amount \in Nat \ {0}, NEW n \in Nat \ {0},
             NEW uids, ReleaseEffect(b, amount, n, uids)
      PROVE  award'[a].mode = "Allocated"
  <2>1. award'[a].mode = award[a].mode
    BY <1>0, <1>4 DEF ReleaseEffect, TypeOK
  <2>2. CASE award[b].mode = "Allocated" /\ a = b
    BY <2>1, <2>2
  <2>3. CASE award[b].mode # "Allocated" \/ a # b
    <3>1. allocation'[a] = allocation[a]
      BY <1>0, <1>4, <2>3 DEF ReleaseEffect, PayOut, TypeOK
    <3> QED BY <1>a, <2>1, <3>1
  <2> QED BY <2>2, <2>3
<1> QED
  BY <1>1, <1>2, <1>3, <1>4, StepCases DEF Contribute, ExecuteRefund, Apply, Withdraw, Review,
     SweepFee, SweepUnclaimed, Cancel, ExtendReleaseDeadline, Quiet

LEMMA VotesAfterOpenStep ==
  TypedAwards /\ VotesAfterOpen /\ [Next]_vars => VotesAfterOpen'
<1> SUFFICES ASSUME TypedAwards, VotesAfterOpen, [Next]_vars, NEW a \in Applicants,
                    Len(application'[a].votes) > 0
             PROVE  now' >= ApplyDeadline
  BY DEF VotesAfterOpen
<1>0. TypeOK /\ now \in Nat /\ ApplyDeadline \in Nat
  BY ConstructorAssumption DEF TypedAwards, TypeOK, ConstructorChecks
<1>a. Len(application[a].votes) > 0 => now >= ApplyDeadline
  BY DEF VotesAfterOpen
<1>1. CASE UNCHANGED <<application, now>>
  BY <1>a, <1>1
<1>2. CASE application' = application /\ now' \in {now, now + 1}
  BY <1>0, <1>a, <1>2
<1>3. ASSUME NEW b \in Applicants, NEW requested, Apply(b, requested)
      PROVE  now' >= ApplyDeadline
  <2>1. a # b /\ application'[a] = application[a] /\ UNCHANGED now
    BY <1>0, <1>3 DEF Apply, TypeOK, NoApplication, timeVars
  <2> QED BY <1>a, <2>1
<1>4. ASSUME NEW b \in Applicants, Withdraw(b)
      PROVE  now' >= ApplyDeadline
  <2>1. application'[a].votes = application[a].votes /\ UNCHANGED now
    BY <1>0, <1>4 DEF Withdraw, TypeOK, Application, timeVars
  <2> QED BY <1>a, <2>1
<1>5. ASSUME NEW b \in Applicants, NEW r, NEW approved, Review(r, b, approved)
      PROVE  now' >= ApplyDeadline
  <2>1. Phase = "Review" /\ UNCHANGED now
    BY <1>5 DEF Review, CanReview, timeVars
  <2> QED BY <1>0, <2>1 DEF Phase
<1>6. ASSUME NEW b \in Applicants, NEW payee, NEW mode, Finalize(b, payee, mode)
      PROVE  now' >= ApplyDeadline
  <2>1. application'[a].votes = application[a].votes /\ UNCHANGED now
    BY <1>0, <1>6 DEF Finalize, TypeOK, Application, timeVars
  <2> QED BY <1>a, <2>1
<1>7. ASSUME NEW b \in Applicants, NEW amount, NEW n, NEW uids, ReleaseEffect(b, amount, n, uids)
      PROVE  now' >= ApplyDeadline
  BY <1>1, <1>7 DEF ReleaseEffect, timeVars, reviewVars
<1> QED
  BY <1>1, <1>2, <1>3, <1>4, <1>5, <1>6, <1>7, StepCases DEF Contribute, ExecuteRefund, Spend,
     SweepFee, SweepUnclaimed, Cancel, ExtendReleaseDeadline, Quiet, reviewVars, timeVars

\* What the comparison of the screens with the contract rests on.
Comparable == Solvent /\ SweptOut /\ EscrowIsAllocated /\ VotesAfterOpen

LEMMA ComparableHolds == Spec => []Comparable
<1>1. Init => SweptOut /\ EscrowIsAllocated /\ VotesAfterOpen
  BY DEF Init, SweptOut, EscrowIsAllocated, VotesAfterOpen, NoApplication
<1>2. Solvent => TypedAwards
  BY DEF Solvent
<1> QED
  BY <1>1, <1>2, SweptOutStep, EscrowIsAllocatedStep, VotesAfterOpenStep, SolventHolds, PTL
     DEF Spec, Comparable

\* What finalize computes is what the page computed.
LEMMA AwardAsShown ==
  ASSUME TypeOK, NEW a \in Applicants, Len(application[a].votes) >= Quorum
  PROVE  /\ ComputedAward(a) = SettledAward(a) /\ SettledAward(a) \in Nat
         /\ MinimumAward \in Nat
<1>1. ComputedAward(a) = SettledAward(a)
  BY DEF ComputedAward, SettledAward, SettledAmount
<1>2. /\ application[a].votes \in Seq(Nat) /\ Quorum \in Nat \ {0}
      /\ MinimumAward \in Nat
  BY ConstructorAssumption DEF TypeOK, Application, ConstructorChecks
<1> DEFINE votes == application[a].votes
<1>3. votes \in Seq(Nat) /\ (Quorum - 1) \div 2 + 1 \in 1 .. Len(votes)
  BY <1>2
<1>4. SettledAward(a) \in Nat
  BY <1>3 DEF SettledAward, SettledAmount
<1> QED BY <1>1, <1>2, <1>4

\* Nobody is locked out.
LEMMA OfferedIfAccepted == Comparable => AcceptedIsOffered
<1> SUFFICES ASSUME Comparable PROVE AcceptedIsOffered
  OBVIOUS
<1>1. Solvent /\ TypeOK
  BY DEF Comparable, Solvent, TypedAwards
<1>2. ASSUME NEW amount \in Contributions, CanContribute(amount)
      PROVE  ContributeOffered(amount) /\ PhaseAllows("contribute")
  BY <1>2 DEF CanContribute, ContributeOffered, PhaseAllows, Needs
<1>3. ASSUME NEW d \in Donors, CanRefund(d, RefundDue(d))
      PROVE  PhaseAllows("refund")
  <2>1. /\ RefundsOpen /\ donated[d] # 0 /\ Unpaid > 0 /\ RefundDue(d) > 0
        /\ balance >= RefundDue(d)
    BY <1>3 DEF CanRefund
  <2>2. /\ Unpaid \in Nat /\ Unpaid = Available - released /\ released \in Nat
        /\ Available \in Nat /\ refundedTotal \in Nat /\ sweptTotal \in Nat /\ balance \in Nat
    BY <1>1, <2>1, AmountFacts DEF TypeOK, Unpaid
  <2>3. Pending(d) \in Nat /\ Pending(d) = RefundDue(d)
    <3>1. /\ contributed \in Nat \ {0} /\ donated[d] \in Nat /\ refunded[d] \in Nat
      BY <1>1, <2>1, AmountFacts DEF TypeOK
    <3>2. donated[d] * Unpaid \in Nat
      BY <2>2, <3>1
    <3>3. (donated[d] * Unpaid) \div contributed \in Int
      BY <3>1, <3>2, SMT
    <3>4. RefundDue(d) \in Int
      BY <3>1, <3>3 DEF RefundDue, RefundShare, ShareOf
    <3>5. Pending(d) = RefundDue(d)
      BY <2>1, <3>4 DEF Pending
    <3> QED BY <1>1, <2>2, <3>5, EntitlementFacts
  <2>4. sweptTotal = 0
    BY <2>1, <2>2, <2>3 DEF Comparable, SweptOut
  <2>5. Refundable > 0
    <3> DEFINE Open == [e \in Donors |-> Pending(e)]
    <3>1. SumFunction(Open) \in Nat /\ SumFunction(Open) + refundedTotal <= Unpaid
      BY <1>1, <2>2, PendingAndRefunded
    <3>2. Open \in [Donors -> Nat] /\ Open[d] = Pending(d)
      BY <1>1, <2>2, EntitlementFacts
    <3> HIDE DEF Open
    <3>3. Open[d] <= SumFunction(Open)
      BY <3>2, TablePart, SetsAssumption
    <3>4. Available - released - refundedTotal - sweptTotal > 0
      BY <2>1, <2>2, <2>3, <2>4, <3>1, <3>2, <3>3
    <3> QED BY <2>1, <3>4 DEF Refundable
  <2>6. Phase \in {"Cancelled", "Settled"}
    <3>1. /\ ReviewDeadline < releaseDeadline /\ ApplyDeadline < ReviewDeadline
          /\ now \in Nat /\ releaseDeadline \in Nat
          /\ ApplyDeadline \in Nat /\ ReviewDeadline \in Nat
      BY <1>1, ConstructorAssumption DEF Solvent, DeadlinesOK, ConstructorChecks, TypeOK
    <3> QED BY <2>1, <3>1 DEF RefundsOpen, Phase
  <2> QED BY <2>1, <2>5, <2>6 DEF PhaseAllows
<1>4. ASSUME NEW a \in Applicants, NEW requested \in Requests, CanApply(a, requested)
      PROVE  ApplyOffered(requested) /\ PhaseAllows("apply")
  BY <1>4 DEF CanApply, ApplyOffered, PhaseAllows, Needs
<1>5. ASSUME NEW a \in Applicants, NEW chosen \in Destinations, NEW mode \in Modes,
             CanFinalize(a, SubmittedPayee(a, chosen, mode), mode)
      PROVE  FinalizeOffered(a, chosen, mode)
  <2>1. /\ Undecided(a) /\ Len(application[a].votes) >= Quorum
        /\ SettledAward(a) >= MinimumAward /\ granted + SettledAward(a) <= Available
        /\ PayeeFits(a, SubmittedPayee(a, chosen, mode), mode)
    BY <1>5 DEF CanFinalize, WithinBudget
  <2>2. ComputedAward(a) = SettledAward(a) /\ SettledAward(a) \in Nat /\ MinimumAward \in Nat
    BY <1>1, <2>1, AwardAsShown
  <2>3. granted \in Nat /\ Available \in Nat
    BY <1>1, AmountFacts DEF TypeOK
  <2>4. ~Insufficient(a) /\ ~BelowMinimum(a)
    BY <2>1, <2>2, <2>3 DEF Insufficient, BelowMinimum
  <2>5. QuorumReached(a) /\ ~application[a].finalized
    BY <2>1 DEF QuorumReached, Undecided
  <2>6. PayeeReady(chosen, mode)
    BY <2>1 DEF PayeeReady, PayeeFits, SubmittedPayee
  <2> QED BY <2>4, <2>5, <2>6 DEF FinalizeOffered
<1>6. ASSUME NEW a \in Applicants, NEW u \in Attestations, NEW v \in Verifiers, CanRelease(a, u, v)
      PROVE  ReleaseOffered(a)
  BY <1>6 DEF CanRelease, ReleaseOffered, TranchesLeft
<1>7. ASSUME NEW a \in Applicants, NEW payee \in Destinations, NEW amount \in PartialAmounts,
             Phase = "Settled", CanSpend(a, payee, amount)
      PROVE  SpendOffered(a, payee, amount)
  <2>1. amount > 0 /\ payee \in payees /\ allocation[a] >= amount /\ amount \in Int
        /\ allocation[a] \in Nat
    BY <1>1, <1>7, InputsAssumption DEF CanSpend, Escrowed, TypeOK
  <2>2. award[a].mode = "Allocated"
    BY <2>1 DEF Comparable, EscrowIsAllocated
  <2> QED BY <1>7, <2>1, <2>2 DEF SpendOffered
<1>8. ASSUME NEW a \in Applicants, Undecided(a) PROVE WithdrawOffered(a)
  BY <1>8 DEF Undecided, WithdrawOffered
<1> QED BY <1>2, <1>3, <1>4, <1>5, <1>6, <1>7, <1>8 DEF AcceptedIsOffered
\* A refusal has a reason that the screens do not know, and it is not the money.
LEMMA AcceptedUnlessNamed == Comparable => RefusedForAReason
<1> SUFFICES ASSUME Comparable PROVE RefusedForAReason
  OBVIOUS
<1>1. Solvent /\ TypeOK /\ MoneyIsThere
  BY MoneyIsThereFromBooks DEF Comparable, Solvent, TypedAwards
<1>2. ASSUME NEW amount \in Contributions, ContributeOffered(amount),
             contributed + amount <= MAX_AMOUNT, ~paused
      PROVE  CanContribute(amount)
  BY <1>2 DEF CanContribute, ContributeOffered
<1>3. ASSUME NEW a \in Applicants, NEW requested \in Requests, ApplyOffered(requested),
             ~HasApplied(a), ~paused
      PROVE  CanApply(a, requested)
  BY <1>3 DEF CanApply, ApplyOffered
<1>4. ASSUME NEW a \in Applicants, WithdrawOffered(a) PROVE Undecided(a)
  BY <1>4 DEF Undecided, WithdrawOffered
<1>5. ASSUME NEW a \in Applicants, NEW chosen \in Destinations, NEW mode \in Modes,
             FinalizeOffered(a, chosen, mode),
             ~application[a].withdrawn, Phase # "Cancelled", ~paused,
             WithinBudget(ComputedAward(a))
      PROVE  CanFinalize(a, SubmittedPayee(a, chosen, mode), mode)
  <2>1. /\ HasApplied(a) /\ Len(application[a].votes) >= Quorum
        /\ ~application[a].finalized /\ PayeeReady(chosen, mode)
        /\ ~BelowMinimum(a)
    BY <1>5 DEF FinalizeOffered, QuorumReached
  <2>2. ComputedAward(a) = SettledAward(a) /\ SettledAward(a) \in Nat /\ MinimumAward \in Nat
    BY <1>1, <2>1, AwardAsShown
  <2>3. SettledAward(a) >= MinimumAward
    BY <2>1, <2>2 DEF BelowMinimum
  <2>4. Phase \in {"Review", "Settled"}
    <3>1. Len(application[a].votes) \in Nat /\ Quorum \in Nat \ {0}
      BY <1>1, ConstructorAssumption DEF TypeOK, Application, ConstructorChecks
    <3>2. now >= ApplyDeadline /\ now \in Nat /\ ApplyDeadline \in Nat
      BY <1>1, <2>1, <3>1, ConstructorAssumption
         DEF Comparable, VotesAfterOpen, TypeOK, ConstructorChecks
    <3> QED BY <1>5, <3>2 DEF Phase
  <2>5. PayeeFits(a, SubmittedPayee(a, chosen, mode), mode)
    BY <2>1 DEF PayeeFits, SubmittedPayee, PayeeReady
  <2> QED BY <1>5, <2>1, <2>2, <2>3, <2>4, <2>5 DEF CanFinalize, Undecided
<1>6. ASSUME NEW a \in Applicants, NEW u \in Attestations, NEW v \in Verifiers,
             ReleaseOffered(a), NotOverReleased,
             Unused(u), Proven(u, a, v), v \in verifiers,
             ReleasesOpen, PolicyHolds(a), NextTranche(award[a]) > 0, ~paused
      PROVE  CanRelease(a, u, v)
  <2>1. TranchesLeft(a)
    BY <1>6 DEF ReleaseOffered, TranchesLeft
  <2>2. NextTranche(award[a]) <= balance
    BY <1>1, <1>6, <2>1 DEF MoneyIsThere
  <2> QED BY <1>6, <2>1, <2>2 DEF CanRelease
<1>7. ASSUME NEW a \in Applicants, NEW payee \in Destinations, NEW amount \in PartialAmounts,
             SpendOffered(a, payee, amount), NotOverReleased, now < sweepDeadline, ~paused
      PROVE  CanSpend(a, payee, amount)
  <2>1. amount > 0 /\ payee \in payees /\ amount <= allocation[a]
    BY <1>7 DEF SpendOffered
  <2>2. allocation[a] <= balance /\ allocation[a] \in Nat /\ balance \in Nat /\ amount \in Int
    BY <1>1, <1>7, InputsAssumption DEF MoneyIsThere, TypeOK
  <2>3. balance >= amount
    BY <2>1, <2>2
  <2> QED BY <1>7, <2>1, <2>2, <2>3 DEF CanSpend, Escrowed
<1> QED BY <1>2, <1>3, <1>4, <1>5, <1>6, <1>7, Zenon DEF RefusedForAReason

\* In every phase and whatever happened before: what the contract would accept is
\* offered, what is offered is refused for none but the named reasons, and the
\* figure beside a claim is the claim.
THEOREM OffersAlwaysMatch == Spec => []OffersMatchContract
<1>1. Comparable => OffersMatchContract
  BY OfferedIfAccepted, AcceptedUnlessNamed, ClaimableFromBooks
     DEF OffersMatchContract, Comparable
<1> QED BY <1>1, ComparableHolds, PTL
==============================================================================
