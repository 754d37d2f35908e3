--------------------------- MODULE AlgorithmProofs ---------------------------
(***************************************************************************)
(* What the operators of Amounts and Votes return, for every input: types  *)
(* and bounds that the proofs about Programme rest on, and the two facts   *)
(* that justify treating a batch of releases as one step.  Then what a sum *)
(* over a finite set is, for the proofs about books and records.           *)
(***************************************************************************)
EXTENDS Amounts, Votes, FiniteSetTheorems, TLAPS

\* The fee is a whole number no larger than what it is taken from, so the
\* awardable budget is never negative.
LEMMA FeeBounds ==
  ASSUME NEW t \in Nat, NEW bps \in 0 .. MAX_FEE_BPS
  PROVE  /\ FeeOf(t, bps) \in Nat
         /\ FeeOf(t, bps) <= t
         /\ AvailableOf(t, bps) \in Nat
<1>1. t * bps \in Nat /\ t * bps <= t * 1000
  BY SMT DEF MAX_FEE_BPS
<1>2. \A x \in Nat : x <= t * 1000 => x \div 10000 \in Nat /\ x \div 10000 <= t
  BY SMT
<1> QED
  BY <1>1, <1>2, SMT DEF FeeOf, AvailableOf, BPS_DENOMINATOR

\* A non-empty set of naturals has a least element, and Min is it.
LEMMA LeastNatural ==
  ASSUME NEW S, S \subseteq Nat, S # {}
  PROVE  /\ Min(S) \in S
         /\ \A x \in S : Min(S) <= x
<1> DEFINE Below == {ss \in Nat \X Nat : ss[1] < ss[2]}
<1>1. Below = OpToRel(<, Nat)
  BY DEF OpToRel
<1> HIDE DEF Below
<1>a. IsWellFoundedOn(Below, Nat)
  BY <1>1, NatLessThanWellFounded
<1>2. PICK least \in S : \A x \in S : ~(<<x, least>> \in Below)
  BY <1>a, WFMin, Zenon
<1>3. \A x \in S : least <= x
  <2> SUFFICES ASSUME NEW x \in S PROVE ~(x < least)
    OBVIOUS
  <2>1. <<x, least>> \in Nat \X Nat /\ <<x, least>>[1] = x /\ <<x, least>>[2] = least
    OBVIOUS
  <2> QED
    BY <1>2, <2>1 DEF Below
<1> QED
  BY <1>3 DEF Min

\* A new vote makes the vector one longer and keeps it a vector of naturals.
LEMMA InsertVoteType ==
  ASSUME NEW votes \in Seq(Nat), NEW v \in Nat
  PROVE  /\ InsertVote(votes, v) \in Seq(Nat)
         /\ Len(InsertVote(votes, v)) = Len(votes) + 1
<1> DEFINE I == {i \in 1 .. Len(votes) : v < votes[i]}
<1> DEFINE at == IF I # {} THEN Min(I) ELSE 0
<1> DEFINE pos == IF at = 0 THEN Len(votes) + 1 ELSE at
<1>0. I \subseteq Nat /\ I \subseteq 1 .. Len(votes)
  OBVIOUS
<1>1. I # {} => Min(I) \in I
  BY <1>0, LeastNatural
<1>2. InsertVote(votes, v) = InsertAt(votes, pos, v)
  BY DEF InsertVote, SelectInSeq
<1>3. pos \in 1 .. Len(votes) + 1
  BY <1>0, <1>1
<1> HIDE DEF pos
<1>4. /\ SubSeq(votes, 1, pos-1) \in Seq(Nat) /\ Len(SubSeq(votes, 1, pos-1)) = pos - 1
      /\ SubSeq(votes, pos, Len(votes)) \in Seq(Nat)
      /\ Len(SubSeq(votes, pos, Len(votes))) = Len(votes) - pos + 1
  BY <1>3
<1>5. <<v>> \in Seq(Nat) /\ Len(<<v>>) = 1
  OBVIOUS
<1>6. \A s \in Seq(Nat), t \in Seq(Nat) :
        s \o t \in Seq(Nat) /\ Len(s \o t) = Len(s) + Len(t)
  OBVIOUS
<1>7. InsertVote(votes, v)
        = SubSeq(votes, 1, pos-1) \o <<v>> \o SubSeq(votes, pos, Len(votes))
  BY <1>2 DEF InsertAt
<1> DEFINE l == SubSeq(votes, 1, pos-1)  r == SubSeq(votes, pos, Len(votes))
<1>8. l \o <<v>> \in Seq(Nat) /\ Len(l \o <<v>>) = pos
  BY <1>3, <1>4, <1>5, <1>6
<1> HIDE DEF l, r
<1>9. (l \o <<v>>) \o r \in Seq(Nat) /\ Len((l \o <<v>>) \o r) = Len(votes) + 1
  <2>1. r \in Seq(Nat) /\ Len(r) = Len(votes) - pos + 1
    BY <1>4 DEF r
  <2>2. Len((l \o <<v>>) \o r) = Len(l \o <<v>>) + Len(r)
    BY <1>6, <1>8, <2>1
  <2>3. (l \o <<v>>) \o r \in Seq(Nat)
    BY <1>6, <1>8, <2>1
  <2>4. Len(votes) \in Nat /\ pos \in Nat
    BY <1>3
  <2>5. Len((l \o <<v>>) \o r) = pos + (Len(votes) - pos + 1)
    BY <1>8, <2>1, <2>2
  <2>6. pos + (Len(votes) - pos + 1) = Len(votes) + 1
    BY <2>4
  <2> QED
    BY <2>3, <2>5, <2>6
<1> QED
  <2>1. InsertVote(votes, v) = (l \o <<v>>) \o r
    BY <1>7 DEF l, r
  <2> QED
    BY <1>3, <1>9, <2>1

\* Taking a superseded vote out leaves a vector of naturals.
LEMMA RemoveFirstType ==
  ASSUME NEW votes \in Seq(Nat), NEW v \in Nat
  PROVE  RemoveFirst(votes, v) \in Seq(Nat)
<1> DEFINE I == {i \in 1 .. Len(votes) : votes[i] = v}
<1>1. CASE ~ \E i \in 1 .. Len(votes) : votes[i] = v
  BY <1>1 DEF RemoveFirst
<1>2. CASE \E i \in 1 .. Len(votes) : votes[i] = v
  <2>1. I \subseteq Nat /\ I \subseteq 1 .. Len(votes) /\ I # {}
    BY <1>2
  <2>2. Min(I) \in 1 .. Len(votes)
    BY <2>1, LeastNatural
  <2>3. RemoveFirst(votes, v) = RemoveAt(votes, Min(I))
    BY <1>2, <2>1 DEF RemoveFirst, SelectInSeq
  <2> HIDE DEF I
  <2>4. /\ SubSeq(votes, 1, Min(I) - 1) \in Seq(Nat)
        /\ SubSeq(votes, Min(I) + 1, Len(votes)) \in Seq(Nat)
    BY <2>2, SMTT(30)
  <2> QED
    BY <2>3, <2>4, SMTT(30) DEF RemoveAt
<1> QED
  BY <1>1, <1>2

\* An amended vector is a vector of naturals.
LEMMA AmendVoteType ==
  ASSUME NEW votes \in Seq(Nat), NEW old \in Nat, NEW v \in Nat
  PROVE  AmendVote(votes, old, v) \in Seq(Nat)
BY InsertVoteType, RemoveFirstType DEF AmendVote

\* Once there are at least quorum votes, finalize reads a vote that exists.
LEMMA SettledAmountType ==
  ASSUME NEW votes \in Seq(Nat), NEW q \in Nat \ {0}, q <= Len(votes)
  PROVE  SettledAmount(votes, q) \in Nat
<1>1. (q - 1) \div 2 + 1 \in 1 .. q
  BY SMT
<1>2. (q - 1) \div 2 + 1 \in 1 .. Len(votes)
  BY <1>1
<1> QED
  BY <1>2 DEF SettledAmount

\* However many regular tranches of an award are out, they are worth no more
\* than it grants.
LEMMA TrancheBounds ==
  ASSUME NEW g \in Nat, NEW t \in Nat \ {0}, NEW k \in 0 .. t
  PROVE  /\ g \div t \in Nat
         /\ k * (g \div t) \in Nat
         /\ k * (g \div t) <= g
<1> DEFINE b == g \div t
<1>1. b \in Nat /\ t * b <= g
  BY SMT
<1> HIDE DEF b
<1>2. k * b \in Nat /\ k * b <= t * b
  BY <1>1, SMT
<1>3. k * b <= g
  BY <1>1, <1>2, SMT
<1> QED
  BY <1>1, <1>2, <1>3 DEF b

\* The awards finalize makes and releases advance, whoever they pay.
AwardOf(P, M) ==
  [granted : Nat, released : Nat, tranches : Nat \ {0}, tranches_released : Nat,
   payee : P, mode : M]

\* A release changes the two counters of an award and nothing else.
LEMMA AdvanceFields ==
  ASSUME NEW P, NEW M, NEW a \in AwardOf(P, M), NEW n \in Nat
  PROVE  /\ Advance(a).granted = a.granted
         /\ Advance(a).tranches = a.tranches
         /\ Advance(a).tranches_released = a.tranches_released + 1
         /\ Advance(a).released = a.released + NextTranche(a)
         /\ AdvanceBy(a, n).granted = a.granted
         /\ AdvanceBy(a, n).tranches = a.tranches
         /\ AdvanceBy(a, n).tranches_released = a.tranches_released + n
         /\ AdvanceBy(a, n).released = a.released + BatchAmount(a, n)
BY DEF Advance, AdvanceBy, AwardOf

\* An award whose counters move to other naturals is still an award.
LEMMA AdvanceType ==
  ASSUME NEW P, NEW M, NEW a \in AwardOf(P, M), NEW n \in Nat
  PROVE  /\ a.released + NextTranche(a) \in Nat => Advance(a) \in AwardOf(P, M)
         /\ a.released + BatchAmount(a, n) \in Nat => AdvanceBy(a, n) \in AwardOf(P, M)
<1>1. a.tranches_released + 1 \in Nat /\ a.tranches_released + n \in Nat
  BY DEF AwardOf
<1>2. \A k \in Nat, r \in Nat :
        [a EXCEPT !.tranches_released = k, !.released = r] \in AwardOf(P, M)
  BY DEF AwardOf
<1>3. Advance(a) = [a EXCEPT !.tranches_released = a.tranches_released + 1,
                             !.released = a.released + NextTranche(a)]
  BY DEF Advance
<1>4. AdvanceBy(a, n) = [a EXCEPT !.tranches_released = a.tranches_released + n,
                                  !.released = a.released + BatchAmount(a, n)]
  BY DEF AdvanceBy
<1> QED
  BY <1>1, <1>2, <1>3, <1>4, Zenon

\* A batch of one more proof is the batch and then a single release, so that
\* the closed form AdvanceBy is what the loop of release_batch computes.
THEOREM BatchIsReleases ==
  ASSUME NEW P, NEW M, NEW a \in AwardOf(P, M), NEW n \in Nat,
         a.tranches_released < a.tranches
  PROVE  AdvanceBy(a, n + 1) = IF n = 0 THEN Advance(a)
                               ELSE Advance(AdvanceBy(a, n))
<1> DEFINE b == TrancheOf(a)
           tr == a.tranches_released
           t == a.tranches
           g == a.granted
           rel == a.released
<1>1. b \in Nat /\ tr \in Nat /\ t \in Nat \ {0} /\ g \in Nat /\ rel \in Nat
  BY TrancheBounds DEF TrancheOf, AwardOf
<1>a. tr < t
  OBVIOUS
<1>b. \A m \in Nat :
        BatchAmount(a, m) = IF tr + m < t THEN m * b
                            ELSE g - rel + (tr + m - t) * b
  BY DEF BatchAmount
<1>c. NextTranche(a) = IF tr + 1 = t THEN g - rel ELSE b
  BY DEF NextTranche
<1>d. \A m \in Nat :
        AdvanceBy(a, m) = [a EXCEPT !.tranches_released = tr + m,
                                    !.released = rel + BatchAmount(a, m)]
  BY DEF AdvanceBy
<1>e. Advance(a) = [a EXCEPT !.tranches_released = tr + 1,
                             !.released = rel + NextTranche(a)]
  BY DEF Advance
<1>2. CASE n = 0
  <2>1. BatchAmount(a, 1) = NextTranche(a)
    <3> HIDE DEF b, tr, t, g, rel
    <3>1. 1 * b = b /\ 0 * b = 0
      BY <1>1
    <3>2. BatchAmount(a, 1) = IF tr + 1 < t THEN 1 * b
                              ELSE g - rel + (tr + 1 - t) * b
      BY <1>b
    <3>3. CASE tr + 1 < t
      BY <1>1, <1>c, <3>1, <3>2, <3>3
    <3>4. CASE tr + 1 = t
      <4>1. tr + 1 - t = 0
        BY <1>1, <3>4
      <4> QED
        BY <1>1, <1>c, <3>1, <3>2, <3>4, <4>1
    <3> QED
      BY <1>1, <1>a, <3>3, <3>4
  <2>2. n + 1 = 1
    BY <1>2
  <2>3. AdvanceBy(a, n + 1) = Advance(a)
    BY <1>d, <1>e, <2>1, <2>2
  <2> QED
    BY <1>2, <2>3
<1>3. CASE n # 0
  <2> DEFINE w == AdvanceBy(a, n)
  <2>0. /\ w.granted = g /\ w.tranches = t /\ w.tranches_released = tr + n
        /\ w.released = rel + BatchAmount(a, n)
    BY AdvanceFields
  <2>1. TrancheOf(w) = b
    BY <2>0 DEF TrancheOf
  <2>2. NextTranche(w) = IF tr + n + 1 = t THEN g - (rel + BatchAmount(a, n)) ELSE b
    BY <2>0, <2>1 DEF NextTranche
  <2>w. Advance(w) = [w EXCEPT !.tranches_released = tr + n + 1,
                               !.released = rel + BatchAmount(a, n) + NextTranche(w)]
    BY <2>0 DEF Advance
  <2>v. w = [a EXCEPT !.tranches_released = tr + n,
                      !.released = rel + BatchAmount(a, n)]
    BY <1>d
  <2>3. /\ BatchAmount(a, n) \in Int
        /\ BatchAmount(a, n + 1) = BatchAmount(a, n) + NextTranche(w)
    <3> DEFINE past == tr + n - t
               B == BatchAmount(a, n)
    <3> HIDE DEF b, tr, t, g, rel, w, B
    <3>1. (n + 1) * b = n * b + b
      BY <1>1
    <3>2. past \in Int /\ (past + 1) * b = past * b + b
      BY <1>1
    <3>3. n * b \in Int /\ past * b \in Int
      BY <1>1, <3>2
    <3>4. B = IF tr + n < t THEN n * b ELSE g - rel + past * b
      BY <1>b DEF B
    <3>5. B \in Int
      BY <1>1, <3>3, <3>4
    <3>6. BatchAmount(a, n + 1) = IF tr + n + 1 < t THEN (n + 1) * b
                                  ELSE g - rel + (past + 1) * b
      <4>1. n + 1 \in Nat /\ tr + (n + 1) = tr + n + 1 /\ tr + (n + 1) - t = past + 1
        BY <1>1
      <4> HIDE DEF past
      <4> QED
        BY <1>b, <4>1
    <3>7. NextTranche(w) = IF tr + n + 1 = t THEN g - (rel + B) ELSE b
      BY <2>2 DEF B
    <3>8. CASE tr + n + 1 < t
      BY <1>1, <3>1, <3>3, <3>4, <3>6, <3>7, <3>8 DEF B
    <3>9. CASE tr + n + 1 = t
      <4>1. (past + 1) * b = 0
        <5>1. past + 1 = 0
          BY <1>1, <3>9
        <5> QED
          BY <1>1, <5>1
      <4>2. BatchAmount(a, n + 1) = g - rel
        BY <1>1, <3>6, <3>9, <4>1
      <4>3. B + NextTranche(w) = g - rel
        BY <1>1, <3>5, <3>7, <3>9
      <4> QED
        BY <3>5, <4>2, <4>3 DEF B
    <3>10. CASE tr + n + 1 > t
      <4>1. B = g - rel + past * b
        BY <1>1, <3>4, <3>10
      <4>2. BatchAmount(a, n + 1) = g - rel + (past * b + b)
        BY <1>1, <3>2, <3>6, <3>10
      <4>3. NextTranche(w) = b
        BY <1>1, <3>7, <3>10
      <4> HIDE DEF past
      <4> QED
        BY <1>1, <3>3, <3>5, <4>1, <4>2, <4>3 DEF B
    <3> QED
      BY <1>1, <3>5, <3>8, <3>9, <3>10 DEF B
  <2>n. NextTranche(w) \in Int
    <3> HIDE DEF b, tr, t, g, rel, w
    <3> QED
      BY <1>1, <2>2, <2>3
  <2>4. AdvanceBy(a, n + 1) =
          [a EXCEPT !.tranches_released = tr + n + 1,
                    !.released = rel + BatchAmount(a, n) + NextTranche(w)]
    <3>1. n + 1 \in Nat /\ tr + (n + 1) = tr + n + 1
      BY <1>1
    <3>2. rel + BatchAmount(a, n + 1) = rel + BatchAmount(a, n) + NextTranche(w)
      <4> HIDE DEF b, tr, t, g, rel, w
      <4> QED
        BY <1>1, <2>3, <2>n
    <3> HIDE DEF b, tr, t, g, rel, w
    <3> QED
      BY <1>d, <3>1, <3>2
  <2>5. Advance(w) =
          [a EXCEPT !.tranches_released = tr + n + 1,
                    !.released = rel + BatchAmount(a, n) + NextTranche(w)]
    <3> DEFINE k == tr + n + 1
               amount == rel + BatchAmount(a, n) + NextTranche(w)
               k0 == tr + n
               amount0 == rel + BatchAmount(a, n)
    <3>1. Advance(w) = [w EXCEPT !.tranches_released = k, !.released = amount]
      BY <2>w
    <3>2. w = [a EXCEPT !.tranches_released = k0, !.released = amount0]
      BY <2>v
    <3> HIDE DEF k, amount, k0, amount0, w
    <3>3. [w EXCEPT !.tranches_released = k, !.released = amount]
            = [a EXCEPT !.tranches_released = k, !.released = amount]
      BY <3>2 DEF AwardOf
    <3> QED
      BY <3>1, <3>3 DEF k, amount
  <2> QED
    BY <1>3, <2>4, <2>5
<1> QED
  BY <1>2, <1>3

\* The schedule survives one more release: what is out after it is again that
\* many regular tranches, or everything.
LEMMA AdvanceOnSchedule ==
  ASSUME NEW P, NEW M, NEW a \in AwardOf(P, M), OnSchedule(a),
         a.tranches_released < a.tranches
  PROVE  OnSchedule(Advance(a)) /\ NextTranche(a) \in Nat
<1> DEFINE b == TrancheOf(a)
           tr == a.tranches_released
           t == a.tranches
           g == a.granted
           rel == a.released
           w == Advance(a)
<1>1. b \in Nat /\ tr \in Nat /\ t \in Nat \ {0} /\ g \in Nat /\ rel \in Nat
  BY TrancheBounds DEF TrancheOf, AwardOf
<1>2. tr * b \in Nat /\ tr * b <= g /\ (tr + 1) * b = tr * b + b
  <2>1. tr \in 0 .. t
    BY <1>1
  <2>2. tr * b \in Nat /\ tr * b <= g
    BY <1>1, <2>1, TrancheBounds DEF TrancheOf
  <2> QED
    BY <1>1, <2>2
<1>3. rel = tr * b
  BY <1>1 DEF OnSchedule
<1>4. NextTranche(a) = IF tr + 1 = t THEN g - rel ELSE b
  BY DEF NextTranche
<1>5. /\ w.granted = g /\ w.tranches = t /\ w.tranches_released = tr + 1
      /\ w.released = rel + NextTranche(a)
  BY AdvanceFields
<1>6. TrancheOf(w) = b
  BY <1>5 DEF TrancheOf
<1>7. NextTranche(a) \in Nat
  BY <1>1, <1>2, <1>3, <1>4
<1>8. OnSchedule(w) <=>
        (tr + 1 <= t => rel + NextTranche(a) = IF tr + 1 = t THEN g
                                              ELSE (tr + 1) * b)
  BY <1>5, <1>6 DEF OnSchedule
<1>9. rel + NextTranche(a) = IF tr + 1 = t THEN g ELSE (tr + 1) * b
  <2> HIDE DEF b, tr, t, g, rel
  <2> QED
    BY <1>1, <1>2, <1>3, <1>4
<1> QED
  BY <1>7, <1>8, <1>9

\* It survives a batch too, as far as the batch stays within the award, and a
\* batch whose proofs each unlock something releases something.
LEMMA AdvanceByOnSchedule ==
  ASSUME NEW P, NEW M, NEW a \in AwardOf(P, M), OnSchedule(a),
         a.tranches_released < a.tranches,
         NEW n \in Nat \ {0}, EveryTranchePositive(a, n)
  PROVE  OnSchedule(AdvanceBy(a, n)) /\ BatchAmount(a, n) \in Nat \ {0}
<1> DEFINE b == TrancheOf(a)
           tr == a.tranches_released
           t == a.tranches
           g == a.granted
           rel == a.released
           w == AdvanceBy(a, n)
           past == tr + n - t
<1>1. b \in Nat /\ tr \in Nat /\ t \in Nat \ {0} /\ g \in Nat /\ rel \in Nat
  BY TrancheBounds DEF TrancheOf, AwardOf
<1>2. /\ tr * b \in Nat /\ tr * b <= g /\ tr * b + b <= g
      /\ (tr + n) * b = tr * b + n * b
  <2>1. tr \in 0 .. t /\ tr + 1 \in 0 .. t
    BY <1>1
  <2>2. tr * b \in Nat /\ tr * b <= g /\ (tr + 1) * b <= g
    BY <1>1, <2>1, TrancheBounds DEF TrancheOf
  <2>3. (tr + 1) * b = tr * b + b /\ (tr + n) * b = tr * b + n * b
    BY <1>1
  <2> QED
    BY <2>2, <2>3
<1>3. rel = tr * b
  BY <1>1 DEF OnSchedule
<1>4. BatchAmount(a, n) = IF tr + n < t THEN n * b ELSE g - rel + past * b
  BY DEF BatchAmount
<1>5. /\ w.granted = g /\ w.tranches = t /\ w.tranches_released = tr + n
      /\ w.released = rel + BatchAmount(a, n)
  BY AdvanceFields
<1>6. TrancheOf(w) = b
  BY <1>5 DEF TrancheOf
<1>7. OnSchedule(w) <=>
        (tr + n <= t => rel + BatchAmount(a, n) = IF tr + n = t THEN g
                                                  ELSE (tr + n) * b)
  BY <1>5, <1>6 DEF OnSchedule
<1>8. OnSchedule(w)
  <2>1. n * b \in Int /\ (tr + n = t => past * b = 0)
    BY <1>1
  <2> HIDE DEF b, tr, t, g, rel, past
  <2> QED
    BY <1>1, <1>2, <1>3, <1>4, <1>7, <2>1
<1>9. BatchAmount(a, n) \in Nat \ {0}
  <2>1. CASE b > 0
    <3>1. n * b \in Nat \ {0} /\ (tr + n >= t => past * b \in Nat)
      BY <1>1, <2>1
    <3> HIDE DEF b, tr, t, g, rel, past
    <3> QED
      BY <1>1, <1>2, <1>3, <1>4, <2>1, <3>1
  <2>2. CASE b = 0
    <3>1. n = 1 /\ NextTranche(a) > 0
      BY <2>2 DEF EveryTranchePositive
    <3>2. NextTranche(a) = IF tr + 1 = t THEN g - rel ELSE b
      BY DEF NextTranche
    <3>3. tr + n = t /\ g - rel > 0
      BY <1>1, <2>2, <3>1, <3>2
    <3>4. past * b = 0
      BY <1>1, <2>2, <3>3
    <3> HIDE DEF b, tr, t, g, rel, past
    <3> QED
      BY <1>1, <1>4, <3>3, <3>4
  <2> QED
    BY <1>1, <2>1, <2>2
<1> QED
  BY <1>8, <1>9

\* A larger pot never has a smaller budget: the fee grows more slowly than the
\* contributions it is taken from.
LEMMA BudgetGrows ==
  ASSUME NEW t \in Nat, NEW x \in Nat, NEW bps \in 0 .. MAX_FEE_BPS
  PROVE  AvailableOf(t, bps) <= AvailableOf(t + x, bps)
<1>1. bps \in Nat /\ bps <= 10000
  BY DEF MAX_FEE_BPS
<1>2. t * bps \in Nat /\ x * bps \in Nat /\ x * bps <= x * 10000
  BY <1>1, SMT
<1>3. (t + x) * bps = t * bps + x * bps
  BY <1>1, SMT
<1>4. \A p \in Nat, q \in Nat :
        q <= x * 10000 => (p + q) \div 10000 <= (p \div 10000) + x
  BY SMT
<1>5. ((t + x) * bps) \div 10000 <= ((t * bps) \div 10000) + x
  BY <1>2, <1>3, <1>4
<1>6. (t * bps) \div 10000 \in Int /\ ((t + x) * bps) \div 10000 \in Int
  BY <1>2, <1>3, SMT
<1> QED
  BY <1>5, <1>6 DEF AvailableOf, FeeOf, BPS_DENOMINATOR

\* A rounded-down share, multiplied back, never exceeds what was shared out.
LEMMA ShareRoundsDown ==
  ASSUME NEW x \in Int, NEW c \in Nat \ {0}, NEW k \in Int, k <= x \div c
  PROVE  k * c <= x
<1>1. x \div c \in Int /\ (x \div c) * c <= x
  BY SMT
<1> DEFINE s == x \div c
<1> HIDE DEF s
<1>2. k * c <= s * c
  BY <1>1, SMT DEF s
<1> QED
  BY <1>1, <1>2, SMT DEF s
------------------------------------------------------------------------------
(* Sums over a finite set.  SumFunctionOnSet is a fold: a recursive function on *)
(* the subsets, which takes out one picked element after the other.             *)

Picked(s) == CHOOSE x \in s : TRUE

\* The fold's own equation, of a function on the subsets of S.
Adds(g, f, S) ==
  g = [s \in SUBSET S |-> IF s = {} THEN 0 ELSE f[Picked(s)] + g[s \ {Picked(s)}]]

\* A picked element is one, so what is left is smaller.
LEMMA PickedIsElement ==
  ASSUME NEW s, s # {} PROVE Picked(s) \in s /\ s \ {Picked(s)} # s
  BY DEF Picked

\* Induction over the subsets of a finite set, for a set of subsets.
LEMMA SubsetInduction ==
  ASSUME NEW S, IsFiniteSet(S), NEW Good,
         \A V \in SUBSET S : (\A W \in SUBSET V : W # V => W \in Good) => V \in Good
  PROVE  \A V \in SUBSET S : V \in Good
<1> DEFINE Bad == (SUBSET S) \ Good
<1> SUFFICES ASSUME Bad # {} PROVE FALSE
  OBVIOUS
<1>1. IsWellFoundedOn(StrictSubsetOrdering(S), SUBSET S)
  <2>1. IsWellFoundedOn(StrictSubsetOrdering(S), FiniteSubsetsOf(S))
    BY FS_StrictSubsetOrderingWellFounded
  <2>2. FiniteSubsetsOf(S) = SUBSET S
    BY FS_FiniteSubsetsOfFinite
  <2> QED BY <2>1, <2>2
<1>2. Bad \subseteq SUBSET S
  OBVIOUS
<1>3. PICK V \in Bad : \A W \in Bad : ~(<<W, V>> \in StrictSubsetOrdering(S))
  <2> HIDE DEF Bad
  <2> QED BY <1>1, <1>2, WFMin
<1>4. ASSUME NEW W \in SUBSET V, W # V PROVE W \in Good
  BY <1>3, <1>4 DEF StrictSubsetOrdering
<1> QED BY <1>3, <1>4

\* The same, by taking out the picked element.
LEMMA SubsetInductionByElement ==
  ASSUME NEW S, IsFiniteSet(S), NEW Good, {} \in Good,
         \A V \in SUBSET S : V # {} /\ V \ {Picked(V)} \in Good => V \in Good
  PROVE  S \in Good
<1>1. ASSUME NEW V \in SUBSET S, \A W \in SUBSET V : W # V => W \in Good PROVE V \in Good
  <2>1. CASE V = {} BY <2>1
  <2>2. CASE V # {}
    <3>1. V \ {Picked(V)} \in Good BY <1>1, <2>2, PickedIsElement
    <3> QED BY <2>2, <3>1
  <2> QED BY <2>1, <2>2
<1>2. \A V \in SUBSET S : V \in Good
  BY <1>1, SubsetInduction
<1> QED BY <1>2

\* Two functions that follow the equation agree where both are defined.
LEMMA AddsUnique ==
  ASSUME NEW f, NEW S, IsFiniteSet(S), NEW U \in SUBSET S,
         NEW g, NEW h, Adds(g, f, S), Adds(h, f, U)
  PROVE  g[U] = h[U]
<1> DEFINE Good == {V \in SUBSET U : g[V] = h[V]}
<1>1. IsFiniteSet(U)
  BY FS_Subset
<1>2. {} \in Good
  BY DEF Adds
<1>3. ASSUME NEW V \in SUBSET U, V # {}, V \ {Picked(V)} \in Good PROVE V \in Good
  <2>1. /\ g[V] = f[Picked(V)] + g[V \ {Picked(V)}]
        /\ h[V] = f[Picked(V)] + h[V \ {Picked(V)}]
    BY <1>3 DEF Adds
  <2> QED BY <1>3, <2>1
<1>4. U \in Good
  <2> HIDE DEF Good
  <2> QED BY <1>1, <1>2, <1>3, SubsetInductionByElement
<1> QED BY <1>4

\* There is such a function: one for S is put together from those for the
\* smaller sets.
LEMMA AddsExists ==
  ASSUME NEW f, NEW S, IsFiniteSet(S)
  PROVE  \E g : Adds(g, f, S)
<1> DEFINE Good == {U \in SUBSET S : \E g : Adds(g, f, U)}
           G(V) == CHOOSE g : Adds(g, f, V)
<1>1. ASSUME NEW U \in SUBSET S, \A W \in SUBSET U : W # U => W \in Good
      PROVE  U \in Good
  <2> DEFINE Rest(s) == s \ {Picked(s)}
             h == [s \in SUBSET U |-> IF s = {} THEN 0 ELSE f[Picked(s)] + G(Rest(s))[Rest(s)]]
  <2>1. \A V \in SUBSET U : V # U => Adds(G(V), f, V)
    BY <1>1
  <2> HIDE DEF G
  <2>2. ASSUME NEW s \in SUBSET U, s # U PROVE h[s] = G(s)[s]
    <3>1. Adds(G(s), f, s) /\ IsFiniteSet(s)
      BY <2>1, <2>2, FS_Subset
    <3>2. CASE s = {} BY <3>1, <3>2 DEF Adds
    <3>3. CASE s # {}
      <4>1. Rest(s) \in SUBSET s /\ Rest(s) \in SUBSET U /\ Rest(s) # U
        BY <2>2, <3>3, PickedIsElement
      <4>2. G(s)[Rest(s)] = G(Rest(s))[Rest(s)]
        BY <2>1, <3>1, <4>1, AddsUnique
      <4>3. G(s)[s] = f[Picked(s)] + G(s)[Rest(s)]
        BY <3>1, <3>3 DEF Adds
      <4> QED BY <3>3, <4>2, <4>3
    <3> QED BY <3>2, <3>3
  <2>3. \A s \in SUBSET U : h[s] = IF s = {} THEN 0 ELSE f[Picked(s)] + h[Rest(s)]
    <3>1. \A s \in SUBSET U : h[s] = IF s = {} THEN 0 ELSE f[Picked(s)] + G(Rest(s))[Rest(s)]
      OBVIOUS
    <3>2. \A s \in SUBSET U : s # {} => h[Rest(s)] = G(Rest(s))[Rest(s)]
      <4> HIDE DEF h
      <4> QED BY <2>2, PickedIsElement
    <3> HIDE DEF h
    <3> QED BY <3>1, <3>2
  <2>4. h = [s \in SUBSET U |-> h[s]]
    OBVIOUS
  <2> HIDE DEF h
  <2>5. Adds(h, f, U)
    BY <2>3, <2>4 DEF Adds
  <2> QED BY <2>5
<1>2. S \in Good
  <2> HIDE DEF Good
  <2> QED BY <1>1, SubsetInduction
<1> QED BY <1>2

\* So the fold follows its equation.
LEMMA SumStep ==
  ASSUME NEW f, NEW S, IsFiniteSet(S), S # {}
  PROVE  SumFunctionOnSet(f, S) = f[Picked(S)] + SumFunctionOnSet(f, S \ {Picked(S)})
<1> DEFINE G(V) == CHOOSE g : Adds(g, f, V)
           rest == S \ {Picked(S)}
<1>1. IsFiniteSet(rest)
  BY FS_RemoveElement
<1>2. Adds(G(S), f, S) /\ Adds(G(rest), f, rest)
  BY <1>1, AddsExists
<1>3. SumFunctionOnSet(f, S) = G(S)[S] /\ SumFunctionOnSet(f, rest) = G(rest)[rest]
  BY DEF SumFunctionOnSet, FoldFunctionOnSet, MapThenFoldSet, Adds, Picked
<1> HIDE DEF G
<1>4. G(S)[S] = f[Picked(S)] + G(S)[rest]
  BY <1>2 DEF Adds
<1>5. G(S)[rest] = G(rest)[rest]
  BY <1>2, AddsUnique
<1> QED BY <1>3, <1>4, <1>5

\* The sum of nothing.
LEMMA SumOfNothing == \A f : SumFunctionOnSet(f, {}) = 0
<1> TAKE f
<1> DEFINE g == CHOOSE g : Adds(g, f, {})
<1>1. Adds(g, f, {})
  BY AddsExists, FS_EmptySet
<1>2. SumFunctionOnSet(f, {}) = g[{}]
  BY DEF SumFunctionOnSet, FoldFunctionOnSet, MapThenFoldSet, Adds, Picked
<1> HIDE DEF g
<1> QED BY <1>1, <1>2 DEF Adds

\* A sum of whole numbers is one, and is not negative if none of them is.
LEMMA SumType ==
  ASSUME NEW S, IsFiniteSet(S), NEW f, \A x \in S : f[x] \in Int
  PROVE  /\ SumFunctionOnSet(f, S) \in Int
         /\ (\A x \in S : f[x] >= 0) => SumFunctionOnSet(f, S) >= 0
<1> DEFINE Sum(V) == SumFunctionOnSet(f, V)
           Good == {V \in SUBSET S : Sum(V) \in Int /\ ((\A x \in V : f[x] >= 0) => Sum(V) >= 0)}
<1>1. {} \in Good
  BY SumOfNothing
<1>2. ASSUME NEW V \in SUBSET S, V # {}, V \ {Picked(V)} \in Good PROVE V \in Good
  <2>1. Sum(V) = f[Picked(V)] + Sum(V \ {Picked(V)})
    BY <1>2, SumStep, FS_Subset
  <2> HIDE DEF Sum
  <2> QED BY <1>2, <2>1, PickedIsElement
<1>3. S \in Good
  <2> HIDE DEF Good
  <2> QED BY <1>1, <1>2, SubsetInductionByElement
<1> QED BY <1>3

\* Any element may be taken out of a sum, not only the picked one.
LEMMA SumRemove ==
  ASSUME NEW S, IsFiniteSet(S), NEW f, \A x \in S : f[x] \in Int, NEW e \in S
  PROVE  SumFunctionOnSet(f, S) = f[e] + SumFunctionOnSet(f, S \ {e})
<1> DEFINE Sum(V) == SumFunctionOnSet(f, V)
           Good == {V \in SUBSET S : \A x \in V : Sum(V) = f[x] + Sum(V \ {x})}
<1>1. ASSUME NEW V \in SUBSET S, \A W \in SUBSET V : W # V => W \in Good PROVE V \in Good
  <2> SUFFICES ASSUME NEW x \in V PROVE Sum(V) = f[x] + Sum(V \ {x})
    OBVIOUS
  <2> DEFINE p == Picked(V)
             r == Sum((V \ {p}) \ {x})
  <2>1. p \in V
    BY PickedIsElement
  <2>2. Sum(V) = f[p] + Sum(V \ {p})
    BY SumStep, FS_Subset
  <2>3. CASE p = x BY <2>2, <2>3
  <2>4. CASE p # x
    <3>1. Sum(V \ {p}) = f[x] + r
      BY <1>1, <2>1, <2>4
    <3>2. Sum(V \ {x}) = f[p] + Sum((V \ {x}) \ {p})
      BY <1>1, <2>1, <2>4
    <3>3. (V \ {x}) \ {p} = (V \ {p}) \ {x}
      OBVIOUS
    <3>4. f[x] \in Int /\ f[p] \in Int /\ r \in Int
      BY <2>1, SumType, FS_Subset
    <3>5. Sum(V) = f[p] + (f[x] + r) /\ Sum(V \ {x}) = f[p] + r
      BY <2>2, <3>1, <3>2, <3>3
    <3> HIDE DEF Sum, r, p
    <3> QED BY <3>4, <3>5
  <2> QED BY <2>3, <2>4
<1>2. S \in Good
  <2> HIDE DEF Good
  <2> QED BY <1>1, SubsetInduction
<1> QED BY <1>2

\* A sum depends on the values only.
LEMMA SumOfEqual ==
  ASSUME NEW S, IsFiniteSet(S), NEW f, NEW g, \A x \in S : f[x] = g[x]
  PROVE  SumFunctionOnSet(f, S) = SumFunctionOnSet(g, S)
<1> DEFINE Good == {V \in SUBSET S : SumFunctionOnSet(f, V) = SumFunctionOnSet(g, V)}
<1>1. {} \in Good
  BY SumOfNothing
<1>2. ASSUME NEW V \in SUBSET S, V # {}, V \ {Picked(V)} \in Good PROVE V \in Good
  <2>1. /\ SumFunctionOnSet(f, V) = f[Picked(V)] + SumFunctionOnSet(f, V \ {Picked(V)})
        /\ SumFunctionOnSet(g, V) = g[Picked(V)] + SumFunctionOnSet(g, V \ {Picked(V)})
    BY <1>2, SumStep, FS_Subset
  <2>2. f[Picked(V)] = g[Picked(V)]
    BY <1>2, PickedIsElement
  <2> QED BY <1>2, <2>1, <2>2
<1>3. S \in Good
  <2> HIDE DEF Good
  <2> QED BY <1>1, <1>2, SubsetInductionByElement
<1> QED BY <1>3

\* The sum of sums, value by value.
LEMMA SumOfBoth ==
  ASSUME NEW S, IsFiniteSet(S), NEW f, NEW g, NEW h,
         \A x \in S : f[x] \in Int /\ g[x] \in Int /\ h[x] = f[x] + g[x]
  PROVE  SumFunctionOnSet(h, S) = SumFunctionOnSet(f, S) + SumFunctionOnSet(g, S)
<1> DEFINE Sum(i, V) == SumFunctionOnSet(i, V)
           Good == {V \in SUBSET S : Sum(h, V) = Sum(f, V) + Sum(g, V)}
<1>1. {} \in Good
  BY SumOfNothing
<1>2. ASSUME NEW V \in SUBSET S, V # {}, V \ {Picked(V)} \in Good PROVE V \in Good
  <2> DEFINE p == Picked(V)
             r == V \ {p}
  <2>1. \A i : Sum(i, V) = i[p] + Sum(i, r)
    BY <1>2, SumStep, FS_Subset
  <2>2. p \in S /\ r \in SUBSET S
    BY <1>2, PickedIsElement
  <2>3. Sum(f, r) \in Int /\ Sum(g, r) \in Int
    BY <2>2, SumType, FS_Subset
  <2>4. f[p] \in Int /\ g[p] \in Int /\ h[p] = f[p] + g[p]
    BY <2>2
  <2>5. Sum(h, r) = Sum(f, r) + Sum(g, r)
    BY <1>2
  <2> HIDE DEF Sum, p, r
  <2>6. Sum(h, V) = Sum(f, V) + Sum(g, V)
    BY <2>1, <2>3, <2>4, <2>5
  <2> QED BY <2>6
<1>3. S \in Good
  <2> HIDE DEF Good
  <2> QED BY <1>1, <1>2, SubsetInductionByElement
<1> QED BY <1>3

\* A common factor.
LEMMA SumScaled ==
  ASSUME NEW S, IsFiniteSet(S), NEW f, NEW c \in Int, NEW h,
         \A x \in S : f[x] \in Int /\ h[x] = f[x] * c
  PROVE  SumFunctionOnSet(h, S) = SumFunctionOnSet(f, S) * c
<1> DEFINE Sum(i, V) == SumFunctionOnSet(i, V)
           Good == {V \in SUBSET S : Sum(h, V) = Sum(f, V) * c}
<1>1. {} \in Good
  BY SumOfNothing
<1>2. ASSUME NEW V \in SUBSET S, V # {}, V \ {Picked(V)} \in Good PROVE V \in Good
  <2> DEFINE p == Picked(V)
             r == V \ {p}
  <2>1. Sum(h, V) = h[p] + Sum(h, r) /\ Sum(f, V) = f[p] + Sum(f, r)
    BY <1>2, SumStep, FS_Subset
  <2>2. p \in S /\ r \in SUBSET S
    BY <1>2, PickedIsElement
  <2>3. Sum(f, r) \in Int
    BY <2>2, SumType, FS_Subset
  <2>4. f[p] \in Int /\ h[p] = f[p] * c
    BY <2>2
  <2>5. Sum(h, r) = Sum(f, r) * c
    BY <1>2
  <2> HIDE DEF Sum, p, r
  <2>6. Sum(h, V) = Sum(f, V) * c
    BY <2>1, <2>3, <2>4, <2>5
  <2> QED BY <2>6
<1>3. S \in Good
  <2> HIDE DEF Good
  <2> QED BY <1>1, <1>2, SubsetInductionByElement
<1> QED BY <1>3

\* Nothing but zeros.
LEMMA SumOfZeros ==
  ASSUME NEW S, IsFiniteSet(S), NEW f, \A x \in S : f[x] = 0
  PROVE  SumFunctionOnSet(f, S) = 0
<1>1. SumFunctionOnSet(f, S) = SumFunctionOnSet(f, S) * 0
  BY SumScaled
<1>2. SumFunctionOnSet(f, S) \in Int
  BY SumType
<1> QED BY <1>1, <1>2

\* A sum of larger values is larger.
LEMMA SumMonotone ==
  ASSUME NEW S, IsFiniteSet(S), NEW f, NEW g,
         \A x \in S : f[x] \in Int /\ g[x] \in Int /\ f[x] <= g[x]
  PROVE  SumFunctionOnSet(f, S) <= SumFunctionOnSet(g, S)
<1> DEFINE rest == [x \in S |-> g[x] - f[x]]
<1>1. \A x \in S : rest[x] \in Int /\ rest[x] >= 0 /\ g[x] = f[x] + rest[x]
  OBVIOUS
<1> HIDE DEF rest
<1>2. SumFunctionOnSet(g, S) = SumFunctionOnSet(f, S) + SumFunctionOnSet(rest, S)
  BY <1>1, SumOfBoth
<1>3. /\ SumFunctionOnSet(f, S) \in Int /\ SumFunctionOnSet(g, S) \in Int
      /\ SumFunctionOnSet(rest, S) \in Int /\ SumFunctionOnSet(rest, S) >= 0
  BY <1>1, SumType
<1> QED BY <1>2, <1>3

\* As many times the same.
LEMMA SumOfConstant ==
  ASSUME NEW S, IsFiniteSet(S), NEW c \in Int, NEW f, \A x \in S : f[x] = c
  PROVE  SumFunctionOnSet(f, S) = Cardinality(S) * c
<1> DEFINE Good == {V \in SUBSET S : SumFunctionOnSet(f, V) = Cardinality(V) * c}
<1>1. {} \in Good
  BY SumOfNothing, FS_EmptySet
<1>2. ASSUME NEW V \in SUBSET S, V # {}, V \ {Picked(V)} \in Good PROVE V \in Good
  <2> DEFINE p == Picked(V)
             n == Cardinality(V)
  <2>1. IsFiniteSet(V) /\ p \in V
    BY <1>2, PickedIsElement, FS_Subset
  <2>2. SumFunctionOnSet(f, V) = c + SumFunctionOnSet(f, V \ {p})
    BY <1>2, <2>1, SumStep
  <2>3. n \in Nat /\ Cardinality(V \ {p}) = n - 1
    BY <2>1, FS_RemoveElement, FS_CardinalityType
  <2>4. SumFunctionOnSet(f, V \ {p}) = (n - 1) * c
    BY <1>2, <2>3
  <2> HIDE DEF n, p
  <2>5. SumFunctionOnSet(f, V) = n * c
    BY <2>2, <2>3, <2>4
  <2> QED BY <2>5 DEF n
<1>3. S \in Good
  <2> HIDE DEF Good
  <2> QED BY <1>1, <1>2, SubsetInductionByElement
<1> QED BY <1>3

\* One value more or less: what the sum of a table is after an update of one entry.
LEMMA SumUpdate ==
  ASSUME NEW S, IsFiniteSet(S), NEW f, \A x \in S : f[x] \in Int, NEW e \in S,
         NEW g, g[e] \in Int, \A x \in S \ {e} : g[x] = f[x]
  PROVE  SumFunctionOnSet(g, S) = SumFunctionOnSet(f, S) - f[e] + g[e]
<1> DEFINE Sum(i, V) == SumFunctionOnSet(i, V)
<1>1. Sum(f, S) = f[e] + Sum(f, S \ {e})
  BY SumRemove
<1>2. \A x \in S : g[x] \in Int
  OBVIOUS
<1>3. Sum(g, S) = g[e] + Sum(g, S \ {e})
  BY <1>2, SumRemove
<1>4. IsFiniteSet(S \ {e})
  BY FS_RemoveElement
<1>5. Sum(f, S \ {e}) = Sum(g, S \ {e}) /\ Sum(f, S \ {e}) \in Int
  BY <1>4, SumOfEqual, SumType
<1>6. f[e] \in Int
  OBVIOUS
<1> HIDE DEF Sum
<1>7. Sum(g, S) = Sum(f, S) - f[e] + g[e]
  BY <1>1, <1>3, <1>5, <1>6
<1> QED BY <1>7 DEF Sum

\* A sum in two parts.
LEMMA SumSplit ==
  ASSUME NEW S, IsFiniteSet(S), NEW f, \A x \in S : f[x] \in Int, NEW T \in SUBSET S
  PROVE  SumFunctionOnSet(f, S) = SumFunctionOnSet(f, T) + SumFunctionOnSet(f, S \ T)
<1> DEFINE Sum(V) == SumFunctionOnSet(f, V)
           others == S \ T
           Good == {V \in SUBSET T : Sum(others \cup V) = Sum(V) + Sum(others)}
<1>1. IsFiniteSet(T) /\ IsFiniteSet(others)
  BY FS_Subset
<1>2. Sum(others) \in Int
  BY <1>1, SumType
<1>3. {} \in Good
  <2>1. Sum({}) = 0 /\ others \cup {} = others
    BY SumOfNothing
  <2> QED BY <1>2, <2>1
<1>4. ASSUME NEW V \in SUBSET T, V # {}, V \ {Picked(V)} \in Good PROVE V \in Good
  <2> DEFINE e == Picked(V)
  <2>1. /\ e \in V /\ e \in others \cup V
        /\ (others \cup V) \ {e} = others \cup (V \ {e})
    BY <1>4, PickedIsElement
  <2>2. IsFiniteSet(V) /\ IsFiniteSet(others \cup V) /\ IsFiniteSet(V \ {e})
    BY <1>1, FS_Subset, FS_Union
  <2>3. Sum(others \cup V) = f[e] + Sum(others \cup (V \ {e}))
    BY <2>1, <2>2, SumRemove
  <2>4. Sum(V) = f[e] + Sum(V \ {e})
    BY <2>1, <2>2, SumRemove
  <2>5. Sum(others \cup (V \ {e})) = Sum(V \ {e}) + Sum(others)
    BY <1>4
  <2>6. Sum(V \ {e}) \in Int /\ f[e] \in Int
    BY <2>1, <2>2, SumType
  <2> HIDE DEF Sum, e
  <2>7. Sum(others \cup V) = Sum(V) + Sum(others)
    BY <1>2, <2>3, <2>4, <2>5, <2>6
  <2> QED BY <2>7
<1>5. T \in Good
  <2> HIDE DEF Good
  <2> QED BY <1>1, <1>3, <1>4, SubsetInductionByElement
<1>6. others \cup T = S
  OBVIOUS
<1> QED BY <1>5, <1>6

------------------------------------------------------------------------------
(* Sums of the amounts of some of the records of a list *)

AmountsOf(list, I) == SumFunction([i \in I |-> list[i].amount])

\* As a sum over a set of places.
LEMMA AmountsAreSum ==
  ASSUME NEW list, NEW I, IsFiniteSet(I)
  PROVE  \A f : (\A i \in I : f[i] = list[i].amount)
           => AmountsOf(list, I) = SumFunctionOnSet(f, I)
<1> TAKE f
<1> HAVE \A i \in I : f[i] = list[i].amount
<1> DEFINE g == [i \in I |-> list[i].amount]
<1>1. AmountsOf(list, I) = SumFunctionOnSet(g, I)
  BY DEF AmountsOf, SumFunction
<1>2. \A i \in I : f[i] = g[i]
  OBVIOUS
<1> HIDE DEF g
<1>3. SumFunctionOnSet(f, I) = SumFunctionOnSet(g, I)
  BY <1>2, SumOfEqual
<1> QED BY <1>1, <1>3

\* Of no records, and of what type.
LEMMA AmountsType ==
  ASSUME NEW list, NEW I, IsFiniteSet(I), \A i \in I : list[i].amount \in Int
  PROVE  /\ AmountsOf(list, I) \in Int
         /\ (\A i \in I : list[i].amount >= 0) => AmountsOf(list, I) >= 0
         /\ I = {} => AmountsOf(list, I) = 0
<1> DEFINE g == [i \in I |-> list[i].amount]
<1>1. \A i \in I : g[i] = list[i].amount
  OBVIOUS
<1> HIDE DEF g
<1>2. AmountsOf(list, I) = SumFunctionOnSet(g, I)
  BY <1>1, AmountsAreSum
<1> QED BY <1>1, <1>2, SumType, SumOfNothing

\* The records in one part and in the other.
LEMMA AmountsSplit ==
  ASSUME NEW list, NEW I, IsFiniteSet(I), \A i \in I : list[i].amount \in Int,
         NEW J \in SUBSET I
  PROVE  AmountsOf(list, I) = AmountsOf(list, J) + AmountsOf(list, I \ J)
<1> DEFINE g == [i \in I |-> list[i].amount]
<1>1. \A i \in I : g[i] = list[i].amount /\ g[i] \in Int
  OBVIOUS
<1>2. IsFiniteSet(J) /\ IsFiniteSet(I \ J)
  BY FS_Subset
<1> HIDE DEF g
<1>3. /\ AmountsOf(list, I) = SumFunctionOnSet(g, I)
      /\ AmountsOf(list, J) = SumFunctionOnSet(g, J)
      /\ AmountsOf(list, I \ J) = SumFunctionOnSet(g, I \ J)
  BY <1>1, <1>2, AmountsAreSum
<1> QED BY <1>1, <1>3, SumSplit

\* Some of the records are worth no more than all of them.
LEMMA AmountsOfPart ==
  ASSUME NEW list, NEW I, IsFiniteSet(I), \A i \in I : list[i].amount \in Nat,
         NEW J \in SUBSET I
  PROVE  AmountsOf(list, J) <= AmountsOf(list, I)
<1>1. AmountsOf(list, I) = AmountsOf(list, J) + AmountsOf(list, I \ J)
  BY AmountsSplit
<1>2. IsFiniteSet(J) /\ IsFiniteSet(I \ J)
  BY FS_Subset
<1>3. AmountsOf(list, J) \in Int /\ AmountsOf(list, I \ J) \in Int /\ AmountsOf(list, I \ J) >= 0
  BY <1>2, AmountsType
<1> QED BY <1>1, <1>3

\* What two lists have at the places where they agree.
LEMMA AmountsAgree ==
  ASSUME NEW list, NEW other, NEW I, IsFiniteSet(I), \A i \in I : other[i] = list[i]
  PROVE  AmountsOf(other, I) = AmountsOf(list, I)
<1> DEFINE g == [i \in I |-> list[i].amount]
<1>1. \A i \in I : g[i] = list[i].amount /\ g[i] = other[i].amount
  OBVIOUS
<1> HIDE DEF g
<1> QED BY <1>1, AmountsAreSum

\* One place more.
LEMMA AmountsWithOne ==
  ASSUME NEW list, NEW J, NEW n \in J, IsFiniteSet(J), \A i \in J : list[i].amount \in Int
  PROVE  AmountsOf(list, J) = AmountsOf(list, J \ {n}) + list[n].amount
<1>1. IsFiniteSet(J \ {n})
  BY FS_RemoveElement
<1> DEFINE h == [i \in J |-> list[i].amount]
<1>2. \A i \in J : h[i] = list[i].amount /\ h[i] \in Int
  OBVIOUS
<1> HIDE DEF h
<1>3. /\ AmountsOf(list, J) = SumFunctionOnSet(h, J)
      /\ AmountsOf(list, J \ {n}) = SumFunctionOnSet(h, J \ {n})
  BY <1>1, <1>2, AmountsAreSum
<1>4. SumFunctionOnSet(h, J) = h[n] + SumFunctionOnSet(h, J \ {n})
  BY <1>2, SumRemove
<1>5. AmountsOf(list, J \ {n}) \in Int
  BY <1>1, AmountsType
<1> QED BY <1>2, <1>3, <1>4, <1>5
------------------------------------------------------------------------------
(* Folds over a list: FoldLeft is a recursive function on the sets of its places, *)
(* each place taken after the ones before it.                                     *)

\* The greatest of some places of a list is one of them.
LEMMA GreatestIsElement ==
  ASSUME NEW n \in Nat, NEW s, s \subseteq 1 .. n, s # {}
  PROVE  Max(s) \in s
<1> DEFINE below == {n - x : x \in s}
<1>0. \A x \in s : x \in Int /\ n - x \in Nat
  OBVIOUS
<1>1. below \subseteq Nat /\ below # {}
  BY <1>0
<1>2. Min(below) \in below /\ \A y \in below : Min(below) <= y
  <2> HIDE DEF below
  <2> QED BY <1>1, LeastNatural
<1>3. PICK x \in s : Min(below) = n - x
  BY <1>2
<1>4. \A y \in s : x >= y
  <2> TAKE y \in s
  <2>1. n - y \in below
    OBVIOUS
  <2>2. n - x <= n - y
    BY <1>2, <1>3, <2>1
  <2> QED BY <1>0, <2>2
<1> QED BY <1>4 DEF Max

\* Of a finite set of places: the last of each part of it is in that part.
Places(S) == IsFiniteSet(S) /\ \A s \in SUBSET S : s # {} => Max(s) \in s

\* The places of a list are such a set.
LEMMA PlacesOfList == ASSUME NEW n \in Nat PROVE Places(1 .. n)
<1>1. IsFiniteSet(1 .. n)
  BY FS_Interval
<1>2. ASSUME NEW s \in SUBSET (1 .. n), s # {} PROVE Max(s) \in s
  BY <1>2, GreatestIsElement
<1> QED BY <1>1, <1>2 DEF Places

FoldsOver(f, step, base, keys, S) ==
  f = [s \in SUBSET S |-> IF s = {} THEN base ELSE step[f[s \ {Max(s)}]][keys[Max(s)]]]

\* What holds of no place, and with a part of them without its last, holds of all.
LEMMA PlacesInduction ==
  ASSUME NEW S, Places(S), NEW Good, {} \in Good,
         \A V \in SUBSET S : V # {} /\ V \ {Max(V)} \in Good => V \in Good
  PROVE  \A V \in SUBSET S : V \in Good
<1>1. ASSUME NEW V \in SUBSET S, \A W \in SUBSET V : W # V => W \in Good PROVE V \in Good
  <2>1. CASE V = {} BY <2>1
  <2>2. CASE V # {}
    <3>1. V \ {Max(V)} \in SUBSET V /\ V \ {Max(V)} # V
      BY <2>2 DEF Places
    <3>2. V \ {Max(V)} \in Good
      BY <1>1, <3>1
    <3> QED BY <2>2, <3>2
  <2> QED BY <2>1, <2>2
<1>2. IsFiniteSet(S)
  BY DEF Places
<1> QED BY <1>1, <1>2, SubsetInduction

LEMMA FoldsOverUnique ==
  ASSUME NEW step, NEW base, NEW keys, NEW S, Places(S), NEW U \in SUBSET S,
         NEW g, NEW h, FoldsOver(g, step, base, keys, S), FoldsOver(h, step, base, keys, U)
  PROVE  g[U] = h[U]
<1> DEFINE Good == {V \in SUBSET U : g[V] = h[V]}
<1>1. Places(U)
  BY FS_Subset DEF Places
<1>2. {} \in Good
  BY DEF FoldsOver
<1>3. ASSUME NEW V \in SUBSET U, V # {}, V \ {Max(V)} \in Good PROVE V \in Good
  <2>1. /\ g[V] = step[g[V \ {Max(V)}]][keys[Max(V)]]
        /\ h[V] = step[h[V \ {Max(V)}]][keys[Max(V)]]
    BY <1>3 DEF FoldsOver
  <2> QED BY <1>3, <2>1
<1>4. \A V \in SUBSET U : V \in Good
  <2> HIDE DEF Good
  <2> QED BY <1>1, <1>2, <1>3, PlacesInduction
<1> QED BY <1>4

LEMMA FoldsOverExists ==
  ASSUME NEW step, NEW base, NEW keys, NEW S, Places(S)
  PROVE  \E g : FoldsOver(g, step, base, keys, S)
<1> DEFINE Good == {U \in SUBSET S : \E g : FoldsOver(g, step, base, keys, U)}
           G(V) == CHOOSE g : FoldsOver(g, step, base, keys, V)
<1>1. IsFiniteSet(S)
  BY DEF Places
<1>2. ASSUME NEW U \in SUBSET S, \A W \in SUBSET U : W # U => W \in Good
      PROVE  U \in Good
  <2> DEFINE Rest(s) == s \ {Max(s)}
             h == [s \in SUBSET U |->
                     IF s = {} THEN base ELSE step[G(Rest(s))[Rest(s)]][keys[Max(s)]]]
  <2>1. \A V \in SUBSET U : V # U => FoldsOver(G(V), step, base, keys, V)
    BY <1>2
  <2> HIDE DEF G
  <2>2. ASSUME NEW s \in SUBSET U, s # {} PROVE Rest(s) \in SUBSET s /\ Rest(s) # s
    <3>1. Max(s) \in s
      BY <2>2 DEF Places
    <3> QED BY <3>1
  <2>3. ASSUME NEW s \in SUBSET U, s # U PROVE h[s] = G(s)[s]
    <3>1. FoldsOver(G(s), step, base, keys, s) /\ Places(s)
      BY <1>1, <2>1, <2>3, FS_Subset DEF Places
    <3>2. CASE s = {} BY <3>1, <3>2 DEF FoldsOver
    <3>3. CASE s # {}
      <4>1. Rest(s) \in SUBSET s /\ Rest(s) \in SUBSET U /\ Rest(s) # U
        BY <2>2, <2>3, <3>3
      <4>2. G(s)[Rest(s)] = G(Rest(s))[Rest(s)]
        <5> DEFINE V == Rest(s)
        <5>1. V \in SUBSET s /\ FoldsOver(G(V), step, base, keys, V)
          BY <2>1, <4>1
        <5> HIDE DEF V
        <5>2. G(s)[V] = G(V)[V]
          BY <3>1, <5>1, FoldsOverUnique
        <5> QED BY <5>2 DEF V
      <4>3. G(s)[s] = step[G(s)[Rest(s)]][keys[Max(s)]]
        BY <3>1, <3>3 DEF FoldsOver
      <4> QED BY <3>3, <4>2, <4>3
    <3> QED BY <3>2, <3>3
  <2>4. \A s \in SUBSET U : h[s] = IF s = {} THEN base ELSE step[h[Rest(s)]][keys[Max(s)]]
    <3>1. \A s \in SUBSET U :
            h[s] = IF s = {} THEN base ELSE step[G(Rest(s))[Rest(s)]][keys[Max(s)]]
      OBVIOUS
    <3>2. \A s \in SUBSET U : s # {} => h[Rest(s)] = G(Rest(s))[Rest(s)]
      <4> SUFFICES ASSUME NEW s \in SUBSET U, s # {} PROVE h[Rest(s)] = G(Rest(s))[Rest(s)]
        OBVIOUS
      <4> HIDE DEF h
      <4>1. Rest(s) \in SUBSET U /\ Rest(s) # U
        <5>1. Rest(s) \in SUBSET s /\ Rest(s) # s
          BY <2>2
        <5> HIDE DEF Rest
        <5> QED BY <5>1
      <4> QED BY <2>3, <4>1
    <3> HIDE DEF h
    <3> QED BY <3>1, <3>2
  <2>5. h = [s \in SUBSET U |-> h[s]]
    OBVIOUS
  <2> HIDE DEF h
  <2>6. FoldsOver(h, step, base, keys, U)
    BY <2>4, <2>5 DEF FoldsOver
  <2> QED BY <2>6
<1>3. \A U \in SUBSET S : U \in Good
  <2> HIDE DEF Good
  <2> QED BY <1>1, <1>2, SubsetInduction
<1> QED BY <1>3

\* A fold stays among the values that its step stays among.
LEMMA FoldsOverType ==
  ASSUME NEW A, NEW E, NEW step \in [A -> [E -> A]], NEW base \in A, NEW S, Places(S),
         NEW keys, \A i \in S : keys[i] \in E, NEW f, FoldsOver(f, step, base, keys, S)
  PROVE  \A V \in SUBSET S : f[V] \in A
<1> DEFINE Good == {V \in SUBSET S : f[V] \in A}
<1>1. {} \in Good
  BY DEF FoldsOver
<1>2. ASSUME NEW V \in SUBSET S, V # {}, V \ {Max(V)} \in Good PROVE V \in Good
  <2>1. f[V] = step[f[V \ {Max(V)}]][keys[Max(V)]]
    BY <1>2 DEF FoldsOver
  <2>2. Max(V) \in S
    BY <1>2 DEF Places
  <2> QED BY <1>2, <2>1, <2>2
<1>3. \A V \in SUBSET S : V \in Good
  <2> HIDE DEF Good
  <2> QED BY <1>1, <1>2, PlacesInduction
<1> QED BY <1>3

\* Of such a fold, what its steps are taken on.
FoldsWithin(g, A, E, step, base, keys, S) ==
  /\ g = [V \in SUBSET S |-> g[V]] /\ g[{}] = base
  /\ \A V \in SUBSET S : V # {} =>
       /\ g[V \ {Max(V)}] \in A /\ keys[Max(V)] \in E
       /\ g[V] = step[g[V \ {Max(V)}]][keys[Max(V)]]

LEMMA FoldsWithinExists ==
  ASSUME NEW A, NEW E, NEW step \in [A -> [E -> A]], NEW base \in A, NEW S, Places(S),
         NEW keys, \A i \in S : keys[i] \in E
  PROVE  \E g : FoldsWithin(g, A, E, step, base, keys, S)
<1>1. PICK g : FoldsOver(g, step, base, keys, S)
  BY FoldsOverExists
<1>2. \A V \in SUBSET S : g[V] \in A
  BY <1>1, FoldsOverType
<1>3. \A V \in SUBSET S : V # {} => V \ {Max(V)} \in SUBSET S /\ keys[Max(V)] \in E
  BY DEF Places
<1>4. g = [V \in SUBSET S |-> g[V]] /\ g[{}] = base
  BY <1>1 DEF FoldsOver
<1>5. \A V \in SUBSET S : V # {} => g[V] = step[g[V \ {Max(V)}]][keys[Max(V)]]
  BY <1>1 DEF FoldsOver
<1>6. FoldsWithin(g, A, E, step, base, keys, S)
  BY <1>2, <1>3, <1>4, <1>5 DEF FoldsWithin
<1> QED BY <1>6
==============================================================================
