----------------------------- MODULE ReviewProofs -----------------------------
(***************************************************************************)
(* The vote vectors of a programme match the ballots of its reviewers, and *)
(* an award has a majority of a quorum behind it, for every committee and  *)
(* every series of votes and amendments.                                   *)
(*                                                                         *)
(* The vector holds amounts without names.  The proof gives the names      *)
(* back: a function that says whose vote stands at which position.         *)
(*                                                                         *)
(* The vote that finalize settles on is the one that the screen computed.  *)
(***************************************************************************)
EXTENDS ProgrammeProofs, Offers

\* holder[i] is the reviewer whose vote is the i-th of the vector: each who
\* voted is the holder of one position.
Holds(votes, ballots, holder) ==
  /\ holder \in [1 .. Len(votes) -> Reviewers]
  /\ \A i, j \in 1 .. Len(votes) : holder[i] = holder[j] => i = j
  /\ \A i \in 1 .. Len(votes) : ballots[holder[i]] = votes[i] /\ votes[i] # NoVote
  /\ \A r \in Reviewers : ballots[r] # NoVote => \E i \in 1 .. Len(votes) : holder[i] = r

Ascending(votes) == \A i, j \in 1 .. Len(votes) : i < j => votes[i] <= votes[j]

\* A vector that is in order and matches the ballots.
Matched(votes, ballots) ==
  Ascending(votes) /\ \E holder : Holds(votes, ballots, holder)

------------------------------------------------------------------------------
(* Insertion and removal *)

\* `longer` is `votes` with v put in at p; `votes` is `longer` without it.
PutIn(votes, p, v, longer) ==
  /\ longer \in Seq(Nat) /\ Len(longer) = Len(votes) + 1
  /\ p \in 1 .. Len(votes) + 1
  /\ longer[p] = v
  /\ \A i \in 1 .. Len(votes) : i < p => longer[i] = votes[i]
  /\ \A i \in 1 .. Len(votes) : i >= p => longer[i + 1] = votes[i]

\* Where the elements of a concatenation come from.
LEMMA ConcatElements ==
  ASSUME NEW s \in Seq(Nat), NEW t \in Seq(Nat)
  PROVE  /\ s \o t \in Seq(Nat)
         /\ Len(s \o t) = Len(s) + Len(t)
         /\ \A i \in 1 .. Len(s) : (s \o t)[i] = s[i]
         /\ \A i \in 1 .. Len(t) : (s \o t)[Len(s) + i] = t[i]
<1>1. s \o t \in Seq(Nat) /\ Len(s \o t) = Len(s) + Len(t)
  OBVIOUS
<1>2. \A i \in 1 .. Len(s) : (s \o t)[i] = s[i]
  OBVIOUS
<1>3. \A i \in 1 .. Len(t) : (s \o t)[Len(s) + i] = t[i]
  OBVIOUS
<1> QED BY <1>1, <1>2, <1>3

\* InsertVote puts a vote in where the vector stays in order.
LEMMA InsertVotePutsIn ==
  ASSUME NEW votes \in Seq(Nat), NEW v \in Nat, Ascending(votes)
  PROVE  \E p \in 1 .. Len(votes) + 1 :
           /\ PutIn(votes, p, v, InsertVote(votes, v))
           /\ \A i \in 1 .. Len(votes) : i < p => votes[i] <= v
           /\ \A i \in 1 .. Len(votes) : i >= p => v <= votes[i]
<1> DEFINE I == {i \in 1 .. Len(votes) : v < votes[i]}
           pos == IF I # {} THEN Min(I) ELSE Len(votes) + 1
           l == SubSeq(votes, 1, pos - 1)
           r == SubSeq(votes, pos, Len(votes))
<1>1. I # {} => Min(I) \in I /\ \A i \in I : Min(I) <= i
  <2>1. I \subseteq Nat
    OBVIOUS
  <2> QED BY <2>1, LeastNatural
<1>2. I \subseteq 1 .. Len(votes) /\ Len(votes) \in Nat
  OBVIOUS
<1>3. pos \in 1 .. Len(votes) + 1
  BY <1>1, <1>2
<1>4. \A i \in 1 .. Len(votes) : i < pos => votes[i] <= v
  <2> SUFFICES ASSUME NEW i \in 1 .. Len(votes), i < pos PROVE votes[i] <= v
    OBVIOUS
  <2>1. i \notin I
    BY <1>1, <1>2, SMTT(30)
  <2>2. votes[i] \in Nat
    OBVIOUS
  <2> QED BY <2>1, <2>2
<1>5. \A i \in 1 .. Len(votes) : i >= pos => v <= votes[i]
  <2> SUFFICES ASSUME NEW i \in 1 .. Len(votes), i >= pos PROVE v <= votes[i]
    OBVIOUS
  <2>1. I # {} /\ Min(I) \in 1 .. Len(votes) /\ Min(I) <= i /\ v < votes[Min(I)]
    BY <1>1, <1>2
  <2>2. votes[i] \in Nat /\ votes[Min(I)] \in Nat
    BY <2>1, SMTT(30)
  <2>3. Min(I) < i => votes[Min(I)] <= votes[i]
    BY <2>1 DEF Ascending
  <2> QED BY <2>1, <2>2, <2>3, SMTT(30)
<1>6. InsertVote(votes, v) = l \o <<v>> \o r
  <2>1. SelectInSeq(votes, LAMBDA x : v < x) = IF I # {} THEN Min(I) ELSE 0
    BY DEF SelectInSeq
  <2>2. InsertVote(votes, v) = InsertAt(votes, pos, v)
    BY <1>1, <1>2, <2>1 DEF InsertVote
  <2> QED BY <2>2 DEF InsertAt
<1> HIDE DEF pos
<1>7. /\ l \in Seq(Nat) /\ Len(l) = pos - 1
      /\ r \in Seq(Nat) /\ Len(r) = Len(votes) - pos + 1
      /\ \A i \in 1 .. pos - 1 : l[i] = votes[i]
      /\ \A i \in 1 .. Len(votes) - pos + 1 : r[i] = votes[pos + i - 1]
  BY <1>2, <1>3
<1> HIDE DEF l, r
<1> DEFINE new == <<v>>
<1>n. new \in Seq(Nat) /\ Len(new) = 1 /\ new[1] = v
  OBVIOUS
<1> HIDE DEF new
<1> DEFINE s == l \o new
<1>8. s \in Seq(Nat) /\ Len(s) = pos /\ s[pos] = v /\ \A i \in 1 .. pos - 1 : s[i] = l[i]
  <2>1. /\ s \in Seq(Nat) /\ Len(s) = Len(l) + Len(new)
        /\ \A i \in 1 .. Len(l) : s[i] = l[i]
        /\ \A i \in 1 .. Len(new) : s[Len(l) + i] = new[i]
    BY <1>n, <1>7, ConcatElements
  <2> HIDE DEF s
  <2>2. Len(l) + 1 = pos /\ 1 \in 1 .. Len(new)
    BY <1>n, <1>3, <1>7
  <2>3. s[pos] = v
    BY <1>n, <2>1, <2>2
  <2> QED BY <1>n, <1>7, <2>1, <2>2, <2>3
<1> HIDE DEF s
<1> DEFINE longer == s \o r
<1>9. /\ longer \in Seq(Nat) /\ Len(longer) = Len(votes) + 1
      /\ \A i \in 1 .. pos : longer[i] = s[i]
      /\ \A i \in 1 .. Len(votes) - pos + 1 : longer[pos + i] = r[i]
  <2>1. /\ longer \in Seq(Nat) /\ Len(longer) = Len(s) + Len(r)
        /\ \A i \in 1 .. Len(s) : longer[i] = s[i]
        /\ \A i \in 1 .. Len(r) : longer[Len(s) + i] = r[i]
    BY <1>7, <1>8, ConcatElements
  <2>2. pos + (Len(votes) - pos + 1) = Len(votes) + 1
    BY <1>2, <1>3
  <2> HIDE DEF longer
  <2> QED BY <1>7, <1>8, <2>1, <2>2
<1>10. InsertVote(votes, v) = longer
  BY <1>6 DEF s, new
<1> HIDE DEF longer
<1>11. PutIn(votes, pos, v, longer)
  <2>1. \A i \in 1 .. Len(votes) : i < pos => longer[i] = votes[i]
    BY <1>2, <1>3, <1>7, <1>8, <1>9
  <2>2. \A i \in 1 .. Len(votes) : i >= pos => longer[i + 1] = votes[i]
    <3> SUFFICES ASSUME NEW i \in 1 .. Len(votes), i >= pos PROVE longer[i + 1] = votes[i]
      OBVIOUS
    <3> DEFINE k == i + 1 - pos
    <3>1. k \in 1 .. Len(votes) - pos + 1 /\ pos + k = i + 1 /\ pos + k - 1 = i
      BY <1>2, <1>3
    <3> HIDE DEF k
    <3>2. longer[pos + k] = r[k] /\ r[k] = votes[pos + k - 1]
      BY <1>7, <1>9, <3>1
    <3> QED BY <3>1, <3>2
  <2> QED BY <1>3, <1>8, <1>9, <2>1, <2>2 DEF PutIn
<1> QED BY <1>3, <1>4, <1>5, <1>10, <1>11

\* RemoveFirst undoes that for a vote the vector holds.
LEMMA RemoveFirstTakesOut ==
  ASSUME NEW votes \in Seq(Nat), NEW v \in Nat, \E i \in 1 .. Len(votes) : votes[i] = v
  PROVE  /\ RemoveFirst(votes, v) \in Seq(Nat)
         /\ \E p \in 1 .. Len(votes) : PutIn(RemoveFirst(votes, v), p, v, votes)
<1> DEFINE I == {i \in 1 .. Len(votes) : votes[i] = v}
           p == Min(I)
           l == SubSeq(votes, 1, p - 1)
           r == SubSeq(votes, p + 1, Len(votes))
<1>1. p \in I
  <2>1. I \subseteq Nat /\ I # {}
    OBVIOUS
  <2> QED BY <2>1, LeastNatural
<1>2. p \in 1 .. Len(votes) /\ votes[p] = v /\ Len(votes) \in Nat
  BY <1>1
<1>3. RemoveFirst(votes, v) = l \o r
  <2>1. SelectInSeq(votes, LAMBDA x : x = v) = p
    BY DEF SelectInSeq
  <2> QED BY <2>1 DEF RemoveFirst, RemoveAt
<1> HIDE DEF p
<1>4. /\ l \in Seq(Nat) /\ Len(l) = p - 1
      /\ r \in Seq(Nat) /\ Len(r) = Len(votes) - p
      /\ \A i \in 1 .. p - 1 : l[i] = votes[i]
      /\ \A i \in 1 .. Len(votes) - p : r[i] = votes[p + i]
  BY <1>2
<1> HIDE DEF l, r
<1> DEFINE shorter == l \o r
<1>5. /\ shorter \in Seq(Nat) /\ Len(shorter) = Len(l) + Len(r)
      /\ \A i \in 1 .. Len(l) : shorter[i] = l[i]
      /\ \A i \in 1 .. Len(r) : shorter[Len(l) + i] = r[i]
  BY <1>4, ConcatElements
<1>6. RemoveFirst(votes, v) = shorter
  BY <1>3
<1> HIDE DEF shorter
<1>7. PutIn(shorter, p, v, votes)
  <2>1. Len(shorter) + 1 = Len(votes) /\ Len(shorter) \in Nat
    BY <1>2, <1>4, <1>5
  <2>2. \A i \in 1 .. Len(shorter) : i < p => votes[i] = shorter[i]
    <3> SUFFICES ASSUME NEW i \in 1 .. Len(shorter), i < p PROVE votes[i] = shorter[i]
      OBVIOUS
    <3>1. i \in 1 .. p - 1
      BY <1>2, <2>1
    <3> QED BY <1>4, <1>5, <3>1
  <2>3. \A i \in 1 .. Len(shorter) : i >= p => votes[i + 1] = shorter[i]
    <3> SUFFICES ASSUME NEW i \in 1 .. Len(shorter), i >= p PROVE votes[i + 1] = shorter[i]
      OBVIOUS
    <3> DEFINE k == i - p + 1
    <3>1. k \in 1 .. Len(votes) - p /\ (p - 1) + k = i /\ p + k = i + 1
      BY <1>2, <2>1
    <3> HIDE DEF k
    <3>2. shorter[(p - 1) + k] = r[k] /\ r[k] = votes[p + k]
      BY <1>4, <1>5, <3>1
    <3> QED BY <3>1, <3>2
  <2> QED BY <1>2, <2>1, <2>2, <2>3 DEF PutIn
<1> QED BY <1>2, <1>5, <1>6, <1>7

------------------------------------------------------------------------------
(* What the two do to the match *)

\* A first vote: its reviewer holds the new position.
LEMMA PutInKeepsHolding ==
  ASSUME NEW votes \in Seq(Nat), NEW longer, NEW p, NEW v \in Nat \ {NoVote},
         PutIn(votes, p, v, longer),
         NEW ballots \in [Reviewers -> Nat], NEW r \in Reviewers, ballots[r] = NoVote,
         NEW holder, Holds(votes, ballots, holder)
  PROVE  \E h : Holds(longer, [ballots EXCEPT ![r] = v], h)
<1> DEFINE n == Len(votes)
           h == [i \in 1 .. n + 1 |-> IF i < p THEN holder[i] ELSE IF i = p THEN r ELSE holder[i - 1]]
           new == [ballots EXCEPT ![r] = v]
<1>1. /\ n \in Nat /\ p \in 1 .. n + 1 /\ Len(longer) = n + 1 /\ longer[p] = v
      /\ \A i \in 1 .. n : i < p => longer[i] = votes[i]
      /\ \A i \in 1 .. n : i >= p => longer[i + 1] = votes[i]
  BY DEF PutIn
<1>2. /\ holder \in [1 .. n -> Reviewers]
      /\ \A i, j \in 1 .. n : holder[i] = holder[j] => i = j
      /\ \A i \in 1 .. n : ballots[holder[i]] = votes[i] /\ votes[i] # NoVote
      /\ \A q \in Reviewers : ballots[q] # NoVote => \E i \in 1 .. n : holder[i] = q
  BY DEF Holds
<1>3. \A i \in 1 .. n : holder[i] # r
  BY <1>2
<1>4. /\ new[r] = v /\ \A q \in Reviewers : q # r => new[q] = ballots[q]
  OBVIOUS
<1> HIDE DEF n, new
<1>5. /\ \A i \in 1 .. n + 1 : i < p => i \in 1 .. n
      /\ \A i \in 1 .. n + 1 : i > p => i - 1 \in 1 .. n /\ i - 1 >= p /\ (i - 1) + 1 = i
  BY <1>1
<1>a. n \in Nat /\ p \in 1 .. n + 1
  BY <1>1
<1>6. h \in [1 .. n + 1 -> Reviewers]
  <2> SUFFICES ASSUME NEW i \in 1 .. n + 1
               PROVE  (IF i < p THEN holder[i] ELSE IF i = p THEN r ELSE holder[i - 1]) \in Reviewers
    OBVIOUS
  <2>1. i < p \/ i = p \/ i > p
    BY <1>a
  <2> QED BY <1>2, <1>5, <1>a, <2>1
<1>7. \A i, j \in 1 .. n + 1 : h[i] = h[j] => i = j
  <2> SUFFICES ASSUME NEW i \in 1 .. n + 1, NEW j \in 1 .. n + 1, h[i] = h[j] PROVE i = j
    OBVIOUS
  <2> DEFINE from(k) == IF k < p THEN k ELSE k - 1
  <2>1. \A k \in 1 .. n + 1 : k # p => from(k) \in 1 .. n /\ h[k] = holder[from(k)]
    BY <1>1, <1>5
  <2>2. h[p] = r
    BY <1>1
  <2>3. i = p <=> j = p
    BY <1>3, <2>1, <2>2
  <2>4. CASE i # p /\ j # p
    <3>1. from(i) = from(j)
      BY <1>2, <2>1, <2>4
    <3>2. i \in Int /\ j \in Int /\ p \in Int
      BY <1>a
    <3> HIDE DEF h
    <3> QED BY <2>4, <3>1, <3>2
  <2> QED BY <2>3, <2>4
<1>8. \A i \in 1 .. n + 1 : new[h[i]] = longer[i] /\ longer[i] # NoVote
  <2> SUFFICES ASSUME NEW i \in 1 .. n + 1 PROVE new[h[i]] = longer[i] /\ longer[i] # NoVote
    OBVIOUS
  <2>1. CASE i < p
    <3>1. i \in 1 .. n /\ h[i] = holder[i]
      BY <1>5, <2>1
    <3> QED BY <1>1, <1>2, <1>3, <1>4, <2>1, <3>1
  <2>2. CASE i = p
    BY <1>1, <1>4, <2>2
  <2>3. CASE i > p
    <3>1. i - 1 \in 1 .. n /\ i - 1 >= p /\ h[i] = holder[i - 1] /\ longer[i] = votes[i - 1]
      BY <1>1, <1>5, <2>3
    <3> QED BY <1>2, <1>3, <1>4, <3>1, SMTT(30)
  <2> QED BY <1>1, <2>1, <2>2, <2>3
<1>9. \A q \in Reviewers : new[q] # NoVote => \E i \in 1 .. n + 1 : h[i] = q
  <2> SUFFICES ASSUME NEW q \in Reviewers, new[q] # NoVote PROVE \E i \in 1 .. n + 1 : h[i] = q
    OBVIOUS
  <2>1. CASE q = r
    BY <1>1, <2>1
  <2>2. CASE q # r
    <3> PICK i \in 1 .. n : holder[i] = q
      BY <1>2, <1>4, <2>2
    <3>1. CASE i < p
      <4>1. i \in 1 .. n + 1 /\ h[i] = q
        BY <1>1, <3>1
      <4> QED BY <4>1
    <3>2. CASE i >= p
      <4>1. i + 1 \in 1 .. n + 1 /\ h[i + 1] = holder[(i + 1) - 1] /\ (i + 1) - 1 = i
        BY <1>1, <3>2
      <4> QED BY <4>1
    <3> QED BY <1>1, <3>1, <3>2
  <2> QED BY <2>1, <2>2
<1> HIDE DEF h
<1>10. Holds(longer, new, h)
  BY <1>1, <1>6, <1>7, <1>8, <1>9 DEF Holds
<1> QED BY <1>10 DEF new

\* An amended vote taken out: where equal votes stand, the one that is found first
\* may be another reviewer's, who then takes the place that was meant.
LEMMA TakingOutKeepsHolding ==
  ASSUME NEW votes \in Seq(Nat), NEW longer, NEW p, NEW v \in Nat \ {NoVote},
         PutIn(votes, p, v, longer),
         NEW ballots \in [Reviewers -> Nat], NEW r \in Reviewers, ballots[r] = v,
         NEW holder, Holds(longer, ballots, holder)
  PROVE  \E h : Holds(votes, [ballots EXCEPT ![r] = NoVote], h)
<1> DEFINE m == Len(votes)
           new == [ballots EXCEPT ![r] = NoVote]
           at(i) == IF i < p THEN i ELSE i + 1
<1>1. /\ m \in Nat /\ p \in 1 .. m + 1 /\ Len(longer) = m + 1 /\ longer[p] = v
      /\ \A i \in 1 .. m : i < p => longer[i] = votes[i]
      /\ \A i \in 1 .. m : i >= p => longer[i + 1] = votes[i]
  BY DEF PutIn
<1>2. /\ holder \in [1 .. m + 1 -> Reviewers]
      /\ \A i, j \in 1 .. m + 1 : holder[i] = holder[j] => i = j
      /\ \A i \in 1 .. m + 1 : ballots[holder[i]] = longer[i] /\ longer[i] # NoVote
      /\ \A q \in Reviewers : ballots[q] # NoVote => \E i \in 1 .. m + 1 : holder[i] = q
  BY <1>1 DEF Holds
<1>3. new[r] = NoVote /\ \A q \in Reviewers : q # r => new[q] = ballots[q]
  OBVIOUS
<1> HIDE DEF m, new
<1>4. PICK j \in 1 .. m + 1 : holder[j] = r
  BY <1>2
<1> DEFINE k == [holder EXCEPT ![j] = holder[p]]
<1>5. k \in [1 .. m + 1 -> Reviewers] /\ k[j] = holder[p]
      /\ \A i \in 1 .. m + 1 : i # j => k[i] = holder[i]
  BY <1>1, <1>2
<1> HIDE DEF k
<1>6. \A i \in 1 .. m + 1 : i # p => k[i] # r
  <2> SUFFICES ASSUME NEW i \in 1 .. m + 1, i # p PROVE k[i] # r
    OBVIOUS
  <2>1. p \in 1 .. m + 1
    BY <1>1
  <2>2. CASE i = j
    <3>1. k[i] = holder[p] /\ j # p
      BY <1>5, <2>2
    <3> QED BY <1>2, <1>4, <2>1, <3>1
  <2>3. CASE i # j
    <3>1. k[i] = holder[i]
      BY <1>5, <2>3
    <3> QED BY <1>2, <1>4, <2>3, <3>1
  <2> QED BY <2>2, <2>3
<1>7. \A i, l \in 1 .. m + 1 : i # p /\ l # p /\ k[i] = k[l] => i = l
  <2>1. p \in 1 .. m + 1
    BY <1>1
  <2>2. \A i, l \in 1 .. m + 1 : holder[i] = holder[l] => i = l
    BY <1>2
  <2>3. \A i \in 1 .. m + 1 : i # p /\ i # j => k[i] # k[j]
    BY <1>5, <2>1, <2>2
  <2>4. \A i, l \in 1 .. m + 1 : i # j /\ l # j /\ k[i] = k[l] => i = l
    BY <1>5, <2>2
  <2> QED BY <2>3, <2>4
<1>8. \A i \in 1 .. m + 1 : i # p => ballots[k[i]] = longer[i] /\ longer[i] # NoVote
  BY <1>1, <1>2, <1>4, <1>5
<1>9. \A q \in Reviewers : q # r /\ ballots[q] # NoVote => \E i \in 1 .. m + 1 : i # p /\ k[i] = q
  <2> SUFFICES ASSUME NEW q \in Reviewers, q # r, ballots[q] # NoVote
               PROVE  \E i \in 1 .. m + 1 : i # p /\ k[i] = q
    OBVIOUS
  <2> PICK i \in 1 .. m + 1 : holder[i] = q
    BY <1>2
  <2>1. CASE i = p
    <3>1. k[j] = q /\ j # p
      BY <1>4, <1>5, <2>1
    <3> QED BY <3>1
  <2>2. CASE i # p
    <3>1. k[i] = q
      BY <1>4, <1>5
    <3> QED BY <2>2, <3>1
  <2> QED BY <2>1, <2>2
<1>10. /\ \A i \in 1 .. m : at(i) \in 1 .. m + 1 /\ at(i) # p /\ longer[at(i)] = votes[i]
       /\ \A i, l \in 1 .. m : at(i) = at(l) => i = l
       /\ \A i \in 1 .. m + 1 : i # p => \E l \in 1 .. m : at(l) = i
  <2>1. p \in Int /\ m \in Nat
    BY <1>1
  <2>2. \A i \in 1 .. m : at(i) \in 1 .. m + 1 /\ at(i) # p /\ longer[at(i)] = votes[i]
    BY <1>1
  <2>3. \A i, l \in 1 .. m : at(i) = at(l) => i = l
    BY <2>1
  <2>4. ASSUME NEW i \in 1 .. m + 1, i # p PROVE \E l \in 1 .. m : at(l) = i
    <3>1. CASE i < p
      <4>1. i \in 1 .. m /\ at(i) = i
        BY <1>1, <3>1
      <4> QED BY <4>1
    <3>2. CASE i > p
      <4>1. i - 1 \in 1 .. m /\ at(i - 1) = i
        BY <1>1, <3>2
      <4> QED BY <4>1
    <3> QED BY <2>1, <2>4, <3>1, <3>2
  <2> QED BY <2>2, <2>3, <2>4
<1> HIDE DEF at
<1> DEFINE h == [i \in 1 .. m |-> k[at(i)]]
<1>11. h \in [1 .. m -> Reviewers] /\ \A i \in 1 .. m : h[i] = k[at(i)]
  BY <1>5, <1>10
<1> HIDE DEF h
<1>12. \A i, l \in 1 .. m : h[i] = h[l] => i = l
  BY <1>7, <1>10, <1>11
<1>13. \A i \in 1 .. m : new[h[i]] = votes[i] /\ votes[i] # NoVote
  BY <1>3, <1>6, <1>8, <1>10, <1>11
<1>14. \A q \in Reviewers : new[q] # NoVote => \E i \in 1 .. m : h[i] = q
  BY <1>3, <1>9, <1>10, <1>11
<1>15. Holds(votes, new, h)
  BY <1>11, <1>12, <1>13, <1>14 DEF Holds, m
<1> QED BY <1>15 DEF new

------------------------------------------------------------------------------
(* What `review` does to vector and ballots *)

\* Putting a vote in at a place that fits, and taking one out, keep the order.
LEMMA PutInKeepsOrder ==
  ASSUME NEW votes \in Seq(Nat), NEW longer, NEW p, NEW v \in Nat, Ascending(votes),
         PutIn(votes, p, v, longer),
         \A i \in 1 .. Len(votes) : i < p => votes[i] <= v,
         \A i \in 1 .. Len(votes) : i >= p => v <= votes[i]
  PROVE  Ascending(longer)
<1> DEFINE n == Len(votes)
<1>1. /\ n \in Nat /\ p \in 1 .. n + 1 /\ Len(longer) = n + 1 /\ longer[p] = v
      /\ \A i \in 1 .. n : i < p => longer[i] = votes[i]
      /\ \A i \in 1 .. n : i >= p => longer[i + 1] = votes[i]
      /\ \A i \in 1 .. n : votes[i] \in Nat
  BY DEF PutIn
<1>2. \A i, j \in 1 .. n : i < j => votes[i] <= votes[j]
  BY DEF Ascending
<1> HIDE DEF n
<1>3. ASSUME NEW i \in 1 .. n + 1, NEW j \in 1 .. n + 1, i < j PROVE longer[i] <= longer[j]
  <2>1. CASE j < p
    <3>1. i \in 1 .. n /\ j \in 1 .. n /\ i < p
      BY <1>1, <1>3, <2>1
    <3> QED BY <1>1, <1>2, <1>3, <2>1, <3>1
  <2>2. CASE j = p
    <3>1. i \in 1 .. n /\ i < p
      BY <1>1, <1>3, <2>2
    <3> QED BY <1>1, <2>2, <3>1 DEF n
  <2>3. CASE j > p
    <3>1. j - 1 \in 1 .. n /\ j - 1 >= p /\ longer[(j - 1) + 1] = votes[j - 1] /\ (j - 1) + 1 = j
      BY <1>1, <2>3
    <3>2. CASE i < p
      <4>1. i \in 1 .. n /\ i < j - 1 /\ longer[i] = votes[i]
        BY <1>1, <3>1, <3>2, SMTT(30)
      <4> QED BY <1>2, <3>1, <4>1
    <3>3. CASE i = p
      BY <1>1, <3>1, <3>3 DEF n
    <3>4. CASE i > p
      <4>1. i - 1 \in 1 .. n /\ i - 1 >= p /\ i - 1 < j - 1 /\ (i - 1) + 1 = i
        BY <1>1, <1>3, <3>4
      <4> QED BY <1>1, <1>2, <3>1, <4>1
    <3> QED BY <1>1, <3>2, <3>3, <3>4
  <2> QED BY <1>1, <2>1, <2>2, <2>3
<1> QED BY <1>1, <1>3 DEF Ascending

LEMMA TakingOutKeepsOrder ==
  ASSUME NEW votes \in Seq(Nat), NEW longer, NEW p, NEW v, Ascending(longer),
         PutIn(votes, p, v, longer)
  PROVE  Ascending(votes)
<1> DEFINE n == Len(votes)
<1>1. /\ n \in Nat /\ p \in 1 .. n + 1 /\ Len(longer) = n + 1
      /\ \A i \in 1 .. n : i < p => longer[i] = votes[i]
      /\ \A i \in 1 .. n : i >= p => longer[i + 1] = votes[i]
  BY SMTT(30) DEF PutIn
<1>2. \A i, j \in 1 .. n + 1 : i < j => longer[i] <= longer[j]
  BY <1>1 DEF Ascending
<1> HIDE DEF n
<1>3. ASSUME NEW i \in 1 .. n, NEW j \in 1 .. n, i < j PROVE votes[i] <= votes[j]
  <2>1. CASE i < p /\ j < p
    BY <1>1, <1>2, <1>3, <2>1
  <2>2. CASE i < p /\ j >= p
    <3>1. i \in 1 .. n + 1 /\ j + 1 \in 1 .. n + 1 /\ i < j + 1
      BY <1>1, <1>3
    <3> QED BY <1>1, <1>2, <2>2, <3>1
  <2>3. CASE i >= p
    <3>1. i + 1 \in 1 .. n + 1 /\ j + 1 \in 1 .. n + 1 /\ i + 1 < j + 1 /\ j >= p
      BY <1>1, <1>3, <2>3
    <3> QED BY <1>1, <1>2, <2>3, <3>1
  <2> QED BY <1>1, <2>1, <2>2, <2>3
<1> QED BY <1>3 DEF Ascending, n

\* A first vote or an amendment keeps the vector in order and matched.
LEMMA ReviewKeepsMatched ==
  ASSUME NEW votes \in Seq(Nat), NEW ballots \in [Reviewers -> Nat], Matched(votes, ballots),
         NEW r \in Reviewers, NEW v \in Nat \ {NoVote}
  PROVE  LET next == IF ballots[r] = NoVote THEN InsertVote(votes, v)
                     ELSE AmendVote(votes, ballots[r], v)
         IN Matched(next, [ballots EXCEPT ![r] = v])
<1>1. ASSUME NEW base \in Seq(Nat), NEW cast \in [Reviewers -> Nat], Matched(base, cast),
             cast[r] = NoVote
      PROVE  Matched(InsertVote(base, v), [cast EXCEPT ![r] = v])
  <2> PICK p \in 1 .. Len(base) + 1 :
        /\ PutIn(base, p, v, InsertVote(base, v))
        /\ \A i \in 1 .. Len(base) : i < p => base[i] <= v
        /\ \A i \in 1 .. Len(base) : i >= p => v <= base[i]
    BY <1>1, InsertVotePutsIn DEF Matched
  <2> PICK holder : Holds(base, cast, holder)
    BY <1>1 DEF Matched
  <2>1. Ascending(InsertVote(base, v))
    BY <1>1, PutInKeepsOrder DEF Matched
  <2>2. \E h : Holds(InsertVote(base, v), [cast EXCEPT ![r] = v], h)
    BY <1>1, PutInKeepsHolding
  <2> QED BY <2>1, <2>2 DEF Matched
<1>2. CASE ballots[r] = NoVote
  BY <1>1, <1>2
<1>3. CASE ballots[r] # NoVote
  <2> DEFINE old == ballots[r]
             base == RemoveFirst(votes, old)
             cast == [ballots EXCEPT ![r] = NoVote]
  <2>1. old \in Nat \ {NoVote}
    BY <1>3
  <2> PICK holder : Holds(votes, ballots, holder)
    BY DEF Matched
  <2>2. \E i \in 1 .. Len(votes) : votes[i] = old
    BY <1>3 DEF Holds
  <2>3. base \in Seq(Nat) /\ \E p \in 1 .. Len(votes) : PutIn(base, p, old, votes)
    BY <2>1, <2>2, RemoveFirstTakesOut
  <2> PICK p \in 1 .. Len(votes) : PutIn(base, p, old, votes)
    BY <2>3
  <2>4. cast \in [Reviewers -> Nat] /\ cast[r] = NoVote
    BY DEF NoVote
  <2>5. [cast EXCEPT ![r] = v] = [ballots EXCEPT ![r] = v]
    OBVIOUS
  <2> HIDE DEF base
  <2>6. \E h : Holds(base, cast, h)
    BY <2>1, <2>3, TakingOutKeepsHolding
  <2>7. Ascending(base)
    BY <2>3, TakingOutKeepsOrder DEF Matched
  <2> HIDE DEF cast
  <2>8. Matched(InsertVote(base, v), [cast EXCEPT ![r] = v])
    BY <1>1, <2>3, <2>4, <2>6, <2>7 DEF Matched
  <2> QED BY <1>3, <2>5, <2>8 DEF AmendVote, base
<1> QED BY <1>2, <1>3

------------------------------------------------------------------------------
(* Counting *)

\* As many reviewers cast a vote of some kind as there are positions that hold one.
LEMMA AsManyVotesAsVoters ==
  ASSUME NEW votes \in Seq(Nat), NEW ballots \in [Reviewers -> Nat], Matched(votes, ballots),
         NEW kinds \in SUBSET (Nat \ {NoVote})
  PROVE  LET positions == {i \in 1 .. Len(votes) : votes[i] \in kinds}
             voters == {r \in Reviewers : ballots[r] \in kinds}
         IN /\ IsFiniteSet(positions) /\ IsFiniteSet(voters)
            /\ Cardinality(positions) = Cardinality(voters)
<1> DEFINE positions == {i \in 1 .. Len(votes) : votes[i] \in kinds}
           voters == {r \in Reviewers : ballots[r] \in kinds}
<1> PICK holder : Holds(votes, ballots, holder)
  BY DEF Matched
<1>1. IsFiniteSet(positions)
  <2>1. Len(votes) \in Int /\ 1 \in Int
    OBVIOUS
  <2>2. IsFiniteSet(1 .. Len(votes))
    BY <2>1, FS_Interval
  <2>3. positions \in SUBSET (1 .. Len(votes))
    OBVIOUS
  <2> QED BY <2>2, <2>3, FS_Subset
<1> DEFINE f == [i \in positions |-> holder[i]]
<1>2. f \in [positions -> voters] /\ \A i \in positions : f[i] = holder[i]
  BY DEF Holds
<1>3. \A i, j \in positions : f[i] = f[j] => i = j
  BY DEF Holds
<1>4. \A r \in voters : \E i \in positions : f[i] = r
  <2> SUFFICES ASSUME NEW r \in voters PROVE \E i \in positions : f[i] = r
    OBVIOUS
  <2> PICK i \in 1 .. Len(votes) : holder[i] = r
    BY DEF Holds
  <2>1. i \in positions
    BY DEF Holds
  <2> QED BY <1>2, <2>1
<1> HIDE DEF f, positions, voters
<1>5. f \in Bijection(positions, voters)
  BY <1>2, <1>3, <1>4 DEF Bijection, Injection, Surjection, IsInjective
<1>6. ExistsBijection(positions, voters)
  BY <1>5 DEF ExistsBijection
<1>7. IsFiniteSet(voters) /\ Cardinality(voters) = Cardinality(positions)
  BY <1>1, <1>6, FS_Bijection
<1> QED BY <1>1, <1>7 DEF positions, voters

\* In an ordered vector of at least a quorum of votes, more than half a quorum is
\* no less than the one that finalize reads.
LEMMA MajorityAtSettled ==
  ASSUME NEW votes \in Seq(Nat), Ascending(votes), NEW q \in Nat \ {0}, q <= Len(votes),
         NEW positions, IsFiniteSet(positions),
         positions = {i \in 1 .. Len(votes) : votes[i] >= SettledAmount(votes, q)}
  PROVE  2 * Cardinality(positions) > q
<1> DEFINE n == Len(votes)
           m == (q - 1) \div 2 + 1
<1>1. n \in Nat /\ m \in 1 .. q /\ 2 * m <= q + 1
  OBVIOUS
<1>2. m .. n \in SUBSET positions
  <2> SUFFICES ASSUME NEW i \in m .. n PROVE i \in positions
    OBVIOUS
  <2>1. i \in 1 .. n /\ m \in 1 .. n /\ (m = i \/ m < i)
    BY <1>1
  <2> HIDE DEF m
  <2>2. votes[i] \in Nat /\ votes[m] \in Nat /\ votes[m] <= votes[i]
    BY <2>1 DEF Ascending
  <2> QED BY <2>1, <2>2 DEF SettledAmount, m
<1> HIDE DEF m, n
<1>3. Cardinality(m .. n) = n - m + 1
  <2>1. m \in Int /\ n \in Int /\ ~(m > n)
    BY <1>1 DEF n
  <2> QED BY <2>1, FS_Interval
<1>4. Cardinality(m .. n) <= Cardinality(positions) /\ Cardinality(positions) \in Nat
  BY <1>2, FS_Subset, FS_CardinalityType
<1> QED BY <1>1, <1>3, <1>4 DEF n

------------------------------------------------------------------------------
(* The invariant *)

\* What an application's record, its ballots and its award have to do with one
\* another: nobody voted for more than was asked for, and what is granted is the
\* settled amount of a vector that holds a quorum of votes.
Backed(app, ballots, aw) ==
  /\ Matched(app.votes, ballots)
  /\ \A r \in Reviewers : ballots[r] <= app.requested
  /\ aw.mode # "none" =>
       /\ Len(app.votes) >= Quorum
       /\ aw.granted = SettledAmount(app.votes, Quorum)
       /\ aw.granted >= MinimumAward

BallotsOK == \A a \in Applicants : Backed(application[a], voted[a], award[a])

\* No vote at all matches ballots nobody cast.
LEMMA NoVotesMatch ==
  ASSUME NEW ballots \in [Reviewers -> Nat], \A r \in Reviewers : ballots[r] = NoVote
  PROVE  Matched(<< >>, ballots)
<1> DEFINE none == [i \in 1 .. 0 |-> NoVote]
           votes == << >>
<1>1. Len(votes) = 0 /\ 1 .. Len(votes) = {}
  OBVIOUS
<1> HIDE DEF votes
<1>2. none \in [1 .. Len(votes) -> Reviewers]
  BY <1>1
<1>3. Holds(votes, ballots, none)
  BY <1>1, <1>2 DEF Holds
<1>4. Ascending(votes)
  BY <1>1 DEF Ascending
<1> QED
  BY <1>3, <1>4 DEF Matched, votes

\* Before anybody applied there are no votes.
LEMMA BallotsInit == Init => BallotsOK
<1> SUFFICES ASSUME Init, NEW a \in Applicants PROVE Backed(application[a], voted[a], award[a])
  BY DEF BallotsOK
<1>1. /\ application[a].votes = << >> /\ application[a].requested = 0
      /\ voted[a] = [r \in Reviewers |-> NoVote]
      /\ award[a].mode = "none"
  BY DEF Init, NoApplication, NoAward
<1>2. voted[a] \in [Reviewers -> Nat] /\ \A r \in Reviewers : voted[a][r] = NoVote
  BY <1>1 DEF NoVote
<1>3. Matched(<< >>, voted[a])
  BY <1>2, NoVotesMatch
<1> QED
  BY <1>1, <1>2, <1>3 DEF Backed, NoVote

\* Each step keeps the match and what stands behind each award.
LEMMA BallotsStep ==
  TypedAwards /\ BallotsOK /\ [Next]_vars => BallotsOK'
<1> SUFFICES ASSUME TypedAwards, BallotsOK, [Next]_vars, NEW a \in Applicants
             PROVE  Backed(application'[a], voted'[a], award'[a])
  BY DEF BallotsOK
<1>0. TypeOK /\ AwardsOK
  BY DEF TypedAwards
<1>a. Backed(application[a], voted[a], award[a])
  BY DEF BallotsOK
<1>b. Undecided(a) \/ ~HasApplied(a) => award[a].mode = "none"
  <2>1. NoAward.mode = "none"
    BY DEF NoAward
  <2> QED
    BY <1>0, <2>1 DEF AwardsOK, Undecided
<1>c. application[a].votes \in Seq(Nat) /\ application[a].requested \in Nat
      /\ voted[a] \in [Reviewers -> Nat]
  BY <1>0 DEF TypeOK, Application
<1>1. CASE UNCHANGED <<application[a], voted[a], award[a]>>
  BY <1>a, <1>1
<1>2. CASE UNCHANGED <<application, voted, award>>
  BY <1>1, <1>2
<1>3. ASSUME NEW b \in Applicants, NEW requested \in Requests, Apply(b, requested)
      PROVE  Backed(application'[a], voted'[a], award'[a])
  <2>1. CASE b = a
    <3>1. /\ ~HasApplied(a) /\ requested \in Nat
          /\ application'[a].votes = << >> /\ application'[a].requested = requested
          /\ UNCHANGED <<voted, award>>
      BY <1>0, <1>3, <2>1, InputsAssumption DEF Apply, CanApply, TypeOK, NoApplication
    <3>2. \A r \in Reviewers : voted[a][r] = NoVote
      BY <1>a, <1>c, <3>1 DEF Backed, HasApplied, NoVote
    <3>3. Matched(<< >>, voted[a])
      BY <1>c, <3>2, NoVotesMatch
    <3> QED
      BY <1>b, <3>1, <3>2, <3>3 DEF Backed, NoVote
  <2>2. CASE b # a
    BY <1>0, <1>1, <1>3, <2>2 DEF Apply, TypeOK
  <2> QED BY <2>1, <2>2
<1>4. ASSUME NEW b \in Applicants, Withdraw(b)
      PROVE  Backed(application'[a], voted'[a], award'[a])
  <2>1. /\ application'[a].votes = application[a].votes
        /\ application'[a].requested = application[a].requested
        /\ UNCHANGED <<voted, award>>
    BY <1>0, <1>4 DEF Withdraw, TypeOK, Application
  <2> QED
    BY <1>a, <2>1 DEF Backed
<1>5. ASSUME NEW b \in Applicants, NEW r \in Reviewers, NEW approved \in Approvals,
             Review(r, b, approved)
      PROVE  Backed(application'[a], voted'[a], award'[a])
  <2>1. CASE b = a
    <3> DEFINE votes == application[a].votes
               next == IF voted[a][r] = NoVote THEN InsertVote(votes, approved)
                       ELSE AmendVote(votes, voted[a][r], approved)
    <3>1. /\ application'[a].votes = next
          /\ application'[a].requested = application[a].requested
      BY <1>0, <1>5, <2>1 DEF Review, TypeOK, Application
    <3>2. /\ voted'[a] = [voted[a] EXCEPT ![r] = approved]
          /\ UNCHANGED award
          /\ Undecided(a)
      BY <1>0, <1>5, <2>1 DEF Review, CanReview, TypeOK
    <3>3. approved \in Nat \ {NoVote} /\ approved <= application[a].requested
      BY <1>5, <2>1, InputsAssumption DEF Review, CanReview, NoVote
    <3>4. Matched(votes, voted[a])
      BY <1>a DEF Backed
    <3>5. Matched(next, [voted[a] EXCEPT ![r] = approved])
      BY <1>c, <3>3, <3>4, ReviewKeepsMatched
    <3> HIDE DEF next
    <3>6. \A q \in Reviewers : voted'[a][q] <= application[a].requested
      BY <1>a, <1>c, <3>2, <3>3 DEF Backed
    <3> QED
      BY <1>b, <3>1, <3>2, <3>5, <3>6 DEF Backed
  <2>2. CASE b # a
    BY <1>0, <1>1, <1>5, <2>2 DEF Review, TypeOK
  <2> QED BY <2>1, <2>2
<1>6. ASSUME NEW b \in Applicants, NEW payee, NEW mode, Finalize(b, payee, mode)
      PROVE  Backed(application'[a], voted'[a], award'[a])
  <2>1. CASE b = a
    <3>1. /\ application'[a].votes = application[a].votes
          /\ application'[a].requested = application[a].requested
          /\ UNCHANGED voted
          /\ award'[a].granted = SettledAmount(application[a].votes, Quorum)
          /\ Len(application[a].votes) >= Quorum
          /\ SettledAmount(application[a].votes, Quorum) >= MinimumAward
      BY <1>0, <1>6, <2>1 DEF Finalize, CanFinalize, SettledAward, TypeOK, Application
    <3> QED
      BY <1>a, <3>1 DEF Backed
  <2>2. CASE b # a
    BY <1>0, <1>1, <1>6, <2>2 DEF Finalize, TypeOK
  <2> QED BY <2>1, <2>2
<1>7. ASSUME NEW b \in Applicants, NEW amount \in Nat \ {0}, NEW n \in Nat \ {0},
             NEW uids, ReleaseEffect(b, amount, n, uids)
      PROVE  Backed(application'[a], voted'[a], award'[a])
  <2>1. CASE b = a
    <3>1. /\ UNCHANGED <<application, voted>>
          /\ award'[a].granted = award[a].granted
          /\ award'[a].mode = award[a].mode
      BY <1>0, <1>7, <2>1 DEF ReleaseEffect, TranchesLeft, TypeOK, reviewVars
    <3> QED
      BY <1>a, <3>1 DEF Backed
  <2>2. CASE b # a
    BY <1>0, <1>1, <1>7, <2>2 DEF ReleaseEffect, TypeOK, reviewVars
  <2> QED BY <2>1, <2>2
<1> QED
  BY <1>2, <1>3, <1>4, <1>5, <1>6, <1>7, StepCases DEF Contribute, ExecuteRefund, Spend,
     SweepFee, SweepUnclaimed, Cancel, ExtendReleaseDeadline, Quiet, reviewVars

LEMMA BallotsAlways == Spec => [](TypedAwards /\ BallotsOK)
<1> QED
  BY BallotsInit, BallotsStep, Typed, PTL DEF Spec

------------------------------------------------------------------------------
(* What follows *)

\* The vector of every application is sorted and holds exactly one vote, the
\* latest, of each reviewer who voted, through any series of `review` calls.
THEOREM VotesMatch == Spec => []VotesMatchBallots
<1>1. TypedAwards /\ BallotsOK => VotesMatchBallots
  <2> SUFFICES ASSUME TypedAwards, BallotsOK, NEW a \in Applicants
               PROVE  LET votes == application[a].votes IN
                      /\ IsSorted(votes, <=)
                      /\ \A amount \in ToSet(votes) \cup {voted[a][r] : r \in Reviewers} :
                           amount # NoVote =>
                             Cardinality({i \in DOMAIN votes : votes[i] = amount})
                               = Cardinality({r \in Reviewers : voted[a][r] = amount})
                      /\ NoVote \notin ToSet(votes)
    BY DEF VotesMatchBallots
  <2> DEFINE votes == application[a].votes
  <2>1. votes \in Seq(Nat) /\ voted[a] \in [Reviewers -> Nat] /\ Matched(votes, voted[a])
    BY DEF TypedAwards, TypeOK, Application, BallotsOK, Backed
  <2> HIDE DEF votes
  <2>2. DOMAIN votes = 1 .. Len(votes) /\ \A i \in DOMAIN votes : votes[i] \in Nat
    BY <2>1
  <2>3. IsSorted(votes, <=)
    BY <2>1, <2>2 DEF IsSorted, Matched, Ascending
  <2>4. NoVote \notin ToSet(votes)
    BY <2>1, <2>2 DEF Matched, Holds, ToSet
  <2>5. ASSUME NEW amount \in ToSet(votes) \cup {voted[a][r] : r \in Reviewers},
               amount # NoVote
        PROVE  Cardinality({i \in DOMAIN votes : votes[i] = amount})
                 = Cardinality({r \in Reviewers : voted[a][r] = amount})
    <3>1. amount \in Nat \ {NoVote}
      BY <2>1, <2>2, <2>5 DEF ToSet
    <3>2. {i \in DOMAIN votes : votes[i] = amount}
            = {i \in 1 .. Len(votes) : votes[i] \in {amount}}
      BY <2>2
    <3>3. {r \in Reviewers : voted[a][r] = amount}
            = {r \in Reviewers : voted[a][r] \in {amount}}
      OBVIOUS
    <3>4. {amount} \in SUBSET (Nat \ {NoVote})
      BY <3>1
    <3>5. Cardinality({i \in 1 .. Len(votes) : votes[i] \in {amount}})
            = Cardinality({r \in Reviewers : voted[a][r] \in {amount}})
      BY <2>1, <3>4, AsManyVotesAsVoters
    <3> QED BY <3>2, <3>3, <3>5
  <2> QED BY <2>3, <2>4, <2>5 DEF votes
<1> QED
  BY <1>1, BallotsAlways, PTL

\* Whenever an award exists, more than half of a quorum of distinct reviewers
\* approved at least what it grants, which is neither more than was asked for nor
\* less than the minimum: late votes and amendments included, for any committee.
THEOREM QuorumBacksAwards == Spec => []AwardBackedByQuorum
<1>1. TypedAwards /\ BallotsOK => AwardBackedByQuorum
  <2> SUFFICES ASSUME TypedAwards, BallotsOK, NEW a \in Applicants, HasAward(a)
               PROVE  /\ 2 * Cardinality({r \in Reviewers : voted[a][r] >= award[a].granted})
                            > Quorum
                      /\ award[a].granted <= application[a].requested
                      /\ award[a].granted >= MinimumAward
    BY DEF AwardBackedByQuorum
  <2> DEFINE votes == application[a].votes
             g == award[a].granted
  <2>1. /\ votes \in Seq(Nat) /\ voted[a] \in [Reviewers -> Nat] /\ Matched(votes, voted[a])
        /\ \A r \in Reviewers : voted[a][r] <= application[a].requested
        /\ Len(votes) >= Quorum /\ g = SettledAmount(votes, Quorum) /\ g >= MinimumAward
    BY DEF TypedAwards, TypeOK, Application, BallotsOK, Backed, HasAward
  <2>2. Quorum \in Nat \ {0}
    BY ConstructorAssumption DEF ConstructorChecks
  <2> HIDE DEF votes
  <2> DEFINE m == (Quorum - 1) \div 2 + 1
  <2>3. m \in 1 .. Quorum
    BY <2>2
  <2>m. m \in 1 .. Len(votes) /\ g = votes[m]
    BY <2>1, <2>2, <2>3 DEF SettledAmount
  <2> HIDE DEF m, g
  <2>4. g \in Nat \ {NoVote} /\ g <= application[a].requested
    <3> PICK holder : Holds(votes, voted[a], holder)
      BY <2>1 DEF Matched
    <3>1. holder[m] \in Reviewers /\ voted[a][holder[m]] = votes[m] /\ votes[m] # NoVote
      BY <2>m DEF Holds
    <3> QED BY <2>1, <2>m, <3>1
  <2> DEFINE kinds == {x \in Nat : x >= g}
             positions == {i \in 1 .. Len(votes) : votes[i] \in kinds}
             voters == {r \in Reviewers : voted[a][r] \in kinds}
  <2>5. kinds \in SUBSET (Nat \ {NoVote})
    BY <2>4 DEF NoVote
  <2>6. IsFiniteSet(positions) /\ Cardinality(positions) = Cardinality(voters)
    <3> HIDE DEF kinds
    <3> QED BY <2>1, <2>5, AsManyVotesAsVoters
  <2>7. positions = {i \in 1 .. Len(votes) : votes[i] >= SettledAmount(votes, Quorum)}
    BY <2>1
  <2>8. voters = {r \in Reviewers : voted[a][r] >= g}
    BY <2>1
  <2> HIDE DEF positions, voters
  <2>9. 2 * Cardinality(positions) > Quorum
    BY <2>1, <2>2, <2>6, <2>7, MajorityAtSettled DEF Matched
  <2> QED BY <2>1, <2>4, <2>6, <2>8, <2>9 DEF g
<1> QED
  BY <1>1, BallotsAlways, PTL

------------------------------------------------------------------------------
(* What the screen said *)

\* Only finalize makes an award.
LEMMA NewAwardIsFinalized ==
  ASSUME TypedAwards, [Next]_vars, NEW a \in Applicants, ~HasAward(a), HasAward(a)'
  PROVE  \E payee, mode : Finalize(a, payee, mode)
<1>0. TypeOK
  BY DEF TypedAwards
<1>1. award'[a] # award[a]
  BY DEF HasAward
<1>2. ASSUME NEW b \in Applicants, NEW payee, NEW mode, Finalize(b, payee, mode)
      PROVE  b = a
  BY <1>0, <1>1, <1>2 DEF Finalize, TypeOK
<1>3. ASSUME NEW b \in Applicants, NEW amount \in Nat \ {0}, NEW n \in Nat \ {0},
             NEW uids, ReleaseEffect(b, amount, n, uids)
      PROVE  FALSE
  <2>1. b = a
    BY <1>0, <1>1, <1>3 DEF ReleaseEffect, TypeOK
  <2> QED
    BY <1>3, <2>1 DEF ReleaseEffect, TranchesLeft
<1>4. award' # award
  BY <1>1
<1> QED
  BY <1>2, <1>3, <1>4, StepCases DEF Contribute, ExecuteRefund, Apply, Withdraw, Review, Spend,
     SweepFee, SweepUnclaimed, Cancel, ExtendReleaseDeadline, Quiet, reviewVars

\* Whatever votes come in and whoever calls finalize, with any payee and mode, the
\* award it makes is the one that was shown, which clears the minimum and fits the
\* budget shown.
THEOREM ShownAwardIsGranted == Spec => ComputedAwardIsGranted
<1>1. TypedAwards /\ [Next]_vars =>
        [\A a \in Applicants : HasAward(a)' /\ ~HasAward(a) =>
           award'[a].granted = ComputedAward(a) /\ ~BelowMinimum(a) /\ ~Insufficient(a)]_vars
  <2> SUFFICES ASSUME TypedAwards, [Next]_vars, NEW a \in Applicants, HasAward(a)', ~HasAward(a)
               PROVE  award'[a].granted = ComputedAward(a) /\ ~BelowMinimum(a) /\ ~Insufficient(a)
    OBVIOUS
  <2>1. PICK payee, mode : Finalize(a, payee, mode)
    BY NewAwardIsFinalized
  <2>2. TypeOK
    BY DEF TypedAwards
  <2>3. /\ award'[a].granted = SettledAmount(application[a].votes, Quorum)
        /\ Len(application[a].votes) >= Quorum
        /\ SettledAmount(application[a].votes, Quorum) >= MinimumAward
        /\ WithinBudget(SettledAmount(application[a].votes, Quorum))
    BY <2>1, <2>2 DEF Finalize, CanFinalize, SettledAward, TypeOK
  <2>4. ComputedAward(a) = SettledAmount(application[a].votes, Quorum)
    BY DEF ComputedAward, SettledAmount
  <2>5. /\ application[a].votes \in Seq(Nat) /\ Quorum \in Nat \ {0} /\ MinimumAward \in Int
        /\ granted \in Nat
    BY <2>2, ConstructorAssumption DEF TypeOK, Application, ConstructorChecks
  <2>7. Available \in Nat
    BY <2>2, AmountFacts
  <2>6. SettledAmount(application[a].votes, Quorum) \in Nat
    <3> DEFINE votes == application[a].votes
    <3>1. votes \in Seq(Nat) /\ (Quorum - 1) \div 2 + 1 \in 1 .. Len(votes)
      BY <2>3, <2>5
    <3> QED
      BY <3>1 DEF SettledAmount
  <2> QED
    BY <2>3, <2>4, <2>5, <2>6, <2>7 DEF BelowMinimum, Insufficient, WithinBudget
<1> QED
  BY <1>1, Typed, PTL DEF Spec, ComputedAwardIsGranted

------------------------------------------------------------------------------
(* What the timeline says *)

\* The other direction of AwardsOK: no application is decided without an award.
DecidedHaveAwards == \A a \in Applicants : application[a].finalized => HasAward(a)

LEMMA DecidedInit == Init => DecidedHaveAwards
<1> QED BY DEF Init, DecidedHaveAwards, NoApplication

LEMMA DecidedStep ==
  TypedAwards /\ DecidedHaveAwards /\ [Next]_vars => DecidedHaveAwards'
<1> SUFFICES ASSUME TypedAwards, DecidedHaveAwards, [Next]_vars, NEW a \in Applicants,
                    application'[a].finalized
             PROVE  HasAward(a)'
  BY DEF DecidedHaveAwards
<1>0. TypeOK /\ AwardsOK
  BY DEF TypedAwards
<1>a. application[a].finalized => HasAward(a)
  BY DEF DecidedHaveAwards
<1>1. CASE UNCHANGED <<application, award>>
  BY <1>a, <1>1 DEF HasAward
<1>2. ASSUME NEW b \in Applicants, NEW requested, Apply(b, requested)
      PROVE  HasAward(a)'
  <2>1. a # b /\ application'[a] = application[a] /\ UNCHANGED award
    BY <1>0, <1>2 DEF Apply, TypeOK, NoApplication
  <2> QED BY <1>a, <2>1 DEF HasAward
<1>3. ASSUME NEW b \in Applicants, Withdraw(b)
      PROVE  HasAward(a)'
  <2>1. application'[a].finalized = application[a].finalized /\ UNCHANGED award
    BY <1>0, <1>3 DEF Withdraw, TypeOK, Application
  <2> QED BY <1>a, <2>1 DEF HasAward
<1>4. ASSUME NEW b \in Applicants, NEW r, NEW approved, Review(r, b, approved)
      PROVE  HasAward(a)'
  <2>1. application'[a].finalized = application[a].finalized /\ UNCHANGED award
    BY <1>0, <1>4 DEF Review, TypeOK, Application
  <2> QED BY <1>a, <2>1 DEF HasAward
<1>5. ASSUME NEW b \in Applicants, NEW payee, NEW mode \in Modes, Finalize(b, payee, mode)
      PROVE  HasAward(a)'
  <2>1. mode # "none"
    BY SetsAssumption DEF AllModes
  <2>2. CASE a = b
    BY <1>0, <1>5, <2>1, <2>2 DEF Finalize, TypeOK, HasAward
  <2>3. CASE a # b
    <3>1. application'[a] = application[a] /\ award'[a] = award[a]
      BY <1>0, <1>5, <2>3 DEF Finalize, TypeOK
    <3> QED BY <1>a, <3>1 DEF HasAward
  <2> QED BY <2>2, <2>3
<1>6. ASSUME NEW b \in Applicants, NEW amount \in Nat \ {0}, NEW n \in Nat \ {0},
             NEW uids, ReleaseEffect(b, amount, n, uids)
      PROVE  HasAward(a)'
  <2>1. UNCHANGED application /\ (award'[a] = award[a] \/ award'[a].mode = award[a].mode)
    BY <1>0, <1>6 DEF ReleaseEffect, TypeOK, reviewVars
  <2> QED BY <1>a, <2>1 DEF HasAward
<1> QED
  BY <1>1, <1>2, <1>3, <1>4, <1>5, <1>6, StepCases DEF Contribute, ExecuteRefund, Spend,
     SweepFee, SweepUnclaimed, Cancel, ExtendReleaseDeadline, Quiet, reviewVars

\* The review of an application is "Now" exactly while a vote would be taken, a
\* stage that is called done, closed or stopped takes none any more, and the award
\* stage is done exactly when there is an award.
THEOREM StepsStayTrue == Spec => []StepsAreTrue
<1>1. TypedAwards /\ DecidedHaveAwards => StepsAreTrue
  <2> SUFFICES ASSUME TypedAwards, DecidedHaveAwards, NEW a \in Applicants, HasApplied(a)
               PROVE  LET votable == \E approved \in Approvals : CanReview(a, approved) IN
                 /\ ~paused /\ (\E approved \in Approvals :
                                approved \in 1 .. application[a].requested)
                      => (ReviewStep(a) = "Now" <=> votable)
                 /\ ReviewStep(a) \in {"Stopped", "Done", "Closed"} => ~votable
                 /\ AwardStep(a) = "Done" <=> HasAward(a)
                 /\ ApplicationStatus(a) = "Finalised" <=> HasAward(a)
    BY DEF StepsAreTrue
  <2> DEFINE votable == \E approved \in Approvals : CanReview(a, approved)
  <2>1. HasAward(a) <=> application[a].finalized /\ ~application[a].withdrawn
    <3>1. application[a].finalized => HasAward(a)
      BY DEF DecidedHaveAwards
    <3>2. HasAward(a) => award[a] # NoAward
      BY DEF HasAward, NoAward
    <3>3. award[a] # NoAward => application[a].finalized /\ ~application[a].withdrawn
      BY DEF TypedAwards, AwardsOK
    <3> QED BY <3>1, <3>2, <3>3
  <2>2. application[a].withdrawn \in BOOLEAN /\ application[a].finalized \in BOOLEAN
    BY DEF TypedAwards, TypeOK, Application
  <2>3. HasAward(a) => ~application[a].withdrawn
    BY <2>1
  <2>4. votable => Phase = "Review" /\ ~application[a].finalized /\ ~application[a].withdrawn
    BY DEF CanReview, Undecided
  <2>5. ReviewStep(a) = "Now"
          <=> Phase = "Review" /\ ~application[a].finalized /\ ~application[a].withdrawn
    BY DEF ReviewStep, Phase
  <2>6. ASSUME ~paused, ReviewStep(a) = "Now",
               NEW approved \in Approvals, approved \in 1 .. application[a].requested
        PROVE  votable
    <3>1. CanReview(a, approved)
      BY <2>5, <2>6 DEF CanReview, Undecided
    <3> QED BY <3>1
  <2>7. AwardStep(a) = "Done" <=> HasAward(a)
    BY <2>1, <2>2 DEF AwardStep
  <2>8. ApplicationStatus(a) = "Finalised" <=> HasAward(a)
    BY <2>1, <2>2 DEF ApplicationStatus
  <2>9. ReviewStep(a) \in {"Stopped", "Done", "Closed"} => ~votable
    BY <2>4, <2>5
  <2> HIDE DEF votable
  <2> QED BY <2>4, <2>5, <2>6, <2>7, <2>8, <2>9 DEF votable
<1> QED
  BY <1>1, DecidedInit, DecidedStep, Typed, PTL DEF Spec
=============================================================================
