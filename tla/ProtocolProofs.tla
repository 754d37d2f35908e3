--------------------------- MODULE ProtocolProofs ---------------------------
(***************************************************************************)
(* The contracts around a programme, for any number of accounts,           *)
(* programmes, credits, spends, schemas and attestations, and any          *)
(* CYCLE_DEPTH: who may write standings, that a standing is what its       *)
(* credits add up to, that the spending policy bounds what a wallet moves  *)
(* within any period, and what the registry of attestations keeps and what *)
(* those who read it say.                                                  *)
(***************************************************************************)
EXTENDS Standings, PolicySpend, AttestClients, AlgorithmProofs

(* Who writes the record *)

\* What the argument needs to know of the variables' values.
StandingsShape ==
  /\ config \in [admin : Accounts \cup {Registry}, fee : {fee \in Fees : fee <= MaxFeeBps}]
  /\ deployed \in Seq([creator : Accounts, fee : {fee \in Fees : fee <= MaxFeeBps}])

LEMMA StandingsShapeInit == StandingsInit => StandingsShape
  BY DEF StandingsInit, StandingsShape

\* Of the steps only CreateProgramme deploys, and only the record's admin, or the
\* registry as it deploys, changes the writers.
LEMMA StandingsNextKeeps ==
  ASSUME StandingsShape, StandingsNext PROVE StandingsShape' /\ OnlyProgrammesJoin
<1> DEFINE AllowedFees == {fee \in Fees : fee <= MaxFeeBps}
<1>1. ASSUME NEW caller \in Accounts, NEW writer \in Accounts \cup 1..MaxProgrammes,
             AdminAddsWriter(caller, writer) \/ RemoveWriter(caller, writer)
      PROVE  StandingsShape' /\ OnlyProgrammesJoin
  <2>1. recordAdmin # Registry /\ UNCHANGED registryVars
    BY <1>1, RegistryAssumption DEF AdminAddsWriter, AddWriter, MayAddWriter, RemoveWriter
  <2> QED BY <2>1 DEF StandingsShape, OnlyProgrammesJoin, registryVars
<1>2. ASSUME NEW caller \in Accounts, NEW admin \in Accounts \cup {Registry},
             SetRecordAdmin(caller, admin)
      PROVE  StandingsShape' /\ OnlyProgrammesJoin
  <2>1. recordAdmin # Registry /\ UNCHANGED registryVars
    BY <1>2, RegistryAssumption DEF SetRecordAdmin
  <2> QED BY <2>1 DEF StandingsShape, OnlyProgrammesJoin, registryVars
<1>3. ASSUME NEW caller \in Accounts, NEW admin \in Accounts \cup {Registry},
             SetRegistryAdmin(caller, admin)
      PROVE  StandingsShape' /\ OnlyProgrammesJoin
  <2>1. config' = [config EXCEPT !.admin = admin] /\ UNCHANGED <<recordVars, deployed>>
    BY <1>3 DEF SetRegistryAdmin
  <2> QED BY <2>1 DEF StandingsShape, OnlyProgrammesJoin, recordVars, Deployed
<1>4. ASSUME NEW caller \in Accounts, NEW fee \in Fees, SetFee(caller, fee)
      PROVE  StandingsShape' /\ OnlyProgrammesJoin
  <2>1. config' = [config EXCEPT !.fee = fee] /\ fee \in AllowedFees /\ UNCHANGED <<recordVars, deployed>>
    BY <1>4 DEF SetFee, FeeAllowed
  <2> QED BY <2>1 DEF StandingsShape, OnlyProgrammesJoin, recordVars, Deployed
<1>5. ASSUME NEW creator \in Accounts, CreateProgramme(creator)
      PROVE  StandingsShape' /\ OnlyProgrammesJoin
  <2> DEFINE new == [creator |-> creator, fee |-> config.fee]
  <2>1. new \in [creator : Accounts, fee : AllowedFees] BY DEF StandingsShape
  <2>2. /\ deployed' = Append(deployed, new)
        /\ Len(deployed) + 1 \notin writers /\ writers' = writers \cup {Len(deployed) + 1}
        /\ UNCHANGED <<recordAdmin, config>>
    BY <1>5 DEF CreateProgramme, AddWriter
  <2> HIDE DEF new
  <2>3. deployed' \in Seq([creator : Accounts, fee : AllowedFees]) /\ Len(deployed') = Len(deployed) + 1
    BY <2>1, <2>2 DEF StandingsShape
  <2>4. Len(deployed) \in Nat BY DEF StandingsShape
  <2>5. Deployed' \ Deployed = {Len(deployed) + 1}
    BY <2>3, <2>4 DEF Deployed
  <2>6. StandingsShape' BY <2>2, <2>3 DEF StandingsShape
  <2>7. OnlyProgrammesJoin BY <2>2, <2>5 DEF OnlyProgrammesJoin
  <2> QED BY <2>6, <2>7
<1>6. ASSUME NEW writer, NEW subject, NEW programme, NEW amount, NEW evidence,
             Credit(writer, subject, programme, amount, evidence)
      PROVE  StandingsShape' /\ OnlyProgrammesJoin
  <2>1. UNCHANGED <<recordAdmin, writers, registryVars>> BY <1>6 DEF Credit
  <2> QED BY <2>1 DEF StandingsShape, OnlyProgrammesJoin, registryVars, Deployed
<1> QED BY <1>1, <1>2, <1>3, <1>4, <1>5, <1>6 DEF StandingsNext

LEMMA StandingsShapeHolds == StandingsSpec => []StandingsShape
<1>1. StandingsShape /\ [StandingsNext]_standingsVars => StandingsShape'
  <2> SUFFICES ASSUME StandingsShape, [StandingsNext]_standingsVars PROVE StandingsShape'
    OBVIOUS
  <2>1. CASE UNCHANGED standingsVars
    BY <2>1 DEF standingsVars, registryVars, StandingsShape
  <2> QED BY <2>1, StandingsNextKeeps
<1> QED BY <1>1, StandingsShapeInit, PTL DEF StandingsSpec

\* Once the registry governs the record it does so for ever, and from then on the
\* writers that join are the programmes it deploys, each as it deploys it.
THEOREM RegistryGoverns == StandingsSpec => GovernedByRegistry
<1>1. StandingsShape /\ [StandingsNext]_standingsVars => [OnlyProgrammesJoin]_standingsVars
  BY StandingsNextKeeps
<1> QED BY <1>1, StandingsShapeHolds, PTL DEF StandingsSpec, GovernedByRegistry

------------------------------------------------------------------------------
(* What a standing adds up to *)

CreditRecord ==
  [writer : Accounts \cup Nat, subject : Recipients, programme : Nat, amount : Int,
   attestation : Evidence]
Folded == Nat \X Int \X Evidence

ProgrammesOf(subject) == {credits[i].programme : i \in CreditsOf(subject)}

\* The credits are of their types, a root is a sequence, and the pairs that the
\* record has seen are those that the credits name.
RecordOK ==
  /\ credits \in Seq(CreditRecord)
  /\ \A subject \in Recipients :
       /\ StandingOf(subject).root \in Seq(Folded)
       /\ IsFiniteSet(ProgrammesOf(subject))
       /\ \A programme : <<subject, programme>> \in seenIn <=> programme \in ProgrammesOf(subject)

LEMMA RecordInit == StandingsInit => RecordOK /\ StandingsAddUp
<1> SUFFICES ASSUME StandingsInit PROVE RecordOK /\ StandingsAddUp
  OBVIOUS
<1>1. credits = <<>> /\ standings = <<>> /\ seenIn = {}
  BY DEF StandingsInit
<1>2. \A subject : CreditsOf(subject) = {}
  BY <1>1 DEF CreditsOf
<1>3. \A subject : StandingOf(subject) = NoStanding
  BY <1>1 DEF StandingOf
<1>4. \A subject : ProgrammesOf(subject) = {}
  BY <1>2 DEF ProgrammesOf
<1>5. IsFiniteSet({}) /\ Cardinality({}) = 0
  BY FS_EmptySet
<1>6. RecordOK
  <2>1. credits \in Seq(CreditRecord) /\ NoStanding.root \in Seq(Folded)
    BY <1>1 DEF NoStanding
  <2> QED BY <1>1, <1>3, <1>4, <1>5, <2>1 DEF RecordOK
<1>7. \A subject : SumFunction([i \in CreditsOf(subject) |-> credits[i].amount]) = 0
  BY <1>2, <1>5, AmountsType DEF AmountsOf
<1>8. \A subject : {credits[i].programme : i \in CreditsOf(subject)} = {}
  BY <1>2
<1>9. StandingsAddUp
  BY <1>2, <1>3, <1>5, <1>7, <1>8 DEF StandingsAddUp, NoStanding
<1> QED BY <1>6, <1>9

\* The places of a subject's credits are finitely many, and each of them is as far
\* into its root as there are credits of the subject up to it.
LEMMA PlaceInRoot ==
  ASSUME RecordOK, NEW subject
  PROVE  /\ IsFiniteSet(CreditsOf(subject)) /\ Cardinality(CreditsOf(subject)) \in Nat
         /\ \A i \in CreditsOf(subject) :
              Cardinality({j \in CreditsOf(subject) : j <= i}) \in 1..Cardinality(CreditsOf(subject))
<1> DEFINE own == CreditsOf(subject)
           Upto(i) == {j \in own : j <= i}
<1>1. Len(credits) \in Nat /\ own \subseteq 1..Len(credits)
  BY DEF RecordOK, CreditsOf
<1>2. IsFiniteSet(1..Len(credits))
  BY <1>1, FS_Interval
<1>3. IsFiniteSet(own)
  BY <1>1, <1>2, FS_Subset
<1>4. Cardinality(own) \in Nat
  BY <1>3, FS_CardinalityType
<1>5. ASSUME NEW i \in own PROVE Cardinality(Upto(i)) \in 1..Cardinality(own)
  <2>1. Upto(i) \subseteq own /\ i \in Upto(i)
    BY <1>1
  <2>2. IsFiniteSet(Upto(i)) /\ Cardinality(Upto(i)) <= Cardinality(own)
    BY <1>3, <2>1, FS_Subset
  <2> HIDE DEF Upto
  <2>3. Cardinality(Upto(i)) \in Nat /\ Cardinality(Upto(i)) # 0
    BY <2>1, <2>2, FS_CardinalityType, FS_EmptySet
  <2> QED BY <1>4, <2>2, <2>3
<1> QED BY <1>3, <1>4, <1>5

\* A credit counts for its subject alone, and for its programme if it is the first.
LEMMA CreditKeepsRecord ==
  ASSUME RecordOK, StandingsAddUp,
         NEW writer \in Accounts \cup Nat, NEW subject \in Recipients, NEW programme \in Nat,
         NEW amount \in Int, NEW evidence \in Evidence,
         Credit(writer, subject, programme, amount, evidence)
  PROVE  RecordOK' /\ StandingsAddUp'
<1> DEFINE n == Len(credits) + 1
           made == [writer |-> writer, subject |-> subject, programme |-> programme,
                    amount |-> amount, attestation |-> evidence]
           folded == <<programme, amount, evidence>>
           before == StandingOf(subject)
           own == CreditsOf(subject)
<1>1. /\ credits' = Append(credits, made)
      /\ seenIn' = seenIn \cup {<<subject, programme>>}
      /\ StandingOf(subject)' =
           [programmes |-> before.programmes + (IF <<subject, programme>> \notin seenIn THEN 1 ELSE 0),
            tranches |-> before.tranches + 1, total |-> before.total + amount,
            root |-> Append(before.root, folded)]
      /\ \A s : s # subject => StandingOf(s)' = StandingOf(s)
  BY DEF Credit, StandingOf, NewlySeen
<1>2. /\ Len(credits) \in Nat /\ DOMAIN credits = 1..Len(credits)
      /\ credits' \in Seq(CreditRecord)
      /\ DOMAIN credits' = DOMAIN credits \cup {n} /\ n \notin DOMAIN credits
      /\ credits'[n] = made /\ \A i \in DOMAIN credits : credits'[i] = credits[i]
  <2>1. made \in CreditRecord
    BY DEF CreditRecord
  <2>2. credits \in Seq(CreditRecord)
    BY DEF RecordOK
  <2> HIDE DEF made
  <2> QED BY <1>1, <2>1, <2>2
<1>3. \A s : s # subject => CreditsOf(s)' = CreditsOf(s)
  BY <1>2 DEF CreditsOf
<1>4. CreditsOf(subject)' = own \cup {n} /\ n \notin own
  BY <1>2 DEF CreditsOf
<1>5. \A s : \A i \in CreditsOf(s) : i \in DOMAIN credits /\ i <= Len(credits) /\ i \in Nat
  BY <1>2 DEF CreditsOf
<1>6. \A s : s # subject => ProgrammesOf(s)' = ProgrammesOf(s)
  BY <1>2, <1>3, <1>5 DEF ProgrammesOf
<1>7. ProgrammesOf(subject)' = ProgrammesOf(subject) \cup {programme}
  BY <1>2, <1>4, <1>5 DEF ProgrammesOf
<1> HIDE DEF n, made
<1>8. folded \in Folded
  BY DEF Folded
<1>9. /\ before.root \in Seq(Folded) /\ Len(before.root) \in Nat
      /\ IsFiniteSet(ProgrammesOf(subject))
      /\ <<subject, programme>> \in seenIn <=> programme \in ProgrammesOf(subject)
  BY DEF RecordOK
<1>10. RecordOK'
  <2>1. ASSUME NEW s \in Recipients
        PROVE  /\ StandingOf(s)'.root \in Seq(Folded)
               /\ IsFiniteSet(ProgrammesOf(s)')
               /\ \A p : <<s, p>> \in seenIn' <=> p \in ProgrammesOf(s)'
    <3>1. CASE s = subject
      <4> HIDE DEF folded, before
      <4>1. StandingOf(s)'.root = Append(before.root, folded)
        BY <1>1, <3>1
      <4>2. StandingOf(s)'.root \in Seq(Folded)
        BY <1>8, <1>9, <4>1
      <4>3. IsFiniteSet(ProgrammesOf(s)')
        BY <1>7, <1>9, <3>1, FS_AddElement
      <4>4. \A p : <<s, p>> \in seenIn' <=> p \in ProgrammesOf(s)'
        BY <1>1, <1>7, <3>1 DEF RecordOK
      <4> QED BY <4>2, <4>3, <4>4
    <3>2. CASE s # subject
      BY <1>1, <1>6, <3>2 DEF RecordOK
    <3> QED BY <3>1, <3>2
  <2> QED BY <1>2, <2>1 DEF RecordOK
<1>11. ASSUME NEW s \in Recipients, s # subject
       PROVE  /\ StandingOf(s)' = StandingOf(s) /\ CreditsOf(s)' = CreditsOf(s)
              /\ \A i \in CreditsOf(s) : credits'[i] = credits[i]
              /\ ProgrammesOf(s)' = ProgrammesOf(s)
              /\ AmountsOf(credits', CreditsOf(s)) = AmountsOf(credits, CreditsOf(s))
  <2>1. \A i \in CreditsOf(s) : credits'[i] = credits[i]
    BY <1>2, <1>5
  <2>2. [i \in CreditsOf(s) |-> credits'[i].amount] = [i \in CreditsOf(s) |-> credits[i].amount]
    BY <2>1
  <2> QED BY <1>1, <1>3, <1>6, <1>11, <2>1, <2>2 DEF AmountsOf
<1>12. /\ Cardinality(ProgrammesOf(subject)') = before.programmes
                                                 + (IF <<subject, programme>> \notin seenIn THEN 1 ELSE 0)
       /\ Cardinality(own \cup {n}) = Cardinality(own) + 1
       /\ AmountsOf(credits', own \cup {n}) = before.total + amount
       /\ before.tranches = Cardinality(own) /\ Len(before.root) = Cardinality(own)
  <2>1. /\ before.programmes = Cardinality(ProgrammesOf(subject))
        /\ before.tranches = Cardinality(own)
        /\ before.total = AmountsOf(credits, own)
        /\ Len(before.root) = Cardinality(own)
    BY DEF StandingsAddUp, ProgrammesOf, AmountsOf
  <2>2. IsFiniteSet(own)
    BY PlaceInRoot
  <2>3. Cardinality(own \cup {n}) = Cardinality(own) + 1
    BY <1>4, <2>2, FS_AddElement
  <2>4. Cardinality(ProgrammesOf(subject) \cup {programme})
          = Cardinality(ProgrammesOf(subject)) + (IF programme \notin ProgrammesOf(subject) THEN 1 ELSE 0)
    <3>1. Cardinality(ProgrammesOf(subject)) \in Nat
      BY <1>9, FS_CardinalityType
    <3>2. CASE programme \in ProgrammesOf(subject)
      <4>1. ProgrammesOf(subject) \cup {programme} = ProgrammesOf(subject)
        BY <3>2
      <4> QED BY <3>1, <3>2, <4>1
    <3>3. CASE programme \notin ProgrammesOf(subject)
      <4> HIDE DEF own, before, folded
      <4> QED BY <1>9, <3>3, FS_AddElement
    <3> QED BY <3>2, <3>3
  <2>5. \A i \in own : credits[i].amount \in Int /\ credits'[i] = credits[i]
    <3>1. \A i \in DOMAIN credits : credits[i] \in CreditRecord
      BY DEF RecordOK
    <3> QED BY <1>2, <1>5, <3>1 DEF CreditRecord
  <2>6. credits'[n].amount = amount
    BY <1>2 DEF made
  <2>7. AmountsOf(credits', own \cup {n}) = AmountsOf(credits, own) + amount
    <3> DEFINE J == own \cup {n}
    <3>1. AmountsOf(credits', own) = AmountsOf(credits, own)
      BY <2>2, <2>5, AmountsAgree
    <3>2. n \in J /\ J \ {n} = own /\ IsFiniteSet(J) /\ \A i \in J : credits'[i].amount \in Int
      BY <1>4, <2>2, <2>5, <2>6, FS_AddElement
    <3> HIDE DEF J, own
    <3>3. AmountsOf(credits', J) = AmountsOf(credits', own) + credits'[n].amount
      BY <3>2, AmountsWithOne
    <3> QED BY <2>6, <3>1, <3>3 DEF J
  <2> QED BY <1>7, <1>9, <2>1, <2>3, <2>4, <2>7
<1>13. ASSUME NEW i \in own \cup {n}
       PROVE  Append(before.root, folded)[Cardinality({j \in own \cup {n} : j <= i})]
                = <<credits'[i].programme, credits'[i].amount, credits'[i].attestation>>
  <2> DEFINE Upto(I) == {j \in I : j <= i}
  <2>1. CASE i = n
    <3>1. Upto(own \cup {n}) = own \cup {n}
      <4>1. n = Len(credits) + 1 /\ n \in Nat /\ Len(credits) \in Nat
        BY <1>2 DEF n
      <4>2. \A j \in own : j \in Nat /\ j <= Len(credits)
        BY <1>5
      <4> HIDE DEF own
      <4>3. \A j \in own \cup {n} : j <= i
        BY <2>1, <4>1, <4>2
      <4> QED BY <4>3
    <3>2. Cardinality(Upto(own \cup {n})) = Len(before.root) + 1
      BY <1>12, <3>1
    <3>3. Append(before.root, folded)[Len(before.root) + 1] = folded
      <4> HIDE DEF folded, before
      <4> QED BY <1>8, <1>9
    <3>4. folded = <<credits'[i].programme, credits'[i].amount, credits'[i].attestation>>
      BY <1>2, <2>1 DEF made
    <3> QED BY <3>2, <3>3, <3>4
  <2>2. CASE i # n
    <3>1. i \in own /\ Upto(own \cup {n}) = Upto(own)
      <4>1. n = Len(credits) + 1 /\ n \in Nat /\ Len(credits) \in Nat
        BY <1>2 DEF n
      <4>2. \A j \in own : j \in Nat /\ j <= Len(credits)
        BY <1>5
      <4> HIDE DEF own
      <4>3. i \in own /\ ~(n <= i)
        BY <2>2, <4>1, <4>2
      <4> QED BY <4>3
    <3>2. Cardinality(Upto(own)) \in 1..Len(before.root)
      BY <1>12, <3>1, PlaceInRoot
    <3>3. before.root[Cardinality(Upto(own))]
            = <<credits[i].programme, credits[i].amount, credits[i].attestation>>
      BY <3>1 DEF StandingsAddUp
    <3>4. Append(before.root, folded)[Cardinality(Upto(own))] = before.root[Cardinality(Upto(own))]
      <4> HIDE DEF folded, before, Upto
      <4> QED BY <1>8, <1>9, <3>2
    <3>5. credits'[i] = credits[i]
      BY <1>2, <1>5, <3>1
    <3> QED BY <3>1, <3>3, <3>4, <3>5
  <2> QED BY <2>1, <2>2
<1>14. StandingsAddUp'
  <2>1. ASSUME NEW s \in Recipients
        PROVE  /\ StandingOf(s)'.programmes = Cardinality(ProgrammesOf(s)')
               /\ StandingOf(s)'.tranches = Cardinality(CreditsOf(s)')
               /\ StandingOf(s)'.total = AmountsOf(credits', CreditsOf(s)')
               /\ Len(StandingOf(s)'.root) = Cardinality(CreditsOf(s)')
               /\ \A i \in CreditsOf(s)' :
                    StandingOf(s)'.root[Cardinality({j \in CreditsOf(s)' : j <= i})]
                      = <<credits'[i].programme, credits'[i].amount, credits'[i].attestation>>
    <3>1. CASE s = subject
      <4>1. /\ StandingOf(s)'.programmes = before.programmes
                                            + (IF <<subject, programme>> \notin seenIn THEN 1 ELSE 0)
            /\ StandingOf(s)'.tranches = before.tranches + 1
            /\ StandingOf(s)'.total = before.total + amount
            /\ StandingOf(s)'.root = Append(before.root, folded)
        BY <1>1, <3>1
      <4>2. Len(Append(before.root, folded)) = Len(before.root) + 1
        <5> HIDE DEF folded, before
        <5> QED BY <1>8, <1>9
      <4> HIDE DEF folded, before, own
      <4> QED BY <1>4, <1>12, <1>13, <3>1, <4>1, <4>2
    <3>2. CASE s # subject
      <4>1. /\ StandingOf(s).programmes = Cardinality(ProgrammesOf(s))
            /\ StandingOf(s).tranches = Cardinality(CreditsOf(s))
            /\ StandingOf(s).total = AmountsOf(credits, CreditsOf(s))
            /\ Len(StandingOf(s).root) = Cardinality(CreditsOf(s))
            /\ \A i \in CreditsOf(s) :
                 StandingOf(s).root[Cardinality({j \in CreditsOf(s) : j <= i})]
                   = <<credits[i].programme, credits[i].amount, credits[i].attestation>>
        BY DEF StandingsAddUp, ProgrammesOf, AmountsOf
      <4> HIDE DEF before, folded, own
      <4> QED BY <1>11, <3>2, <4>1
    <3> QED BY <3>1, <3>2
  <2> QED BY <2>1 DEF StandingsAddUp, ProgrammesOf, AmountsOf
<1> QED BY <1>10, <1>14

\* Nothing else touches the credits or what is kept of them.
LEMMA RecordKept ==
  ASSUME RecordOK, StandingsAddUp, [StandingsNext]_standingsVars
  PROVE  RecordOK' /\ StandingsAddUp'
<1>1. CASE UNCHANGED <<standings, seenIn, credits>>
  <2>1. \A s : StandingOf(s)' = StandingOf(s) /\ CreditsOf(s)' = CreditsOf(s)
    BY <1>1 DEF StandingOf, CreditsOf
  <2>2. \A s : ProgrammesOf(s)' = ProgrammesOf(s)
    BY <1>1, <2>1 DEF ProgrammesOf
  <2>3. RecordOK'
    BY <1>1, <2>1, <2>2 DEF RecordOK
  <2>4. StandingsAddUp'
    BY <1>1, <2>1, ZenonT(60) DEF StandingsAddUp
  <2> QED BY <2>3, <2>4
<1>2. ASSUME NEW writer \in Accounts \cup Nat, NEW subject \in Recipients, NEW programme \in Nat,
             NEW amount \in CreditAmounts, NEW evidence \in Evidence,
             Credit(writer, subject, programme, amount, evidence)
      PROVE  RecordOK' /\ StandingsAddUp'
  BY <1>2, CreditKeepsRecord, CreditsAssumption
<1>3. \A programme \in Deployed : programme \in Nat
  BY DEF Deployed
<1>4. CASE UNCHANGED standingsVars
  BY <1>1, <1>4 DEF standingsVars, recordVars
<1>5. CASE StandingsNext
  BY <1>1, <1>2, <1>3, <1>5 DEF StandingsNext, AdminAddsWriter, RemoveWriter, SetRecordAdmin,
    SetRegistryAdmin, SetFee, CreateProgramme, recordVars
<1> QED BY <1>4, <1>5

\* A standing is, for every recipient and at every moment, what the credits made to it
\* add up to: its amounts, its tranches, its distinct programmes, and the chain of
\* what each credit was for in the order in which they were made.
THEOREM StandingsAlwaysAddUp == StandingsSpec => []StandingsAddUp
<1>1. RecordOK /\ StandingsAddUp /\ [StandingsNext]_standingsVars => RecordOK' /\ StandingsAddUp'
  BY RecordKept
<1> QED BY <1>1, RecordInit, PTL DEF StandingsSpec

------------------------------------------------------------------------------
(* What a wallet spends *)

Spend == [at : Nat, amount : Nat]
Policy ==
  [steward : Stewards, token : Tokens, cap : Nat, period : Nat \ {0}, spent : Nat, start : Nat]

\* Of a list of spends, the places of those from a time on, and before another.
Since(own, from) == {i \in DOMAIN own : from <= own[i].at}
Between(own, from, to) == {i \in DOMAIN own : from <= own[i].at /\ own[i].at < to}

\* A policy keeps its cap over the spends under it: what it counts is what was spent
\* in its window, all of the window's spends fall before its end, no stretch as long as
\* a period that reaches into the window had more than the cap before the window,
\* and none at all has more than twice the cap.
Kept(policy, own, time) ==
  /\ policy \in Policy
  /\ own \in Seq(Spend)
  /\ policy.start <= time
  /\ \A i \in DOMAIN own : own[i].at <= time /\ own[i].at < policy.start + policy.period
  /\ policy.spent = AmountsOf(own, Since(own, policy.start)) /\ policy.spent <= policy.cap
  /\ \A from \in Nat : from + policy.period > policy.start
                         => AmountsOf(own, Between(own, from, policy.start)) <= policy.cap
  /\ \A from \in Nat : AmountsOf(own, Between(own, from, from + policy.period)) <= 2 * policy.cap

\* The spends of a list, in whatever part, are finitely many and of natural amounts.
LEMMA SpendsOfPart ==
  ASSUME NEW own \in Seq(Spend), NEW I \in SUBSET DOMAIN own
  PROVE  /\ IsFiniteSet(I) /\ AmountsOf(own, I) \in Nat
         /\ \A i \in I : own[i].amount \in Nat /\ own[i].at \in Nat /\ i \in Nat
         /\ \A J \in SUBSET I : AmountsOf(own, J) <= AmountsOf(own, I)
<1>1. Len(own) \in Nat /\ DOMAIN own = 1..Len(own)
  OBVIOUS
<1>2. IsFiniteSet(I)
  <2>1. IsFiniteSet(1..Len(own)) /\ I \subseteq 1..Len(own)
    BY <1>1, FS_Interval
  <2> QED BY <2>1, FS_Subset
<1>3. \A i \in I : own[i].amount \in Nat /\ own[i].at \in Nat /\ i \in Nat
  <2>1. \A i \in I : own[i] \in Spend /\ i \in Nat
    BY <1>1
  <2> QED BY <2>1 DEF Spend
<1>4. AmountsOf(own, I) \in Int /\ AmountsOf(own, I) >= 0
  BY <1>2, <1>3, AmountsType
<1> QED BY <1>2, <1>3, <1>4, AmountsOfPart

\* Under new rules nothing has been spent.
LEMMA KeptAnew ==
  ASSUME NEW steward \in Stewards, NEW token \in Tokens, NEW cap \in Nat, NEW period \in Nat \ {0},
         NEW time \in Nat
  PROVE  Kept([steward |-> steward, token |-> token, cap |-> cap, period |-> period,
               spent |-> 0, start |-> time], <<>>, time)
<1> DEFINE none == <<>>
<1>1. none \in Seq(Spend) /\ DOMAIN none = {}
  OBVIOUS
<1> HIDE DEF none
<1>2. \A from, to : Since(none, from) = {} /\ Between(none, from, to) = {}
  BY <1>1 DEF Since, Between
<1>3. AmountsOf(none, {}) = 0
  BY FS_EmptySet, AmountsType
<1> DEFINE rules == [steward |-> steward, token |-> token, cap |-> cap, period |-> period,
                     spent |-> 0, start |-> time]
<1>4. rules \in Policy /\ rules.cap = cap /\ rules.spent = 0 /\ rules.start = time
  BY DEF Policy
<1> HIDE DEF rules
<1>5. \A from, to : AmountsOf(none, Since(none, from)) = 0 /\ AmountsOf(none, Between(none, from, to)) = 0
  BY <1>2, <1>3
<1>6. 0 <= rules.cap /\ 0 <= 2 * rules.cap
  BY <1>4
<1>7. Kept(rules, none, time)
  BY <1>1, <1>4, <1>5, <1>6 DEF Kept
<1> QED BY <1>7 DEF none, rules

\* Time alone changes nothing.
LEMMA KeptLater ==
  ASSUME NEW policy, NEW own, NEW time \in Nat, Kept(policy, own, time)
  PROVE  Kept(policy, own, time + 1)
<1>1. policy \in Policy /\ own \in Seq(Spend)
  BY DEF Kept
<1>2. policy.start \in Nat /\ \A i \in DOMAIN own : own[i].at \in Nat
  <2>1. \A i \in DOMAIN own : own[i] \in Spend
    BY <1>1
  <2> QED BY <1>1, <2>1 DEF Policy, Spend
<1> QED BY <1>2 DEF Kept

\* What a spend adds to a stretch of time: its amount, if it falls within it.
LEMMA SpendAdded ==
  ASSUME NEW own \in Seq(Spend), NEW time \in Nat, NEW amount \in Nat,
         NEW from \in Nat, NEW to \in Nat
  PROVE  LET longer == Append(own, [at |-> time, amount |-> amount])
         IN /\ longer \in Seq(Spend)
            /\ AmountsOf(longer, Between(longer, from, to))
                 = AmountsOf(own, Between(own, from, to)) + (IF from <= time /\ time < to THEN amount ELSE 0)
            /\ from <= time => AmountsOf(longer, Since(longer, from)) = AmountsOf(own, Since(own, from)) + amount
<1> DEFINE made == [at |-> time, amount |-> amount]
           longer == Append(own, made)
           n == Len(own) + 1
<1>1. made \in Spend /\ made.at = time /\ made.amount = amount
  BY DEF Spend
<1> HIDE DEF made
<1>2. /\ longer \in Seq(Spend)
      /\ DOMAIN longer = DOMAIN own \cup {n} /\ n \notin DOMAIN own
      /\ longer[n] = made /\ \A i \in DOMAIN own : longer[i] = own[i]
  BY <1>1
<1> HIDE DEF longer, n
<1>3. ASSUME NEW I \in SUBSET DOMAIN own
      PROVE  /\ AmountsOf(longer, I) = AmountsOf(own, I)
             /\ AmountsOf(longer, I \cup {n}) = AmountsOf(own, I) + amount
             /\ AmountsOf(own, I) \in Nat
  <2>1. IsFiniteSet(I) /\ AmountsOf(own, I) \in Nat /\ \A i \in I : own[i].amount \in Int
    BY SpendsOfPart
  <2>2. n \notin I /\ longer[n].amount = amount /\ \A i \in I : longer[i] = own[i]
    BY <1>1, <1>2
  <2>3. AmountsOf(longer, I) = AmountsOf(own, I)
    BY <2>1, <2>2, AmountsAgree
  <2> DEFINE J == I \cup {n}
  <2>4. n \in J /\ J \ {n} = I /\ IsFiniteSet(J) /\ \A i \in J : longer[i].amount \in Int
    BY <2>1, <2>2, FS_AddElement
  <2> HIDE DEF J
  <2>5. AmountsOf(longer, J) = AmountsOf(longer, I) + longer[n].amount
    BY <2>4, AmountsWithOne
  <2> QED BY <2>1, <2>2, <2>3, <2>5 DEF J
<1>4. /\ Between(own, from, to) \in SUBSET DOMAIN own
      /\ Between(longer, from, to)
           = Between(own, from, to) \cup (IF from <= time /\ time < to THEN {n} ELSE {})
  BY <1>1, <1>2 DEF Between
<1>5. /\ Since(own, from) \in SUBSET DOMAIN own
      /\ from <= time => Since(longer, from) = Since(own, from) \cup {n}
  BY <1>1, <1>2 DEF Since
<1>6. AmountsOf(longer, Between(longer, from, to))
        = AmountsOf(own, Between(own, from, to)) + (IF from <= time /\ time < to THEN amount ELSE 0)
  <2>1. CASE from <= time /\ time < to BY <1>3, <1>4, <2>1
  <2>2. CASE ~(from <= time /\ time < to)
    <3>1. Between(longer, from, to) = Between(own, from, to)
      BY <1>4, <2>2
    <3>2. AmountsOf(longer, Between(own, from, to)) = AmountsOf(own, Between(own, from, to))
          /\ AmountsOf(own, Between(own, from, to)) \in Nat
      BY <1>3, <1>4
    <3> QED BY <2>2, <3>1, <3>2
  <2> QED BY <2>1, <2>2
<1> QED BY <1>2, <1>3, <1>5, <1>6 DEF longer, made

\* A signature that the policy passes: in the window it falls in it is counted with
\* what went before, and if it opens a new one, all that went before in a stretch that
\* reaches it was in the old one.
LEMMA KeptBySpend ==
  ASSUME NEW policy, NEW own, NEW time \in Nat, Kept(policy, own, time), NEW amount \in Nat,
         NEW renewed,
         renewed = IF time - policy.start >= policy.period
                   THEN [policy EXCEPT !.spent = 0, !.start = time] ELSE policy,
         renewed.spent + amount <= renewed.cap
  PROVE  Kept([renewed EXCEPT !.spent = renewed.spent + amount],
              Append(own, [at |-> time, amount |-> amount]), time)
<1> DEFINE after == [renewed EXCEPT !.spent = renewed.spent + amount]
           made == [at |-> time, amount |-> amount]
           longer == Append(own, made)
           start == after.start
           period == policy.period
           cap == policy.cap
           Of(list, from, to) == AmountsOf(list, Between(list, from, to))
<1>1. /\ policy \in Policy
      /\ own \in Seq(Spend)
      /\ \A i \in DOMAIN own : own[i].at \in Nat /\ own[i].at <= time
                               /\ own[i].at < policy.start + policy.period
      /\ policy.start \in Nat /\ period \in Nat /\ period > 0 /\ cap \in Nat /\ policy.spent \in Nat
      /\ policy.start <= time
  <2>1. /\ policy \in Policy /\ own \in Seq(Spend) /\ policy.start <= time
        /\ \A i \in DOMAIN own : own[i].at <= time /\ own[i].at < policy.start + policy.period
    BY DEF Kept
  <2>2. \A i \in DOMAIN own : own[i] \in Spend
    BY <2>1
  <2> QED BY <2>1, <2>2 DEF Policy, Spend
<1>2. /\ renewed \in Policy
      /\ renewed.cap = cap /\ renewed.period = period
      /\ time - policy.start >= period => renewed.spent = 0 /\ renewed.start = time
      /\ time - policy.start < period => renewed.spent = policy.spent /\ renewed.start = policy.start
  <2>1. CASE time - policy.start >= period
    <3>1. renewed = [policy EXCEPT !.spent = 0, !.start = time]
      BY <2>1
    <3>2. /\ renewed \in Policy /\ renewed.cap = policy.cap /\ renewed.period = policy.period
          /\ renewed.spent = 0 /\ renewed.start = time
      <4> DEFINE anew == [policy EXCEPT !.spent = 0, !.start = time]
      <4>1. policy \in Policy
        BY <1>1
      <4>2. /\ anew \in Policy /\ anew.cap = policy.cap /\ anew.period = policy.period
            /\ anew.spent = 0 /\ anew.start = time
        BY <4>1 DEF Policy
      <4> QED BY <3>1, <4>2, Zenon
    <3>3. ~(time - policy.start < policy.period)
      BY <1>1, <2>1
    <3> HIDE DEF after, longer
    <3> QED BY <3>2, <3>3
  <2>2. CASE time - policy.start < period
    <3>1. renewed = policy
      BY <1>1, <2>2
    <3> QED BY <1>1, <2>2, <3>1 DEF Policy
  <2> QED BY <1>1, <2>1, <2>2
<1>3. /\ after \in Policy
      /\ after.cap = cap /\ after.period = period
      /\ after.spent = renewed.spent + amount /\ after.start = renewed.start
  BY <1>2 DEF Policy
<1>4. start \in Nat /\ start <= time /\ time < start + period /\ policy.start <= start
  BY <1>1, <1>2, <1>3
<1>5. /\ longer \in Seq(Spend)
      /\ \A i \in DOMAIN longer : longer[i].at <= time /\ longer[i].at < start + period
  <2>1. made \in Spend /\ made.at = time
    BY DEF Spend
  <2>2. \A i \in DOMAIN own : own[i].at <= time /\ own[i].at < start + period /\ own[i].at \in Nat
    BY <1>1, <1>4
  <2> HIDE DEF made, start
  <2> QED BY <1>1, <1>4, <2>1, <2>2, SMTT(30)
<1>6. \A from, to \in Nat :
        Of(longer, from, to) = Of(own, from, to) + (IF from <= time /\ time < to THEN amount ELSE 0)
  BY <1>1, SpendAdded
<1>7. AmountsOf(longer, Since(longer, start)) = AmountsOf(own, Since(own, start)) + amount
  BY <1>1, <1>4, SpendAdded
<1>8. \A from, to : Of(own, from, to) \in Nat
  BY <1>1, SpendsOfPart DEF Between
<1> HIDE DEF after, longer, start
<1>9. after.spent = AmountsOf(longer, Since(longer, start)) /\ after.spent <= cap
  <2>1. CASE time - policy.start < period
    BY <1>2, <1>3, <1>7, <2>1 DEF Kept, start
  <2>2. CASE time - policy.start >= period
    <3>1. start = time /\ renewed.spent = 0
      BY <1>2, <1>3, <2>2 DEF start
    <3>2. Since(own, time) = {}
      BY <1>1, <2>2 DEF Since
    <3>3. AmountsOf(own, {}) = 0
      BY FS_EmptySet, AmountsType
    <3> QED BY <1>2, <1>3, <1>7, <3>1, <3>2, <3>3
  <2> QED BY <1>1, <2>1, <2>2
<1>10. ASSUME NEW from \in Nat, from + period > start PROVE Of(longer, from, start) <= cap
  <2>1. Of(longer, from, start) = Of(own, from, start)
    BY <1>4, <1>6, <1>8
  <2>2. CASE time - policy.start < period
    <3>1. start = policy.start
      BY <1>2, <1>3, <2>2 DEF start
    <3> QED BY <1>10, <2>1, <3>1 DEF Kept
  <2>3. CASE time - policy.start >= period
    <3>1. start = time
      BY <1>2, <1>3, <2>3 DEF start
    <3>2. Between(own, from, start) \in SUBSET Since(own, policy.start)
      BY <1>1, <1>10, <2>3, <3>1, SMTT(30) DEF Between, Since
    <3>3. Of(own, from, start) <= AmountsOf(own, Since(own, policy.start))
      BY <1>1, <3>2, SpendsOfPart DEF Since
    <3>4. AmountsOf(own, Since(own, policy.start)) <= cap
      BY DEF Kept
    <3>5. AmountsOf(own, Since(own, policy.start)) \in Nat
      BY <1>1, SpendsOfPart DEF Since
    <3> QED BY <1>1, <1>8, <2>1, <3>3, <3>4, <3>5
  <2> QED BY <1>1, <2>2, <2>3
<1>11. ASSUME NEW from \in Nat PROVE Of(longer, from, from + period) <= 2 * cap
  <2>1. CASE from + period <= start
    <3>1. Of(longer, from, from + period) = Of(own, from, from + period)
      <4>1. from + period \in Nat /\ ~(time < from + period)
        BY <1>1, <1>4, <2>1, SMTT(30)
      <4> HIDE DEF Of, period
      <4> QED BY <1>6, <1>8, <4>1
    <3> QED BY <3>1 DEF Kept
  <2>2. CASE from + period > start
    <3> DEFINE whole == Between(longer, from, from + period)
               early == Between(longer, from, start) \cap whole
    <3>1. whole \in SUBSET DOMAIN longer /\ early \in SUBSET whole
      BY DEF Between
    <3>2. IsFiniteSet(whole) /\ \A i \in whole : longer[i].amount \in Int
      <4> HIDE DEF whole, early
      <4>1. \A i \in whole : longer[i].amount \in Nat
        BY <1>5, <3>1, SpendsOfPart
      <4> QED BY <1>5, <3>1, <4>1, SpendsOfPart
    <3>3. AmountsOf(longer, whole) = AmountsOf(longer, early) + AmountsOf(longer, whole \ early)
      BY <3>1, <3>2, AmountsSplit
    <3>4. early \in SUBSET Between(longer, from, start) /\ Between(longer, from, start) \in SUBSET DOMAIN longer
      BY DEF Between
    <3>5. AmountsOf(longer, early) <= Of(longer, from, start)
      BY <1>5, <3>4, SpendsOfPart
    <3>6. whole \ early \in SUBSET Since(longer, start) /\ Since(longer, start) \in SUBSET DOMAIN longer
      <4>1. \A i \in DOMAIN longer : longer[i].at \in Nat
        BY <1>5, SpendsOfPart
      <4> QED BY <1>4, <4>1 DEF Between, Since
    <3>7. AmountsOf(longer, whole \ early) <= AmountsOf(longer, Since(longer, start))
      BY <1>5, <3>6, SpendsOfPart
    <3>8. /\ AmountsOf(longer, early) \in Nat /\ AmountsOf(longer, whole \ early) \in Nat
          /\ Of(longer, from, start) \in Nat /\ AmountsOf(longer, Since(longer, start)) \in Nat
      <4>1. early \in SUBSET DOMAIN longer /\ whole \ early \in SUBSET DOMAIN longer
        BY <3>1
      <4> HIDE DEF early, whole
      <4> QED BY <1>5, <3>4, <3>6, <4>1, SpendsOfPart
    <3> HIDE DEF early
    <3> QED BY <1>1, <1>9, <1>10, <2>2, <3>3, <3>5, <3>7, <3>8, SMTT(30)
  <2> QED BY <1>1, <1>4, <2>1, <2>2
<1> HIDE DEF period, cap
<1> QED BY <1>3, <1>4, <1>5, <1>9, <1>10, <1>11 DEF Kept, after, longer, start

\* Every configured wallet's policy keeps its cap over the wallet's spends.
PoliciesOK ==
  /\ clock \in Nat /\ DOMAIN spends = Wallets
  /\ \A wallet \in DOMAIN policies : wallet \in Wallets /\ Kept(policies[wallet], spends[wallet], clock)

LEMMA ConfigureKeeps ==
  ASSUME PoliciesOK, NEW steward \in Stewards, NEW wallet \in Wallets, NEW token \in Tokens,
         NEW cap \in Caps, NEW period \in Periods, Configure(steward, wallet, token, cap, period)
  PROVE  PoliciesOK'
<1> DEFINE rules == [steward |-> steward, token |-> token, cap |-> cap, period |-> period,
                     spent |-> 0, start |-> clock]
<1>1. cap \in Nat /\ period \in Nat \ {0}
  BY PolicyAssumption DEF Configure
<1>2. /\ policies' = [w \in DOMAIN policies \cup {wallet} |-> IF w = wallet THEN rules ELSE policies[w]]
      /\ spends' = [spends EXCEPT ![wallet] = <<>>] /\ clock' = clock
  BY DEF Configure
<1>3. Kept(rules, <<>>, clock)
  BY <1>1, KeptAnew DEF PoliciesOK
<1> HIDE DEF rules
<1>4. spends'[wallet] = <<>> /\ \A w \in Wallets : w # wallet => spends'[w] = spends[w]
  BY <1>2 DEF PoliciesOK
<1> QED BY <1>2, <1>3, <1>4 DEF PoliciesOK

LEMMA SpendFromKeeps ==
  ASSUME PoliciesOK, NEW wallet \in Wallets, NEW calls \in Contexts, SpendFrom(wallet, calls)
  PROVE  PoliciesOK'
<1> DEFINE policy == policies[wallet]
           renewed == Renewed(policy)
           made == [at |-> clock, amount |-> Total(calls)]
           after == [renewed EXCEPT !.spent = renewed.spent + Total(calls)]
<1>1. /\ wallet \in DOMAIN policies /\ \A i \in DOMAIN calls : calls[i].amount > 0
      /\ renewed.spent + Total(calls) <= renewed.cap
      /\ policies' = [policies EXCEPT ![wallet] = after]
      /\ spends' = [spends EXCEPT ![wallet] = Append(spends[wallet], made)] /\ clock' = clock
  BY DEF SpendFrom, Allowed
<1>2. Total(calls) \in Nat
  <2>1. IsFiniteSet(DOMAIN calls) /\ \A i \in DOMAIN calls : calls[i].amount \in Int /\ calls[i].amount >= 0
    BY <1>1, PolicyAssumption
  <2>2. Total(calls) = AmountsOf(calls, DOMAIN calls)
    BY DEF Total, AmountsOf
  <2> QED BY <2>1, <2>2, AmountsType
<1>3. renewed = IF clock - policy.start >= policy.period
                THEN [policy EXCEPT !.spent = 0, !.start = clock] ELSE policy
  BY DEF Renewed, WindowElapsed
<1>4. clock \in Nat /\ Kept(policy, spends[wallet], clock)
  BY <1>1 DEF PoliciesOK
<1> HIDE DEF renewed, policy
<1>5. Kept(after, Append(spends[wallet], made), clock)
  BY <1>1, <1>2, <1>3, <1>4, KeptBySpend
<1> HIDE DEF after, made
<1>6. /\ DOMAIN policies' = DOMAIN policies /\ DOMAIN spends' = Wallets
      /\ policies'[wallet] = after /\ spends'[wallet] = Append(spends[wallet], made)
      /\ \A w \in DOMAIN policies : w # wallet => policies'[w] = policies[w] /\ spends'[w] = spends[w]
  BY <1>1 DEF PoliciesOK
<1> QED BY <1>1, <1>5, <1>6 DEF PoliciesOK

LEMMA PoliciesKept ==
  ASSUME PoliciesOK, [PolicySpendNext]_policyVars PROVE PoliciesOK'
<1>1. CASE UNCHANGED <<policies, clock, spends>>
  BY <1>1 DEF PoliciesOK
<1>2. CASE PolicyClock
  <2>1. clock' = clock + 1 /\ UNCHANGED <<policies, spends>>
    BY <1>2 DEF PolicyClock
  <2> QED BY <2>1, KeptLater DEF PoliciesOK
<1>3. CASE UNCHANGED policyVars
  BY <1>1, <1>3 DEF policyVars
<1>4. CASE PolicySpendNext
  BY <1>1, <1>2, <1>4, ConfigureKeeps, SpendFromKeeps
    DEF PolicySpendNext, Install, Uninstall, AllowPayee, DenyPayee
<1> QED BY <1>3, <1>4

\* What the property counts is what the invariant speaks of.
LEMMA KeptIsCapped == PoliciesOK => SpendingIsCapped
<1> SUFFICES ASSUME PoliciesOK, NEW wallet \in DOMAIN policies
             PROVE  LET policy == policies[wallet]
                    IN /\ SpentDuring(wallet, policy.start, clock + 1) <= policy.cap
                       /\ \A from \in 0..clock :
                            SpentDuring(wallet, from, from + policy.period) <= 2 * policy.cap
  BY DEF SpendingIsCapped
<1> DEFINE policy == policies[wallet]
           own == spends[wallet]
<1>1. clock \in Nat /\ Kept(policy, own, clock)
  BY DEF PoliciesOK
<1>2. policy.start \in Nat /\ policy.period \in Nat
      /\ \A i \in DOMAIN own : own[i].at \in Nat /\ own[i].at <= clock
  <2>1. /\ policy \in Policy /\ own \in Seq(Spend)
        /\ \A i \in DOMAIN own : own[i].at <= clock
    BY <1>1 DEF Kept
  <2>2. \A i \in DOMAIN own : own[i] \in Spend
    BY <2>1
  <2> QED BY <2>1, <2>2 DEF Policy, Spend
<1> DEFINE Within(from, to) == {i \in DOMAIN own : own[i].at \in from..(to - 1)}
<1>3. Within(policy.start, clock + 1) = Since(own, policy.start)
  BY <1>1, <1>2 DEF Since
<1>4. \A from \in Nat : Within(from, from + policy.period) = Between(own, from, from + policy.period)
  BY <1>2 DEF Between
<1>5. \A from, to : SpentDuring(wallet, from, to) = AmountsOf(own, Within(from, to))
  BY Zenon DEF SpentDuring, AmountsOf
<1> HIDE DEF Within
<1>6. /\ SpentDuring(wallet, policy.start, clock + 1) = AmountsOf(own, Since(own, policy.start))
      /\ \A from \in Nat : SpentDuring(wallet, from, from + policy.period)
                            = AmountsOf(own, Between(own, from, from + policy.period))
  BY <1>3, <1>4, <1>5
<1> HIDE DEF policy, own
<1>7. /\ SpentDuring(wallet, policy.start, clock + 1) <= policy.cap
      /\ \A from \in Nat : SpentDuring(wallet, from, from + policy.period) <= 2 * policy.cap
  BY <1>1, <1>6 DEF Kept
<1> QED BY <1>1, <1>7 DEF policy

\* Under one set of rules no wallet moves more than its cap in a window of its policy,
\* nor more than twice the cap in any stretch of time as long as a period.
THEOREM SpendingStaysCapped == PolicySpendSpec => []SpendingIsCapped
<1>1. PolicySpendInit => PoliciesOK
  BY DEF PolicySpendInit, PoliciesOK
<1>2. PoliciesOK /\ [PolicySpendNext]_policyVars => PoliciesOK'
  BY PoliciesKept
<1> QED BY <1>1, <1>2, KeptIsCapped, PTL DEF PolicySpendSpec

------------------------------------------------------------------------------
(* Attest and its clients                                                  *)
(*                                                                         *)
(* The proof does not use the walk of CheckCycle at all: chains end        *)
(* because a predecessor is registered before its successor and no uid is  *)
(* registered twice.  History is kept because each attestation's uid       *)
(* holds a nonce that was not used before.                                 *)
(*                                                                         *)
(* Who checks a claim or looks up the history of a schema says what is     *)
(* true, whatever the contract does between the reads.  A check that is    *)
(* under way has among its `truths` the answer of now, so the answer it    *)
(* ends with is one of them.  A walk never meets a schema twice, since the *)
(* ranks that SchemaChainsEnd gives the schemas fall along it; and it      *)
(* never misses one, since what is registered stays.                       *)

Attestation == [schema : SchemaUids, attester : Authorities, subject : Subjects,
                expires : Nat \cup {Never}, revoked : Nat \cup {Never}]

\* Both maps are functions, the schemas finitely many.
MapsAreWellFormed ==
  /\ schemas = [uid \in DOMAIN schemas |-> schemas[uid]]
  /\ IsFiniteSet(DOMAIN schemas)
  /\ attestations = [uid \in DOMAIN attestations |-> attestations[uid]]
  /\ \A uid \in DOMAIN attestations : attestations[uid] \in Attestation
  /\ now \in Nat

\* The nonces of the attestations are used up.
NoncesAreUsed == \A uid \in DOMAIN attestations : uid[4] \in Nat /\ uid[4] < attested

AttestInv == AttestTypeOK /\ MapsAreWellFormed /\ NoncesAreUsed /\ SchemaChainsEnd

------------------------------------------------------------------------------

\* AttestTypeOK in pieces.
LEMMA TypePieces ==
  ASSUME MapsAreWellFormed
  PROVE  AttestTypeOK <=>
           /\ DOMAIN schemas \subseteq SchemaUids
           /\ \A uid \in DOMAIN schemas : schemas[uid] \in Schema
           /\ \A uid \in DOMAIN schemas :
                schemas[uid].predecessor # NoUid => schemas[uid].predecessor \in DOMAIN schemas
           /\ \A uid \in DOMAIN attestations : attestations[uid].schema \in DOMAIN schemas
           /\ attested \in Nat
<1>1. (\E registered \in SUBSET SchemaUids : schemas \in [registered -> Schema]) <=>
        /\ DOMAIN schemas \subseteq SchemaUids
        /\ \A uid \in DOMAIN schemas : schemas[uid] \in Schema
  BY DEF MapsAreWellFormed
<1> QED BY <1>1 DEF AttestTypeOK

LEMMA AttestInvInit == ASSUME AttestInit PROVE AttestInv
<1>1. DOMAIN schemas = {} /\ DOMAIN attestations = {}
  BY DEF AttestInit
<1>2. MapsAreWellFormed
  BY <1>1, FS_EmptySet DEF MapsAreWellFormed, AttestInit
<1>3. AttestTypeOK BY <1>1, <1>2, TypePieces DEF AttestInit
<1>4. SchemaChainsEnd
  <2> DEFINE rank == [uid \in DOMAIN schemas |-> 0]
  <2>1. rank \in [DOMAIN schemas -> 0..Cardinality(DOMAIN schemas)] BY <1>1
  <2> QED BY <1>1, <2>1 DEF SchemaChainsEnd
<1> QED BY <1>1, <1>2, <1>3, <1>4 DEF AttestInv, NoncesAreUsed

\* The step that registers a schema adds one to the schemas.
LEMMA RegisterKeepsInv ==
  ASSUME AttestInv,
         NEW authority \in Authorities, NEW definition \in Definitions,
         NEW revocable \in BOOLEAN, NEW restricted \in BOOLEAN,
         NEW predecessor \in SchemaUids \cup {NoUid},
         RegisterSchema(authority, definition, revocable, restricted, predecessor)
  PROVE  AttestInv' /\ OnlyRevoked
<1> DEFINE uid == <<authority, definition>>
           new == [authority |-> authority, revocable |-> revocable,
                   restricted |-> restricted, predecessor |-> predecessor]
<1>1. /\ uid \notin DOMAIN schemas /\ uid \in SchemaUids /\ new \in Schema
      /\ new.predecessor # NoUid => new.predecessor \in DOMAIN schemas
      /\ schemas' = [u \in DOMAIN schemas \cup {uid} |-> IF u = uid THEN new ELSE schemas[u]]
      /\ UNCHANGED <<attestations, attested, now>>
  BY DEF RegisterSchema, IsNew, SchemaUids, Schema
<1> HIDE DEF uid, new
<1>2. DOMAIN schemas' = DOMAIN schemas \cup {uid} BY <1>1
<1>3. schemas'[uid] = new /\ \A u \in DOMAIN schemas : schemas'[u] = schemas[u] BY <1>1
<1>4. /\ IsFiniteSet(DOMAIN schemas')
      /\ Cardinality(DOMAIN schemas') = Cardinality(DOMAIN schemas) + 1
      /\ Cardinality(DOMAIN schemas) \in Nat
  BY <1>1, <1>2, FS_AddElement, FS_CardinalityType DEF AttestInv, MapsAreWellFormed
<1>5. MapsAreWellFormed'
  BY <1>1, <1>2, <1>4 DEF AttestInv, MapsAreWellFormed
<1>6. AttestTypeOK'
  <2>1. /\ DOMAIN schemas \subseteq SchemaUids
        /\ \A u \in DOMAIN schemas : schemas[u] \in Schema
        /\ \A u \in DOMAIN schemas :
             schemas[u].predecessor # NoUid => schemas[u].predecessor \in DOMAIN schemas
        /\ \A u \in DOMAIN attestations : attestations[u].schema \in DOMAIN schemas
        /\ attested \in Nat
    BY TypePieces DEF AttestInv
  <2>2. /\ DOMAIN schemas' \subseteq SchemaUids
        /\ \A u \in DOMAIN schemas' : schemas'[u] \in Schema
        /\ \A u \in DOMAIN schemas' :
             schemas'[u].predecessor # NoUid => schemas'[u].predecessor \in DOMAIN schemas'
        /\ \A u \in DOMAIN attestations' : attestations'[u].schema \in DOMAIN schemas'
        /\ attested' \in Nat
    BY <1>1, <1>2, <1>3, <2>1
  <2> QED BY <1>5, <2>2 DEF AttestTypeOK, MapsAreWellFormed
<1>7. NoncesAreUsed' BY <1>1 DEF AttestInv, NoncesAreUsed
<1>8. SchemaChainsEnd'
  <2> DEFINE top == Cardinality(DOMAIN schemas)
  <2>1. PICK rank \in [DOMAIN schemas -> 0..top] :
          \A u \in DOMAIN schemas :
            schemas[u].predecessor # NoUid =>
              schemas[u].predecessor \in DOMAIN schemas /\ rank[schemas[u].predecessor] < rank[u]
    BY DEF AttestInv, SchemaChainsEnd
  <2> DEFINE longer == [u \in DOMAIN schemas' |-> IF u = uid THEN top + 1 ELSE rank[u]]
  <2> HIDE DEF top
  <2>2. top \in Nat /\ Cardinality(DOMAIN schemas') = top + 1 BY <1>4 DEF top
  <2>3. longer \in [DOMAIN schemas' -> 0..(top + 1)]
    BY <1>2, <2>1, <2>2
  <2>4. \A u \in DOMAIN schemas : longer[u] = rank[u] /\ rank[u] < top + 1
    BY <1>1, <1>2, <2>1, <2>2
  <2>5. longer[uid] = top + 1 BY <1>2
  <2> HIDE DEF longer
  <2>6. ASSUME NEW u \in DOMAIN schemas', schemas'[u].predecessor # NoUid
        PROVE  schemas'[u].predecessor \in DOMAIN schemas'
                 /\ longer[schemas'[u].predecessor] < longer[u]
    <3>1. CASE u = uid BY <1>1, <1>2, <1>3, <2>4, <2>5, <2>6, <3>1
    <3>2. CASE u \in DOMAIN schemas BY <1>2, <1>3, <2>1, <2>4, <2>6, <3>2
    <3> QED BY <1>2, <3>1, <3>2
  <2> QED BY <2>2, <2>3, <2>6 DEF SchemaChainsEnd
<1>9. OnlyRevoked BY <1>1, <1>2, <1>3 DEF OnlyRevoked
<1> QED BY <1>5, <1>6, <1>7, <1>8, <1>9 DEF AttestInv

\* A new attestation has a nonce of its own, so it replaces none.
LEMMA AttestKeepsInv ==
  ASSUME AttestInv,
         NEW attester \in Authorities, NEW schema \in DOMAIN schemas,
         NEW subject \in Subjects, NEW expires \in Nat \cup {Never},
         MakeAttestation(attester, schema, subject, expires)
  PROVE  AttestInv' /\ OnlyRevoked
<1> DEFINE uid == <<schema, attester, subject, attested>>
           new == [schema |-> schema, attester |-> attester, subject |-> subject,
                   expires |-> expires, revoked |-> Never]
<1>1. /\ attestations' = [u \in DOMAIN attestations \cup {uid} |->
                            IF u = uid THEN new ELSE attestations[u]]
      /\ attested' = attested + 1 /\ UNCHANGED <<schemas, now>>
  BY DEF MakeAttestation
<1>2. /\ DOMAIN schemas \subseteq SchemaUids
      /\ \A u \in DOMAIN attestations : attestations[u].schema \in DOMAIN schemas
      /\ attested \in Nat
  BY TypePieces DEF AttestInv
<1>3. uid[4] = attested /\ new \in Attestation /\ new.schema = schema
  BY <1>2 DEF Attestation
<1> HIDE DEF uid, new
<1>4. uid \notin DOMAIN attestations BY <1>2, <1>3 DEF AttestInv, NoncesAreUsed
<1>5. /\ DOMAIN attestations' = DOMAIN attestations \cup {uid} /\ attestations'[uid] = new
      /\ \A u \in DOMAIN attestations : attestations'[u] = attestations[u]
  BY <1>1, <1>4
<1>6. MapsAreWellFormed' BY <1>1, <1>3, <1>5 DEF AttestInv, MapsAreWellFormed
<1>7. AttestTypeOK' BY <1>1, <1>2, <1>3, <1>5 DEF AttestInv, AttestTypeOK
<1>8. NoncesAreUsed' BY <1>1, <1>2, <1>3, <1>5 DEF AttestInv, NoncesAreUsed
<1>9. SchemaChainsEnd' BY <1>1 DEF AttestInv, SchemaChainsEnd
<1>10. OnlyRevoked BY <1>1, <1>5 DEF OnlyRevoked
<1> QED BY <1>6, <1>7, <1>8, <1>9, <1>10 DEF AttestInv

\* A revocation changes one field of one attestation.
LEMMA RevokeKeepsInv ==
  ASSUME AttestInv, NEW attester \in Authorities, NEW uid \in DOMAIN attestations,
         RevokeAttestation(attester, uid)
  PROVE  AttestInv' /\ OnlyRevoked
<1> DEFINE revoked == [attestations[uid] EXCEPT !.revoked = now]
<1>1. /\ attestations' = [attestations EXCEPT ![uid] = revoked]
      /\ attestations[uid].revoked = Never /\ schemas[attestations[uid].schema].revocable
      /\ UNCHANGED <<schemas, attested, now>>
  BY DEF RevokeAttestation
<1>2. revoked \in Attestation /\ revoked.schema = attestations[uid].schema
  BY DEF AttestInv, MapsAreWellFormed, Attestation
<1> HIDE DEF revoked
<1>3. /\ DOMAIN attestations' = DOMAIN attestations /\ attestations'[uid] = revoked
      /\ \A u \in DOMAIN attestations : u # uid => attestations'[u] = attestations[u]
  BY <1>1
<1>4. MapsAreWellFormed' BY <1>1, <1>2, <1>3 DEF AttestInv, MapsAreWellFormed
<1>5. AttestTypeOK' BY <1>1, <1>2, <1>3 DEF AttestInv, AttestTypeOK
<1>6. NoncesAreUsed' BY <1>1, <1>3 DEF AttestInv, NoncesAreUsed
<1>7. SchemaChainsEnd' BY <1>1 DEF AttestInv, SchemaChainsEnd
<1>8. OnlyRevoked BY <1>1, <1>3 DEF OnlyRevoked, revoked
<1> QED BY <1>4, <1>5, <1>6, <1>7, <1>8 DEF AttestInv

LEMMA AttestNextKeepsInv ==
  ASSUME AttestInv, AttestNext PROVE AttestInv' /\ OnlyRevoked
<1>1. CASE Tick
  <2>1. UNCHANGED <<schemas, attestations, attested>> /\ now' \in Nat
    BY <1>1 DEF Tick, AttestInv, MapsAreWellFormed
  <2> QED BY <2>1 DEF AttestInv, AttestTypeOK, MapsAreWellFormed, NoncesAreUsed,
       SchemaChainsEnd, OnlyRevoked
<1>2. ASSUME NEW attester \in Authorities, NEW schema \in DOMAIN schemas,
             NEW subject \in Subjects, NEW expires \in 1..MaxTime \cup {Never},
             MakeAttestation(attester, schema, subject, expires)
      PROVE  AttestInv' /\ OnlyRevoked
  <2>1. expires \in Nat \cup {Never} OBVIOUS
  <2> QED BY <1>2, <2>1, AttestKeepsInv
<1> QED BY <1>1, <1>2, RegisterKeepsInv, RevokeKeepsInv DEF AttestNext

\* The invariant holds in every state of every behaviour.
THEOREM AttestCorrect == AttestSpec => []AttestInv
<1>1. AttestInv /\ [AttestNext]_attestVars => AttestInv'
  <2> SUFFICES ASSUME AttestInv, [AttestNext]_attestVars PROVE AttestInv'
    OBVIOUS
  <2>1. CASE UNCHANGED attestVars
    BY <2>1 DEF attestVars, AttestInv, AttestTypeOK, MapsAreWellFormed, NoncesAreUsed,
       SchemaChainsEnd
  <2> QED BY <2>1, AttestNextKeepsInv
<1> QED BY <1>1, AttestInvInit, PTL DEF AttestSpec

\* The predecessors of every schema lead to an original one, however long the chain
\* and wherever the walk of register_schema gives up.
THEOREM ChainsOfSchemasEnd == AttestSpec => []SchemaChainsEnd
<1>1. AttestInv => SchemaChainsEnd BY DEF AttestInv
<1> QED BY <1>1, AttestCorrect, PTL

\* Nothing that was registered or attested ever changes, but for a revocation, which
\* is final.
THEOREM HistoryStays == AttestSpec => HistoryIsKept
<1>1. AttestInv /\ [AttestNext]_attestVars => [OnlyRevoked]_attestVars
  BY AttestNextKeepsInv
<1> QED BY <1>1, AttestCorrect, PTL DEF AttestSpec, HistoryIsKept

------------------------------------------------------------------------------
(* The clients of the contract *)

allVars == <<attestVars, clientVars>>
ClientsSpec == AttestInit /\ ClientsInit /\ [][ClientsNext]_allVars

------------------------------------------------------------------------------
(* The check of a claim *)

\* While a check is under way the truth of now is one of those it came across; an
\* answer it ended with was one of them.
CheckOK(asked, step, answer, truths) ==
  IF step \in {"get", "verify"} THEN Holds(asked) \in truths
  ELSE /\ answer = "Yes" => TRUE \in truths
       /\ answer \notin {"Checking", "Yes", "Error", "none"} => FALSE \in truths

CheckIsRecord ==
  check = [form |-> check.form, step |-> check.step, asked |-> check.asked,
           record |-> check.record, answer |-> check.answer, errors |-> check.errors,
           truths |-> check.truths]

ChecksAreCurrent ==
  CheckIsRecord /\ CheckOK(check.asked, check.step, check.answer, check.truths)

LEMMA HoldsIsBoolean == ASSUME NEW claim PROVE Holds(claim) \in BOOLEAN
  BY Zenon DEF Holds, VerifyAttestation

------------------------------------------------------------------------------
(* The walk along predecessors *)

\* A numbering in which predecessors come first.
Ranks(rank) ==
  /\ rank \in [DOMAIN schemas -> Nat]
  /\ \A uid \in DOMAIN schemas :
       schemas[uid].predecessor # NoUid => rank[schemas[uid].predecessor] < rank[uid]

\* What was read is registered, each schema the predecessor of the one before.
Linked(chain) ==
  /\ chain \in Seq(DOMAIN schemas)
  /\ \A i \in 1 .. Len(chain) - 1 : schemas[chain[i]].predecessor = chain[i + 1]

\* No schema of the chain is met again below its last one.
Falling(chain) ==
  \A rank : Ranks(rank) =>
    \A i \in 1 .. Len(chain) : rank[chain[Len(chain)]] <= rank[chain[i]]

\* What the walk goes on with: the predecessor of the last one, so it never misses any.
GoesOn ==
  /\ lookup.chain = <<>> /\ lookup.reading => lookup.next = lookup.uid
  /\ lookup.chain # <<>> =>
       /\ lookup.chain[1] = lookup.uid /\ lookup.next # NoUid
       /\ lookup.next = schemas[lookup.chain[Len(lookup.chain)]].predecessor
  /\ ~lookup.reading => lookup.chain = <<>>
  /\ lookup.known => lookup.uid \in DOMAIN schemas
  /\ lookupUid # NoUid => lookup.uid = lookupUid
  /\ lookupUid \in SchemaUids \cup {NoUid}

\* Data is a whole history or its newest part; once the newest read has succeeded
\* it is of the schema that was read.
DataIsWhole(data) ==
  data # NoLookup =>
    /\ data.end \in {"none", "Older schemas are not shown"}
    /\ data.chain # <<>> /\ Linked(data.chain)
    /\ data.end = "none" => schemas[data.chain[Len(data.chain)]].predecessor = NoUid
CardIsOf(uid, known) ==
  IF card.data = NoLookup THEN ~known ELSE card.data.chain[1] = uid
CardIsTrue ==
  /\ DataIsWhole(card.data)
  /\ ~lookup.reading /\ ~card.error => CardIsOf(lookup.uid, lookup.known)

LookupIsRecord ==
  /\ lookup = [uid |-> lookup.uid, chain |-> lookup.chain, next |-> lookup.next,
               reading |-> lookup.reading, known |-> lookup.known]
  /\ card = [data |-> card.data, error |-> card.error, fetching |-> card.fetching,
             loaded |-> card.loaded]

WalkIsWhole ==
  LookupIsRecord /\ Linked(lookup.chain) /\ Falling(lookup.chain) /\ GoesOn /\ CardIsTrue

ClientsInv == AttestInv /\ ChecksAreCurrent /\ WalkIsWhole

------------------------------------------------------------------------------

\* The first schema and the rest of them are the sequence.
LEMMA HeadAndTail ==
  ASSUME NEW S, NEW s \in Seq(S), s # <<>>
  PROVE  <<s[1]>> \o Tail(s) = s
  OBVIOUS

LEMMA AppendFacts ==
  ASSUME NEW S, NEW s \in Seq(S), NEW e \in S
  PROVE  /\ Append(s, e) \in Seq(S) /\ Len(Append(s, e)) = Len(s) + 1
         /\ Append(s, e)[Len(s) + 1] = e /\ Append(s, e) # <<>>
         /\ \A i \in 1 .. Len(s) : Append(s, e)[i] = s[i]
  OBVIOUS

LEMMA ClientsInvInit == ASSUME AttestInit, ClientsInit PROVE ClientsInv
<1>1. AttestInv BY AttestInvInit
<1>2. ChecksAreCurrent
  BY DEF ClientsInit, CheckInit, ChecksAreCurrent, CheckIsRecord, CheckOK
<1>3. WalkIsWhole
  <2>1. /\ lookup = [uid |-> lookupUid, chain |-> <<>>, next |-> lookupUid,
                     reading |-> lookupUid # NoUid, known |-> lookupUid \in DOMAIN schemas]
        /\ card = [data |-> NoLookup, error |-> FALSE, fetching |-> lookupUid # NoUid,
                   loaded |-> FALSE]
    BY DEF ClientsInit, LookupInit, LookupOf
  <2>2. /\ LookupIsRecord /\ lookup.chain = <<>> /\ lookup.uid = lookupUid
        /\ lookup.next = lookupUid /\ lookup.known = (lookupUid \in DOMAIN schemas)
        /\ lookup.reading = (lookupUid # NoUid) /\ card.data = NoLookup
    BY <2>1 DEF LookupIsRecord
  <2>3. Linked(<<>>) /\ Falling(<<>>) BY DEF Linked, Falling
  <2>4. ~lookup.known
    <3>1. lookupUid \notin DOMAIN schemas BY DEF AttestInit
    <3> QED BY <2>2, <3>1, Zenon
  <2> QED BY <2>2, <2>3, <2>4 DEF WalkIsWhole, GoesOn, CardIsTrue, DataIsWhole, CardIsOf, ClientsInit
<1> QED BY <1>1, <1>2, <1>3 DEF ClientsInv

\* A chain has a last element, and elements that are registered.
LEMMA LinkedFacts ==
  ASSUME NEW chain, Linked(chain)
  PROVE  /\ Len(chain) \in Nat /\ (Len(chain) = 0 <=> chain = <<>>)
         /\ \A i \in 1 .. Len(chain) : chain[i] \in DOMAIN schemas
         /\ chain # <<>> => Len(chain) \in 1 .. Len(chain) /\ 1 \in 1 .. Len(chain)
<1>1. chain \in Seq(DOMAIN schemas) BY DEF Linked
<1> QED BY <1>1

\* A chain stays linked, and a whole history whole, when schemas are added.
LEMMA LinkedStays ==
  ASSUME OnlyRevoked
  PROVE  /\ \A chain : Linked(chain) => Linked(chain)'
         /\ \A data : DataIsWhole(data) => DataIsWhole(data)'
<1>1. \A uid \in DOMAIN schemas : uid \in DOMAIN schemas' /\ schemas'[uid] = schemas[uid]
  BY DEF OnlyRevoked
<1>2. ASSUME NEW chain, Linked(chain) PROVE Linked(chain)'
  <2>1. /\ Len(chain) \in Nat /\ chain \in Seq(DOMAIN schemas)
        /\ \A i \in 1 .. Len(chain) : chain[i] \in DOMAIN schemas
    BY <1>2, LinkedFacts DEF Linked
  <2>2. chain \in Seq(DOMAIN schemas') BY <1>1, <2>1
  <2>3. \A i \in 1 .. Len(chain) - 1 : schemas'[chain[i]].predecessor = chain[i + 1]
    BY <1>1, <1>2, <2>1 DEF Linked
  <2> QED BY <2>2, <2>3 DEF Linked
<1>3. ASSUME NEW data, DataIsWhole(data), data # NoLookup PROVE DataIsWhole(data)'
  <2>1. data.chain # <<>> /\ Linked(data.chain) BY <1>3 DEF DataIsWhole
  <2>2. data.chain[Len(data.chain)] \in DOMAIN schemas BY <2>1, LinkedFacts
  <2>3. Linked(data.chain)' BY <1>2, <2>1
  <2> QED BY <1>1, <1>3, <2>1, <2>2, <2>3 DEF DataIsWhole
<1>4. ASSUME NEW data, data = NoLookup PROVE DataIsWhole(data)'
  BY <1>4 DEF DataIsWhole, NoLookup
<1> QED BY <1>2, <1>3, <1>4

\* What the contract does leaves a walk as it was: the schemas it read stay.
LEMMA SchemasStayWalked ==
  ASSUME AttestInv, WalkIsWhole, OnlyRevoked, UNCHANGED lookupVars PROVE WalkIsWhole'
<1>1. \A uid \in DOMAIN schemas : uid \in DOMAIN schemas' /\ schemas'[uid] = schemas[uid]
  BY DEF OnlyRevoked
<1>2. \A uid \in DOMAIN schemas :
        schemas[uid].predecessor # NoUid => schemas[uid].predecessor \in DOMAIN schemas
  BY DEF AttestInv, AttestTypeOK
<1> DEFINE chain == lookup.chain
<1>3. Linked(chain) /\ Falling(chain) BY DEF WalkIsWhole
<1> HIDE DEF chain
<1>4. /\ chain \in Seq(DOMAIN schemas) /\ Len(chain) \in Nat
      /\ \A i \in 1 .. Len(chain) : chain[i] \in DOMAIN schemas
      /\ chain # <<>> => Len(chain) \in 1 .. Len(chain)
  BY <1>3, LinkedFacts DEF Linked
<1>7. ASSUME NEW rank, Ranks(rank)', NEW i \in 1 .. Len(chain)
      PROVE  rank[chain[Len(chain)]] <= rank[chain[i]]
  <2> DEFINE old == [uid \in DOMAIN schemas |-> rank[uid]]
  <2>1. Ranks(old)
    BY <1>1, <1>2, <1>7 DEF Ranks
  <2>2. \A uid \in DOMAIN schemas : old[uid] = rank[uid]
    OBVIOUS
  <2> HIDE DEF old
  <2>3. old[chain[Len(chain)]] <= old[chain[i]]
    BY <1>3, <2>1 DEF Falling
  <2>4. Len(chain) \in 1 .. Len(chain) BY <1>4
  <2> QED BY <1>4, <2>2, <2>3, <2>4
<1>8. (lookup.chain)' = chain /\ UNCHANGED <<lookupUid, lookup, card>> BY DEF chain, lookupVars
<1>9. Linked(lookup.chain)'
  BY <1>3, <1>8, LinkedStays DEF Linked
<1>10. Falling(lookup.chain)'
  BY <1>7, <1>8 DEF Falling
<1>11. GoesOn'
  <2>1. chain # <<>> => schemas'[chain[Len(chain)]] = schemas[chain[Len(chain)]]
    BY <1>1, <1>4
  <2> QED BY <1>1, <1>8, <2>1 DEF WalkIsWhole, GoesOn, chain
<1>12. CardIsTrue'
  <2>1. DataIsWhole(card.data) BY DEF WalkIsWhole, CardIsTrue
  <2>2. DataIsWhole(card.data)' BY <1>8, <2>1, LinkedStays DEF DataIsWhole, Linked
  <2> QED BY <1>8, <2>2 DEF WalkIsWhole, CardIsTrue, CardIsOf
<1> QED BY <1>8, <1>9, <1>10, <1>11, <1>12 DEF WalkIsWhole, LookupIsRecord

\* What the newest read answers with, of a whole history or of none, is true of it.
LEMMA AnswerIsTrue ==
  ASSUME WalkIsWhole, UNCHANGED schemas, NEW data, LookupAnswers(data), DataIsWhole(data),
         IF data = NoLookup THEN ~lookup.known ELSE data.chain[1] = lookup.uid
  PROVE  WalkIsWhole'
<1>1. /\ lookup' = [lookup EXCEPT !.reading = FALSE, !.chain = <<>>, !.next = NoUid]
      /\ card' = [data |-> data, error |-> FALSE, fetching |-> FALSE, loaded |-> TRUE]
      /\ UNCHANGED lookupUid
  BY DEF LookupAnswers, LookupSettles, LookupData
<1>2. /\ LookupIsRecord' /\ lookup'.uid = lookup.uid /\ lookup'.known = lookup.known
      /\ lookup'.chain = <<>> /\ ~lookup'.reading /\ card'.data = data
  BY <1>1 DEF LookupIsRecord, WalkIsWhole
<1>3. Linked(<<>>)' /\ Falling(<<>>)' BY DEF Linked, Falling
<1>4. GoesOn' BY <1>1, <1>2 DEF GoesOn, WalkIsWhole
<1>5. DataIsWhole(card.data)' BY <1>2 DEF DataIsWhole, Linked
<1>6. CardIsTrue' BY <1>2, <1>5 DEF CardIsTrue, CardIsOf
<1> QED BY <1>2, <1>3, <1>4, <1>6 DEF WalkIsWhole

\* One more schema of the walk.
LEMMA ReadKeepsWalk == ASSUME AttestInv, WalkIsWhole, SchemaRead PROVE WalkIsWhole'
<1> DEFINE chain == lookup.chain
           next == lookup.next
           longer == Append(chain, next)
           predecessor == schemas[next].predecessor
<1>1. lookup.reading /\ UNCHANGED <<schemas>>
  BY DEF SchemaRead, LookupAnswers, LookupSettles, attestVars
<1>2. Linked(chain) /\ Falling(chain) /\ GoesOn BY DEF WalkIsWhole
<1>a. /\ chain \in Seq(DOMAIN schemas) /\ Len(chain) \in Nat /\ (Len(chain) = 0 <=> chain = <<>>)
      /\ \A i \in 1 .. Len(chain) : chain[i] \in DOMAIN schemas
      /\ chain # <<>> => Len(chain) \in 1 .. Len(chain) /\ 1 \in 1 .. Len(chain)
  BY <1>2, LinkedFacts DEF Linked
<1>b. /\ chain = <<>> => next = lookup.uid
      /\ chain # <<>> => /\ chain[1] = lookup.uid /\ next # NoUid
                         /\ next = schemas[chain[Len(chain)]].predecessor
  BY <1>1, <1>2 DEF GoesOn
<1>c. LookupIsRecord BY DEF WalkIsWhole
<1>r. \A rank : Ranks(rank)' <=> Ranks(rank) BY <1>1 DEF Ranks
<1>3. CASE next \notin DOMAIN schemas
  <2>1. chain = <<>>
    <3> SUFFICES ASSUME chain # <<>> PROVE FALSE
      OBVIOUS
    <3>1. chain[Len(chain)] \in DOMAIN schemas BY <1>a
    <3> QED BY <1>3, <1>b, <3>1 DEF AttestInv, AttestTypeOK
  <2>2. LookupSchema(next) = {} BY <1>3 DEF LookupSchema
  <2>3. LookupAnswers(NoLookup)
    BY <2>1, <2>2 DEF SchemaRead
  <2>4. ~lookup.known BY <1>2, <1>3, <1>b, <2>1 DEF GoesOn
  <2>5. DataIsWhole(NoLookup) BY DEF DataIsWhole
  <2> QED BY <1>1, <2>3, <2>4, <2>5, AnswerIsTrue
<1>4. CASE next \in DOMAIN schemas
  <2>1. LookupSchema(next) = {schemas[next]} BY <1>4 DEF LookupSchema
  <2> DEFINE Ends(end) == LookupAnswers([chain |-> longer, end |-> end])
  <2>3. \/ (predecessor = NoUid \/ predecessor \in ToSet(longer)) /\ Ends("none")
        \/ predecessor # NoUid /\ Ends("Older schemas are not shown")
        \/ /\ predecessor # NoUid
           /\ lookup' = [lookup EXCEPT !.chain = longer, !.next = predecessor]
           /\ UNCHANGED <<lookupUid, card>>
    BY <2>1 DEF SchemaRead
  <2>4. /\ longer \in Seq(DOMAIN schemas) /\ Len(longer) = Len(chain) + 1
        /\ longer[Len(longer)] = next /\ longer # <<>>
        /\ \A i \in 1 .. Len(chain) : longer[i] = chain[i]
    BY <1>4, <1>a, AppendFacts
  <2> HIDE DEF longer, chain
  <2>5. longer[1] = lookup.uid
    BY <1>a, <1>b, <2>4
  <2>6. ASSUME NEW i \in 1 .. Len(longer) - 1
        PROVE  schemas[longer[i]].predecessor = longer[i + 1]
    <3>1. i \in 1 .. Len(chain) /\ longer[i] = chain[i] BY <1>a, <2>4
    <3>2. CASE i = Len(chain)
      <4>1. chain # <<>> /\ longer[i + 1] = next BY <1>a, <2>4, <3>1, <3>2
      <4> QED BY <1>b, <3>1, <3>2, <4>1
    <3>3. CASE i # Len(chain)
      <4>1. i \in 1 .. Len(chain) - 1 /\ i + 1 \in 1 .. Len(chain) BY <1>a, <3>1, <3>3
      <4>2. longer[i + 1] = chain[i + 1] BY <2>4, <4>1
      <4> QED BY <1>2, <3>1, <4>1, <4>2 DEF Linked
    <3> QED BY <3>2, <3>3
  <2>7. ASSUME NEW rank, Ranks(rank), NEW i \in 1 .. Len(longer)
        PROVE  rank[longer[Len(longer)]] <= rank[longer[i]]
    <3>1. \A uid \in DOMAIN schemas : rank[uid] \in Nat BY <2>7 DEF Ranks
    <3>2. CASE i = Len(longer)
      <4>1. rank[next] \in Nat BY <1>4, <3>1
      <4> HIDE DEF next
      <4> QED BY <2>4, <3>2, <4>1
    <3>3. CASE i # Len(longer)
      <4>1. i \in 1 .. Len(chain) /\ chain # <<>> /\ Len(chain) \in 1 .. Len(chain)
        BY <1>a, <2>4, <3>3
      <4> DEFINE last == chain[Len(chain)]
      <4>2. last \in DOMAIN schemas /\ chain[i] \in DOMAIN schemas BY <1>a, <4>1
      <4>3. schemas[last].predecessor = next /\ next # NoUid
        BY <1>b, <4>1
      <4>4. rank[next] < rank[last] BY <2>7, <4>2, <4>3 DEF Ranks
      <4>5. rank[last] <= rank[chain[i]] BY <1>2, <2>7, <4>1 DEF Falling
      <4>6. rank[next] \in Nat /\ rank[last] \in Nat /\ rank[chain[i]] \in Nat
        BY <1>4, <3>1, <4>2
      <4> HIDE DEF last, next
      <4>7. rank[next] <= rank[chain[i]] BY <4>4, <4>5, <4>6
      <4> QED BY <2>4, <4>1, <4>7
    <3> QED BY <3>2, <3>3
  <2>8. predecessor # NoUid => predecessor \notin ToSet(longer)
    <3> SUFFICES ASSUME predecessor # NoUid, predecessor \in ToSet(longer) PROVE FALSE
      OBVIOUS
    <3>1. PICK i \in 1 .. Len(longer) : longer[i] = predecessor
      BY <2>4 DEF ToSet
    <3>2. PICK rank \in [DOMAIN schemas -> 0..Cardinality(DOMAIN schemas)] :
            \A uid \in DOMAIN schemas :
              schemas[uid].predecessor # NoUid =>
                schemas[uid].predecessor \in DOMAIN schemas /\ rank[schemas[uid].predecessor] < rank[uid]
      BY DEF AttestInv, SchemaChainsEnd
    <3>3. Ranks(rank)
      <4>1. rank \in [DOMAIN schemas -> Nat]
        BY <3>2, FS_CardinalityType DEF AttestInv, MapsAreWellFormed
      <4> QED BY <3>2, <4>1 DEF Ranks
    <3>4. rank[next] <= rank[predecessor] BY <2>4, <2>7, <3>1, <3>3
    <3>5. rank[predecessor] < rank[next] /\ predecessor \in DOMAIN schemas BY <1>4, <3>2
    <3>6. rank[next] \in Nat /\ rank[predecessor] \in Nat
      BY <1>4, <3>3, <3>5 DEF Ranks
    <3> HIDE DEF predecessor, next
    <3> QED BY <3>4, <3>5, <3>6
  <2>9. Linked(longer) BY <2>4, <2>6 DEF Linked
  <2>10. ASSUME NEW end \in {"none", "Older schemas are not shown"}, Ends(end),
                end = "none" => predecessor = NoUid
         PROVE  WalkIsWhole'
    <3> DEFINE data == [chain |-> longer, end |-> end]
    <3>1. data.chain = longer /\ data.end = end /\ data # NoLookup
      BY <2>4 DEF NoLookup
    <3>2. LookupAnswers(data) BY <2>10
    <3> HIDE DEF data
    <3>3. DataIsWhole(data) BY <2>4, <2>9, <2>10, <3>1 DEF DataIsWhole
    <3> QED BY <1>1, <2>5, <3>1, <3>2, <3>3, AnswerIsTrue
  <2>11. ASSUME predecessor # NoUid, UNCHANGED <<lookupUid, card>>,
                lookup' = [lookup EXCEPT !.chain = longer, !.next = predecessor]
         PROVE  WalkIsWhole'
    <3> HIDE DEF predecessor
    <3>1. /\ lookup'.chain = longer /\ lookup'.next = predecessor /\ lookup'.reading
          /\ lookup'.uid = lookup.uid /\ lookup'.known = lookup.known /\ LookupIsRecord'
      BY <1>1, <1>c, <2>11 DEF LookupIsRecord
    <3>2. Linked(lookup.chain)' BY <1>1, <2>9, <3>1 DEF Linked
    <3>3. Falling(lookup.chain)' BY <1>r, <2>7, <3>1 DEF Falling
    <3>4. GoesOn' BY <1>1, <1>2, <2>4, <2>5, <2>11, <3>1 DEF GoesOn, predecessor
    <3>5. CardIsTrue' BY <1>1, <2>11, <3>1 DEF WalkIsWhole, CardIsTrue, DataIsWhole, Linked
    <3> QED BY <3>1, <3>2, <3>3, <3>4, <3>5 DEF WalkIsWhole
  <2> HIDE DEF predecessor, Ends
  <2>12. predecessor = NoUid \/ predecessor \in ToSet(longer) => predecessor = NoUid
    BY <2>8
  <2> QED BY <2>3, <2>10, <2>11, <2>12
<1> QED BY <1>3, <1>4

------------------------------------------------------------------------------

\* What the person and the answers do to a lookup.
LEMMA WalkStep ==
  ASSUME WalkIsWhole, UNCHANGED schemas,
         \/ UNCHANGED lookupVars
         \/ LookupFails \/ LeaveLookup \/ RefetchLookup
         \/ \E uid \in SchemaUids : HandleLookup(uid)
  PROVE  WalkIsWhole'
<1>r. \A rank : Ranks(rank)' <=> Ranks(rank) BY DEF Ranks
<1>d. card'.data = card.data => DataIsWhole(card.data)'
  BY DEF WalkIsWhole, CardIsTrue, DataIsWhole, Linked
<1>n. Linked(<<>>)' /\ Falling(<<>>)' BY DEF Linked, Falling
<1>1. ASSUME UNCHANGED <<lookup, card>>, lookupUid' \in {lookupUid, NoUid} PROVE WalkIsWhole'
  <2>1. Linked(lookup.chain)' BY <1>1 DEF WalkIsWhole, Linked
  <2>2. Falling(lookup.chain)' BY <1>1, <1>r DEF WalkIsWhole, Falling
  <2>3. GoesOn' BY <1>1 DEF WalkIsWhole, GoesOn
  <2>4. CardIsTrue' BY <1>1, <1>d DEF WalkIsWhole, CardIsTrue, CardIsOf
  <2> QED BY <1>1, <2>1, <2>2, <2>3, <2>4 DEF WalkIsWhole, LookupIsRecord
<1>2. CASE UNCHANGED lookupVars BY <1>1, <1>2 DEF lookupVars
<1>3. CASE LeaveLookup BY <1>1, <1>3 DEF LeaveLookup
<1>4. CASE LookupFails
  <2>1. /\ lookup' = [lookup EXCEPT !.reading = FALSE, !.chain = <<>>, !.next = NoUid]
        /\ card' = [card EXCEPT !.error = TRUE, !.fetching = FALSE, !.loaded = TRUE]
        /\ UNCHANGED lookupUid
    BY <1>4 DEF LookupFails, LookupSettles
  <2>2. /\ LookupIsRecord' /\ lookup'.uid = lookup.uid /\ lookup'.known = lookup.known
        /\ lookup'.chain = <<>> /\ ~lookup'.reading /\ card'.data = card.data /\ card'.error
    BY <2>1 DEF WalkIsWhole, LookupIsRecord
  <2>3. GoesOn' BY <2>1, <2>2 DEF WalkIsWhole, GoesOn
  <2>4. CardIsTrue' BY <1>d, <2>2 DEF CardIsTrue
  <2> QED BY <1>n, <2>2, <2>3, <2>4 DEF WalkIsWhole
<1>5. ASSUME NEW uid \in SchemaUids, lookup' = LookupOf(uid), lookupUid' = uid,
             card'.data = card.data, LookupIsRecord'
      PROVE  WalkIsWhole'
  <2>1. uid # NoUid BY NoUidAssumption DEF SchemaUids
  <2>2. /\ lookup'.uid = uid /\ lookup'.chain = <<>> /\ lookup'.next = uid
        /\ lookup'.reading /\ lookup'.known = (uid \in DOMAIN schemas)
    BY <1>5, <2>1 DEF LookupOf
  <2>3. GoesOn' BY <1>5, <2>2 DEF GoesOn
  <2>4. CardIsTrue' BY <1>5, <1>d, <2>2 DEF CardIsTrue
  <2> QED BY <1>5, <1>n, <2>2, <2>3, <2>4 DEF WalkIsWhole
<1>6. ASSUME NEW uid \in SchemaUids, HandleLookup(uid) PROVE WalkIsWhole'
  <2>1. LookupIsRecord' BY <1>6 DEF HandleLookup, LookupOf, WalkIsWhole, LookupIsRecord
  <2> QED BY <1>5, <1>6, <2>1 DEF HandleLookup
<1>7. CASE RefetchLookup
  <2>1. LookupIsRecord' /\ card'.data = card.data
    BY <1>7 DEF RefetchLookup, LookupOf, WalkIsWhole, LookupIsRecord
  <2>2. lookupUid \in SchemaUids
    BY <1>7 DEF RefetchLookup, WalkIsWhole, GoesOn
  <2> QED BY <1>5, <1>7, <2>1, <2>2 DEF RefetchLookup
<1> QED BY <1>2, <1>3, <1>4, <1>6, <1>7

\* What the card shows is then the whole history of a schema, or its newest part.
LEMMA WalksShowTheWhole == ASSUME WalkIsWhole PROVE LookupIsWhole
<1>1. DataIsWhole(card.data) /\ (lookupUid # NoUid => lookup.uid = lookupUid)
      /\ (~lookup.reading /\ ~card.error => CardIsOf(lookup.uid, lookup.known))
  BY DEF WalkIsWhole, CardIsTrue, GoesOn
<1>2. ASSUME DetailsShown
      PROVE  /\ card.data.end # "Not registered on this network"
             /\ \A i \in 1..(Len(card.data.chain) - 1) :
                  schemas[card.data.chain[i]].predecessor = card.data.chain[i + 1]
             /\ card.data.end = "none" => schemas[Last(card.data.chain)].predecessor = NoUid
  BY <1>1, <1>2 DEF DetailsShown, DataIsWhole, Linked, Last
<1>3. DetailsShown /\ ~lookup.reading /\ ~card.error => card.data.chain[1] = lookupUid
  BY <1>1 DEF DetailsShown, CardIsOf
<1>4. NoSchemaShown /\ ~lookup.reading => ~lookup.known
  BY <1>1 DEF NoSchemaShown, CardIsOf
<1> QED BY <1>2, <1>3, <1>4 DEF LookupIsWhole

------------------------------------------------------------------------------

\* A check as it goes on between two moves of the contract.
LEMMA CheckStep ==
  ASSUME ChecksAreCurrent, UNCHANGED attestVars,
         \/ UNCHANGED check
         \/ HandleClaimSubmit \/ ClaimRecordRead \/ ClaimVerified \/ ClaimReadFails
         \/ \E form \in Claims \cup {BadClaim} : UpdateClaim(form)
  PROVE  ChecksAreCurrent'
<1>h. \A claim : Holds(claim)' <=> Holds(claim)
  BY DEF Holds, VerifyAttestation, IsValid, attestVars
<1>b. \A claim : Holds(claim) = TRUE \/ Holds(claim) = FALSE
  BY HoldsIsBoolean
<1>c. CheckIsRecord /\ CheckOK(check.asked, check.step, check.answer, check.truths)
  BY DEF ChecksAreCurrent
<1>k. ASSUME CheckIsRecord', CheckOK(check'.asked, check'.step, check'.answer, check'.truths)
      PROVE  ChecksAreCurrent'
  BY <1>h, <1>k DEF ChecksAreCurrent, CheckOK
<1>1. CASE UNCHANGED check
  BY <1>1, <1>c, <1>k DEF CheckIsRecord
<1>2. CASE HandleClaimSubmit /\ ValidateClaim(check.form)
  <2>1. check' = [check EXCEPT !.step = "get", !.asked = check.form, !.errors = FALSE,
                               !.answer = "none", !.truths = {Holds(check.form)}]
    BY <1>2 DEF HandleClaimSubmit
  <2>2. /\ CheckIsRecord' /\ check'.step = "get" /\ check'.asked = check.form
        /\ check'.truths = {Holds(check.form)}
    BY <1>c, <2>1 DEF CheckIsRecord
  <2> QED BY <1>k, <2>2 DEF CheckOK
<1>3. CASE HandleClaimSubmit /\ ~ValidateClaim(check.form)
  <2>1. check' = [check EXCEPT !.errors = TRUE, !.answer = "none"] /\ ~Checking
    BY <1>3 DEF HandleClaimSubmit
  <2>2. CheckIsRecord' /\ check'.step = check.step /\ check'.answer = "none"
    BY <1>c, <2>1 DEF CheckIsRecord
  <2> QED BY <1>k, <2>1, <2>2 DEF CheckOK, Checking
<1>4. CASE ClaimRecordRead
  <2>1. check.step = "get" /\ Holds(check.asked) \in check.truths
    BY <1>4, <1>c DEF ClaimRecordRead, CheckOK
  <2>2. CASE check.asked.uid \in DOMAIN attestations
    <3>1. check' = [check EXCEPT !.step = "verify", !.record = attestations[check.asked.uid]]
      BY <1>4, <2>2 DEF ClaimRecordRead
    <3>2. /\ CheckIsRecord' /\ check'.step = "verify" /\ check'.asked = check.asked
          /\ check'.truths = check.truths
      BY <1>c, <3>1 DEF CheckIsRecord
    <3> QED BY <1>k, <2>1, <3>2 DEF CheckOK
  <2>3. CASE check.asked.uid \notin DOMAIN attestations
    <3>1. check' = [check EXCEPT !.step = "idle", !.answer = "No: no attestation"]
      BY <1>4, <2>3 DEF ClaimRecordRead
    <3>2. /\ CheckIsRecord' /\ check'.step = "idle" /\ check'.answer = "No: no attestation"
          /\ check'.truths = check.truths
      BY <1>c, <3>1 DEF CheckIsRecord
    <3>3. ~Holds(check.asked)
      BY <2>3 DEF Holds, VerifyAttestation, IsValid
    <3>4. FALSE \in check.truths
      BY <1>b, <2>1, <3>3
    <3> QED BY <1>k, <3>2, <3>4 DEF CheckOK
  <2> QED BY <2>2, <2>3
<1>5. CASE ClaimVerified
  <2> DEFINE answer == ClaimAnswer(check.record, check.asked)
  <2>1. check.step = "verify" /\ Holds(check.asked) \in check.truths
    BY <1>5, <1>c DEF ClaimVerified, CheckOK
  <2>2. check' = [check EXCEPT !.step = "idle", !.answer = answer]
    BY <1>5 DEF ClaimVerified
  <2>3. answer = "Yes" <=> Holds(check.asked)
    <3>1. CASE Holds(check.asked) BY <3>1 DEF ClaimAnswer
    <3>2. CASE ~Holds(check.asked)
      <4>1. answer = ReasonAgainst(check.record, check.asked) BY <3>2 DEF ClaimAnswer
      <4> QED BY <3>2, <4>1 DEF ReasonAgainst
    <3> QED BY <3>1, <3>2
  <2> HIDE DEF answer
  <2>4. /\ CheckIsRecord' /\ check'.step = "idle" /\ check'.answer = answer
        /\ check'.truths = check.truths
    BY <1>c, <2>2 DEF CheckIsRecord
  <2>5. IF answer = "Yes" THEN TRUE \in check.truths ELSE FALSE \in check.truths
    BY <1>b, <2>1, <2>3
  <2> QED BY <1>k, <2>4, <2>5 DEF CheckOK
<1>6. CASE ClaimReadFails
  <2>1. check' = [check EXCEPT !.step = "idle", !.answer = "Error"]
    BY <1>6 DEF ClaimReadFails
  <2>2. CheckIsRecord' /\ check'.step = "idle" /\ check'.answer = "Error"
    BY <1>c, <2>1 DEF CheckIsRecord
  <2> QED BY <1>k, <2>2 DEF CheckOK
<1>7. ASSUME NEW form \in Claims \cup {BadClaim}, UpdateClaim(form) PROVE ChecksAreCurrent'
  <2>1. check' = [check EXCEPT !.form = form]
    BY <1>7 DEF UpdateClaim
  <2>2. /\ CheckIsRecord' /\ check'.step = check.step /\ check'.answer = check.answer
        /\ check'.asked = check.asked /\ check'.truths = check.truths
    BY <1>c, <2>1 DEF CheckIsRecord
  <2> QED BY <1>c, <1>k, <2>2
<1> QED BY <1>1, <1>2, <1>3, <1>4, <1>5, <1>6, <1>7

\* A move of the contract is noted by a check that is under way.
LEMMA CheckSeesMove == ASSUME ChecksAreCurrent, ContractMoves PROVE ChecksAreCurrent'
<1>1. check' = IF Checking THEN [check EXCEPT !.truths = @ \cup {Holds(check.asked)'}] ELSE check
  BY DEF ContractMoves
<1>2. CheckIsRecord /\ CheckOK(check.asked, check.step, check.answer, check.truths)
  BY DEF ChecksAreCurrent
<1>3. CASE Checking
  <2>1. /\ CheckIsRecord' /\ check'.step = check.step /\ check'.asked = check.asked
        /\ check'.truths = check.truths \cup {Holds(check.asked)'}
    BY <1>1, <1>2, <1>3 DEF CheckIsRecord
  <2>2. Holds(check.asked)' \in check'.truths
    BY <2>1
  <2> QED BY <1>3, <2>1, <2>2 DEF Checking, ChecksAreCurrent, CheckOK
<1>4. CASE ~Checking
  <2>1. check' = check BY <1>1, <1>4
  <2> QED BY <1>2, <1>4, <2>1 DEF Checking, ChecksAreCurrent, CheckOK, CheckIsRecord
<1> QED BY <1>3, <1>4

LEMMA ClientsInvStep == ClientsInv /\ [ClientsNext]_allVars => ClientsInv'
<1> SUFFICES ASSUME AttestInv, ChecksAreCurrent, WalkIsWhole, [ClientsNext]_allVars
             PROVE  ClientsInv'
  BY DEF ClientsInv
<1>1. ASSUME UNCHANGED attestVars PROVE AttestInv' /\ UNCHANGED schemas
  BY <1>1 DEF attestVars, AttestInv, AttestTypeOK, MapsAreWellFormed, NoncesAreUsed, SchemaChainsEnd
<1>2. CASE UNCHANGED allVars
  <2>1. UNCHANGED attestVars /\ UNCHANGED check /\ UNCHANGED lookupVars
    BY <1>2 DEF allVars, clientVars
  <2> QED BY <1>1, <2>1, CheckStep, WalkStep DEF ClientsInv
<1>3. CASE ContractMoves
  <2>1. AttestInv' /\ OnlyRevoked /\ UNCHANGED lookupVars
    BY <1>3, AttestNextKeepsInv DEF ContractMoves
  <2> QED BY <1>3, <2>1, CheckSeesMove, SchemasStayWalked DEF ClientsInv
<1>4. CASE \/ HandleClaimSubmit \/ ClaimRecordRead \/ ClaimVerified \/ ClaimReadFails
           \/ \E form \in Claims \cup {BadClaim} : UpdateClaim(form)
  <2>1. UNCHANGED attestVars /\ UNCHANGED lookupVars
    BY <1>4 DEF HandleClaimSubmit, ClaimRecordRead, ClaimVerified, ClaimReadFails, UpdateClaim
  <2> QED BY <1>1, <1>4, <2>1, CheckStep, WalkStep DEF ClientsInv
<1>5. CASE SchemaRead
  <2>1. UNCHANGED attestVars /\ UNCHANGED check
    BY <1>5 DEF SchemaRead, LookupAnswers, LookupSettles
  <2> QED BY <1>1, <1>5, <2>1, CheckStep, ReadKeepsWalk DEF ClientsInv
<1>6. CASE \/ LookupFails \/ LeaveLookup \/ RefetchLookup
           \/ \E uid \in SchemaUids : HandleLookup(uid)
  <2>1. UNCHANGED attestVars /\ UNCHANGED check
    BY <1>6 DEF LookupFails, LookupSettles, LeaveLookup, RefetchLookup, HandleLookup
  <2> QED BY <1>1, <1>6, <2>1, CheckStep, WalkStep DEF ClientsInv
<1> QED BY <1>2, <1>3, <1>4, <1>5, <1>6 DEF ClientsNext

\* A check of a claim says Yes or No only of what was so at a moment of the check.
\* The lookup card shows whole histories, or says that it does not, and once its
\* newest read has succeeded the one it was asked for: whatever is registered,
\* attested, revoked or expires between the reads, and whichever reads fail.
THEOREM ClientsTellTheTruth == ClientsSpec => []ClientsAnswerTruly
<1>1. AttestInit /\ ClientsInit => ClientsInv
  BY ClientsInvInit
<1>2. ClientsInv => ClientsAnswerTruly
  <2> SUFFICES ASSUME ClientsInv PROVE ClaimAnswersHold /\ LookupIsWhole
    BY DEF ClientsAnswerTruly
  <2>1. LookupIsWhole BY WalksShowTheWhole DEF ClientsInv
  <2>2. ClaimAnswersHold
    BY DEF ClientsInv, ChecksAreCurrent, CheckOK, ClaimAnswersHold, ClaimShown, Checking
  <2> QED BY <2>1, <2>2
<1> QED BY <1>1, <1>2, ClientsInvStep, PTL DEF ClientsSpec
=============================================================================
