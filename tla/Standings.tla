------------------------------ MODULE Standings ------------------------------
(***************************************************************************)
(* The record of standings (contracts/record/src/lib.rs) and the registry  *)
(* that deploys programmes and makes each a writer of it                   *)
(* (contracts/registry/src/lib.rs).  A programme is here only who calls    *)
(* `credit`, as Programme's Release does; the n-th programme of the        *)
(* registry has the address n.  A hash chain is the sequence of what was   *)
(* folded into it.                                                         *)
(***************************************************************************)
EXTENDS Integers, FiniteSets, Sequences, Functions

CONSTANTS
  Registry,       \* the address of the registry
  Accounts,       \* people
  Recipients,     \* who has a standing
  CreditAmounts,  \* what a programme may be asked to credit
  Evidence,       \* the attestations that unlock a release
  MaxFeeBps, Fees,\* the registry's MAX_FEE_BPS, and the fees that the admin tries
  MaxProgrammes,  \* bound on the programmes deployed
  MaxCredits      \* bound on the credits

ASSUME RegistryAssumption == Registry \notin Accounts
ASSUME CreditsAssumption == CreditAmounts \subseteq Int

VARIABLES
  recordAdmin,    \* record: Key::Admin
  writers,        \* record: the addresses with a Key::Writer
  standings,      \* record: Key::Standing
  seenIn,         \* record: the pairs with a Key::Seen
  config,         \* registry: Key::Config, of it the admin and the fee
  deployed,       \* registry: of each programme the configuration it was given
  credits         \* the credits made, in order, with their writers

recordVars == <<recordAdmin, writers, standings, seenIn, credits>>
registryVars == <<config, deployed>>
standingsVars == <<recordVars, registryVars>>

\* Key::Nonce counts the programmes, and each of them has a Key::Programme.
Deployed == 1..Len(deployed)

\* The record is made for an admin: an account, or the registry that is about to be.
StandingsInit ==
  /\ recordAdmin \in Accounts \cup {Registry}
  /\ writers = {} /\ standings = <<>> /\ seenIn = {} /\ credits = <<>>
  /\ config \in [admin : Accounts, fee : {fee \in Fees : fee <= MaxFeeBps}]
  /\ deployed = <<>>

------------------------------------------------------------------------------
(* The record *)

MutMayAddWriter(caller) == caller \in {recordAdmin, config.admin}
MayAddWriter(caller) == caller = recordAdmin
AddWriter(caller, writer) ==
  /\ MayAddWriter(caller)
  /\ writer \notin writers
  /\ writers' = writers \cup {writer}

AdminAddsWriter(caller, writer) ==
  AddWriter(caller, writer) /\ UNCHANGED <<recordAdmin, standings, seenIn, credits, registryVars>>

RemoveWriter(caller, writer) ==
  /\ caller = recordAdmin
  /\ writer \in writers
  /\ writers' = writers \ {writer}
  /\ UNCHANGED <<recordAdmin, standings, seenIn, credits, registryVars>>

SetRecordAdmin(caller, admin) ==
  /\ caller = recordAdmin
  /\ recordAdmin' = admin
  /\ UNCHANGED <<writers, standings, seenIn, credits, registryVars>>

MutNewlySeen(subject, programme) == programme \notin {pair[2] : pair \in seenIn}
NewlySeen(subject, programme) == <<subject, programme>> \notin seenIn

NoStanding == [programmes |-> 0, tranches |-> 0, total |-> 0, root |-> <<>>]
StandingOf(subject) == IF subject \in DOMAIN standings THEN standings[subject] ELSE NoStanding

\* Who signs is the writer; the programme it names is up to it.
MayCredit(writer) == writer \in writers
Credit(writer, subject, programme, amount, attestation) ==
  LET standing == StandingOf(subject)
      credited ==
        [programmes |-> standing.programmes + (IF NewlySeen(subject, programme) THEN 1 ELSE 0),
         tranches |-> standing.tranches + 1,
         total |-> standing.total + amount,
         root |-> Append(standing.root, <<programme, amount, attestation>>)]
  IN /\ MayCredit(writer)
     /\ amount > 0
     /\ seenIn' = seenIn \cup {<<subject, programme>>}
     /\ standings' = [s \in DOMAIN standings \cup {subject} |->
                        IF s = subject THEN credited ELSE standings[s]]
     /\ Len(credits) < MaxCredits
     /\ credits' = Append(credits, [writer |-> writer, subject |-> subject,
                                    programme |-> programme, amount |-> amount,
                                    attestation |-> attestation])
     /\ UNCHANGED <<recordAdmin, writers, registryVars>>

------------------------------------------------------------------------------
(* The registry *)

\* The programme is given the configuration of this moment; if the record does
\* not take it as a writer, nothing of it is deployed.
CreateProgramme(creator) ==
  LET programme == Len(deployed) + 1
  IN /\ Len(deployed) < MaxProgrammes
     /\ deployed' = Append(deployed, [creator |-> creator, fee |-> config.fee])
     /\ AddWriter(Registry, programme)
     /\ UNCHANGED <<recordAdmin, standings, seenIn, credits, config>>

FeeAllowed(fee) == fee <= MaxFeeBps
SetFee(caller, fee) ==
  /\ FeeAllowed(fee)
  /\ caller = config.admin
  /\ config' = [config EXCEPT !.fee = fee]
  /\ UNCHANGED <<recordVars, deployed>>

SetRegistryAdmin(caller, admin) ==
  /\ caller = config.admin
  /\ config' = [config EXCEPT !.admin = admin]
  /\ UNCHANGED <<recordVars, deployed>>

------------------------------------------------------------------------------

\* The registry is nobody's key: it calls the record in create alone.  The address
\* that a programme will have is known before.
StandingsNext ==
  \/ \E caller \in Accounts, writer \in Accounts \cup 1..MaxProgrammes :
       AdminAddsWriter(caller, writer) \/ RemoveWriter(caller, writer)
  \/ \E caller \in Accounts, admin \in Accounts \cup {Registry} :
       SetRecordAdmin(caller, admin) \/ SetRegistryAdmin(caller, admin)
  \/ \E caller \in Accounts, fee \in Fees : SetFee(caller, fee)
  \/ \E creator \in Accounts : CreateProgramme(creator)
  \/ \E programme \in Deployed, subject \in Recipients, amount \in CreditAmounts, a \in Evidence :
       Credit(programme, subject, programme, amount, a)
  \/ \E writer \in Accounts, programme \in Deployed, subject \in Recipients,
        amount \in CreditAmounts, a \in Evidence :
       Credit(writer, subject, programme, amount, a)

StandingsSpec == StandingsInit /\ [][StandingsNext]_standingsVars

------------------------------------------------------------------------------
(* Properties *)

\* What is stored is well formed.
StandingsTypeOK ==
  /\ recordAdmin \in Accounts \cup {Registry}
  /\ writers \subseteq Accounts \cup Nat
  /\ config \in [admin : Accounts \cup {Registry}, fee : Nat] /\ config.fee <= MaxFeeBps
  /\ deployed \in Seq([creator : Accounts, fee : Nat])

\* A standing is what the credits of its subject add up to, each counted once and
\* folded in the order in which they were made, and a programme once however
\* many writers name it.
CreditsOf(subject) == {i \in DOMAIN credits : credits[i].subject = subject}
StandingsAddUp ==
  \A subject \in Recipients :
    LET own == CreditsOf(subject)
        standing == StandingOf(subject)
    IN /\ standing.programmes = Cardinality({credits[i].programme : i \in own})
       /\ standing.tranches = Cardinality(own)
       /\ standing.total = SumFunction([i \in own |-> credits[i].amount])
       /\ Len(standing.root) = Cardinality(own)
       /\ \A i \in own :
            standing.root[Cardinality({j \in own : j <= i})]
              = <<credits[i].programme, credits[i].amount, credits[i].attestation>>

\* Once the registry governs the record it does so for ever, and from then on who
\* becomes a writer is what it deploys at that moment, and nobody else.
OnlyProgrammesJoin ==
  recordAdmin = Registry =>
    /\ recordAdmin' = Registry
    /\ writers \subseteq writers'
    /\ writers' \ writers = Deployed' \ Deployed
GovernedByRegistry == [][OnlyProgrammesJoin]_standingsVars
=============================================================================
