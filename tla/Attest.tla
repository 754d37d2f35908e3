------------------------------- MODULE Attest -------------------------------
(***************************************************************************)
(* The registry of schemas and attestations (contracts/attest/src/lib.rs). *)
(*                                                                         *)
(* A uid is the hash of what it names, and here that tuple itself: equal   *)
(* uids name equal things.  What is refused changes nothing, except that   *)
(* the entries that were read live longer; archival is not modelled.       *)
(***************************************************************************)
EXTENDS Naturals, FiniteSets

CONSTANTS
  Authorities,    \* accounts that register schemas and attest
  Definitions,    \* texts of schemas
  Subjects,       \* who an attestation is about
  CYCLE_DEPTH,    \* how far the walk along predecessors goes: 64 in the code
  NoUid, Never,   \* None, of a predecessor and of a time
  MaxSchemas,     \* bound on the schemas registered
  MaxNonce,       \* bound on the attestations made
  MaxTime         \* bound on the clock

ASSUME DepthAssumption == CYCLE_DEPTH \in Nat
ASSUME NoUidAssumption == NoUid \notin Authorities \X Definitions

VARIABLES
  schemas,        \* Key::Schema
  attestations,   \* Key::Attestation
  attested,       \* Key::Nonce
  now             \* the time of the ledger

attestVars == <<schemas, attestations, attested, now>>

SchemaUids == Authorities \X Definitions
Schema == [authority : Authorities, revocable : BOOLEAN, restricted : BOOLEAN,
           predecessor : SchemaUids \cup {NoUid}]

AttestInit ==
  schemas = <<>> /\ attestations = <<>> /\ attested = 0 /\ now = 0

\* The walk from a predecessor: it ends well at a schema without one, and also
\* when it has looked at CYCLE_DEPTH of them.
CheckCycle(start, target) ==
  LET walk[left \in 0..CYCLE_DEPTH, current \in DOMAIN schemas] ==
        left # 0 =>
          /\ current # target
          /\ schemas[current].predecessor # NoUid =>
               /\ schemas[current].predecessor \in DOMAIN schemas
               /\ walk[left - 1, schemas[current].predecessor]
  IN walk[CYCLE_DEPTH, start]

\* What is already registered stays as it is.
MutIsNew(uid) == TRUE
IsNew(uid) == uid \notin DOMAIN schemas

RegisterSchema(authority, definition, revocable, restricted, predecessor) ==
  LET uid == <<authority, definition>>
  IN /\ predecessor # NoUid =>
          /\ predecessor \in DOMAIN schemas
          /\ schemas[predecessor].authority = authority
          /\ CheckCycle(predecessor, uid)
     /\ IsNew(uid)
     /\ Cardinality(DOMAIN schemas) < MaxSchemas
     /\ schemas' = [u \in DOMAIN schemas \cup {uid} |->
                      IF u = uid THEN [authority |-> authority, revocable |-> revocable,
                                       restricted |-> restricted, predecessor |-> predecessor]
                      ELSE schemas[u]]
     /\ UNCHANGED <<attestations, attested, now>>

\* The nonce makes a second claim of the same a second attestation.
MakeAttestation(attester, schema, subject, expires) ==
  LET uid == <<schema, attester, subject, attested>>
  IN /\ schema \in DOMAIN schemas
     /\ schemas[schema].restricted => schemas[schema].authority = attester
     /\ expires # Never => expires > now
     /\ attested < MaxNonce
     /\ attested' = attested + 1
     /\ attestations' = [u \in DOMAIN attestations \cup {uid} |->
                           IF u = uid THEN [schema |-> schema, attester |-> attester,
                                            subject |-> subject, expires |-> expires,
                                            revoked |-> Never]
                           ELSE attestations[u]]
     /\ UNCHANGED <<schemas, now>>

RevokeAttestation(attester, uid) ==
  /\ uid \in DOMAIN attestations
  /\ attestations[uid].attester = attester
  /\ attestations[uid].revoked = Never
  /\ schemas[attestations[uid].schema].revocable
  /\ attestations' = [attestations EXCEPT ![uid].revoked = now]
  /\ UNCHANGED <<schemas, attested, now>>

Tick == now < MaxTime /\ now' = now + 1 /\ UNCHANGED <<schemas, attestations, attested>>

IsValid(uid) ==
  /\ uid \in DOMAIN attestations
  /\ attestations[uid].revoked = Never
  /\ attestations[uid].expires # Never => attestations[uid].expires > now
VerifyAttestation(uid, subject, schema, attester) ==
  /\ IsValid(uid)
  /\ attestations[uid].subject = subject
  /\ attestations[uid].schema = schema
  /\ attestations[uid].attester = attester

AttestNext ==
  \/ Tick
  \/ \E authority \in Authorities, definition \in Definitions, revocable, restricted \in BOOLEAN,
        predecessor \in SchemaUids \cup {NoUid} :
       RegisterSchema(authority, definition, revocable, restricted, predecessor)
  \/ \E attester \in Authorities, schema \in DOMAIN schemas, subject \in Subjects,
        expires \in 1..MaxTime \cup {Never} :
       MakeAttestation(attester, schema, subject, expires)
  \/ \E attester \in Authorities, uid \in DOMAIN attestations : RevokeAttestation(attester, uid)

AttestSpec == AttestInit /\ [][AttestNext]_attestVars

------------------------------------------------------------------------------
(* Properties *)

\* What is stored is well formed, and what an attestation and a predecessor refer
\* to is there.
AttestTypeOK ==
  /\ \E registered \in SUBSET SchemaUids : schemas \in [registered -> Schema]
  /\ \A uid \in DOMAIN schemas :
       schemas[uid].predecessor # NoUid => schemas[uid].predecessor \in DOMAIN schemas
  /\ \A uid \in DOMAIN attestations : attestations[uid].schema \in DOMAIN schemas
  /\ attested \in Nat

\* The predecessors of a schema lead to an original one: they can be numbered so
\* that each has a smaller number than its successor.  The contract refuses
\* cycles by a walk that gives up after CYCLE_DEPTH steps; that longer chains
\* have none either is due to no schema being registered twice.
SchemaChainsEnd ==
  \E rank \in [DOMAIN schemas -> 0..Cardinality(DOMAIN schemas)] :
    \A uid \in DOMAIN schemas :
      LET predecessor == schemas[uid].predecessor
      IN predecessor # NoUid => predecessor \in DOMAIN schemas /\ rank[predecessor] < rank[uid]

\* A revocation is final, and nothing else of a schema or of an attestation ever
\* changes: what a consumer has looked at is what it was.
OnlyRevoked ==
  /\ \A uid \in DOMAIN schemas : uid \in DOMAIN schemas' /\ schemas'[uid] = schemas[uid]
  /\ \A uid \in DOMAIN attestations :
       /\ uid \in DOMAIN attestations'
       /\ \/ attestations'[uid] = attestations[uid]
          \/ /\ attestations[uid].revoked = Never
             /\ schemas[attestations[uid].schema].revocable
             /\ attestations'[uid] = [attestations[uid] EXCEPT !.revoked = now]
HistoryIsKept == [][OnlyRevoked]_attestVars
=============================================================================
