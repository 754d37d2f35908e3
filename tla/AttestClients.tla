---------------------------- MODULE AttestClients ----------------------------
(***************************************************************************)
(* Who reads the attest contract while it changes: the check of a claim    *)
(* (frontend/src/lib/attestationVerify.ts, the second tab of               *)
(* pages/AttestationLookup.tsx) and the walk along the predecessors of a   *)
(* schema (lib/schemaLookup.ts, the lookup of pages/RegisterSchema.tsx).   *)
(* Both make several reads, and the contract may change between them. The  *)
(* lookup is asked through hooks/useIndexedList.ts, which keeps what it    *)
(* read until a newer read succeeds: the card goes on showing a schema     *)
(* while another is read, and beside the error when that read fails.       *)
(***************************************************************************)
EXTENDS Attest, Sequences, SequencesExt

CONSTANTS
  Claims,         \* what is asked: [uid, subject, schema, attester]
  BadClaim,       \* a form with a field that is empty or malformed
  NoClaim,        \* the empty form
  NoRecord,       \* no attestation
  WALK_DEPTH,     \* the schemas that one lookup reads: 10 in the code
  MaxChecks       \* bound on the checks and lookups started

VARIABLES
  check,          \* the claim's form, the check under way and its answer
  lookupUid,      \* the schema in the page's address, ?schema=, or none
  lookup,         \* the newest read: the schema it is of, and how far it is
  card,           \* what the hook holds: data, error, fetching, loaded
  started         \* the checks and lookups started so far

lookupVars == <<lookupUid, lookup, card>>
clientVars == <<check, lookupVars, started>>

\* `truths` are the answers that `verify` would have given while the check was
\* under way; the code does not know them.
CheckInit ==
  check = [form |-> NoClaim, step |-> "idle", asked |-> NoClaim, record |-> NoRecord,
           answer |-> "none", errors |-> FALSE, truths |-> {}]

\* No data: nothing was read yet, or there is no such schema.
NoLookup == [chain |-> <<>>, end |-> "none"]

\* `known` says whether the schema was registered when its read began; the code
\* does not know it. A read that was overtaken is dropped whatever it answers.
LookupOf(uid) ==
  [uid |-> uid, chain |-> <<>>, next |-> uid, reading |-> uid # NoUid,
   known |-> uid \in DOMAIN schemas]
LookupInit ==
  /\ lookup = LookupOf(lookupUid)
  /\ card = [data |-> NoLookup, error |-> FALSE, fetching |-> lookupUid # NoUid, loaded |-> FALSE]
ClientsInit ==
  lookupUid \in SchemaUids \cup {NoUid} /\ CheckInit /\ LookupInit /\ started = 0

------------------------------------------------------------------------------
(* The check of a claim *)

Holds(claim) == VerifyAttestation(claim.uid, claim.subject, claim.schema, claim.attester)
Checking == check.step \in {"get", "verify"}

\* The fields stay editable during a check.
UpdateClaim(form) ==
  /\ check.form # form
  /\ check' = [check EXCEPT !.form = form]
  /\ UNCHANGED <<attestVars, lookupVars, started>>

ValidateClaim(form) == form \notin {BadClaim, NoClaim}

HandleClaimSubmit ==
  /\ ~Checking
  /\ IF ValidateClaim(check.form)
     THEN /\ started < MaxChecks /\ started' = started + 1
          /\ check' = [check EXCEPT !.step = "get", !.asked = check.form, !.errors = FALSE,
                                    !.answer = "none", !.truths = {Holds(check.form)}]
     ELSE /\ check' = [check EXCEPT !.errors = TRUE, !.answer = "none"]
          /\ UNCHANGED started
  /\ UNCHANGED <<attestVars, lookupVars>>

\* get, whose refusal answers the check at once.
ClaimRecordRead ==
  /\ check.step = "get"
  /\ check' = IF check.asked.uid \in DOMAIN attestations
              THEN [check EXCEPT !.step = "verify", !.record = attestations[check.asked.uid]]
              ELSE [check EXCEPT !.step = "idle", !.answer = "No: no attestation"]
  /\ UNCHANGED <<attestVars, lookupVars, started>>

\* Why not: the first thing about the record, as it was read, that is amiss.
ReasonAgainst(record, claim) ==
  IF record.revoked # Never THEN "No: revoked"
  ELSE IF record.subject # claim.subject THEN "No: another subject"
  ELSE IF record.schema # claim.schema THEN "No: another schema"
  ELSE IF record.attester # claim.attester THEN "No: another attester"
  ELSE IF record.expires # Never THEN "No: expired" ELSE "No"

\* verify is what counts.
MutClaimAnswer(record, claim) ==
  IF ReasonAgainst(record, claim) \in {"No: expired", "No"} THEN "Yes"
  ELSE ReasonAgainst(record, claim)
ClaimAnswer(record, claim) == IF Holds(claim) THEN "Yes" ELSE ReasonAgainst(record, claim)

ClaimVerified ==
  /\ check.step = "verify"
  /\ check' = [check EXCEPT !.step = "idle", !.answer = ClaimAnswer(check.record, check.asked)]
  /\ UNCHANGED <<attestVars, lookupVars, started>>

\* Neither read says anything of the attestation when it fails.
ClaimReadFails ==
  /\ Checking
  /\ check' = [check EXCEPT !.step = "idle", !.answer = "Error"]
  /\ UNCHANGED <<attestVars, lookupVars, started>>

\* The answer below the form, which may have been edited since it was asked.
ClaimShown == IF Checking THEN "Checking" ELSE check.answer

------------------------------------------------------------------------------
(* The walk along predecessors *)

\* Another schema is read at once; what the card holds stays until it answers.
HandleLookup(uid) ==
  /\ uid # lookupUid
  /\ started < MaxChecks /\ started' = started + 1
  /\ lookupUid' = uid /\ lookup' = LookupOf(uid)
  /\ UNCHANGED <<attestVars, check, card>>

\* The page without ?schema= shows nothing, and the read goes on.
LeaveLookup ==
  /\ lookupUid # NoUid /\ lookupUid' = NoUid
  /\ UNCHANGED <<attestVars, check, lookup, card, started>>

\* Retry, below the error.
RefetchLookup ==
  /\ lookupUid # NoUid /\ card.error
  /\ started < MaxChecks /\ started' = started + 1
  /\ lookup' = LookupOf(lookupUid)
  /\ card' = [card EXCEPT !.fetching = TRUE, !.error = FALSE]
  /\ UNCHANGED <<attestVars, check, lookupUid>>

MutLookupData(data) == IF data = NoLookup THEN card.data ELSE data
LookupData(data) == data

\* The newest read ends. A failure leaves the data as it was.
LookupSettles ==
  /\ lookup' = [lookup EXCEPT !.reading = FALSE, !.chain = <<>>, !.next = NoUid]
  /\ UNCHANGED <<attestVars, check, lookupUid, started>>
LookupAnswers(data) ==
  /\ card' = [data |-> LookupData(data), error |-> FALSE, fetching |-> FALSE, loaded |-> TRUE]
  /\ LookupSettles
LookupFails ==
  /\ lookup.reading
  /\ card' = [card EXCEPT !.error = TRUE, !.fetching = FALSE, !.loaded = TRUE]
  /\ LookupSettles

\* A schema that is not registered is null; another failure ends the walk.
LookupSchema(uid) == IF uid \in DOMAIN schemas THEN {schemas[uid]} ELSE {}

\* The next schema of the walk, or that it is not registered.
SchemaRead ==
  /\ lookup.reading
  /\ \/ /\ LookupSchema(lookup.next) = {}
        /\ LookupAnswers(IF lookup.chain = <<>> THEN NoLookup
                         ELSE [chain |-> lookup.chain, end |-> "Not registered on this network"])
     \/ \E schema \in LookupSchema(lookup.next) :
          LET chain == Append(lookup.chain, lookup.next)
          IN \/ /\ schema.predecessor = NoUid \/ schema.predecessor \in ToSet(chain)
                /\ LookupAnswers([chain |-> chain, end |-> "none"])
             \/ /\ schema.predecessor # NoUid /\ schema.predecessor \notin ToSet(chain)
                /\ Len(chain) >= WALK_DEPTH
                /\ LookupAnswers([chain |-> chain, end |-> "Older schemas are not shown"])
             \/ /\ schema.predecessor # NoUid /\ schema.predecessor \notin ToSet(chain)
                /\ Len(chain) < WALK_DEPTH
                /\ lookup' = [lookup EXCEPT !.chain = chain, !.next = schema.predecessor]
                /\ UNCHANGED <<attestVars, check, lookupUid, card, started>>

\* What the card shows below the form: the details of a schema with its
\* "Replacement history", or that there is no schema with that UID.
LookupLoading == ~card.loaded /\ card.fetching
DetailsShown == lookupUid # NoUid /\ card.data # NoLookup
NoSchemaShown == lookupUid # NoUid /\ ~LookupLoading /\ ~card.error /\ card.data = NoLookup

------------------------------------------------------------------------------

ContractMoves ==
  /\ AttestNext
  /\ \E claim \in {check.asked} :
       check' = IF Checking THEN [check EXCEPT !.truths = @ \cup {Holds(claim)'}] ELSE check
  /\ UNCHANGED <<lookupVars, started>>

ClientsNext ==
  \/ ContractMoves
  \/ HandleClaimSubmit \/ ClaimRecordRead \/ ClaimVerified \/ ClaimReadFails
  \/ SchemaRead \/ LookupFails \/ LeaveLookup \/ RefetchLookup
  \/ \E form \in Claims \cup {BadClaim} : UpdateClaim(form)
  \/ \E uid \in SchemaUids : HandleLookup(uid)

------------------------------------------------------------------------------
(* Properties *)

\* A check says Yes of a claim only if it held at some moment of the check, and
\* No only if at some moment it did not, whatever was attested, revoked or
\* expired between its two reads.
ClaimAnswersHold ==
  /\ ClaimShown = "Yes" => TRUE \in check.truths
  /\ ClaimShown \notin {"Checking", "Yes", "Error", "none"} => FALSE \in check.truths

\* The details on the card are the whole history of the schema they are of, or
\* its newest part and say so; no predecessor is ever missing, or met twice. While
\* another schema is read they are still of the one before, and beside an error
\* they may be: only once the newest read has succeeded are they of the schema in
\* the page's address. "No schema with that UID" is then said only of a schema
\* that was not registered when its read began; before that it may be said of any.
LookupIsWhole ==
  /\ DetailsShown =>
       LET whole == card.data.chain
       IN /\ card.data.end # "Not registered on this network"
          /\ \A i \in 1..(Len(whole) - 1) : schemas[whole[i]].predecessor = whole[i + 1]
          /\ card.data.end = "none" => schemas[Last(whole)].predecessor = NoUid
  /\ DetailsShown /\ ~lookup.reading /\ ~card.error => card.data.chain[1] = lookupUid
  /\ NoSchemaShown /\ ~lookup.reading => ~lookup.known
ClientsAnswerTruly == ClaimAnswersHold /\ LookupIsWhole
=============================================================================
