-------------------------- MODULE AttestationScreen --------------------------
(***************************************************************************)
(* The public pages about attestations: looking one up                     *)
(* (frontend/src/pages/AttestationLookup.tsx, searches of                  *)
(* lib/attestationSearch.ts), and registering a schema                     *)
(* (pages/RegisterSchema.tsx).  Each is a screen of its own.               *)
(***************************************************************************)
EXTENDS Screen

CONSTANTS
  Samples,        \* ids of sample attestations
  Found,          \* of each address: the ids that recent events name it in
  Definitions     \* a name and fields that make a schema

------------------------------------------------------------------------------
(* Looking up *)

NoSearch == [of |-> NoAddress, list |-> {}]

\* `chain` is what `attest.get` said last and of which id, `found` the last
\* search and of which address, `spent` what the programme said of each id.
LookupInit ==
  screen = [is |-> "lookup", mode |-> "id", query |-> NoAddress, searched |-> NoAddress,
            chain |-> NoAddress, found |-> NoSearch, programme |-> NoAddress, spent |-> NoAddress]
AtLookup == screen.is = "lookup"

\* What was searched for is an id, an address, or something to look for among
\* the samples.
IsHex64 == screen.searched \in Uids
IsSearchable == screen.searched \in Payees

LookupTab(mode) ==
  /\ AtLookup /\ screen.mode # mode /\ Show([screen EXCEPT !.mode = mode])
EditQuery(text) ==
  /\ AtLookup /\ screen.mode = "id" /\ screen.query # text
  /\ Show([screen EXCEPT !.query = text])
SubmitQuery ==
  /\ AtLookup /\ screen.mode = "id" /\ screen.searched # screen.query
  /\ Show([screen EXCEPT !.searched = screen.query])

\* "Look up this id" on a hit, and the samples that the page offers.
MatchesShown == IF IsSearchable /\ screen.found.of = screen.searched THEN screen.found.list ELSE {}
Pick(uid) ==
  /\ AtLookup /\ screen.mode = "id" /\ uid \in Samples \cup MatchesShown
  /\ Show([screen EXCEPT !.query = uid, !.searched = uid])

\* get answers for the id of now: the card of the last one stays until then.
AttestationRead ==
  /\ AtLookup /\ IsHex64 /\ screen.chain # screen.searched
  /\ Show([screen EXCEPT !.chain = screen.searched])
ChainCard == IF IsHex64 THEN screen.chain ELSE NoAddress

\* The search pages through the events that the RPC still has, keeps those that
\* name the address as subject or attester, and reads each attestation again;
\* a part of the window may be missing.
SearchAttestations ==
  /\ AtLookup /\ IsSearchable /\ screen.found.of # screen.searched
  /\ \E truncated \in SUBSET Found[screen.searched] :
       Show([screen EXCEPT !.found = [of |-> screen.searched,
                                      list |-> Found[screen.searched] \ truncated]])

SampleHits == IF IsHex64 \/ IsSearchable THEN {} ELSE {screen.searched} \cap Samples

\* The programme that is asked whether a proof was used.
SelectProgramme(text) ==
  /\ AtLookup /\ text # screen.programme /\ text # Malformed
  /\ Show([screen EXCEPT !.programme = text])
SpentAnswers ==
  /\ AtLookup /\ screen.programme # NoAddress /\ SampleHits \cup MatchesShown # {}
  /\ screen.spent # screen.programme
  /\ Show([screen EXCEPT !.spent = screen.programme])

LookupNext ==
  \/ SubmitQuery \/ AttestationRead \/ SearchAttestations \/ SpentAnswers
  \/ \E mode \in {"id", "claim"} : LookupTab(mode)
  \/ \E text \in Uids \cup Payees \cup {Malformed} : EditQuery(text)
  \/ \E uid \in Uids \cup Samples : Pick(uid)
  \/ \E p \in Programmes \cup {Malformed, NoAddress} : SelectProgramme(p)

------------------------------------------------------------------------------
(* Registering a schema *)

RegisterInit ==
  screen = [is |-> "register", definition |-> NoAddress, predecessor |-> NoAddress,
            tx |-> IdleTx, result |-> Nothing, session |-> {}]
AtRegister == screen.is = "register"

SchemaValid ==
  screen.definition \in Definitions /\ screen.predecessor # Malformed /\ me # NoAddress

EditSchema ==
  /\ AtRegister
  /\ \/ \E text \in Definitions \cup {Malformed} : Show([screen EXCEPT !.definition = text])
     \/ \E text \in Uids \cup {Malformed, NoAddress} : Show([screen EXCEPT !.predecessor = text])

\* The definition is made before the wallet is asked; the row that is listed
\* afterwards has the name as it was then.
RegisterCall ==
  [do |-> "register", authority |-> me, definition |-> screen.definition,
   predecessor |-> screen.predecessor]
HandleRegister ==
  /\ AtRegister /\ SchemaValid /\ ~Busy(screen.tx) /\ Click
  /\ screen' = [screen EXCEPT !.tx = SendOn(@, RegisterCall),
                              !.result = IF screen.tx.inFlight THEN @ ELSE Nothing]
  /\ UNCHANGED <<me, ledger>>

\* register_schema is given an authority and a text it has not seen.
RegisterAccepted(call) ==
  \A i \in DOMAIN ledger :
    <<ledger[i].authority, ledger[i].definition>> # <<call.authority, call.definition>>

\* The row of "Registered in this browser".
SchemaRow(call) == call

RegisterSettled(outcome) ==
  /\ AtRegister /\ screen.tx.inFlight
  /\ Applied(outcome) => RegisterAccepted(screen.tx.call)
  /\ screen' = IF outcome = "success"
       THEN [screen EXCEPT !.tx = Settled(@, outcome), !.result = screen.tx.call,
                           !.session = @ \cup {SchemaRow(screen.tx.call)}]
       ELSE [screen EXCEPT !.tx = Settled(@, outcome)]
  /\ Record(screen.tx.call, outcome)
  /\ UNCHANGED <<me, clicks>>

RegisterAnother ==
  /\ AtRegister /\ screen.result # Nothing
  /\ Show([screen EXCEPT !.tx = ResetOn(@), !.result = Nothing,
                         !.definition = NoAddress, !.predecessor = NoAddress])

RegisterNext ==
  \/ EditSchema \/ HandleRegister \/ RegisterAnother
  \/ \E outcome \in Outcomes : RegisterSettled(outcome)

RegisterDone == screen.session
=============================================================================
