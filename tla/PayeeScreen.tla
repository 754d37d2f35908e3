---------------------------- MODULE PayeeScreen ----------------------------
(***************************************************************************)
(* Payee management (frontend/src/pages/PayeeManagement.tsx, payeeBulk.ts): *)
(* the creator verifies and removes payees one by one or in batches.  The   *)
(* contract keeps no list, so the page lists what it remembers.             *)
(***************************************************************************)
EXTENDS Screen

CONSTANTS
  MAX_PAYEE_BATCH,
  BulkTexts          \* texts of the bulk field: sequences of lines

NoResults == <<"none">>
NoRun ==
  [active |-> FALSE, mode |-> "verify", batches |-> <<>>, done |-> 0, landed |-> {}, from |-> 0]

PayeeScreenInit ==
  screen = [is |-> "payees", config |-> "none", sample |-> FALSE,
            verified |-> {}, candidates |-> {}, status |-> [p \in Payees |-> "checking"],
            check |-> [input |-> NoAddress, result |-> Nothing, asking |-> {}],
            address |-> NoAddress, tx |-> IdleTx, session |-> {},
            mode |-> "verify", text |-> <<>>, results |-> NoResults, checking |-> {},
            bulkTx |-> IdleTx, run |-> NoRun, progress |-> <<>>, said |-> Nothing]

AtPayees == screen.is = "payees"

------------------------------------------------------------------------------
(* The programme and what may be done to it *)

IsCreator == me = Creator /\ screen.config = "read"

\* What the page shows: everything else needs the programme's configuration.
PayeePanel ==
  CASE screen.config = "none" -> "choose a programme"
    [] screen.config = "failed" -> "error"
    [] screen.config = "reading" -> "reading"
    [] OTHER -> "programme"

\* Only a sample programme comes with candidates.  A behaviour is about one
\* programme.
LoadCandidates(sample) == IF sample THEN Payees ELSE {}
HandleLookupProgramme ==
  /\ AtPayees /\ PayeePanel = "choose a programme"
  /\ \E sample \in BOOLEAN :
       Show([screen EXCEPT !.config = "reading", !.sample = sample,
                           !.candidates = LoadCandidates(sample)])
ConfigRead ==
  /\ AtPayees
  /\ \/ PayeePanel = "reading" /\ \E end \in {"read", "failed"} : Show([screen EXCEPT !.config = end])
     \/ PayeePanel = "error" /\ Show([screen EXCEPT !.config = "reading"])

\* The candidates' is_payee, all awaited together and merged into the statuses.
StatusesRead ==
  /\ AtPayees /\ screen.candidates # {}
  /\ \E failed \in SUBSET screen.candidates :
       Show([screen EXCEPT !.status = [p \in Payees |->
         IF p \notin screen.candidates THEN @[p]
         ELSE IF p \in failed THEN "error"
         ELSE IF p \in screen.verified THEN "verified" ELSE "unverified"]])

\* "Check address" is offered for any text; the answer keeps its address.
CheckOffered == PayeePanel = "programme" /\ screen.check.input # NoAddress /\ screen.check.asking = {}
TypeCheck(text) == AtPayees /\ Show([screen EXCEPT !.check.input = text])
HandleCheckAddress ==
  /\ AtPayees
  /\ \/ /\ CheckOffered /\ IsAddress(screen.check.input)
        /\ Show([screen EXCEPT !.check.asking = {screen.check.input}])
     \/ \E p \in screen.check.asking, answered \in BOOLEAN :
          Show([screen EXCEPT !.check.asking = {}, !.check.result =
            IF answered THEN [address |-> p, verified |-> p \in screen.verified] ELSE @])

------------------------------------------------------------------------------
(* One payee *)

TypeAddress(text) == AtPayees /\ Show([screen EXCEPT !.address = text])

CanSubmit == IsCreator /\ IsAddress(screen.address)
VerifyOffered == PayeePanel = "programme" /\ CanSubmit /\ ~Busy(screen.tx)

\* Both calls take along what the address field says, for their onSuccess.
HandleVerify ==
  /\ AtPayees /\ VerifyOffered /\ Click
  /\ screen' = [screen EXCEPT !.tx = SendOn(@, [do |-> "allow", payee |-> screen.address,
                                                field |-> screen.address])]
  /\ UNCHANGED <<me, ledger>>

\* "Remove", on a candidate whose status is verified or on an address added in
\* this session.
Removable ==
  IF ~IsCreator \/ Busy(screen.tx) THEN {}
  ELSE IF screen.sample THEN {p \in screen.candidates \cap Payees : screen.status[p] = "verified"}
  ELSE {c.address : c \in {d \in screen.session : d.action = "added"}}

HandleRevoke ==
  /\ AtPayees /\ Click
  /\ \E p \in Removable :
       screen' = [screen EXCEPT !.tx = SendOn(@, [do |-> "deny", payee |-> p,
                                                  field |-> screen.address])]
  /\ UNCHANGED <<me, ledger>>

Remember(candidates, p) == candidates \cup {p}

\* The session's list: a change takes the place of what was listed of its address.
Listed(session, changed, action) ==
  {[address |-> p, action |-> action] : p \in changed} \cup {c \in session : c.address \notin changed}

MutOnSuccess(s, call) ==
  [s EXCEPT !.address = NoAddress, !.candidates = Remember(@, s.address),
            !.session = Listed(@, {s.address}, "added")]

\* One onSuccess serves both: it lists the address field as it was at the click
\* as added, also after a removal, and clears the field.
OnSuccess(s, call) ==
  [s EXCEPT !.address = NoAddress, !.candidates = Remember(@, call.field),
            !.session = Listed(@, {call.field}, "added")]

PayeeSettled(outcome) ==
  /\ AtPayees /\ screen.tx.inFlight
  /\ LET call == screen.tx.call
         settled == [screen EXCEPT !.tx = Settled(@, outcome), !.verified =
           IF ~Applied(outcome) THEN @
           ELSE IF call.do = "allow" THEN @ \cup {call.payee} ELSE @ \ {call.payee}]
         succeeded == OnSuccess(settled, call)
     IN /\ screen' = IF outcome # "success" THEN settled
                     ELSE IF call.do = "allow" THEN succeeded
                     ELSE [succeeded EXCEPT !.session = Listed(@, {call.payee}, "removed")]
        /\ Record(call, outcome)
  /\ UNCHANGED <<me, clicks>>

------------------------------------------------------------------------------
(* In bulk *)

\* A line is invalid, a duplicate of an earlier one, or eligible so far.
ParseAndDedupe(text) ==
  [i \in DOMAIN text |->
     [address |-> text[i],
      status |-> IF ~IsAddress(text[i]) THEN "invalid"
                 ELSE IF \E j \in 1 .. i - 1 : text[j] = text[i] THEN "duplicate"
                 ELSE "eligible"]]

\* With is_payee of each: what is already as wanted is skipped.  A read that
\* failed counts as not being so.  The answers are looked up by address, so a
\* duplicate gets the status of the line it repeats.
ClassifyBulkAddresses(text, mode, verified, failed) ==
  LET draft == ParseAndDedupe(text)
      holds(p) == IF p \in failed THEN mode = "remove" ELSE p \in verified
      checked(p) == IF mode = "verify" /\ holds(p) THEN "already-verified"
                    ELSE IF mode = "remove" /\ ~holds(p) THEN "not-verified"
                    ELSE "eligible"
  IN [i \in DOMAIN draft |->
        IF IsAddress(draft[i].address)
        THEN [draft[i] EXCEPT !.status = checked(draft[i].address)] ELSE draft[i]]

ChunkAddresses(addresses, size) ==
  [i \in 1 .. (Len(addresses) + size - 1) \div size |->
     SubSeq(addresses, (i - 1) * size + 1, IF i * size < Len(addresses) THEN i * size ELSE Len(addresses))]

Eligible ==
  LET kept == SelectSeq(screen.results, LAMBDA entry : entry.status = "eligible")
  IN IF screen.results = NoResults THEN <<>> ELSE [i \in DOMAIN kept |-> kept[i].address]

BulkCheckOffered == PayeePanel = "programme" /\ screen.text # <<>> /\ screen.checking = {}
BulkSendOffered == IsCreator /\ Eligible # <<>> /\ ~screen.run.active

\* Another text or another mode drops the results.
EditBulk(mode, text) ==
  /\ AtPayees /\ <<mode, text>> # <<screen.mode, screen.text>>
  /\ Show([screen EXCEPT !.mode = mode, !.text = text, !.results = NoResults])

\* A check takes the text and the mode along and resets the last outcome; its
\* answers are shown whatever the text and the mode are by then.
HandleCheckBulk ==
  /\ AtPayees
  /\ \/ /\ BulkCheckOffered
        /\ Show([screen EXCEPT !.checking = {[text |-> screen.text, mode |-> screen.mode]},
                               !.results = NoResults, !.bulkTx = ResetOn(@)])
     \/ \E asked \in screen.checking, failed \in SUBSET Payees :
          Show([screen EXCEPT !.checking = {}, !.results =
            ClassifyBulkAddresses(asked.text, asked.mode, screen.verified, failed)])

Batch(run, i) ==
  [do |-> run.mode, payees |-> ToSet(run.batches[i]), run |-> run.from, batch |-> i]

\* "Verify n payees": the batches and the mode of the click, one send at a time.
\* After a failure it is offered again with the batches that have landed.
HandleSendBulk ==
  /\ AtPayees /\ BulkSendOffered /\ Click
  /\ LET run == [active |-> TRUE, mode |-> screen.mode, done |-> 0, from |-> clicks + 1,
                 landed |-> {}, batches |-> ChunkAddresses(Eligible, MAX_PAYEE_BATCH)]
     IN screen' = [screen EXCEPT !.run = run, !.progress = <<0, Len(run.batches)>>,
                                 !.said = Nothing, !.bulkTx = SendOn(@, Batch(run, 1))]
  /\ UNCHANGED <<me, ledger>>

MutProgress(run, outcome) == <<run.done + 1, Len(run.batches)>>

\* What the progress line counts once a batch ended.
Progress(run, outcome) ==
  <<IF outcome = "success" THEN run.done + 1 ELSE run.done, Len(run.batches)>>

\* The alert of a failure: which batch, and how many payees went before it.
BulkBatchFailed(run) ==
  [batch |-> run.done + 1, succeeded |-> Len(FlattenSeq(SubSeq(run.batches, 1, run.done)))]

\* A batch ends: the next is sent, or the run is over and clears the form, or it
\* stops at the failure.  The loop goes on with the wallet it started with.
BulkSettled(outcome) ==
  /\ AtPayees /\ screen.bulkTx.inFlight
  /\ LET run == screen.run
         call == screen.bulkTx.call
         over == run.done + 1 = Len(run.batches)
         landed == run.landed \cup ToSet(run.batches[run.done + 1])
         settled == [screen EXCEPT !.bulkTx = Settled(@, outcome),
                       !.progress = Progress(run, outcome),
                       !.verified = IF ~Applied(outcome) THEN @
                                    ELSE IF call.do = "verify" THEN @ \cup call.payees
                                    ELSE @ \ call.payees]
     IN /\ Record(call, outcome)
        /\ screen' =
             IF outcome # "success"
             THEN [settled EXCEPT !.run.active = FALSE, !.said = BulkBatchFailed(run)]
             ELSE IF ~over
             THEN [settled EXCEPT !.run.done = @ + 1, !.run.landed = landed,
                     !.bulkTx = [phase |-> "busy", inFlight |-> TRUE, call |-> Batch(run, run.done + 2)]]
             ELSE [settled EXCEPT !.run.active = FALSE, !.run.done = @ + 1, !.run.landed = landed,
                     !.text = <<>>, !.results = NoResults, !.progress = <<>>,
                     !.candidates = IF run.mode = "verify" THEN @ \cup landed ELSE @,
                     !.session = Listed(@, landed, IF run.mode = "verify" THEN "added" ELSE "removed")]
  /\ UNCHANGED <<me, clicks>>

\* The cards of the page, each with the programme they share.
PayeeCheckNext ==
  \/ HandleLookupProgramme \/ ConfigRead \/ HandleCheckAddress
  \/ \E text \in Payees \cup {Malformed} : TypeCheck(text)

PayeeNext ==
  \/ HandleLookupProgramme \/ ConfigRead \/ StatusesRead \/ HandleVerify \/ HandleRevoke
  \/ \E text \in Payees \cup {Malformed} : TypeAddress(text)
  \/ \E outcome \in Outcomes : PayeeSettled(outcome)

PayeeBulkNext ==
  \/ HandleLookupProgramme \/ ConfigRead \/ HandleCheckBulk \/ HandleSendBulk
  \/ \E outcome \in Outcomes : BulkSettled(outcome)
  \/ \E mode \in {"verify", "remove"}, text \in BulkTexts : EditBulk(mode, text)

------------------------------------------------------------------------------
\* The progress line and the failure's alert count batches of the run that they are
\* of, and those are on the ledger: "the batches already sent are real on-chain writes
\* and stay done" (PayeeManagement.tsx:315).  A retry is a run of its own.
ProgressIsReal ==
  screen.is = "payees" =>
    LET Landed(n) == \A i \in 1 .. n : Batch(screen.run, i) \in ToSet(ledger)
    IN /\ screen.progress # <<>> => Landed(screen.progress[1])
       /\ screen.said # Nothing => Landed(screen.said.batch - 1)

\* A row of the session's list stands for a call that was applied: "removed" for a
\* removal of its payee, alone or in a batch.  "added" does for a verification of its
\* payee, or else for a removal of another one that was clicked while this one stood
\* in the address field: the page then says added of what nobody added.
StandsFor(row, call) ==
  LET With(do) == call.do = do /\ row.address \in call.payees
      Of(do) == call.do = do /\ row.address = call.payee
  IN IF row.action = "removed" THEN Of("deny") \/ With("remove")
     ELSE Of("allow") \/ With("verify") \/ (call.do = "deny" /\ row.address = call.field)
PayeesListed ==
  screen.is = "payees" =>
    \A row \in screen.session : \E call \in ToSet(ledger) : StandsFor(row, call)
============================================================================
