----------------------------- MODULE AdminScreen -----------------------------
(***************************************************************************)
(* The admin page (frontend/src/components/admin): deploying a programme   *)
(* through the registry, the protocol configuration, and the writers of    *)
(* standing.  Each is a screen of its own here.                            *)
(***************************************************************************)
EXTENDS Screen, Integers

CONSTANTS
  KnownSchemas,   \* uids that attest has a schema for
  AuthorityOf,    \* of a uid the authority of its schema when restricted, else NoAddress
  People,         \* what is entered on the second step: a set of records
  Schedules,      \* four deadlines since the mount, 0 where one is not set or was past
  MaxClock        \* bound on the ledger's clock, since the mount

ASSUME DeployAssumption ==
  /\ People \subseteq
       [quorum : Int, reviewers : Seq(STRING), verifiers : Seq(STRING), tranches : Int]
  /\ Schedules \subseteq [1 .. 4 -> Nat]
  /\ KnownSchemas \subseteq Uids /\ NoAddress \notin Uids /\ Malformed \notin Uids

------------------------------------------------------------------------------
(* DeployProgramme *)

NoDeadlines == <<0, 0, 0, 0>>
NoPeople == [quorum |-> 3, reviewers |-> <<>>, verifiers |-> <<>>, tranches |-> 3]

\* `asking` is the uid of the newest read of a schema that has not answered.  What
\* a read found stays, and so does the error of one that failed, whatever a later
\* one answers.  The form's own clock stands at the mount; `now` is the ledger's.
DeployInit ==
  screen = [is |-> "deploy", step |-> 1, schema |-> NoAddress, asking |-> NoAddress,
            found |-> FALSE, failed |-> FALSE, people |-> NoPeople, deadlines |-> NoDeadlines,
            minimum |-> 0, now |-> 0, tx |-> IdleTx, deployed |-> Nothing]
AtDeploy == screen.is = "deploy" /\ ~(screen.tx.phase = "success" /\ screen.deployed # Nothing)

\* What each step checks of what was entered on it.
SchemaConfirmed == screen.schema \in Uids /\ screen.found /\ ~screen.failed
PeopleErrors == \* an empty list, or one that holds something that is no address
  \/ screen.people.reviewers = <<>> \/ Malformed \in ToSet(screen.people.reviewers)
  \/ screen.people.verifiers = <<>> \/ Malformed \in ToSet(screen.people.verifiers)
MutQuorumFinalError == screen.people.quorum \notin 1 .. 16

QuorumFinalError ==
  \/ screen.people.quorum \notin 1 .. 16
  \/ screen.people.quorum > Len(screen.people.reviewers)
SequenceError == \* a deadline not after the form's clock, or not after the one before
  \/ \E i \in 1 .. 4 : screen.deadlines[i] = 0
  \/ \E i \in 1 .. 3 : screen.deadlines[i] >= screen.deadlines[i + 1]
StepValid(step) ==
  CASE step = 1 -> SchemaConfirmed
    [] step = 2 -> ~PeopleErrors /\ ~QuorumFinalError /\ screen.people.tranches > 0
    [] step = 3 -> ~SequenceError
    [] step = 4 -> TRUE
AllValid == \A step \in 1 .. 4 : StepValid(step)

EnterDetails(text) ==
  /\ AtDeploy /\ screen.step = 1 /\ screen.schema # text
  /\ Show([screen EXCEPT !.schema = text, !.asking = IF text \in Uids THEN text ELSE @])

\* The newest read answers, or fails.
SchemaAnswers ==
  /\ AtDeploy /\ screen.asking \in KnownSchemas
  /\ Show([screen EXCEPT !.found = TRUE, !.asking = NoAddress])
SchemaReadFails ==
  /\ AtDeploy /\ screen.asking # NoAddress
  /\ Show([screen EXCEPT !.failed = TRUE, !.asking = NoAddress])

ClockPasses ==
  /\ screen.is = "deploy" /\ screen.now < MaxClock
  /\ Show([screen EXCEPT !.now = @ + 1])

EnterPeople(people) ==
  /\ AtDeploy /\ screen.step = 2 /\ Show([screen EXCEPT !.people = people])
EnterDeadlines(deadlines) ==
  /\ AtDeploy /\ screen.step = 3 /\ Show([screen EXCEPT !.deadlines = deadlines])
EnterFunds(minimum) ==
  /\ AtDeploy /\ screen.step = 4 /\ Show([screen EXCEPT !.minimum = minimum])

GoOn ==
  /\ AtDeploy /\ screen.step < 4 /\ StepValid(screen.step) /\ ~Busy(screen.tx)
  /\ Show([screen EXCEPT !.step = @ + 1])
GoBack ==
  /\ AtDeploy /\ screen.step > 1 /\ ~Busy(screen.tx) /\ Show([screen EXCEPT !.step = @ - 1])

\* What the form would send. `answered` says whether the read of its schema had
\* been answered by then; it is not sent.
CreateCall ==
  [do |-> "create", creator |-> me, schema |-> screen.schema, people |-> screen.people,
   deadlines |-> screen.deadlines, minimum |-> screen.minimum,
   answered |-> screen.asking = NoAddress]
Deploy ==
  /\ AtDeploy /\ screen.step = 4 /\ AllValid /\ me # NoAddress /\ ~Busy(screen.tx) /\ Click
  /\ screen' = [screen EXCEPT !.tx = SendOn(@, CreateCall)]
  /\ UNCHANGED <<me, ledger>>

\* What the constructor has against the terms at a time; it answers with the first
\* in its order.  The registry sends its own fee, which is within the cap.
Objections(call, time) ==
  LET If(holds, error) == IF holds THEN {error} ELSE {}
      d == call.deadlines
      quorum == call.people.quorum
  IN If(d[1] <= time \/ (\E i \in 1 .. 3 : d[i + 1] <= d[i]), "InvalidDeadlines")
     \cup If(call.people.reviewers = <<>>, "NoReviewers")
     \cup If(call.people.verifiers = <<>>, "NoVerifiers")
     \cup If(quorum \notin 1 .. 16 \/ quorum > Len(call.people.reviewers), "InvalidQuorum")
     \cup If(\/ call.people.tranches = 0 \/ call.minimum < 0
             \/ call.minimum > 0 /\ call.minimum < call.people.tranches, "InvalidAmount")
     \cup If(call.schema \notin KnownSchemas, "SchemaNotFound")
     \cup If(AuthorityOf[call.schema] \notin ToSet(call.people.verifiers) \cup {NoAddress},
             "SchemaAuthorityNotVerifier")
CreateAccepted(call) == Objections(call, screen.now) = {}

DeploySettled(outcome) ==
  /\ screen.is = "deploy" /\ screen.tx.inFlight
  /\ Applied(outcome) => CreateAccepted(screen.tx.call)
  /\ screen' = [screen EXCEPT !.tx = Settled(@, outcome),
       !.deployed = IF outcome = "success" THEN screen.tx.call ELSE @]
  /\ Record(screen.tx.call, outcome)
  /\ UNCHANGED <<me, clicks>>

\* "Deploy another" keeps what was entered.
ResetDeploy ==
  /\ screen.is = "deploy" /\ ~AtDeploy
  /\ Show([screen EXCEPT !.tx = ResetOn(@), !.deployed = Nothing, !.step = 1])

DeployNext ==
  \/ SchemaAnswers \/ SchemaReadFails \/ ClockPasses \/ GoOn \/ GoBack \/ Deploy \/ ResetDeploy
  \/ \E text \in Uids \cup {Malformed} : EnterDetails(text)
  \/ \E people \in People : EnterPeople(people)
  \/ \E deadlines \in Schedules : EnterDeadlines(deadlines)
  \/ \E minimum \in 0 .. 1 : EnterFunds(minimum)
  \/ \E outcome \in Outcomes : DeploySettled(outcome)

\* The form by itself, while the person may change wallets.
DeploySpec ==
  ScreenInit /\ DeployInit /\ [][DeployNext \/ ChangeWallet]_screenVars

DeployDone == IF screen.deployed = Nothing THEN {} ELSE {screen.deployed}

\* The success page names the quorum and the tranches that the fields hold, which
\* are those of the programme that it announces.
DeployShown ==
  screen.is = "deploy" /\ screen.deployed # Nothing => screen.people = screen.deployed.people

\* Of what waits for a signature the constructor may refuse four things alone, each
\* in one case: the deadlines because the first of them has passed since the page
\* was opened (the form's clock stands still, and by that clock they run in order),
\* the minimum award because it is below the number of tranches, the schema because
\* the read of it had not been answered at the click, and the verifiers because the
\* schema's authority is not one of them.  Whatever steps are left and entered again
\* and however answers come, it has nothing against the quorum, the reviewers, the
\* number of verifiers or the tranches.
DeployMeetsTerms ==
  screen.is = "deploy" /\ screen.tx.inFlight =>
    LET call == screen.tx.call
        objections == Objections(call, screen.now)
    IN /\ objections \subseteq {"InvalidDeadlines", "InvalidAmount", "SchemaNotFound",
                                "SchemaAuthorityNotVerifier"}
       /\ "InvalidDeadlines" \in objections =>
            call.deadlines[1] <= screen.now /\ "InvalidDeadlines" \notin Objections(call, 0)
       /\ "InvalidAmount" \in objections => call.minimum \in 1 .. (call.people.tranches - 1)
       /\ "SchemaNotFound" \in objections => ~call.answered

\* frontend/src/components/admin/DeployProgramme.tsx:47 says "Every constructor
\* constraint from `contracts/program/src/lib.rs` is enforced where it is entered,
\* before anything is signed", but for the schema's existence: the constructor then
\* has nothing else against what the button offers to deploy.
FormEnforcesConstructor ==
  screen.is = "deploy" /\ AtDeploy /\ screen.step = 4 /\ AllValid =>
    Objections(CreateCall, screen.now) \subseteq {"SchemaNotFound"}

------------------------------------------------------------------------------
(* ProtocolConfigCard *)

Settings == {"fee", "treasury", "policy", "admin"}

\* `said` is the admin that get_config gave last.  The editor is there for the
\* admin alone: with another wallet it is gone, and a call of it is `unseen`.
ConfigInit ==
  \E setting \in Settings :
    screen = [is |-> "config", setting |-> setting, admin |-> Creator, said |-> NoAddress,
              input |-> NoAddress, retyped |-> NoAddress, modal |-> FALSE,
              tx |-> IdleTx, unseen |-> Nothing]

IsRegistryAdmin == me # NoAddress /\ screen.said = me
SettingRead ==
  /\ screen.is = "config" /\ screen.said # screen.admin
  /\ Show([screen EXCEPT !.said = screen.admin])

EditorClosed ==
  /\ screen.is = "config" /\ ~IsRegistryAdmin /\ screen.unseen = Nothing
  /\ Show([screen EXCEPT !.input = NoAddress, !.retyped = NoAddress, !.modal = FALSE, !.tx = IdleTx,
                         !.unseen = IF screen.tx.inFlight THEN screen.tx.call ELSE Nothing])

AtEditor == screen.is = "config" /\ IsRegistryAdmin
HandsOver == screen.setting = "admin"

\* Handing over is asked for in a dialog, and typed twice; the dialog forgets
\* what a transfer in flight was.
OpenAdminModal ==
  /\ AtEditor /\ HandsOver /\ ~screen.modal
  /\ Show([screen EXCEPT !.modal = TRUE, !.input = NoAddress, !.retyped = NoAddress,
                         !.tx = ResetOn(@)])
CloseAdminModal == AtEditor /\ screen.modal /\ Show([screen EXCEPT !.modal = FALSE])
EditSetting(text) ==
  /\ AtEditor /\ (HandsOver => screen.modal)
  /\ \/ screen.input # text /\ Show([screen EXCEPT !.input = text])
     \/ /\ HandsOver /\ IsAddress(screen.input) /\ screen.retyped # text
        /\ Show([screen EXCEPT !.retyped = text])

\* A fee above the cap and a malformed address are refused here.
SendSetting ==
  /\ AtEditor /\ ~Busy(screen.tx) /\ IsAddress(screen.input) /\ Click
  /\ HandsOver => screen.modal /\ screen.retyped = screen.input
  /\ screen' = [screen EXCEPT !.tx =
       SendOn(@, [do |-> "set", setting |-> screen.setting, by |-> me, to |-> screen.input])]
  /\ UNCHANGED <<me, ledger>>

SetAccepted(call) == call.by = screen.admin
AdminAfter(call, outcome) ==
  IF Applied(outcome) /\ call.setting = "admin" THEN call.to ELSE screen.admin

SettingSettled(outcome) ==
  /\ screen.is = "config"
  /\ \/ /\ screen.tx.inFlight /\ (Applied(outcome) => SetAccepted(screen.tx.call))
        /\ LET cleared == IF outcome # "success" THEN screen
                          ELSE [screen EXCEPT !.input = NoAddress, !.retyped = NoAddress,
                                              !.modal = FALSE]
           IN screen' = [cleared EXCEPT !.tx = Settled(@, outcome),
                                        !.admin = AdminAfter(screen.tx.call, outcome)]
        /\ Record(screen.tx.call, outcome)
     \/ /\ screen.unseen # Nothing /\ (Applied(outcome) => SetAccepted(screen.unseen))
        /\ screen' = [screen EXCEPT !.unseen = Nothing,
                                    !.admin = AdminAfter(screen.unseen, outcome)]
        /\ Record(screen.unseen, outcome)
  /\ UNCHANGED <<me, clicks>>

ConfigNext ==
  \/ SettingRead \/ EditorClosed \/ OpenAdminModal \/ CloseAdminModal \/ SendSetting
  \/ \E text \in {Other, Malformed} : EditSetting(text)
  \/ \E outcome \in Outcomes : SettingSettled(outcome)

------------------------------------------------------------------------------
(* StandingWriterAdmin *)

\* Two forms, each with its transaction, share the input.  `said` is what
\* is_writer gave last, of the address being checked then.
WritersInit ==
  screen = [is |-> "writers", admin |-> Creator, adminSaid |-> NoAddress, writers |-> {},
            input |-> NoAddress, checking |-> NoAddress, said |-> FALSE,
            adding |-> IdleTx, removing |-> IdleTx]
AtWriters == screen.is = "writers" /\ me # NoAddress /\ screen.adminSaid = me

RecordAdminRead ==
  /\ screen.is = "writers" /\ screen.adminSaid # screen.admin
  /\ Show([screen EXCEPT !.adminSaid = screen.admin])
CheckWriter(text) ==
  /\ screen.is = "writers" /\ screen.checking # text /\ Show([screen EXCEPT !.checking = text])
WriterStatusAnswers ==
  /\ screen.is = "writers" /\ screen.said # (screen.checking \in screen.writers)
  /\ Show([screen EXCEPT !.said = ~@])
EditWriter(text) ==
  /\ AtWriters /\ screen.input # text /\ Show([screen EXCEPT !.input = text])

HandleAdd ==
  /\ AtWriters /\ IsAddress(screen.input) /\ ~Busy(screen.adding) /\ Click
  /\ screen' = [screen EXCEPT !.adding = SendOn(@, [do |-> "add", by |-> me, writer |-> screen.input])]
  /\ UNCHANGED <<me, ledger>>
HandleRemove ==
  /\ AtWriters /\ IsAddress(screen.input) /\ ~Busy(screen.removing) /\ Click
  /\ screen' = [screen EXCEPT !.removing =
       SendOn(@, [do |-> "remove", by |-> me, writer |-> screen.input])]
  /\ UNCHANGED <<me, ledger>>

WriterAccepted(call) ==
  call.by = screen.admin /\ (call.writer \in screen.writers) = (call.do = "remove")

\* A success shows the writer it was about, and clears what was typed since.
WriterSettled(outcome) ==
  /\ screen.is = "writers"
  /\ \E form \in {"adding", "removing"} :
       LET call == screen[form].call
           writers == IF ~Applied(outcome) THEN screen.writers
                      ELSE IF call.do = "add" THEN screen.writers \cup {call.writer}
                      ELSE screen.writers \ {call.writer}
       IN /\ screen[form].inFlight /\ (Applied(outcome) => WriterAccepted(call))
          /\ screen' = [screen EXCEPT ![form] = Settled(@, outcome), !.writers = writers,
               !.input = IF outcome = "success" THEN NoAddress ELSE @,
               !.checking = IF outcome = "success" THEN call.writer ELSE @]
          /\ Record(call, outcome)
  /\ UNCHANGED <<me, clicks>>

WritersNext ==
  \/ RecordAdminRead \/ WriterStatusAnswers \/ HandleAdd \/ HandleRemove
  \/ \E text \in Programmes \cup {Malformed} : CheckWriter(text) \/ EditWriter(text)
  \/ \E outcome \in Outcomes : WriterSettled(outcome)
=============================================================================
