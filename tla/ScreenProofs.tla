---------------------------- MODULE ScreenProofs ----------------------------
(***************************************************************************)
(* What the screens promise for all values of the constants: that what one *)
(* says was sent was applied, and that what one shows as read was so.      *)
(*                                                                         *)
(* A step is by the screen that is mounted, and leaves it mounted; so the  *)
(* invariant has one part for each screen, and each part speaks of that    *)
(* screen's record, of which it names the fields that matter.  Of a screen *)
(* that writes it says that what is in flight is the call that was made,   *)
(* and of one that reads that an answer is of what was asked.              *)
(***************************************************************************)
EXTENDS Screens, TransactionProofs, AlgorithmProofs

------------------------------------------------------------------------------
(* What the screens have in common *)

Hook(t) == {"phase", "inFlight", "call"} \subseteq DOMAIN t

\* The ledger is a sequence; of what its calls are nothing is said.
LedgerOK == ledger \in Seq(ToSet(ledger))

\* A step only adds to the ledger.
Grows == LedgerOK' /\ ToSet(ledger) \subseteq ToSet(ledger')

\* A step of the screen x, which stays mounted.
Stays(x) == screen.is = x /\ "is" \in DOMAIN screen

LEMMA SendHook ==
  ASSUME NEW t, Hook(t), NEW address, NEW call
  PROVE  /\ Hook(SendAs(t, address, call))
         /\ SendAs(t, address, call).inFlight =>
              SendAs(t, address, call).call = IF t.inFlight THEN t.call ELSE call
         /\ SendAs(t, address, call).call \in {call, t.call}
<1>1. SendAs(t, address, call) \in {t, [t EXCEPT !.phase = "error"],
                                    [phase |-> "busy", inFlight |-> TRUE, call |-> call]}
  BY DEF SendAs
<1>2. t.inFlight => SendAs(t, address, call) = t
  BY DEF SendAs
<1>3. ~t.inFlight /\ SendAs(t, address, call).inFlight => SendAs(t, address, call).call = call
  BY DEF SendAs, Hook
<1> QED BY <1>1, <1>2, <1>3 DEF Hook

LEMMA ResetHook ==
  ASSUME NEW t, Hook(t)
  PROVE  Hook(ResetOn(t)) /\ ResetOn(t).call = t.call /\ ResetOn(t).inFlight = t.inFlight
BY DEF Hook, ResetOn

LEMMA SettledHook ==
  ASSUME NEW t, Hook(t), NEW outcome
  PROVE  /\ Hook(Settled(t, outcome)) /\ ~Settled(t, outcome).inFlight
         /\ Settled(t, outcome).call = t.call
BY DEF Hook, Settled

LEMMA IdleHook == Hook(IdleTx) /\ IdleTx.inFlight = FALSE /\ IdleTx.call = Nothing
  BY DEF Hook, IdleTx

LEMMA LedgerAppends ==
  ASSUME NEW s, s \in Seq(ToSet(s)), NEW call
  PROVE  /\ Append(s, call) \in Seq(ToSet(Append(s, call)))
         /\ ToSet(Append(s, call)) = ToSet(s) \cup {call}
<1> DEFINE t == Append(s, call)
<1>1. Len(t) = Len(s) + 1 /\ DOMAIN t = 1 .. Len(t)
      /\ \A i \in 1 .. Len(t) : t[i] = IF i = Len(t) THEN call ELSE s[i]
  OBVIOUS
<1>2. DOMAIN s = 1 .. Len(s) /\ Len(s) \in Nat
  OBVIOUS
<1> QED BY <1>1, <1>2 DEF ToSet

LEMMA Recorded ==
  ASSUME LedgerOK, NEW call, NEW outcome, Record(call, outcome)
  PROVE  Grows /\ (Applied(outcome) => call \in ToSet(ledger'))
BY LedgerAppends DEF LedgerOK, Grows, Record

LEMMA NotRecorded == ASSUME LedgerOK, ledger' = ledger PROVE Grows
  BY DEF LedgerOK, Grows

LEMMA SuccessIsApplied == Applied("success")
  BY DEF Applied

------------------------------------------------------------------------------
(* Payees *)

Modes2 == {"verify", "remove"}

\* The batch in flight is the next one of the present run; those before it are on
\* the ledger, and the progress line counts them.
RunInv ==
  /\ {"run", "progress", "bulkTx", "mode", "said"} \subseteq DOMAIN screen /\ screen.mode \in Modes2
  /\ {"active", "mode", "batches", "done", "landed", "from"} \subseteq DOMAIN screen.run
  /\ screen.run.mode \in Modes2 /\ screen.run.done \in Nat
  /\ Hook(screen.bulkTx)
  /\ screen.bulkTx.inFlight =>
       screen.run.active /\ screen.bulkTx.call = Batch(screen.run, screen.run.done + 1)
  /\ screen.progress = <<>> \/ screen.progress[1] = screen.run.done
  /\ screen.said = Nothing \/ (screen.said.batch = screen.run.done + 1 /\ ~screen.run.active)
  /\ \A i \in 1 .. screen.run.done : Batch(screen.run, i) \in ToSet(ledger)
  /\ \A p \in screen.run.landed : \E call \in ToSet(ledger) :
       call.do = screen.run.mode /\ p \in call.payees

\* What is in flight is a verification of the payee in the field, or a removal; and
\* every row stands for a call.
RowsStand(session, calls) == \A row \in session : \E call \in calls : StandsFor(row, call)
SessionInv ==
  /\ {"tx", "session"} \subseteq DOMAIN screen /\ Hook(screen.tx)
  /\ screen.tx.inFlight =>
       \/ screen.tx.call.do = "allow" /\ screen.tx.call.field = screen.tx.call.payee
       \/ screen.tx.call.do = "deny"
  /\ RowsStand(screen.session, ToSet(ledger))

PayeesInv == RunInv /\ SessionInv

LEMMA PayeesInit == ASSUME PayeeScreenInit, ledger = <<>> PROVE Stays("payees") /\ PayeesInv
<1>1. /\ screen.is = "payees" /\ screen.run = NoRun /\ screen.progress = <<>>
      /\ screen.bulkTx = IdleTx /\ screen.mode = "verify" /\ screen.said = Nothing
      /\ screen.tx = IdleTx /\ screen.session = {}
      /\ {"is", "run", "progress", "bulkTx", "mode", "said", "tx", "session"} \subseteq DOMAIN screen
  BY DEF PayeeScreenInit
<1> QED BY <1>1, IdleHook DEF PayeesInv, RunInv, SessionInv, RowsStand, Stays, NoRun, Modes2

\* What has nothing to do with the run leaves it alone.
LEMMA RunUntouched ==
  ASSUME RunInv, Grows, DOMAIN screen \subseteq DOMAIN screen', screen'.mode \in Modes2,
         screen'.run = screen.run, screen'.progress = screen.progress, screen'.said = screen.said,
         Hook(screen'.bulkTx), screen'.bulkTx.inFlight = screen.bulkTx.inFlight,
         screen'.bulkTx.call = screen.bulkTx.call
  PROVE  RunInv'
BY DEF RunInv, Grows

\* And what does not touch the list leaves that alone.
LEMMA SessionUntouched ==
  ASSUME SessionInv, Grows, DOMAIN screen \subseteq DOMAIN screen',
         screen'.tx = screen.tx, screen'.session = screen.session
  PROVE  SessionInv'
BY DEF SessionInv, RowsStand, Grows

\* A list after a change, of which there is a call for every payee.
LEMMA ListedStands ==
  ASSUME NEW session, NEW calls, RowsStand(session, calls), NEW changed, NEW action,
         \A p \in changed : \E call \in calls : StandsFor([address |-> p, action |-> action], call)
  PROVE  RowsStand(Listed(session, changed, action), calls)
<1>1. ASSUME NEW row \in Listed(session, changed, action)
      PROVE  row \in session \/ \E p \in changed : row = [address |-> p, action |-> action]
  BY DEF Listed
<1> QED BY <1>1 DEF RowsStand

\* The answer of a single call, of which the list shows what it did.
LEMMA PayeeSettledKept ==
  ASSUME Stays("payees"), LedgerOK, PayeesInv, NEW outcome \in Outcomes, PayeeSettled(outcome)
  PROVE  Stays("payees")' /\ Grows /\ PayeesInv'
<1> USE DEF Stays, PayeesInv
<1> DEFINE call == screen.tx.call
           added == Listed(screen.session, {call.field}, "added")
<1>1. /\ screen.tx.inFlight /\ Record(call, outcome)
      /\ DOMAIN screen' = DOMAIN screen /\ screen'.is = screen.is /\ screen'.run = screen.run
      /\ screen'.progress = screen.progress /\ screen'.said = screen.said
      /\ screen'.bulkTx = screen.bulkTx /\ screen'.mode = screen.mode
      /\ screen'.tx = Settled(screen.tx, outcome)
  BY DEF PayeeSettled, OnSuccess, SessionInv
<1>2. /\ outcome # "success" => screen'.session = screen.session
      /\ outcome = "success" /\ call.do = "allow" => screen'.session = added
      /\ outcome = "success" /\ call.do = "deny" =>
           screen'.session = Listed(added, {call.payee}, "removed")
  BY DEF PayeeSettled, OnSuccess, SessionInv
<1>3. Grows /\ (outcome = "success" => call \in ToSet(ledger'))
  BY <1>1, Recorded, SuccessIsApplied
<1>4. RunInv'
  BY <1>1, <1>3, RunUntouched DEF RunInv
<1>5. Hook(screen'.tx) /\ ~screen'.tx.inFlight
  BY <1>1, SettledHook DEF SessionInv
<1>6. RowsStand(screen.session, ToSet(ledger'))
  BY <1>3 DEF SessionInv, RowsStand, Grows
<1>7. \/ call.do = "allow" /\ call.field = call.payee
      \/ call.do = "deny"
  BY <1>1 DEF SessionInv
<1>8. CASE outcome = "success"
  <2>1. StandsFor([address |-> call.field, action |-> "added"], call)
    BY <1>7 DEF StandsFor
  <2>2. RowsStand(added, ToSet(ledger'))
    BY <1>3, <1>6, <1>8, <2>1, ListedStands
  <2>3. call.do = "deny" => StandsFor([address |-> call.payee, action |-> "removed"], call)
    BY DEF StandsFor
  <2> HIDE DEF added
  <2>4. call.do = "deny" => RowsStand(Listed(added, {call.payee}, "removed"), ToSet(ledger'))
    BY <1>3, <1>8, <2>2, <2>3, ListedStands
  <2>5. RowsStand(screen'.session, ToSet(ledger'))
    BY <1>2, <1>7, <1>8, <2>2, <2>4
  <2> QED BY <1>1, <1>3, <1>4, <1>5, <2>5 DEF SessionInv
<1>9. CASE outcome # "success"
  BY <1>1, <1>2, <1>3, <1>4, <1>5, <1>6, <1>9 DEF SessionInv
<1> QED BY <1>8, <1>9

\* The fields of the page that matter, and a step that leaves all but `tx` alone.
PayeesFields == {"is", "run", "progress", "bulkTx", "mode", "said", "tx", "session"}
PayeesSame ==
  /\ DOMAIN screen' = DOMAIN screen /\ screen'.is = screen.is
  /\ screen'.run = screen.run /\ screen'.progress = screen.progress
  /\ screen'.said = screen.said /\ screen'.bulkTx = screen.bulkTx
  /\ screen'.session = screen.session /\ ledger' = ledger
LEMMA PayeesHasFields == ASSUME Stays("payees"), PayeesInv PROVE PayeesFields \subseteq DOMAIN screen
  BY DEF PayeesFields, Stays, PayeesInv, RunInv, SessionInv

LEMMA PayeesReads ==
  ASSUME PayeesFields \subseteq DOMAIN screen,
         HandleLookupProgramme \/ ConfigRead \/ StatusesRead \/ HandleCheckAddress
  PROVE  PayeesSame /\ screen'.mode = screen.mode /\ screen'.tx = screen.tx
<1>1. CASE HandleLookupProgramme \/ ConfigRead \/ StatusesRead
  <2>1. ledger' = ledger
    BY <1>1 DEF HandleLookupProgramme, ConfigRead, StatusesRead, Show
  <2>2. ASSUME HandleLookupProgramme PROVE \E config, sample, candidates : screen' =
          [screen EXCEPT !.config = config, !.sample = sample, !.candidates = candidates]
    BY <2>2 DEF HandleLookupProgramme, Show
  <2>3. ASSUME ConfigRead PROVE \E config : screen' = [screen EXCEPT !.config = config]
    BY <2>3 DEF ConfigRead, Show
  <2>4. ASSUME StatusesRead PROVE \E status : screen' = [screen EXCEPT !.status = status]
    BY <2>4 DEF StatusesRead, Show
  <2> QED BY <1>1, <2>1, <2>2, <2>3, <2>4 DEF PayeesSame, PayeesFields
<1>2. CASE HandleCheckAddress
  <2>1. ASSUME NEW p, NEW answered,
               screen' = [screen EXCEPT !.check.asking = {}, !.check.result =
                 IF answered THEN [address |-> p, verified |-> p \in screen.verified] ELSE @]
        PROVE  \E c : screen' = [screen EXCEPT !.check = c]
    BY <2>1
  <2>2. ledger' = ledger /\ \E c : screen' = [screen EXCEPT !.check = c]
    BY <1>2, <2>1 DEF HandleCheckAddress, Show
  <2> QED BY <2>2 DEF PayeesSame, PayeesFields
<1> QED BY <1>1, <1>2

LEMMA PayeesTyping ==
  ASSUME PayeesFields \subseteq DOMAIN screen, NEW text, TypeCheck(text) \/ TypeAddress(text)
  PROVE  PayeesSame /\ screen'.mode = screen.mode /\ screen'.tx = screen.tx
<1>1. ASSUME TypeCheck(text) PROVE \E c : screen' = [screen EXCEPT !.check = c]
  BY <1>1 DEF TypeCheck, Show
<1>2. ASSUME TypeAddress(text) PROVE screen' = [screen EXCEPT !.address = text]
  BY <1>2 DEF TypeAddress, Show
<1>3. ledger' = ledger
  BY DEF TypeCheck, TypeAddress, Show
<1> QED BY <1>1, <1>2, <1>3 DEF PayeesSame, PayeesFields

LEMMA PayeesSends ==
  ASSUME PayeesFields \subseteq DOMAIN screen, HandleVerify \/ HandleRevoke
  PROVE  /\ PayeesSame /\ screen'.mode = screen.mode
         /\ \E p, field : \E do \in {"allow", "deny"} :
              /\ do = "allow" => p = field
              /\ screen'.tx = SendAs(screen.tx, me, [do |-> do, payee |-> p, field |-> field])
<1>1. \E p, field : \E do \in {"allow", "deny"} :
        /\ do = "allow" => p = field
        /\ screen' = [screen EXCEPT !.tx = SendAs(screen.tx, me, [do |-> do, payee |-> p, field |-> field])]
  BY DEF HandleVerify, HandleRevoke, SendOn
<1>2. ledger' = ledger
  BY DEF HandleVerify, HandleRevoke
<1> QED BY <1>1, <1>2 DEF PayeesSame, PayeesFields

\* The steps of the other two cards, and what is entered on this one.
LEMMA PayeesOthersKept ==
  ASSUME Stays("payees"), LedgerOK, PayeesInv,
         \/ PayeeCheckNext \/ PayeeNext
         \/ \E mode \in Modes2, text \in BulkTexts : EditBulk(mode, text)
  PROVE  Stays("payees")' /\ Grows /\ PayeesInv'
<1> DEFINE Kept == PayeesSame /\ Grows /\ screen'.mode \in Modes2
<1>0. PayeesFields \subseteq DOMAIN screen
  BY PayeesHasFields
<1>20. screen.is = "payees" /\ screen.mode \in Modes2
  BY DEF Stays, PayeesInv, RunInv
<1>1. ASSUME HandleLookupProgramme \/ ConfigRead \/ StatusesRead \/ HandleCheckAddress
      PROVE  Kept /\ screen'.tx = screen.tx
  BY <1>0, <1>1, <1>20, PayeesReads, NotRecorded DEF PayeesSame
<1>2. ASSUME NEW text, TypeCheck(text) \/ TypeAddress(text) PROVE Kept /\ screen'.tx = screen.tx
  BY <1>0, <1>2, <1>20, PayeesTyping, NotRecorded DEF PayeesSame
<1>3. ASSUME NEW mode \in Modes2, NEW text, EditBulk(mode, text) PROVE Kept /\ screen'.tx = screen.tx
  <2>1. PayeesSame /\ screen'.mode = mode /\ screen'.tx = screen.tx
    BY <1>0, <1>3 DEF PayeesFields, PayeesSame, EditBulk, Show
  <2> QED BY <2>1, NotRecorded DEF PayeesSame
<1>4. ASSUME HandleVerify \/ HandleRevoke PROVE Stays("payees")' /\ Grows /\ PayeesInv'
  <2>1. PayeesSame /\ screen'.mode = screen.mode
    BY <1>0, <1>4, PayeesSends
  <2>3. PICK p, field : \E do \in {"allow", "deny"} :
          /\ do = "allow" => p = field
          /\ screen'.tx = SendAs(screen.tx, me, [do |-> do, payee |-> p, field |-> field])
    BY <1>0, <1>4, PayeesSends
  <2>8. PICK do \in {"allow", "deny"} :
          /\ do = "allow" => p = field
          /\ screen'.tx = SendAs(screen.tx, me, [do |-> do, payee |-> p, field |-> field])
    BY <2>3
  <2> DEFINE new == [do |-> do, payee |-> p, field |-> field]
  <2>4. new.do = do /\ new.payee = p /\ new.field = field
    OBVIOUS
  <2> HIDE DEF new
  <2>5. Hook(screen'.tx)
        /\ (screen'.tx.inFlight => screen'.tx.call = IF screen.tx.inFlight THEN screen.tx.call ELSE new)
    BY <2>8, SendHook DEF PayeesInv, SessionInv, new
  <2>6. Grows /\ RunInv'
    BY <1>20, <2>1, NotRecorded, RunUntouched DEF PayeesSame, PayeesInv, RunInv
  <2>7. SessionInv'
    BY <2>1, <2>8, <2>4, <2>5 DEF PayeesSame, PayeesInv, SessionInv
  <2> QED BY <1>0, <1>20, <2>1, <2>6, <2>7 DEF PayeesSame, PayeesFields, Stays, PayeesInv
<1>5. ASSUME NEW outcome \in Outcomes, PayeeSettled(outcome)
      PROVE  Stays("payees")' /\ Grows /\ PayeesInv'
  BY <1>5, PayeeSettledKept
<1>6. CASE Kept /\ screen'.tx = screen.tx
  <2>1. RunInv'
    BY <1>6, RunUntouched DEF PayeesSame, PayeesInv, RunInv
  <2>2. SessionInv'
    BY <1>6, SessionUntouched DEF PayeesSame, PayeesInv
  <2> QED BY <1>0, <1>20, <1>6, <2>1, <2>2 DEF PayeesSame, PayeesFields, Stays, PayeesInv
<1> QED BY <1>1, <1>2, <1>3, <1>4, <1>5, <1>6 DEF PayeeCheckNext, PayeeNext

LEMMA PayeesKept ==
  ASSUME Stays("payees"), LedgerOK, PayeesInv, PayeeCheckNext \/ PayeeNext \/ PayeeBulkNext
  PROVE  Stays("payees")' /\ Grows /\ PayeesInv'
<1>1. CASE HandleCheckBulk
  <2>1. /\ DOMAIN screen' = DOMAIN screen /\ screen'.is = screen.is
        /\ screen'.run = screen.run /\ screen'.progress = screen.progress
        /\ screen'.said = screen.said /\ screen'.session = screen.session
        /\ screen'.bulkTx \in {screen.bulkTx, ResetOn(screen.bulkTx)}
        /\ screen'.mode = screen.mode /\ screen'.tx = screen.tx /\ ledger' = ledger
    BY <1>1, PayeesHasFields DEF PayeesFields, HandleCheckBulk, Show
  <2>2. Hook(screen'.bulkTx) /\ screen'.bulkTx.inFlight = screen.bulkTx.inFlight
        /\ screen'.bulkTx.call = screen.bulkTx.call
    BY <2>1, ResetHook DEF PayeesInv, RunInv
  <2>3. RunInv'
    BY <2>1, <2>2, NotRecorded, RunUntouched DEF PayeesInv, RunInv
  <2> QED BY <2>1, <2>3, NotRecorded, SessionUntouched DEF Stays, PayeesInv
<1>2. CASE HandleSendBulk
  <2> DEFINE run == [active |-> TRUE, mode |-> screen.mode, done |-> 0, from |-> clicks + 1,
                     landed |-> {}, batches |-> ChunkAddresses(Eligible, MAX_PAYEE_BATCH)]
  <2>1. /\ ~screen.run.active /\ ledger' = ledger
        /\ screen' = [screen EXCEPT !.run = run, !.progress = <<0, Len(run.batches)>>, !.said = Nothing,
                                    !.bulkTx = SendAs(screen.bulkTx, me, Batch(run, 1))]
    BY <1>2 DEF HandleSendBulk, BulkSendOffered, SendOn
  <2>2. /\ run.active /\ run.done = 0 /\ run.mode = screen.mode /\ run.landed = {}
        /\ {"active", "mode", "batches", "done", "landed", "from"} \subseteq DOMAIN run
    OBVIOUS
  <2> HIDE DEF run
  <2>3. /\ DOMAIN screen' = DOMAIN screen /\ screen'.is = screen.is /\ screen'.run = run
        /\ screen'.progress = <<0, Len(run.batches)>> /\ screen'.mode = screen.mode
        /\ screen'.said = Nothing /\ screen'.tx = screen.tx /\ screen'.session = screen.session
        /\ screen'.bulkTx = SendAs(screen.bulkTx, me, Batch(run, 1))
    BY <2>1, PayeesHasFields DEF PayeesFields
  <2>4. ~screen.bulkTx.inFlight
    BY <2>1 DEF PayeesInv, RunInv
  <2>5. Hook(screen'.bulkTx) /\ (screen'.bulkTx.inFlight => screen'.bulkTx.call = Batch(run, 1))
    BY <2>3, <2>4, SendHook DEF PayeesInv, RunInv
  <2>6. RunInv'
    BY <2>2, <2>3, <2>5 DEF PayeesInv, RunInv
  <2> QED BY <2>1, <2>3, <2>6, NotRecorded, SessionUntouched DEF PayeesInv, Stays
<1>3. ASSUME NEW outcome \in Outcomes, BulkSettled(outcome)
      PROVE  Stays("payees")' /\ Grows /\ PayeesInv'
  <2> DEFINE run == screen.run
             call == screen.bulkTx.call
             gone == run.landed \cup ToSet(run.batches[run.done + 1])
             action == IF run.mode = "verify" THEN "added" ELSE "removed"
  <2>0. {"active", "done", "landed"} \subseteq DOMAIN run
    BY DEF PayeesInv, RunInv
  <2>1. screen.bulkTx.inFlight /\ Record(call, outcome)
    BY <1>3 DEF BulkSettled
  <2>2. Grows /\ (outcome = "success" => call \in ToSet(ledger'))
    BY <2>1, Recorded, SuccessIsApplied
  <2>3. call = Batch(run, run.done + 1) /\ run.done \in Nat /\ run.active /\ run.mode \in Modes2
    BY <2>1 DEF PayeesInv, RunInv
  <2>4. \A i \in 1 .. run.done : Batch(run, i) \in ToSet(ledger')
    BY <2>2 DEF PayeesInv, RunInv, Grows
  <2>5. \A p \in run.landed : \E c \in ToSet(ledger') : c.do = run.mode /\ p \in c.payees
    BY <2>2 DEF PayeesInv, RunInv, Grows
  <2>6. outcome = "success" =>
          \A p \in gone : \E c \in ToSet(ledger') : c.do = run.mode /\ p \in c.payees
    <3>1. call.do = run.mode /\ call.payees = ToSet(run.batches[run.done + 1])
      BY <2>3 DEF Batch
    <3> QED BY <2>2, <2>5, <3>1
  <2>7. ASSUME outcome # "success" PROVE Stays("payees")' /\ Grows /\ PayeesInv'
    <3>1. /\ DOMAIN screen' = DOMAIN screen /\ screen'.is = screen.is /\ screen'.mode = screen.mode
          /\ screen'.run = [run EXCEPT !.active = FALSE]
          /\ screen'.progress = Progress(run, outcome) /\ screen'.said = BulkBatchFailed(run)
          /\ screen'.bulkTx = Settled(screen.bulkTx, outcome)
          /\ screen'.tx = screen.tx /\ screen'.session = screen.session
      BY <1>3, <2>0, <2>7, PayeesHasFields DEF PayeesFields, BulkSettled
    <3>2. Hook(screen'.bulkTx) /\ ~screen'.bulkTx.inFlight
      BY <3>1, SettledHook DEF PayeesInv, RunInv
    <3>3. /\ screen'.run.done = run.done /\ screen'.run.mode = run.mode /\ ~screen'.run.active
          /\ screen'.run.batches = run.batches /\ screen'.run.from = run.from
          /\ screen'.run.landed = run.landed /\ DOMAIN screen'.run = DOMAIN run
      BY <3>1 DEF PayeesInv, RunInv
    <3>4. \A i \in 1 .. run.done : Batch(screen'.run, i) = Batch(run, i)
      BY <3>3 DEF Batch
    <3>5. screen'.progress[1] = run.done /\ screen'.said.batch = run.done + 1
      BY <2>7, <3>1 DEF Progress, BulkBatchFailed
    <3>6. RunInv'
      BY <2>2, <2>3, <2>4, <2>5, <3>1, <3>2, <3>3, <3>4, <3>5 DEF PayeesInv, RunInv
    <3> QED BY <2>2, <3>1, <3>6, SessionUntouched DEF PayeesInv, Stays
  <2>8. ASSUME outcome = "success",
               /\ screen'.run.done = run.done + 1 /\ screen'.run.mode = run.mode
               /\ screen'.run.batches = run.batches /\ screen'.run.from = run.from
               /\ screen'.run.landed = gone
        PROVE  /\ \A i \in Nat : Batch(screen'.run, i) = Batch(run, i)
               /\ \A i \in 1 .. screen'.run.done : Batch(screen'.run, i) \in ToSet(ledger')
    <3>1. \A i \in Nat : Batch(screen'.run, i) = Batch(run, i)
      BY <2>8 DEF Batch
    <3>2. ASSUME NEW i \in 1 .. run.done + 1 PROVE i \in 1 .. run.done \/ i = run.done + 1
      BY <2>3
    <3> QED BY <2>2, <2>3, <2>4, <2>8, <3>1, <3>2
  <2>9. screen.said = Nothing
    BY <2>3 DEF PayeesInv, RunInv
  <2>10. ASSUME outcome = "success", run.done + 1 # Len(run.batches)
         PROVE  Stays("payees")' /\ Grows /\ PayeesInv'
    <3>1. /\ DOMAIN screen' = DOMAIN screen /\ screen'.is = screen.is /\ screen'.mode = screen.mode
          /\ screen'.run = [run EXCEPT !.done = run.done + 1, !.landed = gone]
          /\ screen'.progress = Progress(run, outcome) /\ screen'.said = screen.said
          /\ screen'.bulkTx = [phase |-> "busy", inFlight |-> TRUE, call |-> Batch(run, run.done + 2)]
          /\ screen'.tx = screen.tx /\ screen'.session = screen.session
      BY <1>3, <2>0, <2>10, PayeesHasFields DEF PayeesFields, BulkSettled
    <3> HIDE DEF gone
    <3>2. /\ screen'.run.done = run.done + 1 /\ screen'.run.mode = run.mode
          /\ screen'.run.batches = run.batches /\ screen'.run.from = run.from
          /\ screen'.run.landed = gone
          /\ screen'.run.active = run.active /\ DOMAIN screen'.run = DOMAIN run
      BY <3>1 DEF PayeesInv, RunInv
    <3>3. /\ \A i \in Nat : Batch(screen'.run, i) = Batch(run, i)
          /\ \A i \in 1 .. screen'.run.done : Batch(screen'.run, i) \in ToSet(ledger')
      BY <2>8, <2>10, <3>2
    <3>4. /\ Hook(screen'.bulkTx) /\ run.active
          /\ screen'.bulkTx.call = Batch(screen'.run, screen'.run.done + 1)
      <4>1. screen'.run.done + 1 = run.done + 2 /\ run.done + 2 \in Nat
        BY <2>3, <3>2
      <4>2. Batch(screen'.run, screen'.run.done + 1) = Batch(run, run.done + 2)
        BY <3>3, <4>1
      <4>3. screen'.bulkTx.call = Batch(run, run.done + 2) /\ Hook(screen'.bulkTx)
        BY <3>1 DEF Hook
      <4> QED BY <2>3, <4>2, <4>3
    <3>5. screen'.progress[1] = run.done + 1
      BY <2>10, <3>1 DEF Progress
    <3>6. RunInv'
      BY <2>2, <2>3, <2>6, <2>9, <2>10, <3>1, <3>2, <3>3, <3>4, <3>5 DEF PayeesInv, RunInv
    <3> QED BY <2>2, <3>1, <3>6, SessionUntouched DEF PayeesInv, Stays
  <2>11. ASSUME outcome = "success", run.done + 1 = Len(run.batches)
         PROVE  Stays("payees")' /\ Grows /\ PayeesInv'
    <3>1. /\ DOMAIN screen' = DOMAIN screen /\ screen'.is = screen.is /\ screen'.mode = screen.mode
          /\ screen'.run = [run EXCEPT !.active = FALSE, !.done = run.done + 1, !.landed = gone]
          /\ screen'.progress = <<>> /\ screen'.said = screen.said
          /\ screen'.bulkTx = Settled(screen.bulkTx, outcome)
          /\ screen'.tx = screen.tx
      BY <1>3, <2>0, <2>11, PayeesHasFields DEF PayeesFields, BulkSettled
    <3>10. screen'.session = Listed(screen.session, gone, action)
      BY <1>3, <2>0, <2>11, PayeesHasFields DEF PayeesFields, BulkSettled
    <3>2. \A p \in gone : outcome = "success" =>
            \E c \in ToSet(ledger') : StandsFor([address |-> p, action |-> action], c)
      BY <2>3, <2>6 DEF StandsFor, Modes2
    <3> HIDE DEF gone, action
    <3>3. Hook(screen'.bulkTx) /\ ~screen'.bulkTx.inFlight
      BY <3>1, SettledHook DEF PayeesInv, RunInv
    <3>4. /\ screen'.run.done = run.done + 1 /\ screen'.run.mode = run.mode
          /\ screen'.run.batches = run.batches /\ screen'.run.from = run.from
          /\ screen'.run.landed = gone /\ DOMAIN screen'.run = DOMAIN run
      BY <3>1 DEF PayeesInv, RunInv
    <3>5. \A i \in 1 .. screen'.run.done : Batch(screen'.run, i) \in ToSet(ledger')
      BY <2>8, <2>11, <3>4
    <3>6. RunInv'
      BY <2>2, <2>3, <2>6, <2>9, <2>11, <3>1, <3>3, <3>4, <3>5 DEF PayeesInv, RunInv
    <3>7. RowsStand(screen.session, ToSet(ledger'))
      BY <2>2 DEF PayeesInv, SessionInv, RowsStand, Grows
    <3>8. RowsStand(screen'.session, ToSet(ledger'))
      BY <2>11, <3>10, <3>2, <3>7, ListedStands
    <3>9. SessionInv'
      BY <3>1, <3>8 DEF PayeesInv, SessionInv
    <3> QED BY <2>2, <3>1, <3>6, <3>9 DEF PayeesInv, Stays
  <2> QED BY <2>7, <2>10, <2>11
<1>4. CASE \E mode \in Modes2, text \in BulkTexts : EditBulk(mode, text)
  BY <1>4, PayeesOthersKept
<1>5. CASE PayeeCheckNext \/ PayeeNext \/ HandleLookupProgramme \/ ConfigRead
  BY <1>5, PayeesOthersKept DEF PayeeCheckNext
<1> QED BY <1>1, <1>2, <1>3, <1>4, <1>5 DEF PayeeBulkNext, Modes2

LEMMA PayeesSayIt == ASSUME PayeesInv PROVE ProgressIsReal /\ PayeesListed
<1>1. screen.said # Nothing => screen.said.batch - 1 = screen.run.done
  BY DEF PayeesInv, RunInv
<1>2. ProgressIsReal
  BY <1>1 DEF ProgressIsReal, PayeesInv, RunInv
<1>3. PayeesListed
  BY DEF PayeesListed, PayeesInv, SessionInv, RowsStand
<1> QED BY <1>2, <1>3

------------------------------------------------------------------------------
(* Funder *)

\* While the programme is Open every click that waits for its answer saw it so.  And as
\* long as the amount is not edited on the way, what waits, what is in flight and what
\* succeeded is of the amount in the field; `SameAmount` says so.
SameAmount ==
  /\ \A signing \in screen.signing : signing.amount = screen.amount
  /\ screen.tx.inFlight => screen.tx.call.amount = screen.amount
  /\ screen.tx.phase = "success" /\ (screen.step # "amount" \/ screen.signing # {}) =>
       screen.tx.call.amount = screen.amount
FunderFields == {"chain", "sample", "signing", "tx", "step", "amount", "edited", "refusal"}
FunderInv ==
  /\ FunderFields \subseteq DOMAIN screen
  /\ screen.tx.phase = "success" => screen.tx.call \in ToSet(ledger)
  /\ screen.edited \/ SameAmount
  /\ Hook(screen.tx)
  /\ ~screen.sample /\ screen.chain = "Open" => \A signing \in screen.signing : signing.asked = "Open"
  /\ screen.tx.call # Nothing =>
       /\ ~screen.sample => screen.tx.call.asked = "Open"
       /\ screen.tx.call.amount = screen.tx.call.confirmed

LEMMA FunderInvInit == ASSUME FunderScreenInit PROVE Stays("funder") /\ FunderInv
<1>1. /\ screen.is = "funder" /\ screen.tx = IdleTx /\ screen.signing = {}
      /\ FunderFields \cup {"is"} \subseteq DOMAIN screen
  BY DEF FunderScreenInit, FunderFields
<1>2. IdleTx.phase # "success"
  BY DEF IdleTx
<1> QED BY <1>1, <1>2, IdleHook DEF FunderInv, SameAmount, Stays

\* What a reset, a send and an answer make of the transaction.
LEMMA FunderHook ==
  ASSUME NEW t, Hook(t), NEW address, NEW call, NEW outcome
  PROVE  /\ ResetOn(t).phase = "idle"
         /\ SendAs(t, address, call).phase = "success" => SendAs(t, address, call) = t
         /\ SendAs(t, address, call).inFlight =>
              IF t.inFlight THEN SendAs(t, address, call) = t ELSE SendAs(t, address, call).call = call
         /\ Settled(t, outcome).phase = "success" => outcome = "success"
<1>1. SendAs(t, address, call) \in {t, [t EXCEPT !.phase = "error"],
                                    [phase |-> "busy", inFlight |-> TRUE, call |-> call]}
  BY DEF SendAs
<1>2. t.inFlight => SendAs(t, address, call) = t
  BY DEF SendAs
<1>3. ~t.inFlight /\ SendAs(t, address, call).inFlight => SendAs(t, address, call).call = call
  BY DEF SendAs, Hook
<1>4. SendAs(t, address, call).phase = "success" => SendAs(t, address, call) = t
  BY <1>1 DEF Hook
<1> QED BY <1>2, <1>3, <1>4 DEF Hook, ResetOn, Settled

LEMMA FunderKept ==
  ASSUME Stays("funder"), LedgerOK, FunderInv, FunderNext
  PROVE  Stays("funder")' /\ Grows /\ FunderInv'
<1> DEFINE Same == /\ DOMAIN screen' = DOMAIN screen /\ screen'.is = screen.is
                   /\ screen'.sample = screen.sample
<1> USE DEF Stays, FunderInv, FunderFields
\* What leaves the field, what waits and the transaction's call alone.
<1>1. ASSUME Same, ledger' = ledger, screen'.signing = screen.signing,
             screen'.chain = screen.chain \/ screen'.chain # "Open",
             \/ screen'.tx = screen.tx /\ screen'.step \in {screen.step, "amount"}
             \/ screen'.tx = ResetOn(screen.tx),
             \/ screen'.amount = screen.amount /\ screen'.edited = screen.edited
             \/ /\ screen'.edited = (screen.edited \/ OnItsWay) /\ screen'.step = "amount"
      PROVE  Stays("funder")' /\ Grows /\ FunderInv'
  <2>1. Hook(screen'.tx) /\ screen'.tx.call = screen.tx.call /\ screen'.tx.inFlight = screen.tx.inFlight
    BY <1>1, ResetHook
  <2>2. screen'.tx.phase = "success" =>
          screen.tx.phase = "success" /\ screen'.step \in {screen.step, "amount"}
    BY <1>1, FunderHook
  <2>3. screen'.edited \/ SameAmount'
    <3>1. CASE screen'.amount = screen.amount /\ screen'.edited = screen.edited
      BY <1>1, <2>1, <2>2, <3>1 DEF SameAmount
    <3>2. CASE screen'.edited = (screen.edited \/ OnItsWay) /\ screen'.step = "amount"
      BY <1>1, <2>1, <2>2, <3>2 DEF SameAmount, OnItsWay
    <3> QED BY <1>1, <3>1, <3>2
  <2> QED BY <1>1, <2>1, <2>2, <2>3, NotRecorded
<1>2. CASE ProgrammeMovesOn
  BY <1>1, <1>2 DEF ProgrammeMovesOn, Show
<1>3. CASE BalanceRead \/ Back \/ CheckAgain
  BY <1>1, <1>3 DEF BalanceRead, Back, CheckAgain, CheckPhase, Show
<1>11. ASSUME NEW amount, TypeAmount(amount) PROVE Stays("funder")' /\ Grows /\ FunderInv'
  <2>1. screen.step = "amount"
    BY <1>11 DEF TypeAmount, View
  <2>2. /\ Same /\ ledger' = ledger /\ screen'.signing = screen.signing
        /\ screen'.chain = screen.chain /\ screen'.tx = screen.tx /\ screen'.step = screen.step
        /\ screen'.edited = (screen.edited \/ OnItsWay)
    BY <1>11 DEF TypeAmount, Show
  <2> QED BY <1>1, <2>1, <2>2
<1>4. CASE ToConfirm \/ Retry
  BY <1>1, <1>4 DEF ToConfirm, Retry, CheckPhase, Show
<1>12. CASE StartOver
  <2>1. /\ Same /\ ledger' = ledger /\ screen'.signing = screen.signing
        /\ screen'.chain = screen.chain /\ screen'.tx = ResetOn(screen.tx) /\ screen'.step = "amount"
        /\ screen'.edited = (screen.edited \/ OnItsWay)
    BY <1>12 DEF StartOver, Show
  <2> QED BY <1>1, <2>1
<1>5. CASE \E asked \in screen.checks : PhaseChecked(asked)
  BY <1>1, <1>5 DEF PhaseChecked, Show
<1>6. CASE ConfirmAndSign
  <2> DEFINE new == [click |-> clicks + 1, by |-> me, amount |-> screen.amount, asked |-> screen.chain]
  <2>1. /\ Same /\ ledger' = ledger /\ screen'.chain = screen.chain
        /\ screen'.signing = screen.signing \cup {new} /\ screen'.tx = ResetOn(screen.tx)
        /\ screen'.amount = screen.amount /\ screen'.edited = (screen.edited /\ OnItsWay)
    BY <1>6 DEF ConfirmAndSign
  <2>2. new.asked = screen.chain /\ new.amount = screen.amount
    OBVIOUS
  <2>3. Hook(screen'.tx) /\ screen'.tx.call = screen.tx.call /\ screen'.tx.inFlight = screen.tx.inFlight
        /\ screen'.tx.phase # "success"
    BY <2>1, ResetHook, FunderHook
  <2> HIDE DEF new
  <2>4. screen'.edited \/ SameAmount'
    BY <2>1, <2>2, <2>3 DEF SameAmount, OnItsWay
  <2> QED BY <2>1, <2>2, <2>3, <2>4, NotRecorded
<1>7. ASSUME NEW signing \in screen.signing, SignRead(signing)
      PROVE  Stays("funder")' /\ Grows /\ FunderInv'
  <2> DEFINE call == Contribution(signing)
  <2>1. /\ Same /\ ledger' = ledger /\ screen'.chain = screen.chain
        /\ screen'.signing = screen.signing \ {signing} /\ screen'.amount = screen.amount
        /\ screen'.edited = screen.edited
        /\ \/ screen'.tx = screen.tx
           \/ /\ screen'.tx = SendAs(screen.tx, signing.by, call)
              /\ "Open" \in PhasesRead(signing.asked)
    <3>1. /\ Same /\ ledger' = ledger /\ screen'.chain = screen.chain
          /\ screen'.signing = screen.signing \ {signing} /\ screen'.amount = screen.amount
          /\ screen'.edited = screen.edited
      BY <1>7 DEF SignRead, Show
    <3>2. ASSUME NEW phase \in PhasesRead(signing.asked), phase = "Open",
                 screen' = [[screen EXCEPT !.signing = @ \ {signing}, !.step = "outcome"] EXCEPT
                              !.tx = SendAs(@, signing.by, call)]
          PROVE  screen'.tx = SendAs(screen.tx, signing.by, call)
      BY <3>2
    <3>3. ASSUME screen' = [[screen EXCEPT !.signing = @ \ {signing}, !.step = "outcome"] EXCEPT
                              !.refusal = TRUE]
          PROVE  screen'.tx = screen.tx
      BY <3>3
    <3> HIDE DEF call
    <3> QED BY <1>7, <3>1, <3>2, <3>3 DEF SignRead, Show, call
  <2>2. ~screen.sample /\ "Open" \in PhasesRead(signing.asked) => signing.asked = "Open"
    BY DEF PhasesRead
  <2>3. call.asked = signing.asked /\ call.amount = call.confirmed /\ call.amount = signing.amount
    BY DEF Contribution
  <2> HIDE DEF call
  <2>4. Hook(screen'.tx) /\ screen'.tx.call \in {screen.tx.call, call}
        /\ (screen'.tx.call # screen.tx.call => "Open" \in PhasesRead(signing.asked))
    BY <2>1, SendHook
  <2>5. /\ screen'.tx.phase = "success" => screen'.tx = screen.tx
        /\ screen'.tx.inFlight => IF screen.tx.inFlight THEN screen'.tx = screen.tx ELSE screen'.tx.call \in {screen.tx.call, call}
        /\ screen'.tx.inFlight /\ ~screen.tx.inFlight => screen'.tx.call = call
    BY <2>1, FunderHook
  <2>6. screen'.edited \/ SameAmount'
    BY <2>1, <2>3, <2>5 DEF SameAmount
  <2> QED BY <2>1, <2>2, <2>3, <2>4, <2>5, <2>6, NotRecorded
<1>8. ASSUME NEW outcome \in Outcomes, ContributionSettled(outcome)
      PROVE  Stays("funder")' /\ Grows /\ FunderInv'
  <2>1. /\ Same /\ screen'.chain = screen.chain /\ screen'.signing = screen.signing
        /\ screen'.tx = Settled(screen.tx, outcome) /\ Record(screen.tx.call, outcome)
        /\ screen'.amount = screen.amount /\ screen'.edited = screen.edited /\ screen.tx.inFlight
    BY <1>8 DEF ContributionSettled
  <2>2. Hook(screen'.tx) /\ screen'.tx.call = screen.tx.call /\ ~screen'.tx.inFlight
        /\ (screen'.tx.phase = "success" => outcome = "success")
    BY <2>1, SettledHook, FunderHook
  <2>3. Grows /\ (outcome = "success" => screen.tx.call \in ToSet(ledger'))
    BY <2>1, Recorded, SuccessIsApplied
  <2>4. screen'.edited \/ SameAmount'
    BY <2>1, <2>2 DEF SameAmount
  <2> QED BY <2>1, <2>2, <2>3, <2>4
<1> QED BY <1>2, <1>3, <1>4, <1>5, <1>6, <1>7, <1>8, <1>11, <1>12 DEF FunderNext

LEMMA FunderSaysIt == ASSUME FunderInv PROVE ContributionWasConfirmed /\ ReceiptIsOfContribution
<1>1. View = "done" => screen.tx.phase = "success" /\ screen.step # "amount"
  BY DEF View
<1> QED BY <1>1 DEF FunderInv, SameAmount, ContributionWasConfirmed, ReceiptIsOfContribution

------------------------------------------------------------------------------
(* The seeded programme's tools *)

PauseDos == {"pause", "unpause"}
PauseDo(pausing) == IF pausing THEN "pause" ELSE "unpause"

\* Of the calls that pause or unpause, the last in `s` does this.
LastPauseIs(s, do) ==
  \E i \in DOMAIN s : s[i].do = do /\ \A j \in i + 1 .. Len(s) : s[j].do \notin PauseDos

LEMMA PauseAppends ==
  ASSUME NEW s, s \in Seq(ToSet(s)), NEW call, NEW do
  PROVE  /\ call.do \notin PauseDos /\ LastPauseIs(s, do) => LastPauseIs(Append(s, call), do)
         /\ call.do = do => LastPauseIs(Append(s, call), do)
<1> DEFINE t == Append(s, call)
<1>1. /\ Len(t) = Len(s) + 1 /\ DOMAIN t = 1 .. Len(t) /\ t[Len(t)] = call
      /\ \A i \in 1 .. Len(s) : t[i] = s[i]
  OBVIOUS
<1>2. DOMAIN s = 1 .. Len(s) /\ Len(s) \in Nat
  OBVIOUS
<1> HIDE DEF t
<1>3. ASSUME call.do \notin PauseDos, LastPauseIs(s, do) PROVE LastPauseIs(t, do)
  <2>1. PICK i \in DOMAIN s : s[i].do = do /\ \A j \in i + 1 .. Len(s) : s[j].do \notin PauseDos
    BY <1>3 DEF LastPauseIs
  <2>2. i \in DOMAIN t /\ t[i].do = do
    BY <1>1, <1>2, <2>1
  <2>3. ASSUME NEW j \in i + 1 .. Len(t) PROVE t[j].do \notin PauseDos
    <3>1. j \in i + 1 .. Len(s) \/ j = Len(t)
      BY <1>1, <1>2, <2>1
    <3> QED BY <1>1, <1>2, <1>3, <2>1, <3>1
  <2> QED BY <2>2, <2>3 DEF LastPauseIs
<1>4. ASSUME call.do = do PROVE LastPauseIs(t, do)
  <2>1. Len(t) \in DOMAIN t /\ t[Len(t)].do = do
    BY <1>1, <1>2, <1>4
  <2>2. \A j \in Len(t) + 1 .. Len(t) : FALSE
    BY <1>1, <1>2
  <2> QED BY <2>1, <2>2 DEF LastPauseIs
<1> QED BY <1>3, <1>4 DEF t

\* The write that is in flight, or that succeeded last, is the one that `pausing`
\* was fixed for; the two other tools send nothing that pauses.
ToolsInv ==
  /\ {"refundTx", "pausing", "pauseTx", "cancelTx", "shownPaused"} \subseteq DOMAIN screen
  /\ Hook(screen.refundTx) /\ Hook(screen.pauseTx) /\ Hook(screen.cancelTx)
  /\ screen.refundTx.inFlight => screen.refundTx.call.do = "refund"
  /\ screen.cancelTx.inFlight => screen.cancelTx.call.do = "cancel"
  /\ screen.pauseTx.inFlight =>
       screen.pauseTx.phase = "busy" /\ screen.pauseTx.call.do = PauseDo(screen.pausing)
  /\ screen.pauseTx.phase = "success" => LastPauseIs(ledger, PauseDo(screen.pausing))

LEMMA ToolsInvInit == ASSUME ToolsInit PROVE Stays("tools") /\ ToolsInv
<1>1. /\ screen.is = "tools" /\ screen.refundTx = IdleTx /\ screen.pauseTx = IdleTx
      /\ screen.cancelTx = IdleTx
      /\ {"is", "refundTx", "pausing", "pauseTx", "cancelTx", "shownPaused"} \subseteq DOMAIN screen
  BY DEF ToolsInit
<1>2. IdleTx.phase # "success"
  BY DEF IdleTx
<1> QED BY <1>1, <1>2, IdleHook DEF ToolsInv, Stays

LEMMA ToolsKept ==
  ASSUME Stays("tools"), LedgerOK, ToolsInv, ToolsNext
  PROVE  Stays("tools")' /\ Grows /\ ToolsInv'
<1> DEFINE Same == DOMAIN screen' = DOMAIN screen /\ screen'.is = screen.is
<1> USE DEF Stays, ToolsInv
<1>1. CASE ClaimRefund \/ CancelProgramme
  <2> DEFINE refund == [do |-> "refund", donor |-> me]
             cancel == [do |-> "cancel"]
  <2>1. /\ Same /\ ledger' = ledger
        /\ screen'.pauseTx = screen.pauseTx /\ screen'.pausing = screen.pausing
        /\ \/ /\ screen'.refundTx = SendAs(screen.refundTx, me, refund)
              /\ screen'.cancelTx = screen.cancelTx
           \/ /\ screen'.cancelTx = SendAs(screen.cancelTx, me, cancel)
              /\ screen'.refundTx = screen.refundTx
    BY <1>1 DEF ClaimRefund, CancelProgramme, SendOn
  <2>2. refund.do = "refund" /\ cancel.do = "cancel"
    OBVIOUS
  <2> HIDE DEF refund, cancel
  <2>3. /\ Hook(screen'.refundTx) /\ Hook(screen'.cancelTx)
        /\ screen'.refundTx.inFlight => screen'.refundTx.call.do = "refund"
        /\ screen'.cancelTx.inFlight => screen'.cancelTx.call.do = "cancel"
    BY <2>1, <2>2, SendHook
  <2> QED BY <2>1, <2>3, NotRecorded
<1>2. CASE TogglePause
  <2>1. /\ Same /\ ledger' = ledger /\ screen'.pausing = ~screen.shownPaused
        /\ screen'.refundTx = screen.refundTx /\ screen'.cancelTx = screen.cancelTx
        /\ screen'.pauseTx = SendAs(screen.pauseTx, me, PauseCall)
        /\ me # NoAddress /\ screen.pauseTx.phase # "busy"
    BY <1>2 DEF TogglePause, SendOn, ToolsOffered, AtTools, Busy
  <2>2. screen'.pauseTx = [phase |-> "busy", inFlight |-> TRUE, call |-> PauseCall]
    BY <2>1 DEF SendAs
  <2>3. Hook(screen'.pauseTx) /\ screen'.pauseTx.phase = "busy" /\ screen'.pauseTx.call = PauseCall
    BY <2>2 DEF Hook
  <2>4. PauseCall.do = PauseDo(screen'.pausing)
    BY <2>1 DEF PauseCall, PauseDo
  <2> QED BY <2>1, <2>3, <2>4, NotRecorded
<1>3. CASE PausedRefetched \/ CancelDialog
  <2>1. /\ Same /\ ledger' = ledger /\ screen'.pausing = screen.pausing
        /\ screen'.refundTx = screen.refundTx /\ screen'.cancelTx = screen.cancelTx
        /\ screen'.pauseTx = screen.pauseTx
    BY <1>3 DEF PausedRefetched, CancelDialog, Show
  <2> QED BY <2>1, NotRecorded
<1>4. ASSUME NEW outcome \in Outcomes, ToolSettled(outcome)
      PROVE  Stays("tools")' /\ Grows /\ ToolsInv'
  <2>1. Same /\ screen'.pausing = screen.pausing
    BY <1>4 DEF ToolSettled
  <2>2. ASSUME NEW call, Record(call, outcome), call.do \notin PauseDos, NEW do
        PROVE  LastPauseIs(ledger, do) => LastPauseIs(ledger', do)
    BY <2>2, PauseAppends DEF Record, LedgerOK
  <2>3. CASE /\ screen.refundTx.inFlight /\ Record(screen.refundTx.call, outcome)
             /\ screen' = [screen EXCEPT !.refundTx = Settled(@, outcome),
                                         !.card.refunded = @ \/ outcome = "success"]
    <3>1. /\ screen'.refundTx = Settled(screen.refundTx, outcome)
          /\ screen'.cancelTx = screen.cancelTx /\ screen'.pauseTx = screen.pauseTx
      BY <2>3
    <3>2. Hook(screen'.refundTx) /\ ~screen'.refundTx.inFlight
      BY <3>1, SettledHook
    <3>3. screen.refundTx.call.do \notin PauseDos
      BY <2>3 DEF PauseDos
    <3> QED BY <2>1, <2>2, <2>3, <3>1, <3>2, <3>3, Recorded
  <2>4. CASE /\ screen.cancelTx.inFlight /\ Record(screen.cancelTx.call, outcome)
             /\ screen' = [screen EXCEPT !.cancelTx = Settled(@, outcome),
                             !.cancelOpen = IF outcome = "success" THEN FALSE ELSE @,
                             !.cancelled = @ \/ outcome = "success"]
    <3>1. /\ screen'.cancelTx = Settled(screen.cancelTx, outcome)
          /\ screen'.refundTx = screen.refundTx /\ screen'.pauseTx = screen.pauseTx
      BY <2>4
    <3>2. Hook(screen'.cancelTx) /\ ~screen'.cancelTx.inFlight
      BY <3>1, SettledHook
    <3>3. screen.cancelTx.call.do \notin PauseDos
      BY <2>4 DEF PauseDos
    <3> QED BY <2>1, <2>2, <2>4, <3>1, <3>2, <3>3, Recorded
  <2>5. CASE /\ screen.pauseTx.inFlight /\ Record(screen.pauseTx.call, outcome)
             /\ screen' = [screen EXCEPT !.pauseTx = Settled(@, outcome),
                  !.paused = IF Applied(outcome) THEN screen.pauseTx.call.do = "pause" ELSE @]
    <3>1. /\ screen'.pauseTx = Settled(screen.pauseTx, outcome)
          /\ screen'.refundTx = screen.refundTx /\ screen'.cancelTx = screen.cancelTx
      BY <2>5
    <3>2. Hook(screen'.pauseTx) /\ ~screen'.pauseTx.inFlight
      BY <3>1, SettledHook
    <3>3. outcome # "success" => screen'.pauseTx.phase # "success"
      BY <3>1 DEF Settled, Hook
    <3>4. outcome = "success" => LastPauseIs(ledger', PauseDo(screen.pausing))
      <4>1. outcome = "success" => ledger' = Append(ledger, screen.pauseTx.call)
        BY <2>5, SuccessIsApplied DEF Record
      <4>2. LastPauseIs(Append(ledger, screen.pauseTx.call), PauseDo(screen.pausing))
        BY <2>5, PauseAppends DEF LedgerOK
      <4> QED BY <4>1, <4>2
    <3> QED BY <2>1, <2>5, <3>1, <3>2, <3>3, <3>4, Recorded
  <2> QED BY <1>4, <2>3, <2>4, <2>5 DEF ToolSettled
<1> QED BY <1>1, <1>2, <1>3, <1>4 DEF ToolsNext

LEMMA ToolsSayIt == ASSUME ToolsInv PROVE PauseIsAnnouncedTruly
  BY DEF ToolsInv, PauseIsAnnouncedTruly, PauseAnnouncement, LastPauseIs, PauseDo, PauseDos

------------------------------------------------------------------------------
(* Applying, finalizing, voting, revoking, deploying: what is shown is the call *)

\* What a screen shows of a call that was applied, or nothing.
IsOnLedger(shown) == shown = Nothing \/ shown \in ToSet(ledger)

\* A step that shows what it showed, or nothing, or what it just recorded.
LEMMA ShownIsKept ==
  ASSUME LedgerOK, NEW before, NEW after, NEW call, NEW outcome, IsOnLedger(before),
         \/ ledger' = ledger /\ after \in {before, Nothing}
         \/ /\ Record(call, outcome)
            /\ after = IF outcome = "success" THEN call ELSE before
  PROVE  Grows /\ (after = Nothing \/ after \in ToSet(ledger'))
<1>1. CASE ledger' = ledger /\ after \in {before, Nothing}
  BY <1>1, NotRecorded DEF IsOnLedger
<1>2. CASE Record(call, outcome) /\ after = IF outcome = "success" THEN call ELSE before
  BY <1>2, Recorded, SuccessIsApplied DEF IsOnLedger, Grows
<1> QED BY <1>1, <1>2

ApplyInv == {"receipt", "tx"} \subseteq DOMAIN screen /\ IsOnLedger(screen.receipt)
LEMMA ApplyInvInit == ASSUME ApplyInit PROVE Stays("apply") /\ ApplyInv
  BY DEF ApplyInit, NoReceipt, Stays, ApplyInv, IsOnLedger

LEMMA ApplyKept ==
  ASSUME Stays("apply"), LedgerOK, ApplyInv, ApplyNext
  PROVE  Stays("apply")' /\ Grows /\ ApplyInv'
<1> DEFINE Same == DOMAIN screen' = DOMAIN screen /\ screen'.is = screen.is
<1> USE DEF Stays, ApplyInv
<1>1. CASE \/ OpenProgrammesRead \/ OpenProgrammesRefetched \/ EditApplication
           \/ HandleSubmit \/ HandleReset
  <2>1. Same /\ ledger' = ledger /\ screen'.receipt \in {screen.receipt, Nothing}
    BY <1>1 DEF OpenProgrammesRead, OpenProgrammesRefetched, EditApplication, HandleSubmit,
                HandleReset, Show, NoReceipt
  <2> QED BY <2>1, NotRecorded DEF IsOnLedger
<1>2. ASSUME NEW outcome \in Outcomes, ApplicationSettled(outcome)
      PROVE  Stays("apply")' /\ Grows /\ ApplyInv'
  <2> DEFINE call == screen.tx.call
  <2>1. /\ Same /\ Record(call, outcome)
        /\ screen'.receipt = IF outcome = "success" THEN call ELSE screen.receipt
    BY <1>2 DEF ApplicationSettled, ReceiptOf
  <2> HIDE DEF call
  <2>2. Grows /\ (screen'.receipt = Nothing \/ screen'.receipt \in ToSet(ledger'))
    BY <2>1, ShownIsKept
  <2> QED BY <2>1, <2>2 DEF IsOnLedger
<1> QED BY <1>1, <1>2 DEF ApplyNext

LEMMA ApplySaysIt == ASSUME ApplyInv PROVE ReceiptWasApplied
  BY DEF ApplyInv, IsOnLedger, ReceiptWasApplied, NoReceipt, ToSet

SettledInv == {"settled", "tx"} \subseteq DOMAIN screen /\ IsOnLedger(screen.settled)
LEMMA SettledInvInit == ASSUME FinalizeInit PROVE Stays("finalize") /\ SettledInv
  BY DEF FinalizeInit, Stays, SettledInv, IsOnLedger

LEMMA FinalizeKept ==
  ASSUME Stays("finalize"), LedgerOK, SettledInv, FinalizeNext
  PROVE  Stays("finalize")' /\ Grows /\ SettledInv'
<1> DEFINE Same == DOMAIN screen' = DOMAIN screen /\ screen'.is = screen.is
<1> USE DEF Stays, SettledInv
<1>1. CASE \/ ApplicationAnswers \/ PayeeAnswers \/ VerifyPayee \/ Finalize
           \/ \E a \in Applicants : SubmitApplicant(a)
           \/ \E mode \in {"Direct", "Open"} : ChooseMode(mode)
           \/ \E text \in Payees : EditPayee(text)
  <2>1. Same /\ ledger' = ledger /\ screen'.settled \in {screen.settled, Nothing}
    BY <1>1 DEF ApplicationAnswers, PayeeAnswers, VerifyPayee, Finalize, SubmitApplicant,
                ChooseMode, EditPayee, Show
  <2> QED BY <2>1, NotRecorded DEF IsOnLedger
<1>2. ASSUME NEW outcome \in Outcomes, FinalizeSettled(outcome)
      PROVE  Stays("finalize")' /\ Grows /\ SettledInv'
  <2> DEFINE call == screen.tx.call
  <2>1. /\ Same /\ Record(call, outcome)
        /\ screen'.settled = IF outcome = "success" THEN call ELSE screen.settled
    BY <1>2 DEF FinalizeSettled, AwardSaid
  <2> HIDE DEF call
  <2>2. Grows /\ (screen'.settled = Nothing \/ screen'.settled \in ToSet(ledger'))
    BY <2>1, ShownIsKept
  <2> QED BY <2>1, <2>2 DEF IsOnLedger
<1> QED BY <1>1, <1>2 DEF FinalizeNext

ToldInv == {"told", "tx"} \subseteq DOMAIN screen /\ IsOnLedger(screen.told)
LEMMA ToldInvInit == ASSUME VoteInit PROVE Stays("vote") /\ ToldInv
  BY DEF VoteInit, Stays, ToldInv, IsOnLedger

LEMMA VoteKept ==
  ASSUME Stays("vote"), LedgerOK, ToldInv, VoteNext
  PROVE  Stays("vote")' /\ Grows /\ ToldInv'
<1> DEFINE Same == DOMAIN screen' = DOMAIN screen /\ screen'.is = screen.is
<1> USE DEF Stays, ToldInv
<1>1. CASE \/ PhaseReadAnswers \/ ReviewerReadAnswers \/ VoteApplicationAnswers \/ SubmitReview
           \/ \E p \in Programmes : OpenProgramme(p)
           \/ \E a \in Applicants : SelectApplicant(a) \/ RememberApplicant(a)
           \/ \E amount \in 0 .. 2 : EditApproved(amount)
  <2>1. Same /\ ledger' = ledger /\ screen'.told = screen.told
    BY <1>1 DEF PhaseReadAnswers, ReviewerReadAnswers, VoteApplicationAnswers, SubmitReview,
                OpenProgramme, SelectApplicant, RememberApplicant, EditApproved, Show
  <2> QED BY <2>1, NotRecorded DEF IsOnLedger
<1>2. ASSUME NEW outcome \in Outcomes, ReviewSettled(outcome)
      PROVE  Stays("vote")' /\ Grows /\ ToldInv'
  <2> DEFINE call == screen.tx.call
  <2>1. /\ Same /\ Record(call, outcome)
        /\ screen'.told = IF outcome = "success" THEN call ELSE screen.told
    BY <1>2 DEF ReviewSettled, VoteAnnounced
  <2> HIDE DEF call
  <2>2. Grows /\ (screen'.told = Nothing \/ screen'.told \in ToSet(ledger'))
    BY <2>1, ShownIsKept
  <2> QED BY <2>1, <2>2 DEF IsOnLedger
<1> QED BY <1>1, <1>2 DEF VoteNext

RevokedInv == {"revoked", "tx", "unseen"} \subseteq DOMAIN screen /\ IsOnLedger(screen.revoked)
LEMMA RevokedInvInit == ASSUME RevokeInit PROVE Stays("revoke") /\ RevokedInv
  BY DEF RevokeInit, Stays, RevokedInv, IsOnLedger

LEMMA RevokeKept ==
  ASSUME Stays("revoke"), LedgerOK, RevokedInv, RevokeNext
  PROVE  Stays("revoke")' /\ Grows /\ RevokedInv'
<1> DEFINE Same == DOMAIN screen' = DOMAIN screen /\ screen'.is = screen.is
<1> USE DEF Stays, RevokedInv
<1>1. CASE LeaveRow \/ AskToConfirm \/ DoNotRevoke \/ DismissOutcome \/ HandleRevokeAttestation
  <2>1. Same /\ ledger' = ledger /\ screen'.revoked = screen.revoked
    BY <1>1 DEF LeaveRow, AskToConfirm, DoNotRevoke, DismissOutcome, HandleRevokeAttestation, Show
  <2> QED BY <2>1, NotRecorded DEF IsOnLedger
<1>2. ASSUME NEW outcome \in Outcomes, RevokeSettled(outcome)
      PROVE  Stays("revoke")' /\ Grows /\ RevokedInv'
  <2>1. PICK call \in {screen.tx.call, screen.unseen} :
          /\ Same /\ Record(call, outcome)
          /\ screen'.revoked = IF outcome = "success" THEN call ELSE screen.revoked
    BY <1>2 DEF RevokeSettled, RevokedAfter
  <2>2. Grows /\ (screen'.revoked = Nothing \/ screen'.revoked \in ToSet(ledger'))
    BY <2>1, ShownIsKept
  <2> QED BY <2>1, <2>2 DEF IsOnLedger
<1> QED BY <1>1, <1>2 DEF RevokeNext

\* What waits for a signature, and what is announced, is of the people in the fields.
DeployedInv ==
  /\ {"deployed", "tx", "step", "people"} \subseteq DOMAIN screen /\ IsOnLedger(screen.deployed)
  /\ Hook(screen.tx)
  /\ screen.tx.inFlight =>
       screen.tx.phase = "busy" /\ screen.step = 4 /\ screen.tx.call.people = screen.people
  /\ screen.deployed # Nothing =>
       screen.tx.phase = "success" /\ screen.deployed.people = screen.people
LEMMA DeployedInvInit == ASSUME DeployInit PROVE Stays("deploy") /\ DeployedInv
<1>1. /\ screen.is = "deploy" /\ screen.tx = IdleTx /\ screen.deployed = Nothing
      /\ {"is", "deployed", "tx", "step", "people"} \subseteq DOMAIN screen
  BY DEF DeployInit
<1> QED BY <1>1, IdleHook DEF Stays, DeployedInv, IsOnLedger

LEMMA DeployKept ==
  ASSUME Stays("deploy"), LedgerOK, DeployedInv, DeployNext
  PROVE  Stays("deploy")' /\ Grows /\ DeployedInv'
<1> DEFINE Same == DOMAIN screen' = DOMAIN screen /\ screen'.is = screen.is
           Unsent == Same /\ ledger' = ledger /\ screen'.tx = screen.tx /\ screen'.deployed = screen.deployed
<1> USE DEF Stays, DeployedInv
<1>1. CASE \/ SchemaAnswers \/ SchemaReadFails \/ ClockPasses
           \/ \E text \in Uids \cup {Malformed} : EnterDetails(text)
           \/ \E deadlines \in Schedules : EnterDeadlines(deadlines)
           \/ \E minimum \in 0 .. 1 : EnterFunds(minimum)
  <2>1. Unsent /\ screen'.step = screen.step /\ screen'.people = screen.people
    BY <1>1 DEF SchemaAnswers, SchemaReadFails, ClockPasses, EnterDetails, EnterDeadlines,
                EnterFunds, Show
  <2> QED BY <2>1, NotRecorded DEF IsOnLedger
\* The steps are not left while something is sent, nor after a success.
<1>2. ASSUME NEW people, EnterPeople(people) PROVE Stays("deploy")' /\ Grows /\ DeployedInv'
  <2>1. Unsent /\ screen'.step = screen.step /\ screen.step = 2
        /\ ~(screen.tx.phase = "success" /\ screen.deployed # Nothing)
    BY <1>2 DEF EnterPeople, AtDeploy, Show
  <2> QED BY <2>1, NotRecorded DEF IsOnLedger
<1>3. CASE GoOn \/ GoBack
  <2>1. Unsent /\ screen'.people = screen.people /\ screen.tx.phase # "busy"
    BY <1>3 DEF GoOn, GoBack, Busy, Show
  <2> QED BY <2>1, NotRecorded DEF IsOnLedger
<1>4. CASE ResetDeploy
  <2>1. /\ Same /\ ledger' = ledger /\ screen'.people = screen.people
        /\ screen'.tx = ResetOn(screen.tx) /\ screen'.deployed = Nothing
        /\ screen.tx.phase = "success"
    BY <1>4 DEF ResetDeploy, AtDeploy, Show
  <2>2. Hook(screen'.tx) /\ ~screen'.tx.inFlight
    BY <2>1, ResetHook
  <2> QED BY <2>1, <2>2, NotRecorded DEF IsOnLedger
<1>5. CASE Deploy
  <2> DEFINE call == CreateCall
             busy == [phase |-> "busy", inFlight |-> TRUE, call |-> call]
  <2>1. /\ Same /\ ledger' = ledger /\ screen'.people = screen.people /\ screen'.step = screen.step
        /\ screen.step = 4 /\ screen'.deployed = screen.deployed
        /\ screen'.tx = SendAs(screen.tx, me, call) /\ screen.tx.phase # "busy" /\ me # NoAddress
        /\ ~(screen.tx.phase = "success" /\ screen.deployed # Nothing)
    BY <1>5 DEF Deploy, SendOn, AtDeploy, Busy
  <2>2. call.people = screen.people
    BY DEF CreateCall
  <2> HIDE DEF call
  <2>3. screen'.tx = busy
    BY <2>1 DEF SendAs
  <2>4. busy.phase = "busy" /\ busy.call = call /\ Hook(busy)
    BY DEF Hook
  <2> HIDE DEF busy
  <2> QED BY <2>1, <2>2, <2>3, <2>4, NotRecorded DEF IsOnLedger
<1>6. ASSUME NEW outcome \in Outcomes, DeploySettled(outcome)
      PROVE  Stays("deploy")' /\ Grows /\ DeployedInv'
  <2> DEFINE call == screen.tx.call
  <2>1. /\ Same /\ Record(call, outcome) /\ screen'.people = screen.people /\ screen.tx.inFlight
        /\ screen'.step = screen.step /\ screen'.tx = Settled(screen.tx, outcome)
        /\ screen'.deployed = IF outcome = "success" THEN call ELSE screen.deployed
    BY <1>6 DEF DeploySettled
  <2>2. call.people = screen.people /\ screen.deployed = Nothing
    BY <2>1
  <2>3. Hook(screen'.tx) /\ ~screen'.tx.inFlight
    BY <2>1, SettledHook
  <2>4. outcome = "success" => screen'.tx.phase = "success"
    BY <2>1 DEF Settled, Hook
  <2> HIDE DEF call
  <2>5. Grows /\ (screen'.deployed = Nothing \/ screen'.deployed \in ToSet(ledger'))
    BY <2>1, ShownIsKept
  <2> QED BY <2>1, <2>2, <2>3, <2>4, <2>5 DEF IsOnLedger
<1> QED BY <1>1, <1>2, <1>3, <1>4, <1>5, <1>6 DEF DeployNext

LEMMA DeploySaysIt ==
  ASSUME DeployedInv, screen.is = "deploy" PROVE DeployShown /\ DeployDone \subseteq ToSet(ledger)
BY DEF DeployedInv, IsOnLedger, DeployShown, DeployDone

------------------------------------------------------------------------------
(* Signing claims, registering schemas: a list of the calls *)

SignedInv == {"signed", "tx"} \subseteq DOMAIN screen /\ screen.signed \subseteq ToSet(ledger)
LEMMA SignedInvInit == ASSUME ClaimInit PROVE Stays("claims") /\ SignedInv
  BY DEF ClaimInit, Stays, SignedInv

LEMMA ClaimKept ==
  ASSUME Stays("claims"), LedgerOK, SignedInv, ClaimNext
  PROVE  Stays("claims")' /\ Grows /\ SignedInv'
<1> DEFINE Same == DOMAIN screen' = DOMAIN screen /\ screen'.is = screen.is
<1> USE DEF Stays, SignedInv
<1>1. CASE CancelClaim \/ CheckBox \/ \E c \in Claims : OpenClaim(c) \/ DeclineClaim(c) \/ SignClaim(c)
  <2>1. ASSUME Same, ledger' = ledger, screen'.signed = screen.signed
        PROVE  Stays("claims")' /\ Grows /\ SignedInv'
    BY <2>1, NotRecorded
  <2>2. CASE CancelClaim \/ CheckBox
    BY <2>1, <2>2 DEF CancelClaim, CheckBox, CloseClaim, Show
  <2>3. ASSUME NEW c \in Claims, OpenClaim(c) PROVE Stays("claims")' /\ Grows /\ SignedInv'
    BY <2>1, <2>3 DEF OpenClaim, CloseClaim, Show
  <2>4. ASSUME NEW c \in Claims, DeclineClaim(c) PROVE Stays("claims")' /\ Grows /\ SignedInv'
    BY <2>1, <2>4 DEF DeclineClaim, Show
  <2>5. ASSUME NEW c \in Claims, SignClaim(c) PROVE Stays("claims")' /\ Grows /\ SignedInv'
    BY <2>1, <2>5 DEF SignClaim, Show
  <2> QED BY <1>1, <2>2, <2>3, <2>4, <2>5
<1>2. ASSUME NEW outcome \in Outcomes, ClaimSettled(outcome)
      PROVE  Stays("claims")' /\ Grows /\ SignedInv'
  <2> DEFINE call == screen.tx.call
  <2>1. /\ Same /\ Record(call, outcome)
        /\ screen'.signed = IF outcome = "success" THEN screen.signed \cup {call} ELSE screen.signed
    BY <1>2 DEF ClaimSettled, SignedClaim
  <2> HIDE DEF call
  <2> QED BY <2>1, Recorded, SuccessIsApplied DEF Grows
<1> QED BY <1>1, <1>2 DEF ClaimNext

RegisteredInv == {"session", "tx"} \subseteq DOMAIN screen /\ screen.session \subseteq ToSet(ledger)
LEMMA RegisteredInvInit == ASSUME RegisterInit PROVE Stays("register") /\ RegisteredInv
  BY DEF RegisterInit, Stays, RegisteredInv

LEMMA RegisterKept ==
  ASSUME Stays("register"), LedgerOK, RegisteredInv, RegisterNext
  PROVE  Stays("register")' /\ Grows /\ RegisteredInv'
<1> DEFINE Same == DOMAIN screen' = DOMAIN screen /\ screen'.is = screen.is
<1> USE DEF Stays, RegisteredInv
<1>1. CASE EditSchema \/ HandleRegister \/ RegisterAnother
  <2>1. Same /\ ledger' = ledger /\ screen'.session = screen.session
    BY <1>1 DEF EditSchema, HandleRegister, RegisterAnother, Show
  <2> QED BY <2>1, NotRecorded
<1>2. ASSUME NEW outcome \in Outcomes, RegisterSettled(outcome)
      PROVE  Stays("register")' /\ Grows /\ RegisteredInv'
  <2> DEFINE call == screen.tx.call
  <2>1. /\ Same /\ Record(call, outcome)
        /\ screen'.session = IF outcome = "success" THEN screen.session \cup {call} ELSE screen.session
    BY <1>2 DEF RegisterSettled, SchemaRow
  <2> HIDE DEF call
  <2> QED BY <2>1, Recorded, SuccessIsApplied DEF Grows
<1> QED BY <1>1, <1>2 DEF RegisterNext

------------------------------------------------------------------------------
(* Spending what was allocated *)

\* What is in flight is what was sent last, and stays so until it is sent again.
SpendInv ==
  /\ {"sent", "tx"} \subseteq DOMAIN screen /\ Hook(screen.tx)
  /\ screen.tx.inFlight => screen.tx.phase = "busy" /\ screen.sent = screen.tx.call
  /\ screen.tx.phase = "success" => screen.sent \in ToSet(ledger)
LEMMA SpendInvInit == ASSUME SpendInit PROVE Stays("spend") /\ SpendInv
<1>1. /\ screen.is = "spend" /\ screen.tx = IdleTx /\ {"is", "sent", "tx"} \subseteq DOMAIN screen
  BY DEF SpendInit
<1>2. IdleTx.phase # "success"
  BY DEF IdleTx
<1> QED BY <1>1, <1>2, IdleHook DEF Stays, SpendInv

LEMMA SpendKept ==
  ASSUME Stays("spend"), LedgerOK, SpendInv, SpendNext
  PROVE  Stays("spend")' /\ Grows /\ SpendInv'
<1> DEFINE Same == DOMAIN screen' = DOMAIN screen /\ screen'.is = screen.is
<1> USE DEF Stays, SpendInv
<1>1. CASE \/ PhaseOrEscrowRead \/ EditSpend \/ HandleCheckPayee
           \/ \E p \in screen.asking : PayeeChecked(p)
  <2>1. Same /\ ledger' = ledger /\ screen'.tx = screen.tx /\ screen'.sent = screen.sent
    BY <1>1 DEF PhaseOrEscrowRead, EditSpend, HandleCheckPayee, PayeeChecked, Show
  <2> QED BY <2>1, NotRecorded
<1>2. CASE HandleSend
  <2> DEFINE call == [do |-> "spend", payee |-> screen.payee, amount |-> screen.amount]
             busy == [phase |-> "busy", inFlight |-> TRUE, call |-> call]
  <2>1. /\ Same /\ ledger' = ledger /\ screen'.sent = call /\ screen.tx.phase # "busy"
        /\ me # NoAddress /\ screen'.tx = SendAs(ResetOn(screen.tx), me, call)
    BY <1>2 DEF HandleSend, CanSend, Busy, SendOn
  <2> HIDE DEF call
  <2>2. ~ResetOn(screen.tx).inFlight
    BY <2>1, ResetHook
  <2>3. screen'.tx = busy
    BY <2>1, <2>2 DEF SendAs
  <2>4. busy.phase = "busy" /\ busy.call = call /\ Hook(busy)
    BY DEF Hook
  <2> HIDE DEF busy
  <2> QED BY <2>1, <2>3, <2>4, NotRecorded
<1>3. ASSUME NEW outcome \in Outcomes, SpendSettled(outcome)
      PROVE  Stays("spend")' /\ Grows /\ SpendInv'
  <2> DEFINE call == screen.tx.call
  <2>1. /\ Same /\ Record(call, outcome) /\ screen.tx.inFlight
        /\ screen'.tx = Settled(screen.tx, outcome) /\ screen'.sent = screen.sent
    BY <1>3 DEF SpendSettled
  <2>2. Hook(screen'.tx) /\ ~screen'.tx.inFlight /\ screen.sent = call
    BY <2>1, SettledHook
  <2>3. screen'.tx.phase = "success" => outcome = "success"
    BY <2>1 DEF Settled, Hook
  <2> HIDE DEF call
  <2>4. Grows /\ (outcome = "success" => call \in ToSet(ledger'))
    BY <2>1, Recorded, SuccessIsApplied
  <2> QED BY <2>1, <2>2, <2>3, <2>4
<1> QED BY <1>1, <1>2, <1>3 DEF SpendNext

LEMMA SpendSaysIt == ASSUME SpendInv PROVE SpendIsReported
  BY DEF SpendInv, SpendIsReported

------------------------------------------------------------------------------
(* The screens that say nothing of a write *)

LEMMA WithdrawStays ==
  ASSUME Stays("withdraw"), LedgerOK, WithdrawNext PROVE Stays("withdraw")' /\ Grows
<1>1. CASE ApplicationRead \/ ApplicationFinalized \/ ConfirmDialog \/ HandleConfirm
  <2>1. Stays("withdraw")' /\ ledger' = ledger
    BY <1>1 DEF ApplicationRead, ApplicationFinalized, ConfirmDialog, HandleConfirm, Show, Stays
  <2> QED BY <2>1, NotRecorded
<1>2. ASSUME NEW outcome \in Outcomes, WithdrawSettled(outcome) PROVE Stays("withdraw")' /\ Grows
  <2>1. Stays("withdraw")' /\ Record(screen.tx.call, outcome)
    BY <1>2 DEF WithdrawSettled, Stays
  <2> QED BY <2>1, Recorded
<1> QED BY <1>1, <1>2 DEF WithdrawNext

LEMMA ReleaseStays ==
  ASSUME Stays("award"), LedgerOK, ReleaseNext PROVE Stays("award")' /\ Grows
<1>1. CASE \/ OthersRelease \/ OpenReleaseForm \/ CancelRelease \/ HandleRelease
           \/ ReleaseSucceeded \/ AwardReread \/ \E text \in {"proof", Malformed} : EditRelease(text)
  <2>1. Stays("award")' /\ ledger' = ledger
    BY <1>1 DEF OthersRelease, OpenReleaseForm, CancelRelease, HandleRelease, ReleaseSucceeded,
                Closed, AwardReread, EditRelease, Show, Stays
  <2> QED BY <2>1, NotRecorded
<1>2. ASSUME NEW outcome, ReleaseFailed(outcome) \/ (ReleaseApplied /\ outcome = "success")
      PROVE  Stays("award")' /\ Grows
  <2>1. Stays("award")' /\ Record(screen.tx.call, outcome)
    BY <1>2 DEF ReleaseFailed, ReleaseApplied, Stays
  <2> QED BY <2>1, Recorded
<1> QED BY <1>1, <1>2 DEF ReleaseNext

LEMMA ConfigStays ==
  ASSUME Stays("config"), LedgerOK, ConfigNext PROVE Stays("config")' /\ Grows
<1>1. CASE \/ SettingRead \/ EditorClosed \/ OpenAdminModal \/ CloseAdminModal \/ SendSetting
           \/ \E text \in {Other, Malformed} : EditSetting(text)
  <2>1. Stays("config")' /\ ledger' = ledger
    BY <1>1 DEF SettingRead, EditorClosed, OpenAdminModal, CloseAdminModal, SendSetting,
                EditSetting, Show, Stays
  <2> QED BY <2>1, NotRecorded
<1>2. ASSUME NEW outcome \in Outcomes, SettingSettled(outcome) PROVE Stays("config")' /\ Grows
  <2>1. PICK call \in {screen.tx.call, screen.unseen} : Stays("config")' /\ Record(call, outcome)
    BY <1>2 DEF SettingSettled, Stays
  <2> QED BY <2>1, Recorded
<1> QED BY <1>1, <1>2 DEF ConfigNext

LEMMA WritersStay ==
  ASSUME Stays("writers"), LedgerOK, WritersNext PROVE Stays("writers")' /\ Grows
<1>1. CASE \/ RecordAdminRead \/ WriterStatusAnswers \/ HandleAdd \/ HandleRemove
           \/ \E text \in Programmes \cup {Malformed} : CheckWriter(text) \/ EditWriter(text)
  <2>1. Stays("writers")' /\ ledger' = ledger
    BY <1>1 DEF RecordAdminRead, WriterStatusAnswers, HandleAdd, HandleRemove, CheckWriter,
                EditWriter, Show, Stays
  <2> QED BY <2>1, NotRecorded
<1>2. ASSUME NEW outcome \in Outcomes, WriterSettled(outcome) PROVE Stays("writers")' /\ Grows
  <2>1. PICK form \in {"adding", "removing"} :
          Stays("writers")' /\ Record(screen[form].call, outcome)
    BY <1>2 DEF WriterSettled, Stays
  <2> QED BY <2>1, Recorded
<1> QED BY <1>1, <1>2 DEF WritersNext

LEMMA BoardStays == ASSUME Stays("board"), LedgerOK, BoardNext PROVE Stays("board")' /\ Grows
<1>1. Stays("board")' /\ ledger' = ledger
  BY DEF BoardNext, FinalizeRow, RowFinalized, Show, Stays
<1> QED BY <1>1, NotRecorded

LEMMA RolesStay == ASSUME Stays("roles"), LedgerOK, RolesScanned PROVE Stays("roles")' /\ Grows
<1>1. Stays("roles")' /\ ledger' = ledger
  BY DEF RolesScanned, Show, Stays
<1> QED BY <1>1, NotRecorded

LEMMA LookupStays == ASSUME Stays("lookup"), LedgerOK, LookupNext PROVE Stays("lookup")' /\ Grows
<1>1. Stays("lookup")' /\ ledger' = ledger
  BY DEF LookupNext, SubmitQuery, AttestationRead, SearchAttestations, SpentAnswers, LookupTab,
         EditQuery, Pick, SelectProgramme, Show, Stays
<1> QED BY <1>1, NotRecorded

LEMMA LifetimesStay ==
  ASSUME Stays("lifetimes"), LedgerOK, LifetimesNext PROVE Stays("lifetimes")' /\ Grows
<1>1. Stays("lifetimes")' /\ ledger' = ledger
  BY DEF LifetimesNext, AwardsNamed, LifetimesAnswer, ChooseLifetimes, RetryLifetimes, Show, Stays
<1> QED BY <1>1, NotRecorded

LEMMA ReceiptStays == ASSUME Stays("receipt"), LedgerOK, ReceiptNext PROVE Stays("receipt")' /\ Grows
<1> USE DEF Stays, Show
<1>1. ASSUME NEW text, TypeHash(text) PROVE Stays("receipt")' /\ Grows
  BY <1>1, NotRecorded DEF TypeHash
<1>2. CASE RebuildReceipt
  BY <1>2, NotRecorded DEF RebuildReceipt
<1>3. ASSUME NEW hash, ReceiptAnswers(hash) PROVE Stays("receipt")' /\ Grows
  BY <1>3, NotRecorded DEF ReceiptAnswers
<1> QED BY <1>1, <1>2, <1>3 DEF ReceiptNext

LEMMA DirectoryStays ==
  ASSUME Stays("directory"), LedgerOK, DirectoryNext PROVE Stays("directory")' /\ Grows
<1> USE DEF Stays, Show
<1>1. CASE IndexAnswers \/ RegistryAnswers \/ ToggleSamples
  BY <1>1, NotRecorded DEF IndexAnswers, RegistryAnswers, ToggleSamples, ListsProgrammes
<1>2. CASE RetryDirectory \/ ClearFilters \/ AnnounceCount
  BY <1>2, NotRecorded DEF RetryDirectory, ClearFilters, AnnounceCount
<1>3. ASSUME NEW id, ReadLands(id) PROVE Stays("directory")' /\ Grows
  BY <1>3, NotRecorded DEF ReadLands
<1>4. ASSUME NEW query, NEW phase, NEW sort, SetFilters(query, phase, sort)
      PROVE  Stays("directory")' /\ Grows
  BY <1>4, NotRecorded DEF SetFilters
<1> QED BY <1>1, <1>2, <1>3, <1>4 DEF DirectoryNext

LEMMA DetailStays == ASSUME Stays("detail"), LedgerOK, DetailNext PROVE Stays("detail")' /\ Grows
<1>1. Stays("detail")' /\ ledger' = ledger
  BY DEF DetailNext, DetailConfigRead, ConfigFails, RetryConfig, RefetchMoney, MinutePasses,
         HandleFetch, OpenDetail, MoneyAnswers, EditUrl, DocumentArrives, Show, Stays
<1> QED BY <1>1, NotRecorded

LEMMA ListStays == ASSUME Stays("list"), LedgerOK, ListNext PROVE Stays("list")' /\ Grows
<1> USE DEF Stays, Show
<1>1. CASE ListIndexAnswers \/ ListEffect
  BY <1>1, NotRecorded DEF ListIndexAnswers, ListEffect
<1>2. CASE ListSettles
  BY <1>2, NotRecorded DEF ListSettles
<1>3. CASE ListTransactionSuccess \/ RetryList
  BY <1>3, NotRecorded DEF ListTransactionSuccess, RetryList, Refetched
<1>4. ASSUME NEW p, EntryMoves(p) \/ EntryFails(p) PROVE Stays("list")' /\ Grows
  BY <1>4, NotRecorded DEF EntryMoves, EntryFails
<1>5. ASSUME NEW p, EntryAnswers(p) \/ DetailAnswers(p) PROVE Stays("list")' /\ Grows
  BY <1>5, NotRecorded DEF EntryAnswers, DetailAnswers
<1> QED BY <1>1, <1>2, <1>3, <1>4, <1>5 DEF ListNext

LEMMA AwardsStay == ASSUME Stays("awards"), LedgerOK, AwardsNext PROVE Stays("awards")' /\ Grows
<1>1. Stays("awards")' /\ ledger' = ledger
  BY DEF AwardsNext, AwardsEffect, AwardsAnswer, AwardsFail, RowEffect, RowAnswers, AwardMoves,
         OpenAwards, Show, Stays
<1> QED BY <1>1, NotRecorded

------------------------------------------------------------------------------
(* The spend policy *)

PolicyDos == {"install", "configure", "allow", "deny"}
AllowedOnLedger(p) == \E call \in ToSet(ledger) : call.do = "allow" /\ call.payee = p

PolicyInv ==
  /\ {"tx", "session", "installed", "steward", "allowed"} \subseteq DOMAIN screen /\ Hook(screen.tx)
  /\ screen.tx.inFlight => screen.tx.call.do \in PolicyDos
  /\ \A p \in screen.session : AllowedOnLedger(p)

LEMMA PolicyInvInit == ASSUME PolicyInit PROVE Stays("policy") /\ PolicyInv
<1>1. /\ screen.is = "policy" /\ screen.tx = IdleTx /\ screen.session = {}
      /\ {"is", "tx", "session", "installed", "steward", "allowed"} \subseteq DOMAIN screen
  BY DEF PolicyInit
<1> QED BY <1>1, IdleHook DEF PolicyInv, Stays

LEMMA PolicyKept ==
  ASSUME Stays("policy"), LedgerOK, PolicyInv, PolicyNext
  PROVE  Stays("policy")' /\ Grows /\ PolicyInv'
<1> DEFINE Same == DOMAIN screen' = DOMAIN screen /\ screen'.is = screen.is
<1> USE DEF Stays, PolicyInv
<1>1. CASE \/ PolicyReadsAnswer \/ \E w \in Wallets2 : HandleCheckWallet(w)
           \/ \E text \in Wallets2 \cup {Malformed} : EditSteward(text)
  <2>1. Same /\ ledger' = ledger /\ screen'.session = screen.session /\ screen'.tx = screen.tx
    BY <1>1 DEF PolicyReadsAnswer, HandleCheckWallet, EditSteward, Show
  <2> QED BY <2>1, NotRecorded DEF AllowedOnLedger
<1>2. CASE HandleSetUp \/ HandleConfigure \/ \E p \in Payees : HandleAddPayee(p) \/ HandleRemovePayee(p)
  <2>1. Same /\ ledger' = ledger /\ screen'.session = screen.session
    BY <1>2 DEF HandleSetUp, HandleConfigure, HandleAddPayee, HandleRemovePayee
  <2>2. \E call : call.do \in PolicyDos /\ screen'.tx = SendAs(screen.tx, me, call)
    <3>1. CASE HandleSetUp
      <4> DEFINE call == [do |-> "install", by |-> me, wallet |-> Target]
      <4>1. call.do \in PolicyDos
        BY DEF PolicyDos
      <4>2. screen'.tx = SendAs(screen.tx, me, call)
        BY <3>1 DEF HandleSetUp, SendOn
      <4> HIDE DEF call
      <4> QED BY <4>1, <4>2
    <3>2. CASE HandleConfigure
      <4> DEFINE call == [do |-> "configure", by |-> me, steward |-> EffectiveSteward, wallet |-> Target]
      <4>1. call.do \in PolicyDos
        BY DEF PolicyDos
      <4>2. screen'.tx = SendAs(screen.tx, me, call)
        BY <3>2 DEF HandleConfigure, SendOn
      <4> HIDE DEF call
      <4> QED BY <4>1, <4>2
    <3>3. ASSUME NEW p \in Payees, HandleAddPayee(p)
          PROVE  \E call : call.do \in PolicyDos /\ screen'.tx = SendAs(screen.tx, me, call)
      <4> DEFINE call == [do |-> "allow", by |-> me, steward |-> screen.policySaid, wallet |-> Target,
                          payee |-> p]
      <4>1. call.do \in PolicyDos
        BY DEF PolicyDos
      <4>2. screen'.tx = SendAs(screen.tx, me, call)
        BY <3>3 DEF HandleAddPayee, SendOn
      <4> HIDE DEF call
      <4> QED BY <4>1, <4>2
    <3>4. ASSUME NEW p \in Payees, HandleRemovePayee(p)
          PROVE  \E call : call.do \in PolicyDos /\ screen'.tx = SendAs(screen.tx, me, call)
      <4> DEFINE call == [do |-> "deny", by |-> me, steward |-> screen.policySaid, wallet |-> Target,
                          payee |-> p]
      <4>1. call.do \in PolicyDos
        BY DEF PolicyDos
      <4>2. screen'.tx = SendAs(screen.tx, me, call)
        BY <3>4 DEF HandleRemovePayee, SendOn
      <4> HIDE DEF call
      <4> QED BY <4>1, <4>2
    <3> QED BY <1>2, <3>1, <3>2, <3>3, <3>4
  <2>3. Hook(screen'.tx) /\ (screen'.tx.inFlight => screen'.tx.call.do \in PolicyDos)
    <3>1. PICK call : call.do \in PolicyDos /\ screen'.tx = SendAs(screen.tx, me, call)
      BY <2>2
    <3> QED BY <3>1, SendHook
  <2> QED BY <2>1, <2>3, NotRecorded DEF AllowedOnLedger
<1>3. ASSUME NEW outcome \in Outcomes, PolicySettled(outcome)
      PROVE  Stays("policy")' /\ Grows /\ PolicyInv'
  <2> DEFINE call == screen.tx.call
             onChain == IF Applied(outcome) THEN PolicyApplied(screen, call) ELSE screen
             after == IF outcome = "success" THEN SessionAfter(screen, call) ELSE screen.session
  <2>1. screen.tx.inFlight /\ Record(call, outcome) /\ call.do \in PolicyDos
    BY <1>3 DEF PolicySettled
  <2>2. /\ DOMAIN onChain = DOMAIN screen /\ onChain.is = screen.is /\ onChain.tx = screen.tx
        /\ onChain.session = screen.session
    <3>1. \A s : s = PolicyApplied(screen, call) =>
            /\ DOMAIN s = DOMAIN screen /\ s.is = screen.is /\ s.tx = screen.tx
            /\ s.session = screen.session
      BY <2>1 DEF PolicyApplied, PolicyDos
    <3> QED BY <3>1
  <2>3. screen' = [onChain EXCEPT !.tx = Settled(@, outcome),
                     !.session = IF outcome = "success" THEN SessionAfter(screen, call) ELSE @]
    BY <1>3 DEF PolicySettled
  <2> HIDE DEF onChain
  <2>4. Same /\ screen'.tx = Settled(screen.tx, outcome) /\ screen'.session = after
    BY <2>2, <2>3
  <2>5. Hook(screen'.tx) /\ ~screen'.tx.inFlight
    BY <2>4, SettledHook
  <2>6. Grows /\ (Applied(outcome) => call \in ToSet(ledger'))
    BY <2>1, Recorded
  <2>7. ASSUME NEW p \in after PROVE AllowedOnLedger(p)'
    <3>1. p \in screen.session \/ (outcome = "success" /\ call.do = "allow" /\ p = call.payee)
      BY <2>1, <2>7 DEF SessionAfter, PolicyDos
    <3> QED BY <2>6, <3>1, SuccessIsApplied DEF AllowedOnLedger, Grows
  <2> QED BY <2>4, <2>5, <2>6, <2>7
<1> QED BY <1>1, <1>2, <1>3 DEF PolicyNext

LEMMA PolicySaysIt == ASSUME PolicyInv PROVE PolicyListed
  BY DEF PolicyInv, PolicyListed, AllowedOnLedger, ToSet

------------------------------------------------------------------------------
(* Keepalive *)

IsKeepalive(call, key) == call.do = "keepalive" /\ call.key = key

\* A call for the entries of the programme that is chosen, unless others are crossed.
OfChosen(call, key) == key = "programme" /\ ~screen.crossed => call.of = screen.programme
KeptOnLedger(key) == \E call \in ToSet(ledger) : IsKeepalive(call, key) /\ OfChosen(call, key)

\* What a target's transaction sends, and what the loop has still to send, is a
\* call for that target; the row of a target is done if one was applied.
KeepaliveInv ==
  /\ {"rows", "txs", "queue", "current", "bulkAt", "bulk", "programme", "crossed"} \subseteq DOMAIN screen
  /\ DOMAIN screen.rows = TargetKeys /\ DOMAIN screen.txs = TargetKeys
  /\ \A key \in TargetKeys :
       /\ Hook(screen.txs[key])
       /\ screen.txs[key].inFlight =>
            IsKeepalive(screen.txs[key].call, key) /\ OfChosen(screen.txs[key].call, key)
       /\ screen.rows[key] = "done" => KeptOnLedger(key)
  /\ \A call \in screen.queue :
       call.key \in TargetKeys /\ IsKeepalive(call, call.key) /\ OfChosen(call, call.key)

LEMMA KeepaliveInvInit == ASSUME KeepaliveInit PROVE Stays("keepalive") /\ KeepaliveInv
<1>1. /\ screen.is = "keepalive" /\ screen.rows = NoRows /\ screen.queue = {}
      /\ screen.txs = [key \in TargetKeys |-> IdleTx]
      /\ {"is", "rows", "txs", "queue", "current", "bulkAt", "bulk", "programme", "crossed"}
           \subseteq DOMAIN screen
  BY DEF KeepaliveInit
<1> HIDE DEF TargetKeys
<1>2. \A key \in TargetKeys : screen.rows[key] # "done" /\ screen.txs[key] = IdleTx
  BY <1>1 DEF NoRows
<1> QED BY <1>1, <1>2, IdleHook DEF KeepaliveInv, Stays, NoRows

LEMMA KeepaliveCall ==
  ASSUME NEW key PROVE IsKeepalive(KeepaliveOf(key), key) /\ OfChosen(KeepaliveOf(key), key)
BY DEF IsKeepalive, OfChosen, KeepaliveOf

\* One target is begun; what else the step changes does not matter here.
LEMMA RunTargetKeeps ==
  ASSUME Stays("keepalive"), KeepaliveInv, Grows, NEW s, NEW call, NEW queue,
         DOMAIN s = DOMAIN screen, s.is = screen.is, s.rows = screen.rows, s.txs = screen.txs,
         s.programme = screen.programme, s.crossed = screen.crossed,
         call.key \in TargetKeys, IsKeepalive(call, call.key), OfChosen(call, call.key),
         queue \subseteq screen.queue,
         screen'.programme = RunTarget(s, call).programme, screen'.crossed = RunTarget(s, call).crossed,
         DOMAIN screen' = DOMAIN RunTarget(s, call), screen'.is = RunTarget(s, call).is,
         screen'.rows = RunTarget(s, call).rows, screen'.txs = RunTarget(s, call).txs,
         screen'.queue = queue
  PROVE  Stays("keepalive")' /\ KeepaliveInv'
<1> DEFINE key == call.key
           busy == [phase |-> "busy", inFlight |-> TRUE, call |-> call]
<1>1. busy.call = call /\ Hook(busy)
  BY DEF Hook
<1> HIDE DEF busy
<1>2. /\ DOMAIN screen' = DOMAIN screen /\ screen'.is = screen.is
      /\ \/ screen'.rows = [screen.rows EXCEPT ![key] = "error"] /\ screen'.txs = screen.txs
         \/ /\ screen'.rows = [screen.rows EXCEPT ![key] = "pending"]
            /\ screen'.txs = [screen.txs EXCEPT ![key] = busy]
      /\ screen'.programme = screen.programme /\ screen'.crossed = screen.crossed
  BY DEF RunTarget, Stays, KeepaliveInv, busy
<1>3. DOMAIN screen'.rows = TargetKeys /\ DOMAIN screen'.txs = TargetKeys
  BY <1>2 DEF KeepaliveInv
<1>4. ASSUME NEW k \in TargetKeys
      PROVE  /\ Hook(screen'.txs[k])
             /\ screen'.txs[k].inFlight =>
                  IsKeepalive(screen'.txs[k].call, k) /\ OfChosen(screen.txs[k].call, k)'
             /\ screen'.rows[k] = "done" => KeptOnLedger(k)'
  <2>1. screen'.txs[k] = screen.txs[k] \/ (k = key /\ screen'.txs[k] = busy)
    BY <1>2 DEF KeepaliveInv
  <2>2. screen'.rows[k] = "done" => screen.rows[k] = "done"
    BY <1>2 DEF KeepaliveInv
  <2>3. screen'.programme = screen.programme /\ screen'.crossed = screen.crossed
    BY <1>2
  <2>4. screen'.txs[k].inFlight =>
          IsKeepalive(screen'.txs[k].call, k) /\ OfChosen(screen'.txs[k].call, k)
    BY <1>1, <2>1 DEF KeepaliveInv
  <2>5. \A c : OfChosen(c, k) => OfChosen(c, k)'
    BY <2>3 DEF OfChosen
  <2>6. KeptOnLedger(k) => KeptOnLedger(k)'
    BY <2>5 DEF KeptOnLedger, Grows
  <2>7. screen'.rows[k] = "done" => KeptOnLedger(k)'
    BY <2>2, <2>6 DEF KeepaliveInv
  <2>8. Hook(screen'.txs[k])
    BY <1>1, <2>1 DEF KeepaliveInv
  <2>9. screen'.txs[k].inFlight => OfChosen(screen.txs[k].call, k)'
    BY <2>3, <2>4 DEF OfChosen
  <2> QED BY <2>4, <2>7, <2>8, <2>9
<1>5. \A c \in screen'.queue : c.key \in TargetKeys /\ IsKeepalive(c, c.key) /\ OfChosen(c, c.key)'
  BY <1>2 DEF KeepaliveInv, OfChosen
<1> QED BY <1>2, <1>3, <1>4, <1>5 DEF Stays, KeepaliveInv

LEMMA KeepaliveKept ==
  ASSUME Stays("keepalive"), LedgerOK, KeepaliveInv, KeepaliveNext
  PROVE  Stays("keepalive")' /\ Grows /\ KeepaliveInv'
<1> DEFINE Same == DOMAIN screen' = DOMAIN screen /\ screen'.is = screen.is
<1>1. CASE PhaseAnswers
  <2>1. /\ Same /\ ledger' = ledger /\ screen'.txs = screen.txs /\ screen'.queue = screen.queue
        /\ screen'.rows = screen.rows /\ screen'.programme = screen.programme
        /\ screen'.crossed = screen.crossed
    BY <1>1 DEF PhaseAnswers, Show, Stays, KeepaliveInv
  <2> QED BY <2>1, NotRecorded DEF Stays, KeepaliveInv, KeptOnLedger, OfChosen
\* Nothing is done of the programme chosen now, and nothing that waits or is in flight is
\* of another one unless they are crossed.
<1>6. CASE ChooseKept
  <2>1. /\ Same /\ ledger' = ledger /\ screen'.txs = screen.txs /\ screen'.queue = screen.queue
        /\ screen'.rows = NoRows
        /\ screen'.crossed = (screen.queue # {} \/ \E key \in TargetKeys : screen.txs[key].inFlight)
    BY <1>6 DEF ChooseKept, Show, Stays, KeepaliveInv
  <2> HIDE DEF TargetKeys
  <2>2. /\ DOMAIN screen'.rows = TargetKeys
        /\ \A key \in TargetKeys : screen'.rows[key] # "done"
    BY <2>1 DEF NoRows
  <2>3. screen'.crossed \/ (screen.queue = {} /\ \A key \in TargetKeys : ~screen.txs[key].inFlight)
    BY <2>1
  <2> QED BY <2>1, <2>2, <2>3, NotRecorded DEF Stays, KeepaliveInv, OfChosen
<1>2. CASE ExtendAll
  <2>1. /\ Same /\ ledger' = ledger /\ screen'.txs = screen.txs /\ screen'.rows = screen.rows
        /\ screen'.programme = screen.programme /\ screen'.crossed = screen.crossed
        /\ \E items \in SUBSET TargetKeys : screen'.queue = {KeepaliveOf(key) : key \in items}
    BY <1>2 DEF ExtendAll, Stays, KeepaliveInv
  <2>2. \A key \in TargetKeys :
          /\ KeepaliveOf(key).key = key /\ IsKeepalive(KeepaliveOf(key), key)
          /\ OfChosen(KeepaliveOf(key), key)
    BY KeepaliveCall DEF IsKeepalive
  <2>3. \A call : \A key : OfChosen(call, key) => OfChosen(call, key)'
    BY <2>1 DEF OfChosen
  <2> QED BY <2>1, <2>2, <2>3, NotRecorded DEF Stays, KeepaliveInv, KeptOnLedger
<1>3. ASSUME NEW key \in TargetKeys, ExtendTarget(key)
      PROVE  Stays("keepalive")' /\ Grows /\ KeepaliveInv'
  <2> DEFINE call == KeepaliveOf(key)
             s == [screen EXCEPT !.bulk = FALSE]
  <2>1. screen' = RunTarget(s, call) /\ ledger' = ledger
    BY <1>3 DEF ExtendTarget
  <2>2. /\ DOMAIN s = DOMAIN screen /\ s.is = screen.is /\ s.rows = screen.rows
        /\ s.txs = screen.txs /\ s.queue = screen.queue
        /\ s.programme = screen.programme /\ s.crossed = screen.crossed
    BY DEF Stays, KeepaliveInv
  <2>3. call.key = key /\ IsKeepalive(call, key) /\ OfChosen(call, key)
    BY KeepaliveCall DEF IsKeepalive
  <2> HIDE DEF call, s
  <2>4. screen'.queue = screen.queue
    BY <2>1, <2>2 DEF RunTarget, KeepaliveInv
  <2>5. Grows
    BY <2>1, NotRecorded
  <2> QED BY <2>1, <2>2, <2>3, <2>4, <2>5, RunTargetKeeps
<1>4. CASE BulkTurn
  <2>1. PICK call \in screen.queue :
          LET refused == screen.txs[call.key].inFlight
              rest == screen.queue \ {call}
          IN Show([RunTarget(screen, call) EXCEPT !.queue = rest,
                     !.bulkAt = IF refused THEN "none" ELSE call.key,
                     !.bulk = ~(refused /\ rest = {})])
    BY <1>4 DEF BulkTurn
  <2> DEFINE s == RunTarget(screen, call)
  <2>2. "is" \in DOMAIN s /\ {"rows", "txs", "queue", "programme", "crossed"} \subseteq DOMAIN s
    BY DEF RunTarget, Stays, KeepaliveInv
  <2> HIDE DEF s
  <2>3. /\ DOMAIN screen' = DOMAIN s /\ screen'.is = s.is /\ screen'.rows = s.rows
        /\ screen'.txs = s.txs /\ screen'.queue = screen.queue \ {call} /\ ledger' = ledger
        /\ screen'.programme = s.programme /\ screen'.crossed = s.crossed
    BY <2>1, <2>2 DEF Show, s
  <2>4. call.key \in TargetKeys /\ IsKeepalive(call, call.key) /\ OfChosen(call, call.key)
    BY DEF KeepaliveInv
  <2>5. Grows
    BY <2>3, NotRecorded
  <2> QED BY <2>3, <2>4, <2>5, RunTargetKeeps DEF s
<1>5. ASSUME NEW key \in TargetKeys, NEW outcome \in Outcomes, KeepaliveSettled(key, outcome)
      PROVE  Stays("keepalive")' /\ Grows /\ KeepaliveInv'
  <2> DEFINE good == outcome = "success"
             call == screen.txs[key].call
  <2>1. /\ screen.txs[key].inFlight /\ Record(call, outcome) /\ Same
        /\ screen'.queue = screen.queue /\ screen'.programme = screen.programme
        /\ screen'.crossed = screen.crossed
        /\ screen'.txs = [screen.txs EXCEPT ![key] = Settled(@, outcome)]
        /\ screen'.rows =
             [(IF good THEN screen.rows ELSE [screen.rows EXCEPT ![screen.current] = "error"])
               EXCEPT ![key] = IF good THEN "done" ELSE "error"]
    BY <1>5 DEF KeepaliveSettled, Stays, KeepaliveInv
  <2>2. Grows /\ (good => call \in ToSet(ledger'))
    BY <2>1, Recorded, SuccessIsApplied
  <2>3. DOMAIN screen'.rows = TargetKeys /\ DOMAIN screen'.txs = TargetKeys
    BY <2>1 DEF KeepaliveInv
  <2>4. ASSUME NEW k \in TargetKeys
        PROVE  /\ Hook(screen'.txs[k])
               /\ screen'.txs[k].inFlight =>
                    IsKeepalive(screen'.txs[k].call, k) /\ OfChosen(screen.txs[k].call, k)'
               /\ screen'.rows[k] = "done" => KeptOnLedger(k)'
    <3>1. screen'.txs[k] = IF k = key THEN Settled(screen.txs[k], outcome) ELSE screen.txs[k]
      BY <2>1 DEF KeepaliveInv
    <3>2. Hook(screen'.txs[k]) /\ (screen'.txs[k].inFlight => screen'.txs[k] = screen.txs[k])
      BY <3>1, SettledHook DEF KeepaliveInv
    <3>3. screen'.rows[k] = "done" => screen.rows[k] = "done" \/ (k = key /\ good)
      BY <2>1 DEF KeepaliveInv
    <3>4. IsKeepalive(call, key) /\ OfChosen(call, key)
      BY <2>1 DEF KeepaliveInv
    <3>5. \A c : \A l : OfChosen(c, l) => OfChosen(c, l)'
      BY <2>1 DEF OfChosen
    <3> HIDE DEF call, good
    <3>6. KeptOnLedger(k) => KeptOnLedger(k)'
      BY <2>2, <3>5 DEF KeptOnLedger, Grows
    <3>7. k = key /\ good => KeptOnLedger(k)'
      BY <2>2, <3>4, <3>5 DEF KeptOnLedger
    <3>8. screen'.txs[k].inFlight =>
            IsKeepalive(screen'.txs[k].call, k) /\ OfChosen(screen.txs[k].call, k)'
      BY <3>2, <3>5 DEF KeepaliveInv
    <3> QED BY <3>2, <3>3, <3>6, <3>7, <3>8 DEF KeepaliveInv
  <2>5. \A c \in screen'.queue : c.key \in TargetKeys /\ IsKeepalive(c, c.key) /\ OfChosen(c, c.key)'
    BY <2>1 DEF KeepaliveInv, OfChosen
  <2> QED BY <2>1, <2>2, <2>3, <2>4, <2>5 DEF Stays, KeepaliveInv
<1> QED BY <1>1, <1>2, <1>3, <1>4, <1>5, <1>6 DEF KeepaliveNext

LEMMA KeepaliveSaysIt == ASSUME KeepaliveInv PROVE KeepaliveDone
  BY DEF KeepaliveInv, KeepaliveDone, KeptOnLedger, IsKeepalive, OfChosen

------------------------------------------------------------------------------
(* Standing *)

Extension(subject) == [do |-> "extend", subject |-> subject]

\* The panel's send is the extension of its subject's entry.
StandingInv ==
  /\ {"panel", "unseen"} \subseteq DOMAIN screen
  /\ {"of", "tx", "extended", "read", "root", "text", "error", "checking", "checked", "verdict"}
       \subseteq DOMAIN Panel
  /\ Hook(Panel.tx) /\ (Panel.tx.inFlight => Panel.tx.call = Extension(Panel.of))
  /\ Panel.extended => Extension(Panel.of) \in ToSet(ledger)

LEMMA FreshPanels ==
  ASSUME NEW subject
  PROVE  LET panel == FreshPanel(subject)
         IN /\ {"of", "tx", "extended", "read", "root", "text", "error", "checking", "checked", "verdict"}
                 \subseteq DOMAIN panel
            /\ panel.of = subject /\ panel.tx = IdleTx /\ ~panel.extended
BY DEF FreshPanel

LEMMA StandingInvInit == ASSUME StandingInit PROVE Stays("standing") /\ StandingInv
<1>1. /\ screen.is = "standing" /\ screen.panel = FreshPanel(me)
      /\ {"is", "panel", "unseen"} \subseteq DOMAIN screen
  BY DEF StandingInit
<1> QED BY <1>1, FreshPanels, IdleHook DEF StandingInv, Stays, Panel

LEMMA StandingKept ==
  ASSUME Stays("standing"), LedgerOK, StandingInv, StandingNext
  PROVE  Stays("standing")' /\ Grows /\ StandingInv'
<1> DEFINE Same == DOMAIN screen' = DOMAIN screen /\ screen'.is = screen.is
           PanelSame == /\ DOMAIN screen'.panel = DOMAIN Panel /\ screen'.panel.of = Panel.of
                        /\ screen'.panel.tx = Panel.tx /\ screen'.panel.extended = Panel.extended
           Kept(panel) == /\ DOMAIN panel = DOMAIN Panel /\ panel.of = Panel.of
                          /\ panel.tx = Panel.tx /\ panel.extended = Panel.extended
<1> USE DEF Stays, StandingInv, Panel
<1>1. CASE \/ ClearLookup \/ CreditLands \/ StandingAnswers \/ RetryStanding \/ VerifyHistory
           \/ HistoryVerified \/ \E address \in {Creator, Other} : LookUp(address)
           \/ \E text \in {MalformedText} \cup {HistoryText(entries) : entries \in Pasted} :
                PasteHistory(text)
  <2>1. CASE ClearLookup \/ CreditLands \/ \E address \in {Creator, Other} : LookUp(address)
    BY <2>1, NotRecorded DEF ClearLookup, CreditLands, LookUp, Show
  <2>2. ASSUME Same, ledger' = ledger, PanelSame PROVE Stays("standing")' /\ Grows /\ StandingInv'
    BY <2>2, NotRecorded
  <2>3. CASE StandingAnswers
    <3> DEFINE history == screen.history[StandingSubject]
               found == IF history = Genesis THEN "none" ELSE "read"
               shown == IF history = Genesis THEN NoRoot ELSE history
               answer == [Panel EXCEPT !.read = found, !.root = shown]
               failure == [Panel EXCEPT !.read = "failed"]
    <3>1. ShowPanel(answer) \/ ShowPanel(failure)
      BY <2>3, Zenon DEF StandingAnswers
    <3> HIDE DEF found, shown
    <3>2. Kept(answer) /\ Kept(failure)
      OBVIOUS
    <3> HIDE DEF answer, failure
    <3>3. Same /\ ledger' = ledger /\ PanelSame
      BY <3>1, <3>2 DEF ShowPanel, Show
    <3> QED BY <2>2, <3>3
  <2>4. CASE RetryStanding \/ VerifyHistory
    <3>1. PICK error, read, checking :
            \/ ShowPanel([Panel EXCEPT !.read = read])
            \/ ShowPanel([Panel EXCEPT !.error = error, !.verdict = NoVerdict])
            \/ ShowPanel([Panel EXCEPT !.error = error, !.verdict = NoVerdict, !.edited = FALSE,
                            !.checking = checking])
      BY <2>4 DEF RetryStanding, VerifyHistory
    <3>2. PICK panel :
            /\ ShowPanel(panel) /\ DOMAIN panel = DOMAIN Panel /\ panel.of = Panel.of
            /\ panel.tx = Panel.tx /\ panel.extended = Panel.extended
      <4> HIDE DEF Panel
      <4>1. CASE ShowPanel([Panel EXCEPT !.read = read])
        BY <4>1 DEF StandingInv
      <4>2. CASE ShowPanel([Panel EXCEPT !.error = error, !.verdict = NoVerdict])
        <5> DEFINE panel == [Panel EXCEPT !.error = error, !.verdict = NoVerdict]
        <5>1. /\ DOMAIN panel = DOMAIN Panel /\ panel.of = Panel.of
              /\ panel.tx = Panel.tx /\ panel.extended = Panel.extended
          BY DEF StandingInv
        <5>2. ShowPanel(panel)
          BY <4>2
        <5> HIDE DEF panel
        <5> QED BY <5>1, <5>2
      <4>3. CASE ShowPanel([Panel EXCEPT !.error = error, !.verdict = NoVerdict, !.edited = FALSE,
                                         !.checking = checking])
        <5> DEFINE panel == [Panel EXCEPT !.error = error, !.verdict = NoVerdict, !.edited = FALSE,
                                          !.checking = checking]
        <5>1. /\ DOMAIN panel = DOMAIN Panel /\ panel.of = Panel.of
              /\ panel.tx = Panel.tx /\ panel.extended = Panel.extended
          BY DEF StandingInv
        <5>2. ShowPanel(panel)
          BY <4>3
        <5> HIDE DEF panel
        <5> QED BY <5>1, <5>2
      <4> QED BY <3>1, <4>1, <4>2, <4>3
    <3>3. Same /\ ledger' = ledger /\ PanelSame
      BY <3>2 DEF ShowPanel, Show
    <3> QED BY <2>2, <3>3
  <2>5. CASE HistoryVerified
    <3> DEFINE verdict == VerifyStandingHistory(Panel.checking.entries, Panel.checking.root)
               asked == Panel.checking
               answer == [Panel EXCEPT !.checking = NoCheck, !.checked = asked, !.verdict = verdict]
               failure == [Panel EXCEPT !.checking = NoCheck, !.error = TRUE]
    <3>1. ShowPanel(answer) \/ ShowPanel(failure)
      BY <2>5, Zenon DEF HistoryVerified
    <3> HIDE DEF verdict, asked
    <3>2. Kept(answer) /\ Kept(failure)
      OBVIOUS
    <3> HIDE DEF answer, failure
    <3>3. Same /\ ledger' = ledger /\ PanelSame
      BY <3>1, <3>2 DEF ShowPanel, Show
    <3> QED BY <2>2, <3>3
  <2>6. CASE \E text \in {MalformedText} \cup {HistoryText(entries) : entries \in Pasted} :
                PasteHistory(text)
    BY <2>2, <2>6 DEF PasteHistory, ShowPanel, Show
  <2> QED BY <1>1, <2>1, <2>3, <2>4, <2>5, <2>6
<1>2. CASE PanelReplaced
  <2>1. Same /\ ledger' = ledger /\ screen'.panel = FreshPanel(StandingSubject)
    BY <1>2 DEF PanelReplaced, Show
  <2> QED BY <2>1, FreshPanels, IdleHook, NotRecorded
<1>3. CASE ExtendStanding
  <2> DEFINE call == Extension(Panel.of)
  <2>1. /\ Same /\ ledger' = ledger /\ DOMAIN screen'.panel = DOMAIN Panel
        /\ screen'.panel.of = Panel.of /\ screen'.panel.extended = Panel.extended
        /\ screen'.panel.tx = SendAs(Panel.tx, me, call)
    BY <1>3 DEF ExtendStanding, AtStanding, SendOn, Extension
  <2> HIDE DEF call
  <2>2. Hook(screen'.panel.tx)
        /\ (screen'.panel.tx.inFlight =>
              screen'.panel.tx.call = IF Panel.tx.inFlight THEN Panel.tx.call ELSE call)
    BY <2>1, SendHook
  <2> QED BY <2>1, <2>2, NotRecorded DEF call
<1>4. ASSUME NEW outcome \in Outcomes, ExtendSettled(outcome)
      PROVE  Stays("standing")' /\ Grows /\ StandingInv'
  <2>1. CASE /\ Panel.tx.inFlight /\ Record(Panel.tx.call, outcome)
             /\ screen' = [screen EXCEPT !.panel.tx = Settled(@, outcome),
                                         !.panel.extended = @ \/ outcome = "success"]
    <3>1. /\ Same /\ DOMAIN screen'.panel = DOMAIN Panel /\ screen'.panel.of = Panel.of
          /\ screen'.panel.tx = Settled(Panel.tx, outcome)
          /\ screen'.panel.extended = (Panel.extended \/ outcome = "success")
      BY <2>1
    <3>2. Hook(screen'.panel.tx) /\ ~screen'.panel.tx.inFlight
      BY <3>1, SettledHook
    <3>3. Grows /\ (outcome = "success" => Panel.tx.call \in ToSet(ledger'))
      BY <2>1, Recorded, SuccessIsApplied
    <3> QED BY <2>1, <3>1, <3>2, <3>3 DEF Grows
  <2>2. ASSUME NEW call \in screen.unseen, Record(call, outcome),
               screen' = [screen EXCEPT !.unseen = @ \ {call}]
        PROVE  Stays("standing")' /\ Grows /\ StandingInv'
    <3>1. Grows
      BY <2>2, Recorded
    <3> QED BY <2>2, <3>1 DEF Grows
  <2> QED BY <1>4, <2>1, <2>2 DEF ExtendSettled
<1> QED BY <1>1, <1>2, <1>3, <1>4 DEF StandingNext

LEMMA StandingSaysIt == ASSUME StandingInv PROVE ExtendedDone
  BY DEF StandingInv, ExtendedDone, Extension, Panel

------------------------------------------------------------------------------
(* All screens *)

WritesInv ==
  /\ LedgerOK /\ "is" \in DOMAIN screen
  /\ card # "all" => screen.is = "payees"
  /\ screen.is = "payees" => PayeesInv
  /\ screen.is = "funder" => FunderInv
  /\ screen.is = "tools" => ToolsInv
  /\ screen.is = "apply" => ApplyInv
  /\ screen.is = "finalize" => SettledInv
  /\ screen.is = "vote" => ToldInv
  /\ screen.is = "revoke" => RevokedInv
  /\ screen.is = "deploy" => DeployedInv
  /\ screen.is = "spend" => SpendInv
  /\ screen.is = "claims" => SignedInv
  /\ screen.is = "register" => RegisteredInv
  /\ screen.is = "policy" => PolicyInv
  /\ screen.is = "keepalive" => KeepaliveInv
  /\ screen.is = "standing" => StandingInv

LEMMA WritesInvInit == ASSUME Init PROVE WritesInv
<1>1. ledger = <<>> /\ LedgerOK
  BY DEF Init, ScreenInit, LedgerOK, ToSet
<1>2. card # "all" => screen.is = "payees"
  BY DEF Init
<1>3. CASE PayeeScreenInit
  BY <1>1, <1>2, <1>3, PayeesInit DEF WritesInv, Stays
<1>4. CASE FunderScreenInit
  BY <1>1, <1>2, <1>4, FunderInvInit DEF WritesInv, Stays
<1>5. CASE ToolsInit
  BY <1>1, <1>2, <1>5, ToolsInvInit DEF WritesInv, Stays
<1>6. CASE ApplyInit
  BY <1>1, <1>2, <1>6, ApplyInvInit DEF WritesInv, Stays
<1>7. CASE FinalizeInit
  BY <1>1, <1>2, <1>7, SettledInvInit DEF WritesInv, Stays
<1>8. CASE VoteInit
  BY <1>1, <1>2, <1>8, ToldInvInit DEF WritesInv, Stays
<1>9. CASE RevokeInit
  BY <1>1, <1>2, <1>9, RevokedInvInit DEF WritesInv, Stays
<1>10. CASE DeployInit
  BY <1>1, <1>2, <1>10, DeployedInvInit DEF WritesInv, Stays
<1>11. CASE ClaimInit
  BY <1>1, <1>2, <1>11, SignedInvInit DEF WritesInv, Stays
<1>12. CASE RegisterInit
  BY <1>1, <1>2, <1>12, RegisteredInvInit DEF WritesInv, Stays
<1>13. CASE PolicyInit
  BY <1>1, <1>2, <1>13, PolicyInvInit DEF WritesInv, Stays
<1>14. CASE KeepaliveInit
  BY <1>1, <1>2, <1>14, KeepaliveInvInit DEF WritesInv, Stays
<1>15. CASE StandingInit
  BY <1>1, <1>2, <1>15, StandingInvInit DEF WritesInv, Stays
<1>17. CASE SpendInit
  BY <1>1, <1>2, <1>17, SpendInvInit DEF WritesInv, Stays
<1>16. CASE \/ WithdrawInit \/ ReleaseInit \/ BoardInit \/ RolesInit \/ LookupInit
           \/ ConfigInit \/ WritersInit \/ LifetimesInit \/ ReceiptInit \/ DirectoryInit
           \/ DetailInit \/ ListInit \/ AwardsInit \/ screen = [is |-> "transaction"]
  <2>1. /\ "is" \in DOMAIN screen
        /\ screen.is \in {"withdraw", "award", "board", "roles", "lookup", "config", "writers",
                         "lifetimes", "receipt", "directory", "detail", "list", "awards", "transaction"}
    BY <1>16 DEF WithdrawInit, ReleaseInit, BoardInit, RolesInit, LookupInit, ConfigInit,
                WritersInit, LifetimesInit, ReceiptInit, DirectoryInit, DetailInit, ListInit, AwardsInit
  <2> QED BY <1>1, <1>2, <2>1 DEF WritesInv
<1> QED BY <1>3, <1>4, <1>5, <1>6, <1>7, <1>8, <1>9, <1>10, <1>11, <1>12, <1>13, <1>14, <1>15, <1>16, <1>17
  DEF Init, PageInit

\* A step that leaves the screen and the ledger alone.
LEMMA WritesInvUntouched ==
  ASSUME WritesInv, UNCHANGED <<screen, ledger, card>> PROVE WritesInv'
<1>1. LedgerOK'
  BY DEF WritesInv, LedgerOK
<1>2. PayeesInv => PayeesInv'
  BY DEF PayeesInv, RunInv, SessionInv, RowsStand
<1>3. FunderInv => FunderInv'
  BY DEF FunderInv, SameAmount
<1>4. ToolsInv => ToolsInv'
  BY DEF ToolsInv
<1>5. ApplyInv => ApplyInv'
  BY DEF ApplyInv, IsOnLedger
<1>6. SettledInv => SettledInv'
  BY DEF SettledInv, IsOnLedger
<1>7. ToldInv => ToldInv'
  BY DEF ToldInv, IsOnLedger
<1>8. RevokedInv => RevokedInv'
  BY DEF RevokedInv, IsOnLedger
<1>9. DeployedInv => DeployedInv'
  BY DEF DeployedInv, IsOnLedger
<1>10. SignedInv => SignedInv'
  BY DEF SignedInv
<1>11. RegisteredInv => RegisteredInv'
  BY DEF RegisteredInv
<1>12. PolicyInv => PolicyInv'
  BY DEF PolicyInv, AllowedOnLedger
<1>13. KeepaliveInv => KeepaliveInv'
  BY DEF KeepaliveInv, KeptOnLedger, OfChosen
<1>15. SpendInv => SpendInv'
  BY DEF SpendInv
<1>14. StandingInv => StandingInv'
  BY DEF StandingInv, Panel
<1> QED BY <1>1, <1>2, <1>3, <1>4, <1>5, <1>6, <1>7, <1>8, <1>9, <1>10, <1>11, <1>12, <1>13, <1>14, <1>15
  DEF WritesInv

LEMMA WritesInvKept ==
  ASSUME WritesInv, [Next]_screensVars PROVE WritesInv' /\ screen'.is = screen.is
<1>1. CASE UNCHANGED screensVars
  BY <1>1, WritesInvUntouched DEF screensVars, screenVars
<1>2. CASE screen.is = "transaction" /\ TransactionNext /\ UNCHANGED <<screenVars, card>>
  BY <1>2, WritesInvUntouched DEF screenVars
<1>3. CASE ChangeWallet /\ UNCHANGED card
  BY <1>3, WritesInvUntouched DEF ChangeWallet
<1>4. CASE /\ \/ card = "check" /\ PayeeCheckNext
              \/ card = "one" /\ PayeeNext
              \/ card = "bulk" /\ PayeeBulkNext
           /\ UNCHANGED card
  BY <1>4, PayeesKept DEF WritesInv, Stays, Grows
<1>5. CASE screen.is = "funder" /\ FunderNext /\ UNCHANGED card
  BY <1>5, FunderKept DEF WritesInv, Stays, Grows
<1>6. CASE screen.is = "tools" /\ ToolsNext /\ UNCHANGED card
  BY <1>6, ToolsKept DEF WritesInv, Stays, Grows
<1>7. CASE screen.is = "apply" /\ ApplyNext /\ UNCHANGED card
  BY <1>7, ApplyKept DEF WritesInv, Stays, Grows
<1>8. CASE screen.is = "finalize" /\ FinalizeNext /\ UNCHANGED card
  BY <1>8, FinalizeKept DEF WritesInv, Stays, Grows
<1>9. CASE screen.is = "vote" /\ VoteNext /\ UNCHANGED card
  BY <1>9, VoteKept DEF WritesInv, Stays, Grows
<1>10. CASE screen.is = "revoke" /\ RevokeNext /\ UNCHANGED card
  BY <1>10, RevokeKept DEF WritesInv, Stays, Grows
<1>11. CASE screen.is = "deploy" /\ DeployNext /\ UNCHANGED card
  BY <1>11, DeployKept DEF WritesInv, Stays, Grows
<1>12. CASE screen.is = "claims" /\ ClaimNext /\ UNCHANGED card
  BY <1>12, ClaimKept DEF WritesInv, Stays, Grows
<1>13. CASE screen.is = "register" /\ RegisterNext /\ UNCHANGED card
  BY <1>13, RegisterKept DEF WritesInv, Stays, Grows
<1>14. CASE screen.is = "policy" /\ PolicyNext /\ UNCHANGED card
  BY <1>14, PolicyKept DEF WritesInv, Stays, Grows
<1>15. CASE screen.is = "keepalive" /\ KeepaliveNext /\ UNCHANGED card
  BY <1>15, KeepaliveKept DEF WritesInv, Stays, Grows
<1>16. CASE screen.is = "standing" /\ StandingNext /\ UNCHANGED card
  BY <1>16, StandingKept DEF WritesInv, Stays, Grows
<1>17. CASE screen.is = "withdraw" /\ WithdrawNext /\ UNCHANGED card
  BY <1>17, WithdrawStays DEF WritesInv, Stays, Grows
<1>18. CASE screen.is = "award" /\ ReleaseNext /\ UNCHANGED card
  BY <1>18, ReleaseStays DEF WritesInv, Stays, Grows
<1>19. CASE screen.is = "spend" /\ SpendNext /\ UNCHANGED card
  BY <1>19, SpendKept DEF WritesInv, Stays, Grows
<1>20. CASE screen.is = "board" /\ BoardNext /\ UNCHANGED card
  BY <1>20, BoardStays DEF WritesInv, Stays, Grows
<1>21. CASE screen.is = "roles" /\ RolesScanned /\ UNCHANGED card
  BY <1>21, RolesStay DEF WritesInv, Stays, Grows
<1>22. CASE screen.is = "lookup" /\ LookupNext /\ UNCHANGED card
  BY <1>22, LookupStays DEF WritesInv, Stays, Grows
<1>23. CASE screen.is = "config" /\ ConfigNext /\ UNCHANGED card
  BY <1>23, ConfigStays DEF WritesInv, Stays, Grows
<1>24. CASE screen.is = "writers" /\ WritersNext /\ UNCHANGED card
  BY <1>24, WritersStay DEF WritesInv, Stays, Grows
<1>25. CASE screen.is = "lifetimes" /\ LifetimesNext /\ UNCHANGED card
  BY <1>25, LifetimesStay DEF WritesInv, Stays, Grows
<1>26. CASE screen.is = "receipt" /\ ReceiptNext /\ UNCHANGED card
  BY <1>26, ReceiptStays DEF WritesInv, Stays, Grows
<1>27. CASE screen.is = "directory" /\ DirectoryNext /\ UNCHANGED card
  BY <1>27, DirectoryStays DEF WritesInv, Stays, Grows
<1>28. CASE screen.is = "detail" /\ DetailNext /\ UNCHANGED card
  BY <1>28, DetailStays DEF WritesInv, Stays, Grows
<1>29. CASE screen.is = "list" /\ ListNext /\ UNCHANGED card
  BY <1>29, ListStays DEF WritesInv, Stays, Grows
<1>30. CASE screen.is = "awards" /\ AwardsNext /\ UNCHANGED card
  BY <1>30, AwardsStay DEF WritesInv, Stays, Grows
<1>31. ASSUME PageNext, UNCHANGED card PROVE WritesInv' /\ screen'.is = screen.is
  <2>1. CASE \/ card = "check" /\ PayeeCheckNext
             \/ card = "one" /\ PayeeNext
             \/ card = "bulk" /\ PayeeBulkNext
    BY <1>4, <1>31, <2>1
  <2>2. CASE \/ screen.is = "funder" /\ FunderNext
             \/ screen.is = "tools" /\ ToolsNext
             \/ screen.is = "apply" /\ ApplyNext
             \/ screen.is = "finalize" /\ FinalizeNext
             \/ screen.is = "vote" /\ VoteNext
             \/ screen.is = "revoke" /\ RevokeNext
    BY <1>5, <1>6, <1>7, <1>8, <1>9, <1>10, <1>31, <2>2
  <2>3. CASE \/ screen.is = "deploy" /\ DeployNext
             \/ screen.is = "claims" /\ ClaimNext
             \/ screen.is = "register" /\ RegisterNext
             \/ screen.is = "policy" /\ PolicyNext
             \/ screen.is = "keepalive" /\ KeepaliveNext
             \/ screen.is = "standing" /\ StandingNext
    BY <1>11, <1>12, <1>13, <1>14, <1>15, <1>16, <1>31, <2>3
  <2>4. CASE \/ screen.is = "withdraw" /\ WithdrawNext
             \/ screen.is = "award" /\ ReleaseNext
             \/ screen.is = "spend" /\ SpendNext
             \/ screen.is = "board" /\ BoardNext
             \/ screen.is = "roles" /\ RolesScanned
             \/ screen.is = "lookup" /\ LookupNext
             \/ screen.is = "config" /\ ConfigNext
    BY <1>17, <1>18, <1>19, <1>20, <1>21, <1>22, <1>23, <1>31, <2>4
  <2>5. CASE \/ screen.is = "writers" /\ WritersNext
             \/ screen.is = "lifetimes" /\ LifetimesNext
             \/ screen.is = "receipt" /\ ReceiptNext
             \/ screen.is = "directory" /\ DirectoryNext
             \/ screen.is = "detail" /\ DetailNext
             \/ screen.is = "list" /\ ListNext
             \/ screen.is = "awards" /\ AwardsNext
    BY <1>24, <1>25, <1>26, <1>27, <1>28, <1>29, <1>30, <1>31, <2>5
  <2> QED BY <1>31, <2>1, <2>2, <2>3, <2>4, <2>5 DEF PageNext
<1> QED BY <1>1, <1>2, <1>3, <1>31 DEF Next

LEMMA WritesInvSaysIt == ASSUME WritesInv PROVE WritesAreReportedTruly
<1>1. ProgressIsReal /\ PayeesListed
  BY PayeesSayIt DEF WritesInv, ProgressIsReal, PayeesListed
<1>2. ContributionWasConfirmed /\ ReceiptIsOfContribution
  BY FunderSaysIt DEF WritesInv, ContributionWasConfirmed, ReceiptIsOfContribution
<1>3. PauseIsAnnouncedTruly
  BY ToolsSayIt DEF WritesInv, PauseIsAnnouncedTruly
<1>4. ReceiptWasApplied
  BY ApplySaysIt DEF WritesInv, ReceiptWasApplied
<1>5. KeepaliveDone
  BY KeepaliveSaysIt DEF WritesInv, KeepaliveDone
<1>6. ExtendedDone
  BY StandingSaysIt DEF WritesInv, ExtendedDone
<1>7. screen.is = "finalize" => FinalizeDone \subseteq ToSet(ledger)
  BY DEF WritesInv, SettledInv, IsOnLedger, FinalizeDone
<1>8. screen.is = "vote" => VoteDone \subseteq ToSet(ledger)
  BY DEF WritesInv, ToldInv, IsOnLedger, VoteDone
<1>9. screen.is = "claims" => ClaimsDone \subseteq ToSet(ledger)
  BY DEF WritesInv, SignedInv, ClaimsDone
<1>10. screen.is = "revoke" => RevokeDone \subseteq ToSet(ledger)
  BY DEF WritesInv, RevokedInv, IsOnLedger, RevokeDone
<1>11. screen.is = "register" => RegisterDone \subseteq ToSet(ledger)
  BY DEF WritesInv, RegisteredInv, RegisterDone
<1>12. DeployShown /\ (screen.is = "deploy" => DeployDone \subseteq ToSet(ledger))
  BY DeploySaysIt DEF WritesInv, DeployShown
<1>14. SpendIsReported
  BY SpendSaysIt DEF WritesInv, SpendIsReported
<1>13. screen.is = "policy" => PolicyListed
  BY PolicySaysIt DEF WritesInv
<1> QED
  BY <1>1, <1>2, <1>3, <1>4, <1>5, <1>6, <1>7, <1>8, <1>9, <1>10, <1>11, <1>12, <1>13, <1>14
  DEF WritesAreReportedTruly

\* What a screen says was sent is on the ledger as it says it, whatever is typed,
\* chosen and reset meanwhile, in whatever order the answers come, and for any
\* number of clicks (the handlers of frontend/src/pages and components).
THEOREM WritesReported == Spec => []WritesAreReportedTruly
<1> QED BY WritesInvInit, WritesInvKept, WritesInvSaysIt, PTL DEF Spec

------------------------------------------------------------------------------
(* Lists over the programmes *)

\* What a programme holds of an account, and whether that is an entry, by what the
\* page is of.
HeldBy(entry, account, p) == IF account = Creator THEN entry[p] ELSE 0
Counts(kind, v) == IF kind = "open" THEN v = 0 ELSE v > 0

\* A read is of programmes; what came of one so far was so at some moment since it
\* began.
AnswerOK(got, kind, low, high) ==
  /\ {"state", "first", "second"} \subseteq DOMAIN got
  /\ got.state \in {"asked", "none", "more", "entry"}
  /\ got.state = "none" => \E v \in low .. high : ~Counts(kind, v)
  /\ got.state \in {"more", "entry"} =>
       Counts(kind, got.first) /\ got.first \in low .. high /\ got.second \in got.first .. high
ReadOK(read, kind, entry) ==
  /\ {"for", "over", "since", "got"} \subseteq DOMAIN read
  /\ read.over \subseteq Programmes /\ read.since \in [Programmes -> Nat]
  /\ read.over # {} => DOMAIN read.got = read.over
  /\ \A p \in Programmes : read.since[p] <= HeldBy(entry, read.for, p)
  /\ \A p \in read.over : AnswerOK(read.got[p], kind, read.since[p], HeldBy(entry, read.for, p))

RowsOf(list, p) == {row \in list.rows : row.p = p}
ListOK(list, kind) ==
  \A p \in list.over :
    /\ RowsOf(list, p) = {} => \E v \in list.since[p] .. list.until[p] : ~Counts(kind, v)
    /\ \A row \in RowsOf(list, p) :
         /\ Counts(kind, row.first)
         /\ list.since[p] <= row.first /\ row.first <= row.second /\ row.second <= list.until[p]

\* The read under way, and the list that is shown without one, are of the account and
\* the programmes that the last effect saw.
ListInv ==
  /\ {"kind", "entry", "listed", "indexing", "indexed", "renewed", "deps", "read", "shown", "loaded",
      "error"} \subseteq DOMAIN screen
  /\ screen.kind \in {"mine", "open"} /\ screen.entry \in [Programmes -> Nat]
  /\ screen.listed \subseteq Programmes
  /\ {"for", "over"} \subseteq DOMAIN screen.deps /\ screen.deps.over \subseteq Programmes
  /\ ReadOK(screen.read, screen.kind, screen.entry) /\ ListOK(screen.shown, screen.kind)
  /\ screen.deps.for # NoAddress =>
       /\ Reading => screen.read.for = screen.deps.for /\ screen.read.over = screen.deps.over
       /\ ~Reading /\ ~screen.error /\ screen.shown # NoList =>
            screen.shown.for = screen.deps.for /\ screen.shown.over = screen.deps.over

LEMMA HeldIsNumber ==
  ASSUME NEW entry \in [Programmes -> Nat], NEW account, NEW p \in Programmes
  PROVE  HeldBy(entry, account, p) \in Nat
BY DEF HeldBy

LEMMA EntriesAreHeld ==
  ASSUME NEW account
  PROVE  /\ \A p : EntryOf(account, p) = HeldBy(screen.entry, account, p)
         /\ Entries(account) = [p \in Programmes |-> HeldBy(screen.entry, account, p)]
         /\ \A v : IsEntry(v) = Counts(screen.kind, v)
BY DEF Entries, EntryOf, HeldBy, IsEntry, Counts

LEMMA FreshReadOK ==
  ASSUME NEW entry \in [Programmes -> Nat], screen.entry = entry, NEW kind,
         NEW deps, deps.over \subseteq Programmes
  PROVE  /\ ReadOK(FreshRead(deps), kind, entry)
         /\ FreshRead(deps).for = deps.for /\ FreshRead(deps).over = deps.over
         /\ deps.for # NoAddress => FreshRead(deps) # NoRead
<1> DEFINE read == FreshRead(deps)
<1>1. /\ DOMAIN read = {"for", "over", "since", "got"}
      /\ read.for = deps.for /\ read.over = deps.over
      /\ read.since = [p \in Programmes |-> HeldBy(entry, deps.for, p)]
      /\ DOMAIN read.got = deps.over
      /\ \A p \in deps.over : read.got[p] = [state |-> "asked", first |-> 0, second |-> 0]
  BY EntriesAreHeld DEF FreshRead
<1>2. \A p \in deps.over : AnswerOK(read.got[p], kind, read.since[p], HeldBy(entry, read.for, p))
  BY <1>1 DEF AnswerOK
<1>3. deps.for # NoAddress => read # NoRead
  BY <1>1 DEF NoRead
<1> HIDE DEF read
<1>4. ReadOK(read, kind, entry)
  BY <1>1, <1>2, HeldIsNumber DEF ReadOK
<1> QED BY <1>1, <1>3, <1>4 DEF read

LEMMA NoReadOK == ASSUME NEW kind, NEW entry \in [Programmes -> Nat] PROVE ReadOK(NoRead, kind, entry)
<1>1. /\ DOMAIN NoRead = {"for", "over", "since", "got"} /\ NoRead.over = {}
      /\ NoRead.since \in [Programmes -> Nat] /\ \A p \in Programmes : NoRead.since[p] = 0
  BY DEF NoRead, Held
<1> QED BY <1>1, HeldIsNumber DEF ReadOK

LEMMA ListInvInit == ASSUME ListInit PROVE Stays("list") /\ ListInv
<1>1. PICK kind \in {"mine", "open"} :
        screen = [is |-> "list", kind |-> kind, entry |-> [p \in Programmes |-> 0],
                  listed |-> Demo, indexing |-> TRUE, indexed |-> FALSE, renewed |-> FALSE,
                  deps |-> NoDeps, read |-> NoRead, shown |-> NoList, loaded |-> FALSE,
                  error |-> FALSE]
  BY DEF ListInit
<1>2. /\ {"is", "kind", "entry", "listed", "indexing", "indexed", "renewed", "deps", "read", "shown",
          "loaded", "error"} \subseteq DOMAIN screen
      /\ screen.is = "list" /\ screen.kind \in {"mine", "open"} /\ screen.entry \in [Programmes -> Nat]
      /\ screen.listed = Demo /\ screen.deps = NoDeps /\ screen.read = NoRead /\ screen.shown = NoList
  BY <1>1
<1>3. ReadOK(NoRead, screen.kind, screen.entry)
  BY <1>2, NoReadOK
<1>4. ListOK(NoList, screen.kind)
  BY DEF ListOK, NoList
<1> QED BY <1>2, <1>3, <1>4, DemoAssumption DEF ListInv, Stays, NoDeps

\* Entries only grow; so what was read of them stays true.
LEMMA ReadOKGrows ==
  ASSUME NEW kind, NEW entry \in [Programmes -> Nat], NEW next \in [Programmes -> Nat],
         \A p \in Programmes : entry[p] <= next[p], NEW read, ReadOK(read, kind, entry)
  PROVE  ReadOK(read, kind, next)
<1>1. \A p \in Programmes :
        /\ HeldBy(entry, read.for, p) \in Nat /\ HeldBy(next, read.for, p) \in Nat
        /\ HeldBy(entry, read.for, p) <= HeldBy(next, read.for, p)
  BY DEF HeldBy
<1>2. \A p \in Programmes : read.since[p] <= HeldBy(next, read.for, p)
  BY <1>1 DEF ReadOK
<1>3. ASSUME NEW p \in read.over
      PROVE  AnswerOK(read.got[p], kind, read.since[p], HeldBy(next, read.for, p))
  <2> DEFINE got == read.got[p]
             low == read.since[p]
             high == HeldBy(entry, read.for, p)
             later == HeldBy(next, read.for, p)
  <2>1. p \in Programmes /\ AnswerOK(got, kind, low, high) /\ low \in Nat
    BY <1>3 DEF ReadOK
  <2>2. high \in Nat /\ later \in Nat /\ high <= later
    BY <1>1, <2>1
  <2> HIDE DEF got, low, high, later
  <2>3. AnswerOK(got, kind, low, later)
    BY <2>1, <2>2 DEF AnswerOK
  <2> QED BY <2>3 DEF got, low, later
<1> QED BY <1>2, <1>3 DEF ReadOK

\* A programme's answer, of a read under way, is good if it is of what is there.
LEMMA ReadAnswered ==
  ASSUME NEW kind, NEW entry, NEW read, ReadOK(read, kind, entry), NEW p \in read.over, NEW got,
         AnswerOK(got, kind, read.since[p], HeldBy(entry, read.for, p))
  PROVE  ReadOK([read EXCEPT !.got[p] = got], kind, entry)
<1> DEFINE next == [read EXCEPT !.got[p] = got]
<1>1. /\ DOMAIN next = DOMAIN read /\ next.for = read.for /\ next.over = read.over
      /\ next.since = read.since /\ DOMAIN next.got = read.over
      /\ \A q \in read.over : next.got[q] = IF q = p THEN got ELSE read.got[q]
  BY DEF ReadOK
<1> HIDE DEF next
<1>2. ReadOK(next, kind, entry)
  BY <1>1 DEF ReadOK
<1> QED BY <1>2 DEF next

\* A read that ended lists what came of it.
LEMMA SettledIsWhole ==
  ASSUME NEW kind, NEW entry \in [Programmes -> Nat], NEW read, ReadOK(read, kind, entry),
         \A p \in read.over : read.got[p].state \notin {"asked", "more"},
         NEW list, list.over = read.over, list.since = read.since,
         list.until = [p \in Programmes |-> HeldBy(entry, read.for, p)],
         list.rows = {[p |-> p, first |-> read.got[p].first, second |-> read.got[p].second] :
                        p \in {q \in read.over : read.got[q].state = "entry"}}
  PROVE  ListOK(list, kind)
<1> DEFINE row(p) == [p |-> p, first |-> read.got[p].first, second |-> read.got[p].second]
<1> SUFFICES ASSUME NEW p \in read.over
             PROVE  /\ RowsOf(list, p) = {} => \E v \in list.since[p] .. list.until[p] : ~Counts(kind, v)
                    /\ \A r \in RowsOf(list, p) :
                         /\ Counts(kind, r.first) /\ list.since[p] <= r.first /\ r.first <= r.second
                         /\ r.second <= list.until[p]
  BY DEF ListOK
<1>1. /\ p \in Programmes /\ list.until[p] = HeldBy(entry, read.for, p) /\ list.until[p] \in Nat
      /\ AnswerOK(read.got[p], kind, list.since[p], list.until[p]) /\ list.since[p] \in Nat
  BY HeldIsNumber DEF ReadOK
<1>2. RowsOf(list, p) = IF read.got[p].state = "entry" THEN {row(p)} ELSE {}
  BY DEF RowsOf
<1>3. row(p).first = read.got[p].first /\ row(p).second = read.got[p].second
  OBVIOUS
<1> HIDE DEF row
<1> QED BY <1>1, <1>2, <1>3 DEF AnswerOK

LEMMA ListKept == ASSUME Stays("list"), ListInv, ListNext PROVE ListInv'
<1> DEFINE kind == screen.kind
           entry == screen.entry
           Same == DOMAIN screen' = DOMAIN screen /\ screen'.kind = kind /\ screen'.entry = entry
           Frame == /\ Same /\ screen'.deps = screen.deps /\ screen'.listed = screen.listed
<1>1. entry \in [Programmes -> Nat]
  BY DEF ListInv
<1>2. CASE ListIndexAnswers
  <2>1. /\ Same /\ screen'.deps = screen.deps /\ screen'.listed \subseteq Programmes
        /\ screen'.read = screen.read /\ screen'.shown = screen.shown /\ screen'.error = screen.error
    BY <1>2, DemoAssumption DEF ListIndexAnswers, Show, ListInv
  <2> QED BY <2>1 DEF ListInv, Reading
<1>3. CASE ListEffect
  <2> DEFINE deps == Deps
             read == IF Reader = NoAddress THEN screen.read ELSE FreshRead(deps)
  <2>1. /\ Same /\ screen'.deps = deps /\ screen'.listed = screen.listed
        /\ screen'.shown = screen.shown /\ screen'.error = screen.error /\ screen'.read = read
    BY <1>3 DEF ListEffect, Show, ListInv
  <2>2. DOMAIN deps = {"for", "over"} /\ deps.for = Reader /\ deps.over = screen.listed
    BY DEF Deps
  <2> HIDE DEF deps
  <2>3. /\ ReadOK(read, kind, entry)
        /\ deps.for # NoAddress => read # NoRead /\ read.for = deps.for /\ read.over = deps.over
    BY <1>1, <2>2, FreshReadOK DEF ListInv
  <2> HIDE DEF read
  <2> QED BY <2>1, <2>2, <2>3 DEF ListInv, Reading
<1>4. CASE ListSettles
  <2> DEFINE read == screen.read
             list == [for |-> read.for, over |-> read.over, since |-> read.since,
                      until |-> Entries(read.for),
                      rows |-> {[p |-> p, first |-> read.got[p].first, second |-> read.got[p].second] :
                                  p \in {q \in read.over : read.got[q].state = "entry"}}]
  <2>1. /\ Frame /\ screen'.read = NoRead /\ screen'.shown = list
        /\ Reading /\ Unfinished(read) = {}
    BY <1>4 DEF ListSettles, Show, ListInv
  <2>2. ReadOK(read, kind, entry) /\ \A p \in read.over : read.got[p].state \notin {"asked", "more"}
    BY <2>1 DEF Unfinished, ListInv
  <2>3. /\ list.for = read.for /\ list.over = read.over /\ list.since = read.since
        /\ list.until = [p \in Programmes |-> HeldBy(entry, read.for, p)]
        /\ list.rows = {[p |-> p, first |-> read.got[p].first, second |-> read.got[p].second] :
                          p \in {q \in read.over : read.got[q].state = "entry"}}
    BY EntriesAreHeld
  <2> HIDE DEF list
  <2>4. ListOK(list, kind)
    <3> HIDE DEF read, kind, entry
    <3> QED BY <1>1, <2>2, <2>3, SettledIsWhole
  <2> QED BY <1>1, <2>1, <2>3, <2>4, NoReadOK DEF ListInv, Reading
<1>5. CASE ListTransactionSuccess \/ RetryList
  <2> DEFINE read == FreshRead(screen.deps)
  <2>1. Frame /\ screen'.shown = screen.shown /\ screen'.read = read
    BY <1>5 DEF ListTransactionSuccess, RetryList, Refetched, Show, ListInv
  <2>2. /\ ReadOK(read, kind, entry)
        /\ read.for = screen.deps.for /\ read.over = screen.deps.over
        /\ screen.deps.for # NoAddress => read # NoRead
    BY <1>1, FreshReadOK DEF ListInv
  <2> HIDE DEF read
  <2> QED BY <2>1, <2>2 DEF ListInv, Reading
<1>6. ASSUME NEW p \in Programmes, EntryMoves(p) PROVE ListInv'
  <2> DEFINE next == [entry EXCEPT ![p] = @ + 1]
  <2>1. /\ DOMAIN screen' = DOMAIN screen /\ screen'.kind = kind /\ screen'.entry = next
        /\ screen'.deps = screen.deps /\ screen'.listed = screen.listed
        /\ screen'.read = screen.read /\ screen'.shown = screen.shown /\ screen'.error = screen.error
    BY <1>6 DEF EntryMoves, ListInv
  <2>2. next \in [Programmes -> Nat] /\ \A q \in Programmes : entry[q] <= next[q]
    BY <1>1
  <2> HIDE DEF next
  <2>3. ReadOK(screen.read, kind, next)
    BY <1>1, <2>2, ReadOKGrows DEF ListInv
  <2> QED BY <2>1, <2>2, <2>3 DEF ListInv, Reading
\* What one programme answers.
<1>7. ASSUME NEW p \in screen.read.over, NEW got, Show([screen EXCEPT !.read.got[p] = got]),
             AnswerOK(got, kind, screen.read.since[p], HeldBy(entry, screen.read.for, p))
      PROVE  ListInv'
  <2> DEFINE read == [screen.read EXCEPT !.got[p] = got]
  <2>1. /\ Frame /\ screen'.read = read
        /\ screen'.shown = screen.shown /\ screen'.error = screen.error
    BY <1>7 DEF Show, ListInv
  <2>2. ReadOK(read, kind, entry)
    BY <1>7, ReadAnswered DEF ListInv
  <2>3. read.for = screen.read.for /\ read.over = screen.read.over
    BY DEF ListInv, ReadOK
  <2>4. read # NoRead /\ screen.read # NoRead
    BY <2>3 DEF NoRead
  <2> HIDE DEF read
  <2> QED BY <2>1, <2>2, <2>3, <2>4 DEF ListInv, Reading
<1>8. ASSUME NEW p \in Programmes, EntryAnswers(p) PROVE ListInv'
  <2> DEFINE v == EntryOf(screen.read.for, p)
             state == IF ~IsEntry(v) THEN "none"
                      ELSE IF screen.kind = "mine" /\ p \in Detailed THEN "more" ELSE "entry"
             got == [state |-> state, first |-> v, second |-> v]
  <2>1. p \in screen.read.over /\ Show([screen EXCEPT !.read.got[p] = got])
    BY <1>8 DEF EntryAnswers
  <2>2. /\ v = HeldBy(entry, screen.read.for, p) /\ v \in Nat /\ IsEntry(v) = Counts(kind, v)
        /\ screen.read.since[p] \in Nat /\ screen.read.since[p] <= v
    BY <1>1, EntriesAreHeld, HeldIsNumber DEF ListInv, ReadOK
  <2>3. state \in {"none", "more", "entry"} /\ (state = "none" <=> ~IsEntry(v))
    OBVIOUS
  <2> HIDE DEF state, v
  <2>4. AnswerOK(got, kind, screen.read.since[p], v)
    BY <2>2, <2>3 DEF AnswerOK
  <2> HIDE DEF got
  <2> QED BY <1>7, <2>1, <2>2, <2>4
<1>9. ASSUME NEW p \in Programmes, DetailAnswers(p) PROVE ListInv'
  <2> DEFINE old == screen.read.got[p]
             v == EntryOf(screen.read.for, p)
             got == [old EXCEPT !.state = "entry", !.second = v]
  <2>1. /\ p \in screen.read.over /\ old.state = "more"
        /\ Show([screen EXCEPT !.read.got[p] = got])
    BY <1>9 DEF DetailAnswers
  <2>2. v = HeldBy(entry, screen.read.for, p) /\ v \in Nat
    BY <1>1, EntriesAreHeld, HeldIsNumber
  <2>3. ReadOK(screen.read, kind, entry)
    BY DEF ListInv
  <2>4. AnswerOK(old, kind, screen.read.since[p], HeldBy(entry, screen.read.for, p))
    BY <2>1, <2>3 DEF ReadOK
  <2>5. screen.read.since[p] \in Nat
    BY <2>3 DEF ReadOK
  <2>6. /\ v = HeldBy(entry, screen.read.for, p) /\ v \in Nat /\ screen.read.since[p] \in Nat
        /\ AnswerOK(old, kind, screen.read.since[p], v)
    BY <2>2, <2>4, <2>5
  <2> HIDE DEF v
  <2>7. DOMAIN got = DOMAIN old /\ got.state = "entry" /\ got.first = old.first /\ got.second = v
    BY <2>6 DEF AnswerOK
  <2> HIDE DEF got, old
  <2>8. AnswerOK(got, kind, screen.read.since[p], v)
    BY <2>1, <2>6, <2>7 DEF AnswerOK
  <2> QED BY <1>7, <2>1, <2>6, <2>8
<1>10. ASSUME NEW p \in Programmes, EntryFails(p) PROVE ListInv'
  <2>1. Frame /\ screen'.read = NoRead /\ screen'.shown = screen.shown /\ screen'.error
    BY <1>10 DEF EntryFails, Show, ListInv
  <2> QED BY <1>1, <2>1, NoReadOK DEF ListInv, Reading
<1> QED BY <1>2, <1>3, <1>4, <1>5, <1>6, <1>8, <1>9, <1>10 DEF ListNext

LEMMA ListSaysIt == ASSUME ListInv PROVE ListIsWhole
<1>a. ListOK(screen.shown, screen.kind) <=>
        \A p \in screen.shown.over :
          /\ RowsOf(screen.shown, p) = {} =>
               \E v \in screen.shown.since[p] .. screen.shown.until[p] : ~IsEntry(v)
          /\ \A row \in RowsOf(screen.shown, p) :
               /\ IsEntry(row.first)
               /\ screen.shown.since[p] <= row.first /\ row.first <= row.second
               /\ row.second <= screen.shown.until[p]
  BY EntriesAreHeld DEF ListOK
<1> SUFFICES ASSUME ListView = "entries"
             PROVE  /\ ListOK(screen.shown, screen.kind)
                    /\ ~Reading /\ ~EffectDue /\ Reader # NoAddress => screen.shown.for = Reader
                    /\ (~Reading /\ ~EffectDue /\ Reader # NoAddress) \/ screen.kind = "open" =>
                         screen.shown.over = screen.listed
  BY <1>a DEF ListIsWhole, RowsOf
<1>1. screen.kind = "open" => Reader # NoAddress
  BY AddressesAssumption DEF Reader
<1>2. screen.kind = "mine" => ~screen.error /\ screen.shown # NoList
  BY DEF ListView
<1>3. screen.kind = "open" => ~screen.error /\ screen.shown # NoList /\ screen.shown.over = screen.listed
  BY <1>1 DEF ListView, ListLoading, PhasesCurrent
<1>4. ~EffectDue => screen.deps.for = Reader /\ screen.deps.over = screen.listed
  BY DEF EffectDue, Deps
<1>5. screen.kind \in {"mine", "open"}
  BY DEF ListInv
<1> QED BY <1>2, <1>3, <1>4, <1>5 DEF ListInv

------------------------------------------------------------------------------
(* A row of a programme's awards *)

\* A row that was asked of a programme has its answer, or failed.
RowOK(row, entry) ==
  /\ DOMAIN row = {"recipient", "of", "reading", "loaded", "error", "data"}
  /\ {"of", "at"} \subseteq DOMAIN row.data
  /\ row.of \in Programmes \cup {NoAddress} /\ (row.reading => row.of \in Programmes)
  /\ row.of # NoAddress /\ ~row.reading =>
       /\ row.loaded
       /\ row.error \/ (row.data.of = row.of /\ row.data.at \in 1 .. entry[row.of])
AwardsInv ==
  /\ {"awardee", "entry", "programme", "asked", "pending", "error", "list", "row"} \subseteq DOMAIN screen
  /\ screen.entry \in [Programmes -> Nat \ {0}] /\ screen.programme \in Programmes
  /\ RowOK(Row, screen.entry)

LEMMA NoRowOK == ASSUME NEW entry, NEW recipient PROVE RowOK([NoRow EXCEPT !.recipient = recipient], entry)
  BY DEF RowOK, NoRow
LEMMA NoRowIsOK == ASSUME NEW entry PROVE RowOK(NoRow, entry)
  BY DEF RowOK, NoRow

LEMMA AwardsInvInit == ASSUME AwardsInit PROVE Stays("awards") /\ AwardsInv
<1>1. /\ {"is", "awardee", "entry", "programme", "asked", "pending", "error", "list", "row"}
           \subseteq DOMAIN screen
      /\ screen.is = "awards" /\ screen.entry = [p \in Programmes |-> 1] /\ screen.row = NoRow
      /\ screen.programme = CHOOSE p \in Programmes : TRUE
  BY DEF AwardsInit
<1>2. (CHOOSE p \in Programmes : TRUE) \in Programmes
  BY AddressesAssumption
<1> QED BY <1>1, <1>2, NoRowIsOK DEF AwardsInv, Stays, Row

LEMMA AwardsKept == ASSUME Stays("awards"), AwardsInv, AwardsNext PROVE AwardsInv'
<1> DEFINE Frame == DOMAIN screen' = DOMAIN screen /\ screen'.entry = screen.entry
<1> USE DEF AwardsInv, Row
<1>1. CASE AwardsEffect
  <2>1. Frame /\ screen'.programme = screen.programme /\ screen'.row = screen.row
    BY <1>1 DEF AwardsEffect, Show
  <2> QED BY <2>1
<1>2. CASE AwardsAnswer \/ AwardsFail
  <2>1. PICK row \in {NoRow, RowFor(screen.awardee[screen.asked])} :
          Frame /\ screen'.programme = screen.programme /\ screen'.row = row
    BY <1>2 DEF AwardsAnswer, AwardsFail, Show
  <2>2. RowOK(row, screen.entry)
    BY NoRowOK, NoRowIsOK DEF RowFor
  <2> QED BY <2>1, <2>2
<1>3. CASE RowEffect
  <2> DEFINE row == [Row EXCEPT !.of = screen.programme, !.reading = TRUE]
  <2>1. Frame /\ screen'.programme = screen.programme /\ DOMAIN screen'.row = DOMAIN Row
        /\ screen'.row.of = screen.programme /\ screen'.row.reading /\ screen'.row.data = Row.data
    BY <1>3 DEF RowEffect, Show, RowOK
  <2> QED BY <2>1 DEF RowOK
<1>4. CASE RowAnswers
  <2> DEFINE data == [of |-> Row.of, at |-> screen.entry[Row.of]]
             row == [Row EXCEPT !.reading = FALSE, !.loaded = TRUE]
             read == [row EXCEPT !.data = data]
             failed == [row EXCEPT !.error = TRUE]
  <2>1. PICK new \in {read, failed} : screen' = [screen EXCEPT !.row = new]
    BY <1>4 DEF RowAnswers, Show
  <2>2. Row.reading
    BY <1>4 DEF RowAnswers
  <2>3. /\ DOMAIN row = DOMAIN Row /\ row.of = Row.of /\ ~row.reading /\ row.loaded
        /\ row.data = Row.data
    BY DEF RowOK
  <2> HIDE DEF row
  <2>4. /\ DOMAIN new = DOMAIN Row /\ new.of = Row.of /\ ~new.reading /\ new.loaded
        /\ new.data = data \/ (new.error /\ new.data = Row.data)
    BY <2>1, <2>3 DEF RowOK
  <2>5. DOMAIN data = {"of", "at"} /\ data.of = Row.of /\ data.at = screen.entry[Row.of]
    OBVIOUS
  <2>6. Row.of \in Programmes /\ screen.entry[Row.of] \in 1 .. screen.entry[Row.of]
    BY <2>2 DEF RowOK
  <2>7. /\ Frame /\ screen'.programme = screen.programme /\ screen'.row = new
    BY <2>1
  <2> HIDE DEF data, read, failed
  <2> QED BY <2>4, <2>5, <2>6, <2>7 DEF RowOK
<1>5. ASSUME NEW p \in Programmes, AwardMoves(p) PROVE AwardsInv'
  <2>1. /\ DOMAIN screen' = DOMAIN screen /\ screen'.entry = [screen.entry EXCEPT ![p] = @ + 1]
        /\ screen'.programme = screen.programme /\ screen'.row = screen.row
    BY <1>5 DEF AwardMoves, Show
  <2>2. /\ screen'.entry \in [Programmes -> Nat \ {0}]
        /\ \A q \in Programmes : 1 .. screen.entry[q] \subseteq 1 .. screen'.entry[q]
    BY <2>1
  <2> QED BY <2>1, <2>2 DEF RowOK
<1>6. ASSUME NEW p \in Programmes, OpenAwards(p) PROVE AwardsInv'
  <2>1. Frame /\ screen'.programme = p /\ screen'.row = screen.row
    BY <1>6 DEF OpenAwards, Show
  <2> QED BY <2>1
<1> QED BY <1>1, <1>2, <1>3, <1>4, <1>5, <1>6 DEF AwardsNext

LEMMA AwardsSayIt == ASSUME AwardsInv PROVE RowIsOfProgramme
  BY AddressesAssumption DEF AwardsInv, RowOK, RowIsOfProgramme, RowFigures, ChainSuccess, ChainFailed, Row

------------------------------------------------------------------------------
(* The page of a programme *)

\* A document that is called verified hashes to what its programme committed to, which
\* is the programme of the page unless the two are apart.
StateOK(state) ==
  /\ DOMAIN state = {"kind", "doc", "of"}
  /\ state.kind = "ok" => /\ {"says", "keys", "links"} \subseteq DOMAIN state.doc
                          /\ Hashes(state.doc, Committed[state.of])
DetailInv ==
  /\ {"programme", "config", "configFailed", "money", "moneyFailed", "now", "url", "state", "fetches",
      "apart"} \subseteq DOMAIN screen
  /\ ~screen.apart =>
       /\ \A fetch \in screen.fetches : fetch.of = screen.programme
       /\ screen.state.kind = "ok" => screen.state.of = screen.programme
  /\ screen.programme \in Programmes /\ screen.config \in Programmes \cup {NoAddress}
  /\ screen.now \in Nat /\ screen.url \in DOMAIN Responses \cup {NoAddress}
  /\ StateOK(screen.state)
  /\ \A fetch \in screen.fetches : fetch.url \in DOMAIN Responses

LEMMA DetailInvInit == ASSUME DetailInit PROVE Stays("detail") /\ DetailInv
<1>1. /\ {"is", "programme", "config", "configFailed", "money", "moneyFailed", "now", "url", "state",
          "fetches", "apart"} \subseteq DOMAIN screen
      /\ screen.is = "detail" /\ screen.programme \in Programmes /\ screen.config = NoAddress
      /\ screen.now = 0 /\ screen.url = NoAddress /\ screen.state = NoState /\ screen.fetches = {}
  BY DEF DetailInit
<1> QED BY <1>1 DEF DetailInv, Stays, NoState, StateOK

LEMMA VerdictOK ==
  ASSUME NEW url \in DOMAIN Responses, NEW response \in Responses[url], NEW of
  PROVE  StateOK(Verdict(response, of)) /\ Verdict(response, of).of = of
<1>3. Verdict(response, of).of = of
  BY DEF Verdict
<1>1. ASSUME response.kind \notin {"document"}
      PROVE  StateOK(Verdict(response, of))
  BY <1>1, DetailAssumption DEF Verdict, StateOK
<1>2. ASSUME response.kind = "document"
      PROVE  StateOK(Verdict(response, of))
  BY <1>2, DetailAssumption DEF Verdict, StateOK
<1> QED BY <1>1, <1>2, <1>3

LEMMA DetailKept == ASSUME Stays("detail"), DetailInv, DetailNext PROVE DetailInv'
<1> USE DEF DetailInv, Show
<1>1. CASE DetailConfigRead
  BY <1>1 DEF DetailConfigRead
<1>2. CASE ConfigFails
  <2>1. StateOK(NoState) /\ NoState.kind # "ok"
    BY DEF StateOK, NoState
  <2> QED BY <1>2, <2>1 DEF ConfigFails
<1>3. CASE RetryConfig \/ RefetchMoney
  BY <1>3 DEF RetryConfig, RefetchMoney
<1>4. CASE MinutePasses
  BY <1>4 DEF MinutePasses
<1>5. CASE HandleFetch
  <2> DEFINE state == [screen.state EXCEPT !.kind = "fetching"]
             new == [n |-> clicks, url |-> screen.url, of |-> screen.config]
             apart == \E of \in {screen.config} \cup {fetch.of : fetch \in screen.fetches} :
                        of # screen.programme
  <2>1. screen' = [screen EXCEPT !.state = state, !.apart = apart, !.fetches = @ \cup {new}]
        /\ screen.url \in DOMAIN Responses
    BY <1>5 DEF HandleFetch, FetchOffered
  <2>2. /\ StateOK(state) /\ state.kind = "fetching"
        /\ new.url = screen.url /\ new.of = screen.config
    BY DEF StateOK
  <2>3. apart \/ (/\ screen.config = screen.programme
                  /\ \A fetch \in screen.fetches : fetch.of = screen.programme)
    OBVIOUS
  <2> HIDE DEF state, new, apart
  <2> QED BY <2>1, <2>2, <2>3
<1>6. ASSUME NEW p \in Programmes, OpenDetail(p) PROVE DetailInv'
  <2> DEFINE apart == screen.state # NoState \/ screen.fetches # {}
  <2>1. screen' = [screen EXCEPT !.programme = p, !.apart = apart]
    BY <1>6 DEF OpenDetail
  <2>2. apart \/ (screen.state.kind # "ok" /\ screen.fetches = {})
    BY DEF NoState
  <2> HIDE DEF apart
  <2> QED BY <2>1, <2>2
<1>7. ASSUME NEW read, MoneyAnswers(read) PROVE DetailInv'
  <2>1. /\ DOMAIN screen' = DOMAIN screen /\ screen'.now = screen.now
        /\ screen'.programme = screen.programme /\ screen'.config = screen.config
        /\ screen'.url = screen.url /\ screen'.state = screen.state
        /\ screen'.fetches = screen.fetches /\ screen'.apart = screen.apart
    BY <1>7 DEF MoneyAnswers
  <2> QED BY <2>1
<1>8. ASSUME NEW url \in DOMAIN Responses \cup {NoAddress}, EditUrl(url) PROVE DetailInv'
  <2>1. StateOK(NoState) /\ NoState.kind # "ok"
    BY DEF StateOK, NoState
  <2> QED BY <1>8, <2>1 DEF EditUrl
<1>9. ASSUME NEW fetch \in screen.fetches, DocumentArrives(fetch) PROVE DetailInv'
  <2>1. PICK response \in Responses[fetch.url] :
          screen' = [screen EXCEPT !.fetches = @ \ {fetch}, !.state = Verdict(response, fetch.of)]
    BY <1>9 DEF DocumentArrives
  <2>2. StateOK(Verdict(response, fetch.of)) /\ Verdict(response, fetch.of).of = fetch.of
    BY VerdictOK
  <2> QED BY <2>1, <2>2
<1> QED BY <1>1, <1>2, <1>3, <1>4, <1>5, <1>6, <1>7, <1>8, <1>9 DEF DetailNext

LEMMA DetailSaysIt == ASSUME DetailInv PROVE DetailIsVerified
<1>1. ASSUME MetadataShown # NoDoc
      PROVE  /\ Committed[screen.state.of].says = MetadataShown.says
             /\ Committed[screen.state.of].links = MetadataShown.links
             /\ ~screen.apart => screen.state.of = screen.programme
  BY <1>1 DEF DetailInv, StateOK, MetadataShown, Hashes, Canonicalize
<1>2. ASSUME ConfigShown, NEW i \in DOMAIN TimelineRows
      PROVE  TimelineRows[i].status = "Passed" <=> (NextDeadline = 0 \/ i < NextDeadline)
  <2> DEFINE due == Deadlines[screen.config]
             now == screen.now
             open == {k \in 1 .. 4 : due[k] > now}
  <2>1. /\ due \in [1 .. 4 -> Nat] /\ \A k, l \in 1 .. 4 : k <= l => due[k] <= due[l]
        /\ now \in Nat
    BY <1>2, DetailAssumption DEF ConfigShown, DetailInv
  <2>2. DOMAIN TimelineSteps = 1 .. 4 /\ i \in 1 .. 4
    BY DEF TimelineRows, TimelineSteps
  <2>3. TimelineRows[i].status = "Passed" <=> due[i] <= now
    BY <2>2 DEF TimelineRows, DeadlineOf
  <2>4. NextDeadline = IF open = {} THEN 0 ELSE CHOOSE k \in open : \A l \in open : k <= l
    BY <2>2 DEF NextDeadline, DeadlineOf
  <2> HIDE DEF due, now
  <2>5. CASE open = {}
    BY <2>1, <2>2, <2>3, <2>4, <2>5
  <2>6. CASE open # {}
    <3>1. Min(open) \in open /\ \A l \in open : Min(open) <= l
      BY <2>6, LeastNatural
    <3>2. NextDeadline \in open /\ \A l \in open : NextDeadline <= l
      BY <2>4, <2>6, <3>1
    <3> QED BY <2>1, <2>2, <2>3, <3>2
  <2> QED BY <2>5, <2>6
<1> QED BY <1>1, <1>2 DEF DetailIsVerified

------------------------------------------------------------------------------
(* The lifetimes of a programme's entries *)

\* What is asked is of the programme chosen, and so is what was read last.
LifetimesInv ==
  /\ {"programme", "naming", "named", "asked", "rows", "failed"} \subseteq DOMAIN screen
  /\ screen.asked # <<>> => Head(screen.asked).p = screen.programme
  /\ LifetimesShown

LEMMA AskIsOne ==
  ASSUME NEW p, NEW named
  PROVE  AskLifetimes(p, named) # <<>> /\ Head(AskLifetimes(p, named)).p = p
BY DEF AskLifetimes

LEMMA LifetimesInvInit == ASSUME LifetimesInit PROVE Stays("lifetimes") /\ LifetimesInv
  BY DEF LifetimesInit, LifetimesInv, LifetimesShown, Stays

LEMMA LifetimesKept == ASSUME Stays("lifetimes"), LifetimesInv, LifetimesNext PROVE LifetimesInv'
<1> USE DEF LifetimesInv, LifetimesShown, Show, Stays
<1>1. CASE AwardsNamed
  BY <1>1, AskIsOne DEF AwardsNamed
<1>2. CASE LifetimesAnswer
  <2> DEFINE ask == Head(screen.asked)
             lifetimes == ReadProgrammeLifetimes(ask.p, ask.named)
  <2>1. lifetimes.of = ask.p /\ ask.p = screen.programme
    BY <1>2 DEF ReadProgrammeLifetimes, LifetimesAnswer
  <2>2. \/ screen' = [screen EXCEPT !.asked = <<>>, !.failed = FALSE, !.rows = <<lifetimes>>]
        \/ screen' = [screen EXCEPT !.asked = <<>>, !.failed = TRUE]
    BY <1>2 DEF LifetimesAnswer
  <2>3. Head(<<lifetimes>>) = lifetimes
    OBVIOUS
  <2> DEFINE rows == <<lifetimes>>
  <2> HIDE DEF lifetimes, ask, rows
  <2>4. CASE screen' = [screen EXCEPT !.asked = <<>>, !.failed = FALSE, !.rows = rows]
    BY <2>1, <2>3, <2>4 DEF rows
  <2>5. CASE screen' = [screen EXCEPT !.asked = <<>>, !.failed = TRUE]
    BY <2>5
  <2> QED BY <2>2, <2>4, <2>5 DEF rows
<1>3. CASE ChooseLifetimes
  BY <1>3, AskIsOne DEF ChooseLifetimes
<1>4. CASE RetryLifetimes
  BY <1>4, AskIsOne DEF RetryLifetimes
<1> QED BY <1>1, <1>2, <1>3, <1>4 DEF LifetimesNext

------------------------------------------------------------------------------
(* A receipt *)

\* A result is of some transaction, which is the one in the field unless they are apart.
ReceiptInv ==
  /\ {"input", "state", "lookups", "apart"} \subseteq DOMAIN screen
  /\ screen.state.kind \in {"idle", "searching", "failed", "result"}
  /\ screen.lookups \subseteq TxHashes
  /\ screen.state.kind = "result" => \E hash \in TxHashes : screen.state.result = LookupTransaction(hash)
  /\ ~screen.apart =>
       /\ screen.lookups \subseteq {screen.input}
       /\ screen.state.kind = "result" => screen.state.result.of = screen.input

LEMMA LookingFor ==
  ASSUME NEW kind, NEW result
  PROVE  Looking(kind, result).kind = kind /\ Looking(kind, result).result = result
BY DEF Looking

LEMMA ReceiptInvInit == ASSUME ReceiptInit PROVE Stays("receipt") /\ ReceiptInv
<1>1. PICK seed :
        screen = [is |-> "receipt", input |-> seed,
                  state |-> Looking(IF seed \in TxHashes THEN "searching" ELSE "idle", NoResult),
                  lookups |-> {seed} \cap TxHashes, apart |-> FALSE]
  BY DEF ReceiptInit
<1> QED BY <1>1, LookingFor DEF ReceiptInv, Stays

LEMMA ReceiptKept == ASSUME Stays("receipt"), ReceiptInv, ReceiptNext PROVE ReceiptInv'
<1> USE DEF ReceiptInv, Show
<1>1. CASE RebuildReceipt
  <2> DEFINE apart == screen.lookups \ {screen.input} # {}
             asked == [screen EXCEPT !.apart = apart]
             failed == Looking("failed", NoResult)
             searching == Looking("searching", NoResult)
  <2>1. \/ screen' = [asked EXCEPT !.state = failed]
        \/ /\ screen.input \in TxHashes
           /\ screen' = [asked EXCEPT !.state = searching, !.lookups = @ \cup {screen.input}]
    BY <1>1 DEF RebuildReceipt
  <2>2. failed.kind = "failed" /\ searching.kind = "searching"
    BY LookingFor
  <2>3. apart \/ screen.lookups \subseteq {screen.input}
    OBVIOUS
  <2> HIDE DEF apart, failed, searching
  <2>4. /\ DOMAIN asked = DOMAIN screen /\ asked.input = screen.input /\ asked.apart = apart
        /\ asked.lookups = screen.lookups
    OBVIOUS
  <2> HIDE DEF asked
  <2>5. /\ DOMAIN screen' = DOMAIN screen /\ screen'.input = screen.input /\ screen'.apart = apart
        /\ screen'.state \in {failed, searching}
        /\ screen'.lookups \subseteq screen.lookups \cup ({screen.input} \cap TxHashes)
    <3> HIDE DEF ReceiptInv
    <3>1. {"input", "state", "lookups", "apart"} \subseteq DOMAIN asked
      BY <2>4 DEF ReceiptInv
    <3>2. CASE screen' = [asked EXCEPT !.state = failed]
      BY <2>4, <3>1, <3>2
    <3>3. CASE /\ screen.input \in TxHashes
               /\ screen' = [asked EXCEPT !.state = searching, !.lookups = @ \cup {screen.input}]
      BY <2>4, <3>1, <3>3
    <3> QED BY <2>1, <3>2, <3>3
  <2> QED BY <2>2, <2>3, <2>5
<1>2. ASSUME NEW text, TypeHash(text) PROVE ReceiptInv'
  BY <1>2 DEF TypeHash
<1>3. ASSUME NEW hash \in TxHashes, ReceiptAnswers(hash) PROVE ReceiptInv'
  <2> DEFINE found == Looking("result", LookupTransaction(hash))
             failed == Looking("failed", NoResult)
  <2>1. PICK state \in {found, failed} :
          screen' = [screen EXCEPT !.lookups = @ \ {hash}, !.state = state]
    BY <1>3 DEF ReceiptAnswers
  <2>2. /\ state.kind \in {"failed", "result"}
        /\ state.kind = "result" => state.result = LookupTransaction(hash)
    BY <2>1, LookingFor
  <2>3. LookupTransaction(hash).of = hash /\ hash \in screen.lookups
    BY <1>3 DEF LookupTransaction, ReceiptAnswers
  <2> HIDE DEF found, failed
  <2> QED BY <2>1, <2>2, <2>3
<1> QED BY <1>1, <1>2, <1>3 DEF ReceiptNext

\* What is parsed of a transaction is the contribution that the first such call made.
LEMMA ParsedIsCalled ==
  ASSUME NEW hash \in TxHashes, ParseContribution(TxOf[hash]) # NoContribution
  PROVE  \E i \in DOMAIN TxOf[hash].ops :
           /\ TxOf[hash].ops[i].contribution = ParseContribution(TxOf[hash])
           /\ IsContribute(TxOf[hash].ops[i])
           /\ \A j \in 1 .. i - 1 : ~IsContribute(TxOf[hash].ops[j])
<1> DEFINE found == TxOf[hash]
           ops == OperationsOf(found)
           made == {i \in DOMAIN ops : IsContribute(ops[i])}
<1>1. made # {} /\ ParseContribution(found) = ops[Min(made)].contribution
  BY DEF ParseContribution
<1>2. ops = found.ops
  BY <1>1 DEF OperationsOf
<1>3. DOMAIN ops = 1 .. Len(ops) /\ Len(ops) \in Nat
  <2>1. found.ops \in Seq(ToSet(found.ops))
    BY OperationsAssumption
  <2> QED BY <1>2, <2>1
<1>4. Min(made) \in made /\ \A i \in made : Min(made) <= i
  <2>1. made \subseteq Nat
    BY <1>3
  <2> HIDE DEF made
  <2> QED BY <1>1, <2>1, LeastNatural
<1>5. ASSUME NEW j \in 1 .. Min(made) - 1 PROVE ~IsContribute(ops[j])
  <2>1. Min(made) \in 1 .. Len(ops)
    BY <1>3, <1>4
  <2>2. j \in DOMAIN ops /\ ~(Min(made) <= j)
    BY <1>3, <2>1
  <2> QED BY <1>4, <2>2
<1> HIDE DEF ops
<1> QED BY <1>1, <1>2, <1>4, <1>5

LEMMA ReceiptSaysIt == ASSUME ReceiptInv PROVE ReceiptIsReal
<1> DEFINE result == screen.state.result
           hash == result.of
<1> SUFFICES ASSUME Receipt.says = "contribution confirmed"
             PROVE  /\ hash \in TxHashes /\ TxOf[hash].status = "SUCCESS"
                    /\ \E i \in DOMAIN TxOf[hash].ops :
                         /\ IsContribute(TxOf[hash].ops[i])
                         /\ TxOf[hash].ops[i].contribution = Receipt.contribution
                         /\ \A j \in 1 .. i - 1 : ~IsContribute(TxOf[hash].ops[j])
                    /\ ~screen.apart => Receipt.hash = hash
  BY DEF ReceiptIsReal
<1>1. /\ screen.state.kind = "result" /\ result.contribution # NoContribution
      /\ Receipt.contribution = result.contribution /\ Receipt.hash = screen.input
  BY DEF Receipt, ReceiptInv
<1>2. PICK h \in TxHashes : result = LookupTransaction(h)
  BY <1>1 DEF ReceiptInv
<1>3. hash = h
  <2> DEFINE found == LookupTransaction(h)
  <2>1. found.of = h
    BY DEF LookupTransaction
  <2> HIDE DEF found
  <2> QED BY <1>2, <2>1 DEF found
<1>4. TxOf[h].status = "SUCCESS" /\ result.contribution = ParseContribution(TxOf[h])
  <2> DEFINE found == LookupTransaction(h)
  <2>1. found.contribution = IF TxOf[h].status = "SUCCESS" THEN ParseContribution(TxOf[h])
                             ELSE NoContribution
    BY DEF LookupTransaction
  <2> HIDE DEF found
  <2> QED BY <1>1, <1>2, <2>1 DEF found
<1>5. ~screen.apart => Receipt.hash = hash
  BY <1>1 DEF ReceiptInv
<1> HIDE DEF result
<1> QED BY <1>1, <1>3, <1>4, <1>5, ParsedIsCalled

------------------------------------------------------------------------------
(* A recipient's standing *)

\* Credits folded into a root, each after the ones before it.
AppendsOf(g, s, S) ==
  g = [V \in SUBSET S |-> IF V = {} THEN <<>> ELSE Append(g[V \ {Max(V)}], s[Max(V)])]

LEMMA AppendsOfExists ==
  ASSUME NEW E, NEW s \in Seq(E)
  PROVE  \E g : AppendsOf(g, s, DOMAIN s)
<1> DEFINE S == DOMAIN s
           step == [root \in Seq(E) |-> [e \in E |-> Append(root, e)]]
<1>1. /\ step \in [Seq(E) -> [E -> Seq(E)]]
      /\ \A root \in Seq(E), e \in E : step[root][e] = Append(root, e)
  OBVIOUS
<1>2. Places(S) /\ \A i \in S : s[i] \in E
  BY PlacesOfList
<1>3. <<>> \in Seq(E)
  OBVIOUS
<1> HIDE DEF step, S
<1>4. PICK g : FoldsWithin(g, Seq(E), E, step, <<>>, s, S)
  BY <1>1, <1>2, <1>3, FoldsWithinExists
<1>5. AppendsOf(g, s, S)
  BY <1>1, <1>4 DEF AppendsOf, FoldsWithin
<1> QED BY <1>5 DEF S

LEMMA FoldOfAppends ==
  ASSUME NEW E, NEW s \in Seq(E)
  PROVE  FoldLeft(NextRoot, Genesis, s) = s
<1> DEFINE S == DOMAIN s
           g == CHOOSE f : AppendsOf(f, s, S)
<1>1. Len(s) \in Nat /\ S = 1 .. Len(s) /\ \A i \in S : s[i] \in E
  OBVIOUS
<1>2. AppendsOf(g, s, S)
  BY AppendsOfExists
<1>3. FoldLeft(NextRoot, Genesis, s) = g[S]
  BY DEF FoldLeft, MapThenFoldSet, AppendsOf, NextRoot, Genesis
<1> HIDE DEF g, S
<1> DEFINE Good == {V \in SUBSET S : \A k \in 0 .. Len(s) : V = 1 .. k => g[V] = SubSeq(s, 1, k)}
<1>4. {} \in Good
  <2>1. g[{}] = <<>>
    BY <1>2 DEF AppendsOf
  <2>2. \A k \in 0 .. Len(s) : {} = 1 .. k => SubSeq(s, 1, k) = <<>>
    BY <1>1
  <2> QED BY <2>1, <2>2
<1>5. ASSUME NEW V \in SUBSET S, V # {}, V \ {Max(V)} \in Good PROVE V \in Good
  <2> SUFFICES ASSUME NEW k \in 0 .. Len(s), V = 1 .. k PROVE g[V] = SubSeq(s, 1, k)
    OBVIOUS
  <2>1. k \in 1 .. Len(s) /\ k \in V /\ \A i \in V : i <= k
    BY <1>1, <1>5
  <2>2. Max(V) \in V /\ \A i \in V : Max(V) >= i
    <3>1. \E m \in V : \A i \in V : m >= i
      BY <1>1, <2>1
    <3> QED BY <3>1 DEF Max
  <2>3. Max(V) = k
    BY <1>1, <2>1, <2>2
  <2>4. V \ {k} = 1 .. (k - 1) /\ k - 1 \in 0 .. Len(s)
    BY <1>1, <2>1
  <2>5. g[V \ {k}] = SubSeq(s, 1, k - 1)
    BY <1>5, <2>3, <2>4
  <2>6. g[V] = Append(SubSeq(s, 1, k - 1), s[k])
    BY <1>2, <1>5, <2>3, <2>5 DEF AppendsOf
  <2>7. SubSeq(s, 1, k) = Append(SubSeq(s, 1, k - 1), s[k])
    BY <1>1, <2>1
  <2> QED BY <2>6, <2>7
<1>6. Places(S)
  BY <1>1, PlacesOfList
<1>7. S \in Good
  <2> HIDE DEF Good
  <2> QED BY <1>4, <1>5, <1>6, PlacesInduction
<1>8. S = 1 .. Len(s) /\ Len(s) \in 0 .. Len(s) /\ SubSeq(s, 1, Len(s)) = s
  BY <1>1
<1> QED BY <1>3, <1>7, <1>8

\* A root that was read is one that the record of the subject went through.
RootOK(root, history) ==
  root \in Seq(Credits) /\ root # Genesis /\ IsPrefix(root, history)
CheckOK(check, history) ==
  {"entries", "root"} \subseteq DOMAIN check /\ check.entries \in Pasted /\ RootOK(check.root, history)

Texts == {EmptyText, MalformedText} \cup {HistoryText(entries) : entries \in Pasted}

\* What is read and checked on a panel is of its subject, and the verdict is on it.
PanelOK(panel, history) ==
  /\ {"of", "read", "root", "text", "error", "checking", "checked", "verdict", "edited", "tx",
      "extended"} \subseteq DOMAIN panel
  /\ panel.of \in Wallets /\ panel.text \in Texts
  /\ panel.read = "read" => panel.of # NoAddress /\ RootOK(panel.root, history[panel.of])
  /\ panel.checking # NoCheck =>
       /\ panel.of # NoAddress /\ CheckOK(panel.checking, history[panel.of])
       /\ ~panel.edited => panel.checking.entries = panel.text.entries
  /\ panel.verdict # NoVerdict =>
       /\ panel.of # NoAddress /\ CheckOK(panel.checked, history[panel.of])
       /\ panel.verdict = VerifyStandingHistory(panel.checked.entries, panel.checked.root)
       /\ ~panel.edited => panel.checked.entries = panel.text.entries
VerdictInv ==
  /\ me \in Wallets
  /\ {"doing", "lookedUp", "panel", "unseen", "history"} \subseteq DOMAIN screen
  /\ screen.lookedUp \in Wallets /\ screen.history \in [{Creator, Other} -> Seq(Credits)]
  /\ PanelOK(screen.panel, screen.history)

LEMMA FreshPanelOK ==
  ASSUME NEW subject \in Wallets, NEW history PROVE PanelOK(FreshPanel(subject), history)
BY DEF FreshPanel, PanelOK, Texts

LEMMA VerdictInvInit == ASSUME StandingInit, me \in Wallets PROVE Stays("standing") /\ VerdictInv
<1> DEFINE credit == CHOOSE c \in Credits : TRUE
           history == [r \in {Creator, Other} |-> IF r = Creator THEN Genesis ELSE <<credit>>]
<1>1. /\ {"is", "doing", "lookedUp", "panel", "unseen", "history"} \subseteq DOMAIN screen
      /\ screen.is = "standing" /\ screen.lookedUp = NoAddress
      /\ screen.panel = FreshPanel(me) /\ screen.history = history
  BY DEF StandingInit
<1>2. credit \in Credits
  BY HistoryAssumption
<1> HIDE DEF credit
<1>3. history \in [{Creator, Other} -> Seq(Credits)]
  BY <1>2 DEF Genesis
<1> QED BY <1>1, <1>3, FreshPanelOK DEF VerdictInv, Stays, Wallets

\* The record of a recipient only gets longer.
LEMMA PrefixOfLonger ==
  ASSUME NEW s \in Seq(Credits), NEW t \in Seq(Credits), IsPrefix(s, t), NEW credit \in Credits
  PROVE  IsPrefix(s, Append(t, credit))
BY DEF IsPrefix

LEMMA PanelOfLonger ==
  ASSUME NEW history \in [{Creator, Other} -> Seq(Credits)], NEW credit \in Credits,
         NEW panel, PanelOK(panel, history)
  PROVE  PanelOK(panel, [history EXCEPT ![Creator] = NextRoot(@, credit)])
<1> DEFINE next == [history EXCEPT ![Creator] = NextRoot(@, credit)]
<1>1. ASSUME NEW r \in {Creator, Other}, NEW s, RootOK(s, history[r]) PROVE RootOK(s, next[r])
  <2>1. next[r] \in {history[r], Append(history[r], credit)} /\ history[r] \in Seq(Credits)
    BY DEF NextRoot
  <2> HIDE DEF next
  <2> QED BY <1>1, <2>1, PrefixOfLonger DEF RootOK
<1>2. panel.of # NoAddress => panel.of \in {Creator, Other}
  BY DEF PanelOK, Wallets
<1> HIDE DEF next
<1>3. PanelOK(panel, next)
  BY <1>1, <1>2 DEF PanelOK, CheckOK
<1> QED BY <1>3 DEF next

LEMMA WholeIsPrefix == ASSUME NEW s \in Seq(Credits) PROVE IsPrefix(s, s)
  BY DEF IsPrefix

LEMMA VerdictKept == ASSUME Stays("standing"), VerdictInv, StandingNext PROVE VerdictInv'
<1> DEFINE history == screen.history
           Frame == /\ DOMAIN screen' = DOMAIN screen /\ me' = me
                    /\ screen'.history = history /\ screen'.lookedUp = screen.lookedUp
<1>a. /\ me \in Wallets /\ PanelOK(Panel, history)
      /\ {"doing", "lookedUp", "panel", "unseen", "history"} \subseteq DOMAIN screen
      /\ screen.lookedUp \in Wallets /\ history \in [{Creator, Other} -> Seq(Credits)]
  BY DEF VerdictInv, Panel
\* A step of the panel, which is still well.
<1>b. ASSUME NEW panel, ShowPanel(panel), PanelOK(panel, history) PROVE VerdictInv'
  <2>1. Frame /\ screen'.panel = panel
    BY <1>a, <1>b DEF ShowPanel, Show
  <2> QED BY <1>a, <1>b, <2>1 DEF VerdictInv
<1>c. StandingSubject \in Wallets
  BY <1>a DEF StandingSubject
<1>d. AtStanding /\ StandingSubject # NoAddress => Panel.of \in {Creator, Other} /\ Panel.of # NoAddress
  BY <1>a DEF AtStanding, PanelOK, Wallets
<1>1. ASSUME NEW address \in Wallets, Show([screen EXCEPT !.lookedUp = address]) PROVE VerdictInv'
  BY <1>a, <1>1 DEF VerdictInv, Show, Panel
<1>2. CASE PanelReplaced
  <2> DEFINE panel == FreshPanel(StandingSubject)
  <2>1. Frame /\ screen'.panel = panel
    BY <1>2, <1>a DEF PanelReplaced, Show
  <2>2. PanelOK(panel, history)
    BY <1>c, FreshPanelOK
  <2> HIDE DEF panel
  <2> QED BY <1>a, <2>1, <2>2 DEF VerdictInv
<1>3. CASE CreditLands
  <2>1. PICK credit \in Credits :
          screen' = [screen EXCEPT !.history[Creator] = NextRoot(@, credit)] /\ me' = me
    BY <1>3 DEF CreditLands, Show
  <2> DEFINE next == [history EXCEPT ![Creator] = NextRoot(@, credit)]
  <2>2. /\ DOMAIN screen' = DOMAIN screen /\ screen'.history = next /\ screen'.lookedUp = screen.lookedUp
        /\ screen'.panel = Panel
    BY <1>a, <2>1 DEF Panel
  <2>3. next \in [{Creator, Other} -> Seq(Credits)]
    BY <1>a DEF NextRoot
  <2>4. PanelOK(Panel, next)
    <3> HIDE DEF history
    <3> QED BY <1>a, PanelOfLonger
  <2> HIDE DEF next
  <2> QED BY <1>a, <2>1, <2>2, <2>3, <2>4 DEF VerdictInv
<1>4. CASE StandingAnswers
  <2> DEFINE root == history[StandingSubject]
             found == IF root = Genesis THEN "none" ELSE "read"
             shown == IF root = Genesis THEN NoRoot ELSE root
             answer == [Panel EXCEPT !.read = found, !.root = shown]
             failure == [Panel EXCEPT !.read = "failed"]
  <2>1. AtStanding /\ StandingSubject # NoAddress /\ (ShowPanel(answer) \/ ShowPanel(failure))
    BY <1>4, Zenon DEF StandingAnswers
  <2>2. found = "read" => RootOK(shown, history[Panel.of])
    BY <1>a, <1>d, <2>1, WholeIsPrefix DEF AtStanding, RootOK
  <2> HIDE DEF found, shown
  <2>3. PanelOK(answer, history)
    BY <1>a, <1>d, <2>1, <2>2 DEF PanelOK
  <2>4. PanelOK(failure, history)
    BY <1>a DEF PanelOK
  <2> HIDE DEF answer, failure
  <2> QED BY <1>b, <2>1, <2>3, <2>4
<1>5. CASE RetryStanding
  <2> DEFINE panel == [Panel EXCEPT !.read = "loading"]
  <2>1. PanelOK(panel, history)
    BY <1>a DEF PanelOK
  <2>2. ShowPanel(panel)
    BY <1>5 DEF RetryStanding
  <2> HIDE DEF panel
  <2> QED BY <1>b, <2>1, <2>2
<1>6. CASE VerifyHistory
  <2> DEFINE malformed == [Panel EXCEPT !.error = TRUE, !.verdict = NoVerdict]
             check == [entries |-> Panel.text.entries, root |-> Panel.root]
             asked == [Panel EXCEPT !.error = FALSE, !.verdict = NoVerdict, !.edited = FALSE,
                                    !.checking = check]
  <2>1. /\ AtVerifier /\ Panel.text # EmptyText
        /\ IF Panel.text = MalformedText THEN ShowPanel(malformed) ELSE ShowPanel(asked)
    BY <1>6 DEF VerifyHistory
  <2>2. Panel.of # NoAddress /\ RootOK(Panel.root, history[Panel.of])
    BY <1>a, <2>1 DEF AtVerifier, PanelOK
  <2>3. PanelOK(malformed, history)
    BY <1>a DEF PanelOK
  <2>4. ASSUME Panel.text # MalformedText PROVE CheckOK(check, history[Panel.of])
    <3>1. PICK entries \in Pasted : Panel.text = HistoryText(entries)
      BY <1>a, <2>1, <2>4 DEF PanelOK, Texts
    <3>2. Panel.text.entries = entries
      BY <3>1 DEF HistoryText
    <3> QED BY <2>2, <3>2 DEF CheckOK
  <2>6. check.entries = Panel.text.entries
    OBVIOUS
  <2> HIDE DEF check
  <2>5. Panel.text # MalformedText => PanelOK(asked, history)
    BY <1>a, <2>2, <2>4, <2>6 DEF PanelOK
  <2> HIDE DEF malformed, asked
  <2> QED BY <1>b, <2>1, <2>3, <2>5
<1>7. CASE HistoryVerified
  <2> DEFINE check == Panel.checking
             verdict == VerifyStandingHistory(check.entries, check.root)
             answer == [Panel EXCEPT !.checking = NoCheck, !.checked = check, !.verdict = verdict]
             failure == [Panel EXCEPT !.checking = NoCheck, !.error = TRUE]
  <2>1. check # NoCheck /\ (ShowPanel(answer) \/ ShowPanel(failure))
    BY <1>7, Zenon DEF HistoryVerified
  <2>2. Panel.of # NoAddress /\ CheckOK(check, history[Panel.of])
    BY <1>a, <2>1 DEF PanelOK
  <2>3. PanelOK(failure, history)
    BY <1>a DEF PanelOK
  <2>4. /\ DOMAIN answer = DOMAIN Panel /\ answer.of = Panel.of /\ answer.text = Panel.text
        /\ answer.read = Panel.read /\ answer.root = Panel.root /\ answer.checking = NoCheck
        /\ answer.edited = Panel.edited
        /\ answer.checked = check
        /\ answer.verdict = VerifyStandingHistory(answer.checked.entries, answer.checked.root)
    BY <1>a DEF PanelOK
  <2>6. ~Panel.edited => check.entries = Panel.text.entries
    BY <1>a, <2>1 DEF PanelOK
  <2> HIDE DEF answer, failure, check
  <2>5. PanelOK(answer, history)
    BY <1>a, <2>2, <2>4, <2>6 DEF PanelOK
  <2> QED BY <1>b, <2>1, <2>3, <2>5
<1>8. ASSUME NEW text \in Texts, PasteHistory(text) PROVE VerdictInv'
  <2> DEFINE edited == Panel.edited \/ Panel.checking # NoCheck
             panel == [Panel EXCEPT !.text = text, !.error = FALSE, !.verdict = NoVerdict,
                                    !.edited = edited]
  <2>1. ShowPanel(panel)
    BY <1>8 DEF PasteHistory
  <2>3. Panel.checking # NoCheck => edited
    OBVIOUS
  <2> HIDE DEF edited
  <2>2. PanelOK(panel, history)
    BY <1>a, <2>3 DEF PanelOK
  <2> HIDE DEF panel
  <2> QED BY <1>b, <2>1, <2>2
\* The send of the panel, and one that is unseen, change nothing of what was read.
<1>9. ASSUME Frame, DOMAIN screen'.panel = DOMAIN Panel,
             \A field \in DOMAIN Panel : field \notin {"tx", "extended"} =>
               screen'.panel[field] = Panel[field]
      PROVE  VerdictInv'
  <2> DEFINE panel == screen'.panel
  <2>1. /\ DOMAIN panel = DOMAIN Panel /\ panel.of = Panel.of /\ panel.text = Panel.text
        /\ panel.read = Panel.read /\ panel.root = Panel.root /\ panel.checking = Panel.checking
        /\ panel.checked = Panel.checked /\ panel.verdict = Panel.verdict
        /\ panel.edited = Panel.edited
    BY <1>a, <1>9 DEF PanelOK
  <2> HIDE DEF panel
  <2>2. PanelOK(panel, history)
    BY <1>a, <2>1 DEF PanelOK
  <2> QED BY <1>a, <1>9, <2>2 DEF VerdictInv, panel
<1>10. CASE ExtendStanding
  BY <1>a, <1>9, <1>10 DEF ExtendStanding, Panel
<1>11. ASSUME NEW outcome \in Outcomes, ExtendSettled(outcome) PROVE VerdictInv'
  <2>1. CASE screen' = [screen EXCEPT !.panel.tx = Settled(@, outcome),
                                      !.panel.extended = @ \/ outcome = "success"]
    <3> DEFINE panel == screen'.panel
    <3>1. me' = me
      BY <1>11 DEF ExtendSettled
    <3>2. /\ DOMAIN screen' = DOMAIN screen /\ screen'.history = history
          /\ screen'.lookedUp = screen.lookedUp
      BY <1>a, <2>1
    <3>3. /\ DOMAIN panel = DOMAIN Panel
          /\ \A field \in DOMAIN Panel : field \notin {"tx", "extended"} => panel[field] = Panel[field]
      BY <1>a, <2>1 DEF Panel
    <3> QED BY <1>9, <3>1, <3>2, <3>3
  <2>2. CASE \E call \in screen.unseen : screen' = [screen EXCEPT !.unseen = @ \ {call}]
    <3>1. me' = me
      BY <1>11 DEF ExtendSettled
    <3> QED BY <1>a, <1>9, <2>2, <3>1 DEF Panel
  <2> QED BY <1>11, <2>1, <2>2 DEF ExtendSettled
<1>12. CASE ClearLookup \/ \E address \in {Creator, Other} : LookUp(address)
  BY <1>1, <1>12 DEF ClearLookup, LookUp, Wallets
<1> QED BY <1>2, <1>3, <1>4, <1>5, <1>6, <1>7, <1>8, <1>10, <1>11, <1>12 DEF StandingNext, Texts

\* "Match" is said of a history that folds to the root, and of one that does not
\* diverge "mismatch" is not.
LEMMA VerdictOf ==
  ASSUME NEW entries \in Pasted, NEW root, root # Genesis
  PROVE  LET credits == [i \in DOMAIN entries |-> entries[i].credit]
             verdict == VerifyStandingHistory(entries, root)
         IN /\ verdict.kind = "match" => credits = root
            /\ credits = root /\ Diverging(entries) = {} => verdict.kind # "mismatch"
<1> DEFINE credits == [i \in DOMAIN entries |-> entries[i].credit]
           n == Len(entries)
<1>1. n \in Nat /\ DOMAIN entries = 1 .. n
  BY HistoryAssumption
<1>2. ASSUME entries # <<>> PROVE RootsOf(entries)[n] = credits
  <2>1. n \in DOMAIN entries
    <3>1. entries \in Seq(ToSet(entries))
      BY HistoryAssumption
    <3> QED BY <1>1, <1>2, <3>1
  <2>2. RootsOf(entries)[n] = FoldLeft(NextRoot, Genesis, credits)
    BY <1>1, <2>1 DEF RootsOf
  <2>3. credits \in Seq({entries[i].credit : i \in DOMAIN entries})
    BY <1>1
  <2> HIDE DEF credits
  <2> QED BY <2>2, <2>3, FoldOfAppends
<1>3. CASE entries = <<>>
  BY <1>3 DEF VerifyStandingHistory, Mismatch, Genesis
<1>4. CASE entries # <<>> /\ Diverging(entries) # {}
  BY <1>4 DEF VerifyStandingHistory, Mismatch
<1>5. CASE entries # <<>> /\ Diverging(entries) = {}
  BY <1>2, <1>5 DEF VerifyStandingHistory, Mismatch
<1> QED BY <1>3, <1>4, <1>5

LEMMA VerdictSaysIt == ASSUME VerdictInv PROVE VerdictIsTrue
<1> DEFINE claimed == Panel.checked.entries
           root == Panel.checked.root
           history == screen.history[Panel.of]
           credits == [i \in DOMAIN claimed |-> claimed[i].credit]
<1> SUFFICES ASSUME Panel.verdict # NoVerdict
             PROVE  /\ ~Panel.edited => claimed = Panel.text.entries
                    /\ Panel.verdict.kind = "match" => IsPrefix(credits, history)
                    /\ credits = root /\ Diverging(claimed) = {} => Panel.verdict.kind # "mismatch"
  BY DEF VerdictIsTrue
<1>1. /\ claimed \in Pasted /\ root # Genesis /\ IsPrefix(root, history)
      /\ Panel.verdict = VerifyStandingHistory(claimed, root)
      /\ ~Panel.edited => claimed = Panel.text.entries
  BY DEF VerdictInv, PanelOK, CheckOK, RootOK, Panel
<1>2. /\ Panel.verdict.kind = "match" => credits = root
      /\ credits = root /\ Diverging(claimed) = {} => Panel.verdict.kind # "mismatch"
  BY <1>1, VerdictOf
<1> QED BY <1>1, <1>2

------------------------------------------------------------------------------
(* The directory: its list *)

HasId(list, id) == \E i \in DOMAIN list : list[i].id = id
OneEach(list) == \A i, j \in DOMAIN list : list[i].id = list[j].id => i = j
Longer(list, more) == Len(list) <= Len(more) /\ \A i \in 1 .. Len(list) : more[i] = list[i]

\* An id is added, and not twice.
Added(all, id, source) == IF HasId(all, id) THEN all ELSE Append(all, Entry(id, source))
AddsOf(g, list, ids, source, S) ==
  g = [V \in SUBSET S |-> IF V = {} THEN list ELSE Added(g[V \ {Max(V)}], ids[Max(V)], source)]

LEMMA AddsOfExists ==
  ASSUME NEW E, NEW list \in Seq(E), NEW K, NEW ids \in Seq(K), NEW source,
         \A id \in K : Entry(id, source) \in E
  PROVE  \E g : AddsOf(g, list, ids, source, DOMAIN ids)
<1> DEFINE S == DOMAIN ids
           step == [all \in Seq(E) |-> [id \in K |-> Added(all, id, source)]]
<1>1. \A all \in Seq(E), id \in K : Added(all, id, source) \in Seq(E)
  BY DEF Added
<1>2. /\ step \in [Seq(E) -> [K -> Seq(E)]]
      /\ \A all \in Seq(E), id \in K : step[all][id] = Added(all, id, source)
  BY <1>1
<1>3. Places(S) /\ \A i \in S : ids[i] \in K
  BY PlacesOfList
<1> HIDE DEF step, S
<1>4. PICK g : FoldsWithin(g, Seq(E), K, step, list, ids, S)
  BY <1>2, <1>3, FoldsWithinExists
<1>5. AddsOf(g, list, ids, source, S)
  BY <1>2, <1>4 DEF AddsOf, FoldsWithin
<1> QED BY <1>5 DEF S

LEMMA AddedOnce ==
  ASSUME NEW E, NEW all \in Seq(E), NEW id, NEW source, Entry(id, source) \in E
  PROVE  LET more == Added(all, id, source)
         IN /\ more \in Seq(E) /\ Longer(all, more) /\ HasId(more, id)
            /\ OneEach(all) => OneEach(more)
<1>1. CASE HasId(all, id)
  BY <1>1 DEF Added, Longer
<1>2. CASE ~HasId(all, id)
  <2> DEFINE more == Append(all, Entry(id, source))
  <2>1. /\ more \in Seq(E) /\ Len(more) = Len(all) + 1
        /\ DOMAIN all = 1 .. Len(all) /\ DOMAIN more = 1 .. (Len(all) + 1) /\ Len(all) \in Nat
        /\ \A i \in 1 .. Len(all) : more[i] = all[i]
        /\ more[Len(all) + 1].id = id
    BY DEF Entry
  <2> HIDE DEF more
  <2>2. Longer(all, more) /\ HasId(more, id)
    BY <2>1 DEF Longer, HasId
  <2>3. OneEach(all) => OneEach(more)
    BY <1>2, <2>1 DEF OneEach, HasId
  <2> QED BY <1>2, <2>1, <2>2, <2>3 DEF Added, more
<1> QED BY <1>1, <1>2

LEMMA LongerHas ==
  ASSUME NEW E, NEW one \in Seq(E), NEW two \in Seq(E), Longer(one, two), NEW id, HasId(one, id)
  PROVE  HasId(two, id)
BY DEF Longer, HasId

LEMMA LongerTwice ==
  ASSUME NEW E, NEW one \in Seq(E), NEW two \in Seq(E), NEW three \in Seq(E),
         Longer(one, two), Longer(two, three)
  PROVE  Longer(one, three)
BY DEF Longer

\* What adding the ids of a list comes to.
LEMMA AddEntriesAre ==
  ASSUME NEW E, NEW list \in Seq(E), NEW K, NEW ids \in Seq(K), NEW source,
         \A id \in K : Entry(id, source) \in E
  PROVE  LET all == AddEntries(list, ids, source)
         IN /\ all \in Seq(E) /\ Longer(list, all) /\ \A id \in ToSet(ids) : HasId(all, id)
            /\ OneEach(list) => OneEach(all)
<1> DEFINE S == DOMAIN ids
           g == CHOOSE f : AddsOf(f, list, ids, source, S)
<1>1. AddsOf(g, list, ids, source, S)
  BY AddsOfExists
<1>2. AddEntries(list, ids, source) = g[S]
  BY DEF AddEntries, FoldLeft, MapThenFoldSet, AddsOf, Added, HasId
<1>3. Places(S) /\ \A i \in S : ids[i] \in K
  BY PlacesOfList
<1> HIDE DEF g, S
<1> DEFINE Good == {V \in SUBSET S : /\ g[V] \in Seq(E) /\ Longer(list, g[V])
                                     /\ \A i \in V : HasId(g[V], ids[i])
                                     /\ OneEach(list) => OneEach(g[V])}
<1>4. {} \in Good
  <2>1. g[{}] = list
    BY <1>1 DEF AddsOf
  <2>2. Longer(list, list)
    BY DEF Longer
  <2> QED BY <2>1, <2>2
<1>5. ASSUME NEW V \in SUBSET S, V # {}, V \ {Max(V)} \in Good PROVE V \in Good
  <2> DEFINE last == Max(V)
             before == g[V \ {last}]
  <2>1. last \in V /\ ids[last] \in K
    BY <1>3, <1>5 DEF Places
  <2>2. g[V] = Added(before, ids[last], source)
    BY <1>1, <1>5 DEF AddsOf
  <2>3. /\ before \in Seq(E) /\ Longer(list, before) /\ \A i \in V \ {last} : HasId(before, ids[i])
        /\ OneEach(list) => OneEach(before)
    BY <1>5
  <2> HIDE DEF before, last
  <2>4. /\ g[V] \in Seq(E) /\ Longer(before, g[V]) /\ HasId(g[V], ids[last])
        /\ OneEach(before) => OneEach(g[V])
    BY <2>1, <2>2, <2>3, AddedOnce
  <2>5. Longer(list, g[V])
    BY <2>3, <2>4, LongerTwice
  <2>6. \A id : HasId(before, id) => HasId(g[V], id)
    BY <2>3, <2>4, LongerHas
  <2> QED BY <2>3, <2>4, <2>5, <2>6
<1>6. S \in Good
  <2> HIDE DEF Good
  <2> QED BY <1>3, <1>4, <1>5, PlacesInduction
<1>7. \A id \in ToSet(ids) : HasId(g[S], id)
  BY <1>6 DEF ToSet, S
<1> QED BY <1>2, <1>6, <1>7

\* What the three lists are made of; the real ones are no samples.
Listable ==
  {Entry(id, "index") : id \in ToSet(Indexed)} \cup {Entry(id, "registry") : id \in ToSet(Registered)}
    \cup {Entry(id, "sample") : id \in ToSet(Sampled)}
Unsampled == {entry \in Listable : ~entry.sample}

\* An entry has the figures that it is sorted by.
FiguresOK(entry) ==
  /\ DOMAIN entry = {"id", "source", "real", "chain", "sample", "created"}
  /\ {"phase", "contributed", "fee", "closes"} \subseteq DOMAIN entry.chain
  /\ entry.created \in Int /\ BudgetShown(entry) \in Int /\ entry.chain.closes \in Int

LEMMA EntryFields ==
  ASSUME NEW id, NEW source
  PROVE  LET entry == Entry(id, source)
         IN /\ DOMAIN entry = {"id", "source", "real", "chain", "sample", "created"}
            /\ entry.id = id /\ ~entry.real /\ entry.chain = StandIn
            /\ source # "sample" => ~entry.sample
            /\ entry.created = IF source = "registry" THEN -1 ELSE CreatedAt[id]
BY DEF Entry

LEMMA ListableOK == ASSUME NEW entry \in Listable PROVE FiguresOK(entry) /\ ~entry.real
<1>1. PICK id, source :
        /\ entry = Entry(id, source)
        /\ source = "registry" \/ id \in ToSet(Indexed) \cup ToSet(Sampled)
  BY DEF Listable
<1>2. /\ DOMAIN entry = {"id", "source", "real", "chain", "sample", "created"}
      /\ ~entry.real /\ entry.chain = StandIn /\ entry.created \in Int
  BY <1>1, EntryFields, DirectoryAssumption
<1> QED BY <1>2, DirectoryAssumption DEF FiguresOK, BudgetShown

WholeList(all, ids) ==
  /\ all \in Seq(Listable) /\ OneEach(all)
  /\ \A id \in ids : \E i \in DOMAIN all : all[i].id = id /\ ~all[i].sample

\* The ids that are listed, each once, and none of the index or of the registry that
\* was read as a sample.
LEMMA MergedIsWhole ==
  ASSUME NEW index \in {<<>>, Indexed}, NEW registry \in {<<>>, Registered},
         NEW samples \in {<<>>, Sampled}
  PROVE  WholeList(MergeProgrammes(index, registry, samples), ToSet(index) \cup ToSet(registry))
<1> DEFINE first == AddEntries(<<>>, index, "index")
           second == AddEntries(first, registry, "registry")
           all == AddEntries(second, samples, "sample")
<1>1. /\ index \in Seq(ToSet(Indexed)) /\ registry \in Seq(ToSet(Registered))
      /\ samples \in Seq(ToSet(Sampled))
  <2>1. /\ Indexed \in Seq(ToSet(Indexed)) /\ Registered \in Seq(ToSet(Registered))
        /\ Sampled \in Seq(ToSet(Sampled))
    BY DirectoryAssumption
  <2>2. \A S : <<>> \in Seq(S)
    OBVIOUS
  <2> QED BY <2>1, <2>2
<1>2. /\ \A id \in ToSet(Indexed) : Entry(id, "index") \in Unsampled
      /\ \A id \in ToSet(Registered) : Entry(id, "registry") \in Unsampled
      /\ \A id \in ToSet(Sampled) : Entry(id, "sample") \in Listable
  BY EntryFields DEF Listable, Unsampled
<1>3. <<>> \in Seq(Unsampled) /\ OneEach(<<>>)
  BY DEF OneEach
<1>4. /\ first \in Seq(Unsampled) /\ \A id \in ToSet(index) : HasId(first, id)
      /\ OneEach(first)
  BY <1>1, <1>2, <1>3, AddEntriesAre
<1> HIDE DEF first
<1>5. /\ second \in Seq(Unsampled) /\ \A id \in ToSet(registry) : HasId(second, id)
      /\ OneEach(second) /\ Longer(first, second)
  BY <1>1, <1>2, <1>4, AddEntriesAre
<1> HIDE DEF second
<1>6. second \in Seq(Listable)
  BY <1>5 DEF Unsampled
<1>7. all \in Seq(Listable) /\ OneEach(all) /\ Longer(second, all)
  BY <1>1, <1>2, <1>5, <1>6, AddEntriesAre
<1> HIDE DEF all
<1>8. ASSUME NEW id \in ToSet(index) \cup ToSet(registry)
      PROVE  \E i \in DOMAIN all : all[i].id = id /\ ~all[i].sample
  <2>1. HasId(second, id)
    BY <1>4, <1>5, LongerHas
  <2>2. PICK i \in DOMAIN second : second[i].id = id
    BY <2>1 DEF HasId
  <2>3. second[i] \in Unsampled /\ i \in 1 .. Len(second)
    BY <1>5, <2>2
  <2>4. i \in DOMAIN all /\ all[i] = second[i]
    BY <1>5, <1>7, <2>3 DEF Longer
  <2> QED BY <2>2, <2>3, <2>4 DEF Unsampled
<1> QED BY <1>7, <1>8 DEF MergeProgrammes, WholeList, first, second, all

------------------------------------------------------------------------------
(* The directory: what is wanted of a list *)

KeepIf(kept, entry, wanted) == IF entry \in wanted THEN Append(kept, entry) ELSE kept
KeptOf(g, list, wanted, S) ==
  g = [V \in SUBSET S |-> IF V = {} THEN <<>> ELSE KeepIf(g[V \ {Max(V)}], list[Max(V)], wanted)]

LEMMA KeptOfExists ==
  ASSUME NEW E, NEW list \in Seq(E), NEW wanted
  PROVE  \E g : KeptOf(g, list, wanted, DOMAIN list)
<1> DEFINE S == DOMAIN list
           step == [kept \in Seq(E) |-> [entry \in E |-> KeepIf(kept, entry, wanted)]]
<1>1. \A kept \in Seq(E), entry \in E : KeepIf(kept, entry, wanted) \in Seq(E)
  BY DEF KeepIf
<1>2. /\ step \in [Seq(E) -> [E -> Seq(E)]]
      /\ \A kept \in Seq(E), entry \in E : step[kept][entry] = KeepIf(kept, entry, wanted)
  BY <1>1
<1>3. Places(S) /\ (\A i \in S : list[i] \in E) /\ <<>> \in Seq(E)
  BY PlacesOfList
<1> HIDE DEF step, S
<1>4. PICK g : FoldsWithin(g, Seq(E), E, step, <<>>, list, S)
  BY <1>2, <1>3, FoldsWithinExists
<1>5. KeptOf(g, list, wanted, S)
  BY <1>2, <1>4 DEF KeptOf, FoldsWithin
<1> QED BY <1>5 DEF S

\* The wanted entries of a list are all there and nothing else is.
LEMMA SelectedAre ==
  ASSUME NEW E, NEW list \in Seq(E), NEW wanted
  PROVE  /\ Selected(list, wanted) \in Seq(E)
         /\ ToSet(Selected(list, wanted)) = ToSet(list) \cap wanted
<1> DEFINE S == DOMAIN list
           g == CHOOSE f : KeptOf(f, list, wanted, S)
           Of(V) == {list[i] : i \in V}
<1>1. KeptOf(g, list, wanted, S)
  BY KeptOfExists
<1>2. Selected(list, wanted) = g[S]
  BY DEF Selected, FoldLeft, MapThenFoldSet, KeptOf, KeepIf
<1>3. Places(S) /\ \A i \in S : list[i] \in E
  BY PlacesOfList
<1> HIDE DEF g, S
<1> DEFINE Good == {V \in SUBSET S : g[V] \in Seq(E) /\ ToSet(g[V]) = Of(V) \cap wanted}
<1>4. {} \in Good
  <2>1. g[{}] = <<>>
    BY <1>1 DEF KeptOf
  <2>2. ToSet(<<>>) = {} /\ Of({}) = {} /\ <<>> \in Seq(E)
    BY DEF ToSet
  <2> QED BY <2>1, <2>2
<1>5. ASSUME NEW V \in SUBSET S, V # {}, V \ {Max(V)} \in Good PROVE V \in Good
  <2> DEFINE last == Max(V)
             before == g[V \ {last}]
  <2>1. last \in V /\ list[last] \in E
    BY <1>3, <1>5 DEF Places
  <2>2. g[V] = KeepIf(before, list[last], wanted)
    BY <1>1, <1>5 DEF KeptOf
  <2>3. before \in Seq(E) /\ ToSet(before) = Of(V \ {last}) \cap wanted
    BY <1>5
  <2>4. Of(V) = Of(V \ {last}) \cup {list[last]}
    BY <2>1
  <2> HIDE DEF before, last, Of
  <2>5. CASE list[last] \in wanted
    <3>1. g[V] = Append(before, list[last])
      BY <2>2, <2>5 DEF KeepIf
    <3>2. ToSet(g[V]) = ToSet(before) \cup {list[last]} /\ g[V] \in Seq(E)
      BY <2>1, <2>3, <3>1 DEF ToSet
    <3> QED BY <2>3, <2>4, <2>5, <3>2
  <2>6. CASE list[last] \notin wanted
    BY <2>2, <2>3, <2>4, <2>6 DEF KeepIf
  <2> QED BY <2>5, <2>6
<1>6. S \in Good
  <2> HIDE DEF Good, Of
  <2> QED BY <1>3, <1>4, <1>5, PlacesInduction
<1>7. Of(S) = ToSet(list)
  BY DEF ToSet, S
<1> QED BY <1>2, <1>6, <1>7

------------------------------------------------------------------------------
(* The directory: its order *)

SortedBy(list, sort) == \A i, j \in DOMAIN list : i < j => ~Precedes(list[j], list[i], sort)

\* Which of two entries comes first is an order.
LEMMA PrecedesIsOrder ==
  ASSUME NEW sort \in DIRECTORY_SORTS, NEW one, FiguresOK(one), NEW two, FiguresOK(two),
         NEW three, FiguresOK(three)
  PROVE  /\ ~Precedes(one, one, sort)
         /\ Precedes(one, two, sort) /\ Precedes(two, three, sort) => Precedes(one, three, sort)
<1> DEFINE Close(entry) == IF entry.chain.closes = 0 THEN 1000 ELSE entry.chain.closes
<1>1. /\ one.created \in Int /\ two.created \in Int /\ three.created \in Int
      /\ BudgetShown(one) \in Int /\ BudgetShown(two) \in Int /\ BudgetShown(three) \in Int
      /\ Close(one) \in Int /\ Close(two) \in Int /\ Close(three) \in Int
  BY DEF FiguresOK
<1>2. \A left, right :
        /\ Precedes(left, right, "newest") <=> left.created > right.created
        /\ Precedes(left, right, "closing-soonest") <=>
             Close(left) < Close(right) \/ (Close(left) = Close(right) /\ left.created > right.created)
        /\ Precedes(left, right, "largest-budget") <=>
             \/ BudgetShown(left) > BudgetShown(right)
             \/ BudgetShown(left) = BudgetShown(right) /\ left.created > right.created
  BY DEF Precedes, Newer, Closing, Larger
<1> HIDE DEF Close
<1>3. CASE sort = "newest"
  BY <1>1, <1>2, <1>3
<1>4. CASE sort = "closing-soonest"
  BY <1>1, <1>2, <1>4
<1>5. CASE sort = "largest-budget"
  BY <1>1, <1>2, <1>5
<1> QED BY <1>3, <1>4, <1>5 DEF DIRECTORY_SORTS

LEMMA InsertedAt ==
  ASSUME NEW E, NEW list \in Seq(E), NEW at \in 1 .. (Len(list) + 1), NEW entry \in E
  PROVE  LET more == InsertAt(list, at, entry)
         IN /\ more \in Seq(E) /\ Len(more) = Len(list) + 1
            /\ \A k \in 1 .. (Len(list) + 1) :
                 more[k] = IF k < at THEN list[k] ELSE IF k = at THEN entry ELSE list[k - 1]
<1> DEFINE before == SubSeq(list, 1, at - 1)
           after == SubSeq(list, at, Len(list))
<1>1. /\ before \in Seq(E) /\ Len(before) = at - 1 /\ \A k \in 1 .. (at - 1) : before[k] = list[k]
  OBVIOUS
<1>2. /\ after \in Seq(E) /\ Len(after) = Len(list) - at + 1
      /\ \A k \in 1 .. (Len(list) - at + 1) : after[k] = list[at + k - 1]
  OBVIOUS
<1> HIDE DEF before, after
<1>3. <<entry>> \in Seq(E) /\ Len(<<entry>>) = 1 /\ <<entry>>[1] = entry
  OBVIOUS
<1> DEFINE head == before \o <<entry>>
<1>4. /\ head \in Seq(E) /\ Len(head) = at
      /\ \A k \in 1 .. at : head[k] = IF k < at THEN list[k] ELSE entry
  BY <1>1, <1>3
<1> HIDE DEF head
<1>5. /\ head \o after \in Seq(E) /\ Len(head \o after) = Len(list) + 1
      /\ \A k \in 1 .. (Len(list) + 1) :
           (head \o after)[k] = IF k <= at THEN head[k] ELSE after[k - at]
  <2>1. head \o after \in Seq(E) /\ Len(head \o after) = Len(head) + Len(after)
    BY <1>2, <1>4
  <2>2. \A k \in 1 .. (Len(head) + Len(after)) :
          (head \o after)[k] = IF k <= Len(head) THEN head[k] ELSE after[k - Len(head)]
    BY <1>2, <1>4
  <2>3. Len(head) + Len(after) = Len(list) + 1
    BY <1>2, <1>4
  <2> QED BY <1>4, <2>1, <2>2, <2>3
<1>6. \A k \in 1 .. (Len(list) + 1) : k > at => after[k - at] = list[k - 1]
  BY <1>2
<1>7. InsertAt(list, at, entry) = head \o after
  BY DEF InsertAt, head, before, after
<1> HIDE DEF after
<1> QED BY <1>4, <1>5, <1>6, <1>7

\* An entry is put where it comes.
Placed(sorted, entry, sort) ==
  LET behind == {i \in DOMAIN sorted : Precedes(entry, sorted[i], sort)}
      at == IF behind = {} THEN Len(sorted) + 1
            ELSE CHOOSE i \in behind : \A j \in behind : i <= j
  IN InsertAt(sorted, at, entry)
PlacedOf(g, list, sort, S) ==
  g = [V \in SUBSET S |-> IF V = {} THEN <<>> ELSE Placed(g[V \ {Max(V)}], list[Max(V)], sort)]

LEMMA PlacedInOrder ==
  ASSUME NEW E, \A e \in E : FiguresOK(e), NEW sorted \in Seq(E), NEW entry \in E,
         NEW sort \in DIRECTORY_SORTS
  PROVE  /\ Placed(sorted, entry, sort) \in Seq(E)
         /\ SortedBy(sorted, sort) => SortedBy(Placed(sorted, entry, sort), sort)
<1> DEFINE n == Len(sorted)
           behind == {i \in DOMAIN sorted : Precedes(entry, sorted[i], sort)}
           at == IF behind = {} THEN n + 1 ELSE CHOOSE i \in behind : \A j \in behind : i <= j
           more == InsertAt(sorted, at, entry)
<1>1. n \in Nat /\ DOMAIN sorted = 1 .. n /\ \A i \in 1 .. n : sorted[i] \in E
  OBVIOUS
<1>2. /\ at \in 1 .. (n + 1)
      /\ \A i \in 1 .. n : i < at => ~Precedes(entry, sorted[i], sort)
      /\ at <= n => Precedes(entry, sorted[at], sort)
  <2>1. CASE behind = {}
    <3>1. at = n + 1
      BY <2>1
    <3> HIDE DEF at
    <3> QED BY <1>1, <2>1, <3>1
  <2>2. CASE behind # {}
    <3>1. Min(behind) \in behind /\ \A i \in behind : Min(behind) <= i
      <4>1. behind \subseteq Nat
        BY <1>1
      <4> HIDE DEF behind
      <4> QED BY <2>2, <4>1, LeastNatural
    <3>2. at \in behind /\ \A i \in behind : at <= i
      <4> HIDE DEF behind
      <4> QED BY <2>2, <3>1
    <3> HIDE DEF at
    <3> QED BY <1>1, <3>2
  <2> QED BY <2>1, <2>2
<1> HIDE DEF at
<1>3. /\ more \in Seq(E) /\ Len(more) = n + 1
      /\ \A k \in 1 .. (n + 1) :
           more[k] = IF k < at THEN sorted[k] ELSE IF k = at THEN entry ELSE sorted[k - 1]
  BY <1>2, InsertedAt
<1>4. Placed(sorted, entry, sort) = more
  BY DEF Placed, at
<1> HIDE DEF more, behind
\* What comes behind the entry does not precede it.
<1>5. ASSUME SortedBy(sorted, sort), NEW i \in 1 .. n, at <= i
      PROVE  ~Precedes(sorted[i], entry, sort)
  <2>1. /\ at \in 1 .. n /\ Precedes(entry, sorted[at], sort)
        /\ sorted[i] \in E /\ sorted[at] \in E
    BY <1>1, <1>2, <1>5
  <2>2. FiguresOK(sorted[i]) /\ FiguresOK(sorted[at]) /\ FiguresOK(entry)
    BY <2>1
  <2>3. ~Precedes(sorted[i], sorted[at], sort)
    <3>1. CASE i = at
      BY <2>2, <3>1, PrecedesIsOrder
    <3>2. CASE i # at
      BY <1>1, <1>5, <2>1, <3>2 DEF SortedBy
    <3> QED BY <3>1, <3>2
  <2> QED BY <2>1, <2>2, <2>3, PrecedesIsOrder
<1>6. ASSUME SortedBy(sorted, sort) PROVE SortedBy(more, sort)
  <2> SUFFICES ASSUME NEW i \in 1 .. (n + 1), NEW j \in 1 .. (n + 1), i < j
               PROVE  ~Precedes(more[j], more[i], sort)
    BY <1>1, <1>3 DEF SortedBy
  <2>1. CASE i = at
    <3>1. more[i] = entry /\ more[j] = sorted[j - 1] /\ j - 1 \in 1 .. n /\ at <= j - 1
      BY <1>1, <1>2, <1>3, <2>1
    <3> QED BY <1>5, <1>6, <3>1
  <2>2. CASE j = at
    <3>1. more[j] = entry /\ more[i] = sorted[i] /\ i \in 1 .. n /\ i < at
      BY <1>1, <1>2, <1>3, <2>2
    <3> QED BY <1>2, <3>1
  <2>3. CASE i # at /\ j # at
    <3> DEFINE k == IF i < at THEN i ELSE i - 1
               l == IF j < at THEN j ELSE j - 1
    <3>1. more[i] = sorted[k] /\ more[j] = sorted[l] /\ k \in 1 .. n /\ l \in 1 .. n /\ k < l
      BY <1>1, <1>2, <1>3, <2>3
    <3> HIDE DEF k, l
    <3> QED BY <1>1, <1>6, <3>1 DEF SortedBy
  <2> QED BY <2>1, <2>2, <2>3
<1> QED BY <1>3, <1>4, <1>6

LEMMA PlacedOfExists ==
  ASSUME NEW E, \A e \in E : FiguresOK(e), NEW list \in Seq(E), NEW sort \in DIRECTORY_SORTS
  PROVE  \E g : PlacedOf(g, list, sort, DOMAIN list)
<1> DEFINE S == DOMAIN list
           step == [sorted \in Seq(E) |-> [entry \in E |-> Placed(sorted, entry, sort)]]
<1>1. \A sorted \in Seq(E), entry \in E : Placed(sorted, entry, sort) \in Seq(E)
  BY PlacedInOrder
<1>2. /\ step \in [Seq(E) -> [E -> Seq(E)]]
      /\ \A sorted \in Seq(E), entry \in E : step[sorted][entry] = Placed(sorted, entry, sort)
  BY <1>1
<1>3. Places(S) /\ (\A i \in S : list[i] \in E) /\ <<>> \in Seq(E)
  BY PlacesOfList
<1> HIDE DEF step, S
<1>4. PICK g : FoldsWithin(g, Seq(E), E, step, <<>>, list, S)
  BY <1>2, <1>3, FoldsWithinExists
<1>5. PlacedOf(g, list, sort, S)
  BY <1>2, <1>4 DEF PlacedOf, FoldsWithin
<1> QED BY <1>5 DEF S

\* A sorted list has entries of the list, and they are in order.
LEMMA SortIsInOrder ==
  ASSUME NEW E, \A e \in E : FiguresOK(e), NEW list \in Seq(E), NEW sort \in DIRECTORY_SORTS
  PROVE  SortProgrammes(list, sort) \in Seq(E) /\ SortedBy(SortProgrammes(list, sort), sort)
<1> DEFINE S == DOMAIN list
           g == CHOOSE f : PlacedOf(f, list, sort, S)
<1>1. PlacedOf(g, list, sort, S)
  BY PlacedOfExists
<1>2. SortProgrammes(list, sort) = g[S]
  BY DEF SortProgrammes, FoldLeft, MapThenFoldSet, PlacedOf, Placed
<1>3. Places(S) /\ \A i \in S : list[i] \in E
  BY PlacesOfList
<1> HIDE DEF g, S
<1> DEFINE Good == {V \in SUBSET S : g[V] \in Seq(E) /\ SortedBy(g[V], sort)}
<1>4. {} \in Good
  <2>1. g[{}] = <<>>
    BY <1>1 DEF PlacedOf
  <2>2. <<>> \in Seq(E) /\ SortedBy(<<>>, sort)
    BY DEF SortedBy
  <2> QED BY <2>1, <2>2
<1>5. ASSUME NEW V \in SUBSET S, V # {}, V \ {Max(V)} \in Good PROVE V \in Good
  <2> DEFINE last == Max(V)
             before == g[V \ {last}]
  <2>1. list[last] \in E
    BY <1>3, <1>5 DEF Places
  <2>2. g[V] = Placed(before, list[last], sort)
    BY <1>1, <1>5 DEF PlacedOf
  <2>3. before \in Seq(E) /\ SortedBy(before, sort)
    BY <1>5
  <2> HIDE DEF before, last
  <2> QED BY <2>1, <2>2, <2>3, PlacedInOrder
<1>6. S \in Good
  <2> HIDE DEF Good
  <2> QED BY <1>3, <1>4, <1>5, PlacesInduction
<1> QED BY <1>2, <1>6

------------------------------------------------------------------------------
(* The directory *)

\* What has landed was asked of the index's programmes and the registry's.
DirectoryInv ==
  /\ {"query", "phase", "sort", "samples", "index", "registry", "waiting", "landed", "failed",
      "announced"} \subseteq DOMAIN screen
  /\ screen.sort \in DIRECTORY_SORTS
  /\ screen.landed \subseteq ToSet(Indexed) \cup ToSet(Registered)

LEMMA DirectoryInvInit == ASSUME DirectoryInit PROVE Stays("directory") /\ DirectoryInv
  BY DEF DirectoryInit, DirectoryInv, Stays, DIRECTORY_SORTS

LEMMA DirectoryKept == ASSUME Stays("directory"), DirectoryInv, DirectoryNext PROVE DirectoryInv'
<1> DEFINE Kept(page) == DOMAIN page = DOMAIN screen /\ page.sort = screen.sort /\ page.landed = screen.landed
<1> USE DEF DirectoryInv
<1>1. ASSUME NEW page, Kept(page), ListsProgrammes(page) PROVE DirectoryInv'
  <2> DEFINE waiting == ToSet(RealIds(page)) \ page.landed
  <2>1. screen' \in {page, [page EXCEPT !.waiting = waiting]}
    BY <1>1 DEF ListsProgrammes, Show
  <2> HIDE DEF waiting
  <2> QED BY <1>1, <2>1
<1>2. CASE IndexAnswers
  <2>1. PICK index : ListsProgrammes([screen EXCEPT !.index = index])
    BY <1>2 DEF IndexAnswers
  <2> QED BY <1>1, <2>1
<1>3. CASE RegistryAnswers
  <2>1. PICK registry : ListsProgrammes([screen EXCEPT !.registry = registry])
    BY <1>3 DEF RegistryAnswers
  <2> QED BY <1>1, <2>1
<1>4. CASE ToggleSamples
  <2> DEFINE page == [screen EXCEPT !.samples = ~@]
  <2>1. ListsProgrammes(page)
    BY <1>4 DEF ToggleSamples
  <2>2. Kept(page)
    OBVIOUS
  <2> HIDE DEF page
  <2> QED BY <1>1, <2>1, <2>2
<1>5. CASE RetryDirectory \/ ClearFilters \/ AnnounceCount
  <2>1. DOMAIN screen' = DOMAIN screen /\ screen'.sort = screen.sort /\ screen'.landed = screen.landed
    BY <1>5 DEF RetryDirectory, ClearFilters, AnnounceCount, Show
  <2> QED BY <2>1
<1>6. ASSUME NEW id \in ToSet(Indexed \o Registered), ReadLands(id) PROVE DirectoryInv'
  <2>1. /\ DOMAIN screen' = DOMAIN screen /\ screen'.sort = screen.sort
        /\ screen'.landed \subseteq screen.landed \cup {id}
    BY <1>6 DEF ReadLands, Show
  <2>2. id \in ToSet(Indexed) \cup ToSet(Registered)
    <3>1. Indexed \in Seq(ToSet(Indexed)) /\ Registered \in Seq(ToSet(Registered))
      BY DirectoryAssumption
    <3> QED BY <1>6, <3>1 DEF ToSet
  <2> QED BY <2>1, <2>2
<1>7. ASSUME NEW query, NEW phase, NEW sort \in DIRECTORY_SORTS, SetFilters(query, phase, sort)
      PROVE  DirectoryInv'
  BY <1>7 DEF SetFilters
<1> QED BY <1>2, <1>3, <1>4, <1>5, <1>6, <1>7 DEF DirectoryNext

\* What is derived from a budget and a rate is a fee.
LEMMA FeeIsNumber ==
  ASSUME NEW budget \in Int, NEW feeBps \in Int PROVE DeriveFee(budget, feeBps) \in Int
BY DEF DeriveFee, FEE_DENOMINATOR

\* What the chain said of a programme gives its figures; the budget comes back from
\* what was contributed.
LEMMA ChainFigures ==
  ASSUME NEW id \in ToSet(Indexed) \cup ToSet(Registered), HasChain(ChainReads[id])
  PROVE  LET chain == ChainFromRead(ChainReads[id])
         IN /\ {"phase", "contributed", "fee", "closes"} \subseteq DOMAIN chain
            /\ chain.phase = ChainReads[id].phase
            /\ chain.contributed - chain.fee = ChainReads[id].budget
            /\ ChainReads[id].budget \in Int /\ chain.closes \in Int
<1> DEFINE read == ChainReads[id]
           fee == IF read.feeBps = Unread THEN 0 ELSE DeriveFee(read.budget, read.feeBps)
           chain == ChainFromRead(read)
<1>1. read.budget \in Int /\ read.feeBps \in Int \cup {Unread} /\ read.closes \in Int
  BY DirectoryAssumption DEF HasChain
<1>2. fee \in Int
  <2>1. CASE read.feeBps = Unread
    BY <2>1
  <2>2. CASE read.feeBps # Unread
    <3>1. read.budget \in Int /\ read.feeBps \in Int
      BY <1>1, <2>2
    <3> HIDE DEF read
    <3>2. DeriveFee(read.budget, read.feeBps) \in Int
      BY <3>1, FeeIsNumber
    <3> QED BY <2>2, <3>2
  <2> QED BY <2>1, <2>2
<1>3. /\ DOMAIN chain = {"phase", "contributed", "fee", "closes"} /\ chain.phase = read.phase
      /\ chain.contributed = read.budget + fee /\ chain.fee = fee
      /\ chain.closes = IF read.phase = "Open" THEN read.closes ELSE 0
  BY DEF ChainFromRead
<1> HIDE DEF fee, read, chain
<1>4. /\ DOMAIN chain = {"phase", "contributed", "fee", "closes"} /\ chain.phase = read.phase
      /\ chain.contributed - chain.fee = read.budget
      /\ read.budget \in Int /\ chain.closes \in Int
  BY <1>1, <1>2, <1>3
<1> QED BY <1>4 DEF read, chain

\* An entry of the hydrated list: it has figures, and if they are real they are what
\* the chain said.
LEMMA HydratedAre ==
  ASSUME DirectoryInv, NEW list \in Seq(Listable)
  PROVE  LET all == HydrateRealProgrammes(list, screen.landed)
         IN /\ DOMAIN all = DOMAIN list /\ all \in Seq(ToSet(all))
            /\ \A i \in DOMAIN list : all[i].id = list[i].id /\ all[i].sample = list[i].sample
            /\ \A entry \in ToSet(all) :
                 /\ FiguresOK(entry)
                 /\ entry.real => /\ entry.id \in screen.landed
                                  /\ entry.chain.phase = ChainReads[entry.id].phase
                                  /\ BudgetShown(entry) = ChainReads[entry.id].budget
<1> DEFINE all == HydrateRealProgrammes(list, screen.landed)
<1>1. Len(list) \in Nat /\ DOMAIN list = 1 .. Len(list) /\ DOMAIN all = DOMAIN list
  BY DEF HydrateRealProgrammes
<1>2. all = [i \in 1 .. Len(list) |-> all[i]]
  BY <1>1 DEF HydrateRealProgrammes
<1>3. ASSUME NEW i \in DOMAIN list
      PROVE  /\ all[i].id = list[i].id /\ all[i].sample = list[i].sample /\ FiguresOK(all[i])
             /\ all[i].real => /\ all[i].id \in screen.landed
                               /\ all[i].chain.phase = ChainReads[all[i].id].phase
                               /\ BudgetShown(all[i]) = ChainReads[all[i].id].budget
  <2> DEFINE old == list[i]
             chain == ChainFromRead(ChainReads[old.id])
  <2>1. FiguresOK(old) /\ ~old.real
    BY ListableOK
  <2>2. all[i] = IF old.sample \/ old.id \notin screen.landed \/ ~HasChain(ChainReads[old.id]) THEN old
                 ELSE [old EXCEPT !.chain = chain, !.real = TRUE]
    BY DEF HydrateRealProgrammes
  <2> HIDE DEF old, all
  <2>3. CASE all[i] = old
    BY <2>1, <2>3 DEF old
  <2>4. CASE /\ old.id \in screen.landed /\ HasChain(ChainReads[old.id])
             /\ all[i] = [old EXCEPT !.chain = chain, !.real = TRUE]
    <3>1. /\ {"phase", "contributed", "fee", "closes"} \subseteq DOMAIN chain
          /\ chain.phase = ChainReads[old.id].phase
          /\ chain.contributed - chain.fee = ChainReads[old.id].budget
          /\ ChainReads[old.id].budget \in Int /\ chain.closes \in Int
      BY <2>4, ChainFigures DEF DirectoryInv
    <3> HIDE DEF chain
    <3>2. /\ DOMAIN all[i] = DOMAIN old /\ all[i].chain = chain /\ all[i].id = old.id
          /\ all[i].sample = old.sample /\ all[i].created = old.created
      BY <2>1, <2>4 DEF FiguresOK
    <3> QED BY <2>1, <2>4, <3>1, <3>2 DEF FiguresOK, BudgetShown, old
  <2> QED BY <2>2, <2>3, <2>4
<1> HIDE DEF all
<1>4. all \in Seq(ToSet(all))
  BY <1>1, <1>2 DEF ToSet
<1>5. \A entry \in ToSet(all) : \E i \in DOMAIN list : entry = all[i]
  BY <1>1 DEF ToSet
<1>6. \A entry \in ToSet(all) :
        /\ FiguresOK(entry)
        /\ entry.real => /\ entry.id \in screen.landed
                         /\ entry.chain.phase = ChainReads[entry.id].phase
                         /\ BudgetShown(entry) = ChainReads[entry.id].budget
  BY <1>3, <1>5
<1> QED BY <1>1, <1>3, <1>4, <1>6 DEF all

LEMMA DirectorySaysIt == ASSUME DirectoryInv PROVE DirectoryIsHonest
<1> DEFINE list == DirectoryAll(screen)
           all == Hydrated
           shown == FilterProgrammes(all, screen.query, screen.phase)
           cards == CardsShown
<1>1. /\ list \in Seq(Listable) /\ OneEach(list)
      /\ screen.index = "read" =>
           \A id \in ToSet(Indexed) : \E i \in DOMAIN list : list[i].id = id /\ ~list[i].sample
      /\ screen.registry = "read" =>
           \A id \in ToSet(Registered) : \E i \in DOMAIN list : list[i].id = id /\ ~list[i].sample
  <2> DEFINE index == IndexList(screen)
             registry == IF screen.registry = "read" THEN Registered ELSE <<>>
             samples == IF ShowSamples(screen) THEN Sampled ELSE <<>>
  <2>1. /\ index \in {<<>>, Indexed} /\ registry \in {<<>>, Registered} /\ samples \in {<<>>, Sampled}
        /\ screen.index = "read" => index = Indexed
        /\ screen.registry = "read" => registry = Registered
    BY DEF IndexList
  <2>2. list = MergeProgrammes(index, registry, samples)
    BY DEF DirectoryAll
  <2> HIDE DEF list, index, registry, samples
  <2>3. WholeList(list, ToSet(index) \cup ToSet(registry))
    BY <2>1, <2>2, MergedIsWhole
  <2> QED BY <2>1, <2>3 DEF WholeList
<1>2. /\ DOMAIN all = DOMAIN list /\ all \in Seq(ToSet(all))
      /\ \A i \in DOMAIN list : all[i].id = list[i].id /\ all[i].sample = list[i].sample
      /\ \A entry \in ToSet(all) :
           /\ FiguresOK(entry)
           /\ entry.real => /\ entry.id \in screen.landed
                            /\ entry.chain.phase = ChainReads[entry.id].phase
                            /\ BudgetShown(entry) = ChainReads[entry.id].budget
  <2> HIDE DEF list
  <2>1. all = HydrateRealProgrammes(list, screen.landed)
    BY DEF Hydrated, list
  <2> HIDE DEF all
  <2> QED BY <1>1, <2>1, HydratedAre
<1>3. \A i, j \in DOMAIN all : all[i].id = all[j].id => i = j
  <2> HIDE DEF all, list
  <2> QED BY <1>1, <1>2 DEF OneEach
\* An entry that is no sample is among the real ids.
<1>4. ASSUME NEW i \in DOMAIN list, ~list[i].sample PROVE list[i].id \in ToSet(RealIds(screen))
  <2> DEFINE wanted == {entry \in ToSet(list) : ~entry.sample}
             real == Selected(list, wanted)
  <2>1. list[i] \in ToSet(list) \cap wanted
    BY <1>4 DEF ToSet
  <2> HIDE DEF list, wanted
  <2>2. ToSet(real) = ToSet(list) \cap wanted
    BY <1>1, SelectedAre
  <2> HIDE DEF real
  <2>3. PICK k \in DOMAIN real : real[k] = list[i]
    BY <2>1, <2>2 DEF ToSet
  <2>4. RealIds(screen) = [j \in DOMAIN real |-> real[j].id]
    BY DEF RealIds, real, wanted, list
  <2>5. k \in DOMAIN RealIds(screen) /\ RealIds(screen)[k] = list[i].id
    BY <2>3, <2>4
  <2> QED BY <2>5 DEF ToSet
<1>5. /\ screen.index = "read" => ToSet(Indexed) \subseteq ToSet(RealIds(screen))
      /\ screen.registry = "read" => ToSet(Registered) \subseteq ToSet(RealIds(screen))
  <2> HIDE DEF list
  <2> QED BY <1>1, <1>4
<1>6. cards \in Seq(ToSet(all)) /\ SortedBy(cards, screen.sort)
  <2> HIDE DEF all
  <2>1. shown \in Seq(ToSet(all))
    BY <1>2, SelectedAre DEF FilterProgrammes
  <2>2. screen.sort \in DIRECTORY_SORTS
    BY DEF DirectoryInv
  <2>3. <<>> \in Seq(ToSet(all)) /\ SortedBy(<<>>, screen.sort)
    BY DEF SortedBy
  <2>4. cards = IF DirectoryLoading THEN <<>> ELSE SortProgrammes(shown, screen.sort)
    BY DEF CardsShown, all
  <2> HIDE DEF cards, shown
  <2>5. /\ SortProgrammes(shown, screen.sort) \in Seq(ToSet(all))
        /\ SortedBy(SortProgrammes(shown, screen.sort), screen.sort)
    BY <1>2, <2>1, <2>2, SortIsInOrder
  <2> QED BY <2>3, <2>4, <2>5
<1> HIDE DEF list, all, shown, cards
<1>7. ASSUME NEW i \in DOMAIN cards, Card(cards[i]).tag \in {"Live on chain", "Not in the index yet"}
      PROVE  LET card_ == Card(cards[i])
             IN /\ card_.id \in screen.landed
                /\ card_.phase = ChainReads[card_.id].phase
                /\ card_.budget = ChainReads[card_.id].budget
  <2> DEFINE entry == cards[i]
             shows == Card(entry)
  <2>1. entry \in ToSet(all)
    BY <1>6
  <2> HIDE DEF entry
  <2>2. /\ shows.id = entry.id
        /\ shows.tag = IF entry.id \in screen.failed THEN "Chain read failed"
                       ELSE IF entry.sample THEN "Sample data"
                       ELSE IF ~entry.real THEN "Reading the chain"
                       ELSE IF entry.source = "registry" THEN "Not in the index yet"
                       ELSE "Live on chain"
        /\ shows.phase = IF ~entry.sample /\ ~entry.real THEN "Reading" ELSE entry.chain.phase
        /\ shows.budget = IF ~entry.sample /\ ~entry.real THEN Unread ELSE BudgetShown(entry)
    BY DEF Card
  <2>3. shows.tag \in {"Live on chain", "Not in the index yet"}
    BY <1>7 DEF entry
  <2> HIDE DEF shows
  <2>4. entry.real
    BY <2>2, <2>3
  <2> QED BY <1>2, <2>1, <2>2, <2>4 DEF shows, entry
<1> QED BY <1>3, <1>5, <1>6, <1>7 DEF DirectoryIsHonest, SortedBy, all, cards

------------------------------------------------------------------------------
(* All that is read *)

ReadsInv ==
  /\ screen.is = "list" => ListInv
  /\ screen.is = "awards" => AwardsInv
  /\ screen.is = "detail" => DetailInv
  /\ screen.is = "lifetimes" => LifetimesInv
  /\ screen.is = "receipt" => ReceiptInv
  /\ screen.is = "standing" => VerdictInv
  /\ screen.is = "directory" => DirectoryInv

LEMMA ReadsInvInit == ASSUME Init PROVE me \in Wallets /\ ReadsInv
<1>1. me \in Wallets
  BY DEF Init, ScreenInit, Wallets
<1>2. CASE ListInit
  BY <1>1, <1>2, ListInvInit DEF ReadsInv, Stays
<1>3. CASE AwardsInit
  BY <1>1, <1>3, AwardsInvInit DEF ReadsInv, Stays
<1>4. CASE DetailInit
  BY <1>1, <1>4, DetailInvInit DEF ReadsInv, Stays
<1>5. CASE LifetimesInit
  BY <1>1, <1>5, LifetimesInvInit DEF ReadsInv, Stays
<1>6. CASE ReceiptInit
  BY <1>1, <1>6, ReceiptInvInit DEF ReadsInv, Stays
<1>7. CASE StandingInit
  BY <1>1, <1>7, VerdictInvInit DEF ReadsInv, Stays
<1>8. CASE DirectoryInit
  BY <1>1, <1>8, DirectoryInvInit DEF ReadsInv, Stays
<1>9. CASE \/ PayeeScreenInit \/ FunderScreenInit \/ ToolsInit \/ ApplyInit \/ FinalizeInit
          \/ VoteInit \/ RevokeInit \/ DeployInit \/ ClaimInit \/ RegisterInit \/ PolicyInit
          \/ KeepaliveInit
  <2>1. screen.is \in {"payees", "funder", "tools", "apply", "finalize", "vote", "revoke", "deploy",
                       "claims", "register", "policy", "keepalive"}
    BY <1>9 DEF PayeeScreenInit, FunderScreenInit, ToolsInit, ApplyInit, FinalizeInit, VoteInit,
               RevokeInit, DeployInit, ClaimInit, RegisterInit, PolicyInit, KeepaliveInit
  <2> QED BY <1>1, <2>1 DEF ReadsInv
<1>10. CASE \/ WithdrawInit \/ ReleaseInit \/ SpendInit \/ BoardInit \/ RolesInit \/ LookupInit
           \/ ConfigInit \/ WritersInit \/ screen = [is |-> "transaction"]
  <2>1. screen.is \in {"withdraw", "award", "spend", "board", "roles", "lookup", "config", "writers",
                       "transaction"}
    BY <1>10 DEF WithdrawInit, ReleaseInit, SpendInit, BoardInit, RolesInit, LookupInit, ConfigInit,
                WritersInit
  <2> QED BY <1>1, <2>1 DEF ReadsInv
<1> QED BY <1>2, <1>3, <1>4, <1>5, <1>6, <1>7, <1>8, <1>9, <1>10 DEF Init, PageInit

\* A step that leaves the screen alone.
LEMMA ReadsInvUntouched ==
  ASSUME ReadsInv, UNCHANGED screen, me \in Wallets => me' \in Wallets PROVE ReadsInv'
<1>1. ListInv => ListInv'
  BY DEF ListInv, Reading
<1>2. AwardsInv => AwardsInv'
  BY DEF AwardsInv, Row
<1>3. DetailInv => DetailInv'
  BY DEF DetailInv
<1>4. LifetimesInv => LifetimesInv'
  BY DEF LifetimesInv, LifetimesShown
<1>5. ReceiptInv => ReceiptInv'
  BY DEF ReceiptInv
<1>6. VerdictInv => VerdictInv'
  BY DEF VerdictInv
<1>7. DirectoryInv => DirectoryInv'
  BY DEF DirectoryInv
<1> QED BY <1>1, <1>2, <1>3, <1>4, <1>5, <1>6, <1>7 DEF ReadsInv

LEMMA ReadsInvKept == ASSUME WritesInv, ReadsInv, [Next]_screensVars PROVE ReadsInv'
<1>1. screen'.is = screen.is /\ "is" \in DOMAIN screen /\ (card # "all" => screen.is = "payees")
  BY WritesInvKept DEF WritesInv
<1>2. CASE UNCHANGED screensVars
  BY <1>2, ReadsInvUntouched DEF screensVars, screenVars
<1>3. CASE screen.is = "transaction" /\ TransactionNext /\ UNCHANGED <<screenVars, card>>
  BY <1>3, ReadsInvUntouched DEF screenVars
<1>4. CASE ChangeWallet /\ UNCHANGED card
  BY <1>4, ReadsInvUntouched DEF ChangeWallet
<1>5. ASSUME PageNext, screen.is = "list" PROVE ReadsInv'
  <2>1. ListNext
    BY <1>1, <1>5 DEF PageNext
  <2> QED BY <1>1, <1>5, <2>1, ListKept DEF ReadsInv, Stays
<1>6. ASSUME PageNext, screen.is = "awards" PROVE ReadsInv'
  <2>1. AwardsNext
    BY <1>1, <1>6 DEF PageNext
  <2> QED BY <1>1, <1>6, <2>1, AwardsKept DEF ReadsInv, Stays
<1>7. ASSUME PageNext, screen.is = "detail" PROVE ReadsInv'
  <2>1. DetailNext
    BY <1>1, <1>7 DEF PageNext
  <2> QED BY <1>1, <1>7, <2>1, DetailKept DEF ReadsInv, Stays
<1>8. ASSUME PageNext, screen.is = "lifetimes" PROVE ReadsInv'
  <2>1. LifetimesNext
    BY <1>1, <1>8 DEF PageNext
  <2> QED BY <1>1, <1>8, <2>1, LifetimesKept DEF ReadsInv, Stays
<1>9. ASSUME PageNext, screen.is = "receipt" PROVE ReadsInv'
  <2>1. ReceiptNext
    BY <1>1, <1>9 DEF PageNext
  <2> QED BY <1>1, <1>9, <2>1, ReceiptKept DEF ReadsInv, Stays
<1>10. ASSUME PageNext, screen.is = "standing" PROVE ReadsInv'
  <2>1. StandingNext
    BY <1>1, <1>10 DEF PageNext
  <2> QED BY <1>1, <1>10, <2>1, VerdictKept DEF ReadsInv, Stays
<1>11. ASSUME PageNext, screen.is = "directory" PROVE ReadsInv'
  <2>1. DirectoryNext
    BY <1>1, <1>11 DEF PageNext
  <2> QED BY <1>1, <1>11, <2>1, DirectoryKept DEF ReadsInv, Stays
<1>12. CASE screen.is \notin {"list", "awards", "detail", "lifetimes", "receipt", "standing", "directory"}
  BY <1>1, <1>12 DEF ReadsInv
<1> QED BY <1>2, <1>3, <1>4, <1>5, <1>6, <1>7, <1>8, <1>9, <1>10, <1>11, <1>12 DEF Next

LEMMA ReadsInvSaysIt == ASSUME ReadsInv PROVE ReadsAreShownTruly
<1>1. ReceiptIsReal
  BY ReceiptSaysIt DEF ReadsInv, ReceiptIsReal
<1>2. LifetimesShown
  BY DEF ReadsInv, LifetimesInv, LifetimesShown
<1>3. DirectoryIsHonest
  BY DirectorySaysIt DEF ReadsInv, DirectoryIsHonest, AtDirectory
<1>4. VerdictIsTrue
  BY VerdictSaysIt DEF ReadsInv, VerdictIsTrue
<1>5. DetailIsVerified
  BY DetailSaysIt DEF ReadsInv, DetailIsVerified, AtDetail
<1>6. ListIsWhole
  BY ListSaysIt DEF ReadsInv, ListIsWhole, AtList
<1>7. RowIsOfProgramme
  BY AwardsSayIt DEF ReadsInv, RowIsOfProgramme, AtAwards
<1> QED BY <1>1, <1>2, <1>3, <1>4, <1>5, <1>6, <1>7 DEF ReadsAreShownTruly

\* What a screen says it read is what was there to be read, of the thing that the page
\* says it is about, in whatever order answers come and however often the person
\* changes what is asked (frontend/src/pages and frontend/src/hooks).
THEOREM ReadsReported == Spec => []ReadsAreShownTruly
<1>1. Init => WritesInv /\ ReadsInv
  BY WritesInvInit, ReadsInvInit
<1>2. WritesInv /\ ReadsInv /\ [Next]_screensVars => (WritesInv /\ ReadsInv)'
  BY WritesInvKept, ReadsInvKept
<1> QED BY <1>1, <1>2, ReadsInvSaysIt, PTL DEF Spec
=============================================================================
