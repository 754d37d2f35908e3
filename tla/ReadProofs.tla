----------------------------- MODULE ReadProofs -----------------------------
(***************************************************************************)
(* A read hook implements LatestAnswer and shows what is of now, for every *)
(* kind of hook, every set of subjects and every bound.                    *)
(*                                                                         *)
(* The invariant follows the generation of each call: no two calls share   *)
(* one, none is newer than the hook's, and the call that is as new as the  *)
(* hook asks about what the deps name.                                     *)
(*                                                                         *)
(* Then links: a programme named by the address bar is read from only if   *)
(* the registry deployed it.  The last section is about the reader that    *)
(* the screens share: its slots are accounted for, its queue keeps nothing *)
(* back, and a card that loads is told how its read ends.                  *)
(***************************************************************************)
EXTENDS ReadProperties, AlgorithmProofs

Subject == Subjects \cup {NoSubject}
OutcomeType == {NoAnswer} \cup [generation : Nat \ {0}, subject : Subject, answer : Int]
ReadHookType == [data : OutcomeType, error : OutcomeType, archived : BOOLEAN,
                 fetching : BOOLEAN, loaded : BOOLEAN, generation : Nat]
ReadCallType == [generation : Nat \ {0}, subject : Subject, answer : Int]

HookTypeOK ==
  /\ kind \in AllKinds /\ subject \in Subject /\ mounted \in BOOLEAN
  /\ hook \in ReadHookType
  /\ calls \subseteq ReadCallType
  /\ network \in [Subjects -> Nat]

\* Each generation makes at most one call, and none of them is in the future.
GenerationsAreApart ==
  /\ \A call \in calls : call.generation <= hook.generation
  /\ \A one, other \in calls : one.generation = other.generation => one = other

\* A call in flight is not one whose answer is shown, and data is no newer than
\* the hook.
InFlightIsUnanswered ==
  /\ hook.data.generation <= hook.generation
  /\ \A call \in calls : call.generation # hook.data.generation

\* The newest call asks about the subject of now, or its outcome is there.
NewestIsOfNow ==
  mounted /\ Enabled =>
    /\ \A call \in calls : call.generation = hook.generation => call.subject = subject
    /\ \/ \E call \in calls : call.generation = hook.generation
       \/ \E outcome \in {hook.data, hook.error} :
            outcome.generation = hook.generation /\ outcome.subject = subject

\* useChainRead forgets the error of the run before when it starts one.
ErrorEndsTheRun ==
  kind = "chain" /\ hook.error.generation > 0 =>
    \A call \in calls : call.generation # hook.generation

HookInv ==
  /\ HookTypeOK /\ GenerationsAreApart /\ InFlightIsUnanswered /\ NewestIsOfNow
  /\ ErrorEndsTheRun /\ NoErrorBesideNewerData

------------------------------------------------------------------------------

LEMMA NoAnswerHasGenerationZero == NoAnswer.generation = 0
  BY DEF NoAnswer

LEMMA NoAnswerIsOutcome == NoAnswer \in OutcomeType
  BY DEF OutcomeType

\* What starting a read does to the hook.
LEMMA StartedHook ==
  ASSUME NEW h \in ReadHookType, NEW g \in Nat
  PROVE  LET started == [h EXCEPT !.generation = g, !.fetching = TRUE, !.error = NoAnswer]
         IN started \in ReadHookType /\ started.generation = g /\ started.data = h.data
              /\ started.error = NoAnswer
  BY NoAnswerIsOutcome DEF ReadHookType

LEMMA RefetchedHook ==
  ASSUME NEW h \in ReadHookType, NEW g \in Nat
  PROVE  LET started == [h EXCEPT !.generation = g, !.fetching = TRUE, !.error = NoAnswer,
                                  !.archived = FALSE]
         IN started \in ReadHookType /\ started.generation = g /\ started.data = h.data
              /\ started.error = NoAnswer
  BY NoAnswerIsOutcome DEF ReadHookType

LEMMA GenerationsOfOutcomes == \A o \in OutcomeType : o.generation \in Nat
  BY DEF OutcomeType, NoAnswer

LEMMA HookInvInit == ASSUME HookInit PROVE HookInv
<1> USE DEF HookInit, Call, NoAnswer
<1>1. HookTypeOK
  <2>1. hook \in ReadHookType BY DEF ReadHookType, OutcomeType, Enabled, Subject
  <2>2. calls \subseteq ReadCallType BY DEF ReadCallType, Subject, Enabled
  <2>3. network \in [Subjects -> Nat] /\ kind \in AllKinds BY ReadConstants
  <2> QED BY <2>1, <2>2, <2>3 DEF HookTypeOK, Subject
<1>2. GenerationsAreApart BY DEF GenerationsAreApart
<1>3. InFlightIsUnanswered BY DEF InFlightIsUnanswered
<1>4. NewestIsOfNow
  <2>1. CASE Enabled
    <3>1. calls = {Call(1, subject)} /\ hook.generation = 1 BY <2>1
    <3>2. Call(1, subject).generation = 1 /\ Call(1, subject).subject = subject OBVIOUS
    <3> QED BY <3>1, <3>2 DEF NewestIsOfNow
  <2> QED BY <2>1 DEF NewestIsOfNow
<1>5. ErrorEndsTheRun /\ NoErrorBesideNewerData
  BY DEF ErrorEndsTheRun, NoErrorBesideNewerData
<1> QED BY <1>1, <1>2, <1>3, <1>4, <1>5 DEF HookInv

\* The hook goes on to the next generation, with a call about s or without any.
LEMMA NextGenerationKeepsInv ==
  ASSUME HookInv, NEW s \in Subject, NEW runs \in BOOLEAN,
         UNCHANGED <<kind, mounted, network>>, subject' = s,
         hook' \in ReadHookType, hook'.generation = hook.generation + 1,
         hook'.data = hook.data,
         \/ hook'.error = NoAnswer
         \/ hook'.error = hook.error /\ (kind # "chain" \/ ~runs),
         calls' = IF runs THEN calls \cup {Call(hook.generation + 1, s)} ELSE calls,
         runs \/ s = NoSubject
  PROVE  HookInv'
<1> DEFINE g == hook.generation + 1
<1>1. /\ hook \in ReadHookType /\ hook.generation \in Nat /\ g \in Nat \ {0}
      /\ hook.data \in OutcomeType /\ hook.error \in OutcomeType
      /\ hook.data.generation \in Nat /\ hook.error.generation \in Nat
  BY GenerationsOfOutcomes DEF HookInv, HookTypeOK, ReadHookType
<1>2. Call(g, s) \in ReadCallType /\ Call(g, s).generation = g /\ Call(g, s).subject = s
  BY <1>1 DEF Call, ReadCallType
<1>3. \A call \in calls : call.generation \in Nat /\ call.generation < g
  BY <1>1 DEF HookInv, HookTypeOK, ReadCallType, GenerationsAreApart
<1>4. \A call \in calls' : call \in calls \/ (runs /\ call = Call(g, s))
  OBVIOUS
<1> HIDE DEF g
<1>5. HookTypeOK' BY <1>2, <1>4 DEF HookInv, HookTypeOK
<1>6. hook'.generation = g BY DEF g
<1>7. GenerationsAreApart'
  BY <1>1, <1>2, <1>3, <1>4, <1>6 DEF HookInv, GenerationsAreApart
<1>8. InFlightIsUnanswered'
  <2>1. hook.data.generation < g BY <1>1 DEF g, HookInv, InFlightIsUnanswered
  <2> QED BY <1>1, <1>2, <1>4, <1>6, <2>1 DEF HookInv, InFlightIsUnanswered
<1>9. NewestIsOfNow'
  BY <1>2, <1>3, <1>4, <1>6 DEF NewestIsOfNow, Enabled, g
<1>10. ErrorEndsTheRun'
  BY <1>1, <1>3, <1>4, <1>6, NoAnswerHasGenerationZero DEF ErrorEndsTheRun
<1>11. NoErrorBesideNewerData'
  BY NoAnswerHasGenerationZero DEF HookInv, NoErrorBesideNewerData
<1> QED BY <1>5, <1>7, <1>8, <1>9, <1>10, <1>11 DEF HookInv

\* A call is answered, on its way back.
LEMMA ServeKeepsInv ==
  ASSUME HookInv, NEW call \in calls, Serve(call) PROVE HookInv'
<1> DEFINE answered == [call EXCEPT !.answer = network[call.subject]]
<1>1. call \in ReadCallType /\ call.subject \in Subjects
  BY DEF HookInv, HookTypeOK, ReadCallType, Serve, Subject
<1>2. /\ answered \in ReadCallType /\ answered.generation = call.generation
      /\ answered.subject = call.subject
  BY <1>1 DEF HookInv, HookTypeOK, ReadCallType
<1>3. UNCHANGED <<kind, subject, mounted, hook, network>> BY DEF Serve
<1>4. calls' = (calls \ {call}) \cup {answered} BY DEF Serve
<1> HIDE DEF answered
<1>5. HookTypeOK' BY <1>2, <1>3, <1>4 DEF HookInv, HookTypeOK
<1>6. GenerationsAreApart' BY <1>2, <1>3, <1>4 DEF HookInv, GenerationsAreApart
<1>7. InFlightIsUnanswered' BY <1>2, <1>3, <1>4 DEF HookInv, InFlightIsUnanswered
<1>8. NewestIsOfNow'
  <2>1. (\E c \in calls : c.generation = hook.generation) =>
          \E c \in calls' : c.generation = hook.generation
    BY <1>2, <1>4
  <2> QED BY <1>2, <1>3, <1>4, <2>1 DEF HookInv, NewestIsOfNow, Enabled
<1>9. ErrorEndsTheRun' BY <1>2, <1>3, <1>4 DEF HookInv, ErrorEndsTheRun
<1>10. NoErrorBesideNewerData' BY <1>3 DEF HookInv, NoErrorBesideNewerData
<1> QED BY <1>5, <1>6, <1>7, <1>8, <1>9, <1>10 DEF HookInv

\* A call ends, and its outcome is shown only if it is of the newest generation.
LEMMA SettleKeepsInv ==
  ASSUME HookInv, NEW call \in calls, Settle(call) PROVE HookInv'
<1>1. call \in ReadCallType /\ hook \in ReadHookType /\ hook.generation \in Nat
      /\ hook.data.generation \in Nat /\ hook.error.generation \in Nat
  BY GenerationsOfOutcomes DEF HookInv, HookTypeOK, ReadHookType
<1>2. UNCHANGED <<kind, subject, mounted, network>> /\ calls' = calls \ {call}
  BY DEF Settle, Arrive, Reject
<1>3. Outcome(call) \in OutcomeType /\ Outcome(call).generation = call.generation
      /\ Outcome(call).subject = call.subject
  BY <1>1 DEF Outcome, OutcomeType, ReadCallType
<1>4. PICK archived \in BOOLEAN :
        \/ hook' = hook /\ ~Current(call)
        \/ Current(call) /\ hook' = Succeeded(call)
        \/ Current(call) /\ hook' = Failed(call, archived)
  BY DEF Settle, Arrive, Reject
<1>5. CASE hook' = hook /\ ~Current(call)
  <2>1. HookTypeOK' BY <1>2, <1>5 DEF HookInv, HookTypeOK
  <2>2. GenerationsAreApart' BY <1>2, <1>5 DEF HookInv, GenerationsAreApart
  <2>3. InFlightIsUnanswered' BY <1>2, <1>5 DEF HookInv, InFlightIsUnanswered
  <2>4. NewestIsOfNow'
    BY <1>2, <1>5 DEF HookInv, NewestIsOfNow, Enabled, Current
  <2>5. ErrorEndsTheRun' BY <1>2, <1>5 DEF HookInv, ErrorEndsTheRun
  <2>6. NoErrorBesideNewerData' BY <1>2, <1>5 DEF HookInv, NoErrorBesideNewerData
  <2> QED BY <2>1, <2>2, <2>3, <2>4, <2>5, <2>6 DEF HookInv
<1>6. ASSUME Current(call),
             hook' \in ReadHookType, hook'.generation = hook.generation,
             \/ /\ hook'.data = Outcome(call)
                /\ hook'.error = hook.error \/ hook'.error = NoAnswer
                /\ kind = "indexed" => hook'.error = NoAnswer
             \/ hook'.error = Outcome(call) /\ hook'.data = hook.data
      PROVE  HookInv'
  <2>1. call.generation = hook.generation /\ mounted BY <1>6 DEF Current
  <2>2. HookTypeOK' BY <1>2, <1>6 DEF HookInv, HookTypeOK
  <2>3. GenerationsAreApart' BY <1>2, <1>6 DEF HookInv, GenerationsAreApart
  <2>4. \A c \in calls' : c.generation # hook.generation
    BY <1>2, <2>1 DEF HookInv, GenerationsAreApart
  <2>5. InFlightIsUnanswered'
    BY <1>1, <1>2, <1>3, <1>6, <2>1, <2>4 DEF HookInv, InFlightIsUnanswered
  <2>6. NewestIsOfNow'
    BY <1>2, <1>3, <1>6, <2>1, <2>4 DEF HookInv, NewestIsOfNow, Enabled
  <2>7. ErrorEndsTheRun' BY <1>6, <2>4 DEF ErrorEndsTheRun
  <2>8. NoErrorBesideNewerData'
    <3>1. CASE hook'.data = Outcome(call)
      <4>1. CASE kind = "chain"
        <5>1. hook.error.generation = 0
          BY <1>1, <2>1, <4>1 DEF HookInv, ErrorEndsTheRun
        <5> QED BY <1>1, <1>6, <1>3, <2>1, <3>1, <5>1, NoAnswerHasGenerationZero
              DEF NoErrorBesideNewerData, HookInv, InFlightIsUnanswered
      <4>2. CASE kind = "indexed"
        BY <1>1, <1>2, <1>3, <1>6, <2>1, <3>1, <4>2, NoAnswerHasGenerationZero
           DEF NoErrorBesideNewerData, HookInv, InFlightIsUnanswered
      <4>3. CASE kind = "contract" BY <1>2, <4>3 DEF NoErrorBesideNewerData
      <4> QED BY <4>1, <4>2, <4>3 DEF HookInv, HookTypeOK, AllKinds
    <3>2. CASE hook'.error = Outcome(call) /\ hook'.data = hook.data
      BY <1>1, <1>3, <2>1, <3>2 DEF NoErrorBesideNewerData, HookInv, InFlightIsUnanswered
    <3> QED BY <1>6, <3>1, <3>2
  <2> QED BY <2>2, <2>3, <2>5, <2>6, <2>7, <2>8 DEF HookInv
<1>7. ASSUME Current(call), hook' = Succeeded(call) PROVE HookInv'
  <2>1. CASE kind = "indexed"
    <3>1. /\ hook' \in ReadHookType /\ hook'.generation = hook.generation
          /\ hook'.data = Outcome(call) /\ hook'.error = NoAnswer
      BY <1>1, <1>3, <1>7, <2>1 DEF Succeeded, ReadHookType, OutcomeType
    <3> QED BY <1>6, <1>7, <3>1
  <2>2. CASE kind # "indexed"
    <3>1. /\ hook' \in ReadHookType /\ hook'.generation = hook.generation
          /\ hook'.data = Outcome(call) /\ hook'.error = hook.error
      BY <1>1, <1>3, <1>7, <2>2 DEF Succeeded, ReadHookType
    <3> QED BY <1>6, <1>7, <2>2, <3>1
  <2> QED BY <2>1, <2>2
<1>8. ASSUME Current(call), hook' = Failed(call, archived) PROVE HookInv'
  <2>1. /\ hook' \in ReadHookType /\ hook'.generation = hook.generation
        /\ hook'.error = Outcome(call) /\ hook'.data = hook.data
    BY <1>1, <1>3, <1>8 DEF Failed, ReadHookType
  <2> QED BY <1>6, <1>8, <2>1
<1> QED BY <1>4, <1>5, <1>7, <1>8

LEMMA HookNextKeepsInv ==
  ASSUME HookInv, HookNext PROVE HookInv'
<1>0. hook \in ReadHookType /\ hook.generation \in Nat /\ subject \in Subject
  BY DEF HookInv, HookTypeOK, ReadHookType
<1>1. ASSUME NEW s \in Subjects \cup {NoSubject}, ChangeSubject(s) PROVE HookInv'
  <2> DEFINE runs == s # NoSubject
  <2>1. UNCHANGED <<kind, mounted, network>> /\ subject' = s /\ s \in Subject
    BY <1>1 DEF ChangeSubject, Subject
  <2>2. calls' = IF runs THEN calls \cup {Call(hook.generation + 1, s)} ELSE calls
    BY <1>1 DEF ChangeSubject, RunEffect
  <2>3. CASE kind # "chain" /\ ~runs
    <3>1. hook' = hook /\ calls' = calls BY <1>1, <2>3 DEF ChangeSubject, RunEffect
    <3>2. HookTypeOK' BY <2>1, <3>1 DEF HookInv, HookTypeOK
    <3>3. GenerationsAreApart' /\ InFlightIsUnanswered'
      BY <3>1 DEF HookInv, GenerationsAreApart, InFlightIsUnanswered
    <3>4. NewestIsOfNow' BY <2>1, <2>3 DEF NewestIsOfNow, Enabled
    <3>5. ErrorEndsTheRun' /\ NoErrorBesideNewerData'
      BY <2>1, <3>1 DEF HookInv, ErrorEndsTheRun, NoErrorBesideNewerData
    <3> QED BY <3>2, <3>3, <3>4, <3>5 DEF HookInv
  <2>4. CASE kind = "chain" /\ runs
    <3>1. /\ hook' \in ReadHookType /\ hook'.generation = hook.generation + 1
          /\ hook'.data = hook.data /\ hook'.error = NoAnswer
      <4>1. hook' = [hook EXCEPT !.generation = hook.generation + 1, !.fetching = TRUE,
                                 !.error = NoAnswer]
        BY <1>0, <1>1, <2>4 DEF ChangeSubject, RunEffect, ReadHookType
      <4>2. hook.generation + 1 \in Nat BY <1>0
      <4> QED BY <1>0, <4>1, <4>2, StartedHook
    <3> HIDE DEF runs
    <3> QED BY <2>1, <2>2, <2>4, <3>1, NextGenerationKeepsInv DEF runs
  <2>5. CASE (kind = "chain" /\ ~runs) \/ (kind # "chain" /\ runs)
    <3>1. /\ hook' \in ReadHookType /\ hook'.generation = hook.generation + 1
          /\ hook'.data = hook.data /\ hook'.error = hook.error
      <4>1. hook' = [hook EXCEPT !.generation = hook.generation + 1]
        BY <1>1, <2>5 DEF ChangeSubject, RunEffect
      <4> QED BY <1>0, <4>1 DEF ReadHookType
    <3> QED BY <2>1, <2>2, <2>5, <3>1, NextGenerationKeepsInv
  <2> QED BY <2>3, <2>4, <2>5
<1>2. CASE Refetch
  <2>1. UNCHANGED <<kind, subject, mounted, network>> BY <1>2 DEF Refetch
  <2>2. /\ hook' \in ReadHookType /\ hook'.generation = hook.generation + 1
        /\ hook'.data = hook.data /\ hook'.error = NoAnswer
        /\ calls' = calls \cup {Call(hook.generation + 1, subject)}
    <3>1. CASE kind = "chain"
      <4>1. Enabled /\ RunEffect(subject) BY <1>2, <3>1 DEF Refetch, RunRefetch
      <4>2. hook' = [hook EXCEPT !.generation = hook.generation + 1, !.fetching = TRUE,
                                 !.error = NoAnswer]
        BY <1>0, <3>1, <4>1 DEF RunEffect, Enabled, ReadHookType
      <4>3. calls' = calls \cup {Call(hook.generation + 1, subject)}
        BY <4>1 DEF RunEffect, Enabled
      <4>4. hook.generation + 1 \in Nat BY <1>0
      <4> QED BY <1>0, <4>2, <4>3, <4>4, StartedHook
    <3>2. CASE kind # "chain"
      <4>1. /\ calls' = calls \cup {Call(hook.generation + 1, subject)}
            /\ hook' = [hook EXCEPT !.generation = hook.generation + 1, !.fetching = TRUE,
                                    !.error = NoAnswer, !.archived = FALSE]
        BY <1>2, <3>2 DEF Refetch, RunRefetch
      <4>2. hook.generation + 1 \in Nat BY <1>0
      <4> QED BY <1>0, <4>1, <4>2, RefetchedHook
    <3> QED BY <3>1, <3>2
  <2> QED BY <1>0, <2>1, <2>2, NextGenerationKeepsInv
<1>3. CASE Unmount
  BY <1>3 DEF Unmount, HookInv, HookTypeOK, GenerationsAreApart, InFlightIsUnanswered,
     NewestIsOfNow, ErrorEndsTheRun, NoErrorBesideNewerData
<1>4. CASE ResetRpcHealth
  BY <1>4 DEF ResetRpcHealth, HookInv, HookTypeOK, GenerationsAreApart, InFlightIsUnanswered,
     NewestIsOfNow, Enabled, ErrorEndsTheRun, NoErrorBesideNewerData
<1>5. ASSUME NEW s \in Subjects, Change(s) PROVE HookInv'
  <2>1. UNCHANGED <<kind, subject, mounted, hook, calls>> /\ network' \in [Subjects -> Nat]
    BY <1>5 DEF Change, HookInv, HookTypeOK
  <2> QED BY <2>1 DEF HookInv, HookTypeOK, GenerationsAreApart, InFlightIsUnanswered,
       NewestIsOfNow, Enabled, ErrorEndsTheRun, NoErrorBesideNewerData
<1> QED BY <1>1, <1>2, <1>3, <1>4, <1>5, ServeKeepsInv, SettleKeepsInv DEF HookNext

\* The invariant holds in every state of every behaviour.
THEOREM ReadHookCorrect == HookSpec => []HookInv
<1>1. HookInv /\ [HookNext]_hookVars => HookInv'
  <2> SUFFICES ASSUME HookInv, [HookNext]_hookVars PROVE HookInv'
    OBVIOUS
  <2>1. CASE UNCHANGED hookVars
    BY <2>1 DEF hookVars, HookInv, HookTypeOK, GenerationsAreApart, InFlightIsUnanswered,
       NewestIsOfNow, Enabled, ErrorEndsTheRun, NoErrorBesideNewerData
  <2> QED BY <2>1, HookNextKeepsInv
<1> QED BY <1>1, HookInvInit, PTL DEF HookSpec

\* What a read hook shows once it has settled is of now: its newest request has
\* an outcome, about the deps of now, and no error stays beside newer data.
THEOREM SettledHooksShowNow == HookSpec => []HooksShowNow
<1>1. HookInv => HooksShowNow
  BY DEF HookInv, NewestIsOfNow, HooksShowNow, SettledIsCurrent
<1> QED BY <1>1, ReadHookCorrect, PTL

------------------------------------------------------------------------------
(* Refinement *)

LEMMA HookInitRefines == ASSUME HookInit PROVE Newest!Init
  BY DEF HookInit, Newest!Init, NoAnswer

\* A step of the hook asks, shows the answer to the newest request, or is none of
\* the abstract specification's business.
LEMMA HookNextRefines ==
  ASSUME HookInv, HookNext
  PROVE  \/ Newest!Ask \/ Newest!Show
         \/ UNCHANGED <<hook.generation, hook.data.generation>>
<1>0. hook \in ReadHookType /\ hook.generation \in Nat
  BY DEF HookInv, HookTypeOK, ReadHookType
<1>1. ASSUME NEW s \in Subjects \cup {NoSubject}, ChangeSubject(s)
      PROVE  \/ hook' = hook
             \/ hook'.generation = hook.generation + 1 /\ hook'.data = hook.data
  BY <1>0, <1>1 DEF ChangeSubject, RunEffect, ReadHookType
<1>2. ASSUME Refetch
      PROVE  hook'.generation = hook.generation + 1 /\ hook'.data = hook.data
  BY <1>0, <1>2 DEF Refetch, RunRefetch, RunEffect, Enabled, ReadHookType
<1>3. ASSUME NEW call \in calls, Settle(call)
      PROVE  \/ hook' = hook
             \/ hook'.generation = hook.generation /\ hook'.data = hook.data
             \/ /\ hook'.generation = hook.generation /\ hook.generation > 0
                /\ hook'.data.generation = hook.generation
  <2>1. PICK archived \in BOOLEAN :
          \/ hook' = hook
          \/ Current(call) /\ hook' = Succeeded(call)
          \/ hook' = Failed(call, archived)
    BY <1>3 DEF Settle, Arrive, Reject
  <2>2. CASE Current(call) /\ hook' = Succeeded(call)
    <3>1. hook'.generation = hook.generation /\ hook'.data = Outcome(call)
      BY <1>0, <2>2 DEF Succeeded, ReadHookType
    <3>2. call.generation = hook.generation /\ call.generation \in Nat \ {0}
      BY <2>2 DEF Current, HookInv, HookTypeOK, ReadCallType
    <3> QED BY <3>1, <3>2 DEF Outcome
  <2>3. CASE hook' = Failed(call, archived)
    BY <1>0, <2>3 DEF Failed, ReadHookType
  <2> QED BY <2>1, <2>2, <2>3
<1>4. ASSUME \/ Unmount \/ ResetRpcHealth \/ \E s \in Subjects : Change(s)
             \/ \E call \in calls : Serve(call)
      PROVE  hook' = hook
  BY <1>4 DEF Unmount, ResetRpcHealth, Change, Serve
<1> QED BY <1>0, <1>1, <1>2, <1>3, <1>4 DEF HookNext, Newest!Ask, Newest!Show

\* Every behaviour of a read hook is one of LatestAnswer: what it shows is only ever
\* replaced by the answer to its newest request.
THEOREM HookImplementsLatestAnswer == HookSpec => DataIsOfNewestRead
<1>1. HookInit => Newest!Init BY HookInitRefines
<1>2. HookInv /\ [HookNext]_hookVars =>
        [Newest!Next]_<<hook.generation, hook.data.generation>>
  <2> SUFFICES ASSUME HookInv, [HookNext]_hookVars
               PROVE  [Newest!Next]_<<hook.generation, hook.data.generation>>
    OBVIOUS
  <2>1. CASE UNCHANGED hookVars BY <2>1 DEF hookVars
  <2> QED BY <2>1, HookNextRefines DEF Newest!Next
<1> QED BY <1>1, <1>2, ReadHookCorrect, PTL DEF HookSpec, DataIsOfNewestRead, Newest!Spec

------------------------------------------------------------------------------
(* A programme named by the address bar *)

LinkSpec == LinkInit /\ [][LinkNext]_linkVars

\* What the registry said is kept with the id it was asked about.
AnswersAreTrue ==
  /\ verification \in [id : Linkable \cup {NoParam}, status : {"idle", "valid", "unknown", "error"}]
  /\ verification.status = "valid" =>
       verification.id \in Registered \cap Linkable
  /\ param \in Linkable \cup {NoParam, Malformed}
  /\ asking => param \in Linkable

LEMMA LinkNextKeeps == ASSUME AnswersAreTrue, [LinkNext]_linkVars PROVE AnswersAreTrue'
<1> USE DEF AnswersAreTrue
<1>1. CASE UNCHANGED linkVars BY <1>1 DEF linkVars
<1>2. ASSUME NEW value \in Linkable \cup {NoParam, Malformed}, FollowLink(value)
      PROVE  AnswersAreTrue'
  BY <1>2 DEF FollowLink
<1>3. CASE ClearLink BY <1>3 DEF ClearLink
<1>4. CASE RecheckLink BY <1>4 DEF RecheckLink, SyntaxValid
<1>5. CASE LinkAnswered
  BY <1>5 DEF LinkAnswered
<1>6. CASE LinkFailed BY <1>6 DEF LinkFailed
<1> QED BY <1>1, <1>2, <1>3, <1>4, <1>5, <1>6 DEF LinkNext

\* A screen reads from a linked programme only if the registry deployed it: an
\* answer that comes after another link was followed is not taken for it.
THEOREM LinkedProgrammesAreRegistered == LinkSpec => []LinkedIsRegistered
<1>1. LinkInit => AnswersAreTrue
  <2> SUFFICES ASSUME LinkInit PROVE AnswersAreTrue
    OBVIOUS
  <2>1. asking => param \in Linkable
    BY Zenon DEF LinkInit, SyntaxValid
  <2> QED BY <2>1 DEF LinkInit, AnswersAreTrue
<1>2. AnswersAreTrue => LinkedIsRegistered
  <2> SUFFICES ASSUME AnswersAreTrue, consuming, param # NoParam, ReadsEnabled
               PROVE  ShownProgramme = param /\ param \in Registered
    BY DEF LinkedIsRegistered
  <2>1. Status = "valid"
    BY DEF ReadsEnabled, BlocksProgramme, Status, AnswersAreTrue
  <2> QED BY <2>1 DEF ShownProgramme, Status, AnswersAreTrue, SyntaxValid, ConsumesProgrammeParam
<1> QED BY <1>1, <1>2, LinkNextKeeps, PTL DEF LinkSpec

------------------------------------------------------------------------------
(* The keys of the reader *)

\* The leaves of a composite are keys that are no composites, each is of that one
\* alone, and none is both required and optional.
LEMMA WalkHasItsLeaves ==
  /\ WalkSteps \in Seq(Keys)
  /\ \A leaf \in ToSet(WalkSteps) : leaf \notin Composites /\ ParentOf(leaf) = WalkKey
<1>1. WalkKey \in Composites /\ Leaves(WalkKey) \subseteq Keys
  BY DEF Composites, Keys
<1>2. Required(WalkKey) = WalkSteps
  BY DEF Required
<1>3. 2 * WalkLength \in Nat
  BY SessionAssumption
<1>4. DOMAIN WalkSteps = 1 .. 2 * WalkLength
  BY DEF WalkSteps
<1>5. \A i \in DOMAIN WalkSteps : WalkSteps[i] \in Keys
  BY <1>1, <1>2 DEF Leaves, ToSet
<1>6. WalkSteps = [i \in 1 .. 2 * WalkLength |-> WalkSteps[i]]
  BY DEF WalkSteps
<1>7. WalkSteps \in Seq(Keys)
  <2> HIDE DEF WalkSteps
  <2> QED BY <1>3, <1>4, <1>5, <1>6
<1>8. ASSUME NEW i \in DOMAIN WalkSteps
      PROVE  WalkSteps[i] \notin Composites /\ ParentOf(WalkSteps[i]) = WalkKey
  <2>1. /\ WalkSteps[i].of = "registry"
        /\ WalkSteps[i].read \in {"programme_address", "is_programme"}
    BY <1>4 DEF WalkSteps, Key
  <2> HIDE DEF WalkSteps
  <2>2. \A c \in Composites : (c.of = "registry" => c.read = "programmes")
    BY SessionAssumption DEF Composites, ChainKey, WalkKey, Key
  <2> QED BY <2>1, <2>2 DEF ParentOf
<1> QED BY <1>7, <1>8 DEF ToSet

LEMMA ChainHasItsLeaves ==
  ASSUME NEW p \in Programmes, NEW names \in Seq(STRING), "chain" \notin ToSet(names),
         ToSet(Reads(p, names)) \subseteq Keys
  PROVE  /\ Reads(p, names) \in Seq(Keys)
         /\ \A leaf \in ToSet(Reads(p, names)) :
              leaf \notin Composites /\ ParentOf(leaf) = ChainKey(p) /\ leaf.read \in ToSet(names)
<1> DEFINE reads == Reads(p, names)
<1>1. DOMAIN reads = DOMAIN names /\ \A i \in DOMAIN names : reads[i] = Key(p, names[i], 0)
  BY DEF Reads
<1>2. reads = [i \in DOMAIN names |-> reads[i]]
  BY DEF Reads
<1>3. Len(names) \in Nat /\ DOMAIN names = 1 .. Len(names)
  OBVIOUS
<1> HIDE DEF reads
<1>4. \A i \in DOMAIN names : reads[i] \in Keys
  BY <1>1 DEF ToSet, reads
<1>5. reads \in Seq(Keys)
  BY <1>2, <1>3, <1>4
<1>6. ASSUME NEW i \in DOMAIN names
      PROVE  /\ reads[i] \notin Composites /\ ParentOf(reads[i]) = ChainKey(p)
             /\ reads[i].read \in ToSet(names)
  <2>1. reads[i].of = p /\ reads[i].read = names[i] /\ names[i] \in ToSet(names)
    BY <1>1 DEF Key, ToSet
  <2>2. p # "registry" /\ names[i] # "chain"
    BY <2>1, SessionAssumption
  <2>3. \A c \in Composites : c.of = "registry" \/ c.read = "chain"
    BY DEF Composites, ChainKey, WalkKey, Key
  <2> QED BY <2>1, <2>2, <2>3 DEF ParentOf
<1> QED BY <1>1, <1>5, <1>6 DEF reads, ToSet

LEMMA LeavesOfOne ==
  ASSUME NEW c \in Composites
  PROVE  /\ c \in Keys /\ Required(c) \in Seq(Keys) /\ Optional(c) \in Seq(Keys)
         /\ \A leaf \in Leaves(c) : leaf \in Keys /\ leaf \notin Composites /\ ParentOf(leaf) = c
         /\ ToSet(Required(c)) \cap ToSet(Optional(c)) = {}
<1>1. c \in Keys /\ Leaves(c) \subseteq Keys
  BY DEF Keys
<1>2. CASE c = WalkKey
  <2>1. Required(c) = WalkSteps /\ Optional(c) = <<>>
    BY <1>2 DEF Required, Optional
  <2>2. ToSet(Optional(c)) = {} /\ Optional(c) \in Seq(Keys)
    BY <2>1 DEF ToSet
  <2> QED BY <1>1, <1>2, <2>1, <2>2, WalkHasItsLeaves DEF Leaves
<1>3. CASE c # WalkKey
  <2>1. PICK p \in Programmes : c = ChainKey(p)
    BY <1>3 DEF Composites
  <2>2. c.of = p
    BY <2>1 DEF ChainKey, Key
  <2>3. Required(c) = Reads(p, AnchorReads) /\ Optional(c) = Reads(p, FigureReads)
    BY <1>3, <2>2 DEF Required, Optional
  <2>4. /\ AnchorReads \in Seq(STRING) /\ "chain" \notin ToSet(AnchorReads)
        /\ FigureReads \in Seq(STRING) /\ "chain" \notin ToSet(FigureReads)
        /\ ToSet(AnchorReads) \cap ToSet(FigureReads) = {}
    BY SessionAssumption
  <2>5. ToSet(Reads(p, AnchorReads)) \subseteq Keys /\ ToSet(Reads(p, FigureReads)) \subseteq Keys
    BY <1>1, <2>3 DEF Leaves
  <2>6. /\ Required(c) \in Seq(Keys)
        /\ \A leaf \in ToSet(Required(c)) :
             leaf \notin Composites /\ ParentOf(leaf) = c /\ leaf.read \in ToSet(AnchorReads)
    BY <2>1, <2>3, <2>4, <2>5, ChainHasItsLeaves
  <2>7. /\ Optional(c) \in Seq(Keys)
        /\ \A leaf \in ToSet(Optional(c)) :
             leaf \notin Composites /\ ParentOf(leaf) = c /\ leaf.read \in ToSet(FigureReads)
    BY <2>1, <2>3, <2>4, <2>5, ChainHasItsLeaves
  <2> QED BY <1>1, <2>4, <2>6, <2>7 DEF Leaves
<1> QED BY <1>2, <1>3

\* And every key that is no composite is a leaf of one.
LEMMA ParentOfLeaf ==
  ASSUME NEW leaf \in Keys, leaf \notin Composites
  PROVE  ParentOf(leaf) \in Composites /\ leaf \in Leaves(ParentOf(leaf))
<1>1. PICK c \in Composites : leaf \in Leaves(c)
  BY DEF Keys
<1> QED BY <1>1, LeavesOfOne

------------------------------------------------------------------------------
(* The slots *)

PoolType == [read : [Keys -> {"absent", "queued", "admitted", "done"}], inFlight : Nat,
             queued : Seq(Keys)]
Admitted(p) == {k \in Keys : p.read[k] = "admitted"}
Queued(p) == {k \in Keys : p.read[k] = "queued"}
Pending(p, k) == p.read[k] \in {"admitted", "queued"}

\* SlotsAccountedFor, of any pool.
PoolOK(p) ==
  /\ p \in PoolType
  /\ IsFiniteSet(Admitted(p)) /\ p.inFlight = Cardinality(Admitted(p))
  /\ p.inFlight <= MAX_CONCURRENT /\ (p.queued # <<>> => p.inFlight = MAX_CONCURRENT)
  /\ IsInjective(p.queued) /\ ToSet(p.queued) = Queued(p)

\* Of q, that keys of S that p did not know are pending and nothing else is new.
Asked(p, q, S) ==
  \A j \in Keys : q.read[j] = p.read[j] \/ (j \in S /\ p.read[j] = "absent" /\ Pending(q, j))

\* A first caller takes a free slot, of which there is none if anything is queued.
LEMMA SessionReadKeeps ==
  ASSUME NEW p, PoolOK(p), NEW k \in Keys
  PROVE  PoolOK(SessionRead(p, k)) /\ Asked(p, SessionRead(p, k), {k})
<1> DEFINE q == SessionRead(p, k)
<1>1. /\ p \in PoolType /\ p.read \in [Keys -> {"absent", "queued", "admitted", "done"}]
      /\ p.inFlight \in Nat /\ p.queued \in Seq(Keys) /\ MAX_CONCURRENT \in Nat
  BY SessionAssumption DEF PoolOK, PoolType
<1>2. CASE p.read[k] # "absent"
  <2>1. q = p
    BY <1>2 DEF SessionRead
  <2> QED BY <2>1 DEF Asked
<1>3. CASE p.read[k] = "absent" /\ p.inFlight < MAX_CONCURRENT
  <2>1. q = [p EXCEPT !.read[k] = "admitted", !.inFlight = p.inFlight + 1]
    BY <1>3 DEF SessionRead
  <2>2. /\ q \in PoolType /\ q.read = [p.read EXCEPT ![k] = "admitted"]
        /\ q.inFlight = p.inFlight + 1 /\ q.queued = p.queued
    <3>1. /\ [p.read EXCEPT ![k] = "admitted"] \in [Keys -> {"absent", "queued", "admitted", "done"}]
          /\ p.inFlight + 1 \in Nat
      BY <1>1
    <3> QED BY <1>1, <2>1, <3>1 DEF PoolType
  <2> HIDE DEF q
  <2>3. Admitted(q) = Admitted(p) \cup {k} /\ k \notin Admitted(p) /\ Queued(q) = Queued(p)
    BY <1>1, <1>3, <2>2 DEF Admitted, Queued
  <2>4. IsFiniteSet(Admitted(q)) /\ Cardinality(Admitted(q)) = Cardinality(Admitted(p)) + 1
    BY <2>3, FS_AddElement DEF PoolOK
  <2>5. p.queued = <<>>
    BY <1>1, <1>3 DEF PoolOK
  <2>6. PoolOK(q)
    BY <1>1, <1>3, <2>2, <2>3, <2>4, <2>5 DEF PoolOK
  <2>7. Asked(p, q, {k})
    BY <1>1, <1>3, <2>2 DEF Asked, Pending
  <2> QED BY <2>6, <2>7 DEF q
<1>4. CASE p.read[k] = "absent" /\ ~(p.inFlight < MAX_CONCURRENT)
  <2>1. q = [p EXCEPT !.read[k] = "queued", !.queued = Append(p.queued, k)]
    BY <1>4 DEF SessionRead
  <2>2. Append(p.queued, k) \in Seq(Keys)
    BY <1>1
  <2>3. /\ q \in PoolType /\ q.read = [p.read EXCEPT ![k] = "queued"]
        /\ q.inFlight = p.inFlight /\ q.queued = Append(p.queued, k)
    BY <1>1, <2>1, <2>2 DEF PoolType
  <2> HIDE DEF q
  <2>4. Admitted(q) = Admitted(p) /\ Queued(q) = Queued(p) \cup {k} /\ k \notin Queued(p)
    BY <1>1, <1>4, <2>3 DEF Admitted, Queued
  <2>5. ToSet(q.queued) = ToSet(p.queued) \cup {k} /\ (k \notin ToSet(p.queued) => IsInjective(q.queued))
    <3> DEFINE n == Len(p.queued) + 1
    <3>1. /\ DOMAIN q.queued = DOMAIN p.queued \cup {n} /\ n \notin DOMAIN p.queued
          /\ q.queued[n] = k /\ \A i \in DOMAIN p.queued : q.queued[i] = p.queued[i]
      BY <1>1, <2>3
    <3> HIDE DEF n
    <3>2. ToSet(q.queued) = ToSet(p.queued) \cup {k}
      BY <3>1 DEF ToSet
    <3>3. k \notin ToSet(p.queued) => IsInjective(q.queued)
      BY <3>1 DEF ToSet, IsInjective, PoolOK
    <3> QED BY <3>2, <3>3
  <2>6. p.inFlight = MAX_CONCURRENT
    BY <1>1, <1>4 DEF PoolOK
  <2>7. PoolOK(q)
    BY <2>3, <2>4, <2>5, <2>6 DEF PoolOK
  <2>8. Asked(p, q, {k})
    BY <1>1, <1>4, <2>3 DEF Asked, Pending
  <2> QED BY <2>7, <2>8 DEF q
<1> QED BY <1>2, <1>3, <1>4

\* A task that ends gives its slot to the head of the queue, which was waiting for it.
LEMMA LeaveKeeps ==
  ASSUME NEW p, PoolOK(p), NEW k \in Keys, p.read[k] = "admitted", NEW state \in {"absent", "done"}
  PROVE  LET q == Leave(p, k, state)
         IN /\ PoolOK(q) /\ q.read[k] = state
            /\ \A j \in Keys : j # k => \/ q.read[j] = p.read[j]
                                        \/ p.read[j] = "queued" /\ q.read[j] = "admitted"
<1> DEFINE q == Leave(p, k, state)
           left == [p EXCEPT !.read[k] = state, !.inFlight = p.inFlight - 1]
<1>1. /\ p \in PoolType /\ p.read \in [Keys -> {"absent", "queued", "admitted", "done"}]
      /\ p.inFlight \in Nat /\ p.queued \in Seq(Keys) /\ MAX_CONCURRENT \in Nat
      /\ p.inFlight = Cardinality(Admitted(p)) /\ IsFiniteSet(Admitted(p)) /\ k \in Admitted(p)
  BY SessionAssumption DEF PoolOK, PoolType, Admitted
<1>2. /\ IsFiniteSet(Admitted(p) \ {k}) /\ Cardinality(Admitted(p) \ {k}) = p.inFlight - 1
      /\ p.inFlight - 1 \in Nat
  <2>1. IsFiniteSet(Admitted(p) \ {k}) /\ Cardinality(Admitted(p) \ {k}) = Cardinality(Admitted(p)) - 1
    BY <1>1, FS_RemoveElement
  <2>2. Cardinality(Admitted(p) \ {k}) \in Nat
    BY <2>1, FS_CardinalityType
  <2> QED BY <1>1, <2>1, <2>2
<1>3. /\ left \in PoolType /\ left.read = [p.read EXCEPT ![k] = state]
      /\ left.inFlight = p.inFlight - 1 /\ left.queued = p.queued
  BY <1>1, <1>2 DEF PoolType
<1>4. q = IF p.queued = <<>> THEN left
          ELSE [left EXCEPT !.read[Head(p.queued)] = "admitted",
                            !.inFlight = left.inFlight + 1, !.queued = Tail(left.queued)]
  BY DEF Leave
<1> HIDE DEF left, q
<1>5. CASE p.queued = <<>>
  <2>1. q = left
    BY <1>4, <1>5
  <2>2. Admitted(q) = Admitted(p) \ {k} /\ Queued(q) = Queued(p)
    BY <1>1, <1>3, <2>1 DEF Admitted, Queued
  <2>3. PoolOK(q)
    BY <1>1, <1>2, <1>3, <1>5, <2>1, <2>2 DEF PoolOK
  <2> QED BY <1>1, <1>3, <2>1, <2>3 DEF q
<1>6. CASE p.queued # <<>>
  <2> DEFINE h == Head(p.queued)
             rest == Tail(p.queued)
  <2>1. Len(p.queued) \in Nat /\ Len(p.queued) # 0 /\ DOMAIN p.queued = 1 .. Len(p.queued)
        /\ h = p.queued[1] /\ 1 \in DOMAIN p.queued
    BY <1>1, <1>6
  <2>2. /\ rest \in Seq(Keys) /\ Len(rest) = Len(p.queued) - 1 /\ DOMAIN rest = 1 .. Len(p.queued) - 1
        /\ \A i \in DOMAIN rest : rest[i] = p.queued[i + 1] /\ i + 1 \in DOMAIN p.queued
    BY <1>1, <1>6, <2>1
  <2> HIDE DEF h, rest
  <2>3. h \in ToSet(p.queued) /\ h \in Keys
    BY <1>1, <2>1 DEF ToSet
  <2>4. p.read[h] = "queued" /\ h # k
    <3>1. h \in Queued(p)
      BY <2>3 DEF PoolOK
    <3> QED BY <1>1, <3>1 DEF Queued, Admitted
  <2>5. IsInjective(rest)
    BY <2>2 DEF IsInjective, PoolOK
  <2>6. ToSet(rest) = ToSet(p.queued) \ {h}
    <3>1. ASSUME NEW i \in DOMAIN rest PROVE rest[i] \in ToSet(p.queued) /\ rest[i] # h
      <4>1. i + 1 # 1 /\ i + 1 \in DOMAIN p.queued /\ rest[i] = p.queued[i + 1]
        BY <2>1, <2>2
      <4> QED BY <2>1, <4>1 DEF ToSet, IsInjective, PoolOK
    <3>2. ASSUME NEW i \in DOMAIN p.queued, p.queued[i] # h PROVE p.queued[i] \in ToSet(rest)
      <4>1. i # 1 /\ i \in Nat /\ i <= Len(p.queued) /\ i >= 1
        BY <2>1, <3>2
      <4>2. i - 1 \in DOMAIN rest /\ (i - 1) + 1 = i
        BY <2>1, <2>2, <4>1
      <4> QED BY <2>2, <4>2 DEF ToSet
    <3> QED BY <3>1, <3>2 DEF ToSet
  <2>7. /\ q \in PoolType /\ q.read = [left.read EXCEPT ![h] = "admitted"]
        /\ q.inFlight = left.inFlight + 1 /\ q.queued = rest
    <3>1. q = [left EXCEPT !.read[h] = "admitted", !.inFlight = left.inFlight + 1, !.queued = rest]
      BY <1>3, <1>4, <1>6 DEF h, rest
    <3>2. left.read \in [Keys -> {"absent", "queued", "admitted", "done"}] /\ left.inFlight + 1 \in Nat
      <4>1. left.inFlight \in Nat /\ left.read \in [Keys -> {"absent", "queued", "admitted", "done"}]
        BY <1>3 DEF PoolType
      <4> QED BY <4>1
    <3> QED BY <1>3, <2>2, <2>3, <3>1, <3>2 DEF PoolType
  <2>8. /\ q.read = [[p.read EXCEPT ![k] = state] EXCEPT ![h] = "admitted"]
        /\ q.inFlight = p.inFlight /\ q.queued = rest
    BY <1>1, <1>3, <2>7
  <2>9. /\ Admitted(q) = (Admitted(p) \ {k}) \cup {h} /\ h \notin Admitted(p) \ {k}
        /\ Queued(q) = Queued(p) \ {h}
    BY <1>1, <2>3, <2>4, <2>8 DEF Admitted, Queued
  <2>10. IsFiniteSet(Admitted(q)) /\ Cardinality(Admitted(q)) = p.inFlight
    <3>1. IsFiniteSet(Admitted(q)) /\ Cardinality(Admitted(q)) = Cardinality(Admitted(p) \ {k}) + 1
      BY <1>2, <2>9, FS_AddElement
    <3> QED BY <1>1, <1>2, <3>1
  <2>11. p.inFlight = MAX_CONCURRENT
    BY <1>6 DEF PoolOK
  <2>12. PoolOK(q)
    BY <1>1, <2>5, <2>6, <2>7, <2>8, <2>9, <2>10, <2>11 DEF PoolOK
  <2> QED BY <1>1, <2>3, <2>4, <2>8, <2>12 DEF q
<1> QED BY <1>5, <1>6

------------------------------------------------------------------------------
(* Several reads at once: a fold, each place of the list read after the ones     *)
(* before it.                                                                    *)

ReadsOf(g, p, keys, S) ==
  g = [s \in SUBSET S |-> IF s = {} THEN p ELSE SessionRead(g[s \ {Max(s)}], keys[Max(s)])]

\* A read keeps the slots accounted for, so the fold of reads is one among such pools.
LEMMA ReadsOfExists ==
  ASSUME NEW p, PoolOK(p), NEW keys, NEW S, Places(S), \A i \in S : keys[i] \in Keys
  PROVE  \E g : ReadsOf(g, p, keys, S)
<1> DEFINE Pools == {q \in PoolType : PoolOK(q)}
           step == [q \in Pools |-> [k \in Keys |-> SessionRead(q, k)]]
<1>1. p \in Pools
  BY DEF PoolOK
<1>2. step \in [Pools -> [Keys -> Pools]]
  <2>1. \A q \in Pools, k \in Keys : SessionRead(q, k) \in Pools
    BY SessionReadKeeps DEF PoolOK
  <2> HIDE DEF Pools
  <2> QED BY <2>1
<1>3. \A q \in Pools, k \in Keys : step[q][k] = SessionRead(q, k)
  OBVIOUS
<1> HIDE DEF step, Pools
<1>4. PICK g : FoldsOver(g, step, p, keys, S)
  BY FoldsOverExists
<1>5. \A V \in SUBSET S : g[V] \in Pools
  BY <1>1, <1>2, <1>4, FoldsOverType
<1>6. \A V \in SUBSET S :
        g[V] = IF V = {} THEN p ELSE SessionRead(g[V \ {Max(V)}], keys[Max(V)])
  <2>1. ASSUME NEW V \in SUBSET S, V # {}
        PROVE  g[V] = SessionRead(g[V \ {Max(V)}], keys[Max(V)])
    <3>1. g[V] = step[g[V \ {Max(V)}]][keys[Max(V)]]
      BY <1>4, <2>1 DEF FoldsOver
    <3>2. keys[Max(V)] \in Keys /\ g[V \ {Max(V)}] \in Pools
      BY <1>5, <2>1 DEF Places
    <3> QED BY <1>3, <3>1, <3>2
  <2> QED BY <1>4, <2>1 DEF FoldsOver
<1>7. g = [V \in SUBSET S |-> g[V]]
  BY <1>4 DEF FoldsOver
<1> QED BY <1>6, <1>7 DEF ReadsOf

\* Whatever is asked for at once, the slots stay accounted for, and only what nobody
\* had asked for becomes pending.
LEMMA ReadAllKeeps ==
  ASSUME NEW p, PoolOK(p), NEW keys \in Seq(Keys)
  PROVE  PoolOK(ReadAll(p, keys)) /\ Asked(p, ReadAll(p, keys), ToSet(keys))
<1> DEFINE D == DOMAIN keys
           g == CHOOSE f : ReadsOf(f, p, keys, D)
<1>1. Len(keys) \in Nat /\ D = 1 .. Len(keys) /\ \A i \in D : keys[i] \in Keys
  OBVIOUS
<1>2. ReadsOf(g, p, keys, D)
  <2>1. Places(D)
    BY <1>1, PlacesOfList
  <2>2. \E f : ReadsOf(f, p, keys, D)
    BY <1>1, <2>1, ReadsOfExists
  <2> QED BY <2>2
<1>3. ReadAll(p, keys) = g[D]
  BY DEF ReadAll, FoldLeft, MapThenFoldSet, ReadsOf
<1> HIDE DEF g, D
<1> DEFINE Good == {V \in SUBSET D : PoolOK(g[V]) /\ Asked(p, g[V], ToSet(keys))}
<1>4. ASSUME NEW V \in SUBSET D, \A W \in SUBSET V : W # V => W \in Good PROVE V \in Good
  <2>1. CASE V = {}
    <3>1. g[V] = p
      BY <1>2, <2>1 DEF ReadsOf
    <3> QED BY <3>1 DEF Asked
  <2>2. CASE V # {}
    <3> DEFINE rest == V \ {Max(V)}
               k == keys[Max(V)]
               q == g[rest]
    <3>1. Max(V) \in V
      BY <1>1, <2>2, GreatestIsElement
    <3>2. rest \in SUBSET V /\ rest # V
      BY <3>1
    <3>3. k \in Keys /\ k \in ToSet(keys)
      BY <1>1, <3>1 DEF ToSet, D
    <3>4. g[V] = SessionRead(q, k)
      BY <1>2, <2>2 DEF ReadsOf
    <3> HIDE DEF rest, k
    <3>5. PoolOK(q) /\ Asked(p, q, ToSet(keys))
      BY <1>4, <3>2
    <3> HIDE DEF q
    <3>6. PoolOK(g[V]) /\ Asked(q, g[V], {k})
      BY <3>3, <3>4, <3>5, SessionReadKeeps
    <3>7. Asked(p, g[V], ToSet(keys))
      BY <3>3, <3>5, <3>6 DEF Asked, Pending
    <3> QED BY <3>6, <3>7
  <2> QED BY <2>1, <2>2
<1>5. D \in Good
  <2>1. IsFiniteSet(D)
    BY <1>1, FS_Interval
  <2> HIDE DEF Good
  <2> QED BY <1>4, <2>1, SubsetInduction
<1> QED BY <1>3, <1>5

------------------------------------------------------------------------------
(* What waits for what *)

\* A composite that waits has its slot; it waits for one required leaf or for optional
\* ones; and what is pending of its leaves is what it waits for.
ReaderOK(p, waits) ==
  /\ PoolOK(p)
  /\ waits \in [Composites -> SUBSET Keys]
  /\ \A c \in Composites :
       /\ waits[c] # {} => p.read[c] = "admitted"
       /\ waits[c] \subseteq ToSet(Optional(c)) \/ \E leaf \in ToSet(Required(c)) : waits[c] = {leaf}
  /\ \A leaf \in Keys : leaf \notin Composites /\ Pending(p, leaf) => leaf \in waits[ParentOf(leaf)]

\* Composites that become pending change none of this.
LEMMA AskingKeeps ==
  ASSUME NEW p, NEW waits, ReaderOK(p, waits), NEW q, PoolOK(q), Asked(p, q, Composites)
  PROVE  ReaderOK(q, waits)
<1>1. \A c \in Composites : c \in Keys
  BY LeavesOfOne
<1>2. \A c \in Composites : p.read[c] = "admitted" => q.read[c] = "admitted"
  BY <1>1 DEF Asked
<1>3. \A leaf \in Keys : leaf \notin Composites /\ Pending(q, leaf) => Pending(p, leaf)
  BY DEF Asked, Pending
<1> QED BY <1>2, <1>3 DEF ReaderOK

\* A leaf that ends is waited for no more; its composite still has its slot.
LEMMA LeafLeaves ==
  ASSUME NEW p, NEW waits, ReaderOK(p, waits), NEW leaf \in Keys, leaf \notin Composites,
         p.read[leaf] = "admitted", NEW state \in {"absent", "done"},
         NEW c, c = ParentOf(leaf), NEW left, left = Leave(p, leaf, state),
         NEW after, after \in [Composites -> SUBSET Keys], after[c] = waits[c] \ {leaf},
         \A d \in Composites : d # c => after[d] = waits[d]
  PROVE  /\ c \in Composites /\ leaf \in waits[c] /\ left.read[c] = "admitted"
         /\ ReaderOK(left, after)
<1>1. c \in Composites /\ leaf \in waits[c] /\ p.read[c] = "admitted" /\ waits \in [Composites -> SUBSET Keys]
  BY ParentOfLeaf DEF ReaderOK, Pending
<1>2. /\ PoolOK(left) /\ left.read[leaf] = state
      /\ \A j \in Keys : j # leaf => \/ left.read[j] = p.read[j]
                                     \/ p.read[j] = "queued" /\ left.read[j] = "admitted"
  BY LeaveKeeps DEF ReaderOK
<1>3. \A d \in Composites : d \in Keys /\ d # leaf
  BY LeavesOfOne
<1>4. \A d \in Composites : p.read[d] = "admitted" => left.read[d] = "admitted"
  BY <1>2, <1>3
<1>5. /\ after \in [Composites -> SUBSET Keys] /\ after[c] = waits[c] \ {leaf}
      /\ \A d \in Composites : d # c => after[d] = waits[d]
  OBVIOUS
<1>6. \A d \in Composites : after[d] # {} => left.read[d] = "admitted"
  BY <1>4, <1>5 DEF ReaderOK
<1>7. ASSUME NEW d \in Composites
      PROVE  after[d] \subseteq ToSet(Optional(d)) \/ \E l \in ToSet(Required(d)) : after[d] = {l}
  <2>1. waits[d] \subseteq ToSet(Optional(d)) \/ \E l \in ToSet(Required(d)) : waits[d] = {l}
    BY DEF ReaderOK
  <2>2. after[d] = waits[d] \/ after[d] = waits[d] \ {leaf}
    BY <1>5
  <2>3. CASE waits[d] \subseteq ToSet(Optional(d)) BY <2>2, <2>3
  <2>4. CASE \E l \in ToSet(Required(d)) : waits[d] = {l}
    <3>1. PICK l \in ToSet(Required(d)) : waits[d] = {l}
      BY <2>4
    <3>2. after[d] = {l} \/ after[d] = {}
      BY <2>2, <3>1
    <3> QED BY <3>2
  <2> QED BY <2>1, <2>3, <2>4
<1>8. ASSUME NEW l \in Keys, l \notin Composites, Pending(left, l) PROVE l \in after[ParentOf(l)]
  <2>1. l # leaf
    BY <1>2, <1>8 DEF Pending
  <2>2. Pending(p, l)
    BY <1>2, <1>8, <2>1 DEF Pending
  <2>3. l \in waits[ParentOf(l)] /\ ParentOf(l) \in Composites
    BY <1>8, <2>2, ParentOfLeaf DEF ReaderOK
  <2> QED BY <1>5, <2>1, <2>3
<1>9. ReaderOK(left, after)
  BY <1>2, <1>5, <1>6, <1>7, <1>8 DEF ReaderOK
<1> QED BY <1>1, <1>4, <1>9

\* A composite that waits for nothing may end.
LEMMA CompositeLeaves ==
  ASSUME NEW p, NEW waits, ReaderOK(p, waits), NEW c \in Composites,
         p.read[c] = "admitted", waits[c] = {}, NEW state \in {"absent", "done"}
  PROVE  ReaderOK(Leave(p, c, state), waits)
<1> DEFINE left == Leave(p, c, state)
<1>1. \A d \in Composites : d \in Keys
  BY LeavesOfOne
<1>2. /\ PoolOK(left) /\ left.read[c] = state
      /\ \A j \in Keys : j # c => \/ left.read[j] = p.read[j]
                                  \/ p.read[j] = "queued" /\ left.read[j] = "admitted"
  BY <1>1, LeaveKeeps DEF ReaderOK
<1> HIDE DEF left
<1>3. \A d \in Composites : waits[d] # {} => left.read[d] = "admitted"
  BY <1>1, <1>2 DEF ReaderOK
<1>4. \A leaf \in Keys : leaf \notin Composites /\ Pending(left, leaf) => Pending(p, leaf)
  BY <1>2 DEF Pending
<1> QED BY <1>2, <1>3, <1>4 DEF ReaderOK, left

\* A composite that waits for nothing may go on.
LEMMA ContinueKeeps ==
  ASSUME NEW p, NEW waits, ReaderOK(p, waits), NEW c \in Composites,
         p.read[c] = "admitted", waits[c] = {},
         \A w : [awaiting EXCEPT ![c] = w] = [waits EXCEPT ![c] = w], Continue(p, c)
  PROVE  ReaderOK(pool', awaiting')
<1> DEFINE first == SelectInSeq(Required(c), LAMBDA leaf : p.read[leaf] # "done")
           next == IF first # 0 THEN <<Required(c)[first]>> ELSE Optional(c)
           new == {leaf \in ToSet(next) : p.read[leaf] # "done"}
<1>1. /\ pool' = IF new = {} THEN Leave(p, c, "done") ELSE ReadAll(p, next)
      /\ awaiting' = [waits EXCEPT ![c] = new]
  BY DEF Continue
<1>2. first = 0 \/ first \in DOMAIN Required(c)
  <2> DEFINE I == {i \in 1 .. Len(Required(c)) : p.read[Required(c)[i]] # "done"}
  <2>1. first = IF I # {} THEN Min(I) ELSE 0
    BY DEF SelectInSeq
  <2>2. I \subseteq 1 .. Len(Required(c)) /\ DOMAIN Required(c) = 1 .. Len(Required(c))
    BY LeavesOfOne
  <2>3. I \subseteq Nat
    BY <2>2
  <2> HIDE DEF I, first
  <2> QED BY <2>1, <2>2, <2>3, LeastNatural
<1>3. next \in Seq(Keys) /\ (next = Optional(c) \/ \E leaf \in ToSet(Required(c)) : ToSet(next) = {leaf})
  <2>1. Required(c) \in Seq(Keys) /\ Optional(c) \in Seq(Keys)
    BY LeavesOfOne
  <2>2. CASE first = 0 BY <2>1, <2>2
  <2>3. CASE first # 0
    <3> DEFINE leaf == Required(c)[first]
    <3>1. leaf \in Keys /\ leaf \in ToSet(Required(c))
      <4> HIDE DEF first
      <4>1. first \in DOMAIN Required(c)
        BY <1>2, <2>3
      <4> QED BY <2>1, <4>1 DEF ToSet
    <3>2. next = <<leaf>>
      BY <2>3
    <3> HIDE DEF leaf, next
    <3>3. next \in Seq(Keys) /\ ToSet(next) = {leaf}
      BY <3>1, <3>2 DEF ToSet
    <3> QED BY <3>1, <3>3
  <2> QED BY <2>2, <2>3
<1> HIDE DEF next
<1>4. \A leaf \in ToSet(next) : leaf \in Leaves(c) /\ leaf \in Keys /\ leaf \notin Composites /\ ParentOf(leaf) = c
  BY <1>3, LeavesOfOne DEF Leaves
<1>5. new \subseteq ToSet(Optional(c)) \/ \E leaf \in ToSet(Required(c)) : new = {leaf}
  <2>1. CASE next = Optional(c) BY <2>1
  <2>2. CASE \E leaf \in ToSet(Required(c)) : ToSet(next) = {leaf}
    <3>1. PICK leaf \in ToSet(Required(c)) : ToSet(next) = {leaf}
      BY <2>2
    <3>2. new = {} \/ new = {leaf}
      BY <3>1
    <3> QED BY <3>2
  <2> QED BY <1>3, <2>1, <2>2
<1>6. /\ waits \in [Composites -> SUBSET Keys] /\ new \subseteq Keys
      /\ awaiting' \in [Composites -> SUBSET Keys] /\ awaiting'[c] = new
      /\ \A d \in Composites : d # c => awaiting'[d] = waits[d]
  BY <1>1, <1>4 DEF ReaderOK
<1>7. CASE new = {}
  <2>1. awaiting' = waits
    BY <1>1, <1>6, <1>7
  <2> QED BY <1>1, <1>7, <2>1, CompositeLeaves
<1>8. CASE new # {}
  <2>1. pool' = ReadAll(p, next)
    BY <1>1, <1>8
  <2>2. PoolOK(pool') /\ Asked(p, pool', ToSet(next))
    BY <1>3, <2>1, ReadAllKeeps DEF ReaderOK
  <2>3. \A d \in Composites : d \in Keys
    BY LeavesOfOne
  <2>4. \A d \in Composites : p.read[d] = "admitted" => pool'.read[d] = "admitted"
    BY <2>2, <2>3 DEF Asked
  <2>5. \A d \in Composites : awaiting'[d] # {} => pool'.read[d] = "admitted"
    BY <1>6, <2>4 DEF ReaderOK
  <2>6. \A d \in Composites :
          awaiting'[d] \subseteq ToSet(Optional(d)) \/ \E l \in ToSet(Required(d)) : awaiting'[d] = {l}
    BY <1>5, <1>6 DEF ReaderOK
  <2>7. ASSUME NEW leaf \in Keys, leaf \notin Composites, Pending(pool', leaf)
        PROVE  leaf \in awaiting'[ParentOf(leaf)]
    <3>1. CASE Pending(p, leaf)
      <4>1. leaf \in waits[ParentOf(leaf)] /\ ParentOf(leaf) \in Composites
        BY <2>7, <3>1, ParentOfLeaf DEF ReaderOK
      <4> QED BY <1>6, <4>1
    <3>2. CASE ~Pending(p, leaf)
      <4>1. leaf \in ToSet(next) /\ p.read[leaf] = "absent"
        BY <2>2, <2>7, <3>2 DEF Asked, Pending
      <4>2. leaf \in new /\ ParentOf(leaf) = c
        BY <1>4, <4>1
      <4> QED BY <1>6, <4>2
    <3> QED BY <3>1, <3>2
  <2> HIDE DEF new
  <2> QED BY <1>6, <2>2, <2>5, <2>6, <2>7 DEF ReaderOK
<1> QED BY <1>7, <1>8

------------------------------------------------------------------------------
(* Nothing is forgotten *)

\* A card that is completed is not loading, and one that loads is listening.
CardsOK ==
  /\ wanted \subseteq Programmes /\ listening \in [Programmes -> BOOLEAN]
  /\ loading \cap completed = {}
  /\ LoadingIsListening

SessionInv == ReaderOK(pool, awaiting) /\ CardsOK

LEMMA SessionInvInit == ASSUME SessionInit PROVE SessionInv
<1>1. /\ pool = [read |-> [k \in Keys |-> "absent"], inFlight |-> 0, queued |-> <<>>]
      /\ awaiting = [k \in Composites |-> {}]
      /\ wanted = {} /\ completed = {} /\ loading = {}
      /\ listening = [p \in Programmes |-> FALSE]
  BY DEF SessionInit
<1>2. pool.inFlight = 0 /\ pool.queued = <<>> /\ \A k \in Keys : pool.read[k] = "absent"
  BY <1>1
<1>3. pool \in PoolType
  BY <1>1 DEF PoolType
<1>4. Admitted(pool) = {} /\ Queued(pool) = {} /\ ToSet(pool.queued) = {} /\ IsInjective(pool.queued)
  BY <1>2 DEF Admitted, Queued, ToSet, IsInjective
<1>5. IsFiniteSet(Admitted(pool)) /\ Cardinality(Admitted(pool)) = 0
  BY <1>4, FS_EmptySet
<1>6. 0 <= MAX_CONCURRENT
  BY SessionAssumption
<1>7. PoolOK(pool)
  BY <1>2, <1>3, <1>4, <1>5, <1>6 DEF PoolOK
<1>8. ReaderOK(pool, awaiting)
  BY <1>1, <1>2, <1>7 DEF ReaderOK, Pending
<1>9. CardsOK
  BY <1>1 DEF CardsOK, LoadingIsListening
<1> QED BY <1>8, <1>9 DEF SessionInv

\* The chain reads of a finite set of programmes, in some order.
LEMMA ChainKeysAreKeys ==
  ASSUME NEW ids \in SUBSET Programmes
  PROVE  /\ ChainKeys(SetToSeq(ids)) \in Seq(Keys)
         /\ ToSet(ChainKeys(SetToSeq(ids))) \subseteq Composites
<1> DEFINE n == Cardinality(ids)
           order == SetToSeq(ids)
           keys == ChainKeys(order)
<1>1. IsFiniteSet(ids) /\ n \in Nat
  BY SessionAssumption, FS_Subset, FS_CardinalityType
<1>2. order \in [1 .. n -> ids]
  <2>1. \E f \in [1 .. n -> ids] : IsInjective(f)
    <3>1. Bijection(1 .. n, ids) # {}
      BY <1>1, FS_CardinalityType DEF ExistsBijection
    <3>2. PICK f \in Bijection(1 .. n, ids) : TRUE
      BY <3>1
    <3>3. f \in [1 .. n -> ids] /\ IsInjective(f)
      BY <3>2 DEF Bijection, Injection
    <3> QED BY <3>3
  <2> HIDE DEF n
  <2> QED BY <2>1 DEF SetToSeq, n
<1> HIDE DEF order, n
<1>3. \A i \in 1 .. n : ChainKey(order[i]) \in Composites
  BY <1>2 DEF Composites
<1>4. \A c \in Composites : c \in Keys
  BY LeavesOfOne
<1>5. keys = [i \in 1 .. n |-> ChainKey(order[i])]
  BY <1>2 DEF ChainKeys
<1> HIDE DEF keys
<1>6. DOMAIN keys = 1 .. n /\ \A i \in 1 .. n : keys[i] \in Composites /\ keys[i] \in Keys
  BY <1>3, <1>4, <1>5
<1>7. keys \in Seq(Keys)
  <2>1. keys \in [1 .. n -> Keys]
    BY <1>5, <1>6
  <2> QED BY <1>1, <2>1
<1>8. ToSet(keys) \subseteq Composites
  BY <1>6 DEF ToSet
<1> QED BY <1>7, <1>8 DEF keys, order

\* A run of the effect listens to all that it leaves loading among what it reads.
LEMMA RunReadsKeeps ==
  ASSUME SessionInv, NEW ids \in SUBSET Programmes, wanted' = ids, RunReads(ids)
  PROVE  SessionInv'
<1> DEFINE pending == ids \ completed
           keys == ChainKeys(SetToSeq(pending))
<1>1. /\ pool' = ReadAll(pool, keys) /\ loading' = loading \cup pending
      /\ listening' = [p \in Programmes |-> p \in pending]
      /\ UNCHANGED <<awaiting, completed>>
  BY DEF RunReads
<1>2. keys \in Seq(Keys) /\ ToSet(keys) \subseteq Composites
  <2>1. pending \in SUBSET Programmes
    OBVIOUS
  <2> HIDE DEF pending
  <2> QED BY <2>1, ChainKeysAreKeys
<1>3. PoolOK(pool') /\ Asked(pool, pool', Composites)
  <2> HIDE DEF keys
  <2>1. PoolOK(pool') /\ Asked(pool, pool', ToSet(keys))
    BY <1>1, <1>2, ReadAllKeeps DEF SessionInv, ReaderOK
  <2> QED BY <1>2, <2>1 DEF Asked
<1>4. ReaderOK(pool, awaiting)'
  BY <1>1, <1>3, AskingKeeps DEF SessionInv
<1>5. CardsOK'
  <2>1. listening' \in [Programmes -> BOOLEAN]
    <3> HIDE DEF pending
    <3> QED BY <1>1
  <2>2. \A p \in Programmes : listening'[p] = (p \in pending)
    <3> HIDE DEF pending
    <3> QED BY <1>1
  <2>3. loading' \cap completed' = {}
    BY <1>1 DEF SessionInv, CardsOK
  <2>4. LoadingIsListening'
    BY <1>1, <2>2 DEF LoadingIsListening, SessionInv, CardsOK
  <2> QED BY <2>1, <2>3, <2>4 DEF CardsOK
<1> QED BY <1>4, <1>5 DEF SessionInv

\* The steps of the reads themselves.
LEMMA ReadStepKeeps ==
  ASSUME SessionInv, NEW k \in Keys, ReadStep(k) PROVE SessionInv'
<1>1. ReaderOK(pool, awaiting) /\ CardsOK /\ awaiting \in [Composites -> SUBSET Keys]
  BY DEF SessionInv, ReaderOK
<1>2. CASE Begin(k)
  <2>1. k \in Composites /\ pool.read[k] = "admitted" /\ awaiting[k] = {} /\ UNCHANGED cardVars
    BY <1>2 DEF Begin
  <2>2. \A w : [awaiting EXCEPT ![k] = w] = [awaiting EXCEPT ![k] = w]
    OBVIOUS
  <2>3. ASSUME Continue(pool, k) PROVE ReaderOK(pool, awaiting)'
    BY <1>1, <2>1, <2>2, <2>3, ContinueKeeps
  <2>4. ReaderOK(pool, awaiting)'
    <3>1. CASE pool' = Leave(pool, k, "absent") /\ awaiting' = awaiting
      BY <1>1, <2>1, <3>1, CompositeLeaves
    <3> QED BY <1>2, <2>3, <3>1 DEF Begin
  <2>5. CardsOK'
    BY <1>1, <2>1 DEF CardsOK, LoadingIsListening, cardVars
  <2> QED BY <2>4, <2>5 DEF SessionInv
<1> DEFINE c == ParentOf(k)
           without == [awaiting EXCEPT ![c] = awaiting[c] \ {k}]
<1>3. ASSUME k \notin Composites, pool.read[k] = "admitted", NEW state \in {"absent", "done"}
      PROVE  /\ c \in Composites /\ k \in awaiting[c] /\ Leave(pool, k, state).read[c] = "admitted"
             /\ ReaderOK(Leave(pool, k, state), without)
  <2> DEFINE left == Leave(pool, k, state)
  <2>1. c = ParentOf(k) /\ left = Leave(pool, k, state)
    OBVIOUS
  <2>2. c \in Composites
    BY ParentOfLeaf, <1>3
  <2>3. /\ without \in [Composites -> SUBSET Keys] /\ without[c] = awaiting[c] \ {k}
        /\ \A d \in Composites : d # c => without[d] = awaiting[d]
    <3> HIDE DEF c
    <3> QED BY <1>1, <2>2
  <2> HIDE DEF c, left, without
  <2>4. /\ c \in Composites /\ k \in awaiting[c] /\ left.read[c] = "admitted"
        /\ ReaderOK(left, without)
    BY <1>1, <1>3, <2>1, <2>3, LeafLeaves
  <2> QED BY <2>4 DEF left
<1>4. ASSUME c \in Composites
      PROVE  /\ without[c] = awaiting[c] \ {k}
             /\ \A w : [awaiting EXCEPT ![c] = w] = [without EXCEPT ![c] = w]
  BY <1>1, <1>4
<1>5. ASSUME k \notin Composites, pool.read[k] = "admitted", NEW state \in {"absent", "done"},
             awaiting[c] = {k}, NEW final \in {"absent", "done"}
      PROVE  ReaderOK(Leave(Leave(pool, k, state), c, final), [awaiting EXCEPT ![c] = {}])
  <2> DEFINE left == Leave(pool, k, state)
  <2>1. c \in Composites /\ left.read[c] = "admitted" /\ ReaderOK(left, without)
    BY <1>3, <1>5
  <2>2. without[c] = {} /\ without = [awaiting EXCEPT ![c] = {}]
    <3>1. awaiting[c] \ {k} = {}
      BY <1>5
    <3> QED BY <1>4, <2>1, <3>1
  <2> HIDE DEF left, without, c
  <2>3. ReaderOK(Leave(left, c, final), without)
    BY <2>1, <2>2, CompositeLeaves
  <2> QED BY <2>2, <2>3 DEF left
<1> HIDE DEF without
<1>6. CASE LeafAnswers(k)
  <2> DEFINE left == Leave(pool, k, "done")
  <2>1. k \notin Composites /\ pool.read[k] = "admitted" /\ UNCHANGED cardVars
    BY <1>6 DEF LeafAnswers
  <2>2. \/ awaiting[c] = {k} /\ pool' = Leave(left, c, "done") /\ awaiting' = [awaiting EXCEPT ![c] = {}]
        \/ awaiting[c] = {k} /\ Continue(left, c)
        \/ pool' = left /\ awaiting' = [awaiting EXCEPT ![c] = awaiting[c] \ {k}]
    BY <1>6 DEF LeafAnswers
  <2>3. c \in Composites /\ left.read[c] = "admitted" /\ ReaderOK(left, without)
    BY <1>3, <2>1
  <2>4. ASSUME awaiting[c] = {k}, pool' = Leave(left, c, "done"), awaiting' = [awaiting EXCEPT ![c] = {}]
        PROVE  ReaderOK(pool', awaiting')
    BY <1>5, <2>1, <2>4
  <2>5. ASSUME awaiting[c] = {k}, Continue(left, c)
        PROVE  ReaderOK(pool', awaiting')
    <3>1. without[c] = {} /\ \A w : [awaiting EXCEPT ![c] = w] = [without EXCEPT ![c] = w]
      BY <1>4, <2>3, <2>5
    <3> HIDE DEF left, c
    <3> QED BY <2>3, <2>5, <3>1, ContinueKeeps
  <2>6. ASSUME pool' = left, awaiting' = [awaiting EXCEPT ![c] = awaiting[c] \ {k}]
        PROVE  ReaderOK(pool', awaiting')
    BY <2>3, <2>6 DEF without
  <2>7. ReaderOK(pool', awaiting')
    <3> HIDE DEF left, c
    <3> QED BY <2>2, <2>4, <2>5, <2>6
  <2>8. CardsOK'
    BY <1>1, <2>1 DEF CardsOK, LoadingIsListening, cardVars
  <2> QED BY <2>7, <2>8 DEF SessionInv
<1>7. CASE LeafFails(k)
  <2> DEFINE left == Leave(pool, k, "absent")
  <2>1. k \notin Composites /\ pool.read[k] = "admitted"
    BY <1>7 DEF LeafFails
  <2>2. c \in Composites /\ k \in awaiting[c] /\ left.read[c] = "admitted" /\ ReaderOK(left, without)
    BY <1>3, <2>1
  <2>3. CASE k \in ToSet(Optional(c))
    <3>1. /\ pool' = IF awaiting[c] = {k} THEN Leave(left, c, "done") ELSE left
          /\ awaiting' = [awaiting EXCEPT ![c] = awaiting[c] \ {k}] /\ UNCHANGED cardVars
      BY <1>7, <2>3 DEF LeafFails
    <3>2. ReaderOK(pool, awaiting)'
      <4>1. CASE awaiting[c] = {k}
        <5>1. awaiting[c] \ {k} = {}
          BY <4>1
        <5> QED BY <1>5, <2>1, <3>1, <4>1, <5>1
      <4>2. CASE awaiting[c] # {k}
        BY <2>2, <3>1, <4>2 DEF without
      <4> QED BY <4>1, <4>2
    <3>3. CardsOK'
      BY <1>1, <3>1 DEF CardsOK, LoadingIsListening, cardVars
    <3> QED BY <3>2, <3>3 DEF SessionInv
  <2>4. CASE k \notin ToSet(Optional(c))
    <3>1. /\ pool' = Leave(left, c, "absent") /\ awaiting' = [awaiting EXCEPT ![c] = {}]
          /\ CardFails(c)
      BY <1>7, <2>4 DEF LeafFails
    <3>2. awaiting[c] = {k}
      BY <1>1, <2>2, <2>4 DEF ReaderOK
    <3>3. ReaderOK(pool, awaiting)'
      BY <1>5, <2>1, <3>1, <3>2
    <3>4. CardsOK'
      BY <1>1, <3>1 DEF CardsOK, LoadingIsListening, CardFails
    <3> QED BY <3>3, <3>4 DEF SessionInv
  <2> QED BY <2>3, <2>4
<1> QED BY <1>2, <1>6, <1>7 DEF ReadStep

LEMMA SessionInvKept == ASSUME SessionInv, [SessionNext]_sessionVars PROVE SessionInv'
<1>1. CASE UNCHANGED sessionVars
  BY <1>1 DEF sessionVars, SessionInv, CardsOK, LoadingIsListening
<1>2. ASSUME NEW ids \in SUBSET Programmes, Want(ids) PROVE SessionInv'
  BY <1>2, RunReadsKeeps DEF Want
<1>3. CASE Retry
  <2>1. wanted \in SUBSET Programmes /\ wanted' = wanted /\ RunReads(wanted)
    BY <1>3 DEF Retry, SessionInv, CardsOK
  <2> QED BY <2>1, RunReadsKeeps
<1>4. CASE WalkRegistry
  <2>1. pool' = SessionRead(pool, WalkKey) /\ UNCHANGED <<awaiting, cardVars>>
    BY <1>4 DEF WalkRegistry
  <2>2. WalkKey \in Composites /\ WalkKey \in Keys
    BY LeavesOfOne DEF Composites
  <2>3. PoolOK(pool') /\ Asked(pool, pool', {WalkKey})
    BY <2>1, <2>2, SessionReadKeeps DEF SessionInv, ReaderOK
  <2>4. Asked(pool, pool', Composites)
    BY <2>2, <2>3 DEF Asked
  <2>5. ReaderOK(pool, awaiting)'
    BY <2>1, <2>3, <2>4, AskingKeeps DEF SessionInv
  <2>6. CardsOK'
    BY <2>1 DEF SessionInv, CardsOK, LoadingIsListening, cardVars
  <2> QED BY <2>5, <2>6 DEF SessionInv
<1>5. ASSUME NEW k \in Keys, ReadStep(k) PROVE SessionInv'
  BY <1>5, ReadStepKeeps
<1>6. ASSUME NEW p \in Programmes, CardRead(p) PROVE SessionInv'
  <2>1. /\ completed' = completed \cup {p} /\ loading' = loading \ {p}
        /\ listening' = [listening EXCEPT ![p] = FALSE]
        /\ UNCHANGED <<pool, awaiting, wanted>>
    BY <1>6 DEF CardRead, poolVars
  <2>2. CardsOK'
    BY <2>1 DEF SessionInv, CardsOK, LoadingIsListening
  <2> QED BY <2>1, <2>2 DEF SessionInv
<1> QED BY <1>1, <1>2, <1>3, <1>4, <1>5, <1>6 DEF SessionNext

\* Whatever is read, fails, is asked again or overtaken: the slots in use are the reads
\* admitted, every queued read is in the queue once and has no free slot beside it, and
\* every card that loads is told how its read ends.
THEOREM NothingIsForgotten == SessionSpec => []NothingForgotten
<1>1. SessionInv => NothingForgotten
  BY DEF SessionInv, ReaderOK, PoolOK, CardsOK, NothingForgotten, SlotsAccountedFor, Admitted, Queued
<1> QED BY <1>1, SessionInvInit, SessionInvKept, PTL DEF SessionSpec
=============================================================================
