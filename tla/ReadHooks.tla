------------------------------ MODULE ReadHooks ------------------------------
(***************************************************************************)
(* The hooks a screen reads with: useContractRead, useIndexedList and      *)
(* useChainRead (frontend/src/hooks), and the RPC health they report to    *)
(* (frontend/src/lib/rpcHealth.ts).                                        *)
(*                                                                         *)
(* One mounted hook is modelled, of any of the three kinds.  Its `deps`    *)
(* are one value, the subject; NoSubject stands for `enabled: false`, or a *)
(* null key.  A call is in flight from the moment the hook makes it until  *)
(* its promise settles; calls settle in any order, each with the answer    *)
(* the network gave at some moment in between, or with a failure.          *)
(*                                                                         *)
(* useChainRead cancels in its effect's cleanup instead of comparing       *)
(* generations; a run of the effect is its generation here, and a cleanup  *)
(* without a new run is a generation that makes no call.                   *)
(***************************************************************************)
EXTENDS Integers, FiniteSets

CONSTANTS
  Subjects,         \* addresses, programmes: what the deps can name
  NoSubject,
  Kinds,            \* the hooks to mount: among AllKinds
  MaxVersion,       \* bound on how often an answer changes
  MaxGeneration     \* bound on the calls one hook makes

AllKinds == {"contract", "indexed", "chain"}
FAILURE_THRESHOLD == 2
NoAnswer == [generation |-> 0]

ASSUME ReadConstants ==
  /\ NoSubject \notin Subjects
  /\ Kinds \subseteq AllKinds
  /\ MaxVersion \in Nat /\ MaxGeneration \in Nat

VARIABLES
  kind,        \* which hook this is
  subject,     \* its deps, NoSubject when not enabled
  mounted,     \* mounted.current
  hook,        \* its state: data, error, archived, fetching, loaded, generation
  calls,       \* calls in flight
  network,     \* the answer each subject has now: 0 is "not found"
  failures,    \* lib/rpcHealth.ts, shared by every hook of the page
  unavailable

hookVars == <<kind, subject, mounted, hook, calls, network, failures, unavailable>>

Enabled == subject # NoSubject

\* What the hook returns as `loading`.  The first two show a spinner on the
\* first load only.
Loading ==
  IF kind = "chain" THEN hook.fetching
  ELSE Enabled /\ ~hook.loaded /\ hook.fetching

------------------------------------------------------------------------------
(* RPC health *)

\* The threshold is counted up to only: a failure beyond it changes nothing
\* that is ever read.
ReportRpcFailure ==
  /\ failures' = IF failures < FAILURE_THRESHOLD THEN failures + 1 ELSE failures
  /\ unavailable' = (unavailable \/ failures + 1 >= FAILURE_THRESHOLD)

ReportRpcSuccess == failures' = 0 /\ unavailable' = FALSE

\* "Try again" in the offline banner.
ResetRpcHealth ==
  /\ unavailable
  /\ failures' = 0 /\ unavailable' = FALSE
  /\ UNCHANGED <<kind, subject, mounted, hook, calls, network>>

------------------------------------------------------------------------------
(* Making a call *)

Call(generation, s) == [generation |-> generation, subject |-> s, answer |-> -1]

\* The effect that runs when `enabled` or the deps change.  The two hooks with
\* generations leave every flag as it is; with no subject they return early and
\* leave even the generation, so a call in flight still counts as the newest.
RunEffect(s) ==
  LET next == hook.generation + 1
      runs == s # NoSubject
      started == [hook EXCEPT !.generation = next]
  IN /\ calls' = IF runs THEN calls \cup {Call(next, s)} ELSE calls
     /\ hook' = IF kind # "chain" THEN IF runs THEN started ELSE hook
                ELSE IF runs THEN [started EXCEPT !.fetching = TRUE, !.error = NoAnswer]
                ELSE started

\* `refetch` is not conditional on `enabled`: on the event of a successful
\* transaction it calls with whatever the deps are, null included.  useChainRead
\* bumps a counter its effect depends on, which does nothing without a key.
RunRefetch ==
  LET next == hook.generation + 1
  IN IF kind = "chain"
     THEN Enabled /\ RunEffect(subject)
     ELSE /\ calls' = calls \cup {Call(next, subject)}
          /\ hook' = [hook EXCEPT !.generation = next, !.fetching = TRUE,
                                  !.error = NoAnswer, !.archived = FALSE]

------------------------------------------------------------------------------
(* Settling a call *)

MutCurrent(call) == mounted

\* Only the newest request may write state, and only while mounted.
Current(call) == mounted /\ call.generation = hook.generation

Outcome(call) ==
  [generation |-> call.generation, subject |-> call.subject, answer |-> call.answer]

MutSucceeded(call) ==
  [hook EXCEPT !.data = Outcome(call), !.archived = FALSE, !.loaded = TRUE]

MutKeepsError(call) ==
  [hook EXCEPT !.data = Outcome(call), !.archived = FALSE, !.fetching = FALSE, !.loaded = TRUE]

\* useIndexedList clears an earlier error; so does useChainRead, before its
\* call.  useContractRead does not.
Succeeded(call) ==
  LET with == [hook EXCEPT !.data = Outcome(call), !.archived = FALSE,
                           !.fetching = FALSE, !.loaded = TRUE]
  IN IF kind = "indexed" THEN [with EXCEPT !.error = NoAnswer] ELSE with

Failed(call, archived) ==
  [hook EXCEPT !.error = Outcome(call), !.fetching = FALSE, !.loaded = TRUE,
               !.archived = kind = "contract" /\ archived]

HookInit ==
  /\ kind \in Kinds
  /\ subject \in Subjects \cup {NoSubject}
  /\ mounted = TRUE
  /\ hook = [data |-> NoAnswer, error |-> NoAnswer, archived |-> FALSE,
             fetching |-> Enabled, loaded |-> FALSE,
             generation |-> IF Enabled THEN 1 ELSE 0]
  /\ calls = IF Enabled THEN {Call(1, subject)} ELSE {}
  /\ network \in [Subjects -> {0, 1}]
  /\ failures = 0 /\ unavailable = FALSE

\* The deps change: another address, another programme, or none.
ChangeSubject(s) ==
  /\ mounted /\ s # subject
  /\ hook.generation < MaxGeneration
  /\ subject' = s
  /\ RunEffect(s)
  /\ UNCHANGED <<kind, mounted, network, failures, unavailable>>

\* A click on "Try again", or `milepost:transaction-success`.
Refetch ==
  /\ mounted
  /\ hook.generation < MaxGeneration
  /\ RunRefetch
  /\ UNCHANGED <<kind, subject, mounted, network, failures, unavailable>>

Unmount ==
  /\ mounted /\ mounted' = FALSE
  /\ UNCHANGED <<kind, subject, hook, calls, network, failures, unavailable>>

\* Something on chain changes the answer.
Change(s) ==
  /\ network[s] < MaxVersion
  /\ network' = [network EXCEPT ![s] = @ + 1]
  /\ UNCHANGED <<kind, subject, mounted, hook, calls, failures, unavailable>>

\* The network answers a call; the answer is on its way.
Serve(call) ==
  /\ call.answer = -1 /\ call.subject # NoSubject
  /\ calls' = (calls \ {call}) \cup {[call EXCEPT !.answer = network[call.subject]]}
  /\ UNCHANGED <<kind, subject, mounted, hook, network, failures, unavailable>>

\* The call's promise resolves with a value.  useChainRead reports nothing.
Arrive(call) ==
  /\ call.answer > 0
  /\ calls' = calls \ {call}
  /\ IF kind = "chain" THEN UNCHANGED <<failures, unavailable>> ELSE ReportRpcSuccess
  /\ hook' = IF Current(call) THEN Succeeded(call) ELSE hook
  /\ UNCHANGED <<kind, subject, mounted, network>>

\* It rejects: with the contract's "not found"; with an encoding error, for a
\* call without a subject; with an archived entry; or because the network
\* failed, before or after it answered.  Only the last counts against RPC health.
Reject(call) ==
  /\ calls' = calls \ {call}
  /\ \/ /\ call.answer = 0 \/ call.subject = NoSubject
        /\ hook' = IF Current(call) THEN Failed(call, FALSE) ELSE hook
        /\ UNCHANGED <<failures, unavailable>>
     \/ /\ call.subject # NoSubject /\ call.answer = -1
        /\ hook' = IF Current(call) THEN Failed(call, TRUE) ELSE hook
        /\ UNCHANGED <<failures, unavailable>>
     \/ /\ call.subject # NoSubject
        /\ hook' = IF Current(call) THEN Failed(call, FALSE) ELSE hook
        /\ IF kind = "chain" THEN UNCHANGED <<failures, unavailable>>
           ELSE ReportRpcFailure
  /\ UNCHANGED <<kind, subject, mounted, network>>

Settle(call) == Arrive(call) \/ Reject(call)

HookNext ==
  \/ \E s \in Subjects \cup {NoSubject} : ChangeSubject(s)
  \/ Refetch \/ Unmount \/ ResetRpcHealth
  \/ \E s \in Subjects : Change(s)
  \/ \E call \in calls : Serve(call) \/ Settle(call)

\* Every promise of a call settles in the end: a request times out at worst.
HookFairness ==
  \A generation \in 1 .. MaxGeneration :
     WF_hookVars(\E call \in calls : call.generation = generation /\ Settle(call))
==============================================================================
