--------------------------- MODULE ReadProperties ---------------------------
(***************************************************************************)
(* What makes the reads of the screens correct.                            *)
(***************************************************************************)
EXTENDS ReadHooks, ProgrammeLink, SessionReads

HookSpec == HookInit /\ [][HookNext]_hookVars /\ HookFairness

Newest == INSTANCE LatestAnswer WITH
  asked <- hook.generation, shown <- hook.data.generation

\* Answers arrive in any order, are lost, and come after the component has
\* asked again or is gone: the data of a read hook is only ever replaced by the
\* answer to its newest request ("Only the newest request may write state").
DataIsOfNewestRead == Newest!Spec

\* Once the newest request of an enabled hook has settled, its outcome is there,
\* as data or as an error, and it is about what the deps name now: no answer is
\* lost to the generation check, and none is of an earlier subject.
SettledIsCurrent ==
  (mounted /\ Enabled /\ \A call \in calls : call.generation # hook.generation) =>
     \E outcome \in {hook.data, hook.error} :
        outcome.generation = hook.generation /\ outcome.subject = subject

\* In useIndexedList and useChainRead an error does not outlive a newer success.
\* (In useContractRead it does, when the newer read was started by its deps.)
NoErrorBesideNewerData ==
  kind # "contract" /\ hook.error.generation > 0 =>
     hook.data.generation < hook.error.generation

\* Whatever is refetched, lost or overtaken meanwhile, a mounted and enabled
\* hook does not show its spinner for ever.
SpinnerEnds ==
  (mounted /\ Enabled /\ hook.fetching) ~> (~mounted \/ ~Enabled \/ ~hook.fetching)

\* What a read hook shows once it has settled is of now.
HooksShowNow == SettledIsCurrent /\ NoErrorBesideNewerData

------------------------------------------------------------------------------

\* The reader's slots are the reads that are admitted, never more than
\* MAX_CONCURRENT, each queued read waits once, and none waits beside a free
\* slot: no wake-up is lost when a task fails or a composite ends with its last
\* leaf.
SlotsAccountedFor ==
  /\ pool.inFlight = Cardinality({k \in Keys : pool.read[k] = "admitted"})
  /\ pool.inFlight <= MAX_CONCURRENT
  /\ pool.queued # <<>> => pool.inFlight = MAX_CONCURRENT
  /\ IsInjective(pool.queued)
  /\ ToSet(pool.queued) = {k \in Keys : pool.read[k] = "queued"}

\* A card that shows as loading has a promise that will end it, across changes
\* of the list and retries that cancel each other.
LoadingIsListening ==
  \A p \in wanted \cap loading : listening[p]

\* Nothing that waits is forgotten, neither a read for its slot nor a card for its
\* read.
NothingForgotten == SlotsAccountedFor /\ LoadingIsListening

\* A programme that the directory lists shows its state or an error in the end:
\* "results settle per programme so a directory fills in card by card"
\* (useProgrammeReads.ts:15).
CardsSettle ==
  \A p \in Programmes : p \in wanted ~> (p \notin wanted \/ p \in completed \cup errors)

------------------------------------------------------------------------------

\* A screen reads from a linked programme only if the registry deployed it,
\* whatever links were followed while verifications were in flight.
LinkedIsRegistered ==
  (consuming /\ param # NoParam /\ ReadsEnabled) =>
     ShownProgramme = param /\ param \in Registered
==============================================================================
