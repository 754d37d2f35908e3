---------------------------- MODULE SessionReads ----------------------------
(***************************************************************************)
(* The reader that all per-programme screens share                         *)
(* (frontend/src/lib/programmeReads.ts): a session cache with one promise  *)
(* per key, at most MAX_CONCURRENT reads admitted at a time and a queue    *)
(* behind them; and the hook that fills a directory card by card from it   *)
(* (useProgrammeChainReads in frontend/src/hooks/useProgrammeReads.ts).    *)
(*                                                                         *)
(* A composite read (a programme's chain state, the walk of the registry)  *)
(* is itself admitted, and keeps its slot while it waits for reads that    *)
(* are admitted one by one.                                                *)
(***************************************************************************)
EXTENDS Naturals, Sequences, FiniteSets, SequencesExt

CONSTANTS
  Programmes,        \* contract ids that a directory may list
  AnchorReads,       \* what a card needs: <<"get_phase", "budget">> in the code
  FigureReads,       \* what it can do without: the four totals and get_config
  WalkLength,        \* registry.nonce(): how many programmes there are to walk
  MAX_CONCURRENT

ASSUME SessionAssumption ==
  /\ IsFiniteSet(Programmes) /\ "registry" \notin Programmes
  /\ AnchorReads \in Seq(STRING) /\ FigureReads \in Seq(STRING)
  /\ "chain" \notin ToSet(AnchorReads) \cup ToSet(FigureReads)
  /\ ToSet(AnchorReads) \cap ToSet(FigureReads) = {}
  /\ WalkLength \in Nat /\ MAX_CONCURRENT \in Nat

\* A key of the cache: what is read, and of which programme or nonce.
Key(of, read, nonce) == [of |-> of, read |-> read, nonce |-> nonce]
ChainKey(p) == Key(p, "chain", 0)
ChainKeys(ids) == [i \in DOMAIN ids |-> ChainKey(ids[i])]
WalkKey == Key("registry", "programmes", 0)
WalkSteps ==
  [i \in 1 .. 2 * WalkLength |->
     Key("registry", IF i % 2 = 1 THEN "programme_address" ELSE "is_programme", (i + 1) \div 2)]
Reads(p, names) == [i \in DOMAIN names |-> Key(p, names[i], 0)]

Composites == {ChainKey(p) : p \in Programmes} \cup {WalkKey}

\* What a composite reads one after the other, failing with the first that
\* fails, and what it then reads at once, tolerating failures.
Required(k) == IF k = WalkKey THEN WalkSteps ELSE Reads(k.of, AnchorReads)
Optional(k) == IF k = WalkKey THEN <<>> ELSE Reads(k.of, FigureReads)

Leaves(k) == ToSet(Required(k)) \cup ToSet(Optional(k))
Keys == Composites \cup UNION {Leaves(k) : k \in Composites}
ParentOf(leaf) == IF leaf.of = "registry" THEN WalkKey ELSE ChainKey(leaf.of)

VARIABLES
  pool,       \* [read, inFlight, queued]: the module's cache, counter and queue
  awaiting,   \* for a composite: the leaves its body waits for
  holes,      \* for a composite: the optional reads that became null in its value
  wanted,     \* the ids the directory asks for
  completed,  \* completedIds, with the reads shown for them
  loading, errors,
  listening   \* whether the current effect listens to a promise for an id

poolVars == <<pool, awaiting, holes>>
cardVars == <<wanted, completed, loading, errors, listening>>
sessionVars == <<pool, awaiting, holes, wanted, completed, loading, errors, listening>>

------------------------------------------------------------------------------
(* sessionRead and admitted, on the pool *)

\* A key is read once: later callers share the promise in `settled`, pending or
\* resolved.  A first caller is admitted if there is a slot, or queued.
SessionRead(p, k) ==
  IF p.read[k] # "absent" THEN p
  ELSE IF p.inFlight < MAX_CONCURRENT
       THEN [p EXCEPT !.read[k] = "admitted", !.inFlight = @ + 1]
       ELSE [p EXCEPT !.read[k] = "queued", !.queued = Append(@, k)]

MutLeave(p, k, state) ==
  LET left == [p EXCEPT !.read[k] = state, !.inFlight = @ - 1]
  IN IF p.queued = <<>> \/ state = "absent" THEN left
     ELSE [left EXCEPT !.read[Head(p.queued)] = "admitted",
                       !.inFlight = @ + 1, !.queued = Tail(@)]

\* The end of an admitted task: its slot goes to the head of the queue.  A value
\* stays in the cache; a failure is removed from it.
Leave(p, k, state) ==
  LET left == [p EXCEPT !.read[k] = state, !.inFlight = @ - 1]
  IN IF p.queued = <<>> THEN left
     ELSE [left EXCEPT !.read[Head(p.queued)] = "admitted",
                       !.inFlight = @ + 1, !.queued = Tail(@)]

\* Several at once, in their order.
ReadAll(p, keys) == FoldLeft(SessionRead, p, keys)

------------------------------------------------------------------------------
(* The bodies of the composite reads *)

\* readProgrammeChain and readRegistryProgrammes go on: to the next required
\* read, then to the optional ones, then to the end.  What an earlier attempt
\* left in the cache is not waited for.
Continue(p, k) ==
  LET first == SelectInSeq(Required(k), LAMBDA leaf : p.read[leaf] # "done")
      next == IF first # 0 THEN <<Required(k)[first]>> ELSE Optional(k)
      waits == {leaf \in ToSet(next) : p.read[leaf] # "done"}
  IN /\ pool' = IF waits = {} THEN Leave(p, k, "done") ELSE ReadAll(p, next)
     /\ awaiting' = [awaiting EXCEPT ![k] = waits]

\* The card that listens to a composite when it fails shows the error.
CardFails(k) ==
  LET told == {p \in Programmes : k = ChainKey(p) /\ listening[p]}
  IN /\ errors' = errors \cup told
     /\ loading' = loading \ told
     /\ listening' = [p \in Programmes |-> listening[p] /\ p \notin told]
     /\ UNCHANGED <<wanted, completed>>

\* A walk starts with registry.nonce(), read without a slot of its own.
Begin(k) ==
  /\ k \in Composites /\ pool.read[k] = "admitted" /\ awaiting[k] = {}
  /\ \/ Continue(pool, k)
     \/ k = WalkKey /\ pool' = Leave(pool, k, "absent") /\ UNCHANGED awaiting
  /\ holes' = [holes EXCEPT ![k] = {}]
  /\ UNCHANGED cardVars

\* A leaf's simulation answers.
LeafAnswers(leaf) ==
  /\ leaf \notin Composites /\ pool.read[leaf] = "admitted"
  /\ LET k == ParentOf(leaf)
         left == Leave(pool, leaf, "done")
     IN IF awaiting[k] = {leaf}
        THEN IF leaf \in ToSet(Optional(k))
             THEN pool' = Leave(left, k, "done") /\ awaiting' = [awaiting EXCEPT ![k] = {}]
             ELSE Continue(left, k)
        ELSE pool' = left /\ awaiting' = [awaiting EXCEPT ![k] = @ \ {leaf}]
  /\ UNCHANGED <<holes, cardVars>>

\* It fails.  A required read fails its composite, an optional one becomes null
\* in the composite's value, which then stays in the cache like any other.
LeafFails(leaf) ==
  /\ leaf \notin Composites /\ pool.read[leaf] = "admitted"
  /\ LET k == ParentOf(leaf)
         left == Leave(pool, leaf, "absent")
     IN IF leaf \in ToSet(Optional(k))
        THEN /\ pool' = IF awaiting[k] = {leaf} THEN Leave(left, k, "done") ELSE left
             /\ awaiting' = [awaiting EXCEPT ![k] = @ \ {leaf}]
             /\ holes' = [holes EXCEPT ![k] = @ \cup {leaf}]
             /\ UNCHANGED cardVars
        ELSE /\ pool' = Leave(left, k, "absent")
             /\ awaiting' = [awaiting EXCEPT ![k] = {}]
             /\ UNCHANGED holes
             /\ CardFails(k)

------------------------------------------------------------------------------
(* useProgrammeChainReads *)

SessionInit ==
  /\ pool = [read |-> [k \in Keys |-> "absent"], inFlight |-> 0, queued |-> <<>>]
  /\ awaiting = [k \in Composites |-> {}]
  /\ holes = [k \in Composites |-> {}]
  /\ wanted = {} /\ completed = {} /\ loading = {} /\ errors = {}
  /\ listening = [p \in Programmes |-> FALSE]

MutRunReads(ids) ==
  LET pending == ids \ (completed \cup loading)
  IN /\ pool' = ReadAll(pool, ChainKeys(SetToSeq(pending)))
     /\ loading' = loading \cup pending
     /\ listening' = [p \in Programmes |-> p \in pending]
     /\ UNCHANGED <<awaiting, holes, completed, errors>>

\* A run of the effect: ids not completed yet are marked as loading and read, one
\* after the other; what an earlier run listened to is cancelled.
RunReads(ids) ==
  LET pending == ids \ completed
  IN /\ pool' = ReadAll(pool, ChainKeys(SetToSeq(pending)))
     /\ loading' = loading \cup pending
     /\ listening' = [p \in Programmes |-> p \in pending]
     /\ UNCHANGED <<awaiting, holes, completed, errors>>

\* The directory's list changes: the index arrives, or the registry's walk does.
Want(ids) ==
  /\ ids # wanted
  /\ wanted' = ids
  /\ RunReads(ids)

\* "Try again" on a card that failed.
Retry ==
  /\ wanted \cap errors # {}
  /\ UNCHANGED wanted
  /\ RunReads(wanted)

\* useRegistryProgrammes asks for the walk.
WalkRegistry ==
  /\ pool.read[WalkKey] = "absent"
  /\ pool' = SessionRead(pool, WalkKey)
  /\ UNCHANGED <<awaiting, holes, cardVars>>

\* The promise a card listens to resolves, from the network or from the cache.
CardRead(p) ==
  /\ listening[p] /\ pool.read[ChainKey(p)] = "done"
  /\ completed' = completed \cup {p}
  /\ errors' = errors \ {p}
  /\ loading' = loading \ {p}
  /\ listening' = [listening EXCEPT ![p] = FALSE]
  /\ UNCHANGED <<poolVars, wanted>>

\* What runs by itself once something asked for it.
ReadStep(k) == Begin(k) \/ LeafAnswers(k) \/ LeafFails(k)

SessionNext ==
  \/ \E ids \in SUBSET Programmes : Want(ids)
  \/ Retry \/ WalkRegistry
  \/ \E k \in Keys : ReadStep(k)
  \/ \E p \in Programmes : CardRead(p)

SessionSpec == SessionInit /\ [][SessionNext]_sessionVars

\* Each simulation answers or fails, and promises run their continuations.
SessionFairness ==
  /\ \A k \in Composites : WF_sessionVars(\E leaf \in {k} \cup Leaves(k) : ReadStep(leaf))
  /\ \A p \in Programmes : WF_sessionVars(CardRead(p))
==============================================================================
