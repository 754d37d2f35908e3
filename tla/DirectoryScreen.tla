--------------------------- MODULE DirectoryScreen ---------------------------
(***************************************************************************)
(* The directory of programmes (frontend/src/pages/ProgrammeDirectory.tsx, *)
(* frontend/src/lib/programmeView.ts): the published index, the walk of    *)
(* the registry and the samples make one list, each entry of which shows   *)
(* what was read of it.  How the reads queue is SessionReads.              *)
(***************************************************************************)
EXTENDS Screen, Integers

CONSTANTS
  Indexed,        \* the published index: a sequence of ids, perhaps with a repetition
  Registered,     \* the registry's programmes, in order
  Sampled,        \* the sample programmes
  StandIn,        \* what stands for an entry that is not read: [phase, contributed, fee, closes]
  ChainReads,     \* what a read of an id finds: [phase, budget, feeBps, closes]
  Unread,         \* a part of a read that did not come
  CreatedAt,      \* the ledger the index gives for an id
  Matching        \* the ids that match a search

\* The three are lists, and what is counted in a read is a number if it came; of what
\* the index names, it has the ledger.
ASSUME DirectoryAssumption ==
  /\ \A ids \in {Indexed, Registered, Sampled} : ids \in Seq(ToSet(ids))
  /\ \A id \in ToSet(Indexed) \cup ToSet(Sampled) : CreatedAt[id] \in Int
  /\ {StandIn.contributed, StandIn.fee, StandIn.closes} \subseteq Int
  /\ {"phase", "contributed", "fee", "closes"} \subseteq DOMAIN StandIn
  /\ \A id \in ToSet(Indexed) \cup ToSet(Registered) :
       LET read == ChainReads[id]
       IN {read.budget, read.feeBps} \subseteq Int \cup {Unread} /\ read.closes \in Int

DIRECTORY_PHASES == {"All", "Open", "Review", "Settled", "Cancelled"}
DIRECTORY_SORTS == {"newest", "closing-soonest", "largest-budget"}

------------------------------------------------------------------------------
(* The list *)

\* The demo programme is real even where it is listed as a sample.
IsSampleProgrammeId(id) == id \in ToSet(Sampled) /\ id \notin ToSet(Registered)

Entry(id, source) ==
  [id |-> id, source |-> source, real |-> FALSE, chain |-> StandIn,
   sample |-> source = "sample" /\ IsSampleProgrammeId(id),
   created |-> IF source = "registry" THEN -1 ELSE CreatedAt[id]]

\* An id comes once, from the first of the three that has it.
MutAddEntries(list, ids, source) == list \o [i \in DOMAIN ids |-> Entry(ids[i], source)]

AddEntries(list, ids, source) ==
  FoldLeft(LAMBDA all, id : IF \E i \in DOMAIN all : all[i].id = id THEN all
                            ELSE Append(all, Entry(id, source)),
           list, ids)
MergeProgrammes(index, registry, samples) ==
  AddEntries(AddEntries(AddEntries(<<>>, index, "index"), registry, "registry"), samples, "sample")

\* What was contributed is derived from the budget, rounded up.
FEE_DENOMINATOR == 10000
DeriveFee(budget, feeBps) ==
  LET rate == FEE_DENOMINATOR - feeBps
  IN IF rate <= 0 THEN 0 ELSE ((budget * FEE_DENOMINATOR + rate - 1) \div rate) - budget

HasChain(read) == read.phase # Unread /\ read.budget # Unread
ChainFromRead(read) ==
  LET fee == IF read.feeBps = Unread THEN 0 ELSE DeriveFee(read.budget, read.feeBps)
  IN [phase |-> read.phase, contributed |-> read.budget + fee, fee |-> fee,
      closes |-> IF read.phase = "Open" THEN read.closes ELSE 0]

\* The entries whose read has landed, with a phase and a budget, get its figures.
HydrateRealProgrammes(list, landed) ==
  [i \in DOMAIN list |->
     IF list[i].sample \/ list[i].id \notin landed \/ ~HasChain(ChainReads[list[i].id]) THEN list[i]
     ELSE [list[i] EXCEPT !.chain = ChainFromRead(ChainReads[list[i].id]), !.real = TRUE]]

MatchesQuery(entry, query) == query = NoAddress \/ entry.id \in Matching[query]
\* The wanted entries of a list, in its order.
Selected(list, wanted) ==
  FoldLeft(LAMBDA kept, entry : IF entry \in wanted THEN Append(kept, entry) ELSE kept,
           <<>>, list)
FilterProgrammes(list, query, phase) ==
  Selected(list, {entry \in ToSet(list) : MatchesQuery(entry, query)
                                          /\ (phase = "All" \/ entry.chain.phase = phase)})
PhaseCounts(list, query) ==
  [phase \in DIRECTORY_PHASES |-> Len(FilterProgrammes(list, query, phase))]

\* Whether `left` comes before `right`; what does not close closes last.
BudgetShown(entry) == entry.chain.contributed - entry.chain.fee
Newer(left, right) == left.created > right.created
Closing(left, right) ==
  LET close(entry) == IF entry.chain.closes = 0 THEN 1000 ELSE entry.chain.closes
  IN close(left) < close(right) \/ (close(left) = close(right) /\ Newer(left, right))
Larger(left, right) ==
  \/ BudgetShown(left) > BudgetShown(right)
  \/ BudgetShown(left) = BudgetShown(right) /\ Newer(left, right)
Precedes(left, right, sort) ==
  CASE sort = "newest" -> Newer(left, right)
    [] sort = "closing-soonest" -> Closing(left, right)
    [] sort = "largest-budget" -> Larger(left, right)

\* An entry is put behind those it does not precede: a stable sort.
SortProgrammes(list, sort) ==
  FoldLeft(LAMBDA sorted, entry :
             LET behind == {i \in DOMAIN sorted : Precedes(entry, sorted[i], sort)}
                 at == IF behind = {} THEN Len(sorted) + 1
                       ELSE CHOOSE i \in behind : \A j \in behind : i <= j
             IN InsertAt(sorted, at, entry),
           <<>>, list)

------------------------------------------------------------------------------
(* The page *)

\* The filters are in the address of the page, which is opened with any.
DirectoryInit ==
  \E query \in DOMAIN Matching \cup {NoAddress} :
    screen = [is |-> "directory", query |-> query, phase |-> "All", sort |-> "newest",
              samples |-> FALSE, index |-> "loading", registry |-> "loading",
              waiting |-> {id \in ToSet(Sampled) : ~IsSampleProgrammeId(id)},
              landed |-> {}, failed |-> {}, announced |-> <<query, "All", "newest">>]
AtDirectory == screen.is = "directory"

IndexList(page) == IF page.index = "read" THEN Indexed ELSE <<>>
HasReal(page) == IndexList(page) # <<>>
ShowSamples(page) == IF HasReal(page) THEN page.samples ELSE TRUE
DirectoryAll(page) ==
  MergeProgrammes(IndexList(page), IF page.registry = "read" THEN Registered ELSE <<>>,
                  IF ShowSamples(page) THEN Sampled ELSE <<>>)
RealIds(page) ==
  LET all == DirectoryAll(page)
      real == Selected(all, {entry \in ToSet(all) : ~entry.sample})
  IN [i \in DOMAIN real |-> real[i].id]
Hydrated == HydrateRealProgrammes(DirectoryAll(screen), screen.landed)
DirectoryLoading == screen.index = "loading"
CardsShown ==
  IF DirectoryLoading THEN <<>>
  ELSE SortProgrammes(FilterProgrammes(Hydrated, screen.query, screen.phase), screen.sort)

\* Every id of a new list that has not been read is read, those that failed again.
ListsProgrammes(page) ==
  Show(IF RealIds(page) = RealIds(screen) THEN page
       ELSE [page EXCEPT !.waiting = ToSet(RealIds(page)) \ page.landed])

IndexAnswers ==
  /\ AtDirectory /\ screen.index = "loading"
  /\ \E index \in {"read", "failed"} : ListsProgrammes([screen EXCEPT !.index = index])
RegistryAnswers ==
  /\ AtDirectory /\ screen.registry = "loading"
  /\ \E registry \in {"read", "failed"} : ListsProgrammes([screen EXCEPT !.registry = registry])
\* "Try again" reads the index and the registry again; what was read stays.
RetryDirectory ==
  /\ AtDirectory /\ screen.index = "failed"
  /\ Show([screen EXCEPT !.index = "loading", !.registry = IF @ = "read" THEN @ ELSE "loading"])
ReadLands(id) ==
  /\ AtDirectory /\ id \in screen.waiting
  /\ \/ Show([screen EXCEPT !.waiting = @ \ {id}, !.landed = @ \cup {id}, !.failed = @ \ {id}])
     \/ Show([screen EXCEPT !.waiting = @ \ {id}, !.failed = @ \cup {id}])

SetFilters(query, phase, sort) ==
  /\ AtDirectory /\ Click
  /\ \/ screen.query # query /\ screen' = [screen EXCEPT !.query = query]
     \/ screen.phase # phase /\ screen' = [screen EXCEPT !.phase = phase]
     \/ screen.sort # sort /\ screen' = [screen EXCEPT !.sort = sort]
  /\ UNCHANGED <<me, ledger>>
ToggleSamples ==
  AtDirectory /\ HasReal(screen) /\ ListsProgrammes([screen EXCEPT !.samples = ~@])
ClearFilters ==
  /\ AtDirectory /\ ~DirectoryLoading /\ CardsShown = <<>>
  /\ Show([screen EXCEPT !.query = NoAddress, !.phase = "All"])

\* The number of matches is said once for each change of a filter, and not before
\* the index is there.
FilterKey == <<screen.query, screen.phase, screen.sort>>
AnnounceCount ==
  /\ AtDirectory /\ ~DirectoryLoading /\ screen.announced # FilterKey
  /\ Show([screen EXCEPT !.announced = FilterKey])

\* What a card shows: its figures only where they were read.
Card(entry) ==
  [id |-> entry.id, tag |-> IF entry.id \in screen.failed THEN "Chain read failed"
                            ELSE IF entry.sample THEN "Sample data"
                            ELSE IF ~entry.real THEN "Reading the chain"
                            ELSE IF entry.source = "registry" THEN "Not in the index yet"
                            ELSE "Live on chain",
   phase |-> IF ~entry.sample /\ ~entry.real THEN "Reading" ELSE entry.chain.phase,
   budget |-> IF ~entry.sample /\ ~entry.real THEN Unread ELSE BudgetShown(entry)]

DirectoryNext ==
  \/ IndexAnswers \/ RegistryAnswers \/ RetryDirectory \/ ToggleSamples \/ ClearFilters
  \/ AnnounceCount
  \/ \E id \in ToSet(Indexed \o Registered) : ReadLands(id)
  \/ \E query \in DOMAIN Matching, phase \in {"Open", "Settled"}, sort \in DIRECTORY_SORTS :
       SetFilters(query, phase, sort)

------------------------------------------------------------------------------
(* Properties *)

\* Whatever came, and in whatever order: no programme has two cards, each that the
\* index or the registry gave has one unless it is filtered out, and the figures on
\* a card of a real programme are what the chain said of it.
DirectoryIsHonest ==
  AtDirectory =>
    LET all == Hydrated
        cards == CardsShown
    IN /\ \A i, j \in DOMAIN all : all[i].id = all[j].id => i = j
       /\ screen.index = "read" => ToSet(Indexed) \subseteq ToSet(RealIds(screen))
       /\ screen.registry = "read" => ToSet(Registered) \subseteq ToSet(RealIds(screen))
       /\ \A i \in DOMAIN cards :
            LET card == Card(cards[i])
            IN card.tag \in {"Live on chain", "Not in the index yet"} =>
                 /\ card.id \in screen.landed
                 /\ card.phase = ChainReads[card.id].phase
                 /\ card.budget = ChainReads[card.id].budget
       /\ \A i, j \in DOMAIN cards : i < j => ~Precedes(cards[j], cards[i], screen.sort)
=============================================================================
