---------------------------- MODULE ListScreens ----------------------------
(***************************************************************************)
(* The lists that are put together from a read of each programme:          *)
(* a recipient's awards and applications (useRecipientAwards and           *)
(* useRecipientApplications in frontend/src/hooks), the programmes open to *)
(* applications (useOpenProgrammes), and one row of a programme's awards   *)
(* (frontend/src/components/programme/AwardsTab.tsx), where the index says *)
(* one thing and the chain another.                                        *)
(*                                                                         *)
(* The reads are useIndexedList and useContractRead; that only the newest  *)
(* read writes is ReadHooks, and here a new read takes the place of the    *)
(* one under way.  What a programme holds of an account is a number that   *)
(* grows: nothing, then an entry, then an entry that moved on.  The stand- *)
(* ins of sample programmes are in every list that was read, and left out. *)
(***************************************************************************)
EXTENDS Screen

CONSTANTS
  Demo,           \* real programmes that are listed without the index
  Detailed,       \* those whose entry takes a second read: escrow, or config and phase
  MaxEntry,       \* bound on what a programme holds
  Awardees        \* who has the award of each programme: functions on Programmes

ASSUME DemoAssumption == Demo \subseteq Programmes

Held == [p \in Programmes |-> 0]
NoList == [for |-> NoAddress, over |-> {}, since |-> Held, until |-> Held, rows |-> {}]
NoRead == [for |-> NoAddress, over |-> {}, since |-> Held, got |-> <<>>]

\* Before the first effect.
NoDeps == [for |-> NoAddress, over |-> {}]

------------------------------------------------------------------------------
(* Lists over the programmes *)

ListInit ==
  \E kind \in {"mine", "open"} :
    screen = [is |-> "list", kind |-> kind, entry |-> [p \in Programmes |-> 0],
              listed |-> Demo, indexing |-> TRUE, indexed |-> FALSE, renewed |-> FALSE,
              deps |-> NoDeps, read |-> NoRead, shown |-> NoList, loaded |-> FALSE, error |-> FALSE]
AtList == screen.is = "list"

\* Whose entries are asked for; phases are read without an account.  Only the
\* creator's account has entries in the model.
Reader == IF screen.kind = "open" THEN Creator ELSE me
EntryOf(account, p) == IF account = Creator THEN screen.entry[p] ELSE 0
Entries(account) == [p \in Programmes |-> EntryOf(account, p)]

\* An account's entry in a programme; a programme that is Open.
IsEntry(v) == IF screen.kind = "open" THEN v = 0 ELSE v > 0

FreshRead(deps) ==
  [for |-> deps.for, over |-> deps.over, since |-> Entries(deps.for),
   got |-> [p \in deps.over |-> [state |-> "asked", first |-> 0, second |-> 0]]]
Unfinished(read) == {p \in read.over : read.got[p].state \in {"asked", "more"}}
Reading == screen.read # NoRead

\* A programme awards, releases or leaves its Open phase.
EntryMoves(p) ==
  /\ AtList /\ screen.entry[p] < MaxEntry /\ Click
  /\ screen' = [screen EXCEPT !.entry[p] = @ + 1]
  /\ UNCHANGED <<me, ledger>>

\* The index's list is a new value whatever is on it, so what depends on it is
\* read again.  A failure leaves the list as it was.
ListIndexAnswers ==
  /\ AtList /\ screen.indexing
  /\ \/ \E published \in SUBSET Programmes :
          Show([screen EXCEPT !.indexing = FALSE, !.indexed = TRUE,
                              !.listed = Demo \cup published, !.renewed = TRUE])
     \/ Show([screen EXCEPT !.indexing = FALSE, !.indexed = TRUE])

\* The effect of the read, after a render with another account or another list.
Deps == [for |-> Reader, over |-> screen.listed]
EffectDue == screen.deps # Deps \/ screen.renewed
ListEffect ==
  /\ AtList /\ EffectDue
  /\ Show([screen EXCEPT !.deps = Deps, !.renewed = FALSE,
                         !.read = IF Reader = NoAddress THEN @ ELSE FreshRead(Deps)])

\* readAward, readApplication and readIfOpen ask one programme each, all at once.
\* That there is nothing is an answer.
EntryAnswers(p) ==
  /\ AtList /\ screen.read.for # NoAddress
  /\ p \in screen.read.over /\ screen.read.got[p].state = "asked"
  /\ LET v == EntryOf(screen.read.for, p)
         state == IF ~IsEntry(v) THEN "none"
                  ELSE IF screen.kind = "mine" /\ p \in Detailed THEN "more" ELSE "entry"
     IN Show([screen EXCEPT !.read.got[p] = [state |-> state, first |-> v, second |-> v]])
DetailAnswers(p) ==
  /\ AtList /\ p \in screen.read.over /\ screen.read.got[p].state = "more"
  /\ Show([screen EXCEPT !.read.got[p] =
             [@ EXCEPT !.state = "entry", !.second = EntryOf(screen.read.for, p)]])

MutEntryFails(p) ==
  /\ AtList /\ p \in Unfinished(screen.read)
  /\ Show([screen EXCEPT !.read.got[p].state = "none"])

\* Anything else that a programme answers fails the whole list: a programme that
\* could not be read must not look like one with no entry.  A call without an
\* account fails before it is sent.
EntryFails(p) ==
  /\ AtList /\ p \in Unfinished(screen.read)
  /\ Show([screen EXCEPT !.read = NoRead, !.loaded = TRUE, !.error = TRUE])

ListSettles ==
  /\ AtList /\ Reading /\ Unfinished(screen.read) = {}
  /\ LET read == screen.read
         rows == {[p |-> p, first |-> read.got[p].first, second |-> read.got[p].second] :
                    p \in {q \in read.over : read.got[q].state = "entry"}}
     IN Show([screen EXCEPT !.read = NoRead, !.loaded = TRUE,
                !.shown = [for |-> read.for, over |-> read.over, since |-> read.since,
                           until |-> Entries(read.for), rows |-> rows]])

\* A refetch calls with what the last effect saw.  It clears the error, but not that
\* something was loaded.
Refetched(page) == [page EXCEPT !.read = FreshRead(page.deps), !.error = FALSE]

\* A write anywhere in the app was confirmed: the recipient's lists are read again.
ListTransactionSuccess ==
  AtList /\ screen.kind = "mine" /\ screen.deps # NoDeps /\ Show(Refetched(screen))

\* The answer for another list of programmes no longer counts.
PhasesCurrent == screen.shown # NoList /\ screen.shown.over = screen.listed

ListLoading ==
  IF screen.kind = "open" THEN ~screen.indexed \/ (~PhasesCurrent /\ ~screen.error)
  ELSE me # NoAddress /\ (~screen.loaded \/ ~screen.indexed)
ListView ==
  IF screen.kind = "mine" /\ ~screen.error /\ screen.shown # NoList THEN "entries"
  ELSE IF ListLoading THEN "loading"
  ELSE IF screen.error /\ Reader # NoAddress THEN "error"
  ELSE IF screen.kind = "open" THEN "entries" ELSE "empty"
EntriesShown == screen.shown.rows

\* "Try again" reads the index and the programmes again.
RetryList ==
  AtList /\ ListView = "error" /\ Show([Refetched(screen) EXCEPT !.indexing = TRUE])

ListNext ==
  \/ ListIndexAnswers \/ ListEffect \/ ListSettles \/ ListTransactionSuccess \/ RetryList
  \/ \E p \in Programmes : EntryMoves(p) \/ EntryAnswers(p) \/ DetailAnswers(p) \/ EntryFails(p)

------------------------------------------------------------------------------
(* A row of AwardsTab *)

NoRow == [recipient |-> NoAddress, of |-> NoAddress, reading |-> FALSE, loaded |-> FALSE,
          error |-> FALSE, data |-> [of |-> NoAddress, at |-> 0]]

\* `list` is the row the index gave, and of which programme; `asked` is the
\* programme whose list was asked for last.
AwardsInit ==
  \E awardee \in Awardees :
    screen = [is |-> "awards", awardee |-> awardee, entry |-> [p \in Programmes |-> 1],
              programme |-> CHOOSE p \in Programmes : TRUE, asked |-> NoAddress,
              pending |-> FALSE, error |-> FALSE, list |-> [of |-> NoAddress, at |-> 0],
              row |-> NoRow]
AtAwards == screen.is = "awards"
Row == screen.row

AwardMoves(p) ==
  /\ AtAwards /\ screen.entry[p] < MaxEntry
  /\ Show([screen EXCEPT !.entry[p] = @ + 1])
OpenAwards(p) ==
  AtAwards /\ screen.programme # p /\ Show([screen EXCEPT !.programme = p])
AwardsEffect ==
  /\ AtAwards /\ screen.asked # screen.programme
  /\ Show([screen EXCEPT !.asked = screen.programme, !.pending = TRUE])

\* The index is as old as it is.  A row is the same component as one before it
\* that stood in its place with the same recipient; a list that failed has no rows.
RowFor(recipient) ==
  IF Row.recipient = recipient THEN Row ELSE [NoRow EXCEPT !.recipient = recipient]
AwardsAnswer ==
  /\ AtAwards /\ screen.pending
  /\ \E v \in 0 .. screen.entry[screen.asked] :
       Show([screen EXCEPT !.pending = FALSE, !.error = FALSE,
               !.list = [of |-> screen.asked, at |-> v],
               !.row = IF v = 0 THEN NoRow ELSE RowFor(screen.awardee[screen.asked])])
AwardsFail ==
  /\ AtAwards /\ screen.pending
  /\ Show([screen EXCEPT !.pending = FALSE, !.error = TRUE, !.row = NoRow])

MutRowEffect ==
  /\ AtAwards /\ Row # NoRow /\ Row.of # screen.programme
  /\ Show([screen EXCEPT !.row.of = screen.programme, !.row.reading = ~Row.loaded])

\* get_award of the programme on the page, for the recipient of the row.
RowEffect ==
  /\ AtAwards /\ Row # NoRow /\ Row.of # screen.programme
  /\ Show([screen EXCEPT !.row.of = screen.programme, !.row.reading = TRUE])
RowAnswers ==
  /\ AtAwards /\ Row.reading
  /\ LET row == [Row EXCEPT !.reading = FALSE, !.loaded = TRUE]
         data == [of |-> Row.of, at |-> screen.entry[Row.of]]
     IN \/ /\ screen.awardee[Row.of] = Row.recipient
           /\ Show([screen EXCEPT !.row = [row EXCEPT !.data = data]])
        \/ Show([screen EXCEPT !.row = [row EXCEPT !.error = TRUE]])

ChainSuccess == Row.loaded /\ ~Row.error /\ Row.data.of # NoAddress
ChainFailed == Row.loaded /\ Row.error
\* What the row shows; the index's figures are called advisory if the read failed.
RowFigures == IF ChainSuccess THEN Row.data ELSE screen.list

AwardsNext ==
  \/ AwardsEffect \/ AwardsAnswer \/ AwardsFail \/ RowEffect \/ RowAnswers
  \/ \E p \in Programmes : AwardMoves(p) \/ OpenAwards(p)

------------------------------------------------------------------------------
(* Properties *)

\* A list that is shown is whole, though its programmes were asked one by one
\* while they moved, accounts changed and the index came: a programme it was read
\* over is missing only if there was nothing to list at some moment of the read,
\* and an entry is what its programme held then, the second part not before the
\* first.  Once nothing is asked any more it is the list of the account and of
\* the programmes that the page is about; open programmes are only ever that.
ListIsWhole ==
  AtList /\ ListView = "entries" =>
    LET list == screen.shown
        rowOf(p) == {row \in list.rows : row.p = p}
        settled == ~Reading /\ ~EffectDue /\ Reader # NoAddress
    IN /\ \A p \in list.over :
            /\ rowOf(p) = {} =>
                 \E v \in list.since[p] .. list.until[p] : ~IsEntry(v)
            /\ \A row \in rowOf(p) :
                 /\ IsEntry(row.first)
                 /\ list.since[p] <= row.first /\ row.first <= row.second
                 /\ row.second <= list.until[p]
       /\ settled => list.for = Reader
       /\ settled \/ screen.kind = "open" => list.over = screen.listed

\* A row of a programme's awards that is neither being read nor called advisory
\* shows what the chain holds of the award in that very programme, also when the
\* row was there before with the award of another one.
RowIsOfProgramme ==
  AtAwards /\ Row # NoRow /\ Row.of = screen.programme /\ ~Row.reading /\ ~ChainFailed =>
    /\ RowFigures.of = screen.programme
    /\ RowFigures.at \in 1 .. screen.entry[screen.programme]
=============================================================================
