---------------------------- MODULE DetailScreen ----------------------------
(***************************************************************************)
(* The page of one programme (frontend/src/pages/ProgrammeDetail.tsx): its *)
(* configuration and its figures, each a read of its own, the timeline,    *)
(* and the metadata document, which is fetched from wherever a person says *)
(* and shown if it is what the programme committed to.  What the page      *)
(* offers to do is Offers.                                                 *)
(***************************************************************************)
EXTENDS Screen

CONSTANTS
  Responses,      \* of each URL, what a fetch of it may bring: [kind, doc]
  NoDoc,          \* the document of a response that holds none
  Committed,      \* of each programme, the metadata hash
  Deadlines,      \* of each programme, its four deadlines
  MoneyReads,     \* the reads that make the money panel
  PageEnd         \* bound on the minutes that the page is open

\* A document says something, and the deadlines come in the order that the contract
\* holds them to.
ASSUME DetailAssumption ==
  /\ \A url \in DOMAIN Responses : \A response \in Responses[url] :
       /\ response.kind \in {"document", "malformed", "unavailable"}
       /\ response.kind = "document" => {"says", "keys", "links"} \subseteq DOMAIN response.doc
  /\ \A p \in Programmes :
       /\ Deadlines[p] \in [1 .. 4 -> Nat]
       /\ \A i, j \in 1 .. 4 : i <= j => Deadlines[p][i] <= Deadlines[p][j]

NoState == [kind |-> "idle", doc |-> NoDoc, of |-> NoAddress]

\* `config` and `money` hold of which programme the data is: it stays while that
\* of another programme is read.  `apart` keeps whether a document that is shown or
\* fetched may be of another programme than the page's.
DetailInit ==
  \E p \in Programmes :
    screen = [is |-> "detail", programme |-> p, config |-> NoAddress, configFailed |-> FALSE,
              money |-> [read \in MoneyReads |-> NoAddress], moneyFailed |-> {},
              now |-> 0, url |-> NoAddress, state |-> NoState, fetches |-> {}, apart |-> FALSE]
AtDetail == screen.is = "detail"

\* Another programme in the same tab: the page is not made anew.
OpenDetail(p) ==
  /\ AtDetail /\ screen.programme # p
  /\ Show([screen EXCEPT !.programme = p, !.apart = screen.state # NoState \/ screen.fetches # {}])

ConfigShown == AtDetail /\ screen.config # NoAddress /\ ~screen.configFailed
DetailConfigRead ==
  /\ AtDetail /\ screen.config # screen.programme /\ ~screen.configFailed
  /\ Show([screen EXCEPT !.config = screen.programme])
\* The cards that show the configuration give way to its error; a fetch that
\* one of them made has nobody to tell.
ConfigFails ==
  /\ AtDetail /\ screen.config # screen.programme /\ ~screen.configFailed
  /\ Show([screen EXCEPT !.configFailed = TRUE, !.url = NoAddress, !.state = NoState,
                         !.fetches = {}])
RetryConfig == AtDetail /\ screen.configFailed /\ Show([screen EXCEPT !.configFailed = FALSE])

------------------------------------------------------------------------------
(* The figures *)

MoneyAnswers(read) ==
  /\ AtDetail /\ screen.money[read] # screen.programme /\ read \notin screen.moneyFailed
  /\ \/ Show([screen EXCEPT !.money[read] = screen.programme])
     \/ Show([screen EXCEPT !.moneyFailed = @ \cup {read}])

MoneyLoading ==
  \E read \in MoneyReads : screen.money[read] = NoAddress /\ read \notin screen.moneyFailed
FiguresShown ==
  /\ AtDetail /\ ~MoneyLoading /\ screen.moneyFailed = {}
  /\ \A read \in MoneyReads : screen.money[read] # NoAddress
\* "Try again" reads all of them again.
RefetchMoney ==
  /\ AtDetail /\ ~MoneyLoading /\ screen.moneyFailed # {}
  /\ Show([screen EXCEPT !.moneyFailed = {}])

------------------------------------------------------------------------------
(* The timeline *)

TimelineSteps == <<"apply_deadline", "review_deadline", "release_deadline", "sweep_deadline">>
DeadlineOf(i) == Deadlines[screen.config][i]

TimelineRows ==
  [i \in DOMAIN TimelineSteps |->
     [key |-> TimelineSteps[i],
      status |-> IF DeadlineOf(i) <= screen.now THEN "Passed" ELSE "Upcoming"]]
\* The first that is still to come, or none.
NextDeadline ==
  LET open == {i \in DOMAIN TimelineSteps : DeadlineOf(i) > screen.now}
  IN IF open = {} THEN 0 ELSE CHOOSE i \in open : \A j \in open : i <= j

\* Once a minute the page looks at the clock.
MinutePasses == AtDetail /\ screen.now < PageEnd /\ Show([screen EXCEPT !.now = @ + 1])

------------------------------------------------------------------------------
(* The metadata document *)

\* Keys are sorted in objects within objects; an array is left as it was written.
Canonicalize(doc) == [doc EXCEPT !.keys = "sorted"]
MutHashes(doc, committed) == doc.says = committed.says
Hashes(doc, committed) == Canonicalize(doc) = committed

\* Typing takes back what was said of the last document, but calls nothing off.
EditUrl(url) ==
  /\ ConfigShown /\ screen.url # url
  /\ Show([screen EXCEPT !.url = url, !.state = NoState])

FetchOffered == ConfigShown /\ screen.url # NoAddress /\ screen.state.kind # "fetching"
HandleFetch ==
  /\ FetchOffered /\ Click
  /\ screen' = [screen EXCEPT !.state = [@ EXCEPT !.kind = "fetching"],
                              !.apart = \E of \in {screen.config} \cup {fetch.of : fetch \in screen.fetches} :
                                          of # screen.programme,
                              !.fetches = @ \cup {[n |-> clicks, url |-> screen.url,
                                                   of |-> screen.config]}]
  /\ UNCHANGED <<me, ledger>>

\* What is made of a response, with the hash that the card had when it was asked.
Verdict(response, of) ==
  IF response.kind # "document" THEN [kind |-> response.kind, doc |-> NoDoc, of |-> of]
  ELSE IF ~Hashes(response.doc, Committed[of]) THEN [kind |-> "mismatch", doc |-> NoDoc, of |-> of]
  ELSE [kind |-> "ok", doc |-> response.doc, of |-> of]
DocumentArrives(fetch) ==
  /\ AtDetail /\ fetch \in screen.fetches
  /\ \E response \in Responses[fetch.url] :
       Show([screen EXCEPT !.fetches = @ \ {fetch}, !.state = Verdict(response, fetch.of)])

\* The description is shown with "Verified against on-chain commitment", or not at all.
MetadataShown == IF ConfigShown /\ screen.state.kind = "ok" THEN screen.state.doc ELSE NoDoc

DetailNext ==
  \/ DetailConfigRead \/ ConfigFails \/ RetryConfig \/ RefetchMoney \/ MinutePasses \/ HandleFetch
  \/ \E p \in Programmes : OpenDetail(p)
  \/ \E read \in MoneyReads : MoneyAnswers(read)
  \/ \E url \in DOMAIN Responses \cup {NoAddress} : EditUrl(url)
  \/ \E fetch \in screen.fetches : DocumentArrives(fetch)

------------------------------------------------------------------------------
(* Properties *)

\* A document that is shown is the one that the programme committed to whose
\* configuration was shown when it was asked for, in whatever order documents came.
\* That is the programme of the page, unless another one has been opened since, or when
\* it was asked for the page still showed, or had a document under way of, another one:
\* "Verified" is then said of a document that is not this programme's.  And the next
\* deadline is the first one that the timeline does not call passed.
DetailIsVerified ==
  AtDetail =>
    /\ MetadataShown # NoDoc =>
         /\ Committed[screen.state.of].says = MetadataShown.says
         /\ Committed[screen.state.of].links = MetadataShown.links
         /\ ~screen.apart => screen.state.of = screen.programme
    /\ ConfigShown =>
         \A i \in DOMAIN TimelineRows :
           TimelineRows[i].status = "Passed" <=> NextDeadline = 0 \/ i < NextDeadline
=============================================================================
