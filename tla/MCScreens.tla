----------------------------- MODULE MCScreens -----------------------------
(***************************************************************************)
(* An instance of the screens: values of the constants.                    *)
(***************************************************************************)
EXTENDS Screens

CONSTANTS a, b   \* accounts in Freighter

MCBulkTexts == {<<"p", "q", "p">>}
MCMedians == [applicant \in {"a", "b"} |-> IF applicant = "a" THEN 2 ELSE 1]
MCRequested == [applicant \in {"a", "b"} |-> IF applicant = "a" THEN 1 ELSE 2]
MCFound == [payee \in {"p", "q"} |-> IF payee = "p" THEN {"u", "v"} ELSE {}]

Committee(quorum, reviewers) ==
  [quorum |-> quorum, reviewers |-> reviewers, verifiers |-> <<"p">>, tranches |-> 1]
MCPeople ==
  {[Committee(2, <<"p", "p">>) EXCEPT !.tranches = 2], Committee(2, <<"p">>),
   [Committee(1, <<"p">>) EXCEPT !.verifiers = <<"q">>]}
MCAuthorityOf == [uid \in {"u", "v"} |-> IF uid = "u" THEN "p" ELSE ""]
MCSchedules == {<<1, 2, 3, 4>>, <<1, 1, 2, 3>>}

MCLiveLedgers ==
  [programme \in {"P", "Q"} |->
     IF programme = "P" THEN [entry \in {"instance", "a", "b"} |->
                                CASE entry = "instance" -> 20000 [] entry = "a" -> 40000
                                  [] entry = "b" -> 90000]
     ELSE [entry \in {"instance", "b"} |-> 17279]]

CreditP == [programme |-> "P", amount |-> 1]
CreditQ == [programme |-> "Q", amount |-> 2]
Line(credit, root) == [credit |-> credit, root |-> root]
MCPasted ==
  {<<>>, <<Line(CreditP, NoRoot), Line(CreditQ, NoRoot)>>,
   <<Line(CreditP, <<CreditQ>>), Line(CreditQ, NoRoot)>>}
MCCredits == {CreditP, CreditQ}

Given(amount) == [programme |-> "P", donor |-> "alice", amount |-> amount]
Op(args, amount) == [function |-> "contribute", args |-> args, contribution |-> Given(amount)]
MCTxOf ==
  [hash \in {"h1", "h2", "h3", "h4"} |->
     CASE hash = "h1" -> [status |-> "SUCCESS", version |-> "v1", ops |-> <<Op("donor, amount", 1)>>]
       [] hash = "h2" -> [status |-> "FAILED", version |-> "v1", ops |-> <<Op("donor, amount", 2)>>]
       [] hash = "h3" -> [status |-> "SUCCESS", version |-> "fee bump",
                          ops |-> <<Op("others", 0), Op("donor, amount", 3)>>]
       [] hash = "h4" -> [status |-> "SUCCESS", version |-> "odd", ops |-> <<>>]]

CONSTANTS nD, nU   \* NoDoc and Unread

Read(phase, budget, feeBps, closes) ==
  [phase |-> phase, budget |-> budget, feeBps |-> feeBps, closes |-> closes]
MCStandIn == [phase |-> "Open", contributed |-> 0, fee |-> 0, closes |-> 0]
MCChainReads ==
  [id \in {"P", "Q", "R"} |-> CASE id = "P" -> Read("Settled", 700, 250, 0)
                                [] id = "Q" -> Read("Open", 300, nU, 3)
                                [] id = "R" -> Read(nU, 500, 250, 0)]
MCCreatedAt ==
  [id \in {"P", "Q", "R", "S"} |-> CASE id = "P" -> 5 [] id = "Q" -> 9 [] OTHER -> 1]
MCMatching == [query \in {"q"} |-> {"Q", "S"}]
MCIndexed == <<"P", "Q", "P">>
MCRegistered == <<"P", "R">>
MCSampled == <<"S", "R">>

Doc(says, links) == [says |-> says, keys |-> "as written", links |-> links]
Answer(kind, doc) == [kind |-> kind, doc |-> doc]
MCResponses ==
  [url \in {"u", "v"} |->
     IF url = "u" THEN {Answer("document", Doc("first", "label first")),
                        Answer("unavailable", nD), Answer("malformed", nD)}
     ELSE {Answer("document", Doc("second", "label first")),
           Answer("document", Doc("first", "url first"))}]
MCCommitted ==
  [programme \in {"P", "Q"} |->
     [says |-> IF programme = "P" THEN "first" ELSE "second",
      keys |-> "sorted", links |-> "label first"]]
MCAwardees == {[P |-> "a", Q |-> "a"], [P |-> "a", Q |-> "b"]}
MCDeadlines == [programme \in {"P", "Q"} |-> IF programme = "P" THEN <<1, 1, 2, 3>> ELSE <<0, 1, 1, 1>>]
=============================================================================
