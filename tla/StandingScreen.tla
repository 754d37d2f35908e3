--------------------------- MODULE StandingScreen ---------------------------
(***************************************************************************)
(* The page of a recipient's standing (frontend/src/pages/Standing.tsx):   *)
(* whose standing is shown, how it is read, the extension of its entry,    *)
(* and the check of a shared history against the root the record keeps     *)
(* (frontend/src/lib/standingHistory.ts).                                  *)
(*                                                                         *)
(* The hash that folds a credit into a root is taken to be free of         *)
(* collisions: a root is the sequence of the credits folded into it.       *)
(***************************************************************************)
EXTENDS Screen

CONSTANTS
  Credits,        \* what releases credit: [programme, amount]
  Pasted          \* histories that are pasted

ASSUME HistoryAssumption ==
  Credits # {} /\ \A entries \in Pasted : entries \in Seq(ToSet(entries))

Genesis == <<>>
NoRoot == <<[programme |-> NoAddress, amount |-> 0]>>
NextRoot(root, credit) == Append(root, credit)

\* The roots of a claimed history, one after each entry.
RootsOf(entries) ==
  [i \in DOMAIN entries |->
     FoldLeft(NextRoot, Genesis, [j \in 1 .. i |-> entries[j].credit])]

------------------------------------------------------------------------------
(* standingHistory *)

\* The entries whose recorded root is not the one that folding gives.
Diverging(entries) ==
  {i \in DOMAIN entries : entries[i].root # NoRoot /\ entries[i].root # RootsOf(entries)[i]}

Mismatch(i, root) == [kind |-> "mismatch", at |-> i, root |-> root]
MutVerifyStandingHistory(entries, root) ==
  IF Diverging(entries) # {}
  THEN Mismatch(CHOOSE i \in Diverging(entries) : \A j \in Diverging(entries) : i <= j, root)
  ELSE [kind |-> "match", at |-> Len(entries), root |-> root]

\* What is said of `entries` and a root of the record.
VerifyStandingHistory(entries, root) ==
  IF entries = <<>>
  THEN IF root = Genesis THEN [kind |-> "genesis", at |-> 0, root |-> root] ELSE Mismatch(1, root)
  ELSE IF Diverging(entries) # {}
  THEN Mismatch(CHOOSE i \in Diverging(entries) : \A j \in Diverging(entries) : i <= j, root)
  ELSE IF RootsOf(entries)[Len(entries)] # root THEN Mismatch(Len(entries), root)
  ELSE [kind |-> "match", at |-> Len(entries), root |-> root]

------------------------------------------------------------------------------
(* The page *)

NoVerdict == [kind |-> "none", at |-> 0, root |-> Genesis]
NoCheck == [entries |-> <<>>, root |-> NoRoot]

EmptyText == [is |-> "empty", entries |-> <<>>]
MalformedText == [is |-> "malformed", entries |-> <<>>]
HistoryText(entries) == [is |-> "history", entries |-> entries]

\* `edited` keeps whether the text was edited during the last check.
FreshPanel(subject) ==
  [of |-> subject, read |-> "loading", root |-> NoRoot, text |-> EmptyText, error |-> FALSE,
   checking |-> NoCheck, checked |-> NoCheck, verdict |-> NoVerdict, edited |-> FALSE,
   tx |-> IdleTx, extended |-> FALSE]
\* Who looks on either checks a history or extends the entry: nothing connects the
\* two, and a behaviour of the model does one of them.
StandingInit ==
  \E doing \in {"verify", "extend"} :
  screen = [is |-> "standing", doing |-> doing, lookedUp |-> NoAddress, panel |-> FreshPanel(me), unseen |-> {},
            history |-> [r \in {Creator, Other} |->
                           IF r = Creator THEN Genesis ELSE <<CHOOSE credit \in Credits : TRUE>>]]

StandingSubject == IF screen.lookedUp # NoAddress THEN screen.lookedUp ELSE me
Panel == screen.panel
AtStanding == screen.is = "standing" /\ Panel.of = StandingSubject
ShowPanel(panel) == Show([screen EXCEPT !.panel = panel])

LookUp(address) ==
  /\ AtStanding /\ address # StandingSubject /\ Show([screen EXCEPT !.lookedUp = address])
ClearLookup ==
  /\ AtStanding /\ screen.lookedUp # NoAddress /\ Show([screen EXCEPT !.lookedUp = NoAddress])

\* The panel is keyed by its subject: another subject has a panel of its own, and a
\* send of the old one is `unseen`.
PanelReplaced ==
  /\ screen.is = "standing" /\ Panel.of # StandingSubject
  /\ Show([screen EXCEPT !.panel = FreshPanel(StandingSubject),
             !.unseen = IF Panel.tx.inFlight THEN @ \cup {Panel.tx.call} ELSE @])

\* A programme releases a tranche, at most two and to one recipient in the model.
CreditLands ==
  /\ AtStanding /\ Len(screen.history[Creator]) < 2
  /\ \E credit \in Credits : Show([screen EXCEPT !.history[Creator] = NextRoot(@, credit)])

\* record.get: the aggregates, NotFound for somebody who was never credited, or a
\* failure.  A write anywhere in the app asks again.
StandingAnswers ==
  /\ AtStanding /\ StandingSubject # NoAddress
  /\ LET root == screen.history[StandingSubject]
     IN /\ Panel.read = "loading" \/ Panel.root # root
        /\ \/ ShowPanel([Panel EXCEPT !.read = IF root = Genesis THEN "none" ELSE "read",
                                      !.root = IF root = Genesis THEN NoRoot ELSE root])
           \/ Panel.read = "loading" /\ ShowPanel([Panel EXCEPT !.read = "failed"])
RetryStanding ==
  /\ AtStanding /\ Panel.read = "failed" /\ ShowPanel([Panel EXCEPT !.read = "loading"])

\* HistoryVerifier is there beside a root.
AtVerifier == AtStanding /\ screen.doing = "verify" /\ StandingSubject # NoAddress /\ Panel.read = "read"
PasteHistory(text) ==
  /\ AtVerifier /\ Panel.text # text
  /\ ShowPanel([Panel EXCEPT !.text = text, !.error = FALSE, !.verdict = NoVerdict,
                             !.edited = @ \/ Panel.checking # NoCheck])
VerifyHistory ==
  /\ AtVerifier /\ Panel.checking = NoCheck /\ Panel.text # EmptyText
  /\ ShowPanel(IF Panel.text = MalformedText
               THEN [Panel EXCEPT !.error = TRUE, !.verdict = NoVerdict]
               ELSE [Panel EXCEPT !.error = FALSE, !.verdict = NoVerdict, !.edited = FALSE,
                       !.checking = [entries |-> Panel.text.entries, root |-> Panel.root]])

\* The verdict is on what was pasted, and on the root shown, when it was asked for;
\* a fold that fails says so.
HistoryVerified ==
  /\ AtStanding /\ Panel.checking # NoCheck
  /\ \/ ShowPanel([Panel EXCEPT !.checking = NoCheck, !.checked = Panel.checking,
            !.verdict = VerifyStandingHistory(Panel.checking.entries, Panel.checking.root)])
     \/ ShowPanel([Panel EXCEPT !.checking = NoCheck, !.error = TRUE])

ExtendStanding ==
  /\ AtStanding /\ screen.doing = "extend" /\ StandingSubject # NoAddress /\ Panel.read = "read" /\ me # NoAddress
  /\ ~Busy(Panel.tx) /\ ~Panel.extended /\ Click
  /\ screen' = [screen EXCEPT !.panel.tx = SendOn(@, [do |-> "extend", subject |-> StandingSubject])]
  /\ UNCHANGED <<me, ledger>>
ExtendSettled(outcome) ==
  /\ screen.is = "standing"
  /\ \/ /\ Panel.tx.inFlight
        /\ screen' = [screen EXCEPT !.panel.tx = Settled(@, outcome),
                                    !.panel.extended = @ \/ outcome = "success"]
        /\ Record(Panel.tx.call, outcome)
     \/ \E call \in screen.unseen :
          /\ screen' = [screen EXCEPT !.unseen = @ \ {call}]
          /\ Record(call, outcome)
  /\ UNCHANGED <<me, clicks>>

StandingNext ==
  \/ ClearLookup \/ PanelReplaced \/ CreditLands \/ StandingAnswers \/ RetryStanding
  \/ VerifyHistory \/ HistoryVerified \/ ExtendStanding
  \/ \E address \in {Creator, Other} : LookUp(address)
  \/ \E text \in {MalformedText} \cup {HistoryText(entries) : entries \in Pasted} : PasteHistory(text)
  \/ \E outcome \in Outcomes : ExtendSettled(outcome)

------------------------------------------------------------------------------
(* Properties *)

\* "The claimed history matches what was recorded" (Standing.tsx:120) is said of a
\* history that the record of the subject on the screen went through, and a history
\* it went through in full is not called a mismatch.  That history is the one in the
\* text field, unless the text was edited during the check: the verdict then stands
\* beside a text that it is not about.
VerdictIsTrue ==
  screen.is = "standing" /\ Panel.verdict # NoVerdict =>
    LET claimed == Panel.checked.entries
        credits == [i \in DOMAIN claimed |-> claimed[i].credit]
    IN /\ ~Panel.edited => claimed = Panel.text.entries
       /\ Panel.verdict.kind = "match" => IsPrefix(credits, screen.history[Panel.of])
       /\ credits = Panel.checked.root /\ Diverging(claimed) = {} => Panel.verdict.kind # "mismatch"

\* "Extended" is shown of a standing whose entry was extended.
ExtendedDone ==
  screen.is = "standing" /\ Panel.extended =>
    [do |-> "extend", subject |-> Panel.of] \in ToSet(ledger)
=============================================================================
