------------------------------ MODULE Screens ------------------------------
(***************************************************************************)
(* The front end's writes and its screens, each on its own: which one is   *)
(* mounted is chosen with the initial state, and of the payees' page also  *)
(* which of its three cards is used.  The hook of Transaction is looked at *)
(* closely in a behaviour of its own; the screens use it as Screen has it. *)
(***************************************************************************)
EXTENDS Transaction, PayeeScreen, FunderScreen, RecipientScreen, FinalizeScreen,
        VerifierScreen, PolicyScreen, AttestationScreen, AdminScreen, KeepaliveScreen,
        StandingScreen, ReceiptScreen, DirectoryScreen, DetailScreen,
        ListScreens

VARIABLE card   \* which card of the payees' page is used
screensVars == <<txVars, screenVars, card>>

------------------------------------------------------------------------------
PageInit ==
  \/ PayeeScreenInit \/ FunderScreenInit \/ ToolsInit
  \/ ApplyInit \/ WithdrawInit \/ ReleaseInit \/ SpendInit
  \/ BoardInit \/ FinalizeInit
  \/ RolesInit \/ VoteInit \/ ClaimInit \/ RevokeInit
  \/ PolicyInit \/ LookupInit \/ RegisterInit
  \/ DeployInit \/ ConfigInit \/ WritersInit
  \/ KeepaliveInit \/ LifetimesInit \/ StandingInit
  \/ ReceiptInit \/ DirectoryInit \/ DetailInit
  \/ ListInit \/ AwardsInit

Init ==
  /\ ScreenInit
  /\ PageInit \/ screen = [is |-> "transaction"]
  /\ TransactionInit
  /\ screen.is # "transaction" => freighter.installed /\ freighter.allowed
  /\ card \in IF screen.is = "payees" THEN {"check", "one", "bulk"} ELSE {"all"}

PageNext ==
  \/ card = "check" /\ PayeeCheckNext
  \/ card = "one" /\ PayeeNext
  \/ card = "bulk" /\ PayeeBulkNext
  \/ screen.is = "funder" /\ FunderNext
  \/ screen.is = "tools" /\ ToolsNext
  \/ screen.is = "apply" /\ ApplyNext
  \/ screen.is = "withdraw" /\ WithdrawNext
  \/ screen.is = "award" /\ ReleaseNext
  \/ screen.is = "spend" /\ SpendNext
  \/ screen.is = "board" /\ BoardNext
  \/ screen.is = "finalize" /\ FinalizeNext
  \/ screen.is = "roles" /\ RolesScanned
  \/ screen.is = "vote" /\ VoteNext
  \/ screen.is = "claims" /\ ClaimNext
  \/ screen.is = "revoke" /\ RevokeNext
  \/ screen.is = "policy" /\ PolicyNext
  \/ screen.is = "lookup" /\ LookupNext
  \/ screen.is = "register" /\ RegisterNext
  \/ screen.is = "deploy" /\ DeployNext
  \/ screen.is = "config" /\ ConfigNext
  \/ screen.is = "writers" /\ WritersNext
  \/ screen.is = "keepalive" /\ KeepaliveNext
  \/ screen.is = "lifetimes" /\ LifetimesNext
  \/ screen.is = "standing" /\ StandingNext
  \/ screen.is = "receipt" /\ ReceiptNext
  \/ screen.is = "directory" /\ DirectoryNext
  \/ screen.is = "detail" /\ DetailNext
  \/ screen.is = "list" /\ ListNext
  \/ screen.is = "awards" /\ AwardsNext

Next ==
  \/ screen.is = "transaction" /\ TransactionNext /\ UNCHANGED <<screenVars, card>>
  \/ screen.is # "transaction" /\ (PageNext \/ ChangeWallet) /\ UNCHANGED <<txVars, card>>
Spec == Init /\ [][Next]_screensVars

------------------------------------------------------------------------------
(* Properties *)

\* What a screen says was sent was sent and applied, and each conjunct says how much
\* of what it shows is the call's.  Progress lines, announcements and the pages of the
\* CASE below carry the call's own programme, person and amount, whatever the form or
\* the list hold by the time the answer comes.  Four places do not, and their conjuncts
\* name the case that they leave out: the receipt of a contribution after its amount
\* was edited on the way (ReceiptIsOfContribution), a payee listed as added since it
\* stood in the field when another one was removed (PayeesListed), the rows of the
\* keepalive page after another programme was chosen (KeepaliveDone), and the payees of
\* the spend policy, which are listed without their wallet (PolicyListed).
WritesAreReportedTruly ==
  /\ ProgressIsReal /\ PayeesListed /\ ContributionWasConfirmed /\ ReceiptIsOfContribution
  /\ PauseIsAnnouncedTruly /\ ReceiptWasApplied /\ SpendIsReported /\ KeepaliveDone /\ ExtendedDone /\ DeployShown
  /\ CASE screen.is = "finalize" -> FinalizeDone \subseteq ToSet(ledger)
       [] screen.is = "vote" -> VoteDone \subseteq ToSet(ledger)
       [] screen.is = "claims" -> ClaimsDone \subseteq ToSet(ledger)
       [] screen.is = "revoke" -> RevokeDone \subseteq ToSet(ledger)
       [] screen.is = "register" -> RegisterDone \subseteq ToSet(ledger)
       [] screen.is = "deploy" -> DeployDone \subseteq ToSet(ledger)
       [] screen.is = "policy" -> PolicyListed
       [] OTHER -> TRUE

\* What a screen says it read is what was there to be read, in whatever order answers
\* come and however often the person changes what is asked: a receipt, the lifetimes of
\* a programme's entries, the cards of the directory, the verdict on a history, the
\* document of a programme, and the lists that are read programme by programme.  Once
\* nothing is asked any more it is of what the page names as its subject, but on three
\* pages that let the subject change under it: the conjuncts of the receipt, the verdict
\* and the document name exactly when it may be of another one.
ReadsAreShownTruly ==
  /\ ReceiptIsReal /\ LifetimesShown /\ DirectoryIsHonest /\ VerdictIsTrue /\ DetailIsVerified
  /\ ListIsWhole /\ RowIsOfProgramme
=============================================================================
