--------------------------- MODULE VerifierScreen ---------------------------
(***************************************************************************)
(* The verifier's page (frontend/src/pages/VerifierDashboard.tsx): voting  *)
(* on applications, signing the claims of the queue, and, on each claim    *)
(* signed, components/verifier/AttestationRevoke.tsx.  The three share the *)
(* wallet only; each is a screen of its own here.                          *)
(***************************************************************************)
EXTENDS Screen

CONSTANTS
  Claims,         \* rows of the queue
  Requested       \* of each applicant: the amount asked for

\* The contract has one reviewer and one attester.
MayReview(address) == address = Creator
MayRevoke(address) == address = Creator

------------------------------------------------------------------------------
(* Roles *)

RolesInit == screen = [is |-> "roles", of |-> NoAddress, list |-> {}]

\* Which of the indexed programmes give this account a role, those left out
\* that could not be read.  The scan of the account before is cancelled.
RolesScanned ==
  /\ screen.is = "roles" /\ me # NoAddress
  /\ \E list \in SUBSET Programmes :
       (list # {} => MayReview(me)) /\ Show([screen EXCEPT !.of = me, !.list = list])

\* A list read for another account does not count.
MyProgrammes == IF screen.of = me THEN screen.list ELSE {}

------------------------------------------------------------------------------
(* Voting *)

\* `phase`, `reviewer` and `app` are the last answers of three reads, perhaps of
\* another programme, account or applicant: a read keeps its data while it asks
\* anew.
VoteInit ==
  \E p \in Programmes :
    screen = [is |-> "vote", programme |-> p, selection |-> <<p, NoAddress>>, approved |-> 0,
              phase |-> "unread", reviewer |-> "unread", app |-> 0,
              tx |-> IdleTx, told |-> Nothing]
AtVote == screen.is = "vote" /\ me # NoAddress

\* A programme that is typed, followed from the list above, or linked.
OpenProgramme(p) ==
  /\ AtVote /\ p # screen.programme
  /\ Show([screen EXCEPT !.programme = p, !.selection = <<p, NoAddress>>, !.approved = 0])

\* A selection made for another programme does not count.
SelectedApplicant ==
  IF screen.selection[1] = screen.programme THEN screen.selection[2] ELSE NoAddress

\* One of the known applicants is picked, and the last vote forgotten, or an
\* address is typed, and it is not.
SelectApplicant(a) ==
  /\ AtVote
  /\ Show([screen EXCEPT !.selection = <<screen.programme, a>>, !.approved = 0, !.tx = ResetOn(@)])
RememberApplicant(a) ==
  /\ AtVote /\ Show([screen EXCEPT !.selection = <<screen.programme, a>>])

PhaseReadAnswers ==
  /\ AtVote /\ \E phase \in {"Review", "Settled"} \ {screen.phase} :
       Show([screen EXCEPT !.phase = phase])
ReviewerReadAnswers ==
  /\ AtVote /\ Show([screen EXCEPT !.reviewer = IF MayReview(me) THEN "yes" ELSE "no"])
VoteApplicationAnswers ==
  /\ AtVote /\ SelectedApplicant # NoAddress
  /\ Show([screen EXCEPT !.app = Requested[SelectedApplicant]])

\* The gates in their order; answers about the last programme or account
\* count until they are replaced.
ReviewGateReason ==
  IF screen.phase # "Review" THEN "only during Review"
  ELSE IF screen.reviewer # "yes" THEN "not a reviewer" ELSE "none"

\* The vote is entered below the application, once one was read.
ReviewFormShown == AtVote /\ SelectedApplicant # NoAddress /\ screen.app # 0
EditApproved(amount) ==
  /\ ReviewFormShown /\ amount # screen.approved /\ Show([screen EXCEPT !.approved = amount])

SubmitReview ==
  /\ ReviewFormShown /\ ReviewGateReason = "none" /\ ~Busy(screen.tx) /\ Click
  /\ screen.approved \in 1 .. screen.app
  /\ screen' = [screen EXCEPT !.tx = SendOn(@,
       [do |-> "review", programme |-> screen.programme, reviewer |-> me,
        applicant |-> SelectedApplicant, approved |-> screen.approved])]
  /\ UNCHANGED <<me, ledger>>

ReviewAccepted(call) ==
  MayReview(call.reviewer) /\ call.approved <= Requested[call.applicant]

\* "Review vote submitted for", said of the call that was made.
VoteAnnounced(call) == call

ReviewSettled(outcome) ==
  /\ screen.is = "vote" /\ screen.tx.inFlight
  /\ Applied(outcome) => ReviewAccepted(screen.tx.call)
  /\ screen' = IF outcome = "success"
       THEN [screen EXCEPT !.tx = Settled(@, outcome), !.approved = 0,
                           !.told = VoteAnnounced(screen.tx.call)]
       ELSE [screen EXCEPT !.tx = Settled(@, outcome)]
  /\ Record(screen.tx.call, outcome)
  /\ UNCHANGED <<me, clicks>>

VoteNext ==
  \/ PhaseReadAnswers \/ ReviewerReadAnswers \/ VoteApplicationAnswers
  \/ SubmitReview
  \/ \E p \in Programmes : OpenProgramme(p)
  \/ \E a \in Applicants : SelectApplicant(a) \/ RememberApplicant(a)
  \/ \E amount \in 0 .. 2 : EditApproved(amount)
  \/ \E outcome \in Outcomes : ReviewSettled(outcome)

VoteDone == IF screen.told = Nothing THEN {} ELSE {screen.told}

------------------------------------------------------------------------------
(* The queue of claims *)

NoClaim == NoAddress

ClaimInit ==
  screen = [is |-> "claims", status |-> [c \in Claims |-> "idle"], open |-> NoClaim,
            checked |-> FALSE, signing |-> NoClaim, tx |-> IdleTx, signed |-> {}]
AtClaims == screen.is = "claims" /\ me # NoAddress
Queue == {c \in Claims : screen.status[c] \notin {"declined", "done"}}

CloseClaim(s) == [s EXCEPT !.open = NoClaim, !.checked = FALSE, !.tx = ResetOn(@)]

\* Another claim is opened although a signature is being waited for, too.
OpenClaim(c) ==
  /\ AtClaims /\ c \in Queue /\ screen.open # c
  /\ Show([CloseClaim(screen) EXCEPT !.open = c])
CancelClaim == AtClaims /\ screen.open \in Queue /\ Show(CloseClaim(screen))
DeclineClaim(c) ==
  /\ AtClaims /\ c \in Queue /\ screen.open # c
  /\ Show([screen EXCEPT !.status[c] = "declined"])
CheckBox ==
  /\ AtClaims /\ screen.open \in Queue /\ Show([screen EXCEPT !.checked = ~@])

\* The button is held back while this claim is the one being signed.
Pending(c) == screen.status[c] = "pending" /\ screen.signing = c
SignClaim(c) ==
  /\ AtClaims /\ c \in Queue /\ screen.open = c /\ screen.checked /\ ~Pending(c)
  /\ ~Busy(screen.tx) /\ Click
  /\ screen' = IF screen.tx.inFlight
       THEN [screen EXCEPT !.status[c] = "error", !.signing = NoClaim]
       ELSE [screen EXCEPT !.status[c] = "pending", !.signing = c,
                           !.tx = SendOn(@, [do |-> "attest", attester |-> me, claim |-> c])]
  /\ UNCHANGED <<me, ledger>>

MutSignedClaim(call) == [call EXCEPT !.claim = screen.open]

\* The row that is listed under "Signed by you".
SignedClaim(call) == call

\* Whichever claim is open by then is closed.
ClaimSettled(outcome) ==
  /\ screen.is = "claims" /\ screen.tx.inFlight
  /\ LET c == screen.tx.call.claim
         settled == [screen EXCEPT !.tx = Settled(@, outcome), !.signing = NoClaim]
     IN screen' = IF outcome = "success"
          THEN [settled EXCEPT !.status[c] = "done", !.open = NoClaim, !.checked = FALSE,
                               !.signed = @ \cup {SignedClaim(screen.tx.call)}]
          ELSE [settled EXCEPT !.status[c] = "error"]
  /\ Record(screen.tx.call, outcome)
  /\ UNCHANGED <<me, clicks>>

ClaimNext ==
  \/ CancelClaim \/ CheckBox
  \/ \E c \in Claims : OpenClaim(c) \/ DeclineClaim(c) \/ SignClaim(c)
  \/ \E outcome \in Outcomes : ClaimSettled(outcome)

ClaimsDone == screen.signed

------------------------------------------------------------------------------
(* AttestationRevoke *)

\* The row is gone while nobody is signed in, and comes back afresh; a call of
\* the old one is then in `unseen`.
RevokeInit ==
  \E real \in BOOLEAN, revocable \in BOOLEAN :
    screen = [is |-> "revoke", real |-> real, revocable |-> revocable, revoked |-> Nothing,
              confirming |-> FALSE, tx |-> IdleTx, unseen |-> Nothing]
AtRevoke ==
  screen.is = "revoke" /\ me # NoAddress /\ screen.revoked = Nothing /\ screen.revocable

LeaveRow ==
  /\ screen.is = "revoke" /\ me = NoAddress /\ screen.unseen = Nothing
  /\ Show([screen EXCEPT !.confirming = FALSE, !.tx = IdleTx,
                         !.unseen = IF screen.tx.inFlight THEN screen.tx.call ELSE Nothing])

\* "Revoke", the question, and what the outcome of a failed try offers.
ConfirmShown == screen.confirming /\ ~Busy(screen.tx) /\ screen.tx.phase # "success"
RetryShown == screen.tx.phase = "error"
AskToConfirm ==
  /\ AtRevoke /\ ~screen.confirming
  /\ screen.tx.phase # "success" /\ ~Busy(screen.tx)
  /\ Show([screen EXCEPT !.confirming = TRUE])
DoNotRevoke == AtRevoke /\ ConfirmShown /\ Show([screen EXCEPT !.confirming = FALSE])
DismissOutcome == AtRevoke /\ RetryShown /\ Show([screen EXCEPT !.tx = ResetOn(@)])

HandleRevokeAttestation ==
  /\ AtRevoke /\ (ConfirmShown \/ RetryShown) /\ Click
  /\ screen' = [screen EXCEPT !.tx = SendOn(@, [do |-> "revoke", attester |-> me])]
  /\ UNCHANGED <<me, ledger>>

\* The page is told, and takes the row's button away, on success alone.
RevokedAfter(call, outcome) == IF outcome = "success" THEN call ELSE screen.revoked

RevokeAccepted(call) ==
  screen.real => MayRevoke(call.attester) /\ ~\E i \in DOMAIN ledger : ledger[i].do = "revoke"

RevokeSettled(outcome) ==
  /\ screen.is = "revoke"
  /\ \/ /\ screen.tx.inFlight /\ (Applied(outcome) => RevokeAccepted(screen.tx.call))
        /\ screen' = [screen EXCEPT !.tx = Settled(@, outcome),
                                    !.revoked = RevokedAfter(screen.tx.call, outcome)]
        /\ Record(screen.tx.call, outcome)
     \/ /\ screen.unseen # Nothing /\ (Applied(outcome) => RevokeAccepted(screen.unseen))
        /\ screen' = [screen EXCEPT !.unseen = Nothing,
                                    !.revoked = RevokedAfter(screen.unseen, outcome)]
        /\ Record(screen.unseen, outcome)
  /\ UNCHANGED <<me, clicks>>

RevokeNext ==
  \/ LeaveRow \/ AskToConfirm \/ DoNotRevoke \/ DismissOutcome \/ HandleRevokeAttestation
  \/ \E outcome \in Outcomes : RevokeSettled(outcome)

RevokeDone == IF screen.revoked = Nothing THEN {} ELSE {screen.revoked}
=============================================================================
