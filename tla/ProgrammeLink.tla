---------------------------- MODULE ProgrammeLink ----------------------------
(***************************************************************************)
(* A programme named by the address bar: useProgrammeParam and useProgramme*)
(* (frontend/src/hooks).  A `?programme=` link is read from only once the  *)
(* registry has said that it deployed the programme; until then, and when  *)
(* it did not, the reads of the screen stay off.                           *)
(***************************************************************************)
EXTENDS Naturals

CONSTANTS
  Linkable,        \* well-formed contract ids a link may hold
  Registered,      \* those the registry deployed
  DemoProgramme,   \* what a screen shows when nothing is linked
  NoParam, Malformed,
  MaxAttempts      \* bound on clicks on "Try again"

VARIABLES
  consuming,       \* the screen's route is one that takes ?programme=
  param,           \* the parameter's value
  verification,    \* the outcome of the last verification, and of which id
  asking,          \* whether the registry call of the current effect is in flight
  attempt

linkVars == <<consuming, param, verification, asking, attempt>>

LinkTypeOK ==
  /\ consuming \in BOOLEAN /\ asking \in BOOLEAN /\ attempt \in 0 .. MaxAttempts
  /\ param \in Linkable \cup {NoParam, Malformed}
  /\ verification \in [id : Linkable \cup {NoParam},
                       status : {"idle", "valid", "unknown", "error"}]

\* The six routes that show one programme, chosen by the link.
ConsumesProgrammeParam == consuming

SyntaxValid == ConsumesProgrammeParam /\ param \in Linkable

MutStatus ==
  CASE ~consuming \/ param = NoParam -> "absent"
    [] consuming /\ param = Malformed -> "malformed"
    [] SyntaxValid /\ verification.status = "idle" -> "checking"
    [] OTHER -> verification.status

\* What the hook returns: an outcome counts only for the id it was asked about.
Status ==
  CASE ~consuming \/ param = NoParam -> "absent"
    [] consuming /\ param = Malformed -> "malformed"
    [] SyntaxValid /\ (verification.id # param \/ verification.status = "idle") -> "checking"
    [] OTHER -> verification.status

BlocksProgramme == Status \notin {"absent", "valid"}

\* useProgramme: the programme the screen reads, and whether it reads at all.
ShownProgramme == IF Status = "valid" THEN param ELSE DemoProgramme
ReadsEnabled == ~BlocksProgramme

LinkInit ==
  /\ consuming \in BOOLEAN
  /\ param \in Linkable \cup {NoParam, Malformed}
  /\ verification = [id |-> NoParam, status |-> "idle"]
  /\ asking = SyntaxValid
  /\ attempt = 0

\* Following another link to the same screen, or the back button: the effect
\* runs again, and the call of the run before it is cancelled.
FollowLink(value) ==
  /\ value # param
  /\ param' = value
  /\ asking' = (consuming /\ value \in Linkable)
  /\ UNCHANGED <<consuming, verification, attempt>>

\* The notice's "Clear": the parameter is dropped from the address bar.
ClearLink ==
  /\ consuming /\ param # NoParam
  /\ param' = NoParam /\ asking' = FALSE
  /\ UNCHANGED <<consuming, verification, attempt>>

\* Its "Try again".
RecheckLink ==
  /\ SyntaxValid /\ Status = "error" /\ attempt < MaxAttempts
  /\ attempt' = attempt + 1
  /\ asking' = TRUE
  /\ UNCHANGED <<consuming, param, verification>>

\* `is_programme` answers, or the call fails.  Only the current effect listens.
LinkAnswered ==
  /\ asking /\ asking' = FALSE
  /\ verification' =
       [id |-> param, status |-> IF param \in Registered THEN "valid" ELSE "unknown"]
  /\ UNCHANGED <<consuming, param, attempt>>

LinkFailed ==
  /\ asking /\ asking' = FALSE
  /\ verification' = [id |-> param, status |-> "error"]
  /\ UNCHANGED <<consuming, param, attempt>>

LinkNext ==
  \/ \E value \in Linkable \cup {NoParam, Malformed} : FollowLink(value)
  \/ ClearLink \/ RecheckLink \/ LinkAnswered \/ LinkFailed
==============================================================================
