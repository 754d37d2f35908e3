------------------------------- MODULE Screen -------------------------------
(***************************************************************************)
(* What the screens have in common.  A route mounts one screen; its state  *)
(* is the record `screen`, whose field `is` names it.  A write is a call   *)
(* of useTransaction's `send`, here without the phases that Transaction    *)
(* tells apart: "busy" stands for building, signing and submitting.        *)
(*                                                                         *)
(* A handler closes over the fields as they were when it was clicked: what *)
(* it needs of them after an await is in the call it made.                 *)
(***************************************************************************)
EXTENDS SendHook, Naturals, Sequences, FiniteSets, SequencesExt

CONSTANTS
  Creator,        \* the account that created the programme on the screen
  Other,          \* an account with no role there
  Malformed,      \* text that is no address
  MaxClicks,      \* bound on what a person sends from one screen
  Payees,         \* addresses that are typed as payees
  Verified,       \* those that the contract has as payees
  Programmes,     \* real programmes that are chosen from
  Applicants,     \* addresses of applicants
  Uids            \* 32-byte ids in hex

ASSUME AddressesAssumption ==
  Programmes # {} /\ NoAddress \notin Programmes \cup {Creator, Other}

VARIABLES
  screen,   \* the mounted screen
  me,       \* wallet.address
  ledger,   \* the calls that were applied, in order
  clicks

screenVars == <<screen, me, ledger, clicks>>

Wallets == {Creator, Other, NoAddress}
IsAddress(text) == text \notin {NoAddress, Malformed}

\* `send` of the function that was rendered last.
SendOn(tx, call) == SendAs(tx, me, call)

\* The ledger after a send of `call` ended so.
Record(call, outcome) ==
  ledger' = IF Applied(outcome) THEN Append(ledger, call) ELSE ledger

Click == clicks < MaxClicks /\ clicks' = clicks + 1

\* Actions that only change the screen.
Show(new) == screen' = new /\ UNCHANGED <<me, ledger, clicks>>

\* The person disconnects, or connects another account.
ChangeWallet ==
  /\ \E address \in Wallets \ {me} : me' = address
  /\ UNCHANGED <<screen, ledger, clicks>>

ScreenInit == me = Creator /\ ledger = <<>> /\ clicks = 0
=============================================================================
