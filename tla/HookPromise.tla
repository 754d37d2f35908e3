---------------------------- MODULE HookPromise ----------------------------
(***************************************************************************)
(* What a screen may expect of its useTransaction                          *)
(* (frontend/src/hooks/useTransaction.ts), whatever the wallet does: a     *)
(* click is refused or becomes the one call in flight, that call ends      *)
(* once, and success means that it, and no other, was applied.             *)
(***************************************************************************)
EXTENDS SendHook

CONSTANTS
  Calls,       \* what is sent
  Addresses    \* of wallets, and NoAddress

VARIABLES
  hook,      \* what the screen sees
  applied    \* the calls that were applied

Init == hook = IdleTx /\ applied = {}

Send ==
  /\ \E address \in Addresses, call \in Calls : hook' = SendAs(hook, address, call)
  /\ UNCHANGED applied

Reset == hook' = ResetOn(hook) /\ UNCHANGED applied

\* A send that goes on after a reset shows its next phase.
GoOn ==
  /\ hook.inFlight
  /\ hook' = [hook EXCEPT !.phase = "busy"]
  /\ UNCHANGED applied

End ==
  /\ hook.inFlight
  /\ \E outcome \in Outcomes :
       /\ hook' = Settled(hook, outcome)
       /\ applied' = IF Applied(outcome) THEN applied \cup {hook.call} ELSE applied

Next == Send \/ Reset \/ GoOn \/ End

Spec == Init /\ [][Next]_<<hook, applied>>

\* Success means that this call was applied.
SuccessIsApplied == hook.phase = "success" => hook.call \in applied
=============================================================================
