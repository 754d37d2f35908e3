------------------------------ MODULE SendHook ------------------------------
(***************************************************************************)
(* useTransaction as a screen sees it (frontend/src/hooks/useTransaction): *)
(* "busy" stands for building, signing and submitting, which Transaction   *)
(* tells apart, and a send ends in one of four ways.  HookPromise is the   *)
(* specification made of these steps, which Transaction implements.        *)
(***************************************************************************)

CONSTANT NoAddress   \* null, and an empty field

Nothing == [do |-> "nothing"]
IdleTx == [phase |-> "idle", inFlight |-> FALSE, call |-> Nothing]
Busy(tx) == tx.phase = "busy"

\* `send` with a call that a handler built, and with the wallet that the handler
\* closed over.
SendAs(tx, address, call) ==
  IF tx.inFlight THEN tx
  ELSE IF address = NoAddress THEN [tx EXCEPT !.phase = "error"]
  ELSE [phase |-> "busy", inFlight |-> TRUE, call |-> call]

ResetOn(tx) == [tx EXCEPT !.phase = "idle"]

\* How a send ends.  It may be applied although no answer of it comes back.
Outcomes == {"success", "refused", "declined", "lost"}
Applied(outcome) == outcome \in {"success", "lost"}
Settled(tx, outcome) ==
  [tx EXCEPT !.inFlight = FALSE,
             !.phase = CASE outcome = "success" -> "success"
                         [] outcome = "declined" -> "idle"
                         [] OTHER -> "error"]
=============================================================================
