---------------------------- MODULE LatestAnswer ----------------------------
(***************************************************************************)
(* What a screen may expect of a read it repeats: requests are numbered as *)
(* they are sent, and when an answer changes what is shown, it is the      *)
(* answer to the newest of them.  What is shown therefore never goes back  *)
(* to an older request, whatever order the answers arrive in.              *)
(***************************************************************************)
EXTENDS Naturals

VARIABLES
  asked,   \* how many requests were sent
  shown    \* the number of the request whose answer is shown; 0 for none

\* A screen may ask as it opens.
Init == asked \in {0, 1} /\ shown = 0

Ask == asked' = asked + 1 /\ UNCHANGED shown

Show == shown' = asked /\ asked > 0 /\ UNCHANGED asked

Next == Ask \/ Show

Spec == Init /\ [][Next]_<<asked, shown>>
==============================================================================
