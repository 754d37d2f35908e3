------------------------------- MODULE MCReads -------------------------------
(***************************************************************************)
(* The three kinds of reads, one at a time: `part` says which of them a    *)
(* behaviour is about, and the state of the others keeps still.            *)
(***************************************************************************)
EXTENDS ReadProperties

CONSTANTS Parts

Phase == <<"get_phase">>
Config == <<"get_config">>
TotalAndConfig == <<"total_contributed", "get_config">>

VARIABLE part

vars == <<part, hookVars, linkVars, sessionVars>>

Init ==
  /\ part \in Parts
  /\ HookInit /\ LinkInit /\ SessionInit
  /\ part # "hook" =>
       kind = "contract" /\ subject = NoSubject /\ \A s \in Subjects : network[s] = 0
  /\ part # "link" => consuming /\ param = NoParam

Next ==
  \/ part = "hook" /\ HookNext /\ UNCHANGED <<part, linkVars, sessionVars>>
  \/ part = "link" /\ LinkNext /\ UNCHANGED <<part, hookVars, sessionVars>>
  \/ part = "session" /\ SessionNext /\ UNCHANGED <<part, hookVars, linkVars>>

Spec == Init /\ [][Next]_vars /\ HookFairness /\ SessionFairness
==============================================================================
