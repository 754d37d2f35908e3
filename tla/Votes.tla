-------------------------------- MODULE Votes --------------------------------
(***************************************************************************)
(* The vote vector of one application in contracts/program: approved       *)
(* amounts in ascending order, changed by `review` and read by `finalize`. *)
(***************************************************************************)
EXTENDS SequencesExt, Integers

\* Insert before the first strictly larger vote, or at the end.
InsertVote(votes, approved) ==
  LET at == SelectInSeq(votes, LAMBDA v : approved < v)
  IN  InsertAt(votes, IF at = 0 THEN Len(votes) + 1 ELSE at, approved)

\* Mutant: an amendment that keeps the superseded vote.
MutAmendVote(votes, previous, approved) == InsertVote(votes, approved)

\* Replace one instance of a reviewer's previous vote.
AmendVote(votes, previous, approved) ==
  InsertVote(RemoveFirst(votes, previous), approved)

\* Mutant: takes the upper of the two middles.
MutSettledAmount(votes, quorum) == votes[quorum \div 2 + 1]

\* What finalize grants: the vote at 0-based index (quorum - 1) / 2.
SettledAmount(votes, quorum) == votes[(quorum - 1) \div 2 + 1]
==============================================================================
