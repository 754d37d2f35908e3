------------------------------- MODULE Amounts -------------------------------
(***************************************************************************)
(* The arithmetic of contracts/program: the protocol fee, the awardable    *)
(* budget, a donor's share of what was never paid, and how an award is cut *)
(* into tranches.  Everything is a whole number of the smallest token      *)
(* unit.  The contract works in i128 with checked operations: an overflow  *)
(* reverts the call, so it never produces a value and needs none here.     *)
(* Its `/` truncates towards zero, which is \div on the operands that can  *)
(* reach it (never negative).                                              *)
(***************************************************************************)
EXTENDS Integers

BPS_DENOMINATOR == 10000
MAX_FEE_BPS == 1000

\* The protocol's cut of everything contributed.
FeeOf(total, bps) == (total * bps) \div BPS_DENOMINATOR

\* What the programme may award: contributions less the fee.
AvailableOf(total, bps) == total - FeeOf(total, bps)

\* Mutant: a share rounded up, so that rounding favours the claimant.
MutShareOf(donated, unpaid, total) == (donated * unpaid + total - 1) \div total

\* One donor's proportional share of the unpaid pool, rounded down.
ShareOf(donated, unpaid, total) == (donated * unpaid) \div total

\* The regular tranche of an award.
TrancheOf(a) == a.granted \div a.tranches

\* Mutant: the last tranche is a regular one and strands the remainder.
MutNextTranche(a) == TrancheOf(a)

\* What the next proof releases: the last tranche takes the remainder.
NextTranche(a) ==
  IF a.tranches_released + 1 = a.tranches
  THEN a.granted - a.released
  ELSE TrancheOf(a)

\* An award after one more tranche.
Advance(a) ==
  [a EXCEPT !.tranches_released = @ + 1, !.released = @ + NextTranche(a)]

\* What a batch of n proofs releases in total.  The loop of release_batch
\* compares tranches_released with tranches for the remainder only, so the
\* tranches past the last one are regular again.
BatchAmount(a, n) ==
  IF a.tranches_released + n < a.tranches
  THEN n * TrancheOf(a)
  ELSE a.granted - a.released
         + (a.tranches_released + n - a.tranches) * TrancheOf(a)

\* An award after a batch of n proofs.
AdvanceBy(a, n) ==
  [a EXCEPT !.tranches_released = @ + n, !.released = @ + BatchAmount(a, n)]

\* Whether each tranche of a batch of n is worth something.  Only the tranche
\* that completes an award can differ from the regular one.
EveryTranchePositive(a, n) ==
  IF n = 1 THEN NextTranche(a) > 0 ELSE TrancheOf(a) > 0

\* Where an award stands after tranches_released regular releases: that many
\* regular tranches, or everything once the last tranche is out.
OnSchedule(a) ==
  a.tranches_released <= a.tranches =>
    a.released = IF a.tranches_released = a.tranches
                 THEN a.granted
                 ELSE a.tranches_released * TrancheOf(a)
==============================================================================
