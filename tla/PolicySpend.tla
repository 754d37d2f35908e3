----------------------------- MODULE PolicySpend -----------------------------
(***************************************************************************)
(* The policy that a recipient's wallet consults before a restricted grant *)
(* is spent from it (contracts/policy-spend/src/lib.rs).  A signature may  *)
(* cover several calls; the policy passes all of them or none.             *)
(***************************************************************************)
EXTENDS Integers, FiniteSets, Sequences, Functions

CONSTANTS
  Wallets,        \* wallets that the policy serves
  Stewards,       \* accounts that may be a wallet's steward
  PolicyPayees,   \* addresses that a wallet pays
  Tokens,         \* assets
  Caps, Periods,  \* what a steward may ask for
  Contexts,       \* the calls that a signature may cover: sequences of
                  \* [call, token, from, to, amount]
  MaxSpends,      \* bound on the signatures given by a wallet under one set of rules
  PolicyEnd       \* bound on the clock

ASSUME PolicyAssumption ==
  /\ Caps \subseteq Int /\ Periods \subseteq Nat
  /\ \A calls \in Contexts :
       IsFiniteSet(DOMAIN calls) /\ \A i \in DOMAIN calls : calls[i].amount \in Int

VARIABLES
  policies,       \* Key::Policy
  payees,         \* the pairs with a Key::Payee
  installed,      \* the wallets with a Key::Installed
  clock,          \* the time of the ledger
  spends          \* of each wallet, what each signature moved under its present rules

policyVars == <<policies, payees, installed, clock, spends>>

PolicySpendInit ==
  /\ policies = <<>> /\ payees = {} /\ installed = {} /\ clock = 0
  /\ spends = [wallet \in Wallets |-> <<>>]

\* The first time takes both signatures, later the steward's alone.  A new window
\* begins either way, and what was spent under the old rules is of the past.
Configure(steward, wallet, token, cap, period) ==
  /\ cap > 0 /\ period # 0
  /\ wallet \in DOMAIN policies => policies[wallet].steward = steward
  /\ policies' = [w \in DOMAIN policies \cup {wallet} |->
                    IF w = wallet THEN [steward |-> steward, token |-> token, cap |-> cap,
                                        period |-> period, spent |-> 0, start |-> clock]
                    ELSE policies[w]]
  /\ spends' = [spends EXCEPT ![wallet] = <<>>]
  /\ UNCHANGED <<payees, installed, clock>>

RequireSteward(steward, wallet) ==
  wallet \in DOMAIN policies /\ policies[wallet].steward = steward

AllowPayee(steward, wallet, payee) ==
  /\ RequireSteward(steward, wallet)
  /\ <<wallet, payee>> \notin payees
  /\ payees' = payees \cup {<<wallet, payee>>}
  /\ UNCHANGED <<policies, installed, clock, spends>>
DenyPayee(steward, wallet, payee) ==
  /\ RequireSteward(steward, wallet)
  /\ <<wallet, payee>> \in payees
  /\ payees' = payees \ {<<wallet, payee>>}
  /\ UNCHANGED <<policies, installed, clock, spends>>

Install(wallet) ==
  /\ installed' = installed \cup {wallet}
  /\ UNCHANGED <<policies, payees, clock, spends>>
Uninstall(wallet) ==
  /\ installed' = installed \ {wallet}
  /\ UNCHANGED <<policies, payees, clock, spends>>

\* A lapsed window is over before anything is counted against it.
WindowElapsed(policy) == clock - policy.start >= policy.period
MutRenewed(policy) == IF WindowElapsed(policy) THEN [policy EXCEPT !.spent = 0] ELSE policy
Renewed(policy) ==
  IF WindowElapsed(policy) THEN [policy EXCEPT !.spent = 0, !.start = clock] ELSE policy

Allowed(wallet, policy, call) ==
  /\ call.call = "transfer" /\ call.token = policy.token
  /\ call.from = wallet
  /\ call.amount > 0
  /\ <<wallet, call.to>> \in payees
Total(calls) == SumFunction([i \in DOMAIN calls |-> calls[i].amount])

\* As all amounts are positive, the cap is exceeded on the way if it is at the end.
SpendFrom(wallet, calls) ==
  /\ wallet \in DOMAIN policies
  /\ LET policy == Renewed(policies[wallet])
         spent == policy.spent + Total(calls)
     IN /\ \A i \in DOMAIN calls : Allowed(wallet, policy, calls[i])
        /\ spent <= policy.cap
        /\ policies' = [policies EXCEPT ![wallet] = [policy EXCEPT !.spent = spent]]
  /\ Len(spends[wallet]) < MaxSpends
  /\ spends' = [spends EXCEPT ![wallet] = Append(@, [at |-> clock, amount |-> Total(calls)])]
  /\ UNCHANGED <<payees, installed, clock>>

PolicyClock ==
  clock < PolicyEnd /\ clock' = clock + 1 /\ UNCHANGED <<policies, payees, installed, spends>>

PolicySpendNext ==
  \/ PolicyClock
  \/ \E wallet \in Wallets : Install(wallet) \/ Uninstall(wallet)
  \/ \E steward \in Stewards, wallet \in Wallets, token \in Tokens, cap \in Caps, period \in Periods :
       Configure(steward, wallet, token, cap, period)
  \/ \E steward \in Stewards, wallet \in Wallets, payee \in PolicyPayees :
       AllowPayee(steward, wallet, payee) \/ DenyPayee(steward, wallet, payee)
  \/ \E wallet \in Wallets, calls \in Contexts : SpendFrom(wallet, calls)

PolicySpendSpec == PolicySpendInit /\ [][PolicySpendNext]_policyVars

------------------------------------------------------------------------------
(* Properties *)

PolicySpendTypeOK ==
  /\ \A wallet \in DOMAIN policies :
       policies[wallet].spent <= policies[wallet].cap /\ policies[wallet].start <= clock
  /\ payees \subseteq (DOMAIN policies) \X PolicyPayees

\* Windows follow each other wherever spends fall: within any period at all, and
\* not only within those that the policy counts in, a wallet moves no more than
\* twice its cap under one set of rules, and within a window no more than the cap.
SpentDuring(wallet, from, to) ==
  LET own == spends[wallet]
      within == {i \in DOMAIN own : own[i].at \in from..(to - 1)}
  IN SumFunction([i \in within |-> own[i].amount])
SpendingIsCapped ==
  \A wallet \in DOMAIN policies :
    LET policy == policies[wallet]
    IN /\ SpentDuring(wallet, policy.start, clock + 1) <= policy.cap
       /\ \A from \in 0..clock : SpentDuring(wallet, from, from + policy.period) <= 2 * policy.cap
=============================================================================
