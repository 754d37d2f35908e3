# A TLA+ model of Milepost

Milepost pays grants in tranches against attested milestones. This directory
holds a formal model of it: TLA+ modules translated from the Rust source of its
contracts and from the TypeScript of its web front end, TLC runs that check them
on small instances, and theorems about them that TLAPS proves for every value of
the constants. Line numbers without a file refer to
`contracts/program/src/lib.rs`; paths of the front end are relative to
`frontend/src`. `PROJECT.json` maps every definition to the lines it stands for.

    tlc -config MCMoney.cfg MCProgramme      # a run
    tlapm ProgrammeProofs.tla                # the proofs of a module

## Inventory

| Component | State it keeps | Operations that change it |
|---|---|---|
| **programme** (`contracts/program`) | deadlines, flags (cancelled, paused, fee swept), totals, per-donor contributions and refunds, applications with their vote vectors, awards, used attestations, escrow, payees, verifiers | contribute, apply, withdraw, review, finalize, release, release_batch, spend, refund, refund_partial, sweep_fee, sweep_unclaimed, cancel, extend_release_deadline, pause, unpause, allow/deny_payee(s), add/remove_verifier, keepalive |
| **attest** (`contracts/attest`) | schemas (authority, revocable, restricted, predecessor), attestations (attester, subject, expiry, revocation), a nonce | register_schema, attest, revoke, keepalive; verify is read by programmes |
| **record** (`contracts/record`) | admin, writers, a standing per subject, a marker per (subject, programme), a hash chain | add_writer, remove_writer, set_admin, upgrade, credit, keepalive |
| **registry** (`contracts/registry`) | configuration, nonce, the programmes it deployed | create, set_fee, set_policy, set_treasury, set_admin, set_program_wasm, upgrade |
| **policy-spend** (`contracts/policy-spend`) | a policy per wallet (steward, cap, period, spent, window), its payees, an installed marker | configure, allow_payee, deny_payee, policy\_\_, install, uninstall |
| **reads** (`hooks/useContractRead`, `useIndexedList`, `useProgrammeReads`, `useProgrammeParam`, `useProgramme`; `lib/programmeReads`, `lib/rpcHealth`) | what each hook shows, its generation, the calls in flight; the session's cache, slots and queue; which programme a link names and what the registry said of it | change of deps, refetch, unmount, an answer or a failure; admission to a slot; following a link |
| **transactions and wallet** (`hooks/useTransaction`, `context/WalletContext`, `lib/errors`) | the wallet a page knows, requests to Freighter, the phases of one transaction | connect, disconnect, restore, recheck, send (build, sign, submit, confirm), reset |
| **action gates** (`lib/programmeActions`, `programmeView`, `applicationView`, `funding`; `components/programme`) | none: functions of what was read | none |
| **pages** (`pages`, `components/{funder,recipient,verifier,admin}`) | forms, lists, the item chosen, a transaction per card, what was announced | their handlers, and the answers that arrive between them |
| attest-integration, crates/*, packages/*, scripts, examples | example consumer, shared types, test harnesses, generated bindings | none of the protocol's own |

How they interact. A registry deploys a programme with a snapshot of its
configuration and asks the record to accept it as a writer. A programme calls
the token (transfers in and out), attest (`verify`, for each tranche),
policy-spend (`is_installed`, for each tranche of a Restricted award) and record
(`credit`, once per tranche). All calls are synchronous, inside one transaction:
a Soroban invocation commits all its writes or none. There are no messages, and
no thread runs beside another inside a contract. Concurrency is the order of the
calls: almost every call is open to somebody else than the party it concerns
(finalize, release, the sweeps and uninstall are open to anybody), the clock
moves between any two of them, and what one call checked another may change
before the next.

The front end is the opposite. It reads the contracts by simulation and writes
through a wallet extension, everything is asynchronous, answers come in any
order or never, and between a handler's call and its continuation the person
types, switches account, opens another item or leaves the page. A handler goes on
with what it closed over; a component renders what the state is now.

What is hard in it, and what makes each part correct:

* **programme.** One token balance holds refundable money, promised awards,
  escrow and the fee at once. Correct means: every token is accounted for;
  awards never exceed the budget; one proof releases one tranche; tranches add
  up to the award; a majority stands behind each award; refunds are
  proportional, exact under partial claims and never trapped; the fee is taken
  once; money reaches sanctioned destinations only; what the pause says it stops,
  stops; nothing is stuck in the end.
* **attest.** Following predecessors ends, although the contract's own walk gives
  up; history is only added to, and a revocation is final; whoever checks a claim
  in two reads while it changes says what was true at one moment of the check.
* **record and registry.** A standing is the sum of the credits of authorised
  writers, each programme counted once; once the registry administers the record
  only what it deploys becomes a writer.
* **policy-spend.** A wallet spends at most its cap per window, whatever the
  window's boundaries, reconfigurations and the number of calls in one signature.
* **reads.** An old answer never replaces a newer one; what is shown once a read
  has settled is about the present subject; a spinner ends; a slot that is freed
  wakes who waits for it; a link is read from only if the registry knows it.
* **transactions.** One click sends one transaction, signed by the account that
  it was built for; "nothing was sent" is true.
* **gates and pages.** The screens offer what the contract accepts and show what
  it will pay; what they say was done is on the ledger, of the item that they
  name.

The hazards these properties are aimed at are listed, each at its line, in
`PROJECT.json`.

## Modules

| Module | What it holds |
|---|---|
| `Amounts` | fee, budget, refund share, and how an award is cut into tranches, one at a time or by batch |
| `Votes` | the sorted vote vector: insertion, amendment, the vote that finalize reads |
| `Programme` | the state machine of one programme; extends the two above |
| `ProgrammeProperties` | its type invariant, safety, action and liveness properties |
| `Offers` | what the screens offer, refuse and compute from reads of a programme, compared with what `Programme` then does |
| `MCProgramme` | instances for TLC (reviewer lists, claims, symmetry) |
| `Attest` | schemas and attestations of several authorities, with the walk along predecessors |
| `AttestClients` | the check of a claim and the lookup of a schema's history, several reads each, over a changing `Attest` |
| `Standings` | the record of standings, the registry and the programmes it deploys, as one state machine |
| `PolicySpend` | the spending policy: windows, caps, the calls of one signature |
| `MCProtocol` | an instance of the four above; `part` says which one a behaviour is about |
| `LatestAnswer` | the abstract promise of a repeated read: requests are numbered, and what is shown changes to the answer to the newest only |
| `ReadHooks` | useContractRead, useIndexedList and useChainRead, with RPC health |
| `SessionReads` | the reader that all programme screens share: cache, slots, queue; and the cards of a directory |
| `ProgrammeLink` | a programme named by the address bar, and what the registry says of it |
| `ReadProperties`, `MCReads` | their properties; an instance, one of the three at a time |
| `Transaction` | the wallet context, Freighter and one useTransaction with all of its phases |
| `SendHook` | useTransaction as a screen sees it: idle, busy or ended, in four ways |
| `HookPromise` | the specification made of those steps, which `Transaction` implements |
| `Screen` | what the screens share: `SendHook`, the ledger, the person at the keyboard |
| `PayeeScreen`, `FunderScreen`, `RecipientScreen`, `FinalizeScreen`, `VerifierScreen`, `PolicyScreen`, `AttestationScreen`, `AdminScreen`, `KeepaliveScreen`, `StandingScreen`, `ReceiptScreen`, `DirectoryScreen`, `DetailScreen` | the pages, each with its handlers, its gates and what it says |
| `ListScreens` | the lists that take a read of every programme (my awards, my applications, open programmes), and a row of a programme's awards between index and chain |
| `Screens` | `Transaction` and all screens beside each other, one mounted at a time, and what they promise together |
| `MCScreens` | an instance of `Screens` |
| `AlgorithmProofs`, `ProgrammeProofs`, `ReviewProofs`, `MoneyProofs`, `ProtocolProofs`, `ReadProofs`, `TransactionProofs`, `ScreenProofs` | the theorems |

Composition. `Programme` holds what it asks of the contracts it calls (`attested`,
`installed`, `credited`) as state that those contracts may change at any moment.
`Standings` composes record and registry with the callers of `credit`.
`AttestClients` composes attest with its readers, `Offers` a programme with the
screens that read it, `SessionReads` the session reader with the cards that wait
for it. `MCProtocol`, `MCReads` and `Screens` put components that share no state
beside each other in one machine, so their initial states choose one of them.

An operator whose name begins with `Mut` is used by no action. It is the operator
after it with a plausible mistake: a missing check, a wrong rounding, a forgotten
reset. `PROJECT.json` pairs each property of a passing run with one or more of
them: with the mistake in place, TLC finds that property violated in that run, so
the run does exercise what the property is about.

### State of `Programme`

| Variables | In the code |
|---|---|
| `now` | `env.ledger().timestamp()`, in abstract units |
| `releaseDeadline`, `sweepDeadline` | the two fields of `Key::Config` that can change; the others are constants |
| `cancelled`, `paused`, `feeSwept` | `Key::Cancelled`, `Key::Paused`, `Key::FeeSwept` |
| `contributed`, `granted`, `released`, `refundedTotal`, `sweptTotal` | the instance totals |
| `donated`, `refunded` | `Key::Donor`, `Key::Refunded` |
| `application`, `voted`, `award` | `Key::Application`, `Key::Voted`, `Key::Award`; `NoApplication`, `NoVote` and `NoAward` stand for an absent entry, which no stored one can equal (a request and a vote are positive) |
| `payees`, `verifiers`, `used`, `allocation` | `Key::Payee`, `Key::Verifier`, `Key::Used`, `Key::Allocation` |
| `balance`, `paid` | the contract's token balance, and what it sent to each address |
| `attested`, `installed`, `credited` | what attest, policy-spend and record answer or keep |

Each entry point is one action under its own name, whose guard is every check the
call makes, those of the contracts it calls included (`Proven`, `PolicyHolds`, the
positive amount `record.credit` insists on, the balance the token insists on). Where
a property asks whether a call would be accepted, these checks have a name of their
own (`CanRefund`, `CanRelease`, ...), and the action is that operator and
assignments. A rejected call writes nothing and is a stuttering step. The
constructor's checks are `ConstructorChecks`, assumed of the constants; what it
writes is `Init`.

### Abstractions of `Programme`, and why they lose nothing the properties see

* **Batches.** `release_batch` loops over its uids. All its effects are the
  same in any order, so `ReleaseBatch` takes a set, and a closed form
  (`BatchAmount`, `AdvanceBy`) in place of the loop. Theorem `BatchIsReleases`
  proves that the closed form is n turns of the loop, also when the batch goes
  past the last tranche, which the code allows. A uid that occurs twice is
  refused by the code as already used; a set cannot hold one. `allow_payees`
  and `deny_payees` skip repetitions, so they too take sets.
* **Overflow.** Arithmetic is checked in the code and an overflow reverts, so
  it produces no value. `MAX_AMOUNT` stands for `i128::MAX` in `Contribute`.
  The products `total * fee_bps` and `donated * unpaid` are assumed to fit: they
  do while amounts stay below about 2^63 units; beyond, the code would refuse
  the call. `/` truncates towards zero and is only reached with non-negative
  operands, where it is `\div`.
* **Callers.** `require_auth` is taken as given: a donor's action is taken by
  that donor. Actions that need the creator are in `CreatorStep`.
* **Addresses.** The treasury is none of the donors, applicants or
  destinations, so that `paid` tells apart why money was sent. Payees that the
  creator lists are taken from `Destinations`, and the payee of an award from
  there and the applicant itself.
* **Attestations** are the claims of the programme's schema only, each issued
  once (`attest` hashes a nonce). `Void` is a revocation or an expiry: either way
  `verify` answers no from then on. It may happen to any live claim at any time,
  which covers revocable and irrevocable schemas and every expiry date. A claim
  under another schema never verifies here and is left out.
* **Left out of the model:** archival and TTL bumps (`keepalive`, 1848-1868,
  and every `extend_ttl`), events, metadata hashes and submission times, and
  the views that only read.

### Abstractions of the other modules

* **Uids.** A schema's or an attestation's uid is a hash of what it was made
  from; here it is the tuple of those things (`Attest`). An id is then fresh
  exactly if the code's is, collisions of SHA-256 aside.
* **The record's chain** hash(credit, chain before) is the sequence that was
  folded into it (`Standings`, `StandingScreen`): two of them are equal exactly
  if the histories are.
* **Walks.** The 64 of the contract and the depth of the lookup are the constants
  `CYCLE_DEPTH` and `WALK_DEPTH`, so that a run can go beyond them.
* **Reads.** The `deps` of a hook are one value, the subject. An answer is a
  version of what the subject names. `useChainRead` has no generation: a run of
  its effect is one, and its cleanup is a generation without a call.
* **Lists read programme by programme** (`ListScreens`). What a programme holds of
  an account is a number that grows: no entry, an entry, one that moved on; an
  entry read in two calls keeps the numbers of both. That only the newest read
  writes is `ReadHooks`; here a new read takes the place of the one under way. A
  refetch calls with what the last effect saw, as `callRef` does. Stand-ins of
  sample programmes are in every list that was read, and left out.
* **The session reader.** A programme's chain state is the sequence and the set of
  reads that the code makes of it, in its order; the runs shorten both, which
  leaves the way they take slots as it is.
* **Freighter** is external. Its user may switch account and network, grant,
  refuse or ignore a request at any moment; a request is answered with what
  Freighter holds at that moment.
* **Screens** know a send by four outcomes: confirmed, refused, declined by the
  person, or applied although no answer came back. The phases in between, which
  `Transaction` tells apart, are one ("busy"). One screen is mounted at a time;
  a handler's closure is what the call it made carries.
* **Texts.** Addresses, amounts, ids, URLs and documents are members of small
  sets, in which there is one of each kind that the code tells apart: empty,
  malformed, repeated, unknown, known. Wording, order of display, focus and
  layout are left out.

## Runs

Each run asks one question; six must pass, six must be violated.

| Run | Instance | Checks |
|---|---|---|
| `review` (`MCReview`) | three reviewers, quorum 2, two applicants, votes 0, 2, 4, 6, 7 on requests of 6, minimum award 3, one contribution of 10 with a 10 % fee | `VotesMatchBallots`, `AwardBackedByQuorum`, `BudgetNeverExceeded`, `StepsAreTrue`, `AwardTermsFixed`, `ComputedAwardIsGranted` |
| `money` (`MCMoney`) | two donors giving 10 or 13, one award of 11 in two tranches in each of three modes, one claim, partial refunds and spends of 5, one extension beyond the sweep deadline, under `FairSpec` | `TypeOK`, `Conservation`, `DonorsPayable`, `RefundsAreProportional`, `DonorsNeverTrapped`, `FeeTakenOnce`, `CancelledUnspent`, `OffersMatchContract`, `MoneyPanelAddsUp`, `PoolFrozen`, `NothingStranded` |
| `release` (`MCRelease`) | two Restricted awards of 5 in two tranches, three claims under a restricted schema, batches of one or two, one wallet | `OneProofOneTranche`, `ReleasedOnSchedule`, `AwardsPayable`, `ReleasedTilesAddUp`, `PaymentsAreSanctioned` |
| `protocol` (`MCProtocol`) | three schemas with `CYCLE_DEPTH` 1; claims checked and schemas looked up (`WALK_DEPTH` 2) while the contract moves; a registry, a record, two accounts, two programmes, three credits of 0 to 2; one wallet with caps 0, 2, 3 and periods 0 to 2, four signatures under one set of rules, a clock to 4 | `SchemaChainsEnd`, `ClientsAnswerTruly`, `StandingsAddUp`, `SpendingIsCapped`, `HistoryIsKept`, `GovernedByRegistry` |
| `reads` (`MCReads`) | a hook of each kind over two subjects, each answer changing once, three generations; a directory of two programmes and a registry walk of one step with `MAX_CONCURRENT` 4; two links, one registered, a malformed one and the demo | `HooksShowNow`, `NothingForgotten`, `LinkedIsRegistered`, `DataIsOfNewestRead`, `SpinnerEnds`, `CardsSettle` |
| `screens` (`MCScreens`) | every page, each with two clicks and two of each thing it can name; one useTransaction with two accounts, two sends and one request to Freighter beside them | `WritesAreReportedTruly`, `ReadsAreShownTruly`, `DeployMeetsTerms`, `NoDoubleSubmit`, `SignerIsSource`, `NothingTransferredIsTrue` |
| `batch_over_release`, `batch_while_paused`, `zero_tranche`, `deadlines_meet` | one award | one property each, see below |
| `reader_blocked` (`MCReads`) | three programmes and the walk of the registry | `CardsSettle` |
| `deploy_refused` (`MCScreens`) | as in `screens` | `FormEnforcesConstructor` |

The runs of the programme use deadlines 1 < 2 < 3 < 4 (apply, review, release,
sweep), so that each phase, and each instant in which one ends and the next
begins, is a value of the clock. `MaxTime` is the last instant that can make a
difference in the run. Every other bound is a set of arguments.

### Why these bounds are enough to be interesting

*review*: three reviewers are more than the quorum, so votes beyond it move the
vote that finalize reads; equal votes of two reviewers make an amendment choose
between equal entries; votes of 0 and 7 and a contribution and request of 0 are
refused, votes of 2 fall below the minimum; two awards of 6 do not fit a budget
of 9 but would fit contributions of 12. Reviewers and applicants are
interchangeable here, hence the symmetry; no liveness is checked with it.

*money*: 10, 13, 20, 23 and 11 make the fee and every share round; one tranche
of 5 may be out, in escrow or spent when refunds open; both sweeps come in any
order with the rest. The extension drags the sweep deadline along, and the clock goes
on to it, so that what is stranded would stay stranded with every deadline passed.
*release*: 5 in two tranches leaves a remainder of 1;
contributions of 10 and 11 put the budget below and at what two awards need when
the fee is ignored; the clock stops at 2 since the release window is one instant
like another. Its awards are Restricted, the mode that looks at another contract
for each tranche; that payments are sanctioned in the other modes is proved.

*protocol*: a chain of three schemas is longer than a walk of one step, so the
contract accepts without having seen the end, which is the case that the comment
on cycles worries about; a walk of two steps is truncated by it. A claim can be
revoked, expire or be replaced before, between and after the two reads of a
check. A lookup begins with or without a schema in the page's address, of a schema that
is registered or not yet, and may be followed by another one while it is read, so the
card holds the schema before, none, or an error. Two programmes and the admin's own writers credit one recipient while both
admins are handed over. A window of 1 or 2 in a clock to 4 begins, lapses and is
renewed; four signatures of up to two transfers reach a cap of 3 from below, and
within two windows twice of it; caps and periods of 0 are refused.

*reads*: three generations are the least in which an answer is older than two
others; two subjects, the absence of one and a second version tell apart a late
answer, a stale one and one about something else. Two programmes and the walk
take three of the four slots, so their leaves queue, wake each other and fail
beside one free slot; a fourth composite blocks them for good, which is the run
`reader_blocked`.

*screens*: two clicks are what a double submission, a retry and an edit after the
first send need; two of each thing let another one be opened while an answer is
pending; a batch of three addresses with one repeated, of which two fit a
transaction, has a full batch, a last one and a duplicate. For the lists, one programme
is known without the index and one is not, one takes a second read, and two moves
let an entry appear before a read, between its calls, or after it; of the rows of
awards, the two programmes have the same recipient or different ones. For the form of
a deployment, one schema is restricted and one is not, the only verifier is its
authority or not, the minimum award is none or one below two tranches, and the clock
may reach the first deadline while the form is open.

### Fairness

* `FairSpec` (`money`) asks for weak fairness of the clock and of
  `SweepUnclaimed`, nothing else. Ledgers close whatever a contract does. The
  sweep is open to anybody ("Permissionless, so nobody has to be trusted to
  remember", 1715), so it needs one willing caller and no cooperation of the
  creator, donors, reviewers or recipients. No fairness is assumed of those.
* `HookFairness` (`reads`): every promise of a call settles in the end, a request
  times out at worst. Nothing is assumed of its answer, of the order of answers,
  or of the person.
* `SessionFairness` (`reads`, `reader_blocked`): every simulation that was sent
  answers or fails, and a promise's continuation runs. The walk and each
  programme's reads are taken one by one: no read waits for the luck of another,
  and none is assumed to get a slot.

**Deadlock** is checked in the runs of `MCProgramme` and does not occur: the
other contracts are never done. In `protocol` the bounds on calls are reached and
in `reads` and `screens` an unmounted hook and a page that was left do nothing
more, so these say `CHECK_DEADLOCK FALSE`.

### An abstract promise and three hooks that keep it

`LatestAnswer` has two numbers: how many requests were made, and the request whose
answer is shown, which only ever becomes the newest one. `DataIsOfNewestRead`
instantiates it with `hook.generation` and the generation of `hook.data`, and
says that each of the three hooks implements it, whichever way it gets there: two
compare generations, one cancels in its cleanup. Run `reads` checks it and
theorem `HookImplementsLatestAnswer` proves it.

### Disagreements found

Each is a run that TLC must find violated; the trace is a few steps long.

| Run | Property | What happens |
|---|---|---|
| `batch_over_release` | `NotOverReleased` | `release_batch` asks once, before its loop, whether a tranche is left (1480); a longer batch releases past the award, out of other people's money. `an_award_cannot_over_release` (`test.rs:1505`) tests the single path only |
| `batch_while_paused` | `PauseStopsReleases` | `release_batch` never asks whether the programme is paused; the comment of `pause` lists release as covered (1873) |
| `zero_tranche` | `TranchesArePayable` | with `minimum_award` 0 an award may be smaller than its number of tranches; its tranche is 0, which `record.credit` refuses, so it can never be released ("Each tranche must be at least 1 stroops to be payable", 632) |
| `deadlines_meet` | `DeadlinesInOrder` | an extension may set the release deadline equal to the sweep deadline, while its comment promises `release < sweep` (1787-1788) |
| `deploy_refused` | `FormEnforcesConstructor` | "Every constructor constraint from `contracts/program/src/lib.rs` is enforced where it is entered, before anything is signed" (`components/admin/DeployProgramme.tsx:47-48`), but a restricted schema's authority that is no verifier (675), a minimum award below the number of tranches (638) and a deadline that has passed since the form was mounted (608; `DeployProgramme.tsx:141`) are refused by the constructor alone |
| `reader_blocked` | `CardsSettle` | a composite read keeps its slot while it waits for reads that need one of the same pool (`lib/programmeReads.ts:45`): four of them admitted together wait for ever, and every later read behind them, although the directory is said to fill in "card by card" (`hooks/useProgrammeReads.ts:14-15`) |

The first disturbs other properties: after an over-release the money for other
awards and for refunds may be gone. `AwardsPayable`, `DonorsPayable`,
`DonorsNeverTrapped`, `MoneyPanelAddsUp` and parts of `OffersMatchContract`
therefore have `NotOverReleased` as a hypothesis, and state what holds of a
programme in which it did not happen. All the other properties hold with
over-releases included.

### Smaller divergences seen while modelling, without a run

In the contracts:

* The comment of `deny_payee` says it "stops future payments" (1067-1068), but a
  Direct award keeps paying the payee it was finalized with.
* The vote vector is "bounded by `quorum`" (28-33), but is bounded by the number of
  reviewers; finalize reads the vote at index (quorum-1)/2 of *all* votes, so votes
  after the quorum lower or raise what the comment calls the "median of the first
  `quorum` votes" (962).
* A reviewer listed twice counts twice towards the quorum check of the constructor
  (625) but votes once.
* `policy-spend` resets a window at the first spend after it lapsed, so up to twice
  the cap may leave within one sliding period; `SpendingIsCapped` states that bound.

In the front end:

* Reads. `useContractRead` keeps `data` of the previous subject while the next is
  read, and an error beside a newer success when its deps changed (hence
  `NoErrorBesideNewerData` is about the other two); `fetching` stays false when the
  deps change; `refetch` is not conditional on `enabled`. After a failure, "Try
  again" clears the error but not `loaded`, so while the list is read again
  `RecipientAwards` (21-34) and `ApplicationTimelineList` say that there are no
  awards and no applications, though nothing was read. An award of Allocated mode is
  read in two calls: its escrow may be of a later moment than `released` beside it,
  and after a disconnect the awards of the account before stay on the page. A row of
  `AwardsTab` that persists from one programme to the next shows the award in the
  first while that in the second is read, and "Index behind" (99-108) is said of any
  difference, also when the index came later than the chain's answer. The session
  reader says "Failures are never cached" but keeps a composite whose optional reads
  failed, as nulls, and nothing of it is invalidated after a transaction.
* Transactions. `slow` is only cleared by `reset`; `reset` of a send in flight
  re-enables a button though the ref still refuses a second send; the phase
  `submitting` begins only after the submission has resolved. The wallet's recheck,
  with the address it captured, may end as connected without an address.
* Figures. `applicationView.medianVote` takes the median of all votes, the contract
  the lower middle of the quorum. "Remaining budget" of `FinalizeAwards` ignores
  what is granted already. The directory's derived contributions may exceed the
  real ones by two units. `chainFromRead` puts what was refunded into `refundable`.
  `amount.fundFlows` leaves escrow and the swept fee out of `held`.
* Gates. `programmeActions` offers contribute and apply while paused, and release
  after its deadline; spending from escrow is offered once Settled, though the
  contract accepts it before. A form of deployment whose read of
  a schema failed once stays refused, whatever a later one answers, until the page is
  left; and its reviewers may repeat each other, as the constructor lets them.
* Late answers. In `PayeeManagement` a bulk check's answer may arrive after the text
  has changed, a retry resends batches that landed (against its comment, 314-320),
  duplicates are sent (against 497-498), and a removal lists as added what stood in
  the address field when it was clicked (201-217). `AllocatedSpending` marks an edited
  address as verified by the answer about the one before. `VerifierDashboard` says
  "Nothing was sent" of a declined claim while a signature is pending.
  `ContributeFlow`'s receipt shows an amount edited after it was sent. `ReceiptLookup`
  puts a hash beside another transaction's contribution when lookups overtake each
  other or the field is edited. The verdict on a pasted history stands beside a text
  edited during its check, and a "Verified" document beside another programme that was
  opened meanwhile. `SpendPolicy`'s "Added in this session" is not kept by wallet.
  `Keepalive` marks the row begun last when an earlier one fails, and rows of a
  programme chosen while another one's were being extended. The properties of the
  screens name these cases, see *The screens* below. `RegisterSchema` shows a schema's
  details under the uid of the next one until that is read, also beside the error of
  its read, and says "No schema with that UID" during the first read of a page that was
  opened without `?schema=`.
* Verification. `AttestationLookup` says "Valid on-chain" of an expired attestation
  when it is looked up by id; a reason given beside "No" may be of the first of two
  reads. `verifyStandingHistory` stops at the first mismatch though its comment
  (128-130) promises the rest. `MetadataCard` leaves objects inside arrays unsorted
  before it hashes (180-199).

## Proofs

`tlapm` proves these theorems for all values of the constants that satisfy the
assumptions. `Programme` has three: `SetsAssumption` (what addresses and claims are;
donors, applicants and attestations are finite sets, as everything is that a ledger
holds), `InputsAssumption` (arguments are integers, of either sign, and batches have
at most 50 proofs) and `ConstructorAssumption` (the checks of `__constructor`).
`Attest` assumes that `CYCLE_DEPTH` is a natural number and that no schema has the
uid that stands for none; `Standings` that the registry is not a person's account and
that amounts are integers; `PolicySpend` that caps and amounts are integers of either
sign, periods natural numbers and the calls of a signature finitely many; `ReadHooks`
that "no subject" is not one and that its bounds are numbers; `SessionReads` that the
names of a card's reads are texts, none of them both required and optional and none
the composite's own, and that programmes are finitely many and none is called
"registry". Of the screens, `Screen` assumes that there is a programme and that the
text of no address is none's; `AdminScreen` that what is entered are lists of texts,
integers and four times, and that only a uid names a schema; `StandingScreen`, `ReceiptScreen` and `DirectoryScreen` that
a history that is pasted, the operations of a transaction and the ids of a list are
finite lists, and what the chain says of a programme are integers or was not read;
`DetailScreen` that a fetch answers with a document, one that cannot be parsed or a
failure, and that a programme's deadlines are in order, as its constructor checks;
`ListScreens` that what is listed without the index are programmes. `Transaction`
assumes nothing. No number of actors is bounded but by being
finite, and no bound in a guard (`MaxSends`, `MaxSpends`, ...) has to be small.

| Module | Theorem | Property |
|---|---|---|
| `ProgrammeProofs` | `TypeCorrect` | `TypeOK`: no amount, the balance included, is ever negative |
| | `ReleasesOnSchedule` | `ReleasedOnSchedule` |
| | `PoolIsFrozen` | `PoolFrozen` |
| | `RefundsStayProportional` | `RefundsAreProportional` |
| | `BudgetHolds` | `BudgetNeverExceeded` |
| | `CancelledStaysUnspent` | `CancelledUnspent` |
| | `FeeIsTakenOnce` | `FeeTakenOnce` |
| | `EveryTrancheHasItsProof` | `OneProofOneTranche` |
| | `AwardTermsStayFixed` | `AwardTermsFixed` |
| | `PaymentsStaySanctioned` | `PaymentsAreSanctioned` |
| `AlgorithmProofs` | `BatchIsReleases` | the closed form of a batch is the code's loop |
| `ReviewProofs` | `VotesMatch` | `VotesMatchBallots` |
| | `QuorumBacksAwards` | `AwardBackedByQuorum` |
| | `StepsStayTrue` | `StepsAreTrue` |
| | `ShownAwardIsGranted` | `ComputedAwardIsGranted` |
| `MoneyProofs` | `BooksBalance` | `Conservation` |
| | `AwardsStayPayable` | `AwardsPayable` |
| | `DonorsStayPayable` | `DonorsPayable` |
| | `MoneyStaysThere` | `MoneyIsThere`: what is due passes the checks of its call |
| | `NoDonorIsTrapped` | `DonorsNeverTrapped` |
| | `ClaimableIsPaid` | `ClaimableIsDue`, the part of the next about claims |
| | `OffersAlwaysMatch` | `OffersMatchContract` |
| | `TilesAlwaysAddUp` | `ReleasedTilesAddUp` |
| | `PanelAlwaysAddsUp` | `MoneyPanelAddsUp` |
| `ProtocolProofs` | `ChainsOfSchemasEnd` | `SchemaChainsEnd` |
| | `HistoryStays` | `HistoryIsKept` |
| | `ClientsTellTheTruth` | `ClientsAnswerTruly` |
| | `RegistryGoverns` | `GovernedByRegistry` |
| | `StandingsAlwaysAddUp` | `StandingsAddUp` |
| | `SpendingStaysCapped` | `SpendingIsCapped` |
| `ReadProofs` | `HookImplementsLatestAnswer` | `DataIsOfNewestRead`, a refinement |
| | `SettledHooksShowNow` | `HooksShowNow` |
| | `LinkedProgrammesAreRegistered` | `LinkedIsRegistered` |
| | `NothingIsForgotten` | `NothingForgotten` |
| `TransactionProofs` | `OneSendAtATime` | `NoDoubleSubmit` |
| | `SourceSigns` | `SignerIsSource` |
| | `NothingMeansNothing` | `NothingTransferredIsTrue` |
| | `SendsAsPromised` | `Transaction` implements `HookPromise`, a refinement |
| | `SuccessWasApplied` | success means that the last call sent was applied |
| | `DeploySendsItsTerms` | `DeployMeetsTerms`, and what is announced was applied and is what is shown |
| `ScreenProofs` | `WritesReported` | `WritesAreReportedTruly` |
| | `ReadsReported` | `ReadsAreShownTruly` |

**The programme's money** is one chain of inductive invariants.

1. `TypedAwards == TypeOK /\ AwardsOK`. `TypeOK` is not inductive alone: that
   what a release pays is positive, and `released` a natural number, depends on
   the award being on its schedule (`k` regular tranches after `k` releases, all
   of it after the last). `AwardsOK` says so, and that an award belongs to a
   finalized application and has a payee its mode allows. The arithmetic is in
   `AlgorithmProofs`: `TrancheBounds`, `AdvanceOnSchedule`,
   `AdvanceByOnSchedule`.
2. `DeadlinesOK`, the order of the deadlines as far as extensions keep it,
   gives `PoolFrozen`: refunds open only when contributions and releases no
   longer can happen.
3. `RefundsOK` adds to the property that refunds are open once a donor has
   claimed, so that the frozen pool keeps the claim within its share.
4. `UnspentOK` (nothing released means nothing in escrow; cancelled means
   nothing released), `FeeOK` (a swept fee means contributions are closed, so
   `Fee` no longer changes) and `WithdrawnOK` (only applications are withdrawn)
   strengthen their properties in the same way.

5. `Solvent` joins them with `Conservation`, for what the balance covers.
6. `Comparable` adds what the screens take for granted: after the sweep the
   balance is zero (`SweptOut`), escrow belongs to awards of Allocated mode
   (`EscrowIsAllocated`), and votes are cast only after the deadline for applying
   (`VotesAfterOpen`).

**Sums and folds.** The library's induction theorems cannot be used, but induction
over the subsets of a finite set can be stated with a *set* of subsets in the place of
a predicate (`SubsetInduction` in `AlgorithmProofs`, from the well-founded order on
them). It gives what the community modules' folds satisfy: there is exactly one
function that follows the equation of the sum (`AddsUnique`), and the fold is it. From
there on sums are handled by lemmas: one entry more or less, one changed, two
compared, a set split, the amounts of some records of a growing list.
`Conservation` is then inductive by itself. `AwardsPayable` and `DonorsPayable`
are not, but follow from `Solvent`: what was granted fits the budget
(`BudgetNeverExceeded`), and each donor's share, multiplied by the contributions, is
at most the donation times the pool, so the sum of the shares is within the pool.
Their premise `NotOverReleased` leaves out the state that the finding on
`release_batch` describes. `MoneyIsThere` takes the step from covered to accepted:
a refund, whole or in part, a tranche, a batch or a spend that is due passes every
check of its call, the transfer's included. `DonorsNeverTrapped` is its case of a
whole refund.

**What is offered.** `OffersMatchContract` compares two sets of checks, call by
call: those of the screen and those of the contract. One direction is that the
contract's imply the screen's; in the other the difference has to be one of the
named reasons, and for releases and spends that want of money is none of them is
`MoneyIsThere`. That a refund is only accepted while the panel offers it takes the
sum of all donors' shares, and `SweptOut` for the time after the sweep; that an
award offered to be finalized is not too early takes `VotesAfterOpen`. For
`StepsAreTrue` it is enough that an application is decided exactly if it has an
award (`DecidedHaveAwards`). The tiles of a card are a sum over an interval,
compared with the contract's schedule (`TilesSum`).

`StepCases` splits a step of `Next` once for all of these proofs: single releases
and batches share one description (`ReleaseEffect`), and steps that touch neither
money nor awards another (`Quiet`). The proofs then have one step per case.

**The votes.** The vector holds amounts without names. `ReviewProofs` gives the
names back: a function from its positions one-to-one onto the reviewers who voted,
such that each position holds its reviewer's ballot (`Matched`). Insertion and
amendment carry it along. A majority of the quorum's positions lies at or above
the vote that finalize reads, in a sorted vector, so a majority of reviewers
stands behind it; later votes do not change the award (`Backed`).

**Attestations.** `AttestInv` ranks the schemas by the order of their registration.
A predecessor exists when its successor is registered and a uid is registered once,
so ranks fall along every chain. The proof never uses the contract's walk: that
chains end holds whatever the walk's depth. The second half of the proof follows a
check while the contract moves, collecting the truths it has come across (`truths`);
the answer it ends with is one of them. A lookup's chain falls in rank, so the walk
never meets a schema twice and stops at the oldest one or at its depth. What the card
holds is such a chain and stays one, since schemas are only added; that it is of the
schema in the page's address is claimed, and holds, while no read of another one is
under way and the newest did not fail.

**Standings.** As long as the registry is the record's admin, the only step that
changes the writers is `create`, which adds the programme it deploys;
`StandingsShape` says what the proof needs of the values. For the sums, `RecordOK`
adds that the pairs the record has seen are those that its credits name, so that a
programme is counted when it is new; the place of a credit in its subject's history is
how many credits to the subject there are up to it (`PlaceInRoot`).

**Spending.** A cap per window does not bound what may leave in a stretch of time that
straddles two windows; `Kept` says why twice the cap does: a stretch as long as a
period that reaches into the present window had no more than the cap before it, all in
the one window before. It is kept by a spend in the window, by one that opens the
next (what came before is then all of the past), by time and by a new set of rules.

**Reads.** `HookInv`: no two calls share a generation, none is newer than the hook,
and the newest one is about the present subject. So an answer that passes the
generation check is the newest, and what it leaves is of now. For links,
`AnswersAreTrue` says that a verification in flight is of the programme it was
begun for and that an accepted one was registered.

**The reader.** `NothingForgotten` counts slots, and its fold asks for several reads
at once: `ReadAllKeeps` follows the fold place by place, with the induction above.
The invariant `ReaderOK` adds what waits for what: each pending leaf is waited for by
its composite, which is admitted as long as it waits, for one required read or for
some optional ones. So a composite that ends leaves no leaf behind, and each end
gives up one slot, which goes to the head of the queue. `CardsOK` says that a card
that loads among those wanted is listening and not completed; it is what a run of the
effect re-establishes for everything that an earlier run left loading.

**Transactions.** `TransactionInv` ties the ref `inFlight` to the one call in
flight: `reset` changes the phase that a button looks at, not the ref.
`SignedByCaller` carries the address the call was built for to its signature,
and `AppliedBefore` says that an error which claims that nothing happened is of the
last call, and what was applied is of an earlier one.

`SendsAsPromised` maps a `Transaction` to the hook the screens are written over: its
phases of progress are shown as "busy", a call as its number, and what landed as the
set of applied calls. The wallet's steps show nothing; a click is refused, blocked for
want of a wallet or on the wrong network, or becomes the call in flight; and each of
the ways a send can fail is one of the promise's four ends. The proof uses
`OneInFlight`, since the end of a call has to be of the call that is shown. One step of
the promise is not in `Screen`: a send that goes on after a reset shows "busy" again
(`GoOn`). The gates of the screens only ask that a hook is not busy, so that leaving it
idle there allows more clicks, not fewer. `SuccessWasApplied` is proved of the promise
and carried over.

**The form of a deployment** (`DeploySpec`, the form by itself) may be left and
entered again at every step while a transaction is in flight. `DeployInv` keeps the
terms with the call and not with the fields: `ValidMeetsTerms` proves them of the
fields at the click, and nothing but another click changes the call. `Objections` is all
that the constructor checks, and it is asked at any later moment: the four that may
remain are those of the finding `deploy_refused`, and a schema whose read had not
answered when the button was clicked, which the form's comment leaves to the chain.

**The screens.** A step is by the screen that is mounted and leaves it mounted, so the
invariants have one part per screen and a step has to keep only one of them.

`WritesInv` says of a screen that writes that what is in flight is the call that was
made and that what it announces is on the ledger; and the ledger only grows. What a
screen shows when the answer comes is built from the call, where the code closes
over it, and from the fields on the screen, where it does not. Where the two may differ
the screen keeps whether they do, which the code does not know: `edited` and `crossed`
say that the amount, or the programme, was changed on the way. The property claims the
whole of what is shown while they are false, and in the other case that the call was
made and applied, no more. A payee's row says which call it may stand for (`StandsFor`).
A batch of payees carries which of its addresses were sent, the page of lifetimes its queue,
whose entries are taken in the order of `EXTEND_TARGETS`.

`ReadsInv` says of a screen that reads that an answer is of what was asked: of the
hash, the programme, the pasted history or the account that the request named, while
the screen may have moved on. `apart` and `edited` keep whether it may be shown beside
something else; while they are false, what it is shown beside is what was asked. For lists (`ListInv`) it says more, since they are read
programme by programme: each answer lies between what the programme held when the
read began (`since`) and now, which is what it held when the list was put together
(`until`). The rest is about what the pages compute. The verdict on a history, the
roots it is checked against, the lookup of a contribution among operations and the
merging of the three sources of the directory are folds over lists; `FoldsWithin`
says that a fold is the value, at the set of all places, of the function that follows
its equation on the sets of places, and from there on each is an induction over places. The
directory's order is kept by the sort because `Precedes` is a strict order of
entries, and each programme is listed once because merging skips what is there.

**Only model-checked.** `NothingStranded`, `SpinnerEnds` and `CardsSettle` are
liveness properties, which are out of this prover's reach. Every other property of a
passing run has its theorem. The violation runs need no proof.

## Not modelled

* **Archival.** Soroban entries expire unless their time to live is extended.
  `keepalive` of every contract and every `extend_ttl` are left out: they decide
  nothing in the contracts, and the ledger restores an archived entry on demand.
  What the page shows of lifetimes is in `KeepaliveScreen`.
* **Upgrades** of record and registry replace the code that is modelled, and the
  registry's `set_policy`, `set_treasury` and `set_program_wasm` store one value
  each, in the way of `set_fee`, which is modelled.
* **attest-integration** is an example consumer, without state of the protocol.
* **`lib/lazyWithRetry`** keeps a flag in sessionStorage across reloads of the
  document; a reload starts everything else anew. (Its flag is never cleared, and
  with storage disabled it reloads again and again.)
* **Amounts, dates, CSV and calendars** (`lib/amount`, `format`, `csv`, `ics`) are
  sequential conversions of strings with tests of their own. The figures computed
  from them are in `Offers`.
* **Pages that only lay out** what one read returned, the landing page, the
  documentation, styles, the design prototype and the wording of messages.
* **Generated bindings** (`packages`), the test harnesses and integration tests, the
  scripts and examples.

## What is left

In the order of what it would add: a composite of `Programme` and `Standings` in
which two whole programmes credit one record (each is modelled with the other's
part as its environment), and a reader with as many slots as a whole directory needs,
to compare with the one that blocks.
