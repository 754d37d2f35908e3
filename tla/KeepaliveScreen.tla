-------------------------- MODULE KeepaliveScreen --------------------------
(***************************************************************************)
(* The keepalive page (frontend/src/pages/Keepalive.tsx): how long the     *)
(* entries of a programme stay readable, and the three calls that extend   *)
(* them, each sent alone or all of them one after another.                 *)
(***************************************************************************)
EXTENDS Screen

CONSTANTS
  SamplePage,     \* a programme with no contract behind it
  KeptUids,       \* what is typed as the id of an attestation
  LiveLedgers     \* of a programme, the ledgers its entries have left

Targets == <<"programme", "standing", "attestation">>
TargetKeys == ToSet(Targets)
Place(key) == CHOOSE i \in DOMAIN Targets : Targets[i] = key

------------------------------------------------------------------------------
(* Extending *)

NoRows == [key \in TargetKeys |-> "idle"]
Seeded == CHOOSE p \in Programmes : TRUE
\* What is typed in the two fields is typed before anything else: a call takes it
\* along, and nothing else depends on it.  The subject is the wallet until then.
KeepaliveInit ==
  \E subject \in {"own", Malformed}, uid \in KeptUids \cup {NoAddress} :
  screen = [is |-> "keepalive", programme |-> Seeded, phase |-> "reading",
            asking |-> TRUE, subject |-> subject, uid |-> uid, rows |-> NoRows,
            outcome |-> "none", crossed |-> FALSE, txs |-> [key \in TargetKeys |-> IdleTx],
            queue |-> {}, bulkAt |-> "none", bulk |-> FALSE, current |-> "none"]

AtKeepalive == screen.is = "keepalive" /\ screen.programme # SamplePage

Subject == IF screen.subject = "own" THEN me ELSE screen.subject

\* Why a target cannot be extended now: the link, the wallet, the phase, its input.
KeepaliveBlocked == me = NoAddress \/ screen.phase # "read" \/ screen.programme = SamplePage
Extendable(key) ==
  ~KeepaliveBlocked /\ (IF key = "attestation" THEN screen.uid \in Uids ELSE IsAddress(Subject))

\* The phase is read, or the read fails; read again, it keeps what it has.
PhaseAnswers ==
  /\ AtKeepalive /\ screen.asking
  /\ \E phase \in {"read", "failed"} : Show([screen EXCEPT !.phase = phase, !.asking = FALSE])
\* Choosing a programme forgets the rows, also those that are pending.  `crossed`
\* keeps whether something was being extended when this one was chosen.
ChooseKept ==
  /\ screen.is = "keepalive"
  /\ \E p \in (Programmes \cup {SamplePage}) \ {screen.programme} :
       Show([screen EXCEPT !.programme = p, !.rows = NoRows, !.outcome = "none", !.asking = TRUE,
         !.crossed = screen.queue # {} \/ \E key \in TargetKeys : screen.txs[key].inFlight])

KeepaliveOf(key) ==
  [do |-> "keepalive", key |-> key,
   of |-> IF key = "attestation" THEN screen.uid
          ELSE IF key = "programme" THEN screen.programme ELSE "record"]

\* runTarget, up to its await, with a wallet.  A send of the same target in flight refuses this
\* one at once, without an error of its own.
RunTarget(s, call) ==
  LET key == call.key
      began == [s EXCEPT !.current = key, !.outcome = key]
  IN IF s.txs[key].inFlight
     THEN [began EXCEPT !.rows[key] = "error"]
     ELSE [began EXCEPT !.rows[key] = "pending", 
            !.txs[key] = [phase |-> "busy", inFlight |-> TRUE, call |-> call]]

\* "Extend" of one row.
ExtendTarget(key) ==
  /\ AtKeepalive /\ Extendable(key) /\ screen.rows[key] # "pending" /\ Click
  /\ screen' = RunTarget([screen EXCEPT !.bulk = FALSE], KeepaliveOf(key))
  /\ UNCHANGED <<me, ledger>>

\* "Extend all" closes over what can be extended now, and goes on past failures:
\* the queue holds the calls that its loop has still to make.
\* That a second loop is not begun during one is a bound of the model: "Extend" of
\* one row makes the button available again.
ExtendAll ==
  /\ AtKeepalive /\ ~screen.bulk /\ screen.queue = {} /\ screen.bulkAt = "none" /\ Click
  /\ LET items == {key \in TargetKeys : Extendable(key)}
     IN /\ Cardinality(items) > 1
        /\ screen' = [screen EXCEPT !.bulk = TRUE, !.outcome = "none",
                                    !.queue = {KeepaliveOf(key) : key \in items}]
  /\ UNCHANGED <<me, ledger>>

\* One turn of its loop, which is for the first of them.
BulkTurn ==
  /\ screen.is = "keepalive" /\ screen.bulkAt = "none"
  /\ \E call \in screen.queue :
       LET refused == screen.txs[call.key].inFlight
           rest == screen.queue \ {call}
       IN /\ \A other \in rest : Place(call.key) < Place(other.key)
          /\ Show([RunTarget(screen, call) EXCEPT !.queue = rest,
                    !.bulkAt = IF refused THEN "none" ELSE call.key,
                    !.bulk = ~(refused /\ rest = {})])

\* A send ends.  A failure also marks the row that was begun last, whichever that
\* is; the error it shows is the one that was kept last.
KeepaliveSettled(key, outcome) ==
  /\ screen.is = "keepalive" /\ screen.txs[key].inFlight
  /\ LET good == outcome = "success"
         marked == IF good THEN screen.rows ELSE [screen.rows EXCEPT ![screen.current] = "error"]
         inBulk == screen.bulkAt = key
     IN screen' = [screen EXCEPT !.txs[key] = Settled(@, outcome),
          !.rows = [marked EXCEPT ![key] = IF good THEN "done" ELSE "error"],
          !.bulkAt = IF inBulk THEN "none" ELSE @,
          !.bulk = IF inBulk /\ screen.queue = {} THEN FALSE ELSE @,
          !.asking = @ \/ (IF inBulk THEN screen.queue = {} ELSE good)]
  /\ Record(screen.txs[key].call, outcome)
  /\ UNCHANGED <<me, clicks>>

\* The panel under the rows shows the transaction that `outcome` names.
OutcomeShown == IF screen.outcome = "none" \/ screen.bulk THEN IdleTx ELSE screen.txs[screen.outcome]

KeepaliveNext ==
  \/ PhaseAnswers \/ ChooseKept \/ ExtendAll \/ BulkTurn
  \/ \E key \in TargetKeys : ExtendTarget(key)
  \/ \E key \in TargetKeys, outcome \in Outcomes : KeepaliveSettled(key, outcome)

\* A row says "extended" only of a target that was extended; and the row of the
\* programme's entries does of the programme that is chosen, unless it was chosen while
\* something was being extended: the answers for the one before then mark its rows.
KeepaliveDone ==
  screen.is = "keepalive" => \A key \in TargetKeys :
    screen.rows[key] = "done" => \E call \in ToSet(ledger) :
      /\ call.do = "keepalive" /\ call.key = key
      /\ key = "programme" /\ ~screen.crossed => call.of = screen.programme

------------------------------------------------------------------------------
(* Lifetimes *)

SECONDS_PER_LEDGER == 5
SECONDS_PER_DAY == 86400
LedgersToDays(ledgers) == (ledgers * SECONDS_PER_LEDGER) \div SECONDS_PER_DAY

\* The instance of `p` and the awards of the recipients `named`: a group lives as
\* long as the entry of it that is archived first, if the ledger has any.
ReadProgrammeLifetimes(p, named) ==
  LET days == {LedgersToDays(LiveLedgers[p][r]) : r \in named \cap DOMAIN LiveLedgers[p]}
  IN [of |-> p, instance |-> LedgersToDays(LiveLedgers[p]["instance"]),
      awards |-> {d \in days : \A e \in days : d <= e}]
AwardsOf(p) == DOMAIN LiveLedgers[p] \ {"instance"}

\* `named` is the list of awards read last, `naming` the one being read, `asked`
\* what the newest read of lifetimes is about.  The first waits for the list.
LifetimesInit ==
  screen = [is |-> "lifetimes", programme |-> Seeded, naming |-> <<Seeded>>, named |-> {},
            asked |-> <<>>, rows |-> <<>>, failed |-> FALSE]

AskLifetimes(p, named) == <<[p |-> p, named |-> named]>>
AwardsNamed ==
  /\ screen.is = "lifetimes" /\ screen.naming # <<>>
  /\ \E named \in {AwardsOf(Head(screen.naming)), screen.named} :     \* or it fails
       Show([screen EXCEPT !.naming = <<>>, !.named = named,
                           !.asked = AskLifetimes(screen.programme, named)])
LifetimesAnswer ==
  /\ screen.is = "lifetimes" /\ screen.asked # <<>>
  /\ LET ask == Head(screen.asked)
     IN \/ Show([screen EXCEPT !.asked = <<>>, !.failed = FALSE,
                   !.rows = <<ReadProgrammeLifetimes(ask.p, ask.named)>>])
        \/ Show([screen EXCEPT !.asked = <<>>, !.failed = TRUE])

\* Another programme: both are asked again, the lifetimes with the old list first.
ChooseLifetimes ==
  /\ screen.is = "lifetimes" /\ (screen.naming = <<>> \/ screen.rows # <<>>)
  /\ \E p \in Programmes \ {screen.programme} :
       Show([screen EXCEPT !.programme = p, !.naming = <<p>>,
                           !.asked = AskLifetimes(p, screen.named)])
\* "Try again" is offered only as long as no rows were ever shown.
RetryLifetimes ==
  /\ screen.is = "lifetimes" /\ screen.failed /\ screen.rows = <<>> /\ screen.asked = <<>>
  /\ Show([screen EXCEPT !.failed = FALSE, !.asked = AskLifetimes(screen.programme, screen.named)])

LifetimesNext == AwardsNamed \/ LifetimesAnswer \/ ChooseLifetimes \/ RetryLifetimes

\* Rows are those of the programme chosen, unless its read is still under way or
\* failed.
LifetimesShown ==
  screen.is = "lifetimes" /\ screen.rows # <<>> /\ screen.asked = <<>> /\ ~screen.failed =>
    Head(screen.rows).of = screen.programme
=============================================================================
