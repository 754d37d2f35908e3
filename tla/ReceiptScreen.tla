---------------------------- MODULE ReceiptScreen ----------------------------
(***************************************************************************)
(* A receipt rebuilt from the hash of a transaction                        *)
(* (frontend/src/pages/ReceiptLookup.tsx, frontend/src/lib/txLookup.ts).   *)
(***************************************************************************)
EXTENDS Screen

CONSTANTS
  TxHashes,       \* transaction hashes
  TxOf            \* what the network knows of each: [status, version, ops]

\* The operations of a transaction are in an order.
ASSUME OperationsAssumption ==
  \A hash \in TxHashes : TxOf[hash].ops \in Seq(ToSet(TxOf[hash].ops))

------------------------------------------------------------------------------
(* txLookup *)

NoContribution == [programme |-> NoAddress, donor |-> NoAddress, amount |-> 0]

\* A fee-bump envelope wraps another; one of no known version has no operations.
OperationsOf(tx) == IF tx.version = "odd" THEN <<>> ELSE tx.ops

\* contribute(donor, amount): a call with other arguments is not one.
IsContribute(op) == op.function = "contribute" /\ op.args = "donor, amount"

MutParseContribution(tx) ==
  LET ops == OperationsOf(tx)
      calls == {i \in DOMAIN ops : ops[i].function = "contribute"}
  IN IF calls = {} THEN NoContribution ELSE ops[Min(calls)].contribution

ParseContribution(tx) ==
  LET ops == OperationsOf(tx)
      calls == {i \in DOMAIN ops : IsContribute(ops[i])}
  IN IF calls = {} THEN NoContribution ELSE ops[Min(calls)].contribution

LookupTransaction(hash) ==
  [of |-> hash, status |-> TxOf[hash].status,
   contribution |-> IF TxOf[hash].status = "SUCCESS" THEN ParseContribution(TxOf[hash])
                    ELSE NoContribution]

------------------------------------------------------------------------------
(* ReceiptLookup *)

NoResult == [of |-> NoAddress, status |-> "none", contribution |-> NoContribution]
Looking(kind, result) == [kind |-> kind, result |-> result]

\* `seed` is the hash in the address of the page, looked up on arrival; `lookups`
\* are the requests in flight.  `apart` keeps whether the field has been edited since
\* the last request, or another one was in flight when that was made.
ReceiptInit ==
  \E seed \in TxHashes \cup {NoAddress, Malformed} :
    screen = [is |-> "receipt", input |-> seed,
              state |-> Looking(IF seed \in TxHashes THEN "searching" ELSE "idle", NoResult),
              lookups |-> {seed} \cap TxHashes, apart |-> FALSE]

TypeHash(text) ==
  /\ screen.is = "receipt" /\ screen.input # text
  /\ Show([screen EXCEPT !.input = text, !.apart = TRUE])

\* Nothing stops a second request while one is in flight.
RebuildReceipt ==
  /\ screen.is = "receipt" /\ screen.input # NoAddress
  /\ LET asked == [screen EXCEPT !.apart = screen.lookups \ {screen.input} # {}]
     IN Show(IF screen.input \notin TxHashes
             THEN [asked EXCEPT !.state = Looking("failed", NoResult)]
             ELSE [asked EXCEPT !.state = Looking("searching", NoResult),
                                !.lookups = @ \cup {screen.input}])

\* The answers are written in the order they come, or the request fails.
ReceiptAnswers(hash) ==
  /\ screen.is = "receipt" /\ hash \in screen.lookups
  /\ \/ Show([screen EXCEPT !.lookups = @ \ {hash},
                            !.state = Looking("result", LookupTransaction(hash))])
     \/ Show([screen EXCEPT !.lookups = @ \ {hash}, !.state = Looking("failed", NoResult)])

\* What the page shows: a receipt shows the hash that is in the field now.
Receipt ==
  LET result == screen.state.result
  IN CASE screen.state.kind # "result" -> [says |-> screen.state.kind]
       [] result.status = "NOT_FOUND" -> [says |-> "not known any more"]
       [] result.status = "FAILED" -> [says |-> "did not go through"]
       [] result.contribution = NoContribution -> [says |-> "not a contribution"]
       [] OTHER -> [says |-> "contribution confirmed", hash |-> screen.input,
                    contribution |-> result.contribution]

ReceiptNext ==
  \/ RebuildReceipt
  \/ \E text \in TxHashes \cup {NoAddress, Malformed} : TypeHash(text)
  \/ \E hash \in TxHashes : ReceiptAnswers(hash)

\* "Contribution confirmed" is said of the first contribution of the transaction that
\* was answered last, which went through.  The hash shown beside it is that of this
\* transaction, unless the field has been edited since the last request or another
\* request was in flight when it was made: then the page puts a contribution beside
\* the hash of another transaction (ReceiptLookup.tsx:62-64, 150).
ReceiptIsReal ==
  screen.is = "receipt" /\ Receipt.says = "contribution confirmed" =>
    LET tx == TxOf[screen.state.result.of]
    IN /\ screen.state.result.of \in TxHashes /\ tx.status = "SUCCESS"
       /\ \E i \in DOMAIN tx.ops :
            /\ IsContribute(tx.ops[i]) /\ tx.ops[i].contribution = Receipt.contribution
            /\ \A j \in 1 .. i - 1 : ~IsContribute(tx.ops[j])
       /\ ~screen.apart => Receipt.hash = screen.state.result.of
=============================================================================
