----------------------------- MODULE MCProtocol -----------------------------
(***************************************************************************)
(* An instance of the contracts around a programme, each on its own: the   *)
(* part is chosen with the initial state. The check of a claim and the     *)
(* lookup of a schema share nothing but the contract, so each has its own  *)
(* part, and nothing is attested beside a lookup, which reads no           *)
(* attestation.                                                            *)
(***************************************************************************)
EXTENDS AttestClients, Standings, PolicySpend

CONSTANTS a, b   \* accounts

VARIABLE part
protocolVars == <<part, attestVars, clientVars, standingsVars, policyVars>>

SchemaD == <<"x", "d">>
SchemaE == <<"x", "e">>
SchemaF == <<"x", "f">>

\* An attestation that there may be, and one that was asked for in the wrong words.
MCClaims ==
  {[uid |-> <<SchemaD, "x", "s", 0>>, subject |-> "s", schema |-> SchemaD, attester |-> "x"],
   [uid |-> <<SchemaD, "y", "s", 0>>, subject |-> "s", schema |-> SchemaE, attester |-> "x"]}

Pay(amount) == [call |-> "transfer", token |-> "usdc", from |-> "w", to |-> "p", amount |-> amount]
MCContexts ==
  {<<Pay(1)>>, <<Pay(1), Pay(1)>>, <<Pay(2)>>, <<Pay(1), [Pay(1) EXCEPT !.from = "v"]>>,
   <<[Pay(1) EXCEPT !.call = "approve"]>>, <<Pay(0)>>}

\* The claims are checked against a registry with three schemas, each after the
\* first replacing the one before; a lookup begins before the last is registered.
Registered(uid) ==
  [authority |-> "x", revocable |-> uid # SchemaF, restricted |-> uid = SchemaE,
   predecessor |-> CASE uid = SchemaD -> NoUid [] uid = SchemaE -> SchemaD [] uid = SchemaF -> SchemaE]

Init ==
  /\ part \in {"schemas", "claims", "lookups", "standings", "policies"}
  /\ attestations = <<>> /\ attested = 0 /\ now = 0
  /\ schemas = CASE part = "claims" -> [uid \in {SchemaD, SchemaE, SchemaF} |-> Registered(uid)]
                 [] part = "lookups" -> [uid \in {SchemaD, SchemaE} |-> Registered(uid)]
                 [] OTHER -> <<>>
  /\ ClientsInit /\ PolicySpendInit
  /\ part # "lookups" => lookupUid = NoUid
  /\ StandingsInit
  /\ part # "standings" => recordAdmin = Registry /\ config = [admin |-> a, fee |-> 1]

Next ==
  \/ part = "schemas" /\ AttestNext /\ UNCHANGED <<part, clientVars, standingsVars, policyVars>>
  \/ part = "claims" /\ ClientsNext /\ UNCHANGED <<part, lookupVars, standingsVars, policyVars>>
  \/ /\ part = "lookups" /\ ClientsNext
     /\ UNCHANGED <<part, attestations, attested, now, check, standingsVars, policyVars>>
  \/ part = "standings" /\ StandingsNext /\ UNCHANGED <<part, attestVars, clientVars, policyVars>>
  \/ part = "policies" /\ PolicySpendNext /\ UNCHANGED <<part, attestVars, clientVars, standingsVars>>
Spec == Init /\ [][Next]_protocolVars
=============================================================================
