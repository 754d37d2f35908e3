---------------------------- MODULE PolicyScreen ----------------------------
(***************************************************************************)
(* The spend policy page (frontend/src/pages/SpendPolicy.tsx): any wallet  *)
(* is looked up; its owner installs the signer, its steward configures the *)
(* policy and keeps the payees.  `card` is the one of the three that a     *)
(* behaviour uses: each has a transaction of its own.                      *)
(*                                                                         *)
(* `steward`, `installed` and `allowed` are the contract's; a period, a    *)
(* cap and a token are always good.                                        *)
(***************************************************************************)
EXTENDS Screen

Wallets2 == {Creator, Other}
NotConfigured == NoAddress

PolicyInit ==
  \E card \in {"install", "configure", "payees"}, mine \in {NotConfigured, Creator} :
    screen = [is |-> "policy", card |-> card, checked |-> NoAddress,
              steward |-> [w \in Wallets2 |-> IF w = Creator THEN mine ELSE Creator],
              installed |-> {}, allowed |-> {},
              policySaid |-> NotConfigured, installedSaid |-> FALSE, unread |-> TRUE,
              stewardInput |-> NoAddress, session |-> {}, tx |-> IdleTx]
AtPolicy(card) == screen.is = "policy" /\ screen.card = card

\* The wallet that was looked up, else the connected one.
Target == IF screen.checked = NoAddress THEN me ELSE screen.checked
OwnWallet == me # NoAddress /\ Target = me

HandleCheckWallet(w) ==
  /\ screen.is = "policy" /\ screen.checked # w /\ Show([screen EXCEPT !.checked = w])

\* get_policy and is_installed answer for the target of now; until they do, what
\* they said of the last one stays.
PolicyReadsAnswer ==
  /\ screen.is = "policy" /\ Target # NoAddress
  /\ Show([screen EXCEPT !.policySaid = screen.steward[Target], !.unread = FALSE,
                         !.installedSaid = Target \in screen.installed])

SummarisePolicy ==
  IF screen.policySaid = NotConfigured THEN IF screen.installedSaid THEN "no-rules" ELSE "none"
  ELSE IF screen.installedSaid THEN "protected" ELSE "unprotected"

PageShown == Target # NoAddress /\ ~screen.unread

HandleSetUp ==
  /\ AtPolicy("install") /\ PageShown /\ Click
  /\ \/ OwnWallet /\ SummarisePolicy = "none" /\ ~Busy(screen.tx)
     \/ screen.tx.phase = "error"          \* "Try again", whatever the target is by then
  /\ screen' = [screen EXCEPT !.tx = SendOn(@, [do |-> "install", by |-> me, wallet |-> Target])]
  /\ UNCHANGED <<me, ledger>>

EffectiveSteward ==
  IF screen.stewardInput # NoAddress THEN screen.stewardInput ELSE screen.policySaid
EditSteward(text) ==
  /\ AtPolicy("configure") /\ PageShown /\ me # NoAddress /\ screen.stewardInput # text
  /\ Show([screen EXCEPT !.stewardInput = text])
CanConfigure == me # NoAddress /\ EffectiveSteward = me /\ ~Busy(screen.tx)
HandleConfigure ==
  /\ AtPolicy("configure") /\ PageShown /\ CanConfigure /\ Click
  /\ screen' = [screen EXCEPT !.tx =
       SendOn(@, [do |-> "configure", by |-> me, steward |-> EffectiveSteward, wallet |-> Target])]
  /\ UNCHANGED <<me, ledger>>

IsSteward == me # NoAddress /\ screen.policySaid = me
CanManagePayees == IsSteward /\ ~Busy(screen.tx)
HandleAddPayee(p) ==
  /\ AtPolicy("payees") /\ PageShown /\ CanManagePayees /\ Click
  /\ screen' = [screen EXCEPT !.tx = SendOn(@,
       [do |-> "allow", by |-> me, steward |-> screen.policySaid, wallet |-> Target, payee |-> p])]
  /\ UNCHANGED <<me, ledger>>
HandleRemovePayee(p) ==
  /\ AtPolicy("payees") /\ PageShown /\ CanManagePayees /\ p \in screen.session /\ Click
  /\ screen' = [screen EXCEPT !.tx = SendOn(@,
       [do |-> "deny", by |-> me, steward |-> screen.policySaid, wallet |-> Target, payee |-> p])]
  /\ UNCHANGED <<me, ledger>>

\* Who may do what, in contracts/policy-spend.
PolicyAccepted(call) ==
  CASE call.do = "install" -> call.wallet = call.by
    [] call.do = "configure" ->
         /\ call.steward = call.by
         /\ screen.steward[call.wallet] \in {NotConfigured, call.steward}
         /\ screen.steward[call.wallet] = NotConfigured => call.wallet = call.by
    [] OTHER ->
         /\ call.steward = call.by /\ screen.steward[call.wallet] = call.steward
         /\ (<<call.wallet, call.payee>> \in screen.allowed) = (call.do = "deny")
PolicyApplied(s, call) ==
  CASE call.do = "install" -> [s EXCEPT !.installed = @ \cup {call.wallet}]
    [] call.do = "configure" -> [s EXCEPT !.steward[call.wallet] = call.steward]
    [] call.do = "allow" -> [s EXCEPT !.allowed = @ \cup {<<call.wallet, call.payee>>}]
    [] call.do = "deny" -> [s EXCEPT !.allowed = @ \ {<<call.wallet, call.payee>>}]

\* "Added in this session": one list for all wallets that are looked up.
SessionAfter(s, call) ==
  CASE call.do = "allow" -> s.session \cup {call.payee}
    [] call.do = "deny" -> s.session \ {call.payee}
    [] OTHER -> s.session

\* The reads of a success are repeated for the target of then.
PolicySettled(outcome) ==
  /\ screen.is = "policy" /\ screen.tx.inFlight
  /\ Applied(outcome) => PolicyAccepted(screen.tx.call)
  /\ LET call == screen.tx.call
         onChain == IF Applied(outcome) THEN PolicyApplied(screen, call) ELSE screen
     IN screen' = [onChain EXCEPT !.tx = Settled(@, outcome),
          !.session = IF outcome = "success" THEN SessionAfter(screen, call) ELSE @]
  /\ Record(screen.tx.call, outcome)
  /\ UNCHANGED <<me, clicks>>

PolicyNext ==
  \/ PolicyReadsAnswer \/ HandleSetUp \/ HandleConfigure
  \/ \E w \in Wallets2 : HandleCheckWallet(w)
  \/ \E p \in Payees : HandleAddPayee(p) \/ HandleRemovePayee(p)
  \/ \E text \in Wallets2 \cup {Malformed} : EditSteward(text)
  \/ \E outcome \in Outcomes : PolicySettled(outcome)

\* A payee on the session's list was allowed for one of the wallets looked up, by a
\* call that was applied.  The list is one for all of them: that it is shown beside a
\* wallet does not say that its payees are that wallet's.
PolicyListed ==
  \A p \in screen.session :
    \E i \in DOMAIN ledger : ledger[i].do = "allow" /\ ledger[i].payee = p
=============================================================================
