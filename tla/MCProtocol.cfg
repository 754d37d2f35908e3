SPECIFICATION Spec
CONSTANTS
  Authorities = {"x", "y"}
  Definitions = {"d", "e", "f"}
  Subjects = {"s"}
  CYCLE_DEPTH = 1
  NoUid = NoUid
  Never = Never
  MaxSchemas = 3
  MaxNonce = 1
  MaxTime = 1
  Claims <- MCClaims
  BadClaim = BadClaim
  NoClaim = NoClaim
  NoRecord = NoRecord
  WALK_DEPTH = 2
  MaxChecks = 3
  Registry = Registry
  Accounts = {a, b}
  Recipients = {"r", "s"}
  CreditAmounts = {0, 1, 2}
  Evidence = {"e"}
  MaxFeeBps = 1
  Fees = {1, 2}
  MaxProgrammes = 2
  MaxCredits = 3
  a = a
  b = b
  Wallets = {"w"}
  Stewards = {"t", "u"}
  PolicyPayees = {"p", "q"}
  Tokens = {"usdc", "eurc"}
  Caps = {0, 2, 3}
  Periods = {0, 1, 2}
  Contexts <- MCContexts
  MaxSpends = 4
  PolicyEnd = 4
INVARIANTS
  SchemaChainsEnd
  ClientsAnswerTruly
  StandingsAddUp
  SpendingIsCapped
PROPERTIES
  HistoryIsKept
  GovernedByRegistry
CHECK_DEADLOCK FALSE
