\* The deploy form offers what the constructor refuses: everything it enforces is
\* not enforced where it is entered.
SPECIFICATION Spec
CONSTANTS
  Accounts = {a, b}
  NoAccount = NoAccount
  MaxAsks = 1
  MaxSends = 2
  a = a
  b = b
  Creator = "alice"
  Other = "bob"
  NoAddress = ""
  Malformed = "bad"
  MaxClicks = 2
  Payees = {"p", "q"}
  Verified = {"p"}
  Programmes = {"P", "Q"}
  Applicants = {"a", "b"}
  Uids = {"u", "v"}
  MAX_PAYEE_BATCH = 2
  BulkTexts <- MCBulkTexts
  Amounts = {0, 1, 2}
  Balance = 1
  Tranches = 2
  Medians <- MCMedians
  Budget = 2
  MinimumAward = 1
  Claims = {"c", "d"}
  Requested <- MCRequested
  Samples = {"s"}
  Found <- MCFound
  Definitions = {"d", "e"}
  KnownSchemas = {"u"}
  AuthorityOf <- MCAuthorityOf
  MaxClock = 1
  People <- MCPeople
  Schedules <- MCSchedules
  SamplePage = "S"
  KeptUids = {"u"}
  LiveLedgers <- MCLiveLedgers
  Credits <- MCCredits
  Pasted <- MCPasted
  TxHashes = {"h1", "h2", "h3", "h4"}
  TxOf <- MCTxOf
  Indexed <- MCIndexed
  Registered <- MCRegistered
  Sampled <- MCSampled
  StandIn <- MCStandIn
  ChainReads <- MCChainReads
  Unread = nU
  nU = nU
  CreatedAt <- MCCreatedAt
  Matching <- MCMatching
  NoDoc = nD
  nD = nD
  Responses <- MCResponses
  Committed <- MCCommitted
  Deadlines <- MCDeadlines
  MoneyReads = {"budget"}
  PageEnd = 2
  Demo = {"Q"}
  Detailed = {"P"}
  MaxEntry = 2
  Awardees <- MCAwardees
INVARIANT FormEnforcesConstructor
CHECK_DEADLOCK FALSE
