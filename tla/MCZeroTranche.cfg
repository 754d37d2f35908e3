\* An award smaller than its number of tranches, when no minimum is set.
SPECIFICATION Spec
CONSTANTS
  d1 = d1  d2 = d2  a1 = a1  a2 = a2  r1 = r1  r2 = r2  r3 = r3
  v1 = v1  v2 = v2  s1 = s1  w1 = w1  n1 = n1  n2 = n2  n3 = n3
  Treasury = treasury
  None = none
  Donors = {d1}
  Applicants = {a1}
  ReviewerList <- OneReviewer
  VerifierList <- OneVerifier
  Verifiers = {v1}
  Destinations = {s1}
  Wallets = {}
  Attestations <- OneClaim
  SchemaAuthority = none
  FeeBps = 1000
  Quorum = 1
  Tranches = 2
  MinimumAward = 0
  ApplyDeadline = 1
  ReviewDeadline = 2
  InitialReleaseDeadline = 3
  InitialSweepDeadline = 4
  MAX_AMOUNT = 7
  Contributions = {7}
  Requests = {1}
  Approvals = {1}
  PartialAmounts = {0, 2}
  Modes = {"Allocated"}
  NewDeadlines = {5}
  MaxTime = 5
  MaxBatch = 1
INVARIANTS TranchesArePayable
