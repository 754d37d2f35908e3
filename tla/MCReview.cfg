\* Reviewing and finalizing: three reviewers, two applicants who together ask
\* for more than the budget, no release.
SPECIFICATION Spec
CONSTANTS
  d1 = d1  d2 = d2  a1 = a1  a2 = a2  r1 = r1  r2 = r2  r3 = r3
  v1 = v1  v2 = v2  s1 = s1  w1 = w1  n1 = n1  n2 = n2  n3 = n3
  Treasury = treasury
  None = none
  Donors = {d1}
  Applicants = {a1, a2}
  ReviewerList <- ThreeReviewers
  VerifierList <- OneVerifier
  Verifiers = {v1}
  Destinations = {}
  Wallets = {}
  Attestations <- NoClaims
  SchemaAuthority = none
  FeeBps = 1000
  Quorum = 2
  Tranches = 2
  MinimumAward = 3
  ApplyDeadline = 1
  ReviewDeadline = 2
  InitialReleaseDeadline = 3
  InitialSweepDeadline = 4
  MAX_AMOUNT = 10
  Contributions = {0, 10}
  Requests = {0, 6}
  Approvals = {0, 2, 4, 6, 7}
  PartialAmounts = {}
  Modes = {"Open"}
  NewDeadlines = {}
  MaxTime = 2
  MaxBatch = 1
SYMMETRY ReviewSymmetry
INVARIANTS VotesMatchBallots AwardBackedByQuorum BudgetNeverExceeded StepsAreTrue
PROPERTIES AwardTermsFixed ComputedAwardIsGranted
