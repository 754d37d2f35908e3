\* Releasing: two awards, single releases and batches, lists and wallets that
\* change under an award, proofs that are revoked.
SPECIFICATION Spec
CONSTANTS
  d1 = d1  d2 = d2  a1 = a1  a2 = a2  r1 = r1  r2 = r2  r3 = r3
  v1 = v1  v2 = v2  s1 = s1  w1 = w1  n1 = n1  n2 = n2  n3 = n3
  Treasury = treasury
  None = none
  Donors = {d1}
  Applicants = {a1, a2}
  ReviewerList <- OneReviewer
  VerifierList <- OneVerifier
  Verifiers = {v1}
  Destinations = {w1}
  Wallets = {w1}
  Attestations <- TwoSubjects
  SchemaAuthority = v1
  FeeBps = 1000
  Quorum = 1
  Tranches = 2
  MinimumAward = 2
  ApplyDeadline = 1
  ReviewDeadline = 2
  InitialReleaseDeadline = 3
  InitialSweepDeadline = 4
  MAX_AMOUNT = 11
  Contributions = {10, 11}
  Requests = {5}
  Approvals = {5}
  PartialAmounts = {}
  Modes = {"Restricted"}
  NewDeadlines = {}
  MaxTime = 2
  MaxBatch = 2
INVARIANTS OneProofOneTranche ReleasedOnSchedule AwardsPayable
  ReleasedTilesAddUp
PROPERTIES PaymentsAreSanctioned
