SPECIFICATION PreparedSpec
CONSTANTS
  r1 = r1
  r2 = r2
  i1 = i1
  a1 = a1
  m1 = m1
  m2 = m2
  d1 = d1
  d2 = d2
  c1 = c1
  x1 = x1
  x2 = x2
  None = None
  NewIds = {n1, n2}
  Releases = {r1, r2}
  Identities = {i1}
  ArtifactIds = {a1}
  Digests = {m1, m2, d1, d2}
  Contracts = {c1}
  Bundles <- MCBundles
  Times = {0, 1}
  ObsIds <- MCObsIds
  StatusEvents <- MCStatusEvents
  MaxLag = 0
  Runs = {run1, run2}
  ConfirmationIds = {k1, k2}
  Authorities = {x1, x2}
  Policies <- MCPolicies
  Answers <- MCAnswers
  Terms <- MCTerms
SYMMETRY Interchangeable
INVARIANTS
  OrdinaryMeansAllPublished
  AuditAlwaysAllowed
  RetryStaysAccepted
