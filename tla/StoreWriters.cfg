SPECIFICATION PersistentSpec
CONSTANTS
  r1 = r1
  r2 = r2
  i1 = i1
  a1 = a1
  m1 = m1
  m2 = m2
  d1 = d1
  c1 = c1
  None = None
  Releases = {r1, r2}
  Identities = {i1}
  ArtifactIds = {a1}
  Contracts = {c1}
  Times = {0}
  Digests = {m1, m2, d1}
  Bundles <- TwoBundles
  Writers = {w1, w2}
  Damageable = {}
  MaxFailures = 1
  MaxCrashes = 1
  MaxScans = 0
INVARIANT
  RegisteredFilesWhole
PROPERTY
  RetrySucceeds
