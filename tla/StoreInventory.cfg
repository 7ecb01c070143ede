SPECIFICATION StoreSpec
CONSTANTS
  r1 = r1
  r2 = r2
  i1 = i1
  a1 = a1
  m1 = m1
  m2 = m2
  d1 = d1
  c1 = c1
  None = None
  Releases = {r1, r2}
  Identities = {i1}
  ArtifactIds = {a1}
  Contracts = {c1}
  Times = {0, 1}
  Digests = {m1, d1}
  Bundles <- OneBundle
  Writers = {w1, w2}
  Damageable = {m1}
  MaxFailures = 0
  MaxCrashes = 0
  MaxScans = 1
SYMMETRY WriterSymmetry
INVARIANTS
  NoFalseAlarm
  DamageReported
