SPECIFICATION LedgerSpec
CONSTANTS
  r1 = r1
  i1 = i1
  a1 = a1
  m1 = m1
  d1 = d1
  c1 = c1
  None = None
  Releases = {r1}
  Identities = {i1}
  ArtifactIds = {a1}
  Digests = {m1, d1}
  Contracts = {c1}
  Bundles <- MCBundles
  Times = {0, 1}
  ObsIds = {o1, o2, o3, o4, o5}
  StatusEvents <- MCStatusEvents
  MaxLag = 0
SYMMETRY IdSymmetry
INVARIANTS
  ChainsVerify
  WithdrawnNeverAuthorized
PROPERTIES
  IdsNeverRemapped
  ImplementsGate
