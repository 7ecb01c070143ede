CONSTANTS
  None = None
  MaxLabel = 120
  Embargo = 20
  YearLength = 252
  MaterialCount = 2
  Features <- MCFeatures
  Dimensions <- MCDimensions
  MinPeers = 2
  Ablations <- MCAblations
  Stresses <- MCStresses
  Resolution = 10001
  MinTrades = 4
  MinFoldTrades = 1
  Studies <- MCStudies
  LateCandidates <- MCLate
  Corrections <- MCCorrections
  Attestations <- MCAttestations
  MaxRevisions = 1
SPECIFICATION Spec
CHECK_DEADLOCK FALSE
INVARIANTS
  NoLeakage
  HolmIsClosedTesting
  SealedTradesAreAccountable
  SealMatchesItsSources
