SPECIFICATION ThresholdSpec
CONSTANTS
  None = None
  Openers = {o1, o2, o3}
  Attempts = 2
  ReleaseIds = {r1, r2, r3}
  Cutoffs = {0, 1}
  Sessions = {s1}
  Releases = {x, y}  Root = y
  Times = {0, 1, 2, 3}
  MaxAge = 1  MaxSkew = 1  Ttl = 1  CredentialEnd = 2  MaxSeals = 1
INVARIANTS
  AcceptsProperOnly
  RejectsImproperOnly
  NoSpuriousRejection
  WithdrawalStopsSeals
  AllPublishedAtOnce
PROPERTIES
  AlwaysAnswers
  RefusedFileUntouched
