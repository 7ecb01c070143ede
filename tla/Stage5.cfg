SPECIFICATION BooksSpec
CONSTANTS
  S = "share"
  f1 = f1
  f2 = f2
  f3 = f3
  aRule = aRule
  None = None
  Securities <- MCSecurities
  Pool <- Journals
CHECK_DEADLOCK FALSE
INVARIANTS
  JournalsReplay
  TwoLedgersAgree
  LimitsHoldAfterFill
  NoNewRiskWhenStopped
  GreatestLotBought
  AbstentionSurvives
  CorrectionsLeaveNoTrace
  FillsBookedOnce
