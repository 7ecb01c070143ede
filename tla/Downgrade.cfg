SPECIFICATION Stage4Spec
CONSTANTS
  None = None
  RuleBundle = "rules"
  OlderBundle = "older"
  Openings <- MCOpenings
  Dossiers <- MCDossiers
  MaxRevision = 2
  Submissions <- MCSubmissions
  Prices <- MCPrices
  Costs <- MCCosts
  MaxLosses = 1
CHECK_DEADLOCK FALSE
INVARIANT DowngradeNeedsRefutation
