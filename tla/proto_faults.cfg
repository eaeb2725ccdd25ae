SPECIFICATION Spec
CONSTANTS
  Workers = {w1, w2}
  Assets = {a1, a2}
  NoAsset = NoAsset
  DomainOf <- OneDomain
  NoDomain = NoDomain
  Urgent = {a1}
  MaxRetries = 1
  MaxRejected = 1
  KeepNonMatches = FALSE
  Threshold = 5
  MaxClaims = 2
  MaxFaults = 2
SYMMETRY Symmetry
INVARIANTS TypeOK SoleOwner MatchRecordedOnce FilesMatchRows RetentionBounded TasksAgree
PROPERTIES DecisionStands
CHECK_DEADLOCK FALSE
