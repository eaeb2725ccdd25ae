SPECIFICATION Spec
CONSTANTS
  CandidateLists <- SomeCandidates
  TargetLists <- SomeTargets
  Similarities <- Scores
  Threshold = 1
  Screens = {"passed", "failed", "malformed"}
  Configs <- SomeConfigs
INVARIANTS
  TypeOK
  RunIsAlignment
  NothingSustainedIsMissed
