SPECIFICATION FairSpec
CONSTANTS
  Workers = {w1, w2}
  NoWorker = NoWorker
  Contents = {c1, c2}
  NoContent = NoContent
  MaxChanges = 2
  MaxExpiries = 1
  MaxFailures = 1
INVARIANTS TypeOK OneBuilder NoRedundantBuild
PROPERTIES TargetGetsBuilt
