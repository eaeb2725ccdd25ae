SPECIFICATION FairSpec
CONSTANTS
  MaxRedirects = 1
  MaxCalls = 2
  Codes <- SomeCodes
  UsesStore = TRUE
  Jobs = {j1, j2}
  BatchSize = 2
  Minutes <- SomeMinutes
  MaxRuns = 2
INVARIANTS TypeOK EveryHopIsChecked CountersBalance MarkerTellsCrash StopIsOrderly
PROPERTIES LeaksAreKnown StopIsHonoured
CHECK_DEADLOCK FALSE
