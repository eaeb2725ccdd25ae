SPECIFICATION Spec
CONSTANTS
  Submitters = {s1, s2}
  Jobs = {j1, j2, j3}
  NoJob = NoJob
  MaxOutstanding = 1
  FailingCalls = {"xadd"}
  MaxRetries = 0
  MaxErrors = 1
  MaxCrashes = 0
  MaxEntries = 2
SYMMETRY Symmetric
INVARIANTS ToldMeansQueued
