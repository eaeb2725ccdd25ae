SPECIFICATION FairSpec
CONSTANTS
  Submitters = {s1, s2}
  Jobs = {j1, j2, j3}
  NoJob = NoJob
  MaxOutstanding = 1
  FailingCalls = {"set", "xadd", "del"}
  MaxRetries = 1
  MaxErrors = 1
  MaxCrashes = 1
  MaxEntries = 3
INVARIANTS TypeOK OneEntryPerJob BacklogBounded OneLossPerFault
PROPERTIES EveryCandidateQueued
