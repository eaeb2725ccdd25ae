SPECIFICATION FairSpec
CONSTANTS
  Workers = {w1, w2}
  NoWorker = NoWorker
  j1 = j1
  j2 = j2
  p1 = p1
  p2 = p2
  bad = bad
  Jobs = {p1, bad}
  Payloads = {p1, bad}
  JobOf <- OwnJob
  Malformed = {bad}
  Outcomes = {"match", "no_match", "processing_failure", "none", "transient", "permanent"}
  MaxAttempts = 3
  ReclaimBatch = 2
  MaxCopies = 1
  MaxSlow = 0
  MaxOutages = 2
  MaxLostReplies = 0
  AttemptBound = 7
INVARIANTS OneWorkerPerJob ResultOfOneAttempt AttemptsAccountedFor MalformedNeverHandled
PROPERTIES EveryJobSettles ImplementsLifecycle
