SPECIFICATION Spec
CONSTANTS
  Workers = {w1, w2}
  NoWorker = NoWorker
  j1 = j1
  j2 = j2
  p1 = p1
  p2 = p2
  bad = bad
  Jobs = {p1}
  Payloads = {p1}
  JobOf <- OwnJob
  Malformed = {}
  Outcomes = {"match", "processing_failure", "transient"}
  MaxAttempts = 2
  ReclaimBatch = 1
  MaxCopies = 2
  MaxSlow = 1
  MaxOutages = 1
  MaxLostReplies = 1
  AttemptBound = 3
SYMMETRY Symmetric
INVARIANTS TypeOK NoJobLost RetryIsBacked ResultIsAnnounced
