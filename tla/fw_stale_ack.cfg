SPECIFICATION Spec
CONSTANTS
  Workers = {w1, w2}
  NoWorker = NoWorker
  j1 = j1
  j2 = j2
  p1 = p1
  p2 = p2
  bad = bad
  Jobs = {p1}
  Payloads = {p1}
  JobOf <- OwnJob
  Malformed = {}
  Outcomes = {"match", "transient"}
  MaxAttempts = 2
  ReclaimBatch = 2
  MaxCopies = 1
  MaxSlow = 1
  MaxOutages = 0
  MaxLostReplies = 0
  AttemptBound = 4
SYMMETRY Symmetric
PROPERTIES StaleNeverAcks
