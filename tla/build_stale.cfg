SPECIFICATION Spec
CONSTANTS
  Workers = {w1, w2}
  NoWorker = NoWorker
  Contents = {c1, c2}
  NoContent = NoContent
  MaxChanges = 1
  MaxExpiries = 0
  MaxFailures = 0
SYMMETRY Symmetric
INVARIANTS EntryIsOwn
