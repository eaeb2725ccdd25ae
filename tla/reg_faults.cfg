SPECIFICATION Spec
CONSTANTS
  Clients = {c1, c2}
  NoClient = NoClient
  Targets = {t1, t2}
  NoTarget = NoTarget
  Hashes = {h1, h2}
  NoHash = NoHash
  Operations = {"replace", "reject", "update", "delete", "reindex"}
  MaxExpiries = 1
  MaxCrashes = 1
SYMMETRY Symmetric
INVARIANTS TypeOK IndexesExact ListNeverDangles
PROPERTIES LockIsItsOwners
