SPECIFICATION Spec
CONSTANTS
  Clients = {c1, c2}
  NoClient = NoClient
  Targets = {t1, t2}
  NoTarget = NoTarget
  Hashes = {h1, h2}
  NoHash = NoHash
  Operations = {"reject", "delete"}
  MaxExpiries = 0
  MaxCrashes = 0
SYMMETRY Symmetric
INVARIANTS MediaKept
