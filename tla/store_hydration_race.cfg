SPECIFICATION Spec
CONSTANTS
  NoTurn = NoTurn
  Cids = {c1}
  Texts = {x, y}
  Requests = {r1, r2, r3}
  TTL = 1
  MaxNow = 0
  MaxInFlight = 3
  MaxRestarts = 1
  StoreEnabled = TRUE
  Faults = {}
SYMMETRY RequestSymmetry
INVARIANTS
  ToldTurnReadable
