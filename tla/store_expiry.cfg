SPECIFICATION FairSpec
CONSTANTS
  NoTurn = NoTurn
  Cids = {c1}
  Texts = {x, y}
  Requests = {r1, r2}
  TTL = 1
  MaxNow = 2
  MaxInFlight = 2
  MaxRestarts = 1
  StoreEnabled = TRUE
  Faults = {"read", "write", "disconnect"}
INVARIANTS
  TypeOK
  TranscriptConsistent
  MemoryWasCommitted
PROPERTIES
  TranscriptSpec
  ExpiredIsReclaimed
