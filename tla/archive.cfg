CONSTANTS
  Cids = {c1}
  Labels = {first, second}
  MaxStops = 1
  MaxTrouble = 1
  Clips = {f}
  TTL = 1
  Retention = 1
  KeepAudio = 1
  Offsets <- MCOffsets
  MaxNow = 3
  WriteFaults = TRUE

SPECIFICATION Spec
SYMMETRY MCSymmetry
ACTION_CONSTRAINT OneThingAtATime

\* The clock stops at MaxNow.
CHECK_DEADLOCK FALSE

INVARIANTS
  TypeOK
  ReadyMeansCurrent
  ToldSurvivesCleanStops
  GoneLeavesAReport
  FirstWriterWins

  
