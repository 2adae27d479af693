\* Three sentences: one sounds, one waits behind it, one fails.
CONSTANTS
  LastSentence = 2
  MaxTurns = 3
  MaxStarts = 3

SPECIFICATION Spec
CONSTRAINT MCStillPromised

\* The interview may be over for good, or wait for the user.
CHECK_DEADLOCK FALSE

INVARIANTS
  MicNeverHearsTheAnswer
  OneTurnAtATime
PROPERTIES
  MicComesBack
