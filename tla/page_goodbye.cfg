CONSTANTS
  LastSentence = 0
  MaxTurns = 1
  MaxStarts = 1

SPECIFICATION Spec
CONSTRAINT MCUnhurried
CHECK_DEADLOCK FALSE

PROPERTIES
  GoodbyeIsHeard
