SPECIFICATION FairSpec
CONSTANTS
  t1 = t1
  t2 = t2
  Turns = {t1, t2}
  MaxTokens <- LongAndShort
  PageWaits = TRUE
INVARIANTS
  TypeOK
  OneTerminal
  NamesCommitted
  WholeMeansSpoken
  HeardIsKept
  AnnouncedSurvives
  NothingLeftBehind
PROPERTIES
  StreamsClose
