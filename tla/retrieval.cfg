CONSTANTS
  first = first
  edited = edited
  small = small
  None = None
  Torn = Torn
  Settings = {first, edited, small}
  Wiki <- MCWiki
  Questions <- MCQuestions
  Threshold = 1
  Widths = {2, 3}
  MIN_RESCUE_TOP_K = 3
  MAX_RERANK_TOP_K = 3
  Enabled = TRUE
  MaxFaults = 1
  MaxDeploys = 2

SPECIFICATION Spec

INVARIANTS
  TypeOK
  FreshUnlessRolledBack
  SlotsAreDistinctPages
  StrongPagesSurvive
  RescueIsAnException
  DegradedIsReported

PROPERTIES
  NobodyWaitsForAModel
  StartUpGetsThrough
