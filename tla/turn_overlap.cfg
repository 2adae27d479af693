SPECIFICATION Spec
CONSTANTS
  t1 = t1
  t2 = t2
  Turns = {t1, t2}
  MaxTokens <- BothShort
  PageWaits = FALSE
INVARIANTS
  AnnouncedSurvives
