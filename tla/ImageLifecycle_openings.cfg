SPECIFICATION FairSpec
CONSTANTS
  Extent = {e1, e2}
  MaxOpens = 2
INVARIANTS
  CopySurvives
  NotifiedCloseIsClean
  IInv
PROPERTIES
  NotifiedCloseEnds
  NotifiedRoundIsLast
CHECK_DEADLOCK FALSE
