SPECIFICATION FairSpec
CONSTANTS
  Extent = {e1}
  MaxOpens = 1
PROPERTIES
  CloseEnds
CHECK_DEADLOCK FALSE
