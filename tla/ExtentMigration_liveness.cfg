SPECIFICATION FairSpec
CONSTANTS
  Extent = {e1}
  Write = {w1, w2}
  Discard = {}
  Read = {}
PROPERTIES
  PolledRequestsComplete
  MigrationsEnd
