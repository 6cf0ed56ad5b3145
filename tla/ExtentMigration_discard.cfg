SPECIFICATION Spec
CONSTANTS
  Extent = {e1}
  Write = {}
  Discard = {d1}
  Read = {}
PROPERTIES
  DiscardReachesData
