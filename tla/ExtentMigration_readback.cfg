SPECIFICATION Spec
CONSTANTS
  Extent = {e1}
  Write = {w1}
  Discard = {}
  Read = {}
INVARIANTS
  AckedWritesReadBack
