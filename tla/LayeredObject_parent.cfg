SPECIFICATION Spec
CONSTANTS
  Parent = parentdata
  Write = {w1}
  Discard = {}
  Remove = {}
  Read = {}
  Flatten = {}
  MaxMoves = 1
  MaxRequests = 1
INVARIANT ParentDataVisible
CHECK_DEADLOCK FALSE
