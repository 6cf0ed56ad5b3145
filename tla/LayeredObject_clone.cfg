SPECIFICATION FairSpec
CONSTANTS
  Parent = parentdata
  Write = {w1}
  Discard = {c1}
  Remove = {d1}
  Read = {r1}
  Flatten = {f1}
  MaxMoves = 2
  MaxRequests = 2
INVARIANTS
  ParentDataKept
  AckedWritesKept
  DiscardedStaysAway
  ReadsSeeParent
  NoRequestStalls
  IInv
PROPERTIES
  CopyupOnce
  ImplementsAtomicObject
  RequestsEnd
CHECK_DEADLOCK FALSE
