SPECIFICATION Spec
CONSTANTS
  Extent = {e1}
  Write = {w1}
  Discard = {d1}
  Read = {r1}
INVARIANTS
  NoAckedWriteLost
  QuiescentDuringCopy
  ReadsSeeEarlierEffects
  SingleCopy
  IInv
PROPERTIES
  RepointToCompleteCopy
  WaitsOnlyShrink
  AuthoritativeCopyOnlyGrows
  ImplementsImageStore
