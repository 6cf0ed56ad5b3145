SPECIFICATION FairSpec
CONSTANTS
  Op = {o1}
  ObjReq = {a1, a2}
  Flush = {f1}
INVARIANTS
  AnsweredOnce
  FreedWhenUnused
  FlushCovers
  DrainedMeansCalledBack
  NoFlushForgotten
  IInv
PROPERTIES
  CallsComplete
CHECK_DEADLOCK FALSE
