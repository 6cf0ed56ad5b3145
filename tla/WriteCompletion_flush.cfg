SPECIFICATION Spec
CONSTANTS
  Op = {o1}
  ObjReq = {a1}
  Flush = {f1}
INVARIANT AioFlushMeansOnDisk
CHECK_DEADLOCK FALSE
