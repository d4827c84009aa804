SPECIFICATION FairSpec
CONSTANTS
  Threads = {t1, t2, t3}
  Accepts = {a1, a2}
  MaxWait = 3
  Faults <- AllFaults
  NULL = NULL
INVARIANTS
  TypeOK
  NothingAfterRelease
PROPERTIES
  StopReturns
  FailedStartEndsWorkers
CHECK_DEADLOCK FALSE
