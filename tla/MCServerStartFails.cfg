SPECIFICATION Spec
CONSTANTS
  Threads = {t1, t2}
  Accepts = {a1}
  MaxWait = 2
  Faults <- IoctlFault
  NULL = NULL
INVARIANTS
  StartDoesNotCrash
CHECK_DEADLOCK FALSE
