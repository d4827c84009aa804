SPECIFICATION Spec
CONSTANTS
  Threads = {t1, t2}
  Accepts = {a1, a2}
  Conns = {k1, k2}
  MaxReply = 2
  MaxInbox = 1
  Faults <- FaultKinds
  NULL = NULL
INVARIANTS
  TypeOK
  OneOwner
CHECK_DEADLOCK FALSE
