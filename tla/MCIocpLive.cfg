SPECIFICATION FairSpec
CONSTANTS
  Threads = {t1, t2}
  Accepts = {a1}
  Conns = {k1, k2}
  MaxReply = 2
  MaxInbox = 1
  Faults <- Resets
  NULL = NULL
INVARIANTS
  RunIsGivenARequest
  AcceptLostToReset
  ClientServed
PROPERTIES
  RequestsAnswered
CHECK_DEADLOCK FALSE
