SPECIFICATION Spec
CONSTANTS
  Threads = {t1, t2}
  Accepts = {a1}
  Conns = {k1, k2}
  MaxReply = 2
  MaxInbox = 1
  Faults <- PartialSends
  anna = anna
  p1 = p1
  i1 = i1
  Users = {anna}
  Empty = Empty
  Passwords = {p1}
  Ids = {i1}
  Nodes = {n1, n2, n3}
  Dead = {n3}
  Accounts <- OneAccount
  UniqueName = TRUE
  Sends <- LoginOrNothing
  Failed = Failed
  NULL = NULL
INVARIANTS
  OneRun
  EnoughConnections
PROPERTY
  ReplyIsOwn
SYMMETRY Symmetry
CHECK_DEADLOCK FALSE
