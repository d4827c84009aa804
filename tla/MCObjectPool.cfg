SPECIFICATION FairSpec
CONSTANTS
  Threads = {t1, t2, t3}
  Nodes = {n1, n2, n3}
  Dead = {n3}
  NULL = NULL
INVARIANTS
  TypeOK
  ListConsistent
  OneUserPerConnection
  ListIsChain
PROPERTIES
  LockReleased
  ImplementsPool
