SPECIFICATION Spec
CONSTANTS
  Sockets = {s1}
  Keepers = {k1}
  MaxCalls = 2
  NULL = NULL
  MaxPassword = 200
INVARIANTS
  ReloginIsTrue
CHECK_DEADLOCK FALSE
