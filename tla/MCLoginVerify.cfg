SPECIFICATION FairSpec
CONSTANTS
  Sockets = {s1, s2}
  Keepers = {k1}
  MaxCalls = 2
  NULL = NULL
  MaxPassword = 200
INVARIANTS
  TypeOK
  EndIsVisible
  HashIsStandard
PROPERTIES
  OtherResultOnlyIfMixed
  ToldOnlyIfKicked
  LoginReturns
  DeadServerNoticed
  KickedIsTold
CHECK_DEADLOCK FALSE
