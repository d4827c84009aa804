SPECIFICATION Spec
CONSTANTS
  anna = anna
  bert = bert
  Empty = Empty
  p1 = p1
  i1 = i1
  i2 = i2
  c1 = c1
  c2 = c2
  Ids = {i1, i2}
  NULL = NULL
  Failed = Failed
  Users = {anna, bert, Empty}
  Passwords = {p1}
  Clients = {c1, c2}
  Nodes = {n1, n2}
  Dead = {}
  Accounts <- OneAccount
  UniqueName = TRUE
  Sends <- BusyClients
INVARIANTS
  TypeOK
  MapNamesItsClient
  SessionIsOneAccount
  NoConnectionLost
  RegisteredMeansAccount
PROPERTIES
  KickedByItsUser
SYMMETRY NodeSymmetry
