SPECIFICATION Spec
CONSTANTS
  anna = anna
  bert = bert
  Empty = Empty
  p1 = p1
  i1 = i1
  i2 = i2
  c1 = c1
  c2 = c2
  Ids = {i1, i2}
  NULL = NULL
  Failed = Failed
  Users = {anna, bert}
  Passwords = {p1}
  Clients = {c1, c2, c3}
  Nodes = {n1}
  Dead = {}
  Accounts <- TwoAccounts
  UniqueName = TRUE
  Sends <- LoginsOnly
INVARIANTS
  SingleSession
