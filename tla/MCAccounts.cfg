SPECIFICATION HistorySpec
CONSTANTS
  anna = anna
  Empty = Empty
  p1 = p1
  p2 = p2
  p3 = p3
  i1 = i1
  c1 = c1
  c2 = c2
  Ids = {i1}
  NULL = NULL
  Failed = Failed
  Users = {anna}
  Passwords = {p1, p2, p3}
  Clients = {c1, c2}
  Nodes = {n1, n2}
  Dead = {}
  Accounts <- NoAccount
  UniqueName = TRUE
  Sends <- TwoClients
  FirstYear = 2023
  LastYear = 2025
  Days <- EdgeDays
PROPERTIES
  DeadLineIsAYear
  ReplacedUnlessOvertaken
SYMMETRY NodeSymmetry
