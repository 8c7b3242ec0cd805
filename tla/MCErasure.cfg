SPECIFICATION Spec
CONSTANTS
  a1 = a1
  None = None
  Agents = {a1}
  Tenants = {}
  Users = {u1}
  Threads = {}
  Calls = {c1, c2}
  Clients = {p1, p2}
  Erasers = {e1}
  Requests <- AnyScope
  MaxUpdates = 1
CHECK_DEADLOCK FALSE
SYMMETRY Symmetric
INVARIANTS
  EarlierRowsGone
  OthersKeepTheirRows
