SPECIFICATION Spec
CONSTANTS
  a = a
  u1 = u1
  alice = alice
  operator = operator
  None = None
  NoRow = NoRow
  Agents = {a}
  Tenants = {}
  Users = {u1}
  Threads = {}
  Clients = {alice, operator}
  ScopeOf <- EachItsScope
  Ids = {i1, i2}
  Kinds = {"episodic", "procedural"}
  Contents = {x1, x2}
  Rejected = {x2}
  MaxEveryN = 2
  MaxCalls <- FewCalls
CHECK_DEADLOCK FALSE
SYMMETRY IdSymmetry
INVARIANTS
  NothingLost
  RejectedNeverStored
  CadencePerScope
