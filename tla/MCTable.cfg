SPECIFICATION Spec
CONSTANTS
  a = a
  t = t
  u1 = u1
  alice = alice
  operator = operator
  x1 = x1
  x2 = x2
  h1 = h1
  h2 = h2
  None = None
  NoRow = NoRow
  NoRecord = NoRecord
  NoContent = NoContent
  Agents <- MCAgents
  Tenants <- MCTenants
  Users <- MCUsers
  Threads <- MCThreads
  Contents = {x1, x2}
  Hashes = {h1, h2}
  Hash <- MCHash
  Clients = {alice, operator}
  ScopeOf <- MCScopeOf
  Ids = {i1, i2}
  Repositories <- FactsOrWorkingMemory
  MaxVersion = 3
SYMMETRY IdSymmetry
CHECK_DEADLOCK FALSE
INVARIANTS
  TypeOK
  VersionIdentifiesRow
PROPERTIES
  NoLostUpdate
  DuplicateOnlyIfRaced
  ImplementsRowStore
