SPECIFICATION Spec
CONSTANTS
  a1 = a1
  None = None
  Agents = {a1}
  Tenants = {t1}
  Users = {u1}
  Threads = {}
  Calls = {c1, c2}
  Clients = {p1}
  Erasers = {e1}
  Requests <- NoTenant
  MaxUpdates = 1
CHECK_DEADLOCK FALSE
SYMMETRY Symmetric
INVARIANTS
  NoOtherTenantErased
