SPECIFICATION Spec
CONSTANTS
  c1 = c1
  c2 = c2
  u1 = u1
  x1 = x1
  x2 = x2
  NoOwner = NoOwner
  NoKey = NoKey
  NoContent = NoContent
  k1 = k1
  Clients = {c1, c2}
  Owners = {u1}
  Keys = {k1}
  Contents = {x1, x2}
  PageLimit = 2
  MaxRows = 3
  MaxBatch = 2
VIEW Relevant
SYMMETRY Symmetry
CHECK_DEADLOCK FALSE
INVARIANTS
  ClearEmptiesPage
  PoppedOnce
  OneRowPerKey
PROPERTIES
  OwnersApart
  LastCallDecides
