SPECIFICATION Spec
CONSTANTS
  a = a
  b = b
  u1 = u1
  None = None
  NoRow = NoRow
  Agents = {a, b}
  Tenants = {}
  Users = {u1}
  Threads = {}
  Ids = {1, 2, 3}
  Contents = {x1, x2}
  Long = {x1}
  Exported <- AgentAndUser
  Targets <- RestoreAndMigrate
  PageSize = 2
  MaxWrites = 2
  Rank <- UuidOrder
  Stamp <- OneBatchAndANewerRow
  MaxRuns = 2
VIEW Relevant
CHECK_DEADLOCK FALSE
INVARIANTS
  ExportComplete
  ImportConverges
  KeyTakenExplained
