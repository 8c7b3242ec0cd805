SPECIFICATION Spec
CONSTANTS
  None = None
  Rows = {r1, r2}
  Writers = {w1, w2}
  Searchers = {s1}
  ChunkCount = 2
  MaxVersion = 2
CHECK_DEADLOCK FALSE
SYMMETRY Symmetric
INVARIANTS
  ResultsWereLive
  LongRowsStayFindable
  SteadyRowsFound
