SPECIFICATION ConsolidationFairSpec
CONSTANTS
  Raws = {r1, r2}
  Workers = {w1, w2}
  NoRaw = NoRaw
  BatchSizes = {1, 2}
  PerRow = 2
  InlineOn = TRUE
  WorkersFail = TRUE
CHECK_DEADLOCK FALSE
INVARIANTS
  ProcessedByOneWorker
  ClaimedMeansConsolidated
PROPERTIES
  BatchIsWorkedOff
