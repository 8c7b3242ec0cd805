SPECIFICATION Spec
CONSTANTS
  Passes = {p1, p2}
  Facts = {1, 2, 3}
  Unknown = 0
  None = None
  NewerWins = TRUE
  MaxDecisions = 2
CHECK_DEADLOCK FALSE
INVARIANTS
  LosersKeepAWinner
  ReportedDecisionsHold
  ChainsEndInSurvivor
