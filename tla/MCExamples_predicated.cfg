CONSTANTS
  Width = 8
  ArcSize = 4
  KeyLen = 2
  Rounds = 4
  Executions <- MCExecutions
  NoDebugOf <- MCNoDebugOf
  StatementsOf <- MCStatementsOf
  Lookback = 2
  NumRows = 1
SPECIFICATION ReplaySpec
INVARIANT FirstDiverging
CHECK_DEADLOCK FALSE
