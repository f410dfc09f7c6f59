CONSTANTS
  NumUnits = 3
  Direct <- SecondFallback
  MaxCases = 2
  Cases <- TwoOneOne
  Limit = 2
  PrepareMayFail = TRUE
  StartMayFail = TRUE
  PostModes = {FALSE, TRUE}
  MaxSignals = 2
SPECIFICATION Spec
INVARIANTS LimitRespected PostprocessComplete FairRounds InterruptStopsTracked NoWorkerLeft
PROPERTIES PoolSpec Terminates
