CONSTANTS
  NumCopies = 2
  CopyPipe = 1
  MaxErrs = 2
  MaxOut = 1
  MayFailStart = TRUE
  MayRaise = TRUE
  MayInterrupt = TRUE
SPECIFICATION Spec
INVARIANTS SuccessMeansAll FinalizedDrained CopiesOutliveCommands InterruptStopsTracked
PROPERTIES StatusStable PoolSpec Terminates
