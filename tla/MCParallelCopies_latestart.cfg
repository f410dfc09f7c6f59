CONSTANTS
  NumCopies = 1
  CopyPipe = 1
  MaxErrs = 0
  MaxOut = 0
  MayFailStart = FALSE
  MayRaise = FALSE
  MayInterrupt = TRUE
SPECIFICATION Spec
INVARIANTS InterruptStopsAll
