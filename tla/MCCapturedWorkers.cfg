CONSTANTS
  MaxChunks = 4
  PipeCap = 2
  MaxSignals = 2
  Faults = {"kill", "disk", "interrupt", "orphan"}
  NumWorkers = 2
SPECIFICATION WorkersSpec
INVARIANTS LogIsPrefix NothingLost QueueOutlivesWorker ReportedIsActual
PROPERTIES Settles OrphanEnds InterruptEndsWorker
