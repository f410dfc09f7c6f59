CONSTANTS
  Tools = {"binsec"}
  MaxAttempts = 1
  MaxJobs = 1
  MaxRows = 1
  MaxSignals = 0
SPECIFICATION Spec
INVARIANTS MatchingLog
