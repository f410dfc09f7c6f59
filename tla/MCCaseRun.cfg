CONSTANTS
  Tools = {"klee", "binsec"}
  MaxAttempts = 2
  MaxJobs = 2
  MaxRows = 1
  MaxSignals = 2
SPECIFICATION Spec
INVARIANTS ResultIsOwn SuccessIsComplete NothingLeft
PROPERTIES Settles
