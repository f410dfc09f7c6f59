CONSTANTS
  NumLoops = 2
  Parent <- OneInside
  Half = 4
  MaxIterations = 2
  Shapes = {"pre", "single"}
  MaxTrip = 4
SPECIFICATION Spec
INVARIANTS BodyStopsAtBound
