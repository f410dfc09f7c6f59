CONSTANTS
  NumLoops = 3
  Parent <- TwoInside
  Half = 2
  MaxIterations = 1
  Shapes = {"pre", "post", "single"}
  MaxTrip = 3
SPECIFICATION Spec
INVARIANTS BodyBound CutOnlyAtBound LeftExact
PROPERTIES Bounded
