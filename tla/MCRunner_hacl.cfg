CONSTANTS
  InputOrder <- HaclOrder
  Secret <- HaclSecret
  InSize <- HaclInSize
  Segments <- HaclSegments
  Declared <- HaclDeclared
  Preset <- HaclPreset
  Seed <- HaclSeed
  Base = 2
  MaxCalls = 1
  Count = 1
  Size <- HaclSize
  Start <- HaclStart
  MaxRead = 1
SPECIFICATION HarnessSpec
INVARIANTS NamesExpected
CHECK_DEADLOCK FALSE
