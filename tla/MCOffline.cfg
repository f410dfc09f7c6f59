CONSTANTS
  Width = 8
  ArcSize = 4
  KeyLen = 2
  Rounds = 4
  Executions <- MCExecutions
  NoDebugOf <- MCNoDebugOf
  StatementsOf <- MCStatementsOf
  Lookback = 2
  NumRows = 2
  MaxVisits = 2
  MaxHits = 3
  MaxCampaigns = 3
  MaxCopies = 2
  Experiments = {1, 2}
  Metas = {0, 1}
  InputOrder <- MCOrder
  Secret <- MCSecret
  InSize <- MCInSize
  Segments <- MCSegments
  Declared <- MCDeclared
  Preset <- MCPreset
  Seed <- MCSeed
  Base = 2
  MaxCalls = 2
  Count = 2
  Size <- MCSize
  Start <- MCStart
  MaxRead = 4
SPECIFICATION Spec
INVARIANTS
  ReplayMatchesAnalysis WitnessReplayed
  CulpritLeaks StatusMeans TopBitFound
  MergedIsCurrent TrackerVerdict
PROPERTIES StreamSpec Finishes Reproduced
