SPECIFICATION FairSpec
CONSTANTS
  MapSize = 3
  Beyond = {5}
  HDD_STRIDE <- MCHddStride
  SSD_STRIDE = 3
  INTERVAL = 4
  Margin = 1
  MigrationTime = {1, 4}
  AnalysisTime = {0, 4}
  BudgetCap = 2
  MaxOthers = 1
  UINT = 4
INVARIANTS
  MovedOnlyAfterStride
  MigratesFromWhereItIs
  BudgetNeverWraps
  AtMostTwoAfterStop
  IInv
PROPERTIES
  EveryRoundServes
  HotExtentsReachSsd
  PlacementConverges
CHECK_DEADLOCK FALSE
