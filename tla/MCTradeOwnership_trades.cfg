CONSTANTS
  own1 = own1
  own2 = own2
  other1 = other1
  NoNumber = NoNumber
  NoTrade <- MCNoTrade
  Own = {own1, own2}
  Foreign = {other1}
  Lots = 1
  DedupLimit = 2
  PerTick = 1
  MaxTime = 1
  MaxReports = 1
  MaxResends = 1
  MaxRestarts = 1
SYMMETRY MCSymmetry
SPECIFICATION Spec
CHECK_DEADLOCK FALSE
INVARIANTS
  TypeOK
  NoTradeLost
  OrphanOnlyWhenUnnamed
  RecordedOnce
