CONSTANTS
  Symbols <- MCSymbols
  AccountFeeds <- MCNoFeeds
  SkipHistory = FALSE
  FromTime = 2
  AckRetries = 2
  EventRoom = 3
  MaxNow = 5
  MaxFaults = 1
  RawRoom = 2
  BarRoom = 1
  Padding = 1
  MaxGap = 3
SPECIFICATION FairSpec
CHECK_DEADLOCK FALSE
INVARIANTS
  TypeOK
  NoBarMissing
  HistoryReachesBack
PROPERTIES
  NoDeadHub
