CONSTANTS
  Symbols <- MCSymbols
  AccountFeeds <- MCAccountFeeds
  SkipHistory = FALSE
  FromTime = 2
  AckRetries = 2
  EventRoom = 3
  MaxNow = 4
  MaxFaults = 1
  RawRoom = 2
  BarRoom = 1
  Padding = 1
  MaxGap = 3
SPECIFICATION Spec
CHECK_DEADLOCK FALSE
PROPERTIES
  ResyncBeforeLive
