CONSTANTS
  Day = 100
  Gap = 10
  CloseAt = 10
  ExitOffset = 4
  MaxEntryAt = 6
  AckTimeout = 2
  FillTimeout = 2
  VerifyWindow = 1
  Bars <- MCBars
  Past = {0, 1}
  NoBar <- MCNoBar
  MaxCommands = 3
  MaxOrders = 1
  MaxRestarts = 1
SPECIFICATION Spec
CHECK_DEADLOCK FALSE
INVARIANTS
  TypeOK
  NeverReversed
  OneEntryPerLife
  FlatIsFlat
