CONSTANTS
  Target = 2
  None = None
  BarsPerDay = 2
  MaxBars = 3
  MaxOrders = 4
  MaxRefused = 1
SPECIFICATION Spec
CHECK_DEADLOCK FALSE
INVARIANTS
  TypeOK
PROPERTIES
  EntryWhenFlat
  OwnFillsAreKept
