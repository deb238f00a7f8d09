CONSTANTS
  Count <- MCCount
  NoBar <- MCNoBar
  AckTimeout <- MCAckTimeout
  FillTimeout <- MCFillTimeout
  Qty = 1
  CloseTriggers = {"next_bar", "position_update"}
  OrderStyle = "market"
  Held = 0
  MaxSilence = 0
  FastRestarts = FALSE
  MaxRepeated = 2
  MaxTime = 3
  MaxReports = 2
  MaxDeaths = 1
SPECIFICATION FairSpec
CHECK_DEADLOCK FALSE
INVARIANTS
  TypeOK
  OneExposure
  SavedStateKnowsCommands
PROPERTIES
  NoOrderFromRecoveredBar
  DeliveredIsHandled
