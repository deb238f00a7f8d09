SPECIFICATION FairSpec
CONSTANTS
  Kinds <- MCKinds
  Ids = {i1}
  QueueRoom = 1
  MailRoom = 1
  MaxEvents = 2
  MaxTs = 2
  MaxTicks = 2
  MaxFaults = 1
INVARIANTS TypeOK StreamsKeepOrder SnapshotsMoveForward
PROPERTIES EveryEventIsWritten ManagersCatchUp
CHECK_DEADLOCK FALSE
