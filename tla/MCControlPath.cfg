\* Entry and exits over the long-lived connection, with admission; the
\* cancellation on a connection of its own.
SPECIFICATION FairSpec
CONSTANTS
  Entry = Entry
  Exit1 = Exit1
  Exit2 = Exit2
  Cancel = Cancel
  Commands <- MCCommands
  Class <- MCClass
  Scoped = {"other"}
  Admitted = {"entry", "exit"}
  LogOnly = FALSE
  Capacity = 2
  MaxConns = 3
CHECK_DEADLOCK FALSE
INVARIANTS TypeOK WrittenOnce
PROPERTIES OnlyGivenUpIsWrittenLate AnsweredUnlessHeldUp
