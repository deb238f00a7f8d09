CONSTANTS
  place = place
  market = market
  other = other
  wrong = wrong
  bad = bad
  cancel = cancel
  g1 = g1
  g2 = g2
  NoDeadline = NoDeadline
  Cancels <- MCCancels
  CancelTarget <- MCCancelTarget
  Deadline <- MCDeadline
  Invalid <- MCInvalid
  Undecodable <- MCUndecodable
  Hardened <- MCHardened
  Requests = {place, cancel, other, wrong, bad}
  Consumers = {g1}
  Ttl = 0
  MaxEntries = 1
  ClaimIdle = 0
  MaxMsgs = 2
  MaxTime = 1
  MaxDeaths = 1
  MaxFailures = 1
SPECIFICATION FairSpec
CHECK_DEADLOCK FALSE
INVARIANTS
  TypeOK
  NegativeAnswerHasNoEffect
  AcceptedOrderIsMapped
  DuplicateFollowsAnswer
  SentAgainOnlyWhenForgotten
PROPERTIES
  ImplementsContract
  EveryCommandAnswered
