CONSTANTS
  place = place
  market = market
  other = other
  wrong = wrong
  bad = bad
  cancel = cancel
  g1 = g1
  g2 = g2
  NoDeadline = NoDeadline
  Cancels <- MCCancels
  CancelTarget <- MCCancelTarget
  Deadline <- MCDeadline
  Invalid <- MCInvalid
  Undecodable <- MCUndecodable
  Hardened <- MCHardened
  Requests = {market}
  Consumers = {g1}
  Ttl = 2
  MaxEntries = 1
  ClaimIdle = 1
  MaxMsgs = 1
  MaxTime = 2
  MaxDeaths = 1
  MaxFailures = 0
SPECIFICATION Spec
CHECK_DEADLOCK FALSE
INVARIANTS
  NoDuplicateEffect
