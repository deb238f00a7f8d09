CONSTANTS
  r1 = r1
  r2 = r2
  r3 = r3
  Requests = {r1, r2, r3}
  Ttl = 2
  MaxEntries = 2
  MaxTime = 5
  MaxCalls = 5
SYMMETRY MCSymmetry
SPECIFICATION Spec
CHECK_DEADLOCK FALSE
INVARIANTS
  TypeOK
  MapMatchesQueue
  FreshAgainOnlyAfterEviction
  DuplicateOnlyWithinTtl
