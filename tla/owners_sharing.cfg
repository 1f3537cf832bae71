SPECIFICATION FairSpec
CONSTANTS
  CHCs = {k1, k2}
  HealthChecks = {h1, h2}
  MaxChanges = 1
  MaxFaults = 1
INVARIANTS
  TypeOK
  NothingStale
  NothingMissingUnlessRaced
PROPERTIES
  NothingTakenAway
  EventuallyInSync
CHECK_DEADLOCK FALSE
