SPECIFICATION FairSpec
CONSTANTS
  CHCs = {"k1", "k2"}
  HealthChecks = {"h1"}
  Clusters = {"c1", "c2"}
  References <- AllReferences
  Selectable <- SharedAndOwn
  Name <- SameName
  MaxChanges = 2
  MaxFaults = 1
INVARIANTS
  TypeOK
  NoOrphanReportUnlessRaced
PROPERTIES
  EventuallyCopied
CHECK_DEADLOCK FALSE
