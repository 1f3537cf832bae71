SPECIFICATION FairSpec
CONSTANTS
  Clusters = {c1, c2}
  Workloads = {w1, w2}
  SelfManaged = {c2}
  MaxChanges = 3
  MaxFaults = 1
INVARIANTS
  TypeOK
  NothingDroppedUnlessRaced
PROPERTIES
  EventuallyReloaded
