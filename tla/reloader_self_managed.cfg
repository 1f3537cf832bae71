SPECIFICATION Spec
CONSTANTS
  Clusters = {c1, c2}
  Workloads = {w1}
  SelfManaged = {c2}
  MaxChanges = 1
  MaxFaults = 0
INVARIANTS
  NothingDroppedUnlessRenewed
