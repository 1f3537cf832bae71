SPECIFICATION FairSpec
CONSTANTS
  Clusters = {c1, c2}
  ClusterRefs = {c2}
  Changes = {"spec", "label", "delete"}
  MaxChanges = 2
  Faults = {}
  MaxFaults = 0
  LateResults = FALSE
INVARIANTS
  NothingLeftBehind
PROPERTIES
  EventuallyConverges
CHECK_DEADLOCK FALSE
