SPECIFICATION FairSpec
CONSTANTS
  Clusters = {c1}
  ClusterRefs = {}
  Changes = {"spec", "label", "pause", "delete", "gone"}
  MaxChanges = 4
  Faults = {"worker", "api", "evaluation"}
  MaxFaults = 1
  LateResults = FALSE
INVARIANTS
  NothingLeftBehind
PROPERTIES
  EventuallyConverges
CHECK_DEADLOCK FALSE
