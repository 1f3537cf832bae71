SPECIFICATION FairSpec
CONSTANTS
  Clusters = {c1}
  ClusterRefs = {}
  Changes = {"spec", "label", "pause", "delete", "gone"}
  MaxChanges = 4
  Faults = {"worker", "api", "evaluation", "close", "restart"}
  MaxFaults = 1
  LateResults = TRUE
INVARIANTS
  TypeOK
  NoConcurrentDeployAndCleanup
  MatchingIsListed
PROPERTIES
  DeletionCompletes
  ImplementsManagedClusters
CHECK_DEADLOCK FALSE
