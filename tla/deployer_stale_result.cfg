SPECIFICATION Spec
CONSTANTS
  Clusters = {c1}
  ClusterRefs = {}
  Changes = {"spec", "pause"}
  MaxChanges = 3
  Faults = {}
  MaxFaults = 0
  LateResults = FALSE
INVARIANTS
  ProvisionedMeansDeployed
CHECK_DEADLOCK FALSE
