SPECIFICATION Spec
CONSTANTS
  CHCs = {k1, k2}
  Clusters = {"c1"}
  HealthChecks = {"h1"}
  Labels = {"l1", "l2"}
  Specs <- ThreeSpecs
  MaxChanges = 4
  MaxFaults = 1
SYMMETRY CHCSymmetry
INVARIANTS
  TypeOK
  IndexesAgree
  NoGhosts
  NoMissedReport
  NoStaleCluster
CHECK_DEADLOCK FALSE
