------------------------------- MODULE MCMaps -------------------------------
(* Instances of ReconcilerMaps for TLC.                                      *)
EXTENDS ReconcilerMaps, TLC

\* Specs that differ in the clusters they match and in what they read.
ThreeSpecs ==
  {[selector |-> {"l1"}, refs |-> HealthChecks, addons |-> FALSE],
   [selector |-> {"l1", "l2"}, refs |-> {}, addons |-> TRUE],
   [selector |-> {}, refs |-> HealthChecks, addons |-> TRUE]}

\* CHCs are interchangeable.
CHCSymmetry == Permutations(CHCs)

=============================================================================
