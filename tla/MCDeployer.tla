----------------------------- MODULE MCDeployer -----------------------------
(* Instances of ClusterHealthCheckDeployer for TLC: clusters are model       *)
(* values, changes and faults are chosen per run.                            *)
EXTENDS ClusterHealthCheckDeployer
=============================================================================
