------------------------------- MODULE MCOwners -------------------------------
(* HealthCheckOwners for TLC: the constants are given in the cfg files. *)
EXTENDS HealthCheckOwners

=============================================================================
