------------------------------ MODULE MCReports ------------------------------
(* ReportCollection for TLC. *)
EXTENDS ReportCollection

\* Every CHC references every HealthCheck.
AllReferences == [k \in CHCs |-> HealthChecks]

\* The CHCs share the first cluster; only k1 may match the second one.
SharedAndOwn == [k \in CHCs |-> IF k = "k1" THEN Clusters ELSE {"c1"}]

\* Clusters of the same name, in different namespaces.
SameName == [c \in Clusters |-> "cluster"]

=============================================================================
