--------------------------- MODULE ReportCollection ---------------------------
(***************************************************************************)
(* HealthCheckReports: sveltos-agent writes them in the managed clusters,  *)
(* the collector copies them to the management cluster                     *)
(* (healthcheckreport_collection.go) and four parties remove the copies:   *)
(* the collector, the cleanup jobs of the ClusterHealthChecks (CHCs)       *)
(* (clusterhealthcheck_deployer.go), the HealthCheck controller and the    *)
(* Cluster controllers.                                                    *)
(*                                                                         *)
(* Deployment is reduced to what decides about reports: the clusters a CHC *)
(* matches, the ones the last reconcile decided on, the ones persisted in  *)
(* Status.MatchingClusterRefs, and the steps of a cleanup job.  See        *)
(* HealthCheckOwners for the jobs themselves.                              *)
(***************************************************************************)
EXTENDS Naturals

CONSTANTS CHCs, HealthChecks, Clusters,
          References,   \* the HealthChecks each CHC references
          Selectable,   \* the clusters each CHC may come to match
          Name,         \* name of each cluster (without its namespace)
          MaxChanges,   \* bound on changes of users, agents and clusters
          MaxFaults     \* bound on failing collections

ASSUME ReportsAssumption ==
  /\ References \in [CHCs -> SUBSET HealthChecks]
  /\ Selectable \in [CHCs -> SUBSET Clusters]
  /\ MaxChanges \in Nat
  /\ MaxFaults \in Nat

VARIABLES
  chc,        \* each CHC: in the API server, marked for deletion
  matches,    \* the clusters each CHC matches
  target,     \* the clusters its last reconcile decided on
  refs,       \* its Status.MatchingClusterRefs
  deployed,   \* step of its deployment in each cluster
  healthCheck,\* the HealthChecks of the management cluster
  cluster,    \* the Cluster objects
  owners,     \* owners of each HealthCheck of each managed cluster
  report,     \* reports in the managed clusters
  mgmt,       \* content of the reports in the management cluster (0: none)
  queue,      \* HealthChecks and clusters their controllers have to reconcile
  collector,  \* the collector's cycle
  raced,      \* history: a report was removed while it could still be copied
  changes, faults \* how many happened (bounds)

chcs == <<chc, matches, target, refs, deployed>>
managed == <<owners, report>>
vars == <<chc, matches, target, refs, deployed, healthCheck, cluster, owners,
          report, mgmt, queue, collector, raced, changes, faults>>

Keys == Clusters \X HealthChecks
NoReport == [content |-> 0, deleting |-> FALSE]
Idle == [pc |-> "clusters", wanted |-> {}, todo |-> {}, current |-> {},
         list |-> [h \in HealthChecks |-> NoReport], items |-> {}, item |-> {}]

\* Every CHC has been deployed where it matches and every report copied once.
\* (What leads here is what leads back here after a CHC stopped matching.)
Init ==
  /\ chc = [k \in CHCs |-> [exists |-> TRUE, deleting |-> FALSE]]
  /\ matches = Selectable
  /\ target = Selectable
  /\ refs = Selectable
  /\ deployed = [k \in CHCs |-> [c \in Clusters |->
                   IF c \in Selectable[k] THEN "yes" ELSE "no"]]
  /\ healthCheck = [h \in HealthChecks |-> TRUE]
  /\ cluster = [c \in Clusters |-> TRUE]
  /\ owners = [c \in Clusters |-> [h \in HealthChecks |->
                 {k \in CHCs : c \in Selectable[k] /\ h \in References[k]}]]
  /\ report = [c \in Clusters |-> [h \in HealthChecks |->
                 IF owners[c][h] # {} THEN [NoReport EXCEPT !.content = 1] ELSE NoReport]]
  /\ mgmt = [x \in Keys |-> report[x[1]][x[2]].content]
  /\ queue = {}
  /\ collector = Idle
  /\ raced = FALSE
  /\ changes = 0
  /\ faults = 0

-----------------------------------------------------------------------------
(* The collector. *)

\* Mutant: a CHC that is being deleted still wants its reports.
WantedByAll == {x \in Keys : \E k \in CHCs : chc[k].exists
                               /\ x[1] \in refs[k] /\ x[2] \in References[k]}

\* buildWantedReports.
Wanted == {x \in Keys : \E k \in CHCs : chc[k].exists /\ ~chc[k].deleting
                          /\ x[1] \in refs[k] /\ x[2] \in References[k]}

\* buildClustersWithHealthCheck: a CHC that is being deleted counts here.
ClustersWithHealthCheck == {c \in Clusters : \E k \in CHCs : chc[k].exists /\ c \in refs[k]}

\* Does the collector sleep between two cycles?
Sleeping == collector.pc = "clusters" /\ collector.todo = {}

\* collectHealthCheckReports: the clusters that exist and some CHC matches.
StartCycle ==
  /\ Sleeping
  /\ LET todo == {c \in ClustersWithHealthCheck : cluster[c]}
     IN collector' = [Idle EXCEPT !.todo = todo,
                        !.wanted = Wanted \cap (todo \X HealthChecks)]
  /\ UNCHANGED <<chcs, healthCheck, cluster, managed, mgmt, queue, raced,
                 changes, faults>>

\* Done with cluster c.  (What was read for it is not used anymore.)
NextCluster(c) == [Idle EXCEPT !.todo = collector.todo \ {c},
                               !.wanted = {x \in collector.wanted : x[1] # c}]

\* collectAndProcessHealthCheckReportsFromCluster: list the cluster's reports,
\* unless the cluster is gone or cannot be reached.
ListReports(c) ==
  /\ collector.pc = "clusters" /\ c \in collector.todo
  /\ LET items == {h \in HealthChecks : report[c][h].content # 0}
     IN \/ /\ cluster[c] /\ items # {}
           /\ collector' = [collector EXCEPT !.pc = "reports", !.current = {c},
                              !.list = report[c], !.items = items]
           /\ UNCHANGED faults
        \/ /\ ~cluster[c] \/ items = {}
           /\ collector' = NextCluster(c)
           /\ UNCHANGED faults
        \/ /\ cluster[c]
           /\ faults < MaxFaults /\ faults' = faults + 1
           /\ collector' = NextCluster(c)
  /\ UNCHANGED <<chcs, healthCheck, cluster, managed, mgmt, queue, raced, changes>>

\* Done with the report on h of cluster c.
NextReport(c, h) ==
  IF collector.items \subseteq {h} THEN NextCluster(c)
  ELSE [collector EXCEPT !.pc = "reports", !.items = @ \ {h}, !.item = {},
                         !.list[h] = NoReport]

\* processOneHealthCheckReport: delete the copy of a report being deleted,
\* skip one nobody wants or whose HealthCheck is gone.
ProcessReport(c, h) ==
  /\ collector.pc = "reports" /\ c \in collector.current /\ h \in collector.items
  /\ collector' = IF /\ ~collector.list[h].deleting
                     /\ <<c, h>> \in collector.wanted
                     /\ healthCheck[h]
                  THEN [collector EXCEPT !.pc = "copy", !.items = @ \ {h},
                                         !.item = {h}]
                  ELSE NextReport(c, h)
  /\ mgmt' = IF collector.list[h].deleting THEN [mgmt EXCEPT ![<<c, h>>] = 0]
             ELSE mgmt
  /\ UNCHANGED <<chcs, healthCheck, cluster, managed, queue, raced, changes, faults>>

\* Mutant: a copy that exists is not updated.
CopyOnce(old, new) == IF old # 0 THEN old ELSE new

\* updateHealthCheckReport creates the copy or overwrites it.
Copy(old, new) == new

CopyReport(c, h) ==
  /\ collector.pc = "copy" /\ c \in collector.current /\ h \in collector.item
  /\ mgmt' = [mgmt EXCEPT ![<<c, h>>] = Copy(@, collector.list[h].content)]
  /\ collector' = NextReport(c, h)
  /\ UNCHANGED <<chcs, healthCheck, cluster, managed, queue, raced, changes, faults>>

\* The reports a cycle may still write, from what it read when it started.
InFlight ==
  {x \in collector.wanted :
     \/ x[1] \in collector.todo \ collector.current
     \/ x[1] \in collector.current /\ x[2] \in collector.items \cup collector.item}

\* Reports removed by somebody else than the collector.
Remove(keys) ==
  /\ mgmt' = [x \in Keys |-> IF x \in keys THEN 0 ELSE mgmt[x]]
  /\ raced' = (raced \/ keys \cap InFlight # {})

-----------------------------------------------------------------------------
(* The CHCs: reconciles and jobs. *)

\* The clusters a reconcile decides on.
Decided(k) == IF chc[k].deleting THEN {} ELSE matches[k]

\* A reconcile decides which clusters match and adds entries for the new ones
\* (updateClusterConditions); its jobs may run before it ends.
Reconcile(k) ==
  /\ chc[k].exists /\ target[k] # Decided(k)
  /\ target' = [target EXCEPT ![k] = Decided(k)]
  /\ deployed' = [deployed EXCEPT ![k] = [c \in Clusters |->
                    IF c \in Decided(k) /\ @[c] = "no" THEN "new" ELSE @[c]]]
  /\ UNCHANGED <<chc, matches, refs, healthCheck, cluster, managed, mgmt, queue,
                 collector, raced, changes, faults>>

\* scope.Close persists MatchingClusterRefs.
Close(k) ==
  /\ chc[k].exists /\ refs[k] # target[k]
  /\ refs' = [refs EXCEPT ![k] = target[k]]
  /\ UNCHANGED <<chc, matches, target, deployed, healthCheck, cluster, managed,
                 mgmt, queue, collector, raced, changes, faults>>

\* The deploy job: it needs every HealthCheck the CHC references.
DeployHealthChecks(k, c) ==
  /\ chc[k].exists /\ ~chc[k].deleting
  /\ c \in target[k] /\ cluster[c] /\ deployed[k][c] = "new"
  /\ \A h \in References[k] : healthCheck[h]
  /\ owners' = [owners EXCEPT ![c] = [h \in HealthChecks |->
                  IF h \in References[k] THEN @[h] \cup {k} ELSE @[h]]]
  /\ deployed' = [deployed EXCEPT ![k][c] = "yes"]
  /\ UNCHANGED <<chc, matches, target, refs, healthCheck, cluster, report, mgmt,
                 queue, collector, raced, changes, faults>>

\* The cleanup job first removes the reports of the HealthChecks it is about
\* to delete (proceedRemovingStaleHealthChecks) ...
RemoveStaleReports(k, c) ==
  /\ c \notin target[k] /\ deployed[k][c] \in {"new", "yes"} /\ cluster[c]
  /\ Remove({c} \X {h \in HealthChecks : owners[c][h] = {k}})
  /\ deployed' = [deployed EXCEPT ![k][c] = "leaving"]
  /\ UNCHANGED <<chc, matches, target, refs, healthCheck, cluster, managed, queue,
                 collector, changes, faults>>

\* ... then leaves them ...
RemoveStaleHealthChecks(k, c) ==
  /\ deployed[k][c] = "leaving" /\ cluster[c]
  /\ owners' = [owners EXCEPT ![c] = [h \in HealthChecks |-> @[h] \ {k}]]
  /\ deployed' = [deployed EXCEPT ![k][c] = "left"]
  /\ UNCHANGED <<chc, matches, target, refs, healthCheck, cluster, report, mgmt,
                 queue, collector, raced, changes, faults>>

\* Mutant: an entry whose cleanup is done is kept.
AfterCleanupKept(k, c) == "removed"

\* The entry is dropped once the cleanup is done, unless the CHC matches again.
AfterCleanup(k, c) == IF c \in target[k] THEN "new" ELSE "no"

\* ... and removes the reports of everything the CHC references, wanted by
\* another CHC or not (removeReportsOfReferencedHealthChecks).  A collection
\* that starts before MatchingClusterRefs is persisted copies them again.
RemoveReportsOfReferenced(k, c) ==
  /\ deployed[k][c] = "left" /\ cluster[c]
  /\ mgmt' = [x \in Keys |-> IF x[1] = c /\ x[2] \in References[k] THEN 0 ELSE mgmt[x]]
  /\ raced' = (raced \/ ({c} \X References[k]) \cap InFlight # {}
                     \/ (c \in refs[k] /\ ~chc[k].deleting))
  /\ deployed' = [deployed EXCEPT ![k][c] = AfterCleanup(k, c)]
  /\ UNCHANGED <<chc, matches, target, refs, healthCheck, cluster, managed, queue,
                 collector, changes, faults>>

\* removeClusterHealthCheck: nothing to do for a cluster that is gone.
ForgetCluster(k, c) ==
  /\ c \notin target[k] /\ deployed[k][c] # "no" /\ ~cluster[c]
  /\ deployed' = [deployed EXCEPT ![k][c] = "no"]
  /\ UNCHANGED <<chc, matches, target, refs, healthCheck, cluster, managed, mgmt,
                 queue, collector, raced, changes, faults>>

\* reconcileDelete removes the finalizer once every cluster is cleaned up.
Released(k) ==
  /\ chc[k].exists /\ chc[k].deleting /\ target[k] = {}
  /\ \A c \in Clusters : deployed[k][c] = "no"
  /\ chc' = [chc EXCEPT ![k].exists = FALSE]
  /\ refs' = [refs EXCEPT ![k] = {}]
  /\ UNCHANGED <<matches, target, deployed, healthCheck, cluster, managed, mgmt,
                 queue, collector, raced, changes, faults>>

-----------------------------------------------------------------------------
(* The HealthCheck and Cluster controllers. *)

\* HealthCheckReconciler.Reconcile: removeHealthCheckReports.
ReconcileHealthCheck(h) ==
  /\ <<"HealthCheck", h>> \in queue
  /\ queue' = queue \ {<<"HealthCheck", h>>}
  /\ IF healthCheck[h] THEN UNCHANGED <<mgmt, raced>> ELSE Remove(Clusters \X {h})
  /\ UNCHANGED <<chcs, healthCheck, cluster, managed, collector, changes, faults>>

\* processCluster: removeHealthCheckReportsFromCluster lists by the name of the
\* cluster, in every namespace.
ReconcileCluster(c) ==
  /\ <<"Cluster", c>> \in queue
  /\ queue' = queue \ {<<"Cluster", c>>}
  /\ IF cluster[c] THEN UNCHANGED <<mgmt, raced>>
     ELSE Remove({x \in Keys : Name[x[1]] = Name[c]})
  /\ UNCHANGED <<chcs, healthCheck, cluster, managed, collector, changes, faults>>

-----------------------------------------------------------------------------
(* sveltos-agent, users and clusters. *)

\* The agent reports on every HealthCheck it finds, and removes its report,
\* at once or in two steps, when the HealthCheck is gone.
AgentReports(c, h) ==
  /\ cluster[c]
  /\ owners[c][h] # {} /\ report[c][h].content = 0
  /\ report' = [report EXCEPT ![c][h].content = 1]
  /\ UNCHANGED <<chcs, healthCheck, cluster, owners, mgmt, queue, collector,
                 raced, changes, faults>>

AgentRemoves(c, h) ==
  /\ owners[c][h] = {} /\ report[c][h].content # 0
  /\ \/ report' = [report EXCEPT ![c][h] = NoReport]
     \/ /\ ~report[c][h].deleting
        /\ report' = [report EXCEPT ![c][h].deleting = TRUE]
  /\ UNCHANGED <<chcs, healthCheck, cluster, owners, mgmt, queue, collector,
                 raced, changes, faults>>

\* A report being deleted goes away even if its HealthCheck is back.
ReportGone(c, h) ==
  /\ report[c][h].deleting
  /\ report' = [report EXCEPT ![c][h] = NoReport]
  /\ UNCHANGED <<chcs, healthCheck, cluster, owners, mgmt, queue, collector,
                 raced, changes, faults>>

Change == /\ changes < MaxChanges
          /\ changes' = changes + 1
          /\ UNCHANGED <<target, refs, deployed, mgmt, collector, raced, faults>>

HealthChanges(c, h) ==
  /\ report[c][h].content # 0 /\ ~report[c][h].deleting /\ owners[c][h] # {}
  /\ report' = [report EXCEPT ![c][h].content = @ + 1]
  /\ Change
  /\ UNCHANGED <<chc, matches, healthCheck, cluster, owners, queue>>

DeleteCHC(k) ==
  /\ chc[k].exists /\ ~chc[k].deleting
  /\ chc' = [chc EXCEPT ![k].deleting = TRUE]
  /\ Change
  /\ UNCHANGED <<matches, healthCheck, cluster, managed, queue>>

ChangeMatch(k, c) ==
  /\ cluster[c] /\ c \in Selectable[k]
  /\ matches' = [matches EXCEPT ![k] = IF c \in @ THEN @ \ {c} ELSE @ \cup {c}]
  /\ Change
  /\ UNCHANGED <<chc, healthCheck, cluster, managed, queue>>

\* A HealthCheck is deleted, or created again.
ChangeHealthCheck(h) ==
  /\ healthCheck' = [healthCheck EXCEPT ![h] = ~@]
  /\ queue' = queue \cup {<<"HealthCheck", h>>}
  /\ Change
  /\ UNCHANGED <<chc, matches, cluster, managed>>

\* The Cluster object is deleted, and the managed cluster with it.
ClusterGone(c) ==
  /\ cluster[c]
  /\ cluster' = [cluster EXCEPT ![c] = FALSE]
  /\ matches' = [k \in CHCs |-> matches[k] \ {c}]
  /\ owners' = [owners EXCEPT ![c] = [h \in HealthChecks |-> {}]]
  /\ report' = [report EXCEPT ![c] = [h \in HealthChecks |-> NoReport]]
  /\ queue' = queue \cup {<<"Cluster", c>>}
  /\ Change
  /\ UNCHANGED <<chc, healthCheck>>

CollectorStep ==
  \/ StartCycle
  \/ \E c \in Clusters : ListReports(c)
  \/ \E c \in Clusters, h \in HealthChecks : ProcessReport(c, h) \/ CopyReport(c, h)

CHCStep(k) ==
  \/ Reconcile(k) \/ Close(k) \/ Released(k)
  \/ \E c \in Clusters : DeployHealthChecks(k, c) \/ RemoveStaleReports(k, c)
                         \/ RemoveStaleHealthChecks(k, c)
                         \/ RemoveReportsOfReferenced(k, c) \/ ForgetCluster(k, c)

ControllerStep ==
  \/ \E h \in HealthChecks : ReconcileHealthCheck(h)
  \/ \E c \in Clusters : ReconcileCluster(c)

AgentStep(c, h) == AgentReports(c, h) \/ AgentRemoves(c, h) \/ ReportGone(c, h)

Next ==
  \/ CollectorStep \/ ControllerStep
  \/ \E k \in CHCs : CHCStep(k)
  \/ \E c \in Clusters, h \in HealthChecks : AgentStep(c, h) \/ HealthChanges(c, h)
  \/ \E k \in CHCs : DeleteCHC(k)
  \/ \E k \in CHCs, c \in Clusters : ChangeMatch(k, c)
  \/ \E h \in HealthChecks : ChangeHealthCheck(h)
  \/ \E c \in Clusters : ClusterGone(c)

Spec == Init /\ [][Next]_vars

\* The collector loops forever, the controllers serve their queues, failed
\* jobs are run again, the agents keep evaluating.
FairSpec ==
  /\ Spec
  /\ WF_vars(CollectorStep)
  /\ WF_vars(ControllerStep)
  /\ \A k \in CHCs : WF_vars(CHCStep(k))
  /\ \A c \in Clusters, h \in HealthChecks : WF_vars(AgentStep(c, h))

-----------------------------------------------------------------------------
(* Properties. *)

Reports == [content : Nat, deleting : BOOLEAN]

\* The CHCs, the reports and the collector's cycle are well formed.
TypeOK ==
  /\ chc \in [CHCs -> [exists : BOOLEAN, deleting : BOOLEAN]]
  /\ matches \in [CHCs -> SUBSET Clusters]
  /\ target \in [CHCs -> SUBSET Clusters]
  /\ refs \in [CHCs -> SUBSET Clusters]
  /\ deployed \in [CHCs -> [Clusters -> {"no", "new", "yes", "leaving", "left"}]]
  /\ healthCheck \in [HealthChecks -> BOOLEAN]
  /\ cluster \in [Clusters -> BOOLEAN]
  /\ owners \in [Clusters -> [HealthChecks -> SUBSET CHCs]]
  /\ report \in [Clusters -> [HealthChecks -> Reports]]
  /\ mgmt \in [Keys -> Nat]
  /\ queue \subseteq ({"HealthCheck"} \X HealthChecks) \cup ({"Cluster"} \X Clusters)
  /\ collector \in [pc : {"clusters", "reports", "copy"},
                    wanted : SUBSET Keys, todo : SUBSET Clusters,
                    current : SUBSET Clusters, list : [HealthChecks -> Reports],
                    items : SUBSET HealthChecks, item : SUBSET HealthChecks]
  /\ raced \in BOOLEAN
  /\ changes \in 0 .. MaxChanges
  /\ faults \in 0 .. MaxFaults

\* Nobody is about to remove or to copy a report.
Settled ==
  /\ Sleeping /\ queue = {}
  /\ \A k \in CHCs : /\ target[k] = Decided(k) /\ refs[k] = target[k]
                     /\ \A c \in Clusters : deployed[k][c] \in {"no", "new", "yes"}
                     /\ \A c \in Clusters \ target[k] : deployed[k][c] = "no"

\* A report in the management cluster belongs to a cluster and to a
\* HealthCheck that exist, and some CHC that matches the cluster and is not
\* being deleted references the HealthCheck: "a report collected in the
\* meantime would never be removed" (healthcheckreport_collection.go:243-246).
NoOrphanReport ==
  Settled => \A c \in Clusters, h \in HealthChecks :
               mgmt[<<c, h>>] # 0 =>
                 cluster[c] /\ healthCheck[h] /\ <<c, h>> \in Wanted

\* NoOrphanReport, as long as no report was removed while a cycle of the
\* collector that wanted it was under way.
NoOrphanReportUnlessRaced == raced \/ NoOrphanReport

\* The copy of a report that is wanted and stays in its cluster ends up with
\* its content, whatever is removed too much: by the cleanup of another CHC
\* that references the same HealthCheck, or with a cluster of the same name.
Copied ==
  \A c \in Clusters, h \in HealthChecks :
    /\ cluster[c] /\ healthCheck[h] /\ <<c, h>> \in Wanted
    /\ report[c][h].content # 0 /\ ~report[c][h].deleting
    => mgmt[<<c, h>>] = report[c][h].content

EventuallyCopied == <>[]Copied

=============================================================================
