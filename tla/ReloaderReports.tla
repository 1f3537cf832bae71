---------------------------- MODULE ReloaderReports ----------------------------
(***************************************************************************)
(* ReloaderReports: when a mounted ConfigMap or Secret changes,            *)
(* sveltos-agent lists the workloads to reload in a report; the collector  *)
(* brings it to the management cluster (reloaderreport_collection.go) and  *)
(* the reconciler triggers the rolling upgrades, then deletes it           *)
(* (reloaderreport_controller.go).                                         *)
(*                                                                         *)
(* One report per cluster.  Create and Update are checked against the      *)
(* object the caller read (resourceVersion), Delete is not: "fresh" tells  *)
(* whether what a process read is still current.  Both processes read the  *)
(* API server here; their cached client may return something older.        *)
(***************************************************************************)
EXTENDS Naturals

CONSTANTS Clusters, Workloads,
          SelfManaged,  \* the managed clusters that are the management cluster
          MaxChanges,   \* bound on changes of mounted resources and profiles
          MaxFaults     \* bound on failing calls and restarts

ASSUME ReloaderAssumption ==
  /\ SelfManaged \subseteq Clusters
  /\ MaxChanges \in Nat
  /\ MaxFaults \in Nat

VARIABLES
  agentInMgmtCluster, \* agentless mode: agents write in the management cluster
  reloader,  \* clusters a profile with Reloader set matches
  due,       \* workloads to reload, since the agent reported them last
  managed,   \* workloads the report in each managed cluster lists ({}: none)
  mgmt,      \* reports in the management cluster
  queue,     \* reports the reconciler has to look at
  rec,       \* the reconcile in progress
  collector, \* the collection in progress
  raced,     \* history: how reports nobody had processed were discarded
  changes, faults \* how many happened (bounds)

vars == <<agentInMgmtCluster, reloader, due, managed, mgmt, queue, rec,
          collector, raced, changes, faults>>

\* A report in the management cluster; filled: it names its cluster.
NoReport == [exists |-> FALSE, filled |-> FALSE, list |-> {}]
Report(list, filled) == [exists |-> TRUE, filled |-> filled, list |-> list]

IdleReconciler == [current |-> {}, todo |-> {}, failed |-> {}, fresh |-> FALSE]

IdleCollector ==
  [pc |-> "next", todo |-> {}, own |-> {}, foreign |-> {}, current |-> {},
   known |-> FALSE, fresh |-> FALSE, renewed |-> {},
   list |-> [c \in Clusters |-> {}]]

Init ==
  /\ agentInMgmtCluster \in BOOLEAN
  /\ reloader = Clusters
  /\ due = [c \in Clusters |-> {}]
  /\ managed = [c \in Clusters |-> {}]
  /\ mgmt = [c \in Clusters |-> NoReport]
  /\ queue = {}
  /\ rec = IdleReconciler
  /\ collector = IdleCollector
  /\ raced = {}
  /\ changes = 0
  /\ faults = 0

Fault == faults < MaxFaults /\ faults' = faults + 1
NoFault == UNCHANGED faults

\* Once the report of c is written or deleted, who read it before is outdated.
Outdated(p, c) == [p EXCEPT !.fresh = @ /\ c \notin p.current]

\* A report is discarded before it was processed.
Lost(discarded, how) == IF discarded THEN {how} ELSE {}

-----------------------------------------------------------------------------
(* The collector. *)

Sleeping == /\ collector.pc = "next"
            /\ collector.todo \cup collector.own \cup collector.foreign = {}

\* collectReloaderReports.  In agentless mode one List covers all clusters
\* (collectAndProcessAllReloaderReports); filled reports are left alone.
StartCycle ==
  /\ Sleeping
  /\ collector' =
       IF agentInMgmtCluster
       THEN [IdleCollector EXCEPT
               !.own = {c \in reloader : mgmt[c].exists /\ ~mgmt[c].filled},
               !.list = [c \in Clusters |->
                           IF c \in reloader /\ ~mgmt[c].filled THEN mgmt[c].list ELSE {}]]
       ELSE [IdleCollector EXCEPT !.todo = reloader]
  /\ UNCHANGED <<agentInMgmtCluster, reloader, due, managed, mgmt, queue, rec,
                 raced, changes, faults>>

\* collectAndProcessReloaderReportsFromCluster: list the reports of c, unless
\* it is not ready, paused, incompatible or out of reach.  The management
\* cluster also holds the reports collected from the others.
ListReports(c) ==
  /\ collector.pc = "next" /\ collector.own \cup collector.foreign = {}
  /\ c \in collector.todo
  /\ \/ /\ collector' = [IdleCollector EXCEPT
              !.todo = collector.todo \ {c},
              !.own = {x \in {c} : managed[x] # {}},
              !.foreign = {d \in Clusters : c \in SelfManaged /\ mgmt[d].exists},
              !.list[c] = managed[c]]
        /\ NoFault
     \/ /\ collector' = [collector EXCEPT !.todo = @ \ {c}]
        /\ Fault
  /\ UNCHANGED <<agentInMgmtCluster, reloader, due, managed, mgmt, queue, rec,
                 raced, changes>>

\* Done with the report of c.
Processed(c) == [collector EXCEPT !.pc = "next", !.current = {}, !.known = FALSE,
                                  !.fresh = FALSE, !.list[c] = {},
                                  !.own = @ \ {c}, !.renewed = @ \ {c}]

\* Mutant: a report that could not be brought over is deleted all the same.
NotWrittenButDeleted(c) == [collector EXCEPT !.pc = "delete"]

\* A report that could not be brought over is left for the next cycle.
NotWritten(c) == Processed(c)

\* updateReloaderReport gets the report from the management cluster ...
GetReport(c) ==
  /\ collector.pc = "next" /\ c \in collector.own
  /\ \/ /\ collector' = [collector EXCEPT !.pc = "write", !.current = {c},
                           !.known = mgmt[c].exists, !.fresh = TRUE]
        /\ NoFault
     \/ /\ collector' = Processed(c)
        /\ Fault
  /\ UNCHANGED <<agentInMgmtCluster, reloader, due, managed, mgmt, queue, rec,
                 raced, changes>>

\* ... then creates or updates it with what was listed.
CanWrite(c) ==
  IF collector.known THEN mgmt[c].exists /\ collector.fresh ELSE ~mgmt[c].exists

WriteReport(c) ==
  /\ collector.pc = "write" /\ c \in collector.current
  /\ \/ /\ CanWrite(c)
        /\ mgmt' = [mgmt EXCEPT ![c] = Report(collector.list[c], TRUE)]
        /\ queue' = queue \cup {c}
        /\ rec' = Outdated(rec, c)
        /\ collector' = IF agentInMgmtCluster THEN Processed(c)
                        ELSE [collector EXCEPT !.pc = "delete"]
        /\ raced' = raced \cup Lost(agentInMgmtCluster /\ c \in collector.renewed, "renewed")
        /\ NoFault
     \/ /\ ~CanWrite(c)
        /\ collector' = NotWritten(c)
        /\ NoFault
        /\ UNCHANGED <<mgmt, queue, rec, raced>>
     \/ /\ Fault
        /\ collector' = NotWritten(c)
        /\ UNCHANGED <<mgmt, queue, rec, raced>>
  /\ UNCHANGED <<agentInMgmtCluster, reloader, due, managed, changes>>

\* The report is deleted from the managed cluster, as it is by now.
DeleteManaged(c) ==
  /\ collector.pc = "delete" /\ c \in collector.current
  /\ \/ /\ managed' = [managed EXCEPT ![c] = {}]
        /\ raced' = raced \cup Lost(c \in collector.renewed, "renewed")
        /\ NoFault
     \/ /\ Fault
        /\ UNCHANGED <<managed, raced>>
  /\ collector' = Processed(c)
  /\ UNCHANGED <<agentInMgmtCluster, reloader, due, mgmt, queue, rec, changes>>

\* A report that names a cluster is not brought over (updateReloaderReport
\* returns at once), and deleted where it was found.
DeleteForeign(d) ==
  /\ collector.pc = "next" /\ d \in collector.foreign
  /\ \/ /\ mgmt' = [mgmt EXCEPT ![d] = NoReport]
        /\ rec' = Outdated(rec, d)
        /\ raced' = raced \cup Lost(mgmt[d].exists, "foreign")
        /\ NoFault
     \/ /\ Fault
        /\ UNCHANGED <<mgmt, rec, raced>>
  /\ collector' = [collector EXCEPT !.foreign = @ \ {d}]
  /\ UNCHANGED <<agentInMgmtCluster, reloader, due, managed, queue, changes>>

-----------------------------------------------------------------------------
(* The reconciler. *)

\* Reconcile, and processReloaderReport up to the loop: a report that does not
\* name its cluster yet fails and is tried again.
Reconcile(c) ==
  /\ rec.current = {} /\ c \in queue
  /\ queue' = IF mgmt[c].exists /\ ~mgmt[c].filled THEN queue ELSE queue \ {c}
  /\ rec' = IF mgmt[c].exists /\ mgmt[c].filled
            THEN [current |-> {c}, todo |-> mgmt[c].list, failed |-> {}, fresh |-> TRUE]
            ELSE rec
  /\ UNCHANGED <<agentInMgmtCluster, reloader, due, managed, mgmt, collector,
                 raced, changes, faults>>

\* Mutant: the report is recorded instead of the workload.
FailedReport(c, w) == [rec EXCEPT !.todo = @ \ {w}, !.failed = @ \cup {c}]

\* The rolling upgrade of w failed.
Failed(c, w) == [rec EXCEPT !.todo = @ \ {w}, !.failed = @ \cup {w}]

\* Mutant: a report that is not done with is not looked at again.
RequeuedNever(c) == queue

\* A failing reconcile is repeated, and an update of the report queues it.
Requeued(c) == queue \cup {c}

\* triggerRollingUpgrade.  A call that fails may have been carried out; a
\* workload that is gone needs no reload.
TriggerRollingUpgrade(c, w) ==
  /\ c \in rec.current /\ w \in rec.todo
  /\ \/ /\ due' = [due EXCEPT ![c] = @ \ {w}]
        /\ rec' = [rec EXCEPT !.todo = @ \ {w}]
        /\ NoFault
     \/ /\ Fault
        /\ \E done \in {{}, {w}} : due' = [due EXCEPT ![c] = @ \ done]
        /\ rec' = Failed(c, w)
  /\ UNCHANGED <<agentInMgmtCluster, reloader, managed, mgmt, queue, collector,
                 raced, changes>>

\* Everything is reloaded: the report is deleted, as it is by now.
AllReloaded(c) ==
  /\ c \in rec.current /\ rec.todo = {} /\ rec.failed = {}
  /\ \/ /\ mgmt' = [mgmt EXCEPT ![c] = NoReport]
        /\ collector' = Outdated(collector, c)
        /\ raced' = raced \cup Lost(mgmt[c].exists /\ ~rec.fresh, "renewed")
        /\ NoFault /\ UNCHANGED queue
     \/ /\ Fault
        /\ queue' = Requeued(c)
        /\ UNCHANGED <<mgmt, collector, raced>>
  /\ rec' = IdleReconciler
  /\ UNCHANGED <<agentInMgmtCluster, reloader, due, managed, changes>>

\* The report is updated with the workloads that failed; on a conflict it is
\* reconciled again as it is by now.
SomeFailed(c) ==
  /\ c \in rec.current /\ rec.todo = {} /\ rec.failed # {}
  /\ \/ /\ rec.fresh
        /\ mgmt' = [mgmt EXCEPT ![c] = Report(rec.failed, TRUE)]
        /\ collector' = Outdated(collector, c)
        /\ NoFault
     \/ /\ ~rec.fresh
        /\ NoFault /\ UNCHANGED <<mgmt, collector>>
     \/ /\ Fault
        /\ UNCHANGED <<mgmt, collector>>
  /\ queue' = Requeued(c)
  /\ rec' = IdleReconciler
  /\ UNCHANGED <<agentInMgmtCluster, reloader, due, managed, raced, changes>>

-----------------------------------------------------------------------------
(* Agents, users and the process. *)

Change == changes < MaxChanges /\ changes' = changes + 1

\* A mounted resource changes: the agent lists the workloads that mount it in
\* its report.  Others are not concerned by it (anymore).
ConfigChanges(c, ws) ==
  /\ Change
  /\ due' = [due EXCEPT ![c] = ws]
  /\ IF agentInMgmtCluster
     THEN /\ mgmt' = [mgmt EXCEPT ![c] = Report(ws, FALSE)]
          /\ queue' = queue \cup {c}
          /\ rec' = Outdated(rec, c)
          /\ collector' = [Outdated(collector, c) EXCEPT
                             !.renewed = @ \cup (collector.own \cap {c})]
          /\ UNCHANGED managed
     ELSE /\ managed' = [managed EXCEPT ![c] = ws]
          /\ collector' = [collector EXCEPT
                             !.renewed = @ \cup (collector.own \cap {c})]
          /\ UNCHANGED <<mgmt, queue, rec>>
  /\ UNCHANGED <<agentInMgmtCluster, reloader, raced, faults>>

\* A profile with Reloader set starts or stops matching c
\* (buildClustersWithReloader).
ChangeProfile(c) ==
  /\ Change
  /\ reloader' = IF c \in reloader THEN reloader \ {c} ELSE reloader \cup {c}
  /\ UNCHANGED <<agentInMgmtCluster, due, managed, mgmt, queue, rec, collector,
                 raced, faults>>

\* The manager restarts and reconciles every report it finds.
Restart ==
  /\ Fault
  /\ queue' = {c \in Clusters : mgmt[c].exists}
  /\ rec' = IdleReconciler
  /\ collector' = IdleCollector
  /\ UNCHANGED <<agentInMgmtCluster, reloader, due, managed, mgmt, raced, changes>>

CollectorStep ==
  \/ StartCycle
  \/ \E c \in Clusters : ListReports(c) \/ GetReport(c) \/ WriteReport(c)
                         \/ DeleteManaged(c) \/ DeleteForeign(c)

ReconcilerStep ==
  \E c \in Clusters :
    \/ Reconcile(c) \/ AllReloaded(c) \/ SomeFailed(c)
    \/ \E w \in Workloads : TriggerRollingUpgrade(c, w)

Next ==
  \/ CollectorStep
  \/ ReconcilerStep
  \/ \E c \in Clusters, ws \in (SUBSET Workloads) \ {{}} : ConfigChanges(c, ws)
  \/ \E c \in Clusters : ChangeProfile(c)
  \/ Restart

Spec == Init /\ [][Next]_vars

\* The collector loops forever and the workqueue is served.
FairSpec == Spec /\ WF_vars(CollectorStep) /\ WF_vars(ReconcilerStep)

-----------------------------------------------------------------------------
(* Properties. *)

ReportType == [exists : BOOLEAN, filled : BOOLEAN, list : SUBSET Workloads]

ReconcilerType == [current : SUBSET Clusters, todo : SUBSET Workloads,
                   failed : SUBSET Workloads, fresh : BOOLEAN]

CollectorType ==
  [pc : {"next", "write", "delete"}, todo : SUBSET Clusters,
   own : SUBSET Clusters, foreign : SUBSET Clusters, current : SUBSET Clusters,
   known : BOOLEAN, fresh : BOOLEAN, renewed : SUBSET Clusters,
   list : [Clusters -> SUBSET Workloads]]

\* The reports and both processes are well formed.
TypeOK ==
  /\ agentInMgmtCluster \in BOOLEAN
  /\ reloader \in SUBSET Clusters
  /\ due \in [Clusters -> SUBSET Workloads]
  /\ managed \in [Clusters -> SUBSET Workloads]
  /\ mgmt \in [Clusters -> ReportType]
  /\ queue \in SUBSET Clusters
  /\ rec \in ReconcilerType
  /\ collector \in CollectorType
  /\ raced \subseteq {"renewed", "foreign"}
  /\ changes \in 0 .. MaxChanges
  /\ faults \in 0 .. MaxFaults

\* A workload that has to be reloaded is listed in a report, in its cluster or
\* in the management cluster, until its rolling upgrade was triggered: "If
\* update failed for one or more resource, ReloaderReport Spec in the
\* management cluster is updated to contain only the failed resource"
\* (reloaderreport_controller.go:83-86).
NothingDropped ==
  \A c \in Clusters : due[c] \subseteq managed[c] \cup mgmt[c].list

\* NothingDropped, unless a report was deleted or overwritten after its agent
\* renewed it, or deleted from a management cluster that is itself managed.
NothingDroppedUnlessRaced == raced = {} => NothingDropped

\* NothingDropped, unless an agent renews its report while it is processed:
\* reports that name a cluster belong to another reconciler, "do not pull
\* those" (reloaderreport_collection.go:362-364).
NothingDroppedUnlessRenewed == "renewed" \notin raced => NothingDropped

\* Every workload of a cluster with a reloader profile is reloaded at last,
\* whatever calls failed on the way: a failed one stays in the report and the
\* update of the report queues it again.
EventuallyReloaded ==
  <>[](raced = {} => \A c \in reloader : due[c] = {})

=============================================================================
