-------------------------- MODULE ReloaderReportsProofs --------------------------
(***************************************************************************)
(* For every set of clusters and workloads, and with failing calls and     *)
(* restarts anywhere, no workload that has to be reloaded is dropped, as   *)
(* long as no report is discarded behind the back of its agent.            *)
(*                                                                         *)
(* NothingDropped alone is not inductive: it says nothing of what the two  *)
(* processes have in hand.  A reconcile whose report is still current      *)
(* accounts for every due workload the managed cluster does not list       *)
(* (ReconcilerHolds); the collector's copy of a report its agent did not   *)
(* renew lists every due workload (CollectorHolds), and before it deletes  *)
(* the original the management cluster, and a reconcile that uses it,      *)
(* account for all of them (CopyHolds).                                    *)
(***************************************************************************)
EXTENDS ReloaderReports, TLAPS

Shape ==
  /\ \A c, d \in rec.current : c = d
  /\ \A c, d \in collector.current : c = d
  /\ collector.current \subseteq collector.own
  /\ collector.pc = "delete" => ~agentInMgmtCluster
  /\ \A c \in Clusters : ~mgmt[c].exists => mgmt[c].list = {}

\* A managed cluster's report lists what is due there, and is there as long
\* as the collector has it in hand.
Originals ==
  \A c \in Clusters :
    /\ managed[c] # {} => due[c] \subseteq managed[c]
    /\ agentInMgmtCluster => managed[c] = {}
    /\ ~agentInMgmtCluster /\ c \in collector.own => managed[c] # {}

ReconcilerHolds ==
  rec.fresh => \A c \in rec.current :
                 due[c] \subseteq managed[c] \cup rec.todo \cup rec.failed

CollectorHolds ==
  \A c \in collector.own \ collector.renewed : due[c] \subseteq collector.list[c]

CopyHolds ==
  collector.pc = "delete" =>
    \A c \in collector.current \ collector.renewed :
      /\ due[c] \subseteq mgmt[c].list
      /\ rec.fresh /\ c \in rec.current => due[c] \subseteq rec.todo \cup rec.failed

Holds == NothingDropped /\ ReconcilerHolds /\ CollectorHolds /\ CopyHolds

IInv == TypeOK /\ Shape /\ Originals /\ (raced = {} => Holds)

\* The initial states satisfy the invariant.
LEMMA InitHolds == Init => IInv
<1> SUFFICES ASSUME Init PROVE IInv
  OBVIOUS
<1> USE DEF Init, NoReport, IdleReconciler, IdleCollector
<1>1. TypeOK
  BY ReloaderAssumption DEF TypeOK, ReportType, ReconcilerType, CollectorType
<1>2. Shape /\ Originals
  BY DEF Shape, Originals
<1>3. Holds
  BY DEF Holds, NothingDropped, ReconcilerHolds, CollectorHolds, CopyHolds
<1> QED
  BY <1>1, <1>2, <1>3 DEF IInv

\* The collector's record after each of its steps.
LEMMA CollectorTypes ==
  ASSUME TypeOK, NEW c \in Clusters
  PROVE  /\ Processed(c) \in CollectorType
         /\ Outdated(collector, c) \in CollectorType
         /\ [collector EXCEPT !.pc = "delete"] \in CollectorType
         /\ [collector EXCEPT !.todo = @ \ {c}] \in CollectorType
         /\ [collector EXCEPT !.foreign = @ \ {c}] \in CollectorType
         /\ [collector EXCEPT !.pc = "write", !.current = {c},
                              !.known = mgmt[c].exists, !.fresh = TRUE] \in CollectorType
         /\ [collector EXCEPT !.renewed = @ \cup (collector.own \cap {c})] \in CollectorType
         /\ [Outdated(collector, c) EXCEPT
                !.renewed = @ \cup (collector.own \cap {c})] \in CollectorType
         /\ collector.list[c] \in SUBSET Workloads
<1> USE DEF TypeOK, CollectorType
<1>1. Processed(c) \in CollectorType
  BY DEF Processed
<1>2. Outdated(collector, c) \in CollectorType
  BY DEF Outdated
<1>3. [Outdated(collector, c) EXCEPT
         !.renewed = @ \cup (collector.own \cap {c})] \in CollectorType
  BY <1>2
<1>4. [collector EXCEPT !.renewed = @ \cup (collector.own \cap {c})] \in CollectorType
  OBVIOUS
<1>5. mgmt[c].exists \in BOOLEAN
  BY DEF ReportType
<1>6. [collector EXCEPT !.pc = "write", !.current = {c},
                        !.known = mgmt[c].exists, !.fresh = TRUE] \in CollectorType
  BY <1>5
<1> QED
  BY <1>1, <1>2, <1>3, <1>4, <1>6

\* The reconciler's record after each of its steps.
LEMMA ReconcilerTypes ==
  ASSUME TypeOK
  PROVE  /\ IdleReconciler \in ReconcilerType
         /\ rec.failed \in SUBSET Workloads
         /\ \A c \in Clusters : Outdated(rec, c) \in ReconcilerType
         /\ \A c \in Clusters, w \in Workloads :
              /\ Failed(c, w) \in ReconcilerType
              /\ [rec EXCEPT !.todo = @ \ {w}] \in ReconcilerType
         /\ \A c \in Clusters, ws \in SUBSET Workloads :
              [current |-> {c}, todo |-> ws, failed |-> {}, fresh |-> TRUE] \in ReconcilerType
  BY DEF TypeOK, ReconcilerType, IdleReconciler, Outdated, Failed

\* Every step preserves the type invariant.
LEMMA TypeNext ==
  ASSUME TypeOK, [Next]_vars
  PROVE  TypeOK'
<1> USE DEF TypeOK
<1>0. /\ NoReport \in ReportType
      /\ \A ws \in SUBSET Workloads, b \in BOOLEAN : Report(ws, b) \in ReportType
      /\ \A c \in Clusters : mgmt[c].exists \in BOOLEAN /\ mgmt[c].filled \in BOOLEAN
                             /\ mgmt[c].list \in SUBSET Workloads
  BY DEF NoReport, Report, ReportType
<1>f. (Fault \/ NoFault) => faults' \in 0 .. MaxFaults
  BY ReloaderAssumption DEF Fault, NoFault
<1>g. Change => changes' \in 0 .. MaxChanges
  BY ReloaderAssumption DEF Change
<1>i. IdleCollector \in CollectorType
  BY DEF IdleCollector, CollectorType
<1>l. \A b, how : how \in {"renewed", "foreign"} => Lost(b, how) \subseteq {"renewed", "foreign"}
  BY DEF Lost
<1>1. CASE StartCycle
  <2>1. collector' \in CollectorType
    <3>1. CASE agentInMgmtCluster
      <4> DEFINE o == {c \in reloader : mgmt[c].exists /\ ~mgmt[c].filled}
                 l == [c \in Clusters |->
                         IF c \in reloader /\ ~mgmt[c].filled THEN mgmt[c].list ELSE {}]
      <4>1. o \in SUBSET Clusters /\ l \in [Clusters -> SUBSET Workloads]
        BY <1>0
      <4>2. collector' = [IdleCollector EXCEPT !.own = o, !.list = l]
        BY <1>1, <3>1 DEF StartCycle
      <4> HIDE DEF o, l
      <4> QED
        BY <1>i, <4>1, <4>2 DEF CollectorType
    <3>2. CASE ~agentInMgmtCluster
      BY <1>1, <1>i, <3>2 DEF StartCycle, CollectorType
    <3> QED
      BY <3>1, <3>2
  <2> QED
    BY <1>1, <2>1 DEF StartCycle
<1>2. ASSUME NEW c \in Clusters, ListReports(c) PROVE TypeOK'
  <2>1. CASE collector' = [collector EXCEPT !.todo = @ \ {c}]
    BY <1>2, <1>f, <2>1, CollectorTypes DEF ListReports
  <2>2. CASE collector' # [collector EXCEPT !.todo = @ \ {c}]
    <3> DEFINE t == collector.todo \ {c}
               o == {x \in {c} : managed[x] # {}}
               f == {d \in Clusters : c \in SelfManaged /\ mgmt[d].exists}
    <3>1. collector' = [IdleCollector EXCEPT !.todo = t, !.own = o, !.foreign = f,
                                             !.list[c] = managed[c]]
      BY <1>2, <2>2 DEF ListReports
    <3>2. t \in SUBSET Clusters /\ o \in SUBSET Clusters /\ f \in SUBSET Clusters
          /\ managed[c] \in SUBSET Workloads
      BY DEF CollectorType
    <3> HIDE DEF t, o, f
    <3>3. collector' \in CollectorType
      BY <1>i, <3>1, <3>2 DEF CollectorType
    <3> QED
      BY <1>2, <1>f, <3>3 DEF ListReports
  <2> QED
    BY <2>1, <2>2
<1>3. ASSUME NEW c \in Clusters, GetReport(c) PROVE TypeOK'
  <2>1. collector' \in CollectorType
    BY <1>3, <1>0, CollectorTypes DEF GetReport
  <2> QED
    BY <1>3, <1>f, <2>1 DEF GetReport
<1>4. ASSUME NEW c \in Clusters, WriteReport(c) PROVE TypeOK'
  <2>1. collector' \in CollectorType /\ rec' \in ReconcilerType
    BY <1>4, CollectorTypes, ReconcilerTypes DEF WriteReport, NotWritten
  <2>2. mgmt' \in [Clusters -> ReportType]
    <3>1. Report(collector.list[c], TRUE) \in ReportType
      BY <1>0, CollectorTypes
    <3> QED
      BY <1>4, <3>1 DEF WriteReport
  <2>3. raced' \subseteq {"renewed", "foreign"} /\ queue' \in SUBSET Clusters
        /\ faults' \in 0 .. MaxFaults
    BY <1>4, <1>f, <1>l DEF WriteReport
  <2> QED
    BY <1>4, <2>1, <2>2, <2>3 DEF WriteReport
<1>5. ASSUME NEW c \in Clusters, DeleteManaged(c) PROVE TypeOK'
  BY <1>5, <1>l, <1>f, CollectorTypes DEF DeleteManaged
<1>6. ASSUME NEW c \in Clusters, DeleteForeign(c) PROVE TypeOK'
  <2>1. collector' \in CollectorType /\ rec' \in ReconcilerType
    BY <1>6, CollectorTypes, ReconcilerTypes DEF DeleteForeign
  <2> QED
    BY <1>6, <1>0, <1>l, <1>f, <2>1 DEF DeleteForeign
<1>7. ASSUME NEW c \in Clusters, Reconcile(c) PROVE TypeOK'
  <2>1. rec' \in ReconcilerType
    BY <1>7, <1>0, ReconcilerTypes DEF Reconcile
  <2> QED
    BY <1>7, <2>1 DEF Reconcile
<1>8. ASSUME NEW c \in Clusters, NEW w \in Workloads, TriggerRollingUpgrade(c, w)
      PROVE  TypeOK'
  <2>1. rec' \in ReconcilerType
    <3>1. Failed(c, w) \in ReconcilerType /\ [rec EXCEPT !.todo = @ \ {w}] \in ReconcilerType
      BY ReconcilerTypes
    <3> QED
      BY <1>8, <3>1 DEF TriggerRollingUpgrade
  <2>2. due' \in [Clusters -> SUBSET Workloads]
    BY <1>8 DEF TriggerRollingUpgrade
  <2> QED
    BY <1>8, <1>f, <2>1, <2>2 DEF TriggerRollingUpgrade
<1>9. ASSUME NEW c \in Clusters, AllReloaded(c) PROVE TypeOK'
  <2>1. mgmt' \in [Clusters -> ReportType] /\ raced' \subseteq {"renewed", "foreign"}
    BY <1>9, <1>0, <1>l DEF AllReloaded
  <2>2. collector' \in CollectorType /\ rec' \in ReconcilerType
    BY <1>9, CollectorTypes, ReconcilerTypes DEF AllReloaded
  <2> QED
    BY <1>9, <1>f, <2>1, <2>2 DEF AllReloaded, Requeued
<1>10. ASSUME NEW c \in Clusters, SomeFailed(c) PROVE TypeOK'
  <2>1. mgmt' \in [Clusters -> ReportType]
    BY <1>10, <1>0, ReconcilerTypes DEF SomeFailed
  <2>2. collector' \in CollectorType /\ rec' \in ReconcilerType
    BY <1>10, CollectorTypes, ReconcilerTypes DEF SomeFailed
  <2> QED
    BY <1>10, <1>f, <2>1, <2>2 DEF SomeFailed, Requeued
<1>11. ASSUME NEW c \in Clusters, NEW ws \in SUBSET Workloads, ConfigChanges(c, ws)
       PROVE  TypeOK'
  <2>1. mgmt' \in [Clusters -> ReportType] /\ managed' \in [Clusters -> SUBSET Workloads]
        /\ due' \in [Clusters -> SUBSET Workloads] /\ queue' \in SUBSET Clusters
    BY <1>11, <1>0 DEF ConfigChanges
  <2>2. collector' \in CollectorType /\ rec' \in ReconcilerType
    BY <1>11, CollectorTypes, ReconcilerTypes DEF ConfigChanges
  <2> QED
    BY <1>11, <1>g, <2>1, <2>2 DEF ConfigChanges
<1>12. ASSUME NEW c \in Clusters, ChangeProfile(c) PROVE TypeOK'
  BY <1>12, <1>g DEF ChangeProfile
<1>13. CASE Restart
  BY <1>13, <1>f, <1>i, ReconcilerTypes DEF Restart
<1>14. CASE UNCHANGED vars
  BY <1>14 DEF vars
<1> QED
  BY <1>1, <1>2, <1>3, <1>4, <1>5, <1>6, <1>7, <1>8, <1>9, <1>10, <1>11, <1>12,
     <1>13, <1>14 DEF Next, CollectorStep, ReconcilerStep

\* THEOREM: the reports and both processes stay well formed.
THEOREM TypeCorrect == Spec => []TypeOK
<1>1. Init => TypeOK
  BY InitHolds DEF IInv
<1>2. TypeOK /\ [Next]_vars => TypeOK'
  BY TypeNext
<1> QED
  BY <1>1, <1>2, PTL DEF Spec

\* What the collector keeps when it is done with a report.
LEMMA ProcessedFields ==
  ASSUME TypeOK, NEW c \in Clusters, NEW p, p = Processed(c)
  PROVE  /\ p.pc = "next" /\ p.current = {}
         /\ p.own = collector.own \ {c} /\ p.renewed = collector.renewed \ {c}
         /\ \A d \in Clusters \ {c} : p.list[d] = collector.list[d]
  BY DEF TypeOK, CollectorType, Processed

\* A collector that read an outdated report only learns so when it writes.
LEMMA OutdatedCollectorFields ==
  ASSUME TypeOK, NEW c \in Clusters, NEW p, p = Outdated(collector, c)
  PROVE  /\ p.pc = collector.pc /\ p.current = collector.current
         /\ p.own = collector.own /\ p.renewed = collector.renewed
         /\ p.list = collector.list
  BY DEF TypeOK, CollectorType, Outdated

\* A reconcile of a report that was changed is not fresh.
LEMMA OutdatedReconcilerFields ==
  ASSUME TypeOK, NEW c \in Clusters, NEW p, p = Outdated(rec, c)
  PROVE  /\ p.current = rec.current /\ p.todo = rec.todo /\ p.failed = rec.failed
         /\ p.fresh => rec.fresh /\ c \notin p.current
  BY DEF TypeOK, ReconcilerType, Outdated

\* Every step keeps Shape and Originals.
LEMMA ShapeNext ==
  ASSUME TypeOK, Shape, Originals, [Next]_vars
  PROVE  Shape' /\ Originals'
<1> USE DEF Shape, Originals
<1>0. NoReport.list = {} /\ \A ws, b : Report(ws, b).exists
  BY DEF NoReport, Report
<1>t. /\ due \in [Clusters -> SUBSET Workloads]
      /\ managed \in [Clusters -> SUBSET Workloads]
      /\ mgmt \in [Clusters -> ReportType]
      /\ collector.own \subseteq Clusters
  BY DEF TypeOK, CollectorType
<1>1. CASE StartCycle
  <2>1. collector'.current = {} /\ collector'.pc = "next"
        /\ (~agentInMgmtCluster => collector'.own = {})
    BY <1>1 DEF StartCycle, IdleCollector
  <2> QED
    BY <1>1, <2>1 DEF StartCycle
<1>2. ASSUME NEW c \in Clusters, ListReports(c) PROVE Shape' /\ Originals'
  <2>1. CASE collector' = [collector EXCEPT !.todo = @ \ {c}]
    BY <1>2, <2>1 DEF ListReports, TypeOK, CollectorType
  <2>2. CASE collector' # [collector EXCEPT !.todo = @ \ {c}]
    <3>1. collector'.current = {} /\ collector'.pc = "next"
          /\ collector'.own = {x \in {c} : managed[x] # {}}
      BY <1>2, <2>2 DEF ListReports, IdleCollector
    <3> QED
      BY <1>2, <3>1 DEF ListReports
  <2> QED
    BY <2>1, <2>2
<1>p. ASSUME NEW c \in Clusters, collector' = Processed(c),
             UNCHANGED <<agentInMgmtCluster, due, managed, mgmt, rec>>
      PROVE  Shape' /\ Originals'
  BY <1>p, ProcessedFields
<1>3. ASSUME NEW c \in Clusters, GetReport(c) PROVE Shape' /\ Originals'
  <2>1. CASE collector' = Processed(c)
    BY <1>3, <1>p, <2>1 DEF GetReport
  <2>2. CASE collector' # Processed(c)
    <3>1. collector'.current = {c} /\ collector'.pc = "write"
          /\ collector'.own = collector.own /\ c \in collector.own
      BY <1>3, <2>2 DEF GetReport, TypeOK, CollectorType
    <3> QED
      BY <1>3, <3>1 DEF GetReport
  <2> QED
    BY <2>1, <2>2
<1>4. ASSUME NEW c \in Clusters, WriteReport(c) PROVE Shape' /\ Originals'
  <2>1. CASE mgmt' = mgmt /\ rec' = rec /\ collector' = Processed(c)
    BY <1>4, <1>p, <2>1 DEF WriteReport
  <2>2. CASE /\ mgmt' = [mgmt EXCEPT ![c] = Report(collector.list[c], TRUE)]
             /\ rec' = Outdated(rec, c)
             /\ collector' = IF agentInMgmtCluster THEN Processed(c)
                             ELSE [collector EXCEPT !.pc = "delete"]
    <3>1. rec'.current = rec.current
      BY <2>2, OutdatedReconcilerFields
    <3>2. \A d \in Clusters : ~mgmt'[d].exists => mgmt'[d].list = {}
      BY <1>0, <1>t, <2>2
    <3>3. CASE agentInMgmtCluster
      BY <1>4, <2>2, <3>1, <3>2, <3>3, ProcessedFields DEF WriteReport
    <3>4. CASE ~agentInMgmtCluster
      <4>1. collector'.own = collector.own /\ collector'.current = collector.current
        BY <2>2, <3>4 DEF TypeOK, CollectorType
      <4> QED
        BY <1>4, <3>1, <3>2, <3>4, <4>1 DEF WriteReport
    <3> QED
      BY <3>3, <3>4
  <2> QED
    BY <1>4, <2>1, <2>2 DEF WriteReport, NotWritten
<1>5. ASSUME NEW c \in Clusters, DeleteManaged(c) PROVE Shape' /\ Originals'
  <2>1. \A d \in Clusters \ {c} : managed'[d] = managed[d]
    BY <1>5, <1>t DEF DeleteManaged
  <2>2. managed'[c] \in {{}, managed[c]}
    BY <1>5, <1>t DEF DeleteManaged
  <2>3. collector' = Processed(c) /\ UNCHANGED <<agentInMgmtCluster, due, mgmt, rec>>
    BY <1>5 DEF DeleteManaged
  <2> QED
    BY <2>1, <2>2, <2>3, ProcessedFields
<1>6. ASSUME NEW c \in Clusters, DeleteForeign(c) PROVE Shape' /\ Originals'
  <2>1. rec'.current = rec.current
    BY <1>6, OutdatedReconcilerFields DEF DeleteForeign
  <2>2. \A d \in Clusters : ~mgmt'[d].exists => mgmt'[d].list = {}
    BY <1>6, <1>0, <1>t DEF DeleteForeign
  <2>3. collector'.own = collector.own /\ collector'.current = collector.current
        /\ collector'.pc = collector.pc
    BY <1>6 DEF DeleteForeign, TypeOK, CollectorType
  <2> QED
    BY <1>6, <2>1, <2>2, <2>3 DEF DeleteForeign
<1>7. ASSUME NEW c \in Clusters, Reconcile(c) PROVE Shape' /\ Originals'
  <2>1. rec'.current \in {rec.current, {c}}
    BY <1>7 DEF Reconcile
  <2> QED
    BY <1>7, <2>1 DEF Reconcile
<1>8. ASSUME NEW c \in Clusters, NEW w \in Workloads, TriggerRollingUpgrade(c, w)
      PROVE  Shape' /\ Originals'
  <2>1. rec'.current = rec.current
    BY <1>8 DEF TriggerRollingUpgrade, Failed, TypeOK, ReconcilerType
  <2>2. \A d \in Clusters : due'[d] \subseteq due[d]
    BY <1>8, <1>t DEF TriggerRollingUpgrade
  <2> QED
    BY <1>8, <2>1, <2>2 DEF TriggerRollingUpgrade
<1>9. ASSUME NEW c \in Clusters, AllReloaded(c) \/ SomeFailed(c) PROVE Shape' /\ Originals'
  <2>0. /\ rec' = IdleReconciler
        /\ UNCHANGED <<agentInMgmtCluster, due, managed>>
        /\ collector' \in {collector, Outdated(collector, c)}
        /\ \/ mgmt' = mgmt
           \/ mgmt' = [mgmt EXCEPT ![c] = NoReport]
           \/ mgmt' = [mgmt EXCEPT ![c] = Report(rec.failed, TRUE)]
    <3>1. CASE AllReloaded(c)
      BY <3>1 DEF AllReloaded
    <3>2. CASE SomeFailed(c)
      BY <3>2 DEF SomeFailed
    <3> QED
      BY <1>9, <3>1, <3>2
  <2>1. rec'.current = {}
    BY <2>0 DEF IdleReconciler
  <2>2. \A d \in Clusters : ~mgmt'[d].exists => mgmt'[d].list = {}
    <3>1. CASE mgmt' = mgmt
      BY <3>1
    <3>2. CASE mgmt' = [mgmt EXCEPT ![c] = NoReport]
      BY <1>0, <1>t, <3>2
    <3>3. CASE mgmt' = [mgmt EXCEPT ![c] = Report(rec.failed, TRUE)]
      BY <1>0, <1>t, <3>3
    <3> QED
      BY <2>0, <3>1, <3>2, <3>3
  <2>3. collector'.own = collector.own /\ collector'.current = collector.current
        /\ collector'.pc = collector.pc
    BY <2>0, OutdatedCollectorFields
  <2> QED
    BY <2>0, <2>1, <2>2, <2>3
<1>10. ASSUME NEW c \in Clusters, NEW ws \in (SUBSET Workloads) \ {{}}, ConfigChanges(c, ws)
       PROVE  Shape' /\ Originals'
  <2>1. rec'.current = rec.current
    BY <1>10, OutdatedReconcilerFields DEF ConfigChanges
  <2>2. \A d \in Clusters : ~mgmt'[d].exists => mgmt'[d].list = {}
    <3>1. mgmt' = mgmt \/ mgmt' = [mgmt EXCEPT ![c] = Report(ws, FALSE)]
      BY <1>10 DEF ConfigChanges
    <3>2. CASE mgmt' = mgmt
      BY <3>2
    <3>3. CASE mgmt' = [mgmt EXCEPT ![c] = Report(ws, FALSE)]
      BY <1>0, <1>t, <3>3
    <3> QED
      BY <3>1, <3>2, <3>3
  <2>3. collector'.own = collector.own /\ collector'.current = collector.current
        /\ collector'.pc = collector.pc
    <3>1. ASSUME NEW p \in CollectorType, NEW ren, collector' = [p EXCEPT !.renewed = ren]
          PROVE  collector'.own = p.own /\ collector'.current = p.current
                 /\ collector'.pc = p.pc
      BY <3>1 DEF CollectorType
    <3>2. CASE agentInMgmtCluster
      <4> DEFINE p == Outdated(collector, c)
      <4>1. p \in CollectorType /\ p.own = collector.own
            /\ p.current = collector.current /\ p.pc = collector.pc
        BY CollectorTypes, OutdatedCollectorFields
      <4>2. collector' = [p EXCEPT !.renewed = @ \cup (collector.own \cap {c})]
        BY <1>10, <3>2 DEF ConfigChanges
      <4> HIDE DEF p
      <4> QED
        BY <3>1, <4>1, <4>2
    <3>3. CASE ~agentInMgmtCluster
      <4>1. collector' = [collector EXCEPT !.renewed = @ \cup (collector.own \cap {c})]
        BY <1>10, <3>3 DEF ConfigChanges
      <4> QED
        BY <3>1, <4>1 DEF TypeOK
    <3> QED
      BY <3>2, <3>3
  <2>4. due' = [due EXCEPT ![c] = ws] /\ agentInMgmtCluster' = agentInMgmtCluster
        /\ managed' = IF agentInMgmtCluster THEN managed ELSE [managed EXCEPT ![c] = ws]
    BY <1>10 DEF ConfigChanges
  <2>5. Shape'
    BY <2>1, <2>2, <2>3, <2>4
  <2>6. Originals'
    <3>1. CASE agentInMgmtCluster
      BY <1>t, <2>3, <2>4, <3>1
    <3>2. CASE ~agentInMgmtCluster
      <4>1. managed'[c] = ws /\ due'[c] = ws /\ ws # {}
        BY <1>t, <2>4, <3>2
      <4>2. \A d \in Clusters \ {c} : managed'[d] = managed[d] /\ due'[d] = due[d]
        BY <1>t, <2>4, <3>2
      <4> QED
        BY <2>3, <2>4, <3>2, <4>1, <4>2
    <3> QED
      BY <3>1, <3>2
  <2> QED
    BY <2>5, <2>6
<1>11. ASSUME NEW c \in Clusters, ChangeProfile(c) PROVE Shape' /\ Originals'
  BY <1>11 DEF ChangeProfile
<1>12. CASE Restart
  BY <1>12 DEF Restart, IdleReconciler, IdleCollector
<1>13. CASE UNCHANGED vars
  BY <1>13 DEF vars
<1> QED
  BY <1>1, <1>2, <1>3, <1>4, <1>5, <1>6, <1>7, <1>8, <1>9, <1>10, <1>11, <1>12,
     <1>13 DEF Next, CollectorStep, ReconcilerStep

\* A step that changes neither what is due nor any report, and only drops
\* what the processes have in hand.
LEMMA HoldsLess ==
  ASSUME TypeOK, Shape, Holds, UNCHANGED <<due, managed, mgmt>>,
         rec' = rec \/ rec'.current = {},
         collector'.pc = "delete" => collector'.current = {},
         CollectorHolds'
  PROVE  Holds'
<1> USE DEF Holds
<1>1. NothingDropped'
  BY DEF NothingDropped
<1>2. ReconcilerHolds'
  BY DEF ReconcilerHolds
<1>3. CopyHolds'
  BY DEF CopyHolds
<1> QED
  BY <1>1, <1>2, <1>3

\* As long as nothing was discarded, every step keeps account of what is due.
LEMMA HoldsNext ==
  ASSUME TypeOK, Shape, Originals, Holds, [Next]_vars, raced' = {}
  PROVE  Holds'
<1> USE DEF Holds
<1>t. /\ due \in [Clusters -> SUBSET Workloads]
      /\ managed \in [Clusters -> SUBSET Workloads]
      /\ mgmt \in [Clusters -> ReportType]
      /\ collector.own \subseteq Clusters /\ collector.current \subseteq Clusters
      /\ rec.current \subseteq Clusters
  BY DEF TypeOK, CollectorType, ReconcilerType
<1>1. CASE StartCycle
  <2>1. CollectorHolds'
    <3>1. CASE agentInMgmtCluster
      <4>1. \A c \in collector'.own : c \in Clusters /\ collector'.list[c] = mgmt[c].list
        BY <1>1, <3>1 DEF StartCycle, IdleCollector, TypeOK
      <4> QED
        BY <1>1, <3>1, <4>1 DEF StartCycle, CollectorHolds, NothingDropped, Originals
    <3>2. CASE ~agentInMgmtCluster
      <4>1. collector'.own = {}
        BY <1>1, <3>2 DEF StartCycle, IdleCollector
      <4> QED
        BY <4>1 DEF CollectorHolds
    <3> QED
      BY <3>1, <3>2
  <2>2. collector'.pc = "next"
    BY <1>1 DEF StartCycle, IdleCollector
  <2> QED
    BY <1>1, <2>1, <2>2, HoldsLess DEF StartCycle
<1>2. ASSUME NEW c \in Clusters, ListReports(c) PROVE Holds'
  <2>1. CASE collector' = [collector EXCEPT !.todo = @ \ {c}]
    <3>1. collector'.pc = "next" /\ collector'.own = collector.own
          /\ collector'.renewed = collector.renewed /\ collector'.list = collector.list
      BY <1>2, <2>1 DEF ListReports, TypeOK, CollectorType
    <3>2. CollectorHolds'
      BY <1>2, <3>1 DEF ListReports, CollectorHolds
    <3> QED
      BY <1>2, <3>1, <3>2, HoldsLess DEF ListReports
  <2>2. CASE collector' # [collector EXCEPT !.todo = @ \ {c}]
    <3>1. collector'.pc = "next" /\ collector'.own = {x \in {c} : managed[x] # {}}
          /\ collector'.list[c] = managed[c]
      <4> DEFINE todo == collector.todo \ {c}
                 own == {x \in {c} : managed[x] # {}}
                 foreign == {d \in Clusters : c \in SelfManaged /\ mgmt[d].exists}
      <4>1. collector' = [IdleCollector EXCEPT !.todo = todo, !.own = own,
                            !.foreign = foreign, !.list[c] = managed[c]]
        BY <1>2, <2>2 DEF ListReports
      <4> HIDE DEF todo, own, foreign
      <4>2. collector'.pc = "next" /\ collector'.own = own /\ collector'.list[c] = managed[c]
        BY <4>1 DEF IdleCollector
      <4> QED
        BY <4>2 DEF own
    <3>2. CollectorHolds'
      BY <1>2, <3>1 DEF ListReports, CollectorHolds, Originals
    <3> QED
      BY <1>2, <3>1, <3>2, HoldsLess DEF ListReports
  <2> QED
    BY <2>1, <2>2
<1>p. ASSUME NEW c \in Clusters, collector' = Processed(c),
             UNCHANGED <<due, managed, mgmt, rec>>
      PROVE  Holds'
  <2>1. collector'.pc = "next" /\ CollectorHolds'
    BY <1>p, <1>t, ProcessedFields DEF CollectorHolds
  <2> QED
    BY <1>p, <2>1, HoldsLess
<1>3. ASSUME NEW c \in Clusters, GetReport(c) PROVE Holds'
  <2>1. CASE collector' = Processed(c)
    BY <1>3, <1>p, <2>1 DEF GetReport
  <2>2. CASE collector' # Processed(c)
    <3>1. collector'.pc = "write" /\ collector'.own = collector.own
          /\ collector'.renewed = collector.renewed /\ collector'.list = collector.list
      BY <1>3, <2>2 DEF GetReport, TypeOK, CollectorType
    <3>2. CollectorHolds'
      BY <1>3, <3>1 DEF GetReport, CollectorHolds
    <3> QED
      BY <1>3, <3>1, <3>2, HoldsLess DEF GetReport
  <2> QED
    BY <2>1, <2>2
<1>4. ASSUME NEW c \in Clusters, WriteReport(c) PROVE Holds'
  <2>1. CASE mgmt' = mgmt /\ rec' = rec /\ collector' = Processed(c)
    BY <1>4, <1>p, <2>1 DEF WriteReport
  <2>2. CASE /\ mgmt' = [mgmt EXCEPT ![c] = Report(collector.list[c], TRUE)]
             /\ rec' = Outdated(rec, c)
             /\ raced' = raced \cup Lost(agentInMgmtCluster /\ c \in collector.renewed, "renewed")
             /\ collector' = IF agentInMgmtCluster THEN Processed(c)
                             ELSE [collector EXCEPT !.pc = "delete"]
    <3>0. UNCHANGED <<due, managed>> /\ c \in collector.own /\ collector.current = {c}
      BY <1>4 DEF WriteReport, Shape
    <3>1. /\ mgmt'[c].list = collector.list[c]
          /\ \A d \in Clusters \ {c} : mgmt'[d].list = mgmt[d].list
      BY <1>t, <2>2 DEF Report
    <3>2. ~(agentInMgmtCluster /\ c \in collector.renewed)
      BY <2>2 DEF Lost
    <3>3. /\ rec'.current = rec.current /\ rec'.todo = rec.todo
          /\ rec'.failed = rec.failed /\ (rec'.fresh => rec.fresh /\ c \notin rec.current)
      BY <2>2, OutdatedReconcilerFields
    <3>4. due[c] \subseteq managed[c] \cup collector.list[c]
      BY <3>0, <3>2 DEF CollectorHolds, Originals
    <3>5. NothingDropped'
      BY <3>0, <3>1, <3>4 DEF NothingDropped
    <3>6. ReconcilerHolds'
      BY <3>0, <3>3 DEF ReconcilerHolds
    <3>7. CollectorHolds' /\ CopyHolds'
      <4>1. CASE agentInMgmtCluster
        <5>1. collector' = Processed(c)
          BY <2>2, <4>1
        <5> QED
          BY <1>t, <3>0, <5>1, ProcessedFields DEF CollectorHolds, CopyHolds
      <4>2. CASE ~agentInMgmtCluster
        <5>1. /\ collector'.own = collector.own /\ collector'.current = collector.current
              /\ collector'.renewed = collector.renewed /\ collector'.list = collector.list
          BY <2>2, <4>2 DEF TypeOK, CollectorType
        <5> QED
          BY <3>0, <3>1, <3>3, <5>1 DEF CollectorHolds, CopyHolds
      <4> QED
        BY <4>1, <4>2
    <3> QED
      BY <3>5, <3>6, <3>7
  <2> QED
    BY <1>4, <2>1, <2>2 DEF WriteReport, NotWritten
<1>5. ASSUME NEW c \in Clusters, DeleteManaged(c) PROVE Holds'
  <2>0. collector' = Processed(c) /\ UNCHANGED <<due, mgmt, rec>>
    BY <1>5 DEF DeleteManaged
  <2>1. CASE managed' = managed
    BY <1>p, <2>0, <2>1
  <2>2. CASE managed' # managed
    <3>1. managed' = [managed EXCEPT ![c] = {}] /\ c \notin collector.renewed
      BY <1>5, <2>2 DEF DeleteManaged, Lost
    <3>2. /\ due[c] \subseteq mgmt[c].list
          /\ rec.fresh /\ c \in rec.current => due[c] \subseteq rec.todo \cup rec.failed
      BY <1>5, <3>1 DEF DeleteManaged, CopyHolds
    <3>3. \A d \in Clusters \ {c} : managed'[d] = managed[d]
      BY <1>t, <3>1
    <3>4. NothingDropped'
      BY <2>0, <3>2, <3>3 DEF NothingDropped
    <3>5. ReconcilerHolds'
      BY <1>t, <2>0, <3>2, <3>3 DEF ReconcilerHolds
    <3>6. CollectorHolds' /\ CopyHolds'
      BY <1>t, <2>0, ProcessedFields DEF CollectorHolds, CopyHolds
    <3> QED
      BY <3>4, <3>5, <3>6
  <2> QED
    BY <2>1, <2>2
<1>6. ASSUME NEW c \in Clusters, DeleteForeign(c) PROVE Holds'
  <2>0. /\ collector'.pc = "next" /\ collector'.own = collector.own
        /\ collector'.renewed = collector.renewed /\ collector'.list = collector.list
        /\ UNCHANGED <<due, managed>>
    BY <1>6 DEF DeleteForeign, TypeOK, CollectorType
  <2>1. \A d \in Clusters : mgmt'[d].list = mgmt[d].list
    <3>1. CASE mgmt' = mgmt
      BY <3>1
    <3>2. CASE mgmt' # mgmt
      <4>1. mgmt' = [mgmt EXCEPT ![c] = NoReport] /\ ~mgmt[c].exists
        BY <1>6, <3>2 DEF DeleteForeign, Lost
      <4> QED
        BY <1>t, <4>1 DEF Shape, NoReport
    <3> QED
      BY <3>1, <3>2
  <2>2. /\ rec'.current = rec.current /\ rec'.todo = rec.todo
        /\ rec'.failed = rec.failed /\ (rec'.fresh => rec.fresh)
    BY <1>6, OutdatedReconcilerFields DEF DeleteForeign
  <2>3. NothingDropped' /\ ReconcilerHolds'
    BY <2>0, <2>1, <2>2 DEF NothingDropped, ReconcilerHolds
  <2> QED
    BY <2>0, <2>3 DEF CollectorHolds, CopyHolds
<1>7. ASSUME NEW c \in Clusters, Reconcile(c) PROVE Holds'
  <2>0. UNCHANGED <<due, managed, mgmt, collector>>
    BY <1>7 DEF Reconcile
  <2>1. CASE rec' = rec
    BY <2>0, <2>1 DEF NothingDropped, ReconcilerHolds, CollectorHolds, CopyHolds
  <2>2. CASE rec' = [current |-> {c}, todo |-> mgmt[c].list, failed |-> {}, fresh |-> TRUE]
    <3>1. rec'.current = {c} /\ rec'.todo = mgmt[c].list /\ rec'.failed = {}
      BY <2>2
    <3> QED
      BY <2>0, <3>1 DEF NothingDropped, ReconcilerHolds, CollectorHolds, CopyHolds
  <2> QED
    BY <1>7, <2>1, <2>2 DEF Reconcile
<1>8. ASSUME NEW c \in Clusters, NEW w \in Workloads, TriggerRollingUpgrade(c, w)
      PROVE  Holds'
  <2>0. UNCHANGED <<managed, mgmt, collector>> /\ c \in rec.current /\ w \in rec.todo
    BY <1>8 DEF TriggerRollingUpgrade
  <2>1. \A d \in Clusters : due'[d] \subseteq due[d]
    BY <1>8, <1>t DEF TriggerRollingUpgrade
  <2>2. /\ rec'.current = rec.current /\ rec'.fresh = rec.fresh
        /\ rec'.todo = rec.todo \ {w} /\ rec.failed \subseteq rec'.failed
    BY <1>8 DEF TriggerRollingUpgrade, Failed, TypeOK, ReconcilerType
  <2>3. w \in rec'.failed \/ w \notin due'[c]
    <3>1. CASE due' = [due EXCEPT ![c] = @ \ {w}]
      BY <1>t, <3>1
    <3>2. CASE rec' = Failed(c, w)
      BY <3>2 DEF Failed, TypeOK, ReconcilerType
    <3> QED
      BY <1>8, <3>1, <3>2 DEF TriggerRollingUpgrade
  <2>4. rec.current = {c}
    BY <2>0 DEF Shape
  <2>5. NothingDropped' /\ CollectorHolds'
    BY <1>t, <2>0, <2>1 DEF NothingDropped, CollectorHolds
  <2>6. ReconcilerHolds'
    BY <2>0, <2>1, <2>2, <2>3, <2>4 DEF ReconcilerHolds
  <2>7. CopyHolds'
    BY <1>t, <2>0, <2>1, <2>2, <2>3, <2>4 DEF CopyHolds
  <2> QED
    BY <2>5, <2>6, <2>7
<1>9. ASSUME NEW c \in Clusters, AllReloaded(c) \/ SomeFailed(c) PROVE Holds'
  <2>0. /\ rec' = IdleReconciler /\ UNCHANGED <<due, managed>>
        /\ collector' \in {collector, Outdated(collector, c)}
        /\ rec.current = {c} /\ rec.todo = {}
    <3>1. CASE AllReloaded(c)
      BY <3>1 DEF AllReloaded, Shape
    <3>2. CASE SomeFailed(c)
      BY <3>2 DEF SomeFailed, Shape
    <3> QED
      BY <1>9, <3>1, <3>2
  <2>1. /\ collector'.pc = collector.pc /\ collector'.current = collector.current
        /\ collector'.own = collector.own /\ collector'.renewed = collector.renewed
        /\ collector'.list = collector.list
    BY <2>0, OutdatedCollectorFields
  <2>2. \A d \in Clusters \ {c} : mgmt'[d].list = mgmt[d].list
    <3>1. CASE AllReloaded(c)
      BY <1>t, <3>1 DEF AllReloaded
    <3>2. CASE SomeFailed(c)
      BY <1>t, <3>2 DEF SomeFailed
    <3> QED
      BY <1>9, <3>1, <3>2
  <2>3. mgmt'[c].list = mgmt[c].list \/ (rec.fresh /\ mgmt'[c].list = rec.failed)
    <3>1. CASE AllReloaded(c)
      <4>1. mgmt' = mgmt \/ (mgmt' = [mgmt EXCEPT ![c] = NoReport]
                              /\ (rec.fresh \/ ~mgmt[c].exists) /\ rec.failed = {})
        BY <3>1 DEF AllReloaded, Lost
      <4>2. CASE mgmt' = [mgmt EXCEPT ![c] = NoReport]
        <5>1. mgmt'[c].list = {}
          BY <1>t, <4>2 DEF NoReport
        <5> QED
          BY <4>1, <5>1 DEF Shape
      <4> QED
        BY <4>1, <4>2
    <3>2. CASE SomeFailed(c)
      <4>1. mgmt' = mgmt \/ (mgmt' = [mgmt EXCEPT ![c] = Report(rec.failed, TRUE)] /\ rec.fresh)
        BY <3>2 DEF SomeFailed
      <4> QED
        BY <1>t, <4>1 DEF Report
    <3> QED
      BY <1>9, <3>1, <3>2
  <2>4. NothingDropped'
    BY <2>0, <2>2, <2>3 DEF NothingDropped, ReconcilerHolds
  <2>5. ReconcilerHolds' /\ CollectorHolds'
    BY <2>0, <2>1 DEF ReconcilerHolds, IdleReconciler, CollectorHolds
  <2>6. CopyHolds'
    BY <1>t, <2>0, <2>1, <2>2, <2>3 DEF CopyHolds, IdleReconciler
  <2> QED
    BY <2>4, <2>5, <2>6
<1>10. ASSUME NEW c \in Clusters, NEW ws \in (SUBSET Workloads) \ {{}}, ConfigChanges(c, ws)
       PROVE  Holds'
  <2>0. /\ collector'.own = collector.own /\ collector'.current = collector.current
        /\ collector'.pc = collector.pc /\ collector'.list = collector.list
        /\ collector'.renewed = collector.renewed \cup (collector.own \cap {c})
    BY <1>10 DEF ConfigChanges, Outdated, TypeOK, CollectorType
  <2>1. due'[c] = ws /\ \A d \in Clusters \ {c} : due'[d] = due[d]
    BY <1>10, <1>t DEF ConfigChanges
  <2>2. /\ \A d \in Clusters \ {c} : managed'[d] = managed[d] /\ mgmt'[d].list = mgmt[d].list
        /\ IF agentInMgmtCluster THEN mgmt'[c].list = ws ELSE managed'[c] = ws
    BY <1>10, <1>t DEF ConfigChanges, Report
  <2>3. /\ rec'.current = rec.current /\ rec'.todo = rec.todo
        /\ rec'.failed = rec.failed /\ (rec'.fresh => rec.fresh)
        /\ (agentInMgmtCluster /\ rec'.fresh => c \notin rec.current)
    BY <1>10, OutdatedReconcilerFields DEF ConfigChanges
  <2>4. NothingDropped'
    BY <2>1, <2>2 DEF NothingDropped
  <2>5. ReconcilerHolds'
    BY <1>t, <2>1, <2>2, <2>3 DEF ReconcilerHolds
  <2>6. CollectorHolds'
    BY <1>t, <2>0, <2>1 DEF CollectorHolds
  <2>7. CopyHolds'
    BY <1>t, <2>0, <2>1, <2>2, <2>3 DEF CopyHolds, Shape
  <2> QED
    BY <2>4, <2>5, <2>6, <2>7
<1>11. ASSUME NEW c \in Clusters, ChangeProfile(c) PROVE Holds'
  BY <1>11 DEF ChangeProfile, NothingDropped, ReconcilerHolds, CollectorHolds, CopyHolds
<1>12. CASE Restart
  <2>1. rec'.current = {} /\ collector'.own = {} /\ collector'.pc = "next"
    BY <1>12 DEF Restart, IdleReconciler, IdleCollector
  <2> QED
    BY <1>12, <2>1, HoldsLess DEF Restart, CollectorHolds
<1>13. CASE UNCHANGED vars
  BY <1>13 DEF vars, NothingDropped, ReconcilerHolds, CollectorHolds, CopyHolds
<1> QED
  BY <1>1, <1>2, <1>3, <1>4, <1>5, <1>6, <1>7, <1>8, <1>9, <1>10, <1>11, <1>12,
     <1>13 DEF Next, CollectorStep, ReconcilerStep

\* What was discarded stays discarded.
LEMMA RacedStays ==
  ASSUME [Next]_vars
  PROVE  raced \subseteq raced'
  BY DEF Next, vars, CollectorStep, ReconcilerStep, StartCycle, ListReports,
         GetReport, WriteReport, DeleteManaged, DeleteForeign, Reconcile,
         TriggerRollingUpgrade, AllReloaded, SomeFailed, ConfigChanges,
         ChangeProfile, Restart

\* THEOREM: no workload to reload is dropped unless a report is discarded
\* behind its agent's back, whatever calls fail and whenever the manager
\* restarts.
THEOREM NoReloadDropped == Spec => []NothingDroppedUnlessRaced
<1>1. Init => IInv
  BY InitHolds
<1>2. IInv /\ [Next]_vars => IInv'
  <2> SUFFICES ASSUME IInv, [Next]_vars PROVE IInv'
    OBVIOUS
  <2>1. TypeOK' /\ Shape' /\ Originals'
    BY TypeNext, ShapeNext DEF IInv
  <2>2. raced' = {} => Holds'
    BY HoldsNext, RacedStays DEF IInv
  <2> QED
    BY <2>1, <2>2 DEF IInv
<1>3. IInv => NothingDroppedUnlessRaced
  BY DEF IInv, Holds, NothingDroppedUnlessRaced
<1> QED
  BY <1>1, <1>2, <1>3, PTL DEF Spec

=============================================================================
