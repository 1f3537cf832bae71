---------------------------- MODULE ReconcilerMaps ----------------------------
(***************************************************************************)
(* The in-memory indexes of ClusterHealthCheckReconciler and the MapFuncs  *)
(* that turn events into reconcile requests                                *)
(* (clusterhealthcheck_controller.go, clusterhealthcheck_transformations.go*)
(* and the predicates).                                                    *)
(*                                                                         *)
(* Several ClusterHealthChecks (CHCs) are reconciled concurrently, each by *)
(* at most one worker.  The indexes are protected by Mux, which updateMaps *)
(* takes once per index: one action per critical section.  An event        *)
(* reaches its MapFunc some time after the cache the reconciler reads      *)
(* shows the change.                                                       *)
(*                                                                         *)
(* report and summary stand for the content of a HealthCheck's reports and *)
(* of a cluster's ClusterSummaries.  seen is not in the code: what the     *)
(* last evaluation of a CHC for a cluster read.                            *)
(***************************************************************************)
EXTENDS Integers, FiniteSets

CONSTANTS CHCs,          \* names of ClusterHealthChecks
          Clusters,      \* Sveltos/CAPI clusters
          HealthChecks,  \* HealthCheck instances
          Labels,        \* labels a cluster may carry
          Specs,         \* specs users may give a CHC
          MaxChanges,    \* bound on the changes users and clusters make
          MaxFaults      \* bound on failed reads and restarts

\* The labels of a ClusterSummary are its own: no selector matches them, but
\* the empty one.
SummaryLabels == "summary"
Unknown == "unknown"
None == "none"

SpecType == [selector : SUBSET Labels, refs : SUBSET HealthChecks, addons : BOOLEAN]

ASSUME MapsAssumption ==
  /\ Specs \subseteq SpecType
  /\ Specs # {}
  /\ SummaryLabels \notin Labels /\ None \notin Labels
  /\ MaxChanges \in Nat /\ MaxFaults \in Nat

VARIABLES
  chc,        \* the CHCs in the API server
  labels,     \* labels of each cluster
  report,     \* what the reports of each HealthCheck say
  summary,    \* what the ClusterSummaries of each cluster say
  deployed,   \* per CHC: clusters with a settled entry in its status
  seen,       \* per CHC and cluster: what the last evaluation read
  events,     \* report and summary events not handed to their MapFunc yet
  oldLabels,  \* per cluster: the old labels of its event, None without one
  queue,      \* workqueue, delayed requests included
  rec,        \* per CHC: the reconcile in progress
  ClusterMap, CHCToClusterMap,         \* cluster -> CHCs, CHC -> clusters
  HealthCheckMap, CHCToHealthCheckMap, \* HealthCheck -> CHCs, CHC -> HealthChecks
  AddonsLivenessCHC,                   \* CHCs with a liveness check on add-ons
  ClusterHealthChecks,                 \* CHC -> selector
  ClusterLabels,                       \* cluster -> labels
  changes, faults

indexes == <<ClusterMap, CHCToClusterMap, HealthCheckMap, CHCToHealthCheckMap,
             AddonsLivenessCHC, ClusterHealthChecks>>
world == <<chc, labels, report, summary>>
pending == <<events, oldLabels>>
vars == <<chc, labels, report, summary, deployed, seen, events, oldLabels, queue, rec,
          ClusterMap, CHCToClusterMap, HealthCheckMap, CHCToHealthCheckMap,
          AddonsLivenessCHC, ClusterHealthChecks, ClusterLabels, changes, faults>>

\* Nothing stored in ClusterHealthChecks: nothing matches.
NoSelector == {}
Unseen == [reports |-> [h \in HealthChecks |-> Unknown], summary |-> Unknown]
NoSpec == [selector |-> NoSelector, refs |-> {}, addons |-> FALSE]
Absent == [exists |-> FALSE, deleting |-> FALSE, finalizer |-> FALSE, spec |-> NoSpec]
At(p, s, m) == [pc |-> p, spec |-> s, matching |-> m]
Idle == At("idle", NoSpec, {})

Init ==
  /\ chc = [k \in CHCs |-> Absent]
  /\ labels \in [Clusters -> Labels]
  /\ report = [h \in HealthChecks |-> "good"]
  /\ summary = [c \in Clusters |-> "good"]
  /\ deployed = [k \in CHCs |-> {}]
  /\ seen = [k \in CHCs |-> [c \in Clusters |-> Unseen]]
  /\ events = {}
  /\ oldLabels = [c \in Clusters |-> None]
  /\ queue = {}
  /\ rec = [k \in CHCs |-> Idle]
  /\ ClusterMap = [c \in Clusters |-> {}]
  /\ CHCToClusterMap = [k \in CHCs |-> {}]
  /\ HealthCheckMap = [h \in HealthChecks |-> {}]
  /\ CHCToHealthCheckMap = [k \in CHCs |-> {}]
  /\ AddonsLivenessCHC = {}
  /\ ClusterHealthChecks = [k \in CHCs |-> NoSelector]
  /\ ClusterLabels = [c \in Clusters |-> Unknown]
  /\ changes = 0
  /\ faults = 0

Fault == faults < MaxFaults /\ faults' = faults + 1

-----------------------------------------------------------------------------
(* The reconcile of a CHC. *)

Matching(selector) == {c \in Clusters : labels[c] \in selector}

\* Reconcile: fetch the CHC, register the finalizer of one not deleted.
Fetch(k) ==
  /\ k \in queue /\ rec[k].pc = "idle"
  /\ queue' = queue \ {k}
  /\ \/ /\ ~chc[k].exists
        /\ UNCHANGED <<rec, chc>>
     \/ /\ chc[k].exists /\ chc[k].deleting
        /\ rec' = [rec EXCEPT ![k] = At("cleanMaps", NoSpec, {})]
        /\ UNCHANGED chc
     \/ /\ chc[k].exists /\ ~chc[k].deleting
        /\ rec' = [rec EXCEPT ![k] = At("match", chc[k].spec, {})]
        /\ chc' = [chc EXCEPT ![k] = [@ EXCEPT !.finalizer = TRUE]]
  /\ UNCHANGED <<labels, report, summary, deployed, seen, pending, indexes,
                 ClusterLabels, changes, faults>>

\* GetMatchingClusters; when it fails Reconcile returns the error.
GetMatchingClusters(k) ==
  /\ rec[k].pc = "match"
  /\ \/ /\ rec' = [rec EXCEPT ![k] = At("clusterMaps", rec[k].spec,
                                     Matching(rec[k].spec.selector))]
        /\ UNCHANGED <<queue, faults>>
     \/ /\ Fault
        /\ rec' = [rec EXCEPT ![k] = Idle]
        /\ queue' = queue \cup {k}
  /\ UNCHANGED <<world, deployed, seen, pending, indexes, ClusterLabels, changes>>

\* Mutant: the clusters k used to match keep it as a consumer.
UpdateClusterMapsKeepsOld(k) ==
  /\ rec[k].pc = "clusterMaps"
  /\ ClusterMap' = [c \in Clusters |->
       IF c \in rec[k].matching THEN ClusterMap[c] \cup {k} ELSE ClusterMap[c]]
  /\ CHCToClusterMap' = [CHCToClusterMap EXCEPT ![k] = rec[k].matching]
  /\ rec' = [rec EXCEPT ![k] = [@ EXCEPT !.pc = "healthCheckMaps"]]
  /\ UNCHANGED <<world, deployed, seen, pending, queue, HealthCheckMap, CHCToHealthCheckMap,
                 AddonsLivenessCHC, ClusterHealthChecks, ClusterLabels, changes, faults>>

\* updateMaps, first critical section: k becomes a consumer of the clusters
\* it matches and stops being one of those it used to match.
UpdateClusterMaps(k) ==
  /\ rec[k].pc = "clusterMaps"
  /\ LET current == rec[k].matching
         toBeRemoved == CHCToClusterMap[k] \ current
     IN /\ ClusterMap' = [c \in Clusters |->
             (IF c \in current THEN ClusterMap[c] \cup {k} ELSE ClusterMap[c])
               \ (IF c \in toBeRemoved THEN {k} ELSE {})]
        /\ CHCToClusterMap' = [CHCToClusterMap EXCEPT ![k] = current]
  /\ rec' = [rec EXCEPT ![k] = [@ EXCEPT !.pc = "healthCheckMaps"]]
  /\ UNCHANGED <<world, deployed, seen, pending, queue, HealthCheckMap, CHCToHealthCheckMap,
                 AddonsLivenessCHC, ClusterHealthChecks, ClusterLabels, changes, faults>>

\* Mutant: every HealthCheck referenced before is erased.
UpdateHealthCheckMapsErasesAll(k) ==
  /\ rec[k].pc = "healthCheckMaps"
  /\ HealthCheckMap' = [h \in HealthChecks |->
       (IF h \in rec[k].spec.refs THEN HealthCheckMap[h] \cup {k} ELSE HealthCheckMap[h])
         \ (IF h \in CHCToHealthCheckMap[k] THEN {k} ELSE {})]
  /\ CHCToHealthCheckMap' = [CHCToHealthCheckMap EXCEPT ![k] = rec[k].spec.refs]
  /\ rec' = [rec EXCEPT ![k] = [@ EXCEPT !.pc = "addonsMap"]]
  /\ UNCHANGED <<world, deployed, seen, pending, queue, ClusterMap, CHCToClusterMap,
                 AddonsLivenessCHC, ClusterHealthChecks, ClusterLabels, changes, faults>>

\* Second one: the same for the HealthChecks it references.
UpdateHealthCheckMaps(k) ==
  /\ rec[k].pc = "healthCheckMaps"
  /\ LET current == rec[k].spec.refs
         toBeRemoved == CHCToHealthCheckMap[k] \ current
     IN /\ HealthCheckMap' = [h \in HealthChecks |->
             (IF h \in current THEN HealthCheckMap[h] \cup {k} ELSE HealthCheckMap[h])
               \ (IF h \in toBeRemoved THEN {k} ELSE {})]
        /\ CHCToHealthCheckMap' = [CHCToHealthCheckMap EXCEPT ![k] = current]
  /\ rec' = [rec EXCEPT ![k] = [@ EXCEPT !.pc = "addonsMap"]]
  /\ UNCHANGED <<world, deployed, seen, pending, queue, ClusterMap, CHCToClusterMap,
                 AddonsLivenessCHC, ClusterHealthChecks, ClusterLabels, changes, faults>>

\* Third one.
UpdateAddonsLivenessCHCMaps(k) ==
  /\ rec[k].pc = "addonsMap"
  /\ AddonsLivenessCHC' = IF rec[k].spec.addons THEN AddonsLivenessCHC \cup {k}
                          ELSE AddonsLivenessCHC \ {k}
  /\ rec' = [rec EXCEPT ![k] = [@ EXCEPT !.pc = "selectorMap"]]
  /\ UNCHANGED <<world, deployed, seen, pending, queue, ClusterMap, CHCToClusterMap,
                 HealthCheckMap, CHCToHealthCheckMap, ClusterHealthChecks,
                 ClusterLabels, changes, faults>>

\* LabelSelectorAsSelector (external), as the MapFuncs use it: an empty selector
\* matches any labels.  (GetMatchingClusters selects no cluster with one.)
AsSelector(selector) == IF selector = {} THEN Labels \cup {SummaryLabels} ELSE selector

\* Last one; a stored selector is kept the way the MapFuncs convert it.
UpdateSelector(k) ==
  /\ rec[k].pc = "selectorMap"
  /\ ClusterHealthChecks' =
       [ClusterHealthChecks EXCEPT ![k] = AsSelector(rec[k].spec.selector)]
  /\ rec' = [rec EXCEPT ![k] = [@ EXCEPT !.pc = "deploy"]]
  /\ UNCHANGED <<world, deployed, seen, pending, queue, ClusterMap, CHCToClusterMap,
                 HealthCheckMap, CHCToHealthCheckMap, AddonsLivenessCHC,
                 ClusterLabels, changes, faults>>

\* Mutant: a deployment that was only requested counts as done.
DeployWithoutRequeue(k) ==
  /\ rec[k].pc = "deploy"
  /\ deployed' = [deployed EXCEPT ![k] = rec[k].matching]
  /\ seen' = [seen EXCEPT ![k] = [c \in Clusters |->
                IF c \in rec[k].matching
                THEN [reports |-> report, summary |-> summary[c]]
                ELSE Unseen]]
  /\ rec' = [rec EXCEPT ![k] = Idle]
  /\ UNCHANGED <<world, pending, queue, indexes, ClusterLabels, changes, faults>>

\* deployClusterHealthCheck: clusters already provisioned are evaluated; a
\* cluster to deploy to or to clean up takes another reconcile.  (So does a
\* changed spec; here only what is needed to bring about a reconcile counts.)
DeployAndEvaluate(k) ==
  /\ rec[k].pc = "deploy"
  /\ deployed' = [deployed EXCEPT ![k] = rec[k].matching]
  /\ seen' = [seen EXCEPT ![k] = [c \in Clusters |->
                IF c \in rec[k].matching \cap deployed[k]
                THEN [reports |-> report, summary |-> summary[c]]
                ELSE Unseen]]
  /\ queue' = IF deployed[k] = rec[k].matching THEN queue ELSE queue \cup {k}
  /\ rec' = [rec EXCEPT ![k] = Idle]
  /\ UNCHANGED <<world, pending, indexes, ClusterLabels, changes, faults>>

\* Mutant: the selector of k is kept.
CleanMapsKeepsSelector(k) ==
  /\ rec[k].pc = "cleanMaps"
  /\ ClusterMap' = [c \in Clusters |-> ClusterMap[c] \ {k}]
  /\ CHCToClusterMap' = [CHCToClusterMap EXCEPT ![k] = {}]
  /\ HealthCheckMap' = [h \in HealthChecks |-> HealthCheckMap[h] \ {k}]
  /\ CHCToHealthCheckMap' = [CHCToHealthCheckMap EXCEPT ![k] = {}]
  /\ AddonsLivenessCHC' = AddonsLivenessCHC \ {k}
  /\ rec' = [rec EXCEPT ![k] = [@ EXCEPT !.pc = "undeploy"]]
  /\ UNCHANGED <<world, deployed, seen, pending, queue, ClusterHealthChecks,
                 ClusterLabels, changes, faults>>

\* reconcileDelete: forget k in every index ...
CleanMaps(k) ==
  /\ rec[k].pc = "cleanMaps"
  /\ ClusterMap' = [c \in Clusters |-> ClusterMap[c] \ {k}]
  /\ CHCToClusterMap' = [CHCToClusterMap EXCEPT ![k] = {}]
  /\ HealthCheckMap' = [h \in HealthChecks |-> HealthCheckMap[h] \ {k}]
  /\ CHCToHealthCheckMap' = [CHCToHealthCheckMap EXCEPT ![k] = {}]
  /\ AddonsLivenessCHC' = AddonsLivenessCHC \ {k}
  /\ ClusterHealthChecks' = [ClusterHealthChecks EXCEPT ![k] = NoSelector]
  /\ rec' = [rec EXCEPT ![k] = [@ EXCEPT !.pc = "undeploy"]]
  /\ UNCHANGED <<world, deployed, seen, pending, queue, ClusterLabels, changes, faults>>

\* ... then undeploy, and release the CHC once nothing is deployed anymore.
Undeploy(k) ==
  /\ rec[k].pc = "undeploy"
  /\ \/ /\ deployed[k] = {}
        /\ chc' = [chc EXCEPT ![k] = Absent]
        /\ UNCHANGED <<deployed, queue>>
     \/ /\ deployed[k] # {}
        /\ deployed' = [deployed EXCEPT ![k] = {}]
        /\ queue' = queue \cup {k}
        /\ UNCHANGED chc
  /\ seen' = [seen EXCEPT ![k] = [c \in Clusters |-> Unseen]]
  /\ rec' = [rec EXCEPT ![k] = Idle]
  /\ UNCHANGED <<labels, report, summary, pending, indexes, ClusterLabels, changes, faults>>

-----------------------------------------------------------------------------
(* The MapFuncs. *)

Handle(event) ==
  event \in events /\ events' = events \ {event} /\ UNCHANGED oldLabels

\* The CHCs whose stored selector matches the labels given.
NowMatching(lbls) == {k \in CHCs : lbls \in ClusterHealthChecks[k]}

\* requeueClusterHealthCheckForACluster, called for the old and then for the
\* new object; two changes not handed over yet are one event.
ForACluster(c) ==
  /\ oldLabels[c] # None
  /\ oldLabels' = [oldLabels EXCEPT ![c] = None]
  /\ ClusterLabels' = [ClusterLabels EXCEPT ![c] = labels[c]]
  /\ queue' = queue \cup ClusterMap[c] \cup NowMatching(oldLabels[c])
                    \cup NowMatching(labels[c])
  /\ UNCHANGED <<world, deployed, seen, events, rec, indexes, changes, faults>>

\* Mutant: the request names the HealthCheck.
ForHealthCheckItself(h) ==
  /\ Handle(<<"healthCheck", h>>)
  /\ queue' = queue \cup {h}
  /\ UNCHANGED <<world, deployed, seen, rec, indexes, ClusterLabels, changes, faults>>

\* requeueClusterHealthCheckForHealthCheckReport and ...ForHealthCheck.
ForHealthCheck(h) ==
  /\ Handle(<<"healthCheck", h>>)
  /\ queue' = queue \cup HealthCheckMap[h]
  /\ UNCHANGED <<world, deployed, seen, rec, indexes, ClusterLabels, changes, faults>>

\* requeueClusterHealthCheckForClusterSummary: only consumers with a liveness
\* check on add-ons, and the CHCs matching the labels just stored.
ForClusterSummary(c) ==
  /\ Handle(<<"summary", c>>)
  /\ ClusterLabels' = [ClusterLabels EXCEPT ![c] = SummaryLabels]
  /\ queue' = queue \cup (ClusterMap[c] \cap AddonsLivenessCHC) \cup NowMatching(SummaryLabels)
  /\ UNCHANGED <<world, deployed, seen, rec, indexes, changes, faults>>

-----------------------------------------------------------------------------
(* Users, clusters, agents and the process. *)

Change == changes < MaxChanges /\ changes' = changes + 1

\* A CHC is created, or its spec changes: its key is queued.
SetSpec(k, s) ==
  /\ Change
  /\ chc[k].spec # s /\ ~chc[k].deleting
  /\ chc' = [chc EXCEPT ![k] = [@ EXCEPT !.exists = TRUE, !.spec = s]]
  /\ queue' = queue \cup {k}
  /\ UNCHANGED <<labels, report, summary, deployed, seen, pending, rec, indexes,
                 ClusterLabels, faults>>

DeleteCHC(k) ==
  /\ Change
  /\ chc[k].exists /\ ~chc[k].deleting
  /\ chc' = [chc EXCEPT ![k] = IF chc[k].finalizer THEN [@ EXCEPT !.deleting = TRUE]
                               ELSE Absent]
  /\ queue' = queue \cup {k}
  /\ UNCHANGED <<labels, report, summary, deployed, seen, pending, rec, indexes,
                 ClusterLabels, faults>>

ChangeLabels(c) ==
  /\ Change
  /\ \E l \in Labels \ {labels[c]} : labels' = [labels EXCEPT ![c] = l]
  /\ oldLabels' = [oldLabels EXCEPT ![c] = IF @ = None THEN labels[c] ELSE @]
  /\ UNCHANGED <<chc, report, summary, deployed, seen, events, queue, rec, indexes,
                 ClusterLabels, faults>>

Other(content) == IF content = "good" THEN "bad" ELSE "good"

ReportChanges(h) ==
  /\ Change
  /\ report' = [report EXCEPT ![h] = Other(@)]
  /\ events' = events \cup {<<"healthCheck", h>>}
  /\ UNCHANGED <<chc, labels, summary, deployed, seen, oldLabels, queue, rec, indexes,
                 ClusterLabels, faults>>

\* The status of a ClusterSummary changes.  (Its creation, which the predicates
\* ignore, changes nothing an evaluation reads: without FeatureSummaries it
\* counts as deployed.)
SummaryChanges(c) ==
  /\ Change
  /\ summary' = [summary EXCEPT ![c] = Other(@)]
  /\ events' = events \cup {<<"summary", c>>}
  /\ UNCHANGED <<chc, labels, report, deployed, seen, oldLabels, queue, rec, indexes,
                 ClusterLabels, faults>>

\* The manager restarts: the indexes are lost and rebuilt by reconciling
\* every CHC; clusters and reports are listed again (the creation of a
\* ClusterSummary is not an event the predicates let through).
Restart ==
  /\ Fault
  /\ rec' = [k \in CHCs |-> Idle]
  /\ queue' = {k \in CHCs : chc[k].exists}
  /\ events' = {"healthCheck"} \X HealthChecks
  /\ oldLabels' = labels
  /\ ClusterMap' = [c \in Clusters |-> {}]
  /\ CHCToClusterMap' = [k \in CHCs |-> {}]
  /\ HealthCheckMap' = [h \in HealthChecks |-> {}]
  /\ CHCToHealthCheckMap' = [k \in CHCs |-> {}]
  /\ AddonsLivenessCHC' = {}
  /\ ClusterHealthChecks' = [k \in CHCs |-> NoSelector]
  /\ ClusterLabels' = [c \in Clusters |-> Unknown]
  /\ UNCHANGED <<world, deployed, seen, changes>>

ReconcilerStep(k) ==
  \/ Fetch(k) \/ GetMatchingClusters(k)
  \/ UpdateClusterMaps(k) \/ UpdateHealthCheckMaps(k)
  \/ UpdateAddonsLivenessCHCMaps(k) \/ UpdateSelector(k)
  \/ DeployAndEvaluate(k) \/ CleanMaps(k) \/ Undeploy(k)

Next ==
  \/ \E k \in CHCs : ReconcilerStep(k) \/ DeleteCHC(k) \/ \E s \in Specs : SetSpec(k, s)
  \/ \E c \in Clusters : \/ ForACluster(c) \/ ForClusterSummary(c)
                         \/ ChangeLabels(c) \/ SummaryChanges(c)
  \/ \E h \in HealthChecks : ForHealthCheck(h) \/ ReportChanges(h)
  \/ Restart

Spec == Init /\ [][Next]_vars

-----------------------------------------------------------------------------
(* Properties. *)

PCs == {"idle", "match", "clusterMaps", "healthCheckMaps", "addonsMap",
        "selectorMap", "deploy", "cleanMaps", "undeploy"}
Content == {"good", "bad", Unknown}
CHCType == [exists : BOOLEAN, deleting : BOOLEAN, finalizer : BOOLEAN, spec : SpecType]
RecType == [pc : PCs, spec : SpecType, matching : SUBSET Clusters]
SeenType == [reports : [HealthChecks -> Content], summary : Content]

\* The API objects, the reconciles and the indexes are well formed.
TypeOK ==
  /\ chc \in [CHCs -> CHCType]
  /\ labels \in [Clusters -> Labels]
  /\ report \in [HealthChecks -> Content]
  /\ summary \in [Clusters -> Content]
  /\ deployed \in [CHCs -> SUBSET Clusters]
  /\ seen \in [CHCs -> [Clusters -> SeenType]]
  /\ events \subseteq {"summary"} \X Clusters \cup {"healthCheck"} \X HealthChecks
  /\ oldLabels \in [Clusters -> Labels \cup {None}]
  /\ queue \subseteq CHCs
  /\ rec \in [CHCs -> RecType]
  /\ ClusterMap \in [Clusters -> SUBSET CHCs]
  /\ CHCToClusterMap \in [CHCs -> SUBSET Clusters]
  /\ HealthCheckMap \in [HealthChecks -> SUBSET CHCs]
  /\ CHCToHealthCheckMap \in [CHCs -> SUBSET HealthChecks]
  /\ AddonsLivenessCHC \subseteq CHCs
  /\ ClusterHealthChecks \in [CHCs -> SUBSET (Labels \cup {SummaryLabels})]
  /\ ClusterLabels \in [Clusters -> Labels \cup {SummaryLabels, Unknown}]
  /\ changes \in 0 .. MaxChanges
  /\ faults \in 0 .. MaxFaults

\* ClusterMap and CHCToClusterMap, HealthCheckMap and CHCToHealthCheckMap
\* stay inverse of each other: updateClusterMaps and updateHealthCheckMaps
\* rely on the second map alone to take a CHC out of the first one.
IndexesAgree ==
  /\ \A k \in CHCs, c \in Clusters : k \in ClusterMap[c] <=> c \in CHCToClusterMap[k]
  /\ \A k \in CHCs, h \in HealthChecks :
       k \in HealthCheckMap[h] <=> h \in CHCToHealthCheckMap[k]

Indexed(k) ==
  \/ \E c \in Clusters : k \in ClusterMap[c]
  \/ \E h \in HealthChecks : k \in HealthCheckMap[h]
  \/ k \in AddonsLivenessCHC
  \/ ClusterHealthChecks[k] # NoSelector

\* A CHC that is gone from the API server is in no index: cleanMaps runs
\* before the finalizer is removed, and no reconcile puts the CHC back.
NoGhosts == \A k \in CHCs : Indexed(k) => chc[k].exists

Quiescent ==
  /\ events = {} /\ queue = {}
  /\ \A c \in Clusters : oldLabels[c] = None
  /\ \A k \in CHCs : rec[k].pc = "idle"
Live(k) == chc[k].exists /\ ~chc[k].deleting

\* Once nothing is left to do, the last evaluation of every CHC read the
\* current reports of the HealthChecks it references and, if it has a
\* liveness check on add-ons, the current ClusterSummaries: an event whose
\* MapFunc runs before the indexes mention the CHC is not a lost one, since
\* updateMaps comes before the reports are read.
NoMissedReport ==
  Quiescent =>
    \A k \in CHCs : Live(k) =>
      \A c \in deployed[k] :
        /\ \A h \in chc[k].spec.refs : seen[k][c].reports[h] = report[h]
        /\ chc[k].spec.addons => seen[k][c].summary = summary[c]

\* As long as no read fails and the manager is not restarted, a cluster that
\* stops matching a CHC is not left with it deployed: ClusterMap, updated
\* before anything is deployed, finds the CHC for the event.
NoStaleCluster ==
  Quiescent /\ faults = 0 =>
    \A k \in CHCs : Live(k) => deployed[k] \subseteq Matching(chc[k].spec.selector)

\* "use ClusterHealthChecks to find all ClusterHealthCheck matching the
\* Cluster and reconcile those" (clusterhealthcheck_controller.go:120): once
\* nothing is left to do, every matching cluster is handled.
NoMissedCluster ==
  Quiescent => \A k \in CHCs : Live(k) => Matching(chc[k].spec.selector) \subseteq deployed[k]

=============================================================================
