---------------------- MODULE ClusterHealthCheckDeployer ----------------------
(***************************************************************************)
(* One ClusterHealthCheck (CHC), the clusters it matches, the reconciler   *)
(* that drives deployment and removal (clusterhealthcheck_controller.go,   *)
(* clusterhealthcheck_deployer.go) and the libsveltos Deployer, whose      *)
(* workers deploy to and clean up the managed clusters in the background.  *)
(*                                                                         *)
(* Reconciles of one CHC are serialised by the workqueue; they run         *)
(* concurrently with the Deployer's workers, with the users and with the   *)
(* clusters.  A reconcile takes the steps Reconcile, then per entry of     *)
(* Status.ClusterConditions a "prepare" step up to Deployer.CleanupEntries *)
(* and a "decide" step from Deployer.IsInProgress on, then Finish, whose   *)
(* last part is the deferred scope.Close.                                  *)
(*                                                                         *)
(* A configuration hash is the version of everything it covers (the spec   *)
(* and the referenced HealthChecks): hash 0 is the initial empty hash.     *)
(***************************************************************************)
EXTENDS Integers

CONSTANTS Clusters,     \* clusters known to the management cluster
          ClusterRefs,  \* clusters listed in Spec.ClusterRefs
          Changes,      \* which changes users and clusters may make
          MaxChanges,   \* bound on their number
          Faults,       \* which faults may happen
          MaxFaults,    \* bound on their number
          LateResults   \* may a worker finish between CleanupEntries and
                        \* IsInProgress of a reconcile for its cluster?

ASSUME DeployerAssumption ==
  /\ ClusterRefs \subseteq Clusters
  /\ Changes \subseteq {"spec", "label", "pause", "delete", "gone"}
  /\ Faults \subseteq {"worker", "api", "evaluation", "close", "restart"}
  /\ MaxChanges \in Nat
  /\ MaxFaults \in Nat
  /\ LateResults \in BOOLEAN

VARIABLES
  chc,         \* the CHC in the API server
  conditions,  \* its Status.ClusterConditions: status and hash per cluster
  cluster,     \* the Cluster objects: present, carrying matching labels, paused
  managed,     \* configuration present in each managed cluster (0: nothing)
  workqueue,   \* is a reconcile of the CHC queued (RequeueAfter included)?
  rec,         \* the reconcile in progress: its step and its local variables
  local,       \* its in-memory copy of Status.ClusterConditions
  pending,     \* Deployer: requests queued
  inProgress,  \* Deployer: requests a worker is processing
  results,     \* Deployer: results not consumed yet
  read,        \* what the worker of a request in progress fetched
  changes, faults \* how many changes and faults happened (bounds)

deployer == <<pending, inProgress, results, read>>
api == <<chc, conditions, cluster, managed>>
vars == <<chc, conditions, cluster, managed, workqueue, rec, local,
          pending, inProgress, results, read, changes, faults>>

Requests == Clusters \X BOOLEAN
ToDeploy(c) == <<c, FALSE>>
ToCleanup(c) == <<c, TRUE>>

Versions == Nat
Unread == 0 - 1

Statuses == {"Absent", "New", "Provisioning", "Provisioned", "Failed",
             "Removing", "Removed"}
ClusterInfo == [status : Statuses, hash : Versions]
NoEntry == [status |-> "Absent", hash |-> 0]
Info(s, h) == [status |-> s, hash |-> h]
HasEntry(conds, c) == conds[c].status # "Absent"

Idle == [pc |-> "idle", current |-> {}, todo |-> {}, matching |-> {},
         spec |-> 0, deleting |-> FALSE, requeue |-> FALSE, aborted |-> FALSE]

Init ==
  /\ chc = [exists |-> TRUE, deleting |-> FALSE, finalizer |-> FALSE, spec |-> 1]
  /\ conditions = [c \in Clusters |-> NoEntry]
  /\ cluster \in [Clusters -> [present : {TRUE}, labelled : BOOLEAN, paused : {FALSE}]]
  /\ managed = [c \in Clusters |-> 0]
  /\ workqueue = TRUE
  /\ rec = Idle
  /\ local = [c \in Clusters |-> NoEntry]
  /\ pending = {}
  /\ inProgress = {}
  /\ results = [r \in Requests |-> "none"]
  /\ read = [r \in Requests |-> Unread]
  /\ changes = 0
  /\ faults = 0

-----------------------------------------------------------------------------
(* The Deployer (libsveltos, external): requests are keyed by cluster and by *)
(* deploy/cleanup, the key a worker processes may be queued again meanwhile. *)

\* CleanupEntries forgets what is queued and what was not consumed; a
\* request a worker is processing is left alone.
CleanupEntries(r) ==
  /\ pending' = pending \ {r}
  /\ results' = [results EXCEPT ![r] = "none"]

\* The result GetResult returns; a stored result is consumed by the caller.
GetResult(r) ==
  IF results[r] # "none" THEN results[r]
  ELSE IF r \in inProgress \cup pending THEN "inProgress" ELSE "unavailable"

ConsumeResult(r) ==
  /\ results' = [results EXCEPT ![r] = "none"]
  /\ UNCHANGED pending

\* Deploy queues the request, unless it is queued already, and clears the
\* result of an earlier one.
Deploy(r) ==
  /\ pending' = pending \cup {r}
  /\ results' = IF r \in pending THEN results ELSE [results EXCEPT ![r] = "none"]

-----------------------------------------------------------------------------
(* The reconciler. *)

\* Faults are bounded; a fault-free outcome of a step leaves the count alone.
Fault(kind) == /\ kind \in Faults
               /\ faults < MaxFaults
               /\ faults' = faults + 1
NoFault == UNCHANGED faults

\* GetMatchingClusters and addClusterRefs: existing clusters whose labels
\* match, and the ones the spec lists, present or not.
MatchingClusters ==
  {c \in Clusters : cluster[c].present /\ cluster[c].labelled} \cup ClusterRefs

\* updateClusterConditions: an entry for every newly matching cluster.
WithNewEntries(matching) ==
  [c \in Clusters |-> IF c \in matching /\ ~HasEntry(conditions, c)
                      THEN Info("New", 0) ELSE conditions[c]]

\* Reconcile up to the loop over the clusters.
Reconcile ==
  /\ workqueue
  /\ rec.pc = "idle"
  /\ workqueue' = FALSE
  /\ IF chc.exists
     THEN LET matching == IF chc.deleting THEN {} ELSE MatchingClusters
              conds == WithNewEntries(matching)
          IN /\ rec' = [Idle EXCEPT !.pc = "prepare",
                                    !.todo = {c \in Clusters : HasEntry(conds, c)},
                                    !.matching = matching,
                                    !.spec = chc.spec,
                                    !.deleting = chc.deleting]
             /\ local' = conds
             /\ chc' = [chc EXCEPT !.finalizer = @ \/ ~chc.deleting]
     ELSE UNCHANGED <<rec, local, chc>>
  /\ UNCHANGED <<conditions, cluster, managed, pending, inProgress, results,
                 read, changes, faults>>

\* Reading the CHC, adding the finalizer or GetMatchingClusters fails: the
\* finalizer may have been added, the reconcile is repeated.
ReconcileFails ==
  /\ workqueue /\ rec.pc = "idle" /\ chc.exists
  /\ Fault("api")
  /\ \E added \in {FALSE, ~chc.deleting} :
       chc' = [chc EXCEPT !.finalizer = @ \/ added]
  /\ UNCHANGED <<conditions, cluster, managed, workqueue, rec, local, deployer,
                 changes>>

\* The hash an entry gets: removal on deletion keeps the recorded one.
EntryHash(c) == IF rec.deleting THEN local[c].hash ELSE rec.spec

\* isClusterStillMatching.
ToBeRemoved(c) == rec.deleting \/ c \notin rec.matching

\* Mutant: the last entry alone decides whether to reconcile again.
EntryDoneLastWins(c, info, requeue) ==
  /\ local' = [local EXCEPT ![c] = info]
  /\ rec' = [rec EXCEPT !.pc = "prepare", !.current = {}, !.todo = @ \ {c},
                        !.requeue = requeue]

\* The entry of c is done: store info, go on to the next one.
EntryDone(c, info, requeue) ==
  /\ local' = [local EXCEPT ![c] = info]
  /\ rec' = [rec EXCEPT !.pc = "prepare", !.current = {}, !.todo = @ \ {c},
                        !.requeue = @ \/ requeue]

\* Go on to the "decide" step of c.
EntryPrepared(c) ==
  /\ rec' = [rec EXCEPT !.pc = "decide", !.current = {c}]
  /\ UNCHANGED local

\* When the hash cannot be computed the entry is left as it is.
HashFailed(c) == IF rec.deleting THEN {} ELSE {local[c]}

\* removeClusterHealthCheck up to CleanupEntries of the deploy request.  An
\* entry that ends up Removed is "not provisioned yet" for a normal reconcile,
\* which is repeated.
PrepareRemove(c) ==
  /\ rec.pc = "prepare" /\ c \in rec.todo /\ ToBeRemoved(c)
  /\ \/ /\ ~cluster[c].present
        /\ EntryDone(c, Info("Removed", EntryHash(c)), ~rec.deleting)
        /\ NoFault
        /\ UNCHANGED <<pending, results>>
     \/ /\ cluster[c].present
        /\ CleanupEntries(ToDeploy(c))
        /\ EntryPrepared(c)
        /\ NoFault
     \/ /\ Fault("api")
        /\ \E info \in {Info("Removing", EntryHash(c))} \cup HashFailed(c) :
             EntryDone(c, info, TRUE)
        /\ UNCHANGED <<pending, results>>
  /\ UNCHANGED <<api, workqueue, inProgress, read, changes>>

\* removeClusterHealthCheck from IsInProgress on: wait for a deployment in
\* progress, drop the entry once the cleanup reports Removed, else queue the
\* cleanup (again, if it failed or is still in progress).
DecideRemove(c) ==
  /\ rec.pc = "decide" /\ c \in rec.current /\ ToBeRemoved(c)
  /\ \/ /\ ToDeploy(c) \in inProgress
        /\ EntryDone(c, Info("Removing", EntryHash(c)), TRUE)
        /\ UNCHANGED <<pending, results>>
     \/ /\ ToDeploy(c) \notin inProgress /\ GetResult(ToCleanup(c)) = "ok"
        /\ EntryDone(c, Info("Removed", EntryHash(c)), ~rec.deleting)
        /\ ConsumeResult(ToCleanup(c))
     \/ /\ ToDeploy(c) \notin inProgress /\ GetResult(ToCleanup(c)) # "ok"
        /\ EntryDone(c, Info("Removing", EntryHash(c)), TRUE)
        /\ pending' = pending \cup {ToCleanup(c)}
        /\ results' = [results EXCEPT ![ToCleanup(c)] = "none"]
  /\ UNCHANGED <<api, workqueue, inProgress, read, changes, faults>>

CanProceed(c) == cluster[c].present /\ ~cluster[c].paused

\* Mutant: a cleanup that is queued is not taken back.
PrepareDeployKeepsCleanup(c) ==
  /\ rec.pc = "prepare" /\ c \in rec.todo /\ ~ToBeRemoved(c) /\ CanProceed(c)
  /\ EntryPrepared(c)
  /\ UNCHANGED <<api, workqueue, pending, results, inProgress, read, changes, faults>>

\* processClusterHealthCheck up to CleanupEntries of the cleanup request.
\* A cluster that is paused, absent or fails to be read gets the current
\* hash all the same.
PrepareDeploy(c) ==
  /\ rec.pc = "prepare" /\ c \in rec.todo /\ ~ToBeRemoved(c)
  /\ \/ /\ ~CanProceed(c)
        /\ EntryDone(c, Info("Provisioning", rec.spec), TRUE)
        /\ NoFault
        /\ UNCHANGED <<pending, results>>
     \/ /\ CanProceed(c)
        /\ CleanupEntries(ToCleanup(c))
        /\ EntryPrepared(c)
        /\ NoFault
     \/ /\ Fault("api")
        /\ \E info \in {Info("Provisioning", rec.spec)} \cup HashFailed(c) :
             EntryDone(c, info, TRUE)
        /\ UNCHANGED <<pending, results>>
  /\ UNCHANGED <<api, workqueue, inProgress, read, changes>>

\* Mutant: the Deployer's status is stored unconverted.
ResultStatusUnconverted(result) == result

\* convertResultStatus, for a deploy request whose result is available.
ConvertResultStatus(result) ==
  CASE result = "ok" -> "Provisioned"
    [] result = "failed" -> "Failed"
    [] result = "inProgress" -> "Provisioning"

\* Mutant: the recorded hash is not compared with the current one.
IsConfigSameAlways(c) == HasEntry(local, c)

\* Was c last processed with the configuration at hand?
IsConfigSame(c) == local[c].hash = rec.spec

\* proceedProcessingClusterHealthCheck: take the Deployer's result if the
\* recorded hash is the current one, keep what is already deployed, else
\* queue a new request.  Before that, reading the cluster's mode or resetting
\* the status of its reports may fail.
DecideDeploy(c) ==
  /\ rec.pc = "decide" /\ c \in rec.current /\ ~ToBeRemoved(c)
  /\ LET result == GetResult(ToDeploy(c))
         hasResult == IsConfigSame(c) /\ result # "unavailable"
         alreadyDeployed == IsConfigSame(c) /\ local[c].status = "Provisioned"
     IN \/ /\ ToCleanup(c) \in inProgress
           /\ EntryDone(c, Info("Provisioning", rec.spec), TRUE)
           /\ NoFault /\ UNCHANGED <<pending, results>>
        \/ /\ ToCleanup(c) \notin inProgress /\ Fault("api")
           /\ EntryDone(c, Info("Provisioning", rec.spec), TRUE)
           /\ UNCHANGED <<pending, results>>
        \/ /\ ToCleanup(c) \notin inProgress /\ hasResult
           /\ EntryDone(c, Info(ConvertResultStatus(result), rec.spec), result # "ok")
           /\ ConsumeResult(ToDeploy(c)) /\ NoFault
        \/ /\ ToCleanup(c) \notin inProgress /\ ~hasResult /\ alreadyDeployed
           /\ EntryDone(c, local[c], FALSE)
           /\ NoFault /\ UNCHANGED <<pending, results>>
        \/ /\ ToCleanup(c) \notin inProgress /\ ~hasResult /\ ~alreadyDeployed
           /\ EntryDone(c, Info("Provisioning", rec.spec), TRUE)
           /\ Deploy(ToDeploy(c)) /\ NoFault
  /\ UNCHANGED <<api, workqueue, inProgress, read, changes>>

\* Reading the cluster's shard fails: deployClusterHealthCheck returns at
\* once; undeployClusterHealthCheck goes on with the next entry.
ShardMatchFails(c) ==
  /\ rec.pc = "prepare" /\ c \in rec.todo
  /\ Fault("api")
  /\ rec' = [rec EXCEPT !.requeue = TRUE,
                        !.aborted = ~rec.deleting,
                        !.todo = IF rec.deleting THEN @ \ {c} ELSE {}]
  /\ UNCHANGED <<api, workqueue, local, deployer, changes>>

\* Mutant: an entry is dropped as soon as its removal starts.
DropRemoving(conds) ==
  [c \in Clusters |-> IF conds[c].status \in {"Removing", "Removed"} THEN NoEntry
                      ELSE conds[c]]

\* Entries with status Removed are dropped.
DropRemoved(conds) ==
  [c \in Clusters |-> IF conds[c].status = "Removed" THEN NoEntry ELSE conds[c]]

\* evaluateAndNotifyProvisionedClusters demotes a cluster whose liveness
\* checks could not be evaluated; when only its shard could not be read the
\* entry stays, and either way the CHC is reconciled again.
Demote(conds, failed) ==
  [c \in Clusters |-> IF c \in failed /\ conds[c].status = "Provisioned"
                      THEN [conds[c] EXCEPT !.status = "Provisioning"]
                      ELSE conds[c]]

\* Mutant: an unfinished reconcile is not repeated.
FinishWithoutRequeue(conds, requeue) ==
  LET released == rec.deleting /\ ~requeue
  IN /\ chc' = [chc EXCEPT !.finalizer = @ /\ ~released,
                           !.exists = @ /\ ~released]
     /\ conditions' = IF released THEN [c \in Clusters |-> NoEntry] ELSE conds
     /\ UNCHANGED workqueue

\* The end of reconcileNormal or reconcileDelete, and scope.Close: what was
\* decided is persisted, the finalizer removal included.
FinishWith(conds, requeue) ==
  LET released == rec.deleting /\ ~requeue
  IN /\ chc' = [chc EXCEPT !.finalizer = @ /\ ~released,
                           !.exists = @ /\ ~released]
     /\ conditions' = IF released THEN [c \in Clusters |-> NoEntry] ELSE conds
     /\ workqueue' = (workqueue \/ requeue)

\* Mutant: the error of Close is not returned.
CloseFailsUnnoticed ==
  /\ Fault("close")
  /\ UNCHANGED <<chc, conditions, workqueue>>

\* scope.Close fails: nothing is persisted, the reconcile is repeated.
CloseFails ==
  /\ Fault("close")
  /\ workqueue' = TRUE
  /\ UNCHANGED <<chc, conditions>>

Finish ==
  /\ rec.pc = "prepare" /\ rec.todo = {}
  /\ LET conds == IF rec.aborted THEN local ELSE DropRemoved(local)
     IN \/ /\ FinishWith(conds, rec.requeue)
           /\ NoFault
        \/ /\ ~rec.deleting /\ ~rec.aborted
           /\ Fault("evaluation")
           /\ \E failed \in (SUBSET Clusters) \ {{}} :
                FinishWith(Demote(conds, failed), TRUE)
        \/ CloseFails
  /\ rec' = Idle
  /\ local' = [c \in Clusters |-> NoEntry]
  /\ UNCHANGED <<cluster, managed, deployer, changes>>

-----------------------------------------------------------------------------
(* The workers: processClusterHealthCheckForCluster (deploy) and            *)
(* undeployClusterHealthCheckResourcesFromCluster (cleanup).                *)

Take(r) ==
  /\ r \in pending /\ r \notin inProgress
  /\ pending' = pending \ {r}
  /\ inProgress' = inProgress \cup {r}
  /\ UNCHANGED <<api, workqueue, rec, local, results, read, changes, faults>>

\* The instant between the two calls is short but nothing excludes it.
StoreResult(r, result) ==
  /\ LateResults \/ r[1] \notin rec.current
  /\ results' = [results EXCEPT ![r] = result]
  /\ inProgress' = inProgress \ {r}
  /\ read' = [read EXCEPT ![r] = Unread]

\* Mutant: the handler works from the version recorded in the status.
FetchRecorded(r) ==
  /\ r \in inProgress /\ read[r] = Unread
  /\ IF chc.exists /\ (r[2] \/ ~chc.deleting)
     THEN /\ read' = [read EXCEPT ![r] = IF r[2] THEN 0 ELSE conditions[r[1]].hash]
          /\ UNCHANGED <<inProgress, results>>
     ELSE StoreResult(r, "ok")
  /\ UNCHANGED <<api, workqueue, rec, local, pending, changes, faults>>

\* The handler fetches the CHC: nothing to do when it is gone or, for a
\* deployment, marked for deletion.
Fetch(r) ==
  /\ r \in inProgress /\ read[r] = Unread
  /\ IF chc.exists /\ (r[2] \/ ~chc.deleting)
     THEN /\ read' = [read EXCEPT ![r] = IF r[2] THEN 0 ELSE chc.spec]
          /\ UNCHANGED <<inProgress, results>>
     ELSE StoreResult(r, "ok")
  /\ UNCHANGED <<api, workqueue, rec, local, pending, changes, faults>>

\* The handler brings the managed cluster to what it fetched.  A failing
\* handler may have done so or not.
Apply(r) ==
  /\ r \in inProgress /\ read[r] # Unread
  /\ \/ /\ cluster[r[1]].present
        /\ managed' = [managed EXCEPT ![r[1]] = read[r]]
        /\ StoreResult(r, "ok")
        /\ NoFault
     \/ /\ ~cluster[r[1]].present
        /\ StoreResult(r, "failed")
        /\ NoFault /\ UNCHANGED managed
     \/ /\ cluster[r[1]].present
        /\ Fault("worker")
        /\ \E v \in {managed[r[1]], read[r]} : managed' = [managed EXCEPT ![r[1]] = v]
        /\ StoreResult(r, "failed")
  /\ UNCHANGED <<chc, conditions, cluster, workqueue, rec, local, pending, changes>>

-----------------------------------------------------------------------------
(* Users, clusters and the process itself. *)

\* A change the reconciler watches for: it queues a reconcile.
Change(kind) == /\ kind \in Changes
                /\ changes < MaxChanges
                /\ changes' = changes + 1
                /\ workqueue' = TRUE

ChangeSpec ==
  /\ chc.exists /\ ~chc.deleting
  /\ Change("spec")
  /\ chc' = [chc EXCEPT !.spec = @ + 1]
  /\ UNCHANGED <<conditions, cluster, managed, rec, local, deployer, faults>>

DeleteCHC ==
  /\ chc.exists /\ ~chc.deleting
  /\ Change("delete")
  /\ chc' = [chc EXCEPT !.deleting = TRUE, !.exists = chc.finalizer]
  /\ UNCHANGED <<conditions, cluster, managed, rec, local, deployer, faults>>

ChangeLabels(c) ==
  /\ cluster[c].present
  /\ Change("label")
  /\ cluster' = [cluster EXCEPT ![c].labelled = ~@]
  /\ UNCHANGED <<chc, conditions, managed, rec, local, deployer, faults>>

TogglePaused(c) ==
  /\ cluster[c].present
  /\ Change("pause")
  /\ cluster' = [cluster EXCEPT ![c].paused = ~@]
  /\ UNCHANGED <<chc, conditions, managed, rec, local, deployer, faults>>

\* The Cluster object is deleted, and the managed cluster with it.
ClusterGone(c) ==
  /\ cluster[c].present
  /\ Change("gone")
  /\ cluster' = [cluster EXCEPT ![c].present = FALSE]
  /\ managed' = [managed EXCEPT ![c] = 0]
  /\ UNCHANGED <<chc, conditions, rec, local, deployer, faults>>

\* The manager restarts: everything it kept in memory is lost, the CHC is
\* listed and reconciled again.
Restart ==
  /\ Fault("restart")
  /\ rec' = Idle
  /\ local' = [c \in Clusters |-> NoEntry]
  /\ pending' = {} /\ inProgress' = {}
  /\ results' = [r \in Requests |-> "none"]
  /\ read' = [r \in Requests |-> Unread]
  /\ workqueue' = TRUE
  /\ UNCHANGED <<api, changes>>

ReconcilerStep ==
  \/ Reconcile \/ ReconcileFails
  \/ \E c \in Clusters : PrepareRemove(c) \/ DecideRemove(c)
                         \/ PrepareDeploy(c) \/ DecideDeploy(c)
                         \/ ShardMatchFails(c)
  \/ Finish

WorkerStep == \E r \in Requests : Take(r) \/ Fetch(r) \/ Apply(r)

Next ==
  \/ ReconcilerStep
  \/ WorkerStep
  \/ ChangeSpec \/ DeleteCHC
  \/ \E c \in Clusters : ChangeLabels(c) \/ TogglePaused(c) \/ ClusterGone(c)
  \/ Restart

Spec == Init /\ [][Next]_vars

\* controller-runtime keeps serving a non-empty workqueue and an interval
\* given as RequeueAfter always ends; the Deployer's workers never stop.
\* (Strong fairness: a reconcile that polls must not starve a worker that
\* ~LateResults keeps from finishing during one of its steps.)
FairSpec ==
  /\ Spec
  /\ WF_vars(ReconcilerStep)
  /\ \A r \in Requests : SF_vars(Take(r) \/ Fetch(r) \/ Apply(r))

-----------------------------------------------------------------------------
(* Properties. *)

RecType ==
  [pc : {"idle", "prepare", "decide"}, current : SUBSET Clusters,
   todo : SUBSET Clusters, matching : SUBSET Clusters, spec : Versions,
   deleting : BOOLEAN, requeue : BOOLEAN, aborted : BOOLEAN]

\* The state of the CHC, of the reconcile and of the Deployer is well formed.
TypeOK ==
  /\ chc \in [exists : BOOLEAN, deleting : BOOLEAN, finalizer : BOOLEAN,
              spec : Versions]
  /\ conditions \in [Clusters -> ClusterInfo]
  /\ cluster \in [Clusters -> [present : BOOLEAN, labelled : BOOLEAN,
                               paused : BOOLEAN]]
  /\ managed \in [Clusters -> Versions]
  /\ workqueue \in BOOLEAN
  /\ rec \in RecType
  /\ local \in [Clusters -> ClusterInfo]
  /\ pending \subseteq Requests
  /\ inProgress \subseteq Requests
  /\ results \in [Requests -> {"none", "ok", "failed"}]
  /\ read \in [Requests -> Versions \cup {Unread}]
  /\ changes \in 0 .. MaxChanges
  /\ faults \in 0 .. MaxFaults

\* Two workers never deploy to and clean up the same cluster at the same
\* time: "if two workers process those request in parallel some resources
\* might end up missing" (clusterhealthcheck_deployer.go:352-354, 613-615).
NoConcurrentDeployAndCleanup ==
  \A c \in Clusters : ~(ToDeploy(c) \in inProgress /\ ToCleanup(c) \in inProgress)

\* Whenever no reconcile is running, a cluster that has, or is about to get,
\* something deployed is still listed in the status of an existing CHC, so
\* that it is cleaned up when it stops matching or when the CHC is deleted:
\* neither the finalizer nor an entry is dropped too early.
NothingLeftBehind ==
  rec.pc = "idle" =>
    \A c \in Clusters :
      cluster[c].present /\ (managed[c] # 0 \/ read[ToDeploy(c)] # Unread)
        => chc.exists /\ HasEntry(conditions, c)

\* With no reconcile running or due, every cluster that matches is listed in the
\* status, whatever failed before: when the manager stops or Close fails after
\* Deploy was called for a new cluster, its entry is made again, and what was
\* deployed meanwhile is forgotten at most where the cluster stops matching
\* before that.
MatchingIsListed ==
  rec.pc = "idle" /\ ~workqueue /\ chc.exists /\ ~chc.deleting =>
    \A c \in MatchingClusters : HasEntry(conditions, c)

\* A cluster recorded as Provisioned, with no work for the CHC left anywhere,
\* holds the configuration whose hash is recorded.
Quiescent == rec.pc = "idle" /\ ~workqueue /\ pending = {} /\ inProgress = {}

ProvisionedMeansDeployed ==
  Quiescent /\ chc.exists =>
    \A c \in Clusters :
      conditions[c].status = "Provisioned" /\ cluster[c].present
        => managed[c] = conditions[c].hash

\* A ClusterHealthCheck marked for deletion goes away: reconcileDelete is
\* retried until every cluster is cleaned up and the finalizer removed.
DeletionCompletes == chc.deleting ~> ~chc.exists

\* Once nobody changes anything anymore, every cluster that matches and is not
\* paused ends up with the CHC deployed and every other one with nothing (a
\* paused one is left as it is while it matches).  What is deployed is the
\* current configuration, at least where the spec never changed, or the cluster
\* is listed in it and no deployment fails: otherwise the stale result of
\* ProvisionedMeansDeployed may hide that the last deployment failed or was
\* taken back.
Converged ==
  \A c \in Clusters :
    cluster[c].present =>
      IF chc.exists /\ ~chc.deleting /\ c \in MatchingClusters
      THEN ~cluster[c].paused =>
             /\ managed[c] # 0
             /\ chc.spec = 1 \/ (c \in ClusterRefs /\ faults = 0)
                  => managed[c] = chc.spec
      ELSE managed[c] = 0

EventuallyConverges == <>[]Converged

-----------------------------------------------------------------------------
(* The abstraction: what the workers do to the managed clusters. *)

\* A worker is at work once it fetched the CHC.
Activity ==
  [c \in Clusters |->
     IF read[ToDeploy(c)] # Unread THEN [kind |-> "deploy", from |-> read[ToDeploy(c)]]
     ELSE IF read[ToCleanup(c)] # Unread THEN [kind |-> "cleanup", from |-> 0]
     ELSE [kind |-> "none", from |-> 0]]

Abstract == INSTANCE ManagedClusters
              WITH version <- chc.spec, activity <- Activity, content <- managed

\* The managed clusters see one activity at a time, each bringing the cluster
\* to the configuration it fetched or to nothing, whatever the requests,
\* results, retries, late completions and restarts behind it: "if two workers
\* process those request in parallel some resources might end up missing"
\* (clusterhealthcheck_deployer.go:352-354).
ImplementsManagedClusters == Abstract!Spec

=============================================================================
