# TLA+ verification of healthcheck-manager

healthcheck-manager is the Sveltos controller that deploys HealthChecks to the
managed clusters a ClusterHealthCheck (CHC) matches, collects the reports the
agents of those clusters write, evaluates the CHC's liveness checks and sends
its notifications.  This directory holds TLA+ modules for the parts that carry
the logic, TLC configurations that check them, and TLAPS proofs.

`PROJECT.json` maps each definition to the lines it models, and lists every
run, mutant, finding, hazard and theorem.  A run is
`tlc -workers 2 -config X.cfg M`, a proof `tlapm M.tla`.

## 1. Inventory

| Component | State it keeps | Operations | Interacts with |
|---|---|---|---|
| CHC reconcile and deployment (`clusterhealthcheck_controller.go`, `clusterhealthcheck_deployer.go`, `scope/`) | `Status.ClusterConditions` (status and hash per cluster), finalizer | Reconcile, reconcileNormal/Delete, updateClusterConditions, processClusterHealthCheck, removeClusterHealthCheck, Close | calls the Deployer; woken by watches and RequeueAfter |
| libsveltos Deployer (external) | queued, in-progress and finished requests, keyed by cluster and deploy/cleanup | Deploy, CleanupEntries, IsInProgress, GetResult, worker loop | runs the handlers `processClusterHealthCheckForCluster` and `undeployClusterHealthCheckResourcesFromCluster` |
| Liveness checks and notification policies (`liveness.go`, `notification_policy.go`, `notification.go`) | Conditions and NotificationSummaries per cluster | evaluate, evaluateNotificationPolicy, deliver, notificationRequeueAfter | part of the reconcile; reads reports and ClusterSummaries |
| Indexes and event mapping (`clusterhealthcheck_transformations.go`, `*_predicates.go`) | ClusterMap, CHCToClusterMap, HealthCheckMap, CHCToHealthCheckMap, AddonsLivenessCHC, ClusterHealthChecks, ClusterLabels, under Mux | updateMaps, cleanMaps, one MapFunc per watch | fills the workqueue |
| HealthChecks in managed clusters (`clusterhealthcheck_deployer.go` 1330-1640, `healthcheckreport.go`) | owner references of the deployed HealthChecks, or the entries of a ConfigMap | deploy, remove stale | all CHCs referencing the same HealthCheck |
| HealthCheckReport collection (`healthcheckreport_collection.go`) | copies of the reports in the management cluster | collect, copy, delete | cleanup handler, HealthCheck and Cluster controllers, sveltos-agent |
| HealthCheck, Cluster, SveltosCluster controllers | none | start the collector, delete the reports of what is gone | report collection |
| ReloaderReport (`reloaderreport_*.go`) | reports of workloads to reload | collect, trigger rolling upgrades, keep what failed, delete | workloads of managed clusters, sveltos-agent |
| Pull mode | staged bundles, agent acknowledgements | record, commit, read status | sveltos-applier |
| Sharding | cluster annotation, shard key | shard match | several managers on one CHC |
| Failure events | events of failing deployments | record | none |
| Channels and formatting | none | Slack, Webex, Discord, Teams, Telegram, SMTP, event | third-party services |
| Process setup, features, metrics | none | none | none |

What is hard here: reconciles of one CHC are serialised, but they interleave
with the Deployer's workers, with the MapFuncs, with reconciles of other CHCs
and with everybody who edits the objects they read.  Nothing the Deployer or
the indexes hold survives a restart; what a reconcile decided is persisted
only by the deferred `Close`, which may fail.  Policies are about time, the
clock is read several times per reconcile, and what is persisted is
truncated to seconds.  Events reach their MapFunc late, and a MapFunc finds
only what the indexes mention at that instant.  Objects in the managed
clusters are shared: several CHCs own one HealthCheck, and reports are written
by agents while collectors copy and others delete them.  Updates are guarded
by the resourceVersion that was read, deletes are not.

What makes each part correct:

* deployment: a cluster is never deployed to and cleaned up at once; what is
  deployed stays recorded until it is cleaned up; deletions complete; the
  clusters converge to the current configuration and never go back to an
  older one;
* HealthChecks: a CHC that is done has exactly what it should have in the
  cluster, and no CHC takes away what another one owns;
* notifications: MinInterval, FailingFor and OnlyOnTransition hold across
  failures and restarts; nothing is told twice; nothing held back is
  forgotten; what is recorded as delivered was;
* indexes: the paired maps are inverse; no CHC that is gone stays; no event
  needed to bring a CHC up to date is lost;
* reports: a report exists only while some CHC that is not being deleted wants
  it, and none survives its cluster; a shared report is kept or comes back;
* reloads: a workload to reload is listed in some report until its rolling
  upgrade was triggered, and eventually it is.

The hazards, with the line where each one bites and the properties that would
notice, are in `PROJECT.json`.

## 2. Modules

| Module | Models | Used by |
|---|---|---|
| `ClusterHealthCheckDeployer` | one CHC, its clusters, the reconcile, the Deployer and its workers | `MCDeployer`, `ClusterHealthCheckDeployerProofs` |
| `ManagedClusters` | the abstract specification the deployer implements | `ClusterHealthCheckDeployer` (INSTANCE) |
| `HealthCheckOwners` | the HealthChecks of one managed cluster and the jobs of the CHCs that share them | `MCOwners`, `HealthCheckOwnersProofs` |
| `ReportCollection` | reports in managed clusters, their copies, the collector and everybody who removes copies | `MCReports`, `ReportCollectionProofs` |
| `ReloaderReports` | reloader reports, their collector and their reconciler | `MCReloader`, `ReloaderReportsProofs` |
| `NotificationDelivery` | evaluation, policies and delivery for one CHC and one provisioned cluster | `MCNotification`, `NotificationDeliveryProofs` |
| `ReconcilerMaps` | several CHCs, the indexes, the MapFuncs | `MCMaps`, `ReconcilerMapsProofs` |

### ClusterHealthCheckDeployer

`chc` and `conditions` are the CHC and its `Status.ClusterConditions` in the
API server; `cluster` the Cluster objects (present, labels match, paused);
`managed` the configuration a managed cluster holds, 0 for none.  A
configuration hash is the version number of what it covers: the spec and the
referenced HealthChecks, both changed by `ChangeSpec`.  `pending`,
`inProgress` and `results` are the Deployer's, `read` is what a handler fetched
at its start.

A reconcile is split where the code can be overtaken: `Reconcile` (fetch,
finalizer, GetMatchingClusters, updateClusterConditions), then per entry a
*prepare* step up to `CleanupEntries` and a *decide* step from `IsInProgress`
on (`PrepareRemove`/`DecideRemove` for removeClusterHealthCheck,
`PrepareDeploy`/`DecideDeploy` for processClusterHealthCheck and
proceedProcessingClusterHealthCheck), and `Finish` (end of
reconcileNormal/Delete and `scope.Close`).  `ShardMatchFails` is the early
return when the shard of a cluster cannot be read, `ReconcileFails` the one when
the CHC, its finalizer or the matching clusters cannot be read or written, and
`CloseFails` the end of a reconcile whose Close fails.  The entries are visited
in any order.

Faults: `api` (a read or the hash computation fails), `worker` (a handler
fails, having done its work or not), `evaluation` (liveness evaluation fails,
which demotes a Provisioned entry), `close` (Close fails: nothing is
persisted), `restart`.

The Deployer is in libsveltos, outside this repository.  The model takes from
it what the callers rely on: requests keyed by (cluster, deploy/cleanup);
`CleanupEntries` drops what is queued and the stored result but never what is
being processed; `GetResult` consumes a stored result; `Deploy` is a no-op for
a request already queued; a request being processed may be queued again, and
is not taken by a second worker meanwhile.  `LateResults` says whether a worker
may store its result in the instant between `CleanupEntries` and `IsInProgress`
of a reconcile for its cluster.

### ManagedClusters

What the managed clusters may rely on: one activity at a time works on a
cluster; a deployment brings it to the version that was current when the
activity began, a cleanup empties it; both may fail before or after their
effect, and a crash ends them.  `ClusterHealthCheckDeployer` instantiates it
with `version <- chc.spec`, `content <- managed` and `activity <- Activity`,
which is a worker that has fetched the CHC (`read`).  Queued requests, results
and the status are not visible to it, so that all of a reconcile stutters.

### HealthCheckOwners

One managed cluster, several CHCs, at most one job per CHC (what the Deployer
guarantees, see above), jobs of different CHCs interleaved at every call.
`remote` holds the HealthChecks with their owners and spec, `configMap` the
entries that replace them when sveltos-agent runs in the management cluster
(`agentInMgmtCluster`, chosen once).  `seen` and `seenMap` are what a job read,
`fresh` the objects nobody wrote since: an update of anything else is refused,
a delete is not.  `young` allows for a cached read that misses a ConfigMap
created after the job started (the case `patchHealthCheckEntry` is for).
`dirty` stands for the reconciler, which asks for a job after every change and
every failure.  `raced` remembers the two races the code permits: `"deleted"`,
a HealthCheck deleted after another CHC became an owner of it
(`clusterhealthcheck_deployer.go:1435`), and `"downgraded"`, an older spec
written after a newer one.

### ReportCollection

`report` are the reports sveltos-agent keeps in the managed clusters, `mgmt`
their copies.  The collector takes its snapshot of what is wanted in
`StartCycle`, of a cluster's reports in `ListReports`, then processes them one
by one.  The CHCs are reduced to what decides about reports: what they match,
what their reconcile decided (`target`), what is persisted (`refs`, the
MatchingClusterRefs the collector reads), and the three steps of a cleanup job.
`raced` becomes TRUE when a copy is removed while a cycle under way may still
write it, or by a cleanup that is over before MatchingClusterRefs is persisted.
Clusters are collected one after the other; from fifty clusters on the code
uses a worker for every fifty of them, at most five (clustersPerWorker,
maxCollectionWorkers), which makes no difference to what happens to one report,
nor for removals of others.

### ReloaderReports

One report per cluster.  `due` records the workloads that must be reloaded;
the code does not read it.  The collector lists, gets, writes and deletes in
separate steps, the reconciler triggers the rolling upgrades one by one.
`SelfManaged` are the managed clusters that are the management cluster itself:
listing their reports also returns the ones collected from others.  `raced`
records reports discarded before anybody processed them: `"renewed"` when an
agent wrote the report after it was read, `"foreign"` when a report that names
another cluster was deleted.

### NotificationDelivery

A reconcile reads the clock three times: `EvaluateLivenessChecks`
(LastTransitionTime), `SendNotifications` (policies) and `FinishReconcile`
(notificationRequeueAfter, then Close).  `ClockRuns` says whether ticks may
happen in between.  `Truncate` is what metav1.Time does to a time on its way
to the API server.  `timer` is the delayed workqueue request, for which
client-go keeps the earlier of two times.  The message hash is represented by
the messages it is computed from.  `health`, `told`, `recorded`, `failingFrom`
and `rec.at` record what happened, for the properties; the reconciler does not
read them, apart from `health`, which is the reports' content.

### ReconcilerMaps

One action per critical section of Mux: `UpdateClusterMaps`,
`UpdateHealthCheckMaps`, `UpdateAddonsLivenessCHCMaps`, `UpdateSelector`,
`CleanMaps`; between them other reconciles and MapFuncs run.  `ForACluster`,
`ForHealthCheck` and `ForClusterSummary` are the MapFuncs.  An empty selector
selects no cluster in GetMatchingClusters, but LabelSelectorAsSelector, which
the MapFunc of a cluster uses, lets it match every cluster (`AsSelector`): such
a CHC is only reconciled in vain.  The creation of a ClusterSummary, which the
predicates filter out, is no change: without FeatureSummaries
areAddonsDeployed reads the same as without the ClusterSummary
(`liveness.go` 226-235).  The deployment
itself is reduced to `DeployAndEvaluate` and `Undeploy`: clusters already
provisioned are evaluated, and a reconcile that deploys or cleans up something
is followed by another one, which is the part of the deployer that brings
reconciles about.

External facts used (controller-runtime): an update event calls the MapFunc
for the old and for the new object, and events of one object not delivered yet
are delivered as one; listing after a restart delivers a creation event for
every object, subject to the predicates; a CHC queued while it is being
reconciled is reconciled once more.

## 3. Runs

| Run | Checks | Instance |
|---|---|---|
| `deployer_exclusion` | TypeOK, NoConcurrentDeployAndCleanup, MatchingIsListed, DeletionCompletes, ImplementsManagedClusters | one cluster, all changes (4), any fault (1), late results allowed |
| `deployer_safety` | NothingLeftBehind, EventuallyConverges | one cluster, all changes (4), one fault of kind worker, api or evaluation |
| `deployer_two_clusters` | NothingLeftBehind, EventuallyConverges | two clusters, one of them in ClusterRefs, 2 changes of spec, labels or deletion |
| `deployer_stale_result` | ProvisionedMeansDeployed | **violated**, see 4 |
| `owners_sharing` | TypeOK, NothingStale, NothingMissingUnlessRaced, NothingTakenAway, EventuallyInSync | two CHCs, two HealthChecks, agent in either place, 1 change, one fault |
| `reports_collection` | TypeOK, NoOrphanReportUnlessRaced, EventuallyCopied | two CHCs, one HealthCheck, a shared cluster and a namesake, 2 changes, one failed collection |
| `reloader_reload` | TypeOK, NothingDroppedUnlessRaced, EventuallyReloaded | two clusters, one the management cluster, two workloads, 3 changes, one fault |
| `reloader_self_managed` | NothingDroppedUnlessRenewed | **violated**, see 4 |
| `notification_policies` | TypeOK, MinIntervalRespected, FailingForRespected, NoRepeatedNotification | two checks, two policies, running clock, any fault |
| `notification_quiescence` | NothingForgotten, DeliveryRecordIsTrue | two messages, a policy and none, two faults, clock still during a reconcile |
| `notification_teams` | DeliveryRecordIsTrue | **violated** for Teams, see 4 |
| `maps_indexes` | TypeOK, IndexesAgree, NoGhosts, NoMissedReport, NoStaleCluster | two CHCs (symmetric), three specs, one with an empty selector, 4 changes, a failed read or restart |

*Bounds.*  The counters are `MaxChanges`, `MaxFaults`, `MaxTime`.  Four
changes are what a stale cleanup result needs (match, stop matching, match
again, stop matching) and the shortest counterexamples above take two to four;
runs with one cluster stand for more, since the reconcile handles the
entries of different clusters independently except for the shared requeue flag
and the finalizer, which `deployer_two_clusters` covers.  Two CHCs are enough
for every race over a shared HealthCheck or report (one that leaves, one that
stays or joins), two HealthChecks for a job that fails half-way.
`reports_collection` starts with everything deployed and copied once, so that
two changes suffice for a removal followed by what it should not have removed.
`MaxTime` is longer
than each policy interval, so that a policy holds a
notification back, expires and is evaluated again.  Durations of 2 and 3
ticks against 2 ticks a second make the truncation visible.  CHECK_DEADLOCK is
off because a manager with nothing to do, once the bounds are used up, waits;
`reloader_reload` checks it, since its collector never stops.

*Fairness* (`FairSpec`).  Weak fairness of the reconciler: controller-runtime
serves a non-empty workqueue and every RequeueAfter interval ends.  Strong
fairness of each request's worker steps: the Deployer's workers loop forever
and a request they take is carried out; strong, because `~LateResults`
disables the end of a request during the decide step of a reconcile that polls.
Users, clusters and faults have no fairness.  DeletionCompletes is checked
with all faults and late results.  EventuallyConverges is checked without
late results, with a failing worker, read or evaluation on one cluster and
without faults on two, and asks for the current version only where the stale
result of finding 1 cannot stand in the way: when the spec never changed, or
for clusters in ClusterRefs as long as no deployment fails.  In the other modules the jobs of each CHC, the collectors, the
controllers and the agents have weak fairness: each is a loop, or a workqueue
that is served, and a failed job is asked for again by the next reconcile.
Their eventual properties exclude behaviours in which `raced` recorded a race.

*What the runs do not promise.*  NothingLeftBehind is checked without `close`
and `restart`: a manager that stops between queueing a deployment and
persisting the new entry may leave a cluster deployed to without an entry if
the cluster stops matching before the next reconcile.  With these faults what
remains is MatchingIsListed: with no reconcile running or due, every cluster
that matches has an entry, so that only a cluster that stopped matching can
have been forgotten.  NoStaleCluster is stated
for executions without a fault: after a restart the indexes are empty until
the CHC is reconciled, and a cluster that stops matching between
GetMatchingClusters and updateMaps of that first reconcile is not found.
The properties whose name ends in UnlessRaced say nothing after a race; the
races themselves are in section 4.

## 4. Findings

1. *A paused cluster records a hash that was never deployed*
   (`deployer_stale_result`).  Once unpaused the result of an older job counts
   for the new hash; the cluster is Provisioned with the old configuration.
   removeClusterHealthCheck records the hash in the same way while it waits for
   a deployment.
2. *A Teams delivery that fails is recorded as Delivered*
   (`notification_teams`).
3. *A reloader report that names a cluster is deleted unprocessed*
   (`reloader_self_managed`).  updateReloaderReport skips it and returns no
   error; its caller then deletes it from the cluster it was listed from.  When
   that is the management cluster, reports of other clusters are lost.

Races the models contain and the properties leave out, each needing an unlucky
instant:

* a cleanup that ends between CleanupEntries and IsInProgress leaves a result
  that a later removal takes for its own (`LateResults = TRUE` breaks
  NothingLeftBehind);
* a policy that expires between the two clock readings of a reconcile is neither
  sent nor waited for (`ClockRuns = TRUE` breaks NothingForgotten);
* a cluster that starts matching between GetMatchingClusters and updateMaps is
  missed until something else happens to it (NoMissedCluster of
  `ReconcilerMaps`);
* the last owner deletes a HealthCheck another CHC has just joined (NothingMissing
  of `HealthCheckOwners`), and a worker that fetched a HealthCheck long ago writes
  its old spec after a newer one;
* a report copied by a cycle that had listed it before it was removed stays
  (NoOrphanReport of `ReportCollection`), and so does one copied between the end
  of a cleanup and the Close that persists MatchingClusterRefs;
* an agent that renews its ReloaderReport between the collector's List and
  Delete, or between the reconciler's Get and Delete, loses it (NothingDropped of
  `ReloaderReports`).

## 5. Proofs

`ClusterHealthCheckDeployerProofs`, from `DeployerAssumption`:

* `TypeCorrect`: `Spec => []TypeOK`;
* `MutualExclusion`: `Spec => []NoConcurrentDeployAndCleanup`, for every
  number of clusters, every bound, all faults and late results.  The property
  is not inductive: a queued request may be taken at any time, so two opposite
  requests must not be *active* (queued or in progress) at once (`Exclusive`);
  and a decide step queues one because the opposite one is not in progress, so
  it must be known not to be queued either, which is what `CleanupEntries`
  established in the prepare step (`Prepared`).  The inductive invariant is
  `IInv == TypeOK /\ Exclusive /\ Prepared`;
* `Refinement`: `Spec => ImplementsManagedClusters`.  Every action is shown to
  be a step of `ManagedClusters` or to leave its variables alone.  What it needs
  beyond IInv is `Fetched`: only a request in progress has been read (so that
  by mutual exclusion a cluster has one activity), and a cleanup has version 0;
* `ConfigurationsMoveForward`: no managed cluster goes back to an older
  configuration, from `Refinement` and `NeverOlder`;
* `NothingLeftBehindEver`: `NothingInterrupts => (Spec => []NothingLeftBehind)`,
  where `NothingInterrupts` excludes late results, failing Closes and restarts
  (with any of them the property fails, see sections 3 and 4) and allows every
  failing read, worker and evaluation.  The property speaks of the instants
  between reconciles; `LInv` follows a deployment through them.  A cluster that
  has something deployed, or a deployment queued or running (`Occupied`), has
  an entry that survives the end of the reconcile, in the status or in the
  reconcile's copy of it (`Listed`); a successful cleanup that was not read yet
  is about a cluster that is not occupied (`CleanedUp`), so that the entry it
  allows to be dropped is not needed; results of cleanups that no reconcile
  asked about are discarded before a deployment is queued (`NoStaleCleanup`);
  and a CHC keeps its finalizer until its last entry is dropped (`Held`,
  `Releasing`);
* `MatchingIsListedEver`: `Spec => []MatchingIsListed`, with every fault, failing
  Closes, restarts and late results included.  While a reconcile runs and no
  other one is due (`LastReconcile`), the clusters it found to match are the ones
  that match now, each has an entry in its copy of the status, and the entries
  it has visited stay there unless it is to be repeated (`Covering`); a Close
  that fails and a restart put the CHC back in the workqueue.

`ManagedClusters`: `NeverOlder`, `Spec => [][NotOlder]_vars`.  The invariant
`Ahead` says that the content of a cluster is never newer than what is being
deployed there, which holds because activities exclude each other.

`ReloaderReportsProofs`, from `ReloaderAssumption`:

* `TypeCorrect`: `Spec => []TypeOK`;
* `NoReloadDropped`: `Spec => []NothingDroppedUnlessRaced`, for every set of
  clusters and workloads, every fault and both places for the agent.  A step
  deletes or overwrites a report because of what was read earlier, so the
  invariant relates those readings to the reports: unless the report was renewed
  meanwhile (`renewed`, `fresh`), what the collector is about to write is what it
  listed, what it is about to delete has been copied, and what the reconciler has
  not triggered yet or failed to trigger is all that is still due (`Shape`,
  `Originals`, `Holds`).

`HealthCheckOwnersProofs`, from `OwnersAssumption`, for every set of CHCs and
HealthChecks, every failing call and restart and both places for the agent:

* `TypeCorrect`: `Spec => []TypeOK`;
* `NothingStaleEver`: `Spec => []NothingStale`.  Jobs act on what they read
  earlier, so the invariant relates those readings to the cluster: what nobody
  wrote since is what was read (`Reads`, `MapReads`), a job adds only what it
  keeps (`Adds`) and once it listed the HealthChecks it still has to leave
  whatever else its CHC owns (`Leaves`).  A CHC that is not dirty is idle with
  nothing stale, or has a job that keeps what it should have (`Intent`);
* `NothingTakenAwayEver`: `Spec => NothingTakenAway`.  What a CHC has is taken
  away only by a pruning step of its own job, and only what that job has not to
  keep.  An accepted update writes what is in the cluster plus or minus the
  writer's own part, by `Reads` and `MapReads`; what is on a pruning job's list
  is nothing it keeps, by `Adds`; every other step leaves the cluster alone;
* `NothingMissingEver`: `Spec => []NothingMissingUnlessRaced`.  Unless a
  HealthCheck was deleted after another owner joined it, a job has deployed
  whatever it keeps and has no longer on its list, and prunes nothing it keeps
  (`Holding`); so a CHC that is done has what it should have (`Complete`),
  which `NothingTakenAway` protects from the jobs of the others.

`ReconcilerMapsProofs`, from `MapsAssumption`:

* `TypeCorrect`: `Spec => []TypeOK`;
* `IndexesInverse`: `Spec => []IndexesAgree`, inductive together with TypeOK,
  since each pair of maps changes in one critical section;
* `NoGhostsEver`: `Spec => []NoGhosts`.  The strengthening `GhostInv` says that
  a CHC that is indexed, or is being put in the indexes, exists *and carries
  its finalizer*, that one about to be released is in no index, and that a
  CHC marked for deletion carries its finalizer: without them a deletion could
  overtake updateMaps;
* `NoReportMissedEver`: `Spec => []NoMissedReport`.  `ReportInv` says at every
  step of a reconcile what is already up to date.  The indexes it has updated
  say what it read (`Updated`).  Unless another reconcile is due, it works on
  the current spec, and after one that ended the indexes follow the spec and
  what was read is current or an event for it is still to be mapped
  (`Current`): an event mapped before the indexes mention the CHC comes before
  its reports are read;
* `NoClusterStaleEver`: `Spec => []NoStaleCluster`.  As long as there was no
  fault, a cluster something is deployed to is in CHCToClusterMap until the
  reconcile that will clean it up has updated ClusterMap (`Followed`), and it
  matches or the event of its change is still to be mapped (`Matched`).

`MapsAssumption` says of the constants that the labels do not include the two
values that stand for the labels of a ClusterSummary and for no event.

`ReportCollectionProofs`, from `ReportsAssumption`, for every
set of CHCs, HealthChecks and clusters, whatever they match and reference:

* `TypeCorrect`: `Spec => []TypeOK`;
* `NoOrphans`: `Spec => []NoOrphanReportUnlessRaced`.  The property is about
  states in which all removals are done, so the invariant says who is still
  going to remove: for every copy, and for every report a cycle under way may
  still copy, some CHC that references the HealthCheck has an entry for the
  cluster or, once the cluster is gone, the Cluster controller has it in its
  queue (`SomebodyCleans`); for every copy, and the one about to be written, the
  HealthCheck exists or is in the HealthCheck controller's queue
  (`HealthCheckWatched`).  `RefsInv`, that MatchingClusterRefs names no cluster
  whose entry was dropped, is what a new cycle needs.  All of this is claimed
  until `raced`.

`NotificationDeliveryProofs`, from `NotificationAssumption`, for every set of
checks, messages and notifications, every policy, clock resolution and horizon,
with or without a clock that runs during a reconcile:

* `TypeCorrect`: `Spec => []TypeOK`;
* `MinIntervalHolds`: `Spec => MinIntervalRespected`, with every fault and for
  every channel.  LastSentTime is never before the last recorded delivery
  truncated to seconds, in the status and in the copy a reconcile is about to
  persist, and a failed delivery, which is retried at once, had itself waited
  for MinInterval (`IntervalKept`);
* `FailingForHolds`, `NoRepetition`, `RecordsAreTrue`:
  `Teams = {} => (Spec => ...)` for FailingForRespected, NoRepeatedNotification
  and `[]DeliveryRecordIsTrue`, with every fault, failing Closes and restarts
  included.  Without a Teams recipient, because a Teams delivery that is lost
  is recorded as delivered (finding 2).  `SinceInv` bounds the persisted
  transition times by the first evaluation that found the failure; `ChangedInv`
  says that a reconcile noticed every difference with what is persisted;
  `SentInv` and `UnsentInv` what its summaries say of the deliveries it made
  and of the ones it did not; `RecordInv` the same of the persisted ones.
  A lost Close loses conditions and summaries together, which is why a record
  stays true;
* `NothingForgottenHolds`: `NothingIsLost => (Spec => []NothingForgotten)`,
  where `NothingIsLost` asks for no Teams recipient, a status that is persisted
  (no failing Close, no restart) and a clock that does not tick within a
  reconcile; each of these lets a notification be forgotten: a lost Teams
  delivery by finding 2, a running clock by the race of section 4, and a
  delivery whose record is lost because the recipient is not told when the
  cluster returns to the state recorded before.  Deliveries and evaluations may
  fail.  `QuietInv`: what a
  reconcile evaluated is what the reports say unless another one is queued, and
  what it does not deliver either does not differ from what was told or has a
  time to wait, which becomes the delayed request.

The hypotheses on the constants (`Teams = {}`, `NothingIsLost`,
`NothingInterrupts`) are needed: TLC finds each of these properties violated
when one of their conjuncts is dropped, in the instances of section 3.

Every invariant and every safety property of a step that a passing run checks
is stated by a theorem.  Only model-checked: what needs fairness
(DeletionCompletes, EventuallyConverges, EventuallyInSync, EventuallyCopied,
EventuallyReloaded), since liveness is out of the prover's reach, and the
violations of section 4.

## 6. Not modelled

* Pull mode: the code relays between the pullmode library and sveltos-applier,
  neither of which is in this repository; with it the heartbeat of agents and the
  non-retriable failures.
* Clusters of another shard (they are skipped), and two managers patching the
  same status.
* HealthCheckReports in agentless mode (`healthcheckreport_collection.go`
  360-481), where the collector completes in place what the agent wrote; the
  phase of reports and resetHealthCheckReportStatus, whose effect is on
  sveltos-agent.
* The identity of collected reports in a management cluster that is itself
  managed (shouldIgnore); reads from a cache that is behind, other than of the
  ConfigMap; a ReloaderReport whose cluster is gone, which fails forever.
* Detail that changes no decision a property is about: the paused annotation of
  a CHC (the branch of a paused cluster); a Close that persists only a part of
  its patch; the MapFunc calls for the old and the new object of an update,
  which are one event in `ReconcilerMaps`; the Get and the Create or Update of a
  copy in `ReportCollection`, which are one step, since a conflict is retried in
  the next cycle; in `ReloaderReports` a failing IsClusterInPullMode or
  GetKubernetesClient, after which the report is just requeued.
* Changes of a CHC's spec in `ReportCollection`: what a CHC references is
  constant there, and a cleanup removes its HealthChecks from a cluster at once,
  both of which `HealthCheckOwners` has in detail.  A job of `HealthCheckOwners`
  decides what to do when it starts, whereas the code's reconcile decided
  earlier: a change in between makes the CHC `dirty`, and another job follows.
* Content of messages, channels other than their error behaviour, failure
  events, logging, metrics, feature gates, process setup.
* A cluster deleted and created again under the same name.

## 7. Open work

* Theorems: with failing Closes and restarts MatchingIsListed says that the
  clusters that match are listed, and nothing of the ones that stopped matching
  after a Close that did succeed; NoOrphanReportUnlessRaced says nothing of later reports once one
  was raced, a `raced` per report would.
* Several managers with sharded clusters; clusters created again.
