------------------- MODULE ClusterHealthCheckDeployerProofs -------------------
(***************************************************************************)
(* For every set of clusters and every mix of changes and faults, restarts *)
(* and worker completions at any instant included, a deployment and a      *)
(* cleanup of the same cluster are never processed at the same time.       *)
(*                                                                         *)
(* NoConcurrentDeployAndCleanup speaks of requests in progress only and is *)
(* not inductive: a worker could take a queued request while the opposite  *)
(* one runs.  Exclusive extends it to queued requests, and Prepared says   *)
(* what CleanupEntries established for the "decide" step that follows it.  *)
(*                                                                         *)
(* When every worker's result is read by the manager that asked for it, a  *)
(* ClusterHealthCheck that is gone has left nothing behind either: LInv    *)
(* follows a deployment from the entry that announces it in the status to  *)
(* the cleanup whose result allows that entry to be dropped.               *)
(*                                                                         *)
(* With failing saves and restarts an entry may be lost for a while; MInv  *)
(* says that the last reconcile due has one for every cluster that matches *)
(* and keeps it.                                                           *)
(***************************************************************************)
EXTENDS ClusterHealthCheckDeployer, TLAPS

Active(r) == r \in pending \/ r \in inProgress

\* Deploy and cleanup requests for a cluster are not even queued together.
Exclusive == \A c \in Clusters : ~(Active(ToDeploy(c)) /\ Active(ToCleanup(c)))

\* Between CleanupEntries and IsInProgress the opposite request is not queued.
Prepared ==
  rec.pc = "decide" =>
    \A c \in rec.current :
      IF ToBeRemoved(c) THEN ToDeploy(c) \notin pending
                        ELSE ToCleanup(c) \notin pending

IInv == TypeOK /\ Exclusive /\ Prepared

\* The initial states satisfy the type invariant.
LEMMA TypeInit == Init => TypeOK
<1> SUFFICES ASSUME Init PROVE TypeOK
  OBVIOUS
<1>1. chc \in [exists : BOOLEAN, deleting : BOOLEAN, finalizer : BOOLEAN, spec : Versions]
  BY DEF Init, Versions
<1>2. NoEntry \in ClusterInfo
  BY DEF NoEntry, ClusterInfo, Statuses, Versions
<1>3. conditions \in [Clusters -> ClusterInfo] /\ local \in [Clusters -> ClusterInfo]
  BY <1>2 DEF Init
<1>4. rec \in RecType
  BY DEF Init, Idle, RecType, Versions
<1>5. cluster \in [Clusters -> [present : BOOLEAN, labelled : BOOLEAN, paused : BOOLEAN]]
  BY DEF Init
<1>6. managed \in [Clusters -> Versions] /\ workqueue \in BOOLEAN
  BY DEF Init, Versions
<1>7. /\ pending \subseteq Requests /\ inProgress \subseteq Requests
      /\ results \in [Requests -> {"none", "ok", "failed"}]
      /\ read \in [Requests -> Versions \cup {Unread}]
  BY DEF Init
<1>8. changes \in 0 .. MaxChanges /\ faults \in 0 .. MaxFaults
  BY DeployerAssumption DEF Init
<1> QED
  BY <1>1, <1>3, <1>4, <1>5, <1>6, <1>7, <1>8 DEF TypeOK

\* EntryDone stores a well-formed entry in the local copy.
LEMMA EntryDoneType ==
  ASSUME TypeOK, NEW c \in Clusters, NEW info \in ClusterInfo, NEW q \in BOOLEAN,
         EntryDone(c, info, q)
  PROVE  rec' \in RecType /\ local' \in [Clusters -> ClusterInfo]
  BY DEF TypeOK, EntryDone, RecType

\* EntryPrepared keeps the reconcile and its local copy well formed.
LEMMA EntryPreparedType ==
  ASSUME TypeOK, NEW c \in Clusters, EntryPrepared(c)
  PROVE  rec' \in RecType /\ local' \in [Clusters -> ClusterInfo]
  BY DEF TypeOK, EntryPrepared, RecType

\* An entry built from a known status and a version is well formed.
LEMMA InfoType ==
  ASSUME NEW s \in Statuses, NEW h \in Versions
  PROVE  Info(s, h) \in ClusterInfo
  BY DEF Info, ClusterInfo

\* Every step preserves the type invariant.
LEMMA TypeNext ==
  ASSUME TypeOK, [Next]_vars
  PROVE  TypeOK'
<1> USE DEF TypeOK
<1>0. /\ \A s \in Statuses, h \in Versions : Info(s, h) \in ClusterInfo
      /\ \A c \in Clusters : ToDeploy(c) \in Requests /\ ToCleanup(c) \in Requests
  BY InfoType DEF ToDeploy, ToCleanup, Requests
<1>f. ASSUME NEW k, Fault(k) PROVE faults' \in 0 .. MaxFaults
  BY <1>f, DeployerAssumption DEF Fault
<1>g. ASSUME NEW k, Change(k)
      PROVE  changes' \in 0 .. MaxChanges /\ workqueue' \in BOOLEAN
  BY <1>g, DeployerAssumption DEF Change
<1>h. NoEntry \in ClusterInfo /\ Idle \in RecType
  BY DEF NoEntry, ClusterInfo, Statuses, Versions, Idle, RecType
<1>e. ASSUME NEW c \in Clusters
      PROVE  EntryHash(c) \in Versions /\ HashFailed(c) \subseteq ClusterInfo
             /\ local[c] \in ClusterInfo
  BY DEF EntryHash, HashFailed, RecType, ClusterInfo
<1>1. CASE Reconcile
  <2>1. ASSUME NEW m \in SUBSET Clusters
        PROVE  WithNewEntries(m) \in [Clusters -> ClusterInfo]
    BY <1>0 DEF WithNewEntries, Statuses, Versions
  <2>2. MatchingClusters \subseteq Clusters
    BY DeployerAssumption DEF MatchingClusters
  <2>3. local' \in [Clusters -> ClusterInfo]
    BY <1>1, <2>1, <2>2 DEF Reconcile
  <2>4. rec' \in RecType
    <3>1. ASSUME NEW t \in SUBSET Clusters, NEW m \in SUBSET Clusters
          PROVE  [Idle EXCEPT !.pc = "prepare", !.todo = t, !.matching = m,
                              !.spec = chc.spec, !.deleting = chc.deleting] \in RecType
      BY <1>h DEF RecType
    <3>2. (IF chc.deleting THEN {} ELSE MatchingClusters) \in SUBSET Clusters
      BY <2>2
    <3>3. CASE chc.exists
      <4> DEFINE m == IF chc.deleting THEN {} ELSE MatchingClusters
                 t == {c \in Clusters : HasEntry(WithNewEntries(m), c)}
      <4>1. rec' = [Idle EXCEPT !.pc = "prepare", !.todo = t, !.matching = m,
                                !.spec = chc.spec, !.deleting = chc.deleting]
        BY <1>1, <3>3 DEF Reconcile
      <4>2. t \in SUBSET Clusters /\ m \in SUBSET Clusters
        BY <3>2
      <4> HIDE DEF t, m
      <4> QED
        BY <3>1, <4>1, <4>2
    <3>4. CASE ~chc.exists
      BY <1>1, <3>4 DEF Reconcile
    <3> QED
      BY <3>3, <3>4
  <2>5. chc' \in [exists : BOOLEAN, deleting : BOOLEAN, finalizer : BOOLEAN, spec : Versions]
    BY <1>1 DEF Reconcile
  <2> QED
    BY <1>1, <2>3, <2>4, <2>5 DEF Reconcile
<1>0f. CASE ReconcileFails
  BY <1>0f, <1>f DEF ReconcileFails, deployer
<1>2. ASSUME NEW c \in Clusters, PrepareRemove(c) PROVE TypeOK'
  <2>1. rec' \in RecType /\ local' \in [Clusters -> ClusterInfo]
    BY <1>2, <1>0, <1>e, EntryDoneType, EntryPreparedType DEF PrepareRemove, Statuses
  <2>2. pending' \subseteq Requests /\ results' \in [Requests -> {"none", "ok", "failed"}]
    BY <1>2, <1>0 DEF PrepareRemove, CleanupEntries
  <2>3. faults' \in 0 .. MaxFaults
    BY <1>2, <1>f DEF PrepareRemove, NoFault
  <2> QED
    BY <1>2, <2>1, <2>2, <2>3 DEF PrepareRemove, api
<1>3. ASSUME NEW c \in Clusters, DecideRemove(c) PROVE TypeOK'
  <2>1. rec' \in RecType /\ local' \in [Clusters -> ClusterInfo]
    BY <1>3, <1>0, <1>e, EntryDoneType DEF DecideRemove, Statuses
  <2>2. pending' \subseteq Requests /\ results' \in [Requests -> {"none", "ok", "failed"}]
    BY <1>3, <1>0 DEF DecideRemove, ConsumeResult
  <2> QED
    BY <1>3, <2>1, <2>2 DEF DecideRemove, api
<1>4. ASSUME NEW c \in Clusters, PrepareDeploy(c) PROVE TypeOK'
  <2>0. rec.spec \in Versions
    BY DEF RecType
  <2>1. rec' \in RecType /\ local' \in [Clusters -> ClusterInfo]
    BY <1>4, <1>0, <1>e, <2>0, EntryDoneType, EntryPreparedType DEF PrepareDeploy, Statuses
  <2>2. pending' \subseteq Requests /\ results' \in [Requests -> {"none", "ok", "failed"}]
    BY <1>4, <1>0 DEF PrepareDeploy, CleanupEntries
  <2>3. faults' \in 0 .. MaxFaults
    BY <1>4, <1>f DEF PrepareDeploy, NoFault
  <2> QED
    BY <1>4, <2>1, <2>2, <2>3 DEF PrepareDeploy, api
<1>5. ASSUME NEW c \in Clusters, DecideDeploy(c) PROVE TypeOK'
  <2>0. rec.spec \in Versions
    BY DEF RecType
  <2>r. LET result == GetResult(ToDeploy(c))
        IN  result # "unavailable" => ConvertResultStatus(result) \in Statuses
    BY <1>0 DEF GetResult, ConvertResultStatus, Statuses
  <2>1. rec' \in RecType /\ local' \in [Clusters -> ClusterInfo]
    BY <1>5, <1>0, <1>e, <2>0, <2>r, EntryDoneType DEF DecideDeploy, Statuses
  <2>2. pending' \subseteq Requests /\ results' \in [Requests -> {"none", "ok", "failed"}]
    BY <1>5, <1>0 DEF DecideDeploy, ConsumeResult, Deploy
  <2> QED
    BY <1>5, <1>f, <2>1, <2>2 DEF DecideDeploy, NoFault, api
<1>6. ASSUME NEW c \in Clusters, ShardMatchFails(c) PROVE TypeOK'
  BY <1>6, <1>f DEF ShardMatchFails, api, deployer, RecType
<1>7. CASE Finish
  <2>1. ASSUME NEW conds \in [Clusters -> ClusterInfo], NEW S
        PROVE  /\ DropRemoved(conds) \in [Clusters -> ClusterInfo]
               /\ Demote(conds, S) \in [Clusters -> ClusterInfo]
    BY <1>h DEF DropRemoved, Demote, ClusterInfo, Statuses
  <2>2. ASSUME NEW conds \in [Clusters -> ClusterInfo], NEW q \in BOOLEAN, FinishWith(conds, q)
        PROVE  /\ chc' \in [exists : BOOLEAN, deleting : BOOLEAN, finalizer : BOOLEAN, spec : Versions]
               /\ conditions' \in [Clusters -> ClusterInfo]
               /\ workqueue' \in BOOLEAN
    BY <2>2, <1>h DEF FinishWith
  <2>3. /\ chc' \in [exists : BOOLEAN, deleting : BOOLEAN, finalizer : BOOLEAN, spec : Versions]
        /\ conditions' \in [Clusters -> ClusterInfo]
        /\ workqueue' \in BOOLEAN
        /\ faults' \in 0 .. MaxFaults
    <3>1. rec.requeue \in BOOLEAN
      BY DEF RecType
    <3>2. (IF rec.aborted THEN local ELSE DropRemoved(local)) \in [Clusters -> ClusterInfo]
      BY <2>1
    <3> QED
      BY <1>7, <1>f, <2>1, <2>2, <3>1, <3>2 DEF Finish, CloseFails, NoFault
  <2> QED
    BY <1>7, <1>h, <2>3 DEF Finish, deployer
<1>8. ASSUME NEW r \in Requests, Take(r) PROVE TypeOK'
  BY <1>8 DEF Take, api
<1>s. ASSUME NEW r \in Requests, NEW x \in {"ok", "failed"}, StoreResult(r, x)
      PROVE  /\ results' \in [Requests -> {"none", "ok", "failed"}]
             /\ inProgress' \subseteq Requests
             /\ read' \in [Requests -> Versions \cup {Unread}]
  BY <1>s DEF StoreResult
<1>9. ASSUME NEW r \in Requests, Fetch(r) PROVE TypeOK'
  BY <1>9, <1>s DEF Fetch, api, Versions
<1>10. ASSUME NEW r \in Requests, Apply(r) PROVE TypeOK'
  <2>1. r[1] \in Clusters /\ read[r] \in Versions /\ managed[r[1]] \in Versions
    BY <1>10 DEF Requests, Apply
  <2>2. managed' \in [Clusters -> Versions] /\ faults' \in 0 .. MaxFaults
    BY <1>10, <2>1, <1>f DEF Apply, NoFault
  <2> QED
    BY <1>10, <1>s, <2>2 DEF Apply
<1>11. CASE ChangeSpec
  BY <1>11, <1>g DEF ChangeSpec, deployer, Versions
<1>12. CASE DeleteCHC
  BY <1>12, <1>g DEF DeleteCHC, deployer
<1>13. ASSUME NEW c \in Clusters, ChangeLabels(c) PROVE TypeOK'
  BY <1>13, <1>g DEF ChangeLabels, deployer
<1>14. ASSUME NEW c \in Clusters, TogglePaused(c) PROVE TypeOK'
  BY <1>14, <1>g DEF TogglePaused, deployer
<1>15. ASSUME NEW c \in Clusters, ClusterGone(c) PROVE TypeOK'
  BY <1>15, <1>g DEF ClusterGone, deployer, Versions
<1>16. CASE Restart
  BY <1>16, <1>f, <1>h DEF Restart, api
<1>17. CASE UNCHANGED vars
  BY <1>17 DEF vars
<1> QED
  BY <1>0f, <1>1, <1>2, <1>3, <1>4, <1>5, <1>6, <1>7, <1>8, <1>9, <1>10, <1>11, <1>12,
     <1>13, <1>14, <1>15, <1>16, <1>17 DEF Next, ReconcilerStep, WorkerStep

\* THEOREM: the specification keeps its state well formed.
THEOREM TypeCorrect == Spec => []TypeOK
<1>1. Init => TypeOK
  BY TypeInit
<1>2. TypeOK /\ [Next]_vars => TypeOK'
  BY TypeNext
<1> QED
  BY <1>1, <1>2, PTL DEF Spec

\* Completing an entry ends the "decide" step it belongs to.
LEMMA EntryDonePrepared ==
  ASSUME TypeOK, NEW c, NEW info, NEW q, EntryDone(c, info, q)
  PROVE  Prepared'
  BY DEF TypeOK, RecType, EntryDone, Prepared

\* A step that queues nothing and leaves the reconcile alone keeps Prepared.
LEMMA SamePrepared ==
  ASSUME Prepared, pending' \subseteq pending, rec' = rec
  PROVE  Prepared'
  BY DEF Prepared, ToBeRemoved

\* A step after which no request is active that was not active before.
LEMMA FewerExclusive ==
  ASSUME Exclusive, pending' \cup inProgress' \subseteq pending \cup inProgress
  PROVE  Exclusive'
  BY DEF Exclusive, Active

\* Every step keeps deploy and cleanup requests of a cluster apart.
LEMMA ExclusiveNext ==
  ASSUME IInv, [Next]_vars
  PROVE  Exclusive' /\ Prepared'
<1> USE DEF IInv
<1>d. \A c, d \in Clusters : ToDeploy(c) # ToCleanup(d)
                             /\ (ToCleanup(c) = ToCleanup(d) => c = d)
                             /\ (ToDeploy(c) = ToDeploy(d) => c = d)
  BY DEF ToDeploy, ToCleanup
<1>1. CASE Reconcile
  <2>1. Prepared'
    BY <1>1, SamePrepared DEF Reconcile, Idle, Prepared
  <2> QED
    BY <1>1, <2>1, FewerExclusive DEF Reconcile
<1>0f. CASE ReconcileFails
  BY <1>0f, FewerExclusive, SamePrepared DEF ReconcileFails, deployer
<1>2. ASSUME NEW c \in Clusters, PrepareRemove(c) PROVE Exclusive' /\ Prepared'
  <2>1. pending' \subseteq pending /\ inProgress' = inProgress
    BY <1>2 DEF PrepareRemove, CleanupEntries
  <2>2. CASE EntryPrepared(c) /\ CleanupEntries(ToDeploy(c))
    <3>1. rec'.current = {c} /\ ToDeploy(c) \notin pending' /\ ToBeRemoved(c)'
      BY <1>2, <2>2 DEF PrepareRemove, EntryPrepared, CleanupEntries, ToBeRemoved, TypeOK, RecType
    <3> QED
      BY <2>1, <3>1, FewerExclusive DEF Prepared
  <2>3. CASE \E info, q : EntryDone(c, info, q)
    BY <2>1, <2>3, FewerExclusive, EntryDonePrepared
  <2> QED
    BY <1>2, <2>2, <2>3 DEF PrepareRemove
<1>3. ASSUME NEW c \in Clusters, DecideRemove(c) PROVE Exclusive' /\ Prepared'
  <2>1. Prepared'
    BY <1>3, EntryDonePrepared DEF DecideRemove
  <2>2. CASE pending' = pending
    BY <1>3, <2>1, <2>2, FewerExclusive DEF DecideRemove
  <2>3. CASE pending' # pending
    <3>1. pending' = pending \cup {ToCleanup(c)} /\ inProgress' = inProgress
          /\ ToDeploy(c) \notin inProgress
      BY <1>3, <2>3 DEF DecideRemove, ConsumeResult
    <3>2. ToDeploy(c) \notin pending
      BY <1>3 DEF DecideRemove, Prepared
    <3> QED
      BY <1>d, <2>1, <3>1, <3>2 DEF Exclusive, Active
  <2> QED
    BY <2>2, <2>3
<1>4. ASSUME NEW c \in Clusters, PrepareDeploy(c) PROVE Exclusive' /\ Prepared'
  <2>1. pending' \subseteq pending /\ inProgress' = inProgress
    BY <1>4 DEF PrepareDeploy, CleanupEntries
  <2>2. CASE EntryPrepared(c) /\ CleanupEntries(ToCleanup(c))
    <3>1. rec'.current = {c} /\ ToCleanup(c) \notin pending' /\ ~ToBeRemoved(c)'
      BY <1>4, <2>2 DEF PrepareDeploy, EntryPrepared, CleanupEntries, ToBeRemoved, TypeOK, RecType
    <3> QED
      BY <2>1, <3>1, FewerExclusive DEF Prepared
  <2>3. CASE \E info, q : EntryDone(c, info, q)
    BY <2>1, <2>3, FewerExclusive, EntryDonePrepared
  <2> QED
    BY <1>4, <2>2, <2>3 DEF PrepareDeploy
<1>5. ASSUME NEW c \in Clusters, DecideDeploy(c) PROVE Exclusive' /\ Prepared'
  <2>1. Prepared'
    BY <1>5, EntryDonePrepared DEF DecideDeploy
  <2>2. CASE pending' = pending
    BY <1>5, <2>1, <2>2, FewerExclusive DEF DecideDeploy
  <2>3. CASE pending' # pending
    <3>1. pending' = pending \cup {ToDeploy(c)} /\ inProgress' = inProgress
          /\ ToCleanup(c) \notin inProgress
      BY <1>5, <2>3 DEF DecideDeploy, ConsumeResult, Deploy
    <3>2. ToCleanup(c) \notin pending
      BY <1>5 DEF DecideDeploy, Prepared
    <3> QED
      BY <1>d, <2>1, <3>1, <3>2 DEF Exclusive, Active
  <2> QED
    BY <2>2, <2>3
<1>6. ASSUME NEW c \in Clusters, ShardMatchFails(c) PROVE Exclusive' /\ Prepared'
  BY <1>6, FewerExclusive DEF ShardMatchFails, deployer, Prepared, TypeOK, RecType
<1>7. CASE Finish
  BY <1>7, FewerExclusive DEF Finish, deployer, Prepared, Idle
<1>8. ASSUME NEW r \in Requests, Take(r) PROVE Exclusive' /\ Prepared'
  BY <1>8, FewerExclusive, SamePrepared DEF Take
<1>9. ASSUME NEW r \in Requests, Fetch(r) PROVE Exclusive' /\ Prepared'
  BY <1>9, FewerExclusive, SamePrepared DEF Fetch, StoreResult
<1>10. ASSUME NEW r \in Requests, Apply(r) PROVE Exclusive' /\ Prepared'
  BY <1>10, FewerExclusive, SamePrepared DEF Apply, StoreResult
<1>11. CASE ChangeSpec \/ DeleteCHC
            \/ \E c \in Clusters : ChangeLabels(c) \/ TogglePaused(c) \/ ClusterGone(c)
  <2>1. pending' = pending /\ inProgress' = inProgress /\ rec' = rec
    BY <1>11 DEF ChangeSpec, DeleteCHC, ChangeLabels, TogglePaused, ClusterGone, deployer
  <2> QED
    BY <2>1, FewerExclusive, SamePrepared
<1>12. CASE Restart
  BY <1>12, FewerExclusive DEF Restart, Prepared, Idle
<1>13. CASE UNCHANGED vars
  BY <1>13, FewerExclusive, SamePrepared DEF vars
<1> QED
  BY <1>0f, <1>1, <1>2, <1>3, <1>4, <1>5, <1>6, <1>7, <1>8, <1>9, <1>10, <1>11, <1>12,
     <1>13 DEF Next, ReconcilerStep, WorkerStep

\* THEOREM: whatever the interleaving of reconciles, workers, changes, faults
\* and restarts, no cluster is deployed to and cleaned up at the same time.
THEOREM MutualExclusion == Spec => []NoConcurrentDeployAndCleanup
<1>1. Init => IInv
  <2>1. Init => Exclusive /\ Prepared
    BY DEF Init, Exclusive, Active, Prepared, Idle
  <2> QED
    BY <2>1, TypeInit DEF IInv
<1>2. IInv /\ [Next]_vars => IInv'
  BY TypeNext, ExclusiveNext DEF IInv
<1>3. IInv => NoConcurrentDeployAndCleanup
  BY DEF IInv, Exclusive, Active, NoConcurrentDeployAndCleanup
<1> QED
  BY <1>1, <1>2, <1>3, PTL DEF Spec

-----------------------------------------------------------------------------
(* The refinement: only workers that fetched the CHC act on the managed      *)
(* clusters, and those are in progress, hence exclusive.                     *)

\* Only a request in progress has fetched anything; a cleanup fetches 0.
Fetched ==
  /\ \A r \in Requests : read[r] # Unread => r \in inProgress
  /\ \A c \in Clusters : read[ToCleanup(c)] \in {0, Unread}

RInv == IInv /\ Fetched

\* The steps of the reconciler touch neither the workers nor the clusters.
LEMMA ReconcilerLeavesWorkers ==
  ASSUME TypeOK, ReconcilerStep
  PROVE  UNCHANGED <<managed, inProgress, read>> /\ chc'.spec = chc.spec
<1>1. CASE Reconcile
  BY <1>1 DEF Reconcile, TypeOK
<1>2. CASE \E c \in Clusters : PrepareRemove(c) \/ PrepareDeploy(c)
  BY <1>2 DEF PrepareRemove, PrepareDeploy, api
<1>3. CASE \E c \in Clusters : DecideRemove(c) \/ DecideDeploy(c)
  BY <1>3 DEF DecideRemove, DecideDeploy, api
<1>4. CASE \E c \in Clusters : ShardMatchFails(c)
  BY <1>4 DEF ShardMatchFails, api, deployer
<1>5. CASE Finish
  BY <1>5 DEF Finish, FinishWith, CloseFails, deployer, TypeOK
<1>6. CASE ReconcileFails
  BY <1>6 DEF ReconcileFails, deployer, TypeOK
<1> QED
  BY <1>1, <1>2, <1>3, <1>4, <1>5, <1>6 DEF ReconcilerStep

\* Every step keeps Fetched.
LEMMA FetchedNext ==
  ASSUME RInv, [Next]_vars
  PROVE  Fetched'
<1> USE DEF RInv, IInv, Fetched
<1>0. \A c \in Clusters : ToCleanup(c) \in Requests /\ ToCleanup(c)[2] = TRUE
  BY DEF ToCleanup, Requests
<1>1. CASE UNCHANGED <<inProgress, read>>
  BY <1>1
<1>2. ASSUME NEW r \in Requests, Take(r) PROVE Fetched'
  BY <1>2 DEF Take
<1>3. ASSUME NEW r \in Requests, NEW x, StoreResult(r, x) PROVE Fetched'
  BY <1>3, <1>0 DEF StoreResult, TypeOK
<1>4. ASSUME NEW r \in Requests, Fetch(r) PROVE Fetched'
  <2>1. CASE chc.exists /\ (r[2] \/ ~chc.deleting)
    BY <1>4, <1>0, <2>1 DEF Fetch, TypeOK
  <2>2. CASE ~(chc.exists /\ (r[2] \/ ~chc.deleting))
    BY <1>4, <1>3, <2>2 DEF Fetch
  <2> QED
    BY <2>1, <2>2
<1>5. ASSUME NEW r \in Requests, Apply(r) PROVE Fetched'
  BY <1>3, <1>5 DEF Apply
<1>6. CASE Restart
  BY <1>6, <1>0 DEF Restart
<1>7. CASE ChangeSpec \/ DeleteCHC
           \/ \E c \in Clusters : ChangeLabels(c) \/ TogglePaused(c) \/ ClusterGone(c)
  BY <1>1, <1>7 DEF ChangeSpec, DeleteCHC, ChangeLabels, TogglePaused, ClusterGone, deployer
<1>8. CASE ReconcilerStep
  BY <1>1, <1>8, ReconcilerLeavesWorkers
<1>9. CASE UNCHANGED vars
  BY <1>1, <1>9 DEF vars
<1> QED
  BY <1>2, <1>4, <1>5, <1>6, <1>7, <1>8, <1>9 DEF Next, WorkerStep

\* Every step is a step of ManagedClusters, or leaves its variables alone.
LEMMA StepRefines ==
  ASSUME RInv, RInv', [Next]_vars
  PROVE  [Abstract!Next]_Abstract!vars
<1> USE DEF RInv, IInv, Fetched
<1>0. /\ \A c \in Clusters : ToCleanup(c) \in Requests /\ ToDeploy(c) \in Requests
      /\ \A c \in Clusters : ~(read[ToDeploy(c)] # Unread /\ read[ToCleanup(c)] # Unread)
  BY DEF ToCleanup, ToDeploy, Requests, Exclusive, Active
<1>r. ASSUME NEW r \in Requests
      PROVE  r[1] \in Clusters /\ (r = ToDeploy(r[1]) \/ r = ToCleanup(r[1]))
  <2>1. PICK c \in Clusters, b \in BOOLEAN : r = <<c, b>>
    BY DEF Requests
  <2>2. r[1] = c /\ (b = TRUE \/ b = FALSE)
    BY <2>1
  <2> QED
    BY <2>1, <2>2 DEF ToDeploy, ToCleanup
<1>d. ASSUME NEW c \in Clusters, NEW d \in Clusters
      PROVE  /\ ToDeploy(c) # ToCleanup(d)
             /\ (ToCleanup(c) = ToCleanup(d) => c = d)
             /\ (ToDeploy(c) = ToDeploy(d) => c = d)
             /\ ToDeploy(c)[2] = FALSE /\ ToCleanup(c)[2] = TRUE
  BY DEF ToDeploy, ToCleanup
<1>p. ASSUME NEW c \in Clusters PROVE ToDeploy(c)[1] = c /\ ToCleanup(c)[1] = c
  BY DEF ToDeploy, ToCleanup
<1>1. CASE read' = read /\ managed' = managed /\ chc'.spec = chc.spec
  BY <1>1 DEF Abstract!vars, Activity
<1>e. ASSUME NEW r \in Requests, NEW x, StoreResult(r, x), chc' = chc,
             read[r] # Unread, NEW v \in {managed[r[1]], read[r]},
             managed' = [managed EXCEPT ![r[1]] = v]
      PROVE  Abstract!End(r[1])
  <2> DEFINE c == r[1]
  <2>1. c \in Clusters /\ (r = ToDeploy(c) \/ r = ToCleanup(c))
    BY <1>r
  <2>2. Activity[c].kind # "none" /\ Activity[c].from = read[r]
    BY <1>0, <1>e, <2>1 DEF Activity, TypeOK
  <2>3. Activity' = [Activity EXCEPT ![c] = [kind |-> "none", from |-> 0]]
    <3>1. read' = [read EXCEPT ![r] = Unread]
      BY <1>e DEF StoreResult
    <3>2. read'[ToDeploy(c)] = Unread /\ read'[ToCleanup(c)] = Unread
      BY <1>0, <1>d, <1>e, <2>1, <3>1 DEF TypeOK
    <3>3. ASSUME NEW d \in Clusters, d # c
          PROVE  /\ read'[ToDeploy(d)] = read[ToDeploy(d)]
                 /\ read'[ToCleanup(d)] = read[ToCleanup(d)]
      <4>1. ToDeploy(d) # r /\ ToCleanup(d) # r
        BY <1>p, <3>3
      <4> QED
        BY <1>0, <3>1, <4>1 DEF TypeOK
    <3> HIDE DEF c
    <3> QED
      BY <2>1, <3>2, <3>3 DEF Activity
  <2>4. Activity[c] # Abstract!Nothing
    BY <2>2 DEF Abstract!Nothing
  <2>5. v \in {managed[c], Activity[c].from}
    BY <1>e, <2>2
  <2> QED
    BY <1>e, <2>3, <2>4, <2>5 DEF Abstract!End, Abstract!Nothing
<1>2. ASSUME NEW r \in Requests, Take(r) PROVE [Abstract!Next]_Abstract!vars
  BY <1>1, <1>2 DEF Take, api
<1>3. ASSUME NEW r \in Requests, Fetch(r) PROVE [Abstract!Next]_Abstract!vars
  <2> DEFINE c == r[1]
  <2>1. c \in Clusters /\ (r = ToDeploy(c) \/ r = ToCleanup(c))
    BY <1>r
  <2>2. CASE chc.exists /\ (r[2] \/ ~chc.deleting)
    <3>1. read' = [read EXCEPT ![r] = IF r[2] THEN 0 ELSE chc.spec]
          /\ managed' = managed /\ chc' = chc /\ r \in inProgress /\ read[r] = Unread
      BY <1>3, <2>2 DEF Fetch, api
    <3>2. read[ToDeploy(c)] = Unread /\ read[ToCleanup(c)] = Unread
      BY <1>0, <2>1, <3>1 DEF Exclusive, Active
    <3>3. Activity[c] = [kind |-> "none", from |-> 0]
      BY <2>1, <3>2 DEF Activity
    <3>4. chc.spec # Unread /\ 0 # Unread
      BY DEF TypeOK, Versions, Unread
    <3>5. \/ Activity' = [Activity EXCEPT ![c] = [kind |-> "deploy", from |-> chc.spec]]
          \/ Activity' = [Activity EXCEPT ![c] = [kind |-> "cleanup", from |-> 0]]
      <4>1. ASSUME NEW d \in Clusters, d # c
            PROVE  /\ read'[ToDeploy(d)] = read[ToDeploy(d)]
                   /\ read'[ToCleanup(d)] = read[ToCleanup(d)]
        <5>1. ToDeploy(d) # r /\ ToCleanup(d) # r
          BY <1>p, <4>1
        <5> QED
          BY <1>0, <3>1, <5>1 DEF TypeOK
      <4>2. CASE r = ToDeploy(c)
        <5>1. read'[ToDeploy(c)] = chc.spec
          BY <1>0, <1>d, <2>1, <3>1, <4>2 DEF TypeOK
        <5> HIDE DEF c
        <5> QED
          BY <2>1, <3>4, <4>1, <5>1 DEF Activity
      <4>3. CASE r = ToCleanup(c)
        <5>1. read'[ToDeploy(c)] = Unread /\ read'[ToCleanup(c)] = 0
          BY <1>0, <1>d, <2>1, <3>1, <3>2, <4>3 DEF TypeOK
        <5> HIDE DEF c
        <5> QED
          BY <2>1, <3>4, <4>1, <5>1 DEF Activity
      <4> QED
        BY <2>1, <4>2, <4>3
    <3>6. Abstract!Begin(c)
      BY <3>1, <3>3, <3>5
      DEF Abstract!Begin, Abstract!Nothing, Abstract!Deploying, Abstract!Cleaning
    <3> QED
      BY <2>1, <3>6 DEF Abstract!Next
  <2>3. CASE ~(chc.exists /\ (r[2] \/ ~chc.deleting))
    <3>1. read' = read
      BY <1>3, <2>3 DEF Fetch, StoreResult, TypeOK
    <3> QED
      BY <1>1, <1>3, <3>1 DEF Fetch, api
  <2> QED
    BY <2>2, <2>3
<1>4. ASSUME NEW r \in Requests, Apply(r) PROVE [Abstract!Next]_Abstract!vars
  <2>1. r[1] \in Clusters /\ managed = [managed EXCEPT ![r[1]] = managed[r[1]]]
    BY <1>r DEF TypeOK
  <2>2. PICK x \in {"ok", "failed"}, v \in {managed[r[1]], read[r]} :
          StoreResult(r, x) /\ managed' = [managed EXCEPT ![r[1]] = v]
    BY <1>4, <2>1 DEF Apply
  <2>3. Abstract!End(r[1])
    BY <1>4, <1>e, <2>2 DEF Apply
  <2> QED
    BY <2>1, <2>3 DEF Abstract!Next
<1>5. CASE Restart
  <2>1. Activity' = [c \in Clusters |-> [kind |-> "none", from |-> 0]]
    BY <1>0, <1>5 DEF Restart, Activity
  <2> QED
    BY <1>5, <2>1 DEF Restart, api, Abstract!Next, Abstract!Crash, Abstract!Nothing
<1>6. CASE ChangeSpec
  <2>1. chc'.spec = chc.spec + 1 /\ chc.spec \in Nat
    BY <1>6 DEF ChangeSpec, TypeOK, Versions
  <2>2. Activity' = Activity /\ managed' = managed
    BY <1>6 DEF ChangeSpec, deployer, Activity
  <2> QED
    BY <2>1, <2>2 DEF Abstract!Next, Abstract!Publish
<1>7. CASE DeleteCHC \/ \E c \in Clusters : ChangeLabels(c) \/ TogglePaused(c)
  <2>1. chc'.spec = chc.spec
    BY <1>7 DEF DeleteCHC, ChangeLabels, TogglePaused, TypeOK
  <2> QED
    BY <1>1, <1>7, <2>1 DEF DeleteCHC, ChangeLabels, TogglePaused, deployer
<1>8. ASSUME NEW c \in Clusters, ClusterGone(c) PROVE [Abstract!Next]_Abstract!vars
  <2>1. Activity' = Activity
    BY <1>8 DEF ClusterGone, deployer, Activity
  <2> QED
    BY <1>8, <2>1 DEF ClusterGone, Abstract!Next, Abstract!Vanish
<1>9. CASE ReconcilerStep
  BY <1>1, <1>9, ReconcilerLeavesWorkers
<1>10. CASE UNCHANGED vars
  BY <1>1, <1>10 DEF vars
<1> QED
  BY <1>2, <1>3, <1>4, <1>5, <1>6, <1>7, <1>8, <1>9, <1>10 DEF Next, WorkerStep

\* The initial states satisfy the invariant of the refinement.
LEMMA RefinementInit == Init => RInv
<1>1. Init => Exclusive /\ Prepared
  BY DEF Init, Exclusive, Active, Prepared, Idle
<1>2. Init => Fetched
  BY DEF Init, Fetched, ToCleanup, Requests
<1> QED
  BY <1>1, <1>2, TypeInit DEF RInv, IInv

\* THEOREM: the reconciler, the Deployer and its workers implement
\* ManagedClusters.
THEOREM Refinement == Spec => ImplementsManagedClusters
<1>1. RInv /\ [Next]_vars => RInv'
  BY TypeNext, ExclusiveNext, FetchedNext DEF RInv, IInv
<1>2. Init => Abstract!Init
  <2> SUFFICES ASSUME Init PROVE Abstract!Init
    OBVIOUS
  <2>1. chc.spec \in Nat
    BY DEF Init
  <2>2. \A c \in Clusters : read[ToDeploy(c)] = Unread /\ read[ToCleanup(c)] = Unread
    BY DEF Init, Requests, ToDeploy, ToCleanup
  <2>3. Activity = [c \in Clusters |-> [kind |-> "none", from |-> 0]]
    BY <2>2 DEF Activity
  <2> QED
    BY <2>1, <2>3 DEF Init, Abstract!Init, Abstract!Nothing
<1>3. RInv /\ RInv' /\ [Next]_vars => [Abstract!Next]_Abstract!vars
  BY StepRefines
<1> QED
  BY <1>1, <1>2, <1>3, RefinementInit, PTL
  DEF Spec, ImplementsManagedClusters, Abstract!Spec

\* THEOREM: no managed cluster ever goes back to an older configuration.
THEOREM ConfigurationsMoveForward == Spec => [][Abstract!NotOlder]_Abstract!vars
  BY Refinement, Abstract!NeverOlder, PTL DEF ImplementsManagedClusters

-----------------------------------------------------------------------------
(* Nothing is left behind, as long as the status is saved when a reconcile   *)
(* ends, the manager is not restarted, and no worker finishes between        *)
(* CleanupEntries and IsInProgress of a reconcile for its cluster.           *)

NothingInterrupts == ~LateResults /\ "close" \notin Faults /\ "restart" \notin Faults

\* The cluster has, or may still get, something deployed.
Occupied(c) == cluster[c].present /\ (managed[c] # 0 \/ Active(ToDeploy(c)))

\* The entry of c stays in the status when the reconcile ends.
Kept(conds, c) == conds[c].status \notin {"Absent", "Removed"}

\* A CHC that is being reconciled or deleted has its finalizer.
Held ==
  /\ chc.exists /\ chc.deleting => chc.finalizer
  /\ rec.pc # "idle" => chc.exists /\ chc.finalizer

\* An occupied cluster is listed: in the status or, while a reconcile is in
\* progress, in its copy.
Listed(c) ==
  Occupied(c) => IF rec.pc = "idle" THEN chc.exists /\ chc.finalizer /\ Kept(conditions, c)
                 ELSE Kept(local, c)

\* A cleanup whose success was not consumed yet left nothing, and nothing was
\* asked for since.
CleanedUp(c) == results[ToCleanup(c)] = "ok" => ~Occupied(c)

\* The "decide" step of a deployment finds no result of a cleanup.
NoStaleCleanup ==
  rec.pc = "decide" =>
    \A c \in rec.current : ~ToBeRemoved(c) => results[ToCleanup(c)] = "none"

\* A reconcile that is about to release the CHC has every entry removed.
Releasing ==
  rec.pc # "idle" /\ rec.deleting /\ ~rec.requeue =>
    \A c \in Clusters \ rec.todo : ~Kept(local, c)

LInv == /\ Held /\ NoStaleCleanup /\ Releasing
        /\ \A c \in Clusters : Listed(c) /\ CleanedUp(c)

\* The requests of a cluster are told apart.
LEMMA RequestsOf ==
  /\ \A c \in Clusters : ToDeploy(c) \in Requests /\ ToCleanup(c) \in Requests
  /\ \A c \in Clusters : ToDeploy(c)[1] = c /\ ToCleanup(c)[1] = c
  /\ \A c, d \in Clusters : ToDeploy(c) # ToCleanup(d)
  /\ \A c, d \in Clusters : c # d => ToDeploy(c) # ToDeploy(d) /\ ToCleanup(c) # ToCleanup(d)
  BY DEF ToDeploy, ToCleanup, Requests

\* A request is one to deploy or one to clean up.
LEMMA RequestKind ==
  ASSUME NEW r \in Requests
  PROVE  r[1] \in Clusters /\ (r = ToDeploy(r[1]) \/ r = ToCleanup(r[1]))
<1>1. PICK c \in Clusters, b \in BOOLEAN : r = <<c, b>>
  BY DEF Requests
<1>2. r[1] = c /\ (b = TRUE \/ b = FALSE)
  BY <1>1
<1> QED
  BY <1>1, <1>2 DEF ToDeploy, ToCleanup

\* The reconcile and its copy after an entry was done.
LEMMA EntryDoneFields ==
  ASSUME TypeOK, NEW c \in Clusters, NEW info, NEW q \in BOOLEAN, EntryDone(c, info, q)
  PROVE  /\ rec'.pc = "prepare" /\ rec'.todo = rec.todo \ {c}
         /\ rec'.deleting <=> rec.deleting
         /\ rec'.requeue <=> (rec.requeue \/ q)
         /\ local'[c] = info
         /\ \A d \in Clusters \ {c} : local'[d] = local[d]
<1>1. rec \in RecType /\ local \in [Clusters -> ClusterInfo]
  BY DEF TypeOK
<1>2. rec'.pc = "prepare" /\ rec'.todo = rec.todo \ {c} /\ rec'.deleting = rec.deleting
  BY <1>1 DEF EntryDone, RecType
<1>3. rec'.requeue <=> (rec.requeue \/ q)
  BY <1>1 DEF EntryDone, RecType
<1>4. local'[c] = info /\ \A d \in Clusters \ {c} : local'[d] = local[d]
  BY <1>1 DEF EntryDone
<1> QED
  BY <1>2, <1>3, <1>4

\* An entry is done, and only a removed one without another reconcile to come.
LEMMA EntryDoneLists ==
  ASSUME TypeOK, LInv, rec.pc # "idle", NEW c \in Clusters, NEW info,
         NEW q \in BOOLEAN, EntryDone(c, info, q), chc' = chc,
         Occupied(c)' => info.status \notin {"Absent", "Removed"},
         \A d \in Clusters \ {c} : Occupied(d)' => Occupied(d),
         \A d \in Clusters : CleanedUp(d)',
         q \/ info.status = "Removed" \/ ~rec.deleting
  PROVE  LInv'
<1>1. /\ rec'.pc = "prepare" /\ rec'.todo = rec.todo \ {c}
      /\ rec'.deleting <=> rec.deleting
      /\ rec'.requeue <=> (rec.requeue \/ q)
      /\ local'[c] = info
      /\ \A d \in Clusters \ {c} : local'[d] = local[d]
  BY EntryDoneFields
<1>2. Held' /\ NoStaleCleanup'
  BY <1>1 DEF LInv, Held, NoStaleCleanup
<1>3. Releasing'
  <2> SUFFICES ASSUME rec'.deleting, ~rec'.requeue, NEW d \in Clusters \ rec'.todo
               PROVE  ~Kept(local', d)
    BY DEF Releasing, Kept
  <2>1. CASE d = c
    BY <1>1, <2>1 DEF Kept
  <2>2. CASE d # c
    BY <1>1, <2>2 DEF LInv, Releasing, Kept
  <2> QED
    BY <2>1, <2>2
<1>4. ASSUME NEW d \in Clusters PROVE Listed(d)'
  <2>1. CASE d = c
    BY <1>1, <2>1 DEF Listed, Kept
  <2>2. CASE d # c
    <3>1. Listed(d) /\ (Occupied(d)' => Occupied(d))
      BY <2>2 DEF LInv
    <3> QED
      BY <1>1, <2>2, <3>1 DEF Listed, Kept
  <2> QED
    BY <2>1, <2>2
<1> QED
  BY <1>2, <1>3, <1>4 DEF LInv

\* The workers, the users and the clusters leave the reconcile alone.
LEMMA OutsideLists ==
  ASSUME LInv, UNCHANGED <<rec, local, conditions>>,
         chc'.exists <=> chc.exists, chc'.finalizer <=> chc.finalizer,
         chc'.deleting => chc.deleting \/ chc.finalizer,
         \A c \in Clusters : (Occupied(c)' => Occupied(c)) /\ CleanedUp(c)',
         \A c \in rec.current : results'[ToCleanup(c)] = results[ToCleanup(c)]
  PROVE  LInv'
<1>1. Held' /\ Releasing'
  BY DEF LInv, Held, Releasing, Kept
<1>2. NoStaleCleanup'
  BY DEF LInv, NoStaleCleanup, ToBeRemoved
<1>3. \A c \in Clusters : Listed(c)'
  BY DEF LInv, Listed, Kept
<1> QED
  BY <1>1, <1>2, <1>3 DEF LInv

\* Forgetting requests and results keeps what cleanups left.
LEMMA FewerOccupied ==
  ASSUME TypeOK, LInv, pending' \cup inProgress' \subseteq pending \cup inProgress,
         UNCHANGED <<managed, cluster>>, NEW c \in Clusters,
         results'[ToCleanup(c)] \in {results[ToCleanup(c)], "none"}
  PROVE  (Occupied(c)' => Occupied(c)) /\ CleanedUp(c)'
<1>1. Occupied(c)' => Occupied(c)
  BY DEF Occupied, Active
<1>2. CleanedUp(c)
  BY DEF LInv
<1> QED
  BY <1>1, <1>2 DEF CleanedUp

\* A reconcile starts from the status.
LEMMA ReconcileLists ==
  ASSUME TypeOK, LInv, Reconcile PROVE LInv'
<1>1. CASE ~chc.exists
  <2>1. UNCHANGED <<rec, local, chc, conditions, managed, cluster, pending, inProgress, results>>
    BY <1>1 DEF Reconcile
  <2>2. \A c \in Clusters : (Occupied(c)' => Occupied(c)) /\ CleanedUp(c)'
    BY <2>1, FewerOccupied
  <2> QED
    BY <2>1, <2>2, OutsideLists
<1>2. CASE chc.exists
  <2> DEFINE m == IF chc.deleting THEN {} ELSE MatchingClusters
             todo == {c \in Clusters : HasEntry(WithNewEntries(m), c)}
  <2>1. /\ rec' = [Idle EXCEPT !.pc = "prepare", !.todo = todo, !.matching = m,
                               !.spec = chc.spec, !.deleting = chc.deleting]
        /\ local' = WithNewEntries(m) /\ rec.pc = "idle"
        /\ chc' = [chc EXCEPT !.finalizer = @ \/ ~chc.deleting]
        /\ UNCHANGED <<conditions, managed, cluster, pending, inProgress, results>>
    BY <1>2 DEF Reconcile
  <2>2. todo = {c \in Clusters : HasEntry(local', c)}
    BY <2>1
  <2> HIDE DEF m, todo
  <2>3. rec'.pc = "prepare" /\ rec'.todo = todo
    BY <2>1 DEF Idle
  <2>4. /\ chc'.exists <=> chc.exists
        /\ chc'.finalizer <=> (chc.finalizer \/ ~chc.deleting)
    BY <2>1 DEF TypeOK
  <2>5. Held'
    BY <1>2, <2>4 DEF LInv, Held
  <2>6. NoStaleCleanup'
    BY <2>3 DEF NoStaleCleanup
  <2>7. Releasing'
    BY <2>2, <2>3 DEF Releasing, Kept, HasEntry
  <2>8. ASSUME NEW c \in Clusters PROVE Listed(c)' /\ CleanedUp(c)'
    <3>1. (Occupied(c)' => Occupied(c)) /\ CleanedUp(c)'
      BY <2>1, FewerOccupied
    <3>2. Kept(conditions, c) => Kept(local', c)
      BY <2>1 DEF WithNewEntries, Kept, HasEntry
    <3>3. Occupied(c) => Kept(conditions, c)
      BY <2>1 DEF LInv, Listed
    <3> QED
      BY <2>3, <3>1, <3>2, <3>3 DEF Listed, Kept
  <2> QED
    BY <2>5, <2>6, <2>7, <2>8 DEF LInv
<1> QED
  BY <1>1, <1>2

\* A reconcile that fails at once has at most added the finalizer.
LEMMA ReconcileFailsLists ==
  ASSUME TypeOK, LInv, ReconcileFails PROVE LInv'
<1>1. /\ UNCHANGED <<rec, local, conditions, managed, cluster, pending, inProgress, results>>
      /\ rec.pc = "idle"
  BY DEF ReconcileFails, deployer
<1>2. /\ chc'.exists <=> chc.exists
      /\ chc'.deleting <=> chc.deleting
      /\ chc.finalizer => chc'.finalizer
  BY DEF ReconcileFails, TypeOK
<1>3. Held' /\ NoStaleCleanup' /\ Releasing'
  BY <1>1, <1>2 DEF LInv, Held, NoStaleCleanup, Releasing
<1>4. ASSUME NEW c \in Clusters PROVE Listed(c)' /\ CleanedUp(c)'
  <2>1. (Occupied(c)' => Occupied(c)) /\ CleanedUp(c)'
    BY <1>1, FewerOccupied
  <2> QED
    BY <1>1, <1>2, <2>1 DEF LInv, Listed, Kept
<1> QED
  BY <1>3, <1>4 DEF LInv

\* The entry of c is prepared: its cluster is left alone, the requests opposite
\* to the one to come are taken back.
LEMMA PreparedLists ==
  ASSUME TypeOK, LInv, rec.pc = "prepare", NEW c \in Clusters, NEW r \in Requests,
         EntryPrepared(c), CleanupEntries(r), UNCHANGED <<chc, managed, cluster, inProgress>>,
         ToBeRemoved(c) \/ r = ToCleanup(c)
  PROVE  LInv'
<1>1. /\ rec'.pc = "decide" /\ rec'.current = {c} /\ rec'.todo = rec.todo
      /\ rec'.deleting = rec.deleting /\ rec'.requeue = rec.requeue
      /\ rec'.matching = rec.matching /\ local' = local
  BY DEF EntryPrepared, TypeOK, RecType
<1>2. /\ pending' \subseteq pending
      /\ \A q \in Requests : results'[q] = IF q = r THEN "none" ELSE results[q]
  BY DEF CleanupEntries, TypeOK
<1>3. Held' /\ Releasing'
  BY <1>1 DEF LInv, Held, Releasing, Kept
<1>4. NoStaleCleanup'
  BY <1>1, <1>2 DEF NoStaleCleanup, ToBeRemoved
<1>5. ASSUME NEW d \in Clusters PROVE Listed(d)' /\ CleanedUp(d)'
  <2>1. (Occupied(d)' => Occupied(d)) /\ CleanedUp(d)'
    BY <1>2, RequestsOf, FewerOccupied
  <2> QED
    BY <1>1, <2>1 DEF LInv, Listed, Kept
<1> QED
  BY <1>3, <1>4, <1>5 DEF LInv

\* The entry of a cluster to be removed is prepared.
LEMMA PrepareRemoveLists ==
  ASSUME TypeOK, LInv, NEW c \in Clusters, PrepareRemove(c) PROVE LInv'
<1>1. /\ UNCHANGED <<chc, managed, cluster, inProgress>> /\ rec.pc = "prepare"
      /\ ToBeRemoved(c) /\ ToDeploy(c) \in Requests
  BY RequestsOf DEF PrepareRemove, api
<1>2. CASE EntryPrepared(c) /\ CleanupEntries(ToDeploy(c))
  BY <1>1, <1>2, PreparedLists
<1>3. ASSUME UNCHANGED <<pending, results>>
      PROVE  \A d \in Clusters : (Occupied(d)' => Occupied(d)) /\ CleanedUp(d)'
  BY <1>1, <1>3, FewerOccupied
<1>4. CASE /\ ~cluster[c].present /\ UNCHANGED <<pending, results>>
           /\ EntryDone(c, Info("Removed", EntryHash(c)), ~rec.deleting)
  <2>1. ~Occupied(c)' /\ Info("Removed", EntryHash(c)).status = "Removed"
    BY <1>1, <1>4 DEF Occupied, Info
  <2> QED
    BY <1>1, <1>3, <1>4, <2>1, EntryDoneLists
<1>5. ASSUME NEW info \in {Info("Removing", EntryHash(c))} \cup HashFailed(c),
             EntryDone(c, info, TRUE), UNCHANGED <<pending, results>>
      PROVE  LInv'
  <2>1. Occupied(c)' => Occupied(c)
    BY <1>3, <1>5
  <2>2. Occupied(c) => Kept(local, c)
    BY <1>1 DEF LInv, Listed
  <2>3. Occupied(c) => info.status \notin {"Absent", "Removed"}
    BY <2>2 DEF Info, HashFailed, Kept
  <2> QED
    BY <1>1, <1>3, <1>5, <2>1, <2>3, EntryDoneLists
<1> QED
  BY <1>2, <1>4, <1>5 DEF PrepareRemove

\* The entry of a cluster to deploy to is prepared.
LEMMA PrepareDeployLists ==
  ASSUME TypeOK, LInv, NEW c \in Clusters, PrepareDeploy(c) PROVE LInv'
<1>1. /\ UNCHANGED <<chc, managed, cluster, inProgress>> /\ rec.pc = "prepare"
      /\ ~ToBeRemoved(c) /\ ToCleanup(c) \in Requests
  BY RequestsOf DEF PrepareDeploy, api
<1>2. CASE EntryPrepared(c) /\ CleanupEntries(ToCleanup(c))
  BY <1>1, <1>2, PreparedLists
<1>3. ASSUME UNCHANGED <<pending, results>>
      PROVE  \A d \in Clusters : (Occupied(d)' => Occupied(d)) /\ CleanedUp(d)'
  BY <1>1, <1>3, FewerOccupied
<1>4. ASSUME NEW info \in {Info("Provisioning", rec.spec)} \cup HashFailed(c),
             EntryDone(c, info, TRUE), UNCHANGED <<pending, results>>
      PROVE  LInv'
  <2>1. Occupied(c)' => Occupied(c)
    BY <1>3, <1>4
  <2>2. Occupied(c) => Kept(local, c)
    BY <1>1 DEF LInv, Listed
  <2>3. Occupied(c) => info.status \notin {"Absent", "Removed"}
    BY <2>2 DEF Info, HashFailed, Kept
  <2> QED
    BY <1>1, <1>3, <1>4, <2>1, <2>3, EntryDoneLists
<1> QED
  BY <1>2, <1>4 DEF PrepareDeploy

\* A cluster is declared removed only after a cleanup that succeeded.
LEMMA DecideRemoveLists ==
  ASSUME TypeOK, LInv, NEW c \in Clusters, DecideRemove(c) PROVE LInv'
<1>1. UNCHANGED <<chc, managed, cluster, inProgress>> /\ rec.pc = "decide"
  BY DEF DecideRemove, api
<1>2. ASSUME NEW s \in {"Removing", "Removed"}, NEW q \in BOOLEAN,
             EntryDone(c, Info(s, EntryHash(c)), q), q \/ s = "Removed",
             pending' \subseteq pending \cup {ToCleanup(c)},
             results' \in {results, [results EXCEPT ![ToCleanup(c)] = "none"]},
             Occupied(c) => s = "Removing"
      PROVE  LInv'
  <2>1. ASSUME NEW d \in Clusters PROVE (Occupied(d)' => Occupied(d)) /\ CleanedUp(d)'
    <3>1. Occupied(d)' => Occupied(d)
      BY <1>1, <1>2, RequestsOf DEF Occupied, Active
    <3>2. results'[ToCleanup(d)] \in {results[ToCleanup(d)], "none"}
      BY <1>2, RequestsOf DEF TypeOK
    <3> QED
      BY <3>1, <3>2 DEF LInv, CleanedUp
  <2>2. Info(s, EntryHash(c)).status = s
    BY DEF Info
  <2> QED
    BY <1>1, <1>2, <2>1, <2>2, EntryDoneLists
<1>3. CASE /\ EntryDone(c, Info("Removing", EntryHash(c)), TRUE)
           /\ pending' \subseteq pending \cup {ToCleanup(c)}
           /\ results' \in {results, [results EXCEPT ![ToCleanup(c)] = "none"]}
  BY <1>2, <1>3
<1>4. CASE /\ GetResult(ToCleanup(c)) = "ok" /\ ConsumeResult(ToCleanup(c))
           /\ EntryDone(c, Info("Removed", EntryHash(c)), ~rec.deleting)
  <2>1. results[ToCleanup(c)] = "ok"
    BY <1>4 DEF GetResult
  <2>2. ~Occupied(c)
    BY <2>1 DEF LInv, CleanedUp
  <2> QED
    BY <1>2, <1>4, <2>2 DEF ConsumeResult
<1> QED
  BY <1>3, <1>4 DEF DecideRemove

\* A cluster is deployed to only while it is listed.
LEMMA DecideDeployLists ==
  ASSUME TypeOK, LInv, NEW c \in Clusters, DecideDeploy(c) PROVE LInv'
<1>1. /\ UNCHANGED <<chc, managed, cluster, inProgress>> /\ rec.pc = "decide"
      /\ ~ToBeRemoved(c) /\ c \in rec.current
  BY DEF DecideDeploy, api
<1>2. ~rec.deleting /\ results[ToCleanup(c)] = "none"
  BY <1>1 DEF ToBeRemoved, LInv, NoStaleCleanup
<1>3. ASSUME NEW info, NEW q \in BOOLEAN, EntryDone(c, info, q),
             pending' \subseteq pending \cup {ToDeploy(c)},
             results' \in {results, [results EXCEPT ![ToDeploy(c)] = "none"]},
             \/ info.status \notin {"Absent", "Removed"}
             \/ pending' = pending /\ info = local[c]
      PROVE  LInv'
  <2>1. \A d \in Clusters : results'[ToCleanup(d)] = results[ToCleanup(d)]
    BY <1>3, RequestsOf DEF TypeOK
  <2>2. ASSUME NEW d \in Clusters, d # c PROVE Occupied(d)' => Occupied(d)
    BY <1>1, <1>3, <2>2, RequestsOf DEF Occupied, Active
  <2>3. ASSUME NEW d \in Clusters PROVE CleanedUp(d)'
    <3>1. CASE d = c
      BY <1>2, <2>1, <3>1 DEF CleanedUp
    <3>2. CASE d # c
      BY <2>1, <2>2, <3>2 DEF LInv, CleanedUp
    <3> QED
      BY <3>1, <3>2
  <2>4. Occupied(c)' => info.status \notin {"Absent", "Removed"}
    <3>1. CASE pending' = pending /\ info = local[c]
      <4>1. Occupied(c)' => Occupied(c)
        BY <1>1, <3>1 DEF Occupied, Active
      <4>2. Occupied(c) => Kept(local, c)
        BY <1>1 DEF LInv, Listed
      <4> QED
        BY <3>1, <4>1, <4>2 DEF Kept
    <3> QED
      BY <1>3, <3>1
  <2> QED
    BY <1>1, <1>2, <1>3, <2>2, <2>3, <2>4, EntryDoneLists
<1>4. Info("Provisioning", rec.spec).status = "Provisioning"
  BY DEF Info
<1>5. CASE EntryDone(c, Info("Provisioning", rec.spec), TRUE) /\ UNCHANGED <<pending, results>>
  BY <1>3, <1>4, <1>5
<1>6. CASE EntryDone(c, local[c], FALSE) /\ UNCHANGED <<pending, results>>
  BY <1>3, <1>6
<1>7. CASE EntryDone(c, Info("Provisioning", rec.spec), TRUE) /\ Deploy(ToDeploy(c))
  BY <1>3, <1>4, <1>7 DEF Deploy
<1>8. ASSUME NEW result \in {"ok", "failed", "inProgress"}, ConsumeResult(ToDeploy(c)),
             EntryDone(c, Info(ConvertResultStatus(result), rec.spec), result # "ok")
      PROVE  LInv'
  <2>1. Info(ConvertResultStatus(result), rec.spec).status \notin {"Absent", "Removed"}
    BY DEF Info, ConvertResultStatus
  <2>2. (result # "ok") \in BOOLEAN
    OBVIOUS
  <2> QED
    BY <1>3, <1>8, <2>1, <2>2 DEF ConsumeResult
<1>9. GetResult(ToDeploy(c)) \in {"ok", "failed", "inProgress", "unavailable"}
  BY RequestsOf DEF GetResult, TypeOK
<1> QED
  BY <1>5, <1>6, <1>7, <1>8, <1>9 DEF DecideDeploy

\* A reconcile that cannot read a shard keeps its copy, and is repeated.
LEMMA ShardMatchFailsLists ==
  ASSUME TypeOK, LInv, NEW c \in Clusters, ShardMatchFails(c) PROVE LInv'
<1>1. /\ UNCHANGED <<chc, local, managed, cluster, pending, inProgress, results>>
      /\ rec.pc = "prepare"
  BY DEF ShardMatchFails, api, deployer
<1>2. rec'.pc = "prepare" /\ rec'.requeue
  BY DEF ShardMatchFails, TypeOK, RecType
<1>3. Held' /\ NoStaleCleanup' /\ Releasing'
  BY <1>1, <1>2 DEF LInv, Held, NoStaleCleanup, Releasing
<1>4. ASSUME NEW d \in Clusters PROVE Listed(d)' /\ CleanedUp(d)'
  <2>1. (Occupied(d)' => Occupied(d)) /\ CleanedUp(d)'
    BY <1>1, FewerOccupied
  <2> QED
    BY <1>1, <1>2, <2>1 DEF LInv, Listed, Kept
<1> QED
  BY <1>3, <1>4 DEF LInv

\* Neither the removed entries that are dropped nor the clusters demoted by the
\* evaluation make an occupied cluster disappear.
LEMMA SavedKeeps ==
  ASSUME TypeOK, NEW c \in Clusters, NEW S
  PROVE  /\ Kept(local, c) => Kept(DropRemoved(local), c)
         /\ Kept(DropRemoved(local), c) => Kept(Demote(DropRemoved(local), S), c)
<1>1. Kept(local, c) => Kept(DropRemoved(local), c)
  BY DEF Kept, DropRemoved
<1>2. ASSUME NEW conds, conds[c] \in ClusterInfo, Kept(conds, c)
      PROVE  Kept(Demote(conds, S), c)
  <2>1. CASE c \in S /\ conds[c].status = "Provisioned"
    <3>1. Demote(conds, S)[c].status = "Provisioning"
      BY <1>2, <2>1 DEF Demote, ClusterInfo
    <3> QED
      BY <3>1 DEF Kept
  <2>2. CASE ~(c \in S /\ conds[c].status = "Provisioned")
    BY <1>2, <2>2 DEF Demote, Kept
  <2> QED
    BY <2>1, <2>2
<1>3. DropRemoved(local)[c] \in ClusterInfo
  BY DEF DropRemoved, TypeOK, NoEntry, ClusterInfo, Statuses, Versions
<1> QED
  BY <1>1, <1>2, <1>3

\* What a reconcile that ends saves lists every occupied cluster; the CHC is
\* released only when there is none.
LEMMA FinishLists ==
  ASSUME TypeOK, LInv, "close" \notin Faults, Finish PROVE LInv'
<1>1. /\ rec.pc = "prepare" /\ rec.todo = {} /\ rec' = Idle
      /\ UNCHANGED <<cluster, managed, pending, inProgress, results>>
  BY DEF Finish, deployer
<1>2. rec'.pc = "idle"
  BY <1>1 DEF Idle
<1>3. \A c \in Clusters : (Occupied(c)' => Occupied(c)) /\ CleanedUp(c)'
  BY <1>1, FewerOccupied
<1>4. \A c \in Clusters : Occupied(c) => Kept(local, c)
  BY <1>1 DEF LInv, Listed
<1>5. ASSUME NEW conds, NEW q \in BOOLEAN, FinishWith(conds, q), rec.requeue => q,
             \A c \in Clusters : Kept(local, c) => Kept(conds, c)
      PROVE  LInv'
  <2>1. CASE rec.deleting /\ ~q
    <3>1. \A c \in Clusters : ~Occupied(c)
      BY <1>1, <1>4, <1>5, <2>1 DEF LInv, Releasing
    <3>2. ~chc'.exists
      BY <1>5, <2>1 DEF FinishWith, TypeOK
    <3>3. Held' /\ NoStaleCleanup' /\ Releasing'
      BY <1>2, <3>2 DEF Held, NoStaleCleanup, Releasing
    <3> QED
      BY <1>3, <3>1, <3>3 DEF LInv, Listed
  <2>2. CASE ~(rec.deleting /\ ~q)
    <3>1. conditions' = conds
      BY <1>5, <2>2 DEF FinishWith
    <3>2. (chc'.exists <=> chc.exists) /\ (chc'.finalizer <=> chc.finalizer)
      BY <1>5, <2>2 DEF FinishWith, TypeOK
    <3>3. chc.exists /\ chc.finalizer
      BY <1>1 DEF LInv, Held
    <3>4. Held' /\ NoStaleCleanup' /\ Releasing'
      BY <1>2, <3>2, <3>3 DEF Held, NoStaleCleanup, Releasing
    <3>5. ASSUME NEW c \in Clusters PROVE Listed(c)'
      <4>1. Occupied(c)' => Kept(conds, c)
        BY <1>3, <1>4, <1>5
      <4> QED
        BY <1>2, <3>1, <3>2, <3>3, <4>1 DEF Listed, Kept
    <3> QED
      BY <1>3, <3>4, <3>5 DEF LInv
  <2> QED
    BY <2>1, <2>2
<1>6. rec.requeue \in BOOLEAN
  BY DEF TypeOK, RecType
<1>7. CASE FinishWith(IF rec.aborted THEN local ELSE DropRemoved(local), rec.requeue)
  <2>1. CASE rec.aborted
    BY <1>5, <1>6, <1>7, <2>1
  <2>2. CASE ~rec.aborted
    BY <1>5, <1>6, <1>7, <2>2, SavedKeeps
  <2> QED
    BY <2>1, <2>2
<1>8. ASSUME NEW failed, FinishWith(Demote(DropRemoved(local), failed), TRUE) PROVE LInv'
  BY <1>5, <1>8, SavedKeeps
<1> QED
  BY <1>7, <1>8 DEF Finish, CloseFails, Fault

\* A worker that stores its result leaves the entry being decided alone.
LEMMA StoreResultLists ==
  ASSUME TypeOK, LInv, ~LateResults, NEW r \in Requests, NEW x, StoreResult(r, x),
         UNCHANGED <<rec, local, conditions, chc, cluster, pending>>,
         \A c \in Clusters : Occupied(c)' => Occupied(c),
         r = ToCleanup(r[1]) /\ x = "ok" => ~Occupied(r[1])'
  PROVE  LInv'
<1>1. r[1] \notin rec.current /\ \A q \in Requests : q # r => results'[q] = results[q]
  BY DEF StoreResult, TypeOK
<1>2. results'[r] = x
  BY DEF StoreResult, TypeOK
<1>3. ASSUME NEW c \in Clusters PROVE CleanedUp(c)'
  <2>1. CASE ToCleanup(c) = r
    BY <1>2, <2>1, RequestsOf DEF CleanedUp
  <2>2. CASE ToCleanup(c) # r
    <3>1. results'[ToCleanup(c)] = results[ToCleanup(c)]
      BY <1>1, <2>2, RequestsOf
    <3>2. CleanedUp(c) /\ (Occupied(c)' => Occupied(c))
      BY DEF LInv
    <3> QED
      BY <3>1, <3>2 DEF CleanedUp
  <2> QED
    BY <2>1, <2>2
<1>4. rec.current \subseteq Clusters
  BY DEF TypeOK, RecType
<1>5. \A c \in rec.current : results'[ToCleanup(c)] = results[ToCleanup(c)]
  BY <1>1, <1>4, RequestsOf
<1> QED
  BY <1>3, <1>5, OutsideLists

\* The workers occupy no cluster that a reconcile had not listed.
LEMMA WorkersList ==
  ASSUME RInv, LInv, ~LateResults, NEW r \in Requests, Take(r) \/ Fetch(r) \/ Apply(r)
  PROVE  LInv'
<1>t. TypeOK /\ Exclusive /\ Fetched
  BY DEF RInv, IInv
<1>u. UNCHANGED <<rec, local, conditions, chc, cluster>>
  BY DEF Take, Fetch, Apply, api
<1>r. r[1] \in Clusters /\ (r = ToDeploy(r[1]) \/ r = ToCleanup(r[1]))
  BY RequestKind
<1>1. CASE Take(r)
  <2>1. /\ pending' \cup inProgress' = pending \cup inProgress
        /\ UNCHANGED <<managed, results>>
    BY <1>1 DEF Take, api
  <2>2. \A c \in Clusters : (Occupied(c)' => Occupied(c)) /\ CleanedUp(c)'
    BY <1>t, <1>u, <2>1, FewerOccupied
  <2> QED
    BY <1>u, <2>1, <2>2, OutsideLists
<1>2. CASE Fetch(r)
  <2>0. pending' = pending /\ inProgress' \subseteq inProgress /\ managed' = managed
    BY <1>2 DEF Fetch, StoreResult, api
  <2>o. \A c \in Clusters : Occupied(c)' => Occupied(c)
    BY <1>u, <2>0 DEF Occupied, Active
  <2>1. CASE chc.exists /\ (r[2] \/ ~chc.deleting)
    <3>1. UNCHANGED <<inProgress, results>>
      BY <1>2, <2>1 DEF Fetch
    <3>2. \A c \in Clusters : CleanedUp(c)'
      BY <1>t, <1>u, <2>0, <3>1, FewerOccupied
    <3> QED
      BY <1>u, <2>o, <3>1, <3>2, OutsideLists
  <2>2. CASE ~(chc.exists /\ (r[2] \/ ~chc.deleting))
    <3>1. StoreResult(r, "ok")
      BY <1>2, <2>2 DEF Fetch
    <3>2. r = ToCleanup(r[1]) => ~chc.exists
      <4>1. ToCleanup(r[1])[2] = TRUE
        BY DEF ToCleanup
      <4>2. r = ToCleanup(r[1]) => r[2] = TRUE
        BY ONLY <4>1, Zenon
      <4> QED
        BY <2>2, <4>2
    <3>3. ~chc.exists => ~Occupied(r[1])
      BY <1>r DEF LInv, Held, Listed
    <3> QED
      BY <1>t, <1>u, <1>r, <2>0, <2>o, <3>1, <3>2, <3>3, StoreResultLists
  <2> QED
    BY <2>1, <2>2
<1>3. CASE Apply(r)
  <2>1. PICK x \in {"ok", "failed"}, v \in {managed[r[1]], read[r]} :
          /\ StoreResult(r, x) /\ managed' = [managed EXCEPT ![r[1]] = v]
          /\ x = "ok" => v = read[r]
    <3>1. managed = [managed EXCEPT ![r[1]] = managed[r[1]]]
      BY <1>t, <1>r DEF TypeOK
    <3> QED
      BY <1>3, <3>1 DEF Apply
  <2>2. pending' = pending /\ inProgress' = inProgress \ {r} /\ r \in inProgress
    BY <1>3, <2>1 DEF Apply, StoreResult
  <2>3. managed'[r[1]] = v /\ \A c \in Clusters : c # r[1] => managed'[c] = managed[c]
    BY <1>t, <1>r, <2>1 DEF TypeOK
  <2>4. r = ToCleanup(r[1]) => read[r] = 0 /\ ~Active(ToDeploy(r[1]))
    <3>1. r = ToCleanup(r[1]) => read[r] = 0
      BY <1>t, <1>r, <1>3 DEF Fetched, Apply
    <3>2. r = ToCleanup(r[1]) => ~Active(ToDeploy(r[1]))
      BY <1>t, <1>r, <2>2 DEF Exclusive, Active
    <3> QED
      BY <3>1, <3>2
  <2>5. ASSUME NEW c \in Clusters, Occupied(c)' PROVE Occupied(c)
    <3>1. CASE c # r[1]
      BY <1>u, <2>2, <2>3, <2>5, <3>1 DEF Occupied, Active
    <3>2. CASE c = r[1] /\ r = ToDeploy(c)
      BY <1>u, <2>2, <2>5, <3>2 DEF Occupied, Active
    <3>3. CASE c = r[1] /\ r = ToCleanup(c)
      BY <1>u, <2>2, <2>3, <2>4, <2>5, <3>3 DEF Occupied, Active
    <3> QED
      BY <1>r, <3>1, <3>2, <3>3
  <2>6. r = ToCleanup(r[1]) /\ x = "ok" => ~Occupied(r[1])'
    BY <2>1, <2>2, <2>3, <2>4 DEF Occupied, Active
  <2> QED
    BY <1>t, <1>u, <2>1, <2>2, <2>5, <2>6, StoreResultLists
<1> QED
  BY <1>1, <1>2, <1>3

\* Users and clusters occupy nothing, and delete no CHC that has its finalizer.
LEMMA ChangesList ==
  ASSUME TypeOK, LInv,
         ChangeSpec \/ DeleteCHC
           \/ \E c \in Clusters : ChangeLabels(c) \/ TogglePaused(c) \/ ClusterGone(c)
  PROVE  LInv'
<1>1. UNCHANGED <<rec, local, conditions, pending, inProgress, results>>
  BY DEF ChangeSpec, DeleteCHC, ChangeLabels, TogglePaused, ClusterGone, deployer
<1>2. ASSUME NEW c \in Clusters PROVE (Occupied(c)' => Occupied(c)) /\ CleanedUp(c)'
  <2>1. /\ cluster'[c].present => cluster[c].present
        /\ cluster'[c].present => managed'[c] = managed[c]
    <3>1. CASE UNCHANGED <<cluster, managed>>
      BY <3>1
    <3>2. ASSUME NEW d \in Clusters, ChangeLabels(d) \/ TogglePaused(d)
          PROVE  managed' = managed /\ (cluster'[c].present => cluster[c].present)
      BY <3>2 DEF ChangeLabels, TogglePaused, TypeOK
    <3>3. ASSUME NEW d \in Clusters, ClusterGone(d)
          PROVE  /\ cluster'[c].present => cluster[c].present
                 /\ cluster'[c].present => managed'[c] = managed[c]
      BY <3>3 DEF ClusterGone, TypeOK
    <3> QED
      BY <3>1, <3>2, <3>3 DEF ChangeSpec, DeleteCHC
  <2>2. Occupied(c)' => Occupied(c)
    BY <1>1, <2>1 DEF Occupied, Active
  <2> QED
    BY <1>1, <2>2 DEF LInv, CleanedUp
<1>3. CASE chc' = chc
  BY <1>1, <1>2, <1>3, OutsideLists
<1>4. CASE ChangeSpec
  <2>1. /\ chc'.exists = chc.exists /\ chc'.finalizer = chc.finalizer
        /\ chc'.deleting = chc.deleting
    BY <1>4 DEF ChangeSpec, TypeOK
  <2> QED
    BY <1>1, <1>2, <2>1, OutsideLists
<1>5. CASE DeleteCHC /\ chc.finalizer
  <2>1. chc.exists /\ chc'.exists /\ chc'.finalizer
    BY <1>5 DEF DeleteCHC, TypeOK
  <2> QED
    BY <1>1, <1>2, <1>5, <2>1, OutsideLists
<1>6. CASE DeleteCHC /\ ~chc.finalizer
  <2>1. rec.pc = "idle" /\ ~chc'.exists
    BY <1>6 DEF DeleteCHC, TypeOK, LInv, Held
  <2>2. \A c \in Clusters : ~Occupied(c)
    BY <1>6, <2>1 DEF LInv, Listed
  <2>3. Held' /\ NoStaleCleanup' /\ Releasing'
    BY <1>1, <2>1 DEF Held, NoStaleCleanup, Releasing
  <2> QED
    BY <1>2, <2>2, <2>3 DEF LInv, Listed
<1> QED
  BY <1>3, <1>4, <1>5, <1>6 DEF ChangeLabels, TogglePaused, ClusterGone

\* Every step keeps the occupied clusters listed.
LEMMA ListedNext ==
  ASSUME NothingInterrupts, RInv, LInv, [Next]_vars
  PROVE  LInv'
<1>t. TypeOK /\ ~LateResults /\ "close" \notin Faults /\ "restart" \notin Faults
  BY DEF RInv, IInv, NothingInterrupts
<1>1. CASE ReconcilerStep
  BY <1>1, <1>t, ReconcileLists, ReconcileFailsLists, PrepareRemoveLists, DecideRemoveLists, PrepareDeployLists,
     DecideDeployLists, ShardMatchFailsLists, FinishLists DEF ReconcilerStep
<1>2. CASE WorkerStep
  BY <1>2, <1>t, WorkersList DEF WorkerStep
<1>3. CASE ChangeSpec \/ DeleteCHC
           \/ \E c \in Clusters : ChangeLabels(c) \/ TogglePaused(c) \/ ClusterGone(c)
  BY <1>3, <1>t, ChangesList
<1>4. CASE Restart
  BY <1>4, <1>t DEF Restart, Fault
<1>5. CASE UNCHANGED vars
  <2>1. UNCHANGED <<rec, local, conditions, chc, managed, cluster, pending, inProgress, results>>
    BY <1>5 DEF vars
  <2>2. \A c \in Clusters : (Occupied(c)' => Occupied(c)) /\ CleanedUp(c)'
    BY <1>t, <2>1, FewerOccupied
  <2> QED
    BY <2>1, <2>2, OutsideLists
<1> QED
  BY <1>1, <1>2, <1>3, <1>4, <1>5 DEF Next

\* THEOREM: unless a save fails, the manager restarts or a worker finishes
\* between CleanupEntries and IsInProgress of a reconcile for its cluster, a
\* cluster that has, or is about to get, something deployed is listed in the
\* status of an existing CHC whenever no reconcile is running, whatever fails
\* and however reconciles, workers and changes interleave.
THEOREM NothingLeftBehindEver ==
  NothingInterrupts => (Spec => []NothingLeftBehind)
<1> SUFFICES ASSUME NothingInterrupts PROVE Spec => []NothingLeftBehind
  OBVIOUS
<1>1. Init => LInv
  <2> SUFFICES ASSUME Init PROVE LInv
    OBVIOUS
  <2>1. Held /\ NoStaleCleanup /\ Releasing
    BY DEF Init, Held, NoStaleCleanup, Releasing, Idle
  <2>2. \A c \in Clusters : ~Occupied(c)
    BY DEF Init, Occupied, Active
  <2> QED
    BY <2>1, <2>2 DEF LInv, Listed, CleanedUp
<1>2. RInv /\ [Next]_vars => RInv'
  BY TypeNext, ExclusiveNext, FetchedNext DEF RInv, IInv
<1>3. RInv /\ LInv /\ [Next]_vars => LInv'
  BY ListedNext
<1>4. RInv /\ LInv => NothingLeftBehind
  <2> SUFFICES ASSUME RInv, LInv, rec.pc = "idle", NEW c \in Clusters, cluster[c].present,
                      managed[c] # 0 \/ read[ToDeploy(c)] # Unread
               PROVE  chc.exists /\ HasEntry(conditions, c)
    BY DEF NothingLeftBehind
  <2>1. Occupied(c)
    BY RequestsOf DEF RInv, Fetched, Occupied, Active
  <2> QED
    BY <2>1 DEF LInv, Listed, Kept, HasEntry
<1> QED
  BY <1>1, <1>2, <1>3, <1>4, RefinementInit, PTL DEF Spec

-----------------------------------------------------------------------------
(* Every cluster that matches is listed once no reconcile is running or due, *)
(* whatever fails, saving the status and the manager itself included.        *)

\* The reconcile in progress is the last one due, of a CHC not to be deleted.
LastReconcile == rec.pc # "idle" /\ ~workqueue /\ chc.exists /\ ~chc.deleting

\* It has the clusters that match now, each with an entry; the ones it is done
\* with keep theirs, unless it is to be repeated.
Covering ==
  LastReconcile =>
    /\ ~rec.deleting
    /\ rec.matching = MatchingClusters
    /\ \A c \in MatchingClusters :
         HasEntry(local, c) /\ (rec.requeue \/ c \in rec.todo \/ Kept(local, c))

MInv == MatchingIsListed /\ Covering

\* The clusters that match are clusters.
LEMMA MatchingAreClusters == MatchingClusters \subseteq Clusters
  BY DeployerAssumption DEF MatchingClusters

\* The reconcile goes on, or a worker does something.
LEMMA SameMatching ==
  ASSUME MInv, UNCHANGED <<chc, conditions, cluster, workqueue, rec, local>>
  PROVE  MInv'
  BY DEF MInv, MatchingIsListed, Covering, LastReconcile, MatchingClusters, HasEntry, Kept

\* The entry of c is done: it stays, or the reconcile is repeated, or c does
\* not match.
LEMMA EntryDoneMatching ==
  ASSUME TypeOK, MInv, rec.pc # "idle", NEW c \in Clusters, NEW info, NEW q \in BOOLEAN,
         EntryDone(c, info, q), UNCHANGED <<chc, conditions, cluster, workqueue>>,
         \/ ToBeRemoved(c)
         \/ info.status \notin {"Absent", "Removed"}
         \/ q /\ info = local[c]
  PROVE  MInv'
<1>1. /\ rec'.pc = "prepare" /\ rec'.todo = rec.todo \ {c}
      /\ rec'.deleting <=> rec.deleting
      /\ rec'.requeue <=> (rec.requeue \/ q)
      /\ local'[c] = info
      /\ \A d \in Clusters \ {c} : local'[d] = local[d]
  BY EntryDoneFields
<1>2. rec'.matching = rec.matching /\ MatchingClusters' = MatchingClusters
  BY DEF EntryDone, MatchingClusters, TypeOK, RecType
<1>3. MatchingIsListed'
  BY <1>1 DEF MatchingIsListed
<1>4. Covering'
  <2> SUFFICES ASSUME LastReconcile'
               PROVE  /\ ~rec'.deleting /\ rec'.matching = MatchingClusters
                      /\ \A d \in MatchingClusters :
                           /\ HasEntry(local', d)
                           /\ rec'.requeue \/ d \in rec'.todo \/ Kept(local', d)
    BY <1>2 DEF Covering, HasEntry, Kept
  <2>1. LastReconcile
    BY DEF LastReconcile
  <2>2. /\ ~rec.deleting /\ rec.matching = MatchingClusters
        /\ \A d \in MatchingClusters :
             HasEntry(local, d) /\ (rec.requeue \/ d \in rec.todo \/ Kept(local, d))
    BY <2>1 DEF MInv, Covering
  <2>3. ASSUME NEW d \in MatchingClusters
        PROVE  HasEntry(local', d) /\ (rec'.requeue \/ d \in rec'.todo \/ Kept(local', d))
    <3>1. CASE d = c
      <4>1. ~ToBeRemoved(c)
        BY <2>2, <3>1 DEF ToBeRemoved
      <4> QED
        BY <1>1, <2>2, <3>1, <4>1 DEF HasEntry, Kept
    <3>2. CASE d # c
      BY <1>1, <2>2, <3>2, MatchingAreClusters DEF HasEntry, Kept
    <3> QED
      BY <3>1, <3>2
  <2> QED
    BY <1>1, <1>2, <2>2, <2>3
<1> QED
  BY <1>3, <1>4 DEF MInv

\* The "decide" step of c comes next.
LEMMA PreparedMatching ==
  ASSUME TypeOK, MInv, rec.pc # "idle", NEW c \in Clusters, EntryPrepared(c),
         UNCHANGED <<chc, conditions, cluster, workqueue>>
  PROVE  MInv'
<1>1. /\ rec'.pc = "decide" /\ rec'.todo = rec.todo /\ rec'.matching = rec.matching
      /\ rec'.deleting = rec.deleting /\ rec'.requeue = rec.requeue /\ local' = local
  BY DEF EntryPrepared, TypeOK, RecType
<1>2. MatchingClusters' = MatchingClusters
  BY DEF MatchingClusters
<1> QED
  BY <1>1, <1>2 DEF MInv, MatchingIsListed, Covering, LastReconcile, HasEntry, Kept

\* A reconcile starts with an entry for every cluster that matches.
LEMMA ReconcileMatching ==
  ASSUME TypeOK, Reconcile PROVE MInv'
<1>1. CASE ~chc.exists
  BY <1>1 DEF Reconcile, MInv, MatchingIsListed, Covering, LastReconcile
<1>2. CASE chc.exists
  <2> DEFINE m == IF chc.deleting THEN {} ELSE MatchingClusters
             todo == {c \in Clusters : HasEntry(WithNewEntries(m), c)}
  <2>1. /\ rec' = [Idle EXCEPT !.pc = "prepare", !.todo = todo, !.matching = m,
                               !.spec = chc.spec, !.deleting = chc.deleting]
        /\ local' = WithNewEntries(m)
        /\ chc' = [chc EXCEPT !.finalizer = @ \/ ~chc.deleting]
        /\ cluster' = cluster
    BY <1>2 DEF Reconcile
  <2>2. m \subseteq Clusters /\ (~chc.deleting => m = MatchingClusters)
    BY MatchingAreClusters
  <2>3. todo = {c \in Clusters : HasEntry(local', c)}
    BY <2>1
  <2> HIDE DEF m, todo
  <2>4. /\ rec'.pc = "prepare" /\ rec'.todo = todo /\ rec'.matching = m
        /\ rec'.deleting = chc.deleting
    BY <2>1 DEF Idle
  <2>5. chc'.deleting = chc.deleting
    BY <2>1 DEF TypeOK
  <2>6. \A c \in m : HasEntry(local', c)
    BY <2>1, <2>2 DEF WithNewEntries, HasEntry, Info
  <2>7. MatchingClusters' = MatchingClusters
    BY <2>1 DEF MatchingClusters
  <2>8. Covering'
    BY <2>2, <2>3, <2>4, <2>5, <2>6, <2>7 DEF Covering, LastReconcile, HasEntry
  <2> QED
    BY <2>4, <2>8 DEF MInv, MatchingIsListed
<1> QED
  BY <1>1, <1>2

\* The last reconcile saves an entry for every cluster that matches.
LEMMA FinishMatching ==
  ASSUME TypeOK, MInv, Finish PROVE MInv'
<1>1. rec.pc = "prepare" /\ rec.todo = {} /\ rec' = Idle /\ cluster' = cluster
  BY DEF Finish
<1>2. rec'.pc = "idle" /\ MatchingClusters' = MatchingClusters
  BY <1>1 DEF Idle, MatchingClusters
<1>3. Covering'
  BY <1>2 DEF Covering, LastReconcile
<1>4. ASSUME NEW conds, FinishWith(conds, rec.requeue),
             \A c \in Clusters : Kept(local, c) => Kept(conds, c)
      PROVE  MatchingIsListed'
  <2> SUFFICES ASSUME ~workqueue', chc'.exists, ~chc'.deleting,
                      NEW c \in MatchingClusters
               PROVE  HasEntry(conditions', c)
    BY <1>2 DEF MatchingIsListed, HasEntry
  <2>1. ~workqueue /\ ~rec.requeue
    BY <1>4 DEF FinishWith
  <2>2. chc.exists /\ ~chc.deleting
    BY <1>4 DEF FinishWith, TypeOK
  <2>3. ~rec.deleting /\ Kept(local, c)
    BY <1>1, <2>1, <2>2 DEF MInv, Covering, LastReconcile
  <2>4. conditions' = conds
    BY <1>4, <2>3 DEF FinishWith
  <2> QED
    BY <1>4, <2>3, <2>4, MatchingAreClusters DEF Kept, HasEntry
<1>5. ASSUME FinishWith(IF rec.aborted THEN local ELSE DropRemoved(local), rec.requeue)
      PROVE  MatchingIsListed'
  <2>1. CASE rec.aborted
    BY <1>4, <1>5, <2>1
  <2>2. CASE ~rec.aborted
    BY <1>4, <1>5, <2>2, SavedKeeps
  <2> QED
    BY <2>1, <2>2
<1>6. ASSUME NEW conds, FinishWith(conds, TRUE) PROVE MatchingIsListed'
  BY <1>6 DEF MatchingIsListed, FinishWith
<1>7. ASSUME CloseFails PROVE MatchingIsListed'
  BY <1>7 DEF MatchingIsListed, CloseFails
<1>8. MatchingIsListed'
  BY <1>5, <1>6, <1>7 DEF Finish
<1> QED
  BY <1>3, <1>8 DEF MInv

\* Every step keeps the clusters that match listed.
LEMMA MatchingNext ==
  ASSUME TypeOK, MInv, [Next]_vars PROVE MInv'
<1>1. CASE workqueue'
  BY <1>1 DEF MInv, MatchingIsListed, Covering, LastReconcile
<1>2. ASSUME NEW c \in Clusters, PrepareRemove(c) PROVE MInv'
  <2>1. /\ rec.pc = "prepare" /\ ToBeRemoved(c)
        /\ UNCHANGED <<chc, conditions, cluster, workqueue>>
    BY <1>2 DEF PrepareRemove, api
  <2>2. (~rec.deleting) \in BOOLEAN /\ TRUE \in BOOLEAN
    OBVIOUS
  <2>3. CASE \E info : EntryDone(c, info, ~rec.deleting) \/ EntryDone(c, info, TRUE)
    BY <2>1, <2>2, <2>3, EntryDoneMatching
  <2>4. CASE EntryPrepared(c)
    BY <2>1, <2>4, PreparedMatching
  <2> QED
    BY <1>2, <2>3, <2>4 DEF PrepareRemove
<1>3. ASSUME NEW c \in Clusters, DecideRemove(c) PROVE MInv'
  <2>1. /\ rec.pc = "decide" /\ ToBeRemoved(c)
        /\ UNCHANGED <<chc, conditions, cluster, workqueue>>
    BY <1>3 DEF DecideRemove, api
  <2>2. (~rec.deleting) \in BOOLEAN /\ TRUE \in BOOLEAN
    OBVIOUS
  <2>3. \E info : EntryDone(c, info, ~rec.deleting) \/ EntryDone(c, info, TRUE)
    BY <1>3 DEF DecideRemove
  <2> QED
    BY <2>1, <2>2, <2>3, EntryDoneMatching
<1>4. ASSUME NEW c \in Clusters, PrepareDeploy(c) PROVE MInv'
  <2>1. rec.pc = "prepare" /\ UNCHANGED <<chc, conditions, cluster, workqueue>>
    BY <1>4 DEF PrepareDeploy, api
  <2>2. Info("Provisioning", rec.spec).status \notin {"Absent", "Removed"}
    BY DEF Info
  <2>3. CASE EntryDone(c, Info("Provisioning", rec.spec), TRUE)
    BY <2>1, <2>2, <2>3, EntryDoneMatching
  <2>4. CASE EntryDone(c, local[c], TRUE)
    BY <2>1, <2>4, EntryDoneMatching
  <2>5. CASE EntryPrepared(c)
    BY <2>1, <2>5, PreparedMatching
  <2> QED
    BY <1>4, <2>3, <2>4, <2>5 DEF PrepareDeploy, HashFailed
<1>5. ASSUME NEW c \in Clusters, DecideDeploy(c) PROVE MInv'
  <2>1. rec.pc = "decide" /\ UNCHANGED <<chc, conditions, cluster, workqueue>>
    BY <1>5 DEF DecideDeploy, api
  <2>2. Info("Provisioning", rec.spec).status \notin {"Absent", "Removed"}
    BY DEF Info
  <2>3. CASE EntryDone(c, Info("Provisioning", rec.spec), TRUE)
    BY <2>1, <2>2, <2>3, EntryDoneMatching
  <2>4. CASE EntryDone(c, local[c], FALSE) /\ local[c].status = "Provisioned"
    BY <2>1, <2>4, EntryDoneMatching
  <2>5. ASSUME NEW result \in {"ok", "failed", "inProgress"},
               EntryDone(c, Info(ConvertResultStatus(result), rec.spec), result # "ok")
        PROVE  MInv'
    <3>1. Info(ConvertResultStatus(result), rec.spec).status \notin {"Absent", "Removed"}
      BY DEF Info, ConvertResultStatus
    <3>2. (result # "ok") \in BOOLEAN
      OBVIOUS
    <3> QED
      BY <2>1, <2>5, <3>1, <3>2, EntryDoneMatching
  <2>6. GetResult(ToDeploy(c)) \in {"ok", "failed", "inProgress", "unavailable"}
    BY RequestsOf DEF GetResult, TypeOK
  <2> QED
    BY <1>5, <2>3, <2>4, <2>5, <2>6 DEF DecideDeploy
<1>6. ASSUME NEW c \in Clusters, ShardMatchFails(c) PROVE MInv'
  <2>1. /\ UNCHANGED <<chc, conditions, cluster, workqueue, local>> /\ rec.pc = "prepare"
    BY <1>6 DEF ShardMatchFails, api
  <2>2. /\ rec'.pc = "prepare" /\ rec'.requeue /\ rec'.matching = rec.matching
        /\ rec'.deleting = rec.deleting
    BY <1>6 DEF ShardMatchFails, TypeOK, RecType
  <2>3. MatchingClusters' = MatchingClusters
    BY <2>1 DEF MatchingClusters
  <2> QED
    BY <2>1, <2>2, <2>3
    DEF MInv, MatchingIsListed, Covering, LastReconcile, HasEntry
<1>7. CASE WorkerStep
  BY <1>7, SameMatching DEF WorkerStep, Take, Fetch, Apply, api
<1>8. CASE ChangeSpec \/ DeleteCHC \/ Restart
           \/ \E c \in Clusters : ChangeLabels(c) \/ TogglePaused(c) \/ ClusterGone(c)
  BY <1>1, <1>8 DEF ChangeSpec, DeleteCHC, Restart, ChangeLabels, TogglePaused,
                    ClusterGone, Change
<1>9. CASE ReconcileFails
  BY <1>1, <1>9 DEF ReconcileFails
<1>10. CASE UNCHANGED vars
  BY <1>10, SameMatching DEF vars
<1> QED
  BY <1>2, <1>3, <1>4, <1>5, <1>6, <1>7, <1>8, <1>9, <1>10, ReconcileMatching,
     FinishMatching DEF Next, ReconcilerStep

\* THEOREM: whatever fails, the manager included, a cluster that matches is
\* listed in the status once no reconcile of the CHC is running or due, so that
\* it is cleaned up when it stops matching or when the CHC is deleted.
THEOREM MatchingIsListedEver == Spec => []MatchingIsListed
<1>1. Init => MInv
  BY DEF Init, MInv, MatchingIsListed, Covering, LastReconcile
<1>2. TypeOK /\ MInv /\ [Next]_vars => MInv'
  BY MatchingNext
<1>3. TypeOK /\ [Next]_vars => TypeOK'
  BY TypeNext
<1>4. MInv => MatchingIsListed
  BY DEF MInv
<1> QED
  BY <1>1, <1>2, <1>3, <1>4, TypeInit, PTL DEF Spec

=============================================================================
