-------------------------- MODULE HealthCheckOwners --------------------------
(***************************************************************************)
(* The HealthChecks of one managed cluster, shared by the                  *)
(* ClusterHealthChecks (CHCs) that reference them.  A CHC that deploys a   *)
(* HealthCheck becomes one of its owners; the last owner to leave deletes  *)
(* it (clusterhealthcheck_deployer.go).  When sveltos-agent runs in the    *)
(* management cluster a ConfigMap shared by the CHCs takes the place of    *)
(* the HealthChecks (healthcheckreport.go).                                *)
(*                                                                         *)
(* The Deployer runs one job at a time for a CHC and a cluster, and jobs   *)
(* of different CHCs concurrently.  A job that fails is run again; so is   *)
(* one during which the CHC or a HealthCheck it references changed: this   *)
(* is what ClusterHealthCheckDeployer and ManagedClusters are about, and   *)
(* "dirty" stands for it.                                                  *)
(*                                                                         *)
(* An update carries the resourceVersion that was read and fails if the    *)
(* object was written since: "fresh" is the set of objects a job may still *)
(* update.  A delete carries no resourceVersion.                           *)
(***************************************************************************)
EXTENDS Naturals

CONSTANTS CHCs,          \* ClusterHealthChecks
          HealthChecks,  \* HealthChecks of the management cluster
          MaxChanges,    \* bound on what users change
          MaxFaults      \* bound on failing calls and restarts

ASSUME OwnersAssumption == MaxChanges \in Nat /\ MaxFaults \in Nat

VARIABLES
  agentInMgmtCluster, \* start-up flag: where sveltos-agent runs
  wants,      \* the HealthChecks each CHC references
  matches,    \* is the cluster a match for the CHC (and the CHC not deleted)?
  spec,       \* version of each HealthCheck in the management cluster
  remote,     \* the HealthChecks in the managed cluster
  configMap,  \* the ConfigMap: one entry per CHC and HealthCheck
  dirty,      \* CHCs a job has still to be run for
  job,        \* the job of each CHC
  raced,      \* history: "deleted" once a HealthCheck written after it was
              \* listed was deleted, "downgraded" once an older spec was written
  changes, faults \* how many happened (bounds)

users == <<agentInMgmtCluster, wants, matches, spec, changes>>
vars == <<agentInMgmtCluster, wants, matches, spec, remote, configMap, dirty,
          job, raced, changes, faults>>

ConfigMap == "ConfigMap"
Objects == HealthChecks \cup {ConfigMap}

Absent == [present |-> FALSE, owners |-> {}, spec |-> 0]
NoConfigMap == [present |-> FALSE, entries |-> {}]
Remotes == [present : BOOLEAN, owners : SUBSET CHCs, spec : Nat]
ConfigMaps == [present : BOOLEAN, entries : SUBSET (CHCs \X HealthChecks)]

\* keep: the HealthChecks to keep; todo: those still to be handled; item: the
\* one being deployed; source: its version in the management cluster; seen,
\* seenMap: what was read last; young: the ConfigMap did not exist when the
\* job started.
NoJob == [pc |-> "idle", keep |-> {}, todo |-> {}, item |-> {}, source |-> 0,
          seen |-> [h \in HealthChecks |-> Absent], seenMap |-> NoConfigMap,
          fresh |-> {}, young |-> FALSE]

Init ==
  /\ agentInMgmtCluster \in BOOLEAN
  /\ wants \in [CHCs -> SUBSET HealthChecks]
  /\ matches \in [CHCs -> BOOLEAN]
  /\ spec = [h \in HealthChecks |-> 1]
  /\ remote = [h \in HealthChecks |-> Absent]
  /\ configMap = NoConfigMap
  /\ dirty = {k \in CHCs : matches[k]}
  /\ job = [k \in CHCs |-> NoJob]
  /\ raced = {}
  /\ changes = 0
  /\ faults = 0

-----------------------------------------------------------------------------
(* The jobs. *)

Step(k, j) == job' = [job EXCEPT ![k] = j]

\* CHC k wrote obj: whoever read it before cannot update it anymore, unless
\* the write changed nothing (the resourceVersion stays then).
Wrote(k, obj, changed, j) ==
  job' = [x \in CHCs |->
            LET after == IF x = k THEN j ELSE job[x]
            IN IF changed THEN [after EXCEPT !.fresh = @ \ {obj}] ELSE after]

\* Any error ends the job; the reconciler asks for another one.
Fail(k) ==
  /\ Step(k, NoJob)
  /\ dirty' = dirty \cup {k}

\* processClusterHealthCheckForCluster fetches the CHC.
StartDeploy(k) ==
  /\ job[k].pc = "idle" /\ k \in dirty /\ matches[k]
  /\ dirty' = dirty \ {k}
  /\ Step(k, [NoJob EXCEPT !.pc = "deploy", !.keep = wants[k], !.todo = wants[k],
                           !.young = ~configMap.present])
  /\ UNCHANGED <<users, remote, configMap, raced, faults>>

\* Mutant: the HealthChecks the CHC still references are kept.
StartCleanupKeepsReferenced(k) ==
  /\ job[k].pc = "idle" /\ k \in dirty /\ ~matches[k]
  /\ dirty' = dirty \ {k}
  /\ Step(k, [NoJob EXCEPT !.pc = "deploy", !.keep = wants[k],
                           !.young = ~configMap.present])
  /\ UNCHANGED <<users, remote, configMap, raced, faults>>

\* undeployClusterHealthCheckResourcesFromCluster: nothing to deploy, nothing
\* to keep (removeAll).
StartCleanup(k) ==
  /\ job[k].pc = "idle" /\ k \in dirty /\ ~matches[k]
  /\ dirty' = dirty \ {k}
  /\ Step(k, [NoJob EXCEPT !.pc = "deploy", !.young = ~configMap.present])
  /\ UNCHANGED <<users, remote, configMap, raced, faults>>

\* deployHealthCheck fetches the HealthCheck from the management cluster.
FetchHealthCheck(k) ==
  /\ job[k].pc = "deploy"
  /\ \E h \in job[k].todo :
       Step(k, [job[k] EXCEPT !.pc = "get", !.item = {h}, !.source = spec[h]])
  /\ UNCHANGED <<users, remote, configMap, dirty, raced, faults>>

\* createOrUpdateHealthCheck reads the HealthCheck of the managed cluster.
GetHealthCheck(k) ==
  /\ ~agentInMgmtCluster /\ job[k].pc = "get"
  /\ \E h \in job[k].item :
       Step(k, [job[k] EXCEPT !.pc = "write", !.seen[h] = remote[h], !.fresh = {h}])
  /\ UNCHANGED <<users, remote, configMap, dirty, raced, faults>>

\* One HealthCheck is deployed, on to the next one.
ItemDone(j) == [j EXCEPT !.pc = "deploy", !.todo = @ \ j.item, !.item = {},
                         !.source = 0, !.seen = NoJob.seen,
                         !.seenMap = NoConfigMap, !.fresh = {}]

\* Mutant: an existing HealthCheck is updated whatever happened to it since
\* it was read.
CanUpdateAlways(k, obj) == TRUE

\* The API server accepts an update of what was not written since it was read.
CanUpdate(k, obj) == obj \in job[k].fresh

\* Mutant: the HealthCheck is made its own owner.
DeployedOwnsItself(k, h) ==
  [present |-> TRUE, owners |-> job[k].seen[h].owners \cup {h},
   spec |-> job[k].source]

\* Mutant: the spec of a HealthCheck that exists is left alone.
DeployedKeepsSpec(k, h) ==
  [present |-> TRUE, owners |-> job[k].seen[h].owners \cup {k},
   spec |-> IF job[k].seen[h].present THEN job[k].seen[h].spec ELSE job[k].source]

\* What createOrUpdateHealthCheck writes: the current spec, k as an owner.
Deployed(k, h) ==
  [present |-> TRUE, owners |-> job[k].seen[h].owners \cup {k},
   spec |-> job[k].source]

\* createOrUpdateHealthCheck updates what it read, or creates it.
WriteHealthCheck(k) ==
  /\ ~agentInMgmtCluster /\ job[k].pc = "write"
  /\ \E h \in job[k].item :
       IF IF job[k].seen[h].present THEN CanUpdate(k, h) ELSE ~remote[h].present
       THEN /\ remote' = [remote EXCEPT ![h] = Deployed(k, h)]
            /\ Wrote(k, h, remote' # remote, ItemDone(job[k]))
            /\ raced' = raced \cup IF remote[h].spec > job[k].source
                                  THEN {"downgraded"} ELSE {}
            /\ UNCHANGED dirty
       ELSE Fail(k) /\ UNCHANGED <<remote, raced>>
  /\ UNCHANGED <<users, configMap, faults>>

\* addHealthCheckToConfigMap reads the ConfigMap from the cache, which is
\* never older than the job but may miss a ConfigMap created since.
GetConfigMap(k) ==
  /\ agentInMgmtCluster /\ job[k].pc = "get"
  /\ \E cm \in {configMap} \cup IF job[k].young THEN {NoConfigMap} ELSE {} :
       Step(k, [job[k] EXCEPT !.pc = "write", !.seenMap = cm, !.fresh = {ConfigMap}])
  /\ UNCHANGED <<users, remote, configMap, dirty, raced, faults>>

\* addHealthCheckToConfigMap updates what it read; or creates the ConfigMap
\* and, if there is one already, patches its own entry into it.
AddToConfigMap(k) ==
  /\ agentInMgmtCluster /\ job[k].pc = "write"
  /\ LET entries == {<<k, h>> : h \in job[k].item}
         others == IF job[k].seenMap.present THEN job[k].seenMap.entries
                   ELSE configMap.entries
     IN IF job[k].seenMap.present => CanUpdate(k, ConfigMap)
        THEN /\ configMap' = [present |-> TRUE, entries |-> others \cup entries]
             /\ Wrote(k, ConfigMap, configMap' # configMap, ItemDone(job[k]))
             /\ UNCHANGED dirty
        ELSE Fail(k) /\ UNCHANGED configMap
  /\ UNCHANGED <<users, remote, raced, faults>>

\* removeStaleHealthChecks lists the HealthChecks of the managed cluster; k
\* leaves the ones it owns and has not to keep.
ListStale(k) ==
  /\ ~agentInMgmtCluster /\ job[k].pc = "deploy" /\ job[k].todo = {}
  /\ Step(k, [job[k] EXCEPT !.pc = "prune", !.seen = remote, !.fresh = HealthChecks,
                !.todo = {h \in HealthChecks \ job[k].keep :
                            remote[h].present /\ k \in remote[h].owners}])
  /\ UNCHANGED <<users, remote, configMap, dirty, raced, faults>>

\* Mutant: a HealthCheck that was owned by k is deleted, whoever else owns it.
IsLastOwnerAnyway(k, h) == TRUE

\* No owner would be left.
IsLastOwner(k, h) == job[k].seen[h].owners = {k}

\* proceedRemovingStaleHealthChecks: update the owners or, when none is left,
\* delete.  A HealthCheck deleted meanwhile is an error.
RemoveStale(k) ==
  /\ ~agentInMgmtCluster /\ job[k].pc = "prune"
  /\ \E h \in job[k].todo :
       LET done == [job[k] EXCEPT !.todo = @ \ {h}]
       IN \/ /\ IsLastOwner(k, h) /\ remote[h].present
             /\ remote' = [remote EXCEPT ![h] = Absent]
             /\ Wrote(k, h, remote' # remote, done)
             /\ raced' = raced \cup IF h \in job[k].fresh THEN {} ELSE {"deleted"}
             /\ UNCHANGED dirty
          \/ /\ ~IsLastOwner(k, h) /\ CanUpdate(k, h)
             /\ remote' = [remote EXCEPT ![h] = [job[k].seen[h] EXCEPT !.owners = @ \ {k}]]
             /\ Wrote(k, h, remote' # remote, done)
             /\ UNCHANGED <<dirty, raced>>
          \/ /\ IF IsLastOwner(k, h) THEN ~remote[h].present ELSE ~CanUpdate(k, h)
             /\ Fail(k)
             /\ UNCHANGED <<remote, raced>>
  /\ UNCHANGED <<users, configMap, faults>>

\* The job is done.
Finish(k) ==
  /\ ~agentInMgmtCluster /\ job[k].pc = "prune" /\ job[k].todo = {}
  /\ Step(k, NoJob)
  /\ UNCHANGED <<users, remote, configMap, dirty, raced, faults>>

\* removeHealthCheckFromConfigMap reads the ConfigMap; without one it is done.
ListEntries(k) ==
  /\ agentInMgmtCluster /\ job[k].pc = "deploy" /\ job[k].todo = {}
  /\ \/ /\ configMap.present
        /\ Step(k, [job[k] EXCEPT !.pc = "prune", !.seenMap = configMap,
                                  !.fresh = {ConfigMap}])
     \/ /\ ~configMap.present \/ job[k].young
        /\ Step(k, NoJob)
  /\ UNCHANGED <<users, remote, configMap, dirty, raced, faults>>

\* The entries of k that it has not to keep.
StaleEntries(k) ==
  {e \in job[k].seenMap.entries : e[1] = k /\ e[2] \notin job[k].keep}

\* removeHealthCheckFromConfigMap updates the ConfigMap, changed or not.
RemoveFromConfigMap(k) ==
  /\ agentInMgmtCluster /\ job[k].pc = "prune"
  /\ IF CanUpdate(k, ConfigMap)
     THEN /\ configMap' = [configMap EXCEPT !.entries = job[k].seenMap.entries
                                                        \ StaleEntries(k)]
          /\ Wrote(k, ConfigMap, configMap' # configMap, NoJob)
          /\ UNCHANGED dirty
     ELSE Fail(k) /\ UNCHANGED configMap
  /\ UNCHANGED <<users, remote, raced, faults>>

Fault == faults < MaxFaults /\ faults' = faults + 1

\* A call fails (or the HealthCheck to deploy is not there): the job ends.
CallFails(k) ==
  /\ job[k].pc # "idle"
  /\ Fault
  /\ Fail(k)
  /\ UNCHANGED <<users, remote, configMap, raced>>

\* The manager restarts: jobs are lost, what was not done is asked for again.
Restart ==
  /\ Fault
  /\ dirty' = dirty \cup {k \in CHCs : job[k].pc # "idle"}
  /\ job' = [k \in CHCs |-> NoJob]
  /\ UNCHANGED <<users, remote, configMap, raced>>

-----------------------------------------------------------------------------
(* Users. *)

Change(affected) ==
  /\ changes < MaxChanges
  /\ changes' = changes + 1
  /\ dirty' = dirty \cup affected
  /\ UNCHANGED <<agentInMgmtCluster, remote, configMap, job, raced, faults>>

ChangeReferences(k) ==
  /\ \E refs \in (SUBSET HealthChecks) \ {wants[k]} :
       wants' = [wants EXCEPT ![k] = refs]
  /\ Change({k})
  /\ UNCHANGED <<matches, spec>>

\* The cluster starts or stops matching, or the CHC is deleted.
ChangeMatch(k) ==
  /\ matches' = [matches EXCEPT ![k] = ~@]
  /\ Change({k})
  /\ UNCHANGED <<wants, spec>>

ChangeHealthCheck(h) ==
  /\ spec' = [spec EXCEPT ![h] = @ + 1]
  /\ Change({k \in CHCs : matches[k] /\ h \in wants[k]})
  /\ UNCHANGED <<wants, matches>>

JobStep(k) ==
  \/ StartDeploy(k) \/ StartCleanup(k)
  \/ FetchHealthCheck(k) \/ GetHealthCheck(k) \/ WriteHealthCheck(k)
  \/ GetConfigMap(k) \/ AddToConfigMap(k)
  \/ ListStale(k) \/ RemoveStale(k) \/ Finish(k)
  \/ ListEntries(k) \/ RemoveFromConfigMap(k)

Next ==
  \/ \E k \in CHCs : JobStep(k) \/ CallFails(k)
  \/ Restart
  \/ \E k \in CHCs : ChangeReferences(k) \/ ChangeMatch(k)
  \/ \E h \in HealthChecks : ChangeHealthCheck(h)

Spec == Init /\ [][Next]_vars

\* The Deployer's workers keep running jobs, and a job that failed is asked
\* for again at the next reconcile.
FairSpec == Spec /\ \A k \in CHCs : WF_vars(JobStep(k))

-----------------------------------------------------------------------------
(* Properties. *)

JobType ==
  [pc : {"idle", "deploy", "get", "write", "prune"},
   keep : SUBSET HealthChecks, todo : SUBSET HealthChecks,
   item : SUBSET HealthChecks, source : Nat,
   seen : [HealthChecks -> Remotes], seenMap : ConfigMaps,
   fresh : SUBSET Objects, young : BOOLEAN]

\* The HealthChecks, the ConfigMap and the jobs are well formed.
TypeOK ==
  /\ agentInMgmtCluster \in BOOLEAN
  /\ wants \in [CHCs -> SUBSET HealthChecks]
  /\ matches \in [CHCs -> BOOLEAN]
  /\ spec \in [HealthChecks -> Nat]
  /\ remote \in [HealthChecks -> Remotes]
  /\ configMap \in ConfigMaps
  /\ dirty \subseteq CHCs
  /\ job \in [CHCs -> JobType]
  /\ raced \subseteq {"deleted", "downgraded"}
  /\ changes \in 0 .. MaxChanges
  /\ faults \in 0 .. MaxFaults

\* The HealthChecks CHC k has in the managed cluster.
Has(k) == IF agentInMgmtCluster
          THEN {h \in HealthChecks : <<k, h>> \in configMap.entries}
          ELSE {h \in HealthChecks : remote[h].present /\ k \in remote[h].owners}

Done(k) == job[k].pc = "idle" /\ k \notin dirty
ShouldHave(k) == IF matches[k] THEN wants[k] ELSE {}

\* A CHC with nothing left to do has nothing in the cluster that it should
\* not have: nothing at all once the cluster is no match or the CHC deleted
\* ("nothing must be deployed in the cluster anymore",
\* clusterhealthcheck_deployer.go:1332-1338).
NothingStale == \A k \in CHCs : Done(k) => Has(k) \subseteq ShouldHave(k)

\* And everything it should have, whatever jobs of other CHCs do to the same
\* HealthChecks.
NothingMissing == \A k \in CHCs : Done(k) => ShouldHave(k) \subseteq Has(k)

\* NothingMissing, as long as no HealthCheck was deleted after another CHC
\* became an owner of it.
NothingMissingUnlessRaced == "deleted" \in raced \/ NothingMissing

\* A step of the job of k that prunes, which has not to keep h.
Prunes(k, h) ==
  /\ job[k].pc = "prune" /\ h \notin job[k].keep
  /\ job'[k].pc # "prune" \/ job'[k].todo # job[k].todo

\* A HealthCheck that stays in the cluster, or an entry of the ConfigMap, is
\* taken away from a CHC only by a job of its own that prunes, and only when
\* that job has not to keep it: no update is lost.
NothingTakenAway ==
  [][\A k \in CHCs, h \in HealthChecks :
       h \in Has(k) /\ ~(h \in Has(k))' /\ (agentInMgmtCluster \/ remote[h].present')
         => Prunes(k, h)]_vars

\* Once nothing changes anymore every HealthCheck is in the cluster exactly
\* when some CHC wants it there, up to date, owned by those CHCs; unless a job
\* deleted what another one had just written, or a job that had fetched the
\* HealthCheck before it changed wrote it after the others did.
InSync ==
  /\ \A k \in CHCs : Has(k) = ShouldHave(k)
  /\ ~agentInMgmtCluster =>
       \A h \in HealthChecks :
         remote[h] = IF \E k \in CHCs : h \in ShouldHave(k)
                     THEN [present |-> TRUE, spec |-> spec[h],
                           owners |-> {k \in CHCs : h \in ShouldHave(k)}]
                     ELSE Absent

EventuallyInSync == <>(raced # {}) \/ <>[]InSync

=============================================================================
