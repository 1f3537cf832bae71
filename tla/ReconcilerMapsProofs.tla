------------------------- MODULE ReconcilerMapsProofs -------------------------
(***************************************************************************)
(* For every set of ClusterHealthChecks, clusters, HealthChecks, labels    *)
(* and specs: the indexes of ClusterHealthCheckReconciler are well formed, *)
(* inverse of each other, mention no ClusterHealthCheck that is gone, and  *)
(* let no change of a report, a ClusterSummary or a cluster go unnoticed.  *)
(***************************************************************************)
EXTENDS ReconcilerMaps, TLAPS

\* What a reconcile starts and ends with.
LEMMA IdleType ==
  /\ NoSpec \in SpecType /\ Absent \in CHCType /\ Idle \in RecType /\ Unseen \in SeenType
  BY DEF NoSpec, NoSelector, SpecType, Absent, CHCType, Idle, At, RecType, PCs, Unseen,
     SeenType, Content, Unknown

\* A reconcile at one of its steps.
LEMMA AtType ==
  ASSUME NEW p \in PCs, NEW s \in SpecType, NEW m \in SUBSET Clusters
  PROVE  At(p, s, m) \in RecType /\ At(p, s, m).pc = p
  BY DEF At, RecType

\* A reconcile that moves on, and the fields of one.
LEMMA RecSteps ==
  ASSUME NEW r \in RecType
  PROVE  /\ \A p \in PCs : [r EXCEPT !.pc = p] \in RecType
         /\ r.matching \subseteq Clusters /\ r.spec \in SpecType
         /\ r.spec.refs \subseteq HealthChecks /\ r.spec.selector \subseteq Labels
  BY DEF RecType, SpecType

\* What users and the reconciler make of a CHC.
LEMMA CHCSteps ==
  ASSUME NEW x \in CHCType
  PROVE  /\ [x EXCEPT !.finalizer = TRUE] \in CHCType
         /\ [x EXCEPT !.deleting = TRUE] \in CHCType
         /\ \A s \in SpecType : [x EXCEPT !.exists = TRUE, !.spec = s] \in CHCType
         /\ x.spec \in SpecType
  BY DEF CHCType

\* The initial state is well formed.
LEMMA TypeInit == Init => TypeOK
<1> SUFFICES ASSUME Init PROVE TypeOK
  OBVIOUS
<1>1. chc \in [CHCs -> CHCType] /\ rec \in [CHCs -> RecType]
  BY IdleType DEF Init
<1>2. seen \in [CHCs -> [Clusters -> SeenType]] /\ deployed \in [CHCs -> SUBSET Clusters]
  BY IdleType DEF Init
<1>3. report \in [HealthChecks -> Content] /\ summary \in [Clusters -> Content]
  BY DEF Init, Content
<1>4. changes \in 0 .. MaxChanges /\ faults \in 0 .. MaxFaults
  BY MapsAssumption DEF Init
<1> QED
  BY <1>1, <1>2, <1>3, <1>4 DEF Init, TypeOK, NoSelector

\* Every step keeps the state well formed.
LEMMA TypeNext == TypeOK /\ [Next]_vars => TypeOK'
<1> SUFFICES ASSUME TypeOK, [Next]_vars PROVE TypeOK'
  OBVIOUS
<1> USE MapsAssumption
<1> USE DEF TypeOK, world, pending, indexes
<1>1. ASSUME NEW k \in CHCs, Fetch(k) PROVE TypeOK'
  <2>1. chc[k] \in CHCType
    OBVIOUS
  <2>2. [chc[k] EXCEPT !.finalizer = TRUE] \in CHCType /\ chc[k].spec \in SpecType
    BY <2>1, CHCSteps
  <2>3. At("match", chc[k].spec, {}) \in RecType /\ At("cleanMaps", NoSpec, {}) \in RecType
    BY <2>2, AtType, IdleType DEF PCs
  <2>4. rec' \in [CHCs -> RecType]
    BY <1>1, <2>3 DEF Fetch
  <2>5. chc' \in [CHCs -> CHCType]
    <3>1. chc' = chc \/ chc' = [chc EXCEPT ![k] = [@ EXCEPT !.finalizer = TRUE]]
      BY <1>1 DEF Fetch
    <3> QED
      BY <2>2, <3>1
  <2> QED
    BY <1>1, <2>4, <2>5 DEF Fetch
<1>2. ASSUME NEW k \in CHCs, GetMatchingClusters(k) PROVE TypeOK'
  <2>s. rec[k].spec \in SpecType /\ Matching(rec[k].spec.selector) \subseteq Clusters
    BY RecSteps DEF Matching
  <2>1. At("clusterMaps", rec[k].spec, Matching(rec[k].spec.selector)) \in RecType
    BY <2>s, AtType DEF PCs
  <2>2. rec' \in [CHCs -> RecType]
    BY <1>2, <2>1, IdleType DEF GetMatchingClusters
  <2> QED
    BY <1>2, <2>2 DEF GetMatchingClusters, Fault
<1>3. ASSUME NEW k \in CHCs, UpdateClusterMaps(k) PROVE TypeOK'
  <2>1. rec' \in [CHCs -> RecType] /\ rec[k].matching \subseteq Clusters
    BY <1>3, RecSteps DEF UpdateClusterMaps, PCs
  <2> QED
    BY <1>3, <2>1 DEF UpdateClusterMaps
<1>4. ASSUME NEW k \in CHCs, UpdateHealthCheckMaps(k) PROVE TypeOK'
  <2>1. rec' \in [CHCs -> RecType] /\ rec[k].spec.refs \subseteq HealthChecks
    BY <1>4, RecSteps DEF UpdateHealthCheckMaps, PCs
  <2> QED
    BY <1>4, <2>1 DEF UpdateHealthCheckMaps
<1>5. ASSUME NEW k \in CHCs, UpdateAddonsLivenessCHCMaps(k) PROVE TypeOK'
  <2>1. rec' \in [CHCs -> RecType]
    BY <1>5, RecSteps DEF UpdateAddonsLivenessCHCMaps, PCs
  <2> QED
    BY <1>5, <2>1 DEF UpdateAddonsLivenessCHCMaps
<1>6. ASSUME NEW k \in CHCs, UpdateSelector(k) PROVE TypeOK'
  <2>1. rec' \in [CHCs -> RecType] /\ rec[k].spec.selector \subseteq Labels
    BY <1>6, RecSteps DEF UpdateSelector, PCs
  <2> QED
    BY <1>6, <2>1 DEF UpdateSelector, AsSelector
<1>7. ASSUME NEW k \in CHCs, DeployAndEvaluate(k) PROVE TypeOK'
  <2>1. rec[k].matching \subseteq Clusters
    BY <1>7, RecSteps
  <2>2. \A c \in Clusters : [reports |-> report, summary |-> summary[c]] \in SeenType
    BY DEF SeenType
  <2>3. seen' \in [CHCs -> [Clusters -> SeenType]]
    BY <1>7, <2>2, IdleType DEF DeployAndEvaluate
  <2> QED
    BY <1>7, <2>1, <2>3, IdleType DEF DeployAndEvaluate
<1>8. ASSUME NEW k \in CHCs, CleanMaps(k) PROVE TypeOK'
  <2>1. rec' \in [CHCs -> RecType]
    BY <1>8, RecSteps DEF CleanMaps, PCs
  <2> QED
    BY <1>8, <2>1 DEF CleanMaps, NoSelector
<1>9. ASSUME NEW k \in CHCs, Undeploy(k) PROVE TypeOK'
  <2>1. chc' \in [CHCs -> CHCType] /\ deployed' \in [CHCs -> SUBSET Clusters]
    <3>1. chc' = chc \/ chc' = [chc EXCEPT ![k] = Absent]
      BY <1>9 DEF Undeploy
    <3>2. deployed' = deployed \/ deployed' = [deployed EXCEPT ![k] = {}]
      BY <1>9 DEF Undeploy
    <3>3. chc' \in [CHCs -> CHCType]
      BY <3>1, IdleType
    <3> QED
      BY <3>2, <3>3
  <2>2. seen' \in [CHCs -> [Clusters -> SeenType]] /\ rec' \in [CHCs -> RecType]
    BY <1>9, IdleType DEF Undeploy
  <2> QED
    BY <1>9, <2>1, <2>2 DEF Undeploy
<1>10. ASSUME NEW k \in CHCs, DeleteCHC(k) PROVE TypeOK'
  <2>1. chc' \in [CHCs -> CHCType]
    BY <1>10, CHCSteps, IdleType DEF DeleteCHC
  <2> QED
    BY <1>10, <2>1 DEF DeleteCHC, Change
<1>11. ASSUME NEW k \in CHCs, NEW s \in Specs, SetSpec(k, s) PROVE TypeOK'
  <2>1. chc' \in [CHCs -> CHCType]
    BY <1>11, CHCSteps DEF SetSpec
  <2> QED
    BY <1>11, <2>1 DEF SetSpec, Change
<1>12. ASSUME NEW c \in Clusters, ForACluster(c) PROVE TypeOK'
  BY <1>12 DEF ForACluster, NowMatching
<1>13. ASSUME NEW c \in Clusters, ForClusterSummary(c) PROVE TypeOK'
  BY <1>13 DEF ForClusterSummary, Handle, NowMatching
<1>14. ASSUME NEW c \in Clusters, ChangeLabels(c) PROVE TypeOK'
  BY <1>14 DEF ChangeLabels, Change
<1>15. ASSUME NEW c \in Clusters, SummaryChanges(c) PROVE TypeOK'
  BY <1>15 DEF SummaryChanges, Change, Other, Content
<1>16. ASSUME NEW h \in HealthChecks, ForHealthCheck(h) PROVE TypeOK'
  BY <1>16 DEF ForHealthCheck, Handle
<1>17. ASSUME NEW h \in HealthChecks, ReportChanges(h) PROVE TypeOK'
  BY <1>17 DEF ReportChanges, Change, Other, Content
<1>18. CASE Restart
  <2>1. rec' \in [CHCs -> RecType]
    BY <1>18, IdleType DEF Restart
  <2> QED
    BY <1>18, <2>1 DEF Restart, Fault, NoSelector
<1>19. CASE UNCHANGED vars
  BY <1>19 DEF vars
<1> QED
  BY <1>1, <1>2, <1>3, <1>4, <1>5, <1>6, <1>7, <1>8, <1>9, <1>10, <1>11, <1>12,
     <1>13, <1>14, <1>15, <1>16, <1>17, <1>18, <1>19 DEF Next, ReconcilerStep

\* The reconciler's state is always well formed, whatever interleaving of
\* reconciles, MapFuncs, changes and restarts.
THEOREM TypeCorrect == Spec => []TypeOK
  BY TypeInit, TypeNext, PTL DEF Spec

-----------------------------------------------------------------------------

\* updateMaps and cleanMaps change two maps that mirror each other in one
\* critical section, hence keep them inverse.
LEMMA IndexesNext == TypeOK /\ IndexesAgree /\ [Next]_vars => IndexesAgree'
<1> SUFFICES ASSUME TypeOK, IndexesAgree, [Next]_vars PROVE IndexesAgree'
  OBVIOUS
<1>1. CASE UNCHANGED <<ClusterMap, CHCToClusterMap, HealthCheckMap, CHCToHealthCheckMap>>
  BY <1>1 DEF IndexesAgree
<1>2. ASSUME NEW k \in CHCs, UpdateClusterMaps(k) PROVE IndexesAgree'
  <2>1. \A c \in Clusters : k \in ClusterMap'[c] <=> c \in CHCToClusterMap'[k]
    BY <1>2 DEF UpdateClusterMaps, IndexesAgree, TypeOK
  <2>2. \A j \in CHCs \ {k}, c \in Clusters :
          /\ j \in ClusterMap'[c] <=> j \in ClusterMap[c]
          /\ CHCToClusterMap'[j] = CHCToClusterMap[j]
    BY <1>2 DEF UpdateClusterMaps, TypeOK
  <2> QED
    BY <1>2, <2>1, <2>2 DEF UpdateClusterMaps, IndexesAgree
<1>3. ASSUME NEW k \in CHCs, UpdateHealthCheckMaps(k) PROVE IndexesAgree'
  <2>1. \A h \in HealthChecks : k \in HealthCheckMap'[h] <=> h \in CHCToHealthCheckMap'[k]
    BY <1>3 DEF UpdateHealthCheckMaps, IndexesAgree, TypeOK
  <2>2. \A j \in CHCs \ {k}, h \in HealthChecks :
          /\ j \in HealthCheckMap'[h] <=> j \in HealthCheckMap[h]
          /\ CHCToHealthCheckMap'[j] = CHCToHealthCheckMap[j]
    BY <1>3 DEF UpdateHealthCheckMaps, TypeOK
  <2> QED
    BY <1>3, <2>1, <2>2 DEF UpdateHealthCheckMaps, IndexesAgree
<1>4. ASSUME NEW k \in CHCs, CleanMaps(k) PROVE IndexesAgree'
  BY <1>4 DEF CleanMaps, IndexesAgree, TypeOK
<1>5. CASE Restart
  BY <1>5 DEF Restart, IndexesAgree
<1> QED
  BY <1>1, <1>2, <1>3, <1>4, <1>5 DEF Next, ReconcilerStep, vars, world, indexes,
     Fetch, GetMatchingClusters, UpdateAddonsLivenessCHCMaps, UpdateSelector,
     DeployAndEvaluate, Undeploy, DeleteCHC, SetSpec, ForACluster, ForClusterSummary,
     ChangeLabels, SummaryChanges, ForHealthCheck, ReportChanges

\* The two pairs of maps are inverse of each other at all times.
THEOREM IndexesInverse == Spec => []IndexesAgree
<1>1. Init => IndexesAgree
  BY DEF Init, IndexesAgree
<1> QED
  BY <1>1, TypeInit, TypeNext, IndexesNext, PTL DEF Spec

-----------------------------------------------------------------------------

\* The strengthening of NoGhosts: a CHC in an index, or about to be put in
\* one, still has its finalizer, and the reconcile that is about to remove
\* the finalizer has already taken the CHC out of every index.
Updating(k) == rec[k].pc \in {"match", "clusterMaps", "healthCheckMaps", "addonsMap",
                              "selectorMap", "deploy", "cleanMaps"}
Held(k) == Indexed(k) \/ Updating(k) => chc[k].exists /\ chc[k].finalizer
Forgotten(k) == rec[k].pc = "undeploy" => ~Indexed(k)
GhostInv == \A k \in CHCs : Held(k) /\ Forgotten(k) /\ (chc[k].deleting => chc[k].finalizer)

\* Every step keeps the strengthening.
LEMMA GhostNext == TypeOK /\ GhostInv /\ [Next]_vars => GhostInv'
<1> SUFFICES ASSUME TypeOK, GhostInv, [Next]_vars, NEW j \in CHCs
             PROVE (Held(j) /\ Forgotten(j) /\ (chc[j].deleting => chc[j].finalizer))'
  BY DEF GhostInv
<1> USE DEF GhostInv, Held, Forgotten, Updating, Indexed, world, indexes
<1>1. ASSUME NEW k \in CHCs, Fetch(k) PROVE GhostInv'
  <2>1. \A i \in CHCs \ {k} : rec'[i] = rec[i] /\ chc'[i] = chc[i]
    BY <1>1 DEF Fetch, TypeOK
  <2>2. CASE ~chc[k].exists
    BY <1>1, <2>2 DEF Fetch
  <2>3. CASE chc[k].exists /\ chc[k].deleting
    BY <1>1, <2>1, <2>3 DEF Fetch, At, TypeOK
  <2>4. CASE chc[k].exists /\ ~chc[k].deleting
    <3>1. rec'[k] = At("match", chc[k].spec, {})
      BY <1>1, <2>4 DEF Fetch, TypeOK
    <3>2. chc'[k] = [chc[k] EXCEPT !.finalizer = TRUE]
      BY <1>1, <2>4 DEF Fetch, TypeOK
    <3>3. rec'[k].pc = "match"
      BY <3>1 DEF At
    <3>4. /\ chc'[k].exists /\ chc'[k].finalizer
          /\ chc'[k].deleting = chc[k].deleting
      BY <2>4, <3>2 DEF TypeOK, CHCType
    <3> QED
      BY <1>1, <2>1, <3>3, <3>4 DEF Fetch
  <2> QED
    BY <2>2, <2>3, <2>4
<1>2. ASSUME NEW k \in CHCs, GetMatchingClusters(k) PROVE GhostInv'
  <2>1. \A i \in CHCs \ {k} : rec'[i] = rec[i]
    BY <1>2 DEF GetMatchingClusters, TypeOK
  <2>2. rec'[k].pc \in {"idle", "clusterMaps"}
    <3>1. \/ rec'[k] = Idle
          \/ rec'[k] = At("clusterMaps", rec[k].spec, Matching(rec[k].spec.selector))
      BY <1>2 DEF GetMatchingClusters, TypeOK
    <3> QED
      BY <3>1 DEF At, Idle
  <2> QED
    BY <1>2, <2>1, <2>2 DEF GetMatchingClusters
<1>3. ASSUME NEW k \in CHCs, UpdateClusterMaps(k) PROVE GhostInv'
  <2>1. \A i \in CHCs \ {k}, c \in Clusters : i \in ClusterMap'[c] => i \in ClusterMap[c]
    BY <1>3 DEF UpdateClusterMaps, TypeOK
  <2> QED
    BY <1>3, <2>1 DEF UpdateClusterMaps, TypeOK
<1>4. ASSUME NEW k \in CHCs, UpdateHealthCheckMaps(k) PROVE GhostInv'
  <2>1. \A i \in CHCs \ {k}, h \in HealthChecks :
          i \in HealthCheckMap'[h] => i \in HealthCheckMap[h]
    BY <1>4 DEF UpdateHealthCheckMaps, TypeOK
  <2> QED
    BY <1>4, <2>1 DEF UpdateHealthCheckMaps, TypeOK
<1>5. ASSUME NEW k \in CHCs, UpdateAddonsLivenessCHCMaps(k) PROVE GhostInv'
  BY <1>5 DEF UpdateAddonsLivenessCHCMaps, TypeOK
<1>6. ASSUME NEW k \in CHCs, UpdateSelector(k) PROVE GhostInv'
  BY <1>6 DEF UpdateSelector, TypeOK
<1>7. ASSUME NEW k \in CHCs, DeployAndEvaluate(k) PROVE GhostInv'
  BY <1>7 DEF DeployAndEvaluate, Idle, At, TypeOK
<1>8. ASSUME NEW k \in CHCs, CleanMaps(k) PROVE GhostInv'
  BY <1>8 DEF CleanMaps, TypeOK
<1>9. ASSUME NEW k \in CHCs, Undeploy(k) PROVE GhostInv'
  BY <1>9 DEF Undeploy, Idle, At, Absent, TypeOK
<1>10. ASSUME NEW k \in CHCs, DeleteCHC(k) PROVE GhostInv'
  BY <1>10 DEF DeleteCHC, Absent, TypeOK
<1>11. ASSUME NEW k \in CHCs, NEW s \in Specs, SetSpec(k, s) PROVE GhostInv'
  BY <1>11 DEF SetSpec, TypeOK
<1>12. CASE UNCHANGED <<chc, rec, indexes>>
  BY <1>12
<1>13. CASE Restart
  BY <1>13 DEF Restart, Idle, At, TypeOK
<1> QED
  BY <1>1, <1>2, <1>3, <1>4, <1>5, <1>6, <1>7, <1>8, <1>9, <1>10, <1>11, <1>12, <1>13
     DEF Next, ReconcilerStep, vars, ForACluster, ForClusterSummary,
         ChangeLabels, SummaryChanges, ForHealthCheck, ReportChanges

\* No index ever mentions a ClusterHealthCheck that is gone, so no MapFunc
\* queues one: cleanMaps cannot be undone by a concurrent reconcile.
THEOREM NoGhostsEver == Spec => []NoGhosts
<1>1. Init => GhostInv
  BY DEF Init, GhostInv, Held, Forgotten, Updating, Indexed, Absent, Idle, At
<1>2. GhostInv => NoGhosts
  BY DEF GhostInv, NoGhosts, Held
<1> QED
  BY <1>1, <1>2, TypeInit, TypeNext, GhostNext, PTL DEF Spec

-----------------------------------------------------------------------------
(* Nothing is missed: the reconcile of a CHC, step by step, against what     *)
(* happens to it and around it meanwhile.                                    *)

\* The steps of a reconcile after the update of each index.
AfterAddons == {"selectorMap", "deploy"}
AfterHealthChecks == {"addonsMap"} \cup AfterAddons
AfterClusters == {"healthCheckMaps"} \cup AfterHealthChecks

\* The indexes a reconcile has updated say what it read, and only a CHC
\* marked for deletion is being cleaned up.
Updated(k) ==
  /\ rec[k].pc \in AfterClusters => CHCToClusterMap[k] = rec[k].matching
  /\ rec[k].pc \in AfterHealthChecks => CHCToHealthCheckMap[k] = rec[k].spec.refs
  /\ rec[k].pc \in AfterAddons => (k \in AddonsLivenessCHC <=> rec[k].spec.addons)
  /\ rec[k].pc \in {"cleanMaps", "undeploy"} => chc[k].deleting

\* The reconciler is done with k: the indexes follow its spec, and what was
\* read for a cluster is current, or an event says that it is not.
IndexesCurrent(k) ==
  /\ CHCToClusterMap[k] = deployed[k]
  /\ CHCToHealthCheckMap[k] = chc[k].spec.refs
  /\ k \in AddonsLivenessCHC <=> chc[k].spec.addons
ReportsCurrent(k) ==
  \A c \in deployed[k], h \in chc[k].spec.refs :
    seen[k][c].reports[h] = report[h] \/ <<"healthCheck", h>> \in events
SummariesCurrent(k) ==
  chc[k].spec.addons =>
    \A c \in deployed[k] : seen[k][c].summary = summary[c] \/ <<"summary", c>> \in events

\* Unless another reconcile is due, the one in progress works on the spec k
\* has, and after one that ended nothing is out of date.
Waiting(k) == Live(k) /\ k \notin queue
Current(k) ==
  /\ Waiting(k) /\ rec[k].pc # "idle" => rec[k].spec = chc[k].spec
  /\ Waiting(k) /\ rec[k].pc = "idle" =>
       IndexesCurrent(k) /\ ReportsCurrent(k) /\ SummariesCurrent(k)

\* A cluster deployed to is in ClusterMap until the reconcile that found out
\* that it does not match has updated ClusterMap.
Followed(k) ==
  rec[k].pc \in {"idle", "match", "clusterMaps"} => deployed[k] \subseteq CHCToClusterMap[k]

\* A cluster deployed to matches, or the event of its change is still to come.
StillMatches(c, selector) == labels[c] \in selector \/ oldLabels[c] # None
Matched(k) ==
  /\ Waiting(k) /\ rec[k].pc = "idle" =>
       \A c \in deployed[k] : StillMatches(c, chc[k].spec.selector)
  /\ Waiting(k) /\ rec[k].pc \in {"clusterMaps"} \cup AfterClusters =>
       \A c \in deployed[k] \cap rec[k].matching : StillMatches(c, rec[k].spec.selector)

ReportInv == \A k \in CHCs : Updated(k) /\ Current(k)
ClusterInv == faults = 0 => \A k \in CHCs : Followed(k) /\ Matched(k)

\* A step that leaves alone what concerns k.
SameFor(k) ==
  /\ chc'[k] = chc[k] /\ rec'[k] = rec[k]
  /\ deployed'[k] = deployed[k] /\ seen'[k] = seen[k]
  /\ CHCToClusterMap'[k] = CHCToClusterMap[k]
  /\ CHCToHealthCheckMap'[k] = CHCToHealthCheckMap[k]
  /\ k \in AddonsLivenessCHC' <=> k \in AddonsLivenessCHC
  /\ k \in queue => k \in queue'

\* Such a step keeps what holds of k, if it drops no event and changes no
\* report.
LEMMA ReportsKept ==
  ASSUME NEW k \in CHCs, Updated(k), Current(k), SameFor(k),
         report' = report, summary' = summary, events \subseteq events'
  PROVE  Updated(k)' /\ Current(k)'
<1>1. Updated(k)'
  BY DEF Updated, SameFor
<1>2. Waiting(k)' => Waiting(k)
  BY DEF Waiting, Live, SameFor
<1>3. IndexesCurrent(k) => IndexesCurrent(k)'
  BY DEF IndexesCurrent, SameFor
<1>4. ReportsCurrent(k) => ReportsCurrent(k)'
  BY DEF ReportsCurrent, SameFor
<1>5. SummariesCurrent(k) => SummariesCurrent(k)'
  BY DEF SummariesCurrent, SameFor
<1>6. rec'[k] = rec[k] /\ chc'[k] = chc[k]
  BY DEF SameFor
<1> QED
  BY <1>1, <1>2, <1>3, <1>4, <1>5, <1>6 DEF Current

\* A step that queues k, or leaves it deleted, has nothing to keep but what
\* the indexes say.
LEMMA QueuedIsCurrent ==
  ASSUME NEW k \in CHCs, k \in queue' \/ ~Live(k)'
  PROVE  Current(k)' /\ Matched(k)'
  BY DEF Current, Waiting, Matched

\* The reconcile of k moves on to its next step.
Moves(k, p) == rec' = [rec EXCEPT ![k] = [@ EXCEPT !.pc = p]]

\* It keeps what the reconcile read and the other reconciles as they are.
LEMMA MovesOn ==
  ASSUME TypeOK, NEW k \in CHCs, NEW p \in PCs, Moves(k, p)
  PROVE  /\ rec'[k].pc = p /\ rec'[k].spec = rec[k].spec
         /\ rec'[k].matching = rec[k].matching
         /\ \A j \in CHCs \ {k} : rec'[j] = rec[j]
<1>1. rec'[k] = [rec[k] EXCEPT !.pc = p] /\ rec[k] \in RecType
  BY DEF Moves, TypeOK
<1>2. \A j \in CHCs \ {k} : rec'[j] = rec[j]
  BY DEF Moves, TypeOK
<1> QED
  BY <1>1, <1>2 DEF RecType

\* The reconcile of k ends.
LEMMA Ends ==
  ASSUME TypeOK, NEW k \in CHCs, rec' = [rec EXCEPT ![k] = Idle]
  PROVE  rec'[k].pc = "idle" /\ \A j \in CHCs \ {k} : rec'[j] = rec[j]
  BY DEF TypeOK, Idle, At

\* A step of the reconcile of one CHC, or of its user, leaves the others alone.
LEMMA OthersSame ==
  ASSUME TypeOK, NEW k \in CHCs, NEW j \in CHCs, j # k,
         ReconcilerStep(k) \/ DeleteCHC(k) \/ \E s \in Specs : SetSpec(k, s)
  PROVE  /\ SameFor(j)
         /\ report' = report /\ summary' = summary /\ events' = events
         /\ labels' = labels /\ oldLabels' = oldLabels
<1> USE DEF SameFor, world, pending, indexes, TypeOK
<1>1. CASE Fetch(k)
  BY <1>1 DEF Fetch
<1>2. CASE GetMatchingClusters(k)
  BY <1>2 DEF GetMatchingClusters
<1>3. CASE UpdateClusterMaps(k)
  BY <1>3 DEF UpdateClusterMaps
<1>4. CASE UpdateHealthCheckMaps(k)
  BY <1>4 DEF UpdateHealthCheckMaps
<1>5. CASE UpdateAddonsLivenessCHCMaps(k)
  BY <1>5 DEF UpdateAddonsLivenessCHCMaps
<1>6. CASE UpdateSelector(k)
  BY <1>6 DEF UpdateSelector
<1>7. CASE DeployAndEvaluate(k)
  BY <1>7 DEF DeployAndEvaluate
<1>8. CASE CleanMaps(k)
  BY <1>8 DEF CleanMaps
<1>9. CASE Undeploy(k)
  BY <1>9 DEF Undeploy
<1>10. CASE DeleteCHC(k)
  BY <1>10 DEF DeleteCHC
<1>11. CASE \E s \in Specs : SetSpec(k, s)
  BY <1>11 DEF SetSpec
<1> QED
  BY <1>1, <1>2, <1>3, <1>4, <1>5, <1>6, <1>7, <1>8, <1>9, <1>10, <1>11 DEF ReconcilerStep

\* What a step of its own reconcile, or of its user, makes of k.
LEMMA OwnStep ==
  ASSUME TypeOK, NEW k \in CHCs, Updated(k), Current(k),
         ReconcilerStep(k) \/ DeleteCHC(k) \/ \E s \in Specs : SetSpec(k, s)
  PROVE  Updated(k)' /\ Current(k)'
<1> DEFINE r == rec[k]
<1> USE DEF world, pending, indexes
<1>t. r \in RecType /\ chc[k] \in CHCType
  BY DEF TypeOK
<1>1. CASE Fetch(k)
  <2>1. CASE ~chc[k].exists
    <3>1. rec' = rec /\ chc' = chc
      BY <1>1, <2>1 DEF Fetch
    <3>2. ~Live(k)'
      BY <2>1, <3>1 DEF Live
    <3>3. Updated(k)'
      BY <1>1, <3>1 DEF Fetch, Updated
    <3> QED
      BY <3>2, <3>3, QueuedIsCurrent
  <2>2. CASE chc[k].exists /\ chc[k].deleting
    <3>1. rec'[k] = At("cleanMaps", NoSpec, {}) /\ chc' = chc
      BY <1>1, <2>2 DEF Fetch, TypeOK
    <3>2. ~Live(k)'
      BY <2>2, <3>1 DEF Live
    <3>3. rec'[k].pc = "cleanMaps"
      BY <3>1 DEF At
    <3>4. Updated(k)'
      BY <2>2, <3>1, <3>3 DEF Updated, AfterClusters, AfterHealthChecks, AfterAddons
    <3> QED
      BY <3>2, <3>4, QueuedIsCurrent
  <2>3. CASE chc[k].exists /\ ~chc[k].deleting
    <3>1. /\ rec'[k] = At("match", chc[k].spec, {})
          /\ chc'[k] = [chc[k] EXCEPT !.finalizer = TRUE]
      BY <1>1, <2>3 DEF Fetch, TypeOK
    <3>2. rec'[k].pc = "match" /\ rec'[k].spec = chc[k].spec
      BY <3>1 DEF At
    <3>3. chc'[k].spec = chc[k].spec
      BY <1>t, <3>1 DEF CHCType
    <3>4. Updated(k)'
      BY <3>2 DEF Updated, AfterClusters, AfterHealthChecks, AfterAddons
    <3> QED
      BY <3>2, <3>3, <3>4 DEF Current
  <2> QED
    BY <2>1, <2>2, <2>3
<1>2. CASE GetMatchingClusters(k)
  <2>1. UNCHANGED <<chc, deployed, CHCToClusterMap, CHCToHealthCheckMap, AddonsLivenessCHC>>
    BY <1>2 DEF GetMatchingClusters
  <2>2. CASE queue' = queue \cup {k} /\ rec' = [rec EXCEPT ![k] = Idle]
    <3>1. Updated(k)'
      BY <2>2, Ends DEF Updated, AfterClusters, AfterHealthChecks, AfterAddons
    <3> QED
      BY <2>2, <3>1, QueuedIsCurrent
  <2>3. CASE queue' = queue /\ rec' = [rec EXCEPT ![k] = At("clusterMaps", rec[k].spec,
                                             Matching(rec[k].spec.selector))]
    <3>1. rec'[k] = At("clusterMaps", rec[k].spec, Matching(rec[k].spec.selector))
      BY <2>3 DEF TypeOK
    <3>2. rec'[k].pc = "clusterMaps" /\ rec'[k].spec = rec[k].spec
      BY <3>1 DEF At
    <3>3. Updated(k)'
      BY <3>2 DEF Updated, AfterClusters, AfterHealthChecks, AfterAddons
    <3>4. rec[k].pc = "match"
      BY <1>2 DEF GetMatchingClusters
    <3> QED
      BY <2>1, <2>3, <3>2, <3>3, <3>4 DEF Current, Waiting, Live
  <2> QED
    BY <1>2, <2>2, <2>3 DEF GetMatchingClusters
<1>3. CASE UpdateClusterMaps(k)
  <2>1. Moves(k, "healthCheckMaps") /\ rec[k].pc = "clusterMaps"
    BY <1>3 DEF UpdateClusterMaps, Moves
  <2>2. /\ rec'[k].pc = "healthCheckMaps" /\ rec'[k].spec = rec[k].spec
        /\ rec'[k].matching = rec[k].matching
    BY <2>1, MovesOn DEF PCs
  <2>3. CHCToClusterMap'[k] = rec[k].matching
    BY <1>3 DEF UpdateClusterMaps, TypeOK
  <2>4. Updated(k)'
    BY <2>2, <2>3 DEF Updated, AfterClusters, AfterHealthChecks, AfterAddons
  <2> QED
    BY <1>3, <2>1, <2>2, <2>4 DEF UpdateClusterMaps, Current, Waiting, Live
<1>4. CASE UpdateHealthCheckMaps(k)
  <2>1. Moves(k, "addonsMap") /\ rec[k].pc = "healthCheckMaps"
    BY <1>4 DEF UpdateHealthCheckMaps, Moves
  <2>2. /\ rec'[k].pc = "addonsMap" /\ rec'[k].spec = rec[k].spec
        /\ rec'[k].matching = rec[k].matching
    BY <2>1, MovesOn DEF PCs
  <2>3. CHCToHealthCheckMap'[k] = rec[k].spec.refs /\ CHCToClusterMap' = CHCToClusterMap
    BY <1>4 DEF UpdateHealthCheckMaps, TypeOK
  <2>4. Updated(k)'
    BY <2>1, <2>2, <2>3 DEF Updated, AfterClusters, AfterHealthChecks, AfterAddons
  <2> QED
    BY <1>4, <2>1, <2>2, <2>4 DEF UpdateHealthCheckMaps, Current, Waiting, Live
<1>5. CASE UpdateAddonsLivenessCHCMaps(k)
  <2>1. Moves(k, "selectorMap") /\ rec[k].pc = "addonsMap"
    BY <1>5 DEF UpdateAddonsLivenessCHCMaps, Moves
  <2>2. /\ rec'[k].pc = "selectorMap" /\ rec'[k].spec = rec[k].spec
        /\ rec'[k].matching = rec[k].matching
    BY <2>1, MovesOn DEF PCs
  <2>3. k \in AddonsLivenessCHC' <=> rec[k].spec.addons
    BY <1>5 DEF UpdateAddonsLivenessCHCMaps
  <2>4. UNCHANGED <<CHCToHealthCheckMap, CHCToClusterMap>>
    BY <1>5 DEF UpdateAddonsLivenessCHCMaps
  <2>5. Updated(k)'
    BY <2>1, <2>2, <2>3, <2>4 DEF Updated, AfterClusters, AfterHealthChecks, AfterAddons
  <2> QED
    BY <1>5, <2>1, <2>2, <2>5 DEF UpdateAddonsLivenessCHCMaps, Current, Waiting, Live
<1>6. CASE UpdateSelector(k)
  <2>1. Moves(k, "deploy") /\ rec[k].pc = "selectorMap"
    BY <1>6 DEF UpdateSelector, Moves
  <2>2. /\ rec'[k].pc = "deploy" /\ rec'[k].spec = rec[k].spec
        /\ rec'[k].matching = rec[k].matching
    BY <2>1, MovesOn DEF PCs
  <2>3. UNCHANGED <<CHCToHealthCheckMap, CHCToClusterMap, AddonsLivenessCHC>>
    BY <1>6 DEF UpdateSelector
  <2>4. Updated(k)'
    BY <2>1, <2>2, <2>3 DEF Updated, AfterClusters, AfterHealthChecks, AfterAddons
  <2> QED
    BY <1>6, <2>1, <2>2, <2>4 DEF UpdateSelector, Current, Waiting, Live
<1>7. CASE DeployAndEvaluate(k)
  <2>1. rec'[k].pc = "idle" /\ rec[k].pc = "deploy"
    BY <1>7, Ends DEF DeployAndEvaluate
  <2>2. UNCHANGED <<chc, report, summary, events, CHCToHealthCheckMap, CHCToClusterMap,
                    AddonsLivenessCHC>>
    BY <1>7 DEF DeployAndEvaluate
  <2>3. Updated(k)'
    BY <2>1 DEF Updated, AfterClusters, AfterHealthChecks, AfterAddons
  <2>4. CASE k \in queue'
    BY <2>3, <2>4, QueuedIsCurrent
  <2>5. CASE ~Live(k)
    BY <2>2, <2>3, <2>5, QueuedIsCurrent DEF Live
  <2>6. CASE k \notin queue' /\ Live(k)
    <3>1. deployed[k] = rec[k].matching /\ k \notin queue
      BY <1>7, <2>6 DEF DeployAndEvaluate
    <3>2. rec[k].spec = chc[k].spec
      BY <2>1, <2>6, <3>1 DEF Current, Waiting
    <3>3. deployed'[k] = rec[k].matching
      BY <1>7 DEF DeployAndEvaluate, TypeOK
    <3>4. \A c \in deployed'[k] :
            seen'[k][c].reports = report /\ seen'[k][c].summary = summary[c]
      <4>1. deployed'[k] \subseteq Clusters
        BY <1>t, <3>3 DEF RecType
      <4>2. \A c \in Clusters : c \in rec[k].matching =>
              seen'[k][c] = [reports |-> report, summary |-> summary[c]]
        BY <1>7, <3>1 DEF DeployAndEvaluate, TypeOK
      <4>3. ASSUME NEW c \in deployed'[k]
            PROVE  seen'[k][c].reports = report /\ seen'[k][c].summary = summary[c]
        <5>1. seen'[k][c] = [reports |-> report, summary |-> summary[c]]
          BY <3>3, <4>1, <4>2
        <5> QED
          BY <5>1
      <4> QED
        BY <4>3
    <3>5. IndexesCurrent(k)'
      BY <2>1, <2>2, <3>2, <3>3 DEF IndexesCurrent, Updated, AfterClusters,
         AfterHealthChecks, AfterAddons
    <3>6. ReportsCurrent(k)' /\ SummariesCurrent(k)'
      BY <2>2, <3>4 DEF ReportsCurrent, SummariesCurrent
    <3> QED
      BY <2>1, <2>3, <3>5, <3>6 DEF Current
  <2> QED
    BY <2>4, <2>5, <2>6
<1>8. CASE CleanMaps(k)
  <2>1. Moves(k, "undeploy") /\ rec[k].pc = "cleanMaps" /\ chc' = chc
    BY <1>8 DEF CleanMaps, Moves
  <2>2. rec'[k].pc = "undeploy"
    BY <2>1, MovesOn DEF PCs
  <2>3. chc'[k].deleting
    BY <2>1 DEF Updated
  <2>4. Updated(k)'
    BY <2>2, <2>3 DEF Updated, AfterClusters, AfterHealthChecks, AfterAddons
  <2> QED
    BY <2>3, <2>4, QueuedIsCurrent DEF Live
<1>9. CASE Undeploy(k)
  <2>1. rec'[k].pc = "idle"
    BY <1>9, Ends DEF Undeploy
  <2>2. Updated(k)'
    BY <2>1 DEF Updated, AfterClusters, AfterHealthChecks, AfterAddons
  <2>3. k \in queue' \/ ~Live(k)'
    <3>1. k \in queue' \/ chc' = [chc EXCEPT ![k] = Absent]
      BY <1>9 DEF Undeploy
    <3> QED
      BY <3>1 DEF Live, Absent, TypeOK
  <2> QED
    BY <2>2, <2>3, QueuedIsCurrent
<1>10. CASE DeleteCHC(k)
  <2>1. /\ UNCHANGED <<rec, CHCToHealthCheckMap, CHCToClusterMap, AddonsLivenessCHC>>
        /\ k \in queue' /\ ~chc[k].deleting
    BY <1>10 DEF DeleteCHC
  <2>2. Updated(k)'
    BY <2>1 DEF Updated
  <2> QED
    BY <2>1, <2>2, QueuedIsCurrent
<1>11. CASE \E s \in Specs : SetSpec(k, s)
  <2>1. /\ UNCHANGED <<rec, CHCToHealthCheckMap, CHCToClusterMap, AddonsLivenessCHC>>
        /\ k \in queue' /\ ~chc[k].deleting
    BY <1>11 DEF SetSpec
  <2>2. Updated(k)'
    BY <2>1 DEF Updated
  <2> QED
    BY <2>1, <2>2, QueuedIsCurrent
<1> QED
  BY <1>1, <1>2, <1>3, <1>4, <1>5, <1>6, <1>7, <1>8, <1>9, <1>10, <1>11 DEF ReconcilerStep

\* Every step keeps the reports current.
LEMMA ReportNext == TypeOK /\ IndexesAgree /\ ReportInv /\ [Next]_vars => ReportInv'
<1> SUFFICES ASSUME TypeOK, IndexesAgree, ReportInv, [Next]_vars, NEW k \in CHCs
             PROVE  Updated(k)' /\ Current(k)'
  BY DEF ReportInv
<1> USE DEF world, pending, indexes
<1>k. Updated(k) /\ Current(k)
  BY DEF ReportInv
<1>1. ASSUME NEW j \in CHCs,
             ReconcilerStep(j) \/ DeleteCHC(j) \/ \E s \in Specs : SetSpec(j, s)
      PROVE  Updated(k)' /\ Current(k)'
  <2>1. CASE j = k
    BY <1>k, <1>1, <2>1, OwnStep
  <2>2. CASE j # k
    BY <1>k, <1>1, <2>2, OthersSame, ReportsKept
  <2> QED
    BY <2>1, <2>2
<1>2. ASSUME NEW c \in Clusters, ForACluster(c) PROVE Updated(k)' /\ Current(k)'
  BY <1>k, <1>2, ReportsKept DEF ForACluster, SameFor
<1>3. ASSUME NEW c \in Clusters, ForClusterSummary(c) PROVE Updated(k)' /\ Current(k)'
  <2>1. /\ events' = events \ {<<"summary", c>>} /\ SameFor(k)
        /\ UNCHANGED <<chc, report, summary, deployed, seen, rec, indexes>>
        /\ (ClusterMap[c] \cap AddonsLivenessCHC) \subseteq queue'
    BY <1>3 DEF ForClusterSummary, Handle, SameFor
  <2>2. Updated(k)'
    BY <1>k, <2>1 DEF Updated
  <2>3. CASE k \in queue' \/ rec[k].pc # "idle" \/ ~Live(k)
    <3>1. rec[k].pc # "idle" /\ k \notin queue' /\ Live(k) => rec[k].spec = chc[k].spec
      BY <1>k, <2>1 DEF Current, Waiting, SameFor
    <3> QED
      BY <2>1, <2>2, <2>3, <3>1 DEF Current, Waiting, Live
  <2>4. CASE k \notin queue' /\ rec[k].pc = "idle" /\ Live(k)
    <3>1. IndexesCurrent(k) /\ ReportsCurrent(k) /\ SummariesCurrent(k)
      BY <1>k, <2>1, <2>4 DEF Current, Waiting, SameFor
    <3>2. ReportsCurrent(k)'
      <4>1. \A h \in HealthChecks : <<"healthCheck", h>> # <<"summary", c>>
        OBVIOUS
      <4>2. chc[k].spec.refs \subseteq HealthChecks
        BY DEF TypeOK, CHCType, SpecType
      <4> QED
        BY <2>1, <3>1, <4>1, <4>2 DEF ReportsCurrent
    <3>3. ~(c \in deployed[k] /\ chc[k].spec.addons)
      BY <2>1, <2>4, <3>1 DEF IndexesCurrent, IndexesAgree
    <3>4. SummariesCurrent(k)'
      <4>1. CASE ~chc[k].spec.addons
        BY <2>1, <4>1 DEF SummariesCurrent
      <4>2. CASE c \notin deployed[k]
        BY <2>1, <3>1, <4>2 DEF SummariesCurrent
      <4> QED
        BY <3>3, <4>1, <4>2
    <3>5. IndexesCurrent(k)'
      BY <2>1, <3>1 DEF IndexesCurrent
    <3> QED
      BY <2>1, <2>2, <2>4, <3>2, <3>4, <3>5 DEF Current
  <2> QED
    BY <2>3, <2>4
<1>4. ASSUME NEW h \in HealthChecks, ForHealthCheck(h) PROVE Updated(k)' /\ Current(k)'
  <2>1. /\ events' = events \ {<<"healthCheck", h>>} /\ SameFor(k)
        /\ UNCHANGED <<chc, report, summary, deployed, seen, rec, indexes>>
        /\ HealthCheckMap[h] \subseteq queue'
    BY <1>4 DEF ForHealthCheck, Handle, SameFor
  <2>2. Updated(k)'
    BY <1>k, <2>1 DEF Updated
  <2>3. CASE k \in queue' \/ rec[k].pc # "idle" \/ ~Live(k)
    <3>1. rec[k].pc # "idle" /\ k \notin queue' /\ Live(k) => rec[k].spec = chc[k].spec
      BY <1>k, <2>1 DEF Current, Waiting, SameFor
    <3> QED
      BY <2>1, <2>2, <2>3, <3>1 DEF Current, Waiting, Live
  <2>4. CASE k \notin queue' /\ rec[k].pc = "idle" /\ Live(k)
    <3>1. IndexesCurrent(k) /\ ReportsCurrent(k) /\ SummariesCurrent(k)
      BY <1>k, <2>1, <2>4 DEF Current, Waiting, SameFor
    <3>2. SummariesCurrent(k)'
      <4>1. \A c \in Clusters : <<"healthCheck", h>> # <<"summary", c>>
        OBVIOUS
      <4>2. deployed[k] \subseteq Clusters
        BY DEF TypeOK
      <4> QED
        BY <2>1, <3>1, <4>1, <4>2 DEF SummariesCurrent
    <3>3. h \notin chc[k].spec.refs
      BY <2>1, <2>4, <3>1 DEF IndexesCurrent, IndexesAgree
    <3>4. \A g \in chc[k].spec.refs : <<"healthCheck", g>> # <<"healthCheck", h>>
      BY <3>3
    <3>5. ReportsCurrent(k)'
      BY <2>1, <3>1, <3>4 DEF ReportsCurrent
    <3>6. IndexesCurrent(k)'
      BY <2>1, <3>1 DEF IndexesCurrent
    <3> QED
      BY <2>1, <2>2, <2>4, <3>2, <3>5, <3>6 DEF Current
  <2> QED
    BY <2>3, <2>4
<1>5. ASSUME NEW c \in Clusters, ChangeLabels(c) PROVE Updated(k)' /\ Current(k)'
  BY <1>k, <1>5, ReportsKept DEF ChangeLabels, SameFor
<1>6. ASSUME NEW c \in Clusters, SummaryChanges(c) PROVE Updated(k)' /\ Current(k)'
  <2>1. /\ events' = events \cup {<<"summary", c>>}
        /\ \A d \in Clusters \ {c} : summary'[d] = summary[d]
        /\ UNCHANGED <<chc, report, deployed, seen, rec, queue, indexes>>
    BY <1>6 DEF SummaryChanges, TypeOK
  <2>2. Updated(k)'
    BY <1>k, <2>1 DEF Updated
  <2>3. SummariesCurrent(k) => SummariesCurrent(k)'
    BY <2>1 DEF SummariesCurrent, TypeOK
  <2>4. ReportsCurrent(k) => ReportsCurrent(k)'
    BY <2>1 DEF ReportsCurrent
  <2>5. IndexesCurrent(k) => IndexesCurrent(k)'
    BY <2>1 DEF IndexesCurrent
  <2> QED
    BY <1>k, <2>1, <2>2, <2>3, <2>4, <2>5 DEF Current, Waiting, Live
<1>7. ASSUME NEW h \in HealthChecks, ReportChanges(h) PROVE Updated(k)' /\ Current(k)'
  <2>1. /\ events' = events \cup {<<"healthCheck", h>>}
        /\ \A g \in HealthChecks \ {h} : report'[g] = report[g]
        /\ UNCHANGED <<chc, summary, deployed, seen, rec, queue, indexes>>
    BY <1>7 DEF ReportChanges, TypeOK
  <2>2. Updated(k)'
    BY <1>k, <2>1 DEF Updated
  <2>3. SummariesCurrent(k) => SummariesCurrent(k)'
    BY <2>1 DEF SummariesCurrent
  <2>4. ReportsCurrent(k) => ReportsCurrent(k)'
    <3>1. chc[k].spec.refs \subseteq HealthChecks
      BY DEF TypeOK, CHCType, SpecType
    <3> QED
      BY <2>1, <3>1 DEF ReportsCurrent
  <2>5. IndexesCurrent(k) => IndexesCurrent(k)'
    BY <2>1 DEF IndexesCurrent
  <2> QED
    BY <1>k, <2>1, <2>2, <2>3, <2>4, <2>5 DEF Current, Waiting, Live
<1>8. CASE Restart
  <2>1. rec'[k].pc = "idle" /\ chc' = chc
    BY <1>8 DEF Restart, Idle, At
  <2>2. k \in queue' \/ ~Live(k)'
    BY <1>8, <2>1 DEF Restart, Live
  <2>3. Updated(k)'
    BY <2>1 DEF Updated, AfterClusters, AfterHealthChecks, AfterAddons
  <2> QED
    BY <2>2, <2>3, QueuedIsCurrent
<1>9. CASE UNCHANGED vars
  BY <1>k, <1>9, ReportsKept DEF vars, SameFor
<1> QED
  BY <1>1, <1>2, <1>3, <1>4, <1>5, <1>6, <1>7, <1>8, <1>9 DEF Next

\* Once nothing is left to do, every CHC was evaluated on the current reports
\* and ClusterSummaries: a report that changes before, between or after the
\* steps of updateMaps, or across a restart, is read by an evaluation.
THEOREM NoReportMissedEver == Spec => []NoMissedReport
<1>1. Init => IndexesAgree /\ ReportInv
  BY DEF Init, IndexesAgree, ReportInv, Updated, Current, Waiting, Live, Absent, Idle, At,
     AfterClusters, AfterHealthChecks, AfterAddons
<1>2. ReportInv => NoMissedReport
  BY DEF ReportInv, Current, Waiting, ReportsCurrent, SummariesCurrent, NoMissedReport,
     Quiescent
<1> QED
  BY <1>1, <1>2, TypeInit, TypeNext, IndexesNext, ReportNext, PTL DEF Spec

\* A step that leaves alone what concerns k, the clusters and their events.
LEMMA ClustersKept ==
  ASSUME NEW k \in CHCs, Followed(k), Matched(k), SameFor(k),
         labels' = labels, oldLabels' = oldLabels
  PROVE  Followed(k)' /\ Matched(k)'
<1>1. Followed(k)'
  BY DEF Followed, SameFor
<1>2. Waiting(k)' => Waiting(k)
  BY DEF Waiting, Live, SameFor
<1>3. rec'[k] = rec[k] /\ chc'[k] = chc[k] /\ deployed'[k] = deployed[k]
  BY DEF SameFor
<1> QED
  BY <1>1, <1>2, <1>3 DEF Matched, StillMatches

\* Nothing undoes a failed read or a restart.
LEMMA FaultsGrow == TypeOK /\ [Next]_vars /\ faults' = 0 => faults = 0
<1> SUFFICES ASSUME TypeOK, [Next]_vars, faults' # faults PROVE faults' # 0
  OBVIOUS
<1>1. Fault
  BY DEF Next, ReconcilerStep, vars, Fetch, GetMatchingClusters, UpdateClusterMaps,
     UpdateHealthCheckMaps, UpdateAddonsLivenessCHCMaps, UpdateSelector, DeployAndEvaluate,
     CleanMaps, Undeploy, DeleteCHC, SetSpec, ForACluster, ForClusterSummary, ChangeLabels,
     SummaryChanges, ForHealthCheck, ReportChanges, Restart
<1> QED
  BY <1>1 DEF Fault, TypeOK

\* What a step of its own reconcile, or of its user, does to the clusters of k.
LEMMA OwnClusters ==
  ASSUME TypeOK, NEW k \in CHCs, Updated(k), Current(k), Followed(k), Matched(k),
         faults' = faults,
         ReconcilerStep(k) \/ DeleteCHC(k) \/ \E s \in Specs : SetSpec(k, s)
  PROVE  Followed(k)' /\ Matched(k)'
<1> USE DEF world, pending, indexes
<1>1. CASE Fetch(k)
  <2>1. UNCHANGED <<deployed, CHCToClusterMap>> /\ rec[k].pc = "idle"
    BY <1>1 DEF Fetch
  <2>2. deployed[k] \subseteq CHCToClusterMap[k]
    BY <2>1 DEF Followed
  <2>3. Followed(k)'
    BY <2>1, <2>2 DEF Followed
  <2>4. CASE ~Live(k)'
    BY <2>3, <2>4, QueuedIsCurrent
  <2>5. CASE Live(k)'
    <3>1. chc[k].exists /\ ~chc[k].deleting
      <4>1. CASE ~chc[k].exists
        BY <1>1, <2>5, <4>1 DEF Fetch, Live
      <4>2. CASE chc[k].exists /\ chc[k].deleting
        BY <1>1, <2>5, <4>2 DEF Fetch, Live
      <4> QED
        BY <4>1, <4>2
    <3>2. rec'[k].pc = "match"
      BY <1>1, <3>1 DEF Fetch, At, TypeOK
    <3> QED
      BY <2>3, <3>2 DEF Matched, AfterClusters, AfterHealthChecks, AfterAddons
  <2> QED
    BY <2>4, <2>5
<1>2. CASE GetMatchingClusters(k)
  <2>1. rec'[k] = At("clusterMaps", rec[k].spec, Matching(rec[k].spec.selector))
    BY <1>2 DEF GetMatchingClusters, Fault, TypeOK
  <2>2. /\ rec'[k].pc = "clusterMaps" /\ rec'[k].spec = rec[k].spec
        /\ rec'[k].matching = Matching(rec[k].spec.selector)
    BY <2>1 DEF At
  <2>3. UNCHANGED <<deployed, CHCToClusterMap, labels>> /\ rec[k].pc = "match"
    BY <1>2 DEF GetMatchingClusters
  <2>4. Followed(k)'
    BY <2>2, <2>3 DEF Followed
  <2>5. \A c \in rec'[k].matching : labels'[c] \in rec'[k].spec.selector
    BY <2>2, <2>3 DEF Matching
  <2> QED
    BY <2>2, <2>4, <2>5 DEF Matched, StillMatches
<1>3. ASSUME NEW p \in AfterClusters, Moves(k, p),
             rec[k].pc \in {"clusterMaps"} \cup AfterClusters,
             UNCHANGED <<chc, queue, deployed, labels, oldLabels>>
      PROVE  Followed(k)' /\ Matched(k)'
  <2>1. p \in PCs
    BY DEF AfterClusters, AfterHealthChecks, AfterAddons, PCs
  <2>2. /\ rec'[k].pc = p /\ rec'[k].spec = rec[k].spec
        /\ rec'[k].matching = rec[k].matching
    BY <1>3, <2>1, MovesOn
  <2>3. p \notin {"idle", "match", "clusterMaps"}
    BY DEF AfterClusters, AfterHealthChecks, AfterAddons
  <2>4. Waiting(k)' => Waiting(k)
    BY <1>3 DEF Waiting, Live
  <2> QED
    BY <1>3, <2>2, <2>3, <2>4 DEF Followed, Matched, StillMatches
<1>4. CASE \/ UpdateClusterMaps(k) \/ UpdateHealthCheckMaps(k)
           \/ UpdateAddonsLivenessCHCMaps(k) \/ UpdateSelector(k)
  <2> USE DEF Moves, AfterClusters, AfterHealthChecks, AfterAddons
  <2>1. CASE UpdateClusterMaps(k)
    BY <1>3, <2>1 DEF UpdateClusterMaps
  <2>2. CASE UpdateHealthCheckMaps(k)
    BY <1>3, <2>2 DEF UpdateHealthCheckMaps
  <2>3. CASE UpdateAddonsLivenessCHCMaps(k)
    BY <1>3, <2>3 DEF UpdateAddonsLivenessCHCMaps
  <2>4. CASE UpdateSelector(k)
    BY <1>3, <2>4 DEF UpdateSelector
  <2> QED
    BY <1>4, <2>1, <2>2, <2>3, <2>4
<1>5. CASE DeployAndEvaluate(k)
  <2>1. rec'[k].pc = "idle" /\ rec[k].pc = "deploy"
    BY <1>5, Ends DEF DeployAndEvaluate
  <2>2. UNCHANGED <<chc, labels, oldLabels, CHCToClusterMap>>
    BY <1>5 DEF DeployAndEvaluate
  <2>3. deployed'[k] = rec[k].matching /\ CHCToClusterMap[k] = rec[k].matching
    BY <1>5, <2>1 DEF DeployAndEvaluate, TypeOK, Updated, AfterClusters, AfterHealthChecks,
       AfterAddons
  <2>4. Followed(k)'
    BY <2>2, <2>3 DEF Followed
  <2>5. CASE k \in queue' \/ ~Live(k)'
    BY <2>4, <2>5, QueuedIsCurrent
  <2>6. CASE k \notin queue' /\ Live(k)'
    <3>1. deployed[k] = rec[k].matching /\ Waiting(k)
      BY <1>5, <2>2, <2>6 DEF DeployAndEvaluate, Waiting, Live
    <3>2. rec[k].spec = chc[k].spec
      BY <2>1, <3>1 DEF Current
    <3>3. \A c \in deployed[k] : StillMatches(c, rec[k].spec.selector)
      BY <2>1, <3>1 DEF Matched, AfterClusters, AfterHealthChecks, AfterAddons
    <3> QED
      BY <2>1, <2>2, <2>3, <2>4, <3>1, <3>2, <3>3 DEF Matched, StillMatches, AfterClusters,
         AfterHealthChecks, AfterAddons
  <2> QED
    BY <2>5, <2>6
<1>6. CASE CleanMaps(k)
  <2>1. Moves(k, "undeploy")
    BY <1>6 DEF CleanMaps, Moves
  <2>2. rec'[k].pc = "undeploy"
    BY <2>1, MovesOn DEF PCs
  <2> QED
    BY <2>2 DEF Followed, Matched, AfterClusters, AfterHealthChecks, AfterAddons
<1>7. CASE Undeploy(k)
  <2>1. deployed'[k] = {}
    BY <1>7 DEF Undeploy, TypeOK
  <2> QED
    BY <2>1 DEF Followed, Matched
<1>8. CASE DeleteCHC(k) \/ \E s \in Specs : SetSpec(k, s)
  <2>1. k \in queue' /\ UNCHANGED <<rec, deployed, CHCToClusterMap>>
    BY <1>8 DEF DeleteCHC, SetSpec
  <2>2. Followed(k)'
    BY <2>1 DEF Followed
  <2> QED
    BY <2>1, <2>2, QueuedIsCurrent
<1> QED
  BY <1>1, <1>2, <1>4, <1>5, <1>6, <1>7, <1>8 DEF ReconcilerStep

\* The MapFunc of an event of a cluster queues every CHC that may have the
\* cluster deployed to; a change of labels brings such an event about.
LEMMA EventsOfClusters ==
  ASSUME TypeOK, IndexesAgree, NEW k \in CHCs, Updated(k), Followed(k), Matched(k),
         NEW c \in Clusters, ForACluster(c) \/ ChangeLabels(c)
  PROVE  Followed(k)' /\ Matched(k)'
<1> USE DEF world, indexes
<1>1. /\ UNCHANGED <<chc, rec, deployed, CHCToClusterMap>> /\ queue \subseteq queue'
      /\ Waiting(k)' => Waiting(k)
  BY DEF ForACluster, ChangeLabels, Waiting, Live
<1>2. Followed(k)'
  BY <1>1 DEF Followed
<1>3. CASE ForACluster(c)
  <2>1. /\ ClusterMap[c] \subseteq queue' /\ labels' = labels
        /\ \A d \in Clusters \ {c} : oldLabels'[d] = oldLabels[d]
    BY <1>3 DEF ForACluster, TypeOK
  <2>2. CASE k \in queue'
    BY <1>2, <2>2, QueuedIsCurrent
  <2>3. CASE k \notin queue'
    <3>1. c \notin CHCToClusterMap[k]
      BY <2>1, <2>3 DEF IndexesAgree
    <3>2. rec[k].pc \in {"idle", "clusterMaps"} => c \notin deployed[k]
      BY <3>1 DEF Followed
    <3>3. rec[k].pc \in AfterClusters => c \notin rec[k].matching
      BY <3>1 DEF Updated
    <3>4. \A d \in Clusters \ {c} : \A s : StillMatches(d, s) => StillMatches(d, s)'
      BY <2>1 DEF StillMatches
    <3>5. deployed[k] \subseteq Clusters
      BY DEF TypeOK
    <3> QED
      BY <1>1, <1>2, <3>2, <3>3, <3>4, <3>5 DEF Matched
  <2> QED
    BY <2>2, <2>3
<1>4. CASE ChangeLabels(c)
  <2>1. /\ \A d \in Clusters \ {c} : labels'[d] = labels[d] /\ oldLabels'[d] = oldLabels[d]
        /\ oldLabels'[c] # None
    BY <1>4, MapsAssumption DEF ChangeLabels, TypeOK
  <2>2. \A d \in Clusters : \A s : StillMatches(d, s) => StillMatches(d, s)'
    BY <2>1 DEF StillMatches
  <2>3. deployed[k] \subseteq Clusters
    BY DEF TypeOK
  <2> QED
    BY <1>1, <1>2, <2>2, <2>3 DEF Matched
<1> QED
  BY <1>3, <1>4

\* Every step keeps the clusters deployed to followed.
LEMMA ClusterNext ==
  TypeOK /\ IndexesAgree /\ ReportInv /\ ClusterInv /\ [Next]_vars => ClusterInv'
<1> SUFFICES ASSUME TypeOK, IndexesAgree, ReportInv, ClusterInv, [Next]_vars, faults' = 0,
                    NEW k \in CHCs
             PROVE  Followed(k)' /\ Matched(k)'
  BY DEF ClusterInv
<1> USE DEF world, pending, indexes
<1>f. faults = 0
  BY FaultsGrow
<1>k. Updated(k) /\ Current(k) /\ Followed(k) /\ Matched(k)
  BY <1>f DEF ReportInv, ClusterInv
<1>1. ASSUME NEW j \in CHCs,
             ReconcilerStep(j) \/ DeleteCHC(j) \/ \E s \in Specs : SetSpec(j, s)
      PROVE  Followed(k)' /\ Matched(k)'
  <2>1. CASE j = k
    BY <1>f, <1>k, <1>1, <2>1, OwnClusters
  <2>2. CASE j # k
    BY <1>k, <1>1, <2>2, OthersSame, ClustersKept
  <2> QED
    BY <2>1, <2>2
<1>2. ASSUME NEW c \in Clusters, ForACluster(c) \/ ChangeLabels(c)
      PROVE  Followed(k)' /\ Matched(k)'
  BY <1>k, <1>2, EventsOfClusters
<1>3. ASSUME NEW c \in Clusters, ForClusterSummary(c) PROVE Followed(k)' /\ Matched(k)'
  BY <1>k, <1>3, ClustersKept DEF ForClusterSummary, Handle, SameFor
<1>4. ASSUME NEW c \in Clusters, SummaryChanges(c) PROVE Followed(k)' /\ Matched(k)'
  BY <1>k, <1>4, ClustersKept DEF SummaryChanges, SameFor
<1>5. ASSUME NEW h \in HealthChecks, ForHealthCheck(h) \/ ReportChanges(h)
      PROVE  Followed(k)' /\ Matched(k)'
  BY <1>k, <1>5, ClustersKept DEF ForHealthCheck, Handle, ReportChanges, SameFor
<1>6. CASE Restart
  BY <1>6, <1>f DEF Restart, Fault
<1>7. CASE UNCHANGED vars
  BY <1>k, <1>7, ClustersKept DEF vars, SameFor
<1> QED
  BY <1>1, <1>2, <1>3, <1>4, <1>5, <1>6, <1>7 DEF Next

\* Until a read fails or the manager restarts, once nothing is left to do no
\* CHC is deployed to a cluster that stopped matching it, wherever in the
\* reconcile the labels changed and the event arrived.
THEOREM NoClusterStaleEver == Spec => []NoStaleCluster
<1>1. Init => IndexesAgree /\ ReportInv /\ ClusterInv
  BY DEF Init, IndexesAgree, ReportInv, Updated, Current, ClusterInv, Followed, Matched,
     Waiting, Live, Absent, Idle, At, AfterClusters, AfterHealthChecks, AfterAddons
<1>2. TypeOK /\ ClusterInv => NoStaleCluster
  BY DEF TypeOK, ClusterInv, Matched, Waiting, StillMatches, NoStaleCluster, Quiescent, Matching
<1> QED
  BY <1>1, <1>2, TypeInit, TypeNext, IndexesNext, ReportNext, ClusterNext, PTL DEF Spec

=============================================================================
