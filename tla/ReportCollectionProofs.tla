------------------------ MODULE ReportCollectionProofs ------------------------
(***************************************************************************)
(* Proofs about ReportCollection, for every set of ClusterHealthChecks     *)
(* (CHCs), HealthChecks and clusters, whatever they reference and match.   *)
(*                                                                         *)
(* That no copy is an orphan when nothing is left to do follows from who   *)
(* is still going to remove it: the invariant finds, for every copy and    *)
(* every report a cycle may still copy, an entry of a CHC or a request of  *)
(* a controller that removes it when it is no longer wanted.               *)
(***************************************************************************)
EXTENDS ReportCollection, TLAPS

-----------------------------------------------------------------------------
(* The inductive invariant. *)

\* What the collector holds at each step of a cycle: it reads one cluster at a
\* time, and what it is about to copy was wanted when the cycle started.
CycleInv ==
  /\ collector.pc = "clusters" =>
       collector.current = {} /\ collector.items = {} /\ collector.item = {}
  /\ collector.pc = "reports" => collector.item = {}
  /\ \A c, d \in collector.current : c = d
  /\ collector.pc = "copy" =>
       \A c \in collector.current, h \in collector.item : <<c, h>> \in collector.wanted

\* A CHC has an entry for the clusters its reconcile decided on; a CHC that is
\* gone has none.
EntriesInv ==
  \A k \in CHCs :
    /\ \A c \in target[k] : deployed[k][c] # "no"
    /\ ~chc[k].exists => \A c \in Clusters : deployed[k][c] = "no"

\* A cluster that MatchingClusterRefs names and that exists still has its
\* entry: otherwise its reports were removed before the refs were persisted,
\* which raced records.
RefsInv ==
  \A k \in CHCs : \A c \in refs[k] :
    chc[k].exists /\ ~chc[k].deleting /\ cluster[c] => deployed[k][c] # "no"

\* Somebody is left who will remove the reports of cluster c on h: a CHC that
\* references h and has an entry for c or, once the cluster is gone, the
\* Cluster controller.
SomebodyCleans(c, h) ==
  IF cluster[c] THEN \E k \in CHCs : h \in References[k] /\ deployed[k][c] # "no"
  ELSE <<"Cluster", c>> \in queue

\* So is somebody who removes them when the HealthCheck is gone.
HealthCheckWatched(h) == healthCheck[h] \/ <<"HealthCheck", h>> \in queue

\* The report the collector is about to write.
AboutToCopy(c, h) ==
  collector.pc = "copy" /\ c \in collector.current /\ h \in collector.item

ReportsInv ==
  \A c \in Clusters, h \in HealthChecks :
    /\ mgmt[<<c, h>>] # 0 \/ <<c, h>> \in InFlight => SomebodyCleans(c, h)
    /\ mgmt[<<c, h>>] # 0 \/ AboutToCopy(c, h) => HealthCheckWatched(h)

IInv ==
  /\ TypeOK
  /\ CycleInv
  /\ EntriesInv
  /\ raced \/ (RefsInv /\ ReportsInv)

-----------------------------------------------------------------------------
(* The collector's local state. *)

CollectorType == [pc : {"clusters", "reports", "copy"},
                  wanted : SUBSET Keys, todo : SUBSET Clusters,
                  current : SUBSET Clusters, list : [HealthChecks -> Reports],
                  items : SUBSET HealthChecks, item : SUBSET HealthChecks]

\* The local state of a collector between two cycles.
LEMMA IdleFacts ==
  /\ NoReport \in Reports
  /\ Idle \in CollectorType
  /\ Idle.pc = "clusters" /\ Idle.current = {} /\ Idle.items = {} /\ Idle.item = {}
<1>1. NoReport \in Reports
  BY DEF NoReport, Reports
<1>2. [h \in HealthChecks |-> NoReport] \in [HealthChecks -> Reports]
  BY <1>1
<1>3. Idle \in CollectorType
  BY <1>2 DEF Idle, CollectorType
<1> QED BY <1>1, <1>3 DEF Idle

\* The local state of a collector that only has clusters left to read.
LEMMA ReadyFacts ==
  ASSUME NEW todo \in SUBSET Clusters, NEW wanted \in SUBSET Keys
  PROVE  LET r == [Idle EXCEPT !.todo = todo, !.wanted = wanted]
         IN /\ r \in CollectorType
            /\ r.pc = "clusters" /\ r.current = {} /\ r.items = {} /\ r.item = {}
            /\ r.todo = todo /\ r.wanted = wanted
  BY IdleFacts DEF CollectorType

\* A collector that is done with a cluster goes on to the clusters left.
LEMMA NextClusterFacts ==
  ASSUME collector \in CollectorType, NEW c \in Clusters
  PROVE  LET r == NextCluster(c)
         IN /\ r \in CollectorType
            /\ r.pc = "clusters" /\ r.current = {} /\ r.items = {} /\ r.item = {}
            /\ r.todo = collector.todo \ {c}
            /\ r.wanted = {x \in collector.wanted : x[1] # c}
<1> DEFINE todo == collector.todo \ {c}
           wanted == {x \in collector.wanted : x[1] # c}
<1>1. todo \in SUBSET Clusters /\ wanted \in SUBSET Keys
  BY DEF CollectorType
<1>2. NextCluster(c) = [Idle EXCEPT !.todo = todo, !.wanted = wanted]
  BY DEF NextCluster
<1> HIDE DEF todo, wanted
<1>3. LET r == [Idle EXCEPT !.todo = todo, !.wanted = wanted]
      IN /\ r \in CollectorType
         /\ r.pc = "clusters" /\ r.current = {} /\ r.items = {} /\ r.item = {}
         /\ r.todo = todo /\ r.wanted = wanted
  BY <1>1, ReadyFacts
<1> QED BY <1>2, <1>3 DEF todo, wanted

\* A collector that is done with a report goes on to the next one of the
\* cluster, or leaves the cluster after the last one.
LEMMA NextReportFacts ==
  ASSUME collector \in CollectorType, NEW c \in Clusters, NEW h \in HealthChecks
  PROVE  LET r == NextReport(c, h)
         IN /\ r \in CollectorType
            /\ \/ r = NextCluster(c)
               \/ /\ r.pc = "reports" /\ r.item = {} /\ r.items = collector.items \ {h}
                  /\ r.current = collector.current /\ r.todo = collector.todo
                  /\ r.wanted = collector.wanted
<1>1. CASE collector.items \subseteq {h}
  BY <1>1, NextClusterFacts DEF NextReport
<1>2. CASE ~(collector.items \subseteq {h})
  <2> DEFINE items == collector.items \ {h}
             list == [collector.list EXCEPT ![h] = NoReport]
             r == [collector EXCEPT !.pc = "reports", !.items = items, !.item = {}, !.list = list]
  <2>1. collector.list \in [HealthChecks -> Reports]
    BY DEF CollectorType
  <2>2. list \in [HealthChecks -> Reports]
    BY <2>1, IdleFacts
  <2>3. items \in SUBSET HealthChecks
    BY DEF CollectorType
  <2>4. NextReport(c, h) = r
    BY Zenon, <1>2 DEF NextReport
  <2> HIDE DEF items, list
  <2>5. r \in CollectorType
    BY <2>2, <2>3 DEF CollectorType
  <2>6. /\ r.pc = "reports" /\ r.item = {} /\ r.items = items
        /\ r.current = collector.current /\ r.todo = collector.todo
        /\ r.wanted = collector.wanted
    BY DEF CollectorType
  <2> QED BY <2>4, <2>5, <2>6 DEF items
<1> QED BY <1>1, <1>2

-----------------------------------------------------------------------------
(* What a cycle of the collector does. *)

\* What is in flight, for one report.
LEMMA InFlightDef ==
  ASSUME NEW c, NEW h
  PROVE  <<c, h>> \in InFlight <=>
           /\ <<c, h>> \in collector.wanted
           /\ \/ c \in collector.todo \ collector.current
              \/ c \in collector.current /\ h \in collector.items \cup collector.item
  BY DEF InFlight

\* Nothing but the start of a cycle puts a report in flight, and a report that
\* is about to be copied was in flight.
CycleContinues ==
  /\ collector' \in CollectorType
  /\ CycleInv'
  /\ \A c \in Clusters, h \in HealthChecks : <<c, h>> \in InFlight' => <<c, h>> \in InFlight

\* Leaving a cluster puts nothing in flight.
LEMMA NextClusterContinues ==
  ASSUME TypeOK, CycleInv, NEW c \in Clusters, collector' = NextCluster(c),
         \A d \in collector.current : d = c
  PROVE  CycleContinues
<1>1. collector \in CollectorType
  BY DEF TypeOK, CollectorType
<1>2. /\ collector' \in CollectorType
      /\ collector'.pc = "clusters" /\ collector'.current = {}
      /\ collector'.items = {} /\ collector'.item = {}
      /\ collector'.todo = collector.todo \ {c}
      /\ collector'.wanted = {x \in collector.wanted : x[1] # c}
  BY <1>1, NextClusterFacts
<1>3. CycleInv'
  BY <1>2 DEF CycleInv
<1>4. ASSUME NEW d \in Clusters, NEW h \in HealthChecks, <<d, h>> \in InFlight'
      PROVE  <<d, h>> \in InFlight
  <2>1. <<d, h>> \in collector'.wanted /\ d \in collector'.todo
    BY <1>2, <1>4 DEF InFlight
  <2>2. <<d, h>> \in collector.wanted /\ d \in collector.todo /\ d # c
    BY <1>2, <2>1
  <2> QED BY <2>2, InFlightDef
<1> QED BY <1>2, <1>3, <1>4 DEF CycleContinues

\* Leaving a report puts nothing in flight.
LEMMA NextReportContinues ==
  ASSUME TypeOK, CycleInv, NEW c \in collector.current, NEW h \in HealthChecks,
         collector' = NextReport(c, h)
  PROVE  CycleContinues
<1>1. collector \in CollectorType
  BY DEF TypeOK, CollectorType
<1>2. c \in Clusters /\ \A d \in collector.current : d = c
  BY <1>1 DEF CollectorType, CycleInv
<1>3. CASE collector' = NextCluster(c)
  BY <1>2, <1>3, NextClusterContinues
<1>4. CASE collector' # NextCluster(c)
  <2>1. /\ collector' \in CollectorType
        /\ collector'.pc = "reports" /\ collector'.item = {}
        /\ collector'.items = collector.items \ {h}
        /\ collector'.current = collector.current /\ collector'.todo = collector.todo
        /\ collector'.wanted = collector.wanted
    BY <1>1, <1>2, <1>4, NextReportFacts
  <2>2. CycleInv'
    BY <2>1 DEF CycleInv
  <2>3. ASSUME NEW d \in Clusters, NEW i \in HealthChecks, <<d, i>> \in InFlight'
        PROVE  <<d, i>> \in InFlight
    BY <2>1, <2>3 DEF InFlight
  <2> QED BY <2>1, <2>2, <2>3 DEF CycleContinues
<1> QED BY <1>3, <1>4

\* The collector and the records of the cluster it reads.
LEMMA ListReportsContinues ==
  ASSUME TypeOK, CycleInv, NEW c \in Clusters, ListReports(c)
  PROVE  CycleContinues /\ collector'.pc # "copy"
<1>1. collector \in CollectorType /\ report[c] \in [HealthChecks -> Reports]
  BY DEF TypeOK, CollectorType
<1>2. /\ collector.pc = "clusters" /\ c \in collector.todo
      /\ collector.current = {} /\ collector.items = {} /\ collector.item = {}
  BY DEF ListReports, CycleInv
<1> DEFINE items == {h \in HealthChecks : report[c][h].content # 0}
           r == [collector EXCEPT !.pc = "reports", !.current = {c},
                                  !.list = report[c], !.items = items]
<1>3. collector' = r \/ collector' = NextCluster(c)
  BY DEF ListReports
<1>4. CASE collector' = NextCluster(c)
  BY <1>1, <1>2, <1>4, NextClusterContinues, NextClusterFacts
<1>5. CASE collector' = r
  <2>1. items \in SUBSET HealthChecks
    OBVIOUS
  <2> HIDE DEF items
  <2>2. /\ r \in CollectorType
        /\ r.pc = "reports" /\ r.current = {c} /\ r.items = items /\ r.item = {}
        /\ r.todo = collector.todo /\ r.wanted = collector.wanted
    BY <1>1, <1>2, <2>1 DEF CollectorType
  <2> HIDE DEF r
  <2>3. CycleInv'
    BY <1>5, <2>2 DEF CycleInv
  <2>4. ASSUME NEW d \in Clusters, NEW h \in HealthChecks, <<d, h>> \in InFlight'
        PROVE  <<d, h>> \in InFlight
    BY <1>2, <1>5, <2>2, <2>4 DEF InFlight
  <2> QED BY <1>5, <2>2, <2>3, <2>4 DEF CycleContinues
<1> QED BY <1>3, <1>4, <1>5

\* Looking at a report creates no copy, and only a report whose HealthCheck
\* exists is then copied.
LEMMA ProcessReportContinues ==
  ASSUME TypeOK, CycleInv, NEW c \in Clusters, NEW h \in HealthChecks, ProcessReport(c, h)
  PROVE  /\ CycleContinues
         /\ \A d \in Clusters, i \in HealthChecks : AboutToCopy(d, i)' => healthCheck[i]
         /\ mgmt' \in [Keys -> Nat]
         /\ \A x \in Keys : mgmt'[x] # 0 => mgmt[x] # 0
<1>1. collector \in CollectorType /\ mgmt \in [Keys -> Nat]
  BY DEF TypeOK, CollectorType
<1>2. /\ collector.pc = "reports" /\ c \in collector.current /\ h \in collector.items
      /\ collector.item = {} /\ \A d \in collector.current : d = c
  BY DEF ProcessReport, CycleInv
<1>3. mgmt' = mgmt \/ mgmt' = [mgmt EXCEPT ![<<c, h>>] = 0]
  BY DEF ProcessReport
<1>4. mgmt' \in [Keys -> Nat] /\ \A x \in Keys : mgmt'[x] # 0 => mgmt[x] # 0
  BY <1>1, <1>3
<1>5. CASE collector' = NextReport(c, h)
  <2>1. collector'.pc # "copy"
    BY <1>1, <1>5, NextReportFacts, NextClusterFacts
  <2> QED BY <1>2, <1>4, <1>5, <2>1, NextReportContinues DEF AboutToCopy
<1>6. CASE collector' # NextReport(c, h)
  <2> DEFINE items == collector.items \ {h}
             r == [collector EXCEPT !.pc = "copy", !.items = items, !.item = {h}]
  <2>1. <<c, h>> \in collector.wanted /\ healthCheck[h] /\ collector' = r
    BY <1>6 DEF ProcessReport
  <2>2. items \in SUBSET HealthChecks /\ items \subseteq collector.items
    BY <1>1 DEF CollectorType
  <2> HIDE DEF items
  <2>3. /\ r \in CollectorType
        /\ r.pc = "copy" /\ r.current = collector.current /\ r.items = items /\ r.item = {h}
        /\ r.todo = collector.todo /\ r.wanted = collector.wanted
    BY <1>1, <2>2 DEF CollectorType
  <2> HIDE DEF r
  <2>4. CycleInv'
    BY <1>2, <2>1, <2>3 DEF CycleInv
  <2>5. ASSUME NEW d \in Clusters, NEW i \in HealthChecks, <<d, i>> \in InFlight'
        PROVE  <<d, i>> \in InFlight
    BY <1>2, <2>1, <2>2, <2>3, <2>5 DEF InFlight
  <2>6. \A d \in Clusters, i \in HealthChecks : AboutToCopy(d, i)' => healthCheck[i]
    BY <2>1, <2>3 DEF AboutToCopy
  <2> QED BY <1>4, <2>1, <2>3, <2>4, <2>5, <2>6 DEF CycleContinues
<1> QED BY <1>5, <1>6

\* A copy is written only for the report that was in flight.
LEMMA CopyReportContinues ==
  ASSUME TypeOK, CycleInv, NEW c \in Clusters, NEW h \in HealthChecks, CopyReport(c, h)
  PROVE  /\ CycleContinues
         /\ collector'.pc # "copy"
         /\ AboutToCopy(c, h) /\ <<c, h>> \in InFlight
         /\ mgmt' \in [Keys -> Nat]
         /\ \A x \in Keys : x # <<c, h>> => mgmt'[x] = mgmt[x]
<1>1. collector \in CollectorType /\ mgmt \in [Keys -> Nat]
  BY DEF TypeOK, CollectorType
<1>2. /\ AboutToCopy(c, h) /\ collector' = NextReport(c, h)
      /\ collector.pc = "copy" /\ c \in collector.current /\ h \in collector.item
  BY DEF CopyReport, AboutToCopy
<1>3. <<c, h>> \in InFlight
  BY <1>2, InFlightDef DEF CycleInv
<1>4. collector'.pc # "copy"
  BY <1>1, <1>2, NextReportFacts, NextClusterFacts
<1>5. CycleContinues
  BY <1>2, NextReportContinues
<1>6. collector.list[h].content \in Nat
  BY <1>1 DEF CollectorType, Reports
<1>7. mgmt' = [mgmt EXCEPT ![<<c, h>>] = collector.list[h].content]
  BY DEF CopyReport, Copy
<1>8. mgmt' \in [Keys -> Nat] /\ \A x \in Keys : x # <<c, h>> => mgmt'[x] = mgmt[x]
  BY <1>1, <1>6, <1>7
<1> QED BY <1>2, <1>3, <1>4, <1>5, <1>8

\* buildWantedReports and buildClustersWithHealthCheck: what a cycle starts
\* with is wanted, in clusters that exist.
LEMMA StartCycleFacts ==
  ASSUME TypeOK, CycleInv, StartCycle
  PROVE  /\ collector' \in CollectorType /\ CycleInv' /\ collector'.pc = "clusters"
         /\ \A c \in Clusters, h \in HealthChecks :
              <<c, h>> \in InFlight' => <<c, h>> \in Wanted /\ cluster[c]
<1> DEFINE todo == {c \in ClustersWithHealthCheck : cluster[c]}
           wanted == Wanted \cap (todo \X HealthChecks)
<1>1. todo \in SUBSET Clusters /\ wanted \in SUBSET Keys
  BY DEF ClustersWithHealthCheck, Wanted
<1>2. collector' = [Idle EXCEPT !.todo = todo, !.wanted = wanted]
  BY DEF StartCycle
<1>3. wanted \subseteq Wanted /\ \A c \in todo : cluster[c]
  OBVIOUS
<1> HIDE DEF todo, wanted
<1>4. /\ collector' \in CollectorType
      /\ collector'.pc = "clusters" /\ collector'.current = {}
      /\ collector'.items = {} /\ collector'.item = {}
      /\ collector'.todo = todo /\ collector'.wanted = wanted
  <2>1. LET r == [Idle EXCEPT !.todo = todo, !.wanted = wanted]
        IN /\ r \in CollectorType
           /\ r.pc = "clusters" /\ r.current = {} /\ r.items = {} /\ r.item = {}
           /\ r.todo = todo /\ r.wanted = wanted
    BY <1>1, ReadyFacts
  <2> QED BY <1>2, <2>1
<1>5. CycleInv'
  BY <1>4 DEF CycleInv
<1>6. ASSUME NEW c \in Clusters, NEW h \in HealthChecks, <<c, h>> \in InFlight'
      PROVE  <<c, h>> \in Wanted /\ cluster[c]
  BY <1>3, <1>4, <1>6 DEF InFlight
<1> QED BY <1>4, <1>5, <1>6

\* Reports removed by somebody else: none of them is in flight, or raced says
\* so.
LEMMA RemoveFacts ==
  ASSUME TypeOK, NEW keys, Remove(keys)
  PROVE  /\ mgmt' \in [Keys -> Nat] /\ raced' \in BOOLEAN
         /\ \A x \in Keys : mgmt'[x] = IF x \in keys THEN 0 ELSE mgmt[x]
         /\ ~raced' => ~raced /\ \A x \in keys : x \notin InFlight
<1>1. mgmt \in [Keys -> Nat] /\ raced \in BOOLEAN
  BY DEF TypeOK
<1> DEFINE hit == raced \/ keys \cap InFlight # {}
<1>2. hit \in BOOLEAN
  OBVIOUS
<1>3. ~hit => ~raced /\ \A x \in keys : x \notin InFlight
  OBVIOUS
<1>4. raced' = hit
  BY Zenon DEF Remove
<1>5. mgmt' = [x \in Keys |-> IF x \in keys THEN 0 ELSE mgmt[x]]
  BY DEF Remove
<1> HIDE DEF hit
<1>6. raced' \in BOOLEAN
  BY <1>2, <1>4
<1>7. ~raced' => ~hit
  BY <1>4
<1>8. mgmt' \in [Keys -> Nat] /\ \A x \in Keys : mgmt'[x] = IF x \in keys THEN 0 ELSE mgmt[x]
  BY <1>1, <1>5
<1> QED BY <1>3, <1>6, <1>7, <1>8

\* The last step of a cleanup job.
LEMMA RemoveReferencedFacts ==
  ASSUME TypeOK, NEW k \in CHCs, NEW c \in Clusters, RemoveReportsOfReferenced(k, c)
  PROVE  /\ mgmt' \in [Keys -> Nat] /\ raced' \in BOOLEAN
         /\ \A d \in Clusters, h \in HealthChecks :
              mgmt'[<<d, h>>] = IF d = c /\ h \in References[k] THEN 0 ELSE mgmt[<<d, h>>]
         /\ ~raced' => /\ ~raced
                       /\ \A h \in References[k] : <<c, h>> \notin InFlight
                       /\ c \in refs[k] => chc[k].deleting
<1>1. mgmt \in [Keys -> Nat] /\ raced \in BOOLEAN
  BY DEF TypeOK
<1> DEFINE hit == raced \/ ({c} \X References[k]) \cap InFlight # {}
                        \/ (c \in refs[k] /\ ~chc[k].deleting)
<1>2. hit \in BOOLEAN
  OBVIOUS
<1>3. ~hit => /\ ~raced
              /\ \A h \in References[k] : <<c, h>> \notin InFlight
              /\ c \in refs[k] => chc[k].deleting
  OBVIOUS
<1>4. raced' = hit
  BY Zenon DEF RemoveReportsOfReferenced
<1>5. mgmt' = [x \in Keys |-> IF x[1] = c /\ x[2] \in References[k] THEN 0 ELSE mgmt[x]]
  BY DEF RemoveReportsOfReferenced
<1> HIDE DEF hit
<1>6. raced' \in BOOLEAN
  BY <1>2, <1>4
<1>7. ~raced' => ~hit
  BY <1>4
<1>8. mgmt' \in [Keys -> Nat]
  BY <1>1, <1>5
<1>9. \A d \in Clusters, h \in HealthChecks :
        mgmt'[<<d, h>>] = IF d = c /\ h \in References[k] THEN 0 ELSE mgmt[<<d, h>>]
  BY <1>5 DEF Keys
<1> QED BY <1>3, <1>6, <1>7, <1>8, <1>9

-----------------------------------------------------------------------------
(* Type correctness. *)

\* The initial states are well formed.
LEMMA InitType == Init => TypeOK
<1> SUFFICES ASSUME Init PROVE TypeOK
  OBVIOUS
<1>1. report \in [Clusters -> [HealthChecks -> Reports]]
  <2>1. ASSUME NEW c \in Clusters, NEW h \in HealthChecks
        PROVE  (IF owners[c][h] # {} THEN [NoReport EXCEPT !.content = 1] ELSE NoReport) \in Reports
    BY IdleFacts DEF Reports
  <2> QED BY <2>1 DEF Init
<1>2. mgmt \in [Keys -> Nat]
  <2>1. ASSUME NEW x \in Keys PROVE report[x[1]][x[2]].content \in Nat
    <3>1. x[1] \in Clusters /\ x[2] \in HealthChecks
      BY <2>1 DEF Keys
    <3>2. report[x[1]][x[2]] \in Reports
      BY <1>1, <3>1
    <3> QED BY <3>2 DEF Reports
  <2>2. mgmt = [x \in Keys |-> report[x[1]][x[2]].content]
    BY DEF Init
  <2> QED BY <2>1, <2>2
<1>3. deployed \in [CHCs -> [Clusters -> {"no", "new", "yes", "leaving", "left"}]]
  BY DEF Init
<1>4. owners \in [Clusters -> [HealthChecks -> SUBSET CHCs]]
  BY DEF Init
<1>5. collector \in CollectorType
  BY IdleFacts DEF Init
<1>6. chc \in [CHCs -> [exists : BOOLEAN, deleting : BOOLEAN]]
  BY DEF Init
<1>7. /\ matches \in [CHCs -> SUBSET Clusters] /\ target \in [CHCs -> SUBSET Clusters]
      /\ refs \in [CHCs -> SUBSET Clusters]
  BY ReportsAssumption DEF Init
<1>8. /\ healthCheck \in [HealthChecks -> BOOLEAN] /\ cluster \in [Clusters -> BOOLEAN]
      /\ raced \in BOOLEAN
  BY DEF Init
<1>9. queue \subseteq ({"HealthCheck"} \X HealthChecks) \cup ({"Cluster"} \X Clusters)
  BY DEF Init
<1>10. changes \in 0 .. MaxChanges /\ faults \in 0 .. MaxFaults
  <2>1. changes = 0 /\ faults = 0
    BY DEF Init
  <2> QED BY <2>1, ReportsAssumption
<1> QED BY <1>1, <1>2, <1>3, <1>4, <1>5, <1>6, <1>7, <1>8, <1>9, <1>10 DEF TypeOK, CollectorType

\* The collector keeps the state well formed and its cycle consistent.
LEMMA CollectorTypes ==
  ASSUME TypeOK, CycleInv, CollectorStep
  PROVE  TypeOK' /\ CycleInv'
<1>1. ASSUME collector' \in CollectorType, mgmt' \in [Keys -> Nat], faults' \in 0 .. MaxFaults,
             UNCHANGED <<chcs, healthCheck, cluster, managed, queue, raced, changes>>
      PROVE  TypeOK'
  BY <1>1 DEF TypeOK, CollectorType, chcs, managed
<1>2. faults \in 0 .. MaxFaults /\ MaxFaults \in Nat /\ mgmt \in [Keys -> Nat]
  BY ReportsAssumption DEF TypeOK
<1>3. CASE StartCycle
  BY <1>1, <1>2, <1>3, StartCycleFacts DEF StartCycle
<1>4. ASSUME NEW c \in Clusters, ListReports(c)
      PROVE  TypeOK' /\ CycleInv'
  <2>1. CycleContinues
    BY <1>4, ListReportsContinues
  <2>2. /\ mgmt' = mgmt /\ UNCHANGED <<chcs, healthCheck, cluster, managed, queue, raced, changes>>
        /\ faults' = faults \/ (faults < MaxFaults /\ faults' = faults + 1)
    BY <1>4 DEF ListReports
  <2>3. faults' \in 0 .. MaxFaults
    BY <1>2, <2>2
  <2> QED BY <1>1, <1>2, <2>1, <2>2, <2>3 DEF CycleContinues
<1>5. ASSUME NEW c \in Clusters, NEW h \in HealthChecks, ProcessReport(c, h)
      PROVE  TypeOK' /\ CycleInv'
  <2>1. CycleContinues /\ mgmt' \in [Keys -> Nat]
    BY <1>5, ProcessReportContinues
  <2> QED BY <1>1, <1>2, <1>5, <2>1 DEF ProcessReport, CycleContinues
<1>6. ASSUME NEW c \in Clusters, NEW h \in HealthChecks, CopyReport(c, h)
      PROVE  TypeOK' /\ CycleInv'
  <2>1. CycleContinues /\ mgmt' \in [Keys -> Nat]
    BY <1>6, CopyReportContinues
  <2> QED BY <1>1, <1>2, <1>6, <2>1 DEF CopyReport, CycleContinues
<1> QED BY <1>3, <1>4, <1>5, <1>6 DEF CollectorStep

DeployedType == [CHCs -> [Clusters -> {"no", "new", "yes", "leaving", "left"}]]

\* The reconciles and the jobs of the CHCs keep the state well formed.
LEMMA CHCTypes ==
  ASSUME TypeOK, NEW k \in CHCs, CHCStep(k)
  PROVE  TypeOK'
<1>1. /\ deployed \in DeployedType /\ target \in [CHCs -> SUBSET Clusters]
      /\ refs \in [CHCs -> SUBSET Clusters] /\ matches \in [CHCs -> SUBSET Clusters]
      /\ owners \in [Clusters -> [HealthChecks -> SUBSET CHCs]]
      /\ chc \in [CHCs -> [exists : BOOLEAN, deleting : BOOLEAN]]
  BY DEF TypeOK, DeployedType
<1>2. ASSUME NEW c \in Clusters, NEW v \in {"no", "new", "yes", "leaving", "left"},
             deployed' = [deployed EXCEPT ![k][c] = v]
      PROVE  deployed' \in DeployedType
  BY <1>1, <1>2 DEF DeployedType
<1>3. CASE Reconcile(k)
  <2>1. Decided(k) \in SUBSET Clusters
    BY <1>1 DEF Decided
  <2>2. target' \in [CHCs -> SUBSET Clusters]
    BY <1>1, <1>3, <2>1 DEF Reconcile
  <2>3. [c \in Clusters |-> IF c \in Decided(k) /\ deployed[k][c] = "no" THEN "new"
                            ELSE deployed[k][c]]
          \in [Clusters -> {"no", "new", "yes", "leaving", "left"}]
    BY <1>1 DEF DeployedType
  <2>4. deployed' \in DeployedType
    BY <1>1, <1>3, <2>3 DEF Reconcile, DeployedType
  <2> QED BY <1>3, <2>2, <2>4 DEF Reconcile, TypeOK, DeployedType, managed
<1>4. CASE Close(k)
  <2>1. refs' \in [CHCs -> SUBSET Clusters]
    BY <1>1, <1>4 DEF Close
  <2> QED BY <1>4, <2>1 DEF Close, TypeOK, managed
<1>5. CASE Released(k)
  <2>1. refs' \in [CHCs -> SUBSET Clusters]
    BY <1>1, <1>5 DEF Released
  <2>2. chc' \in [CHCs -> [exists : BOOLEAN, deleting : BOOLEAN]]
    <3>1. [chc[k] EXCEPT !.exists = FALSE] \in [exists : BOOLEAN, deleting : BOOLEAN]
      BY <1>1
    <3>2. chc' = [chc EXCEPT ![k] = [chc[k] EXCEPT !.exists = FALSE]]
      BY Zenon, <1>5 DEF Released
    <3> QED BY <1>1, <3>1, <3>2
  <2> QED BY <1>5, <2>1, <2>2 DEF Released, TypeOK, managed
<1>6. ASSUME NEW c \in Clusters, DeployHealthChecks(k, c)
      PROVE  TypeOK'
  <2>1. owners' \in [Clusters -> [HealthChecks -> SUBSET CHCs]]
    <3>1. [h \in HealthChecks |-> IF h \in References[k] THEN owners[c][h] \cup {k}
                                  ELSE owners[c][h]] \in [HealthChecks -> SUBSET CHCs]
      BY <1>1
    <3> QED BY <1>1, <1>6, <3>1 DEF DeployHealthChecks
  <2>2. deployed' \in DeployedType
    BY <1>2, <1>6 DEF DeployHealthChecks
  <2> QED BY <1>6, <2>1, <2>2 DEF DeployHealthChecks, TypeOK, DeployedType
<1>7. ASSUME NEW c \in Clusters, RemoveStaleReports(k, c)
      PROVE  TypeOK'
  <2>1. mgmt' \in [Keys -> Nat] /\ raced' \in BOOLEAN
    BY <1>7, RemoveFacts DEF RemoveStaleReports
  <2>2. deployed' \in DeployedType
    BY <1>2, <1>7 DEF RemoveStaleReports
  <2> QED BY <1>7, <2>1, <2>2 DEF RemoveStaleReports, TypeOK, DeployedType, managed
<1>8. ASSUME NEW c \in Clusters, RemoveStaleHealthChecks(k, c)
      PROVE  TypeOK'
  <2>1. owners' \in [Clusters -> [HealthChecks -> SUBSET CHCs]]
    <3>1. [h \in HealthChecks |-> owners[c][h] \ {k}] \in [HealthChecks -> SUBSET CHCs]
      BY <1>1
    <3> QED BY <1>1, <1>8, <3>1 DEF RemoveStaleHealthChecks
  <2>2. deployed' \in DeployedType
    BY <1>2, <1>8 DEF RemoveStaleHealthChecks
  <2> QED BY <1>8, <2>1, <2>2 DEF RemoveStaleHealthChecks, TypeOK, DeployedType
<1>9. ASSUME NEW c \in Clusters, RemoveReportsOfReferenced(k, c)
      PROVE  TypeOK'
  <2>1. mgmt' \in [Keys -> Nat] /\ raced' \in BOOLEAN
    BY <1>9, RemoveReferencedFacts
  <2>2. AfterCleanup(k, c) \in {"no", "new", "yes", "leaving", "left"}
    BY DEF AfterCleanup
  <2>3. deployed' \in DeployedType
    BY <1>2, <1>9, <2>2 DEF RemoveReportsOfReferenced
  <2> QED BY <1>9, <2>1, <2>3 DEF RemoveReportsOfReferenced, TypeOK, DeployedType, managed
<1>10. ASSUME NEW c \in Clusters, ForgetCluster(k, c)
       PROVE  TypeOK'
  <2>1. deployed' \in DeployedType
    BY <1>2, <1>10 DEF ForgetCluster
  <2> QED BY <1>10, <2>1 DEF ForgetCluster, TypeOK, DeployedType, managed
<1> QED BY <1>3, <1>4, <1>5, <1>6, <1>7, <1>8, <1>9, <1>10 DEF CHCStep

\* The HealthCheck and Cluster controllers keep the state well formed.
LEMMA ControllerTypes ==
  ASSUME TypeOK, ControllerStep
  PROVE  TypeOK'
<1>1. ASSUME NEW h \in HealthChecks, ReconcileHealthCheck(h)
      PROVE  TypeOK'
  <2>1. mgmt' \in [Keys -> Nat] /\ raced' \in BOOLEAN
    <3>1. CASE healthCheck[h]
      BY <1>1, <3>1 DEF ReconcileHealthCheck, TypeOK
    <3>2. CASE ~healthCheck[h]
      BY <1>1, <3>2, RemoveFacts DEF ReconcileHealthCheck
    <3> QED BY <3>1, <3>2
  <2> QED BY <1>1, <2>1 DEF ReconcileHealthCheck, TypeOK, chcs, managed
<1>2. ASSUME NEW c \in Clusters, ReconcileCluster(c)
      PROVE  TypeOK'
  <2>1. mgmt' \in [Keys -> Nat] /\ raced' \in BOOLEAN
    <3>1. CASE cluster[c]
      BY <1>2, <3>1 DEF ReconcileCluster, TypeOK
    <3>2. CASE ~cluster[c]
      BY <1>2, <3>2, RemoveFacts DEF ReconcileCluster
    <3> QED BY <3>1, <3>2
  <2> QED BY <1>2, <2>1 DEF ReconcileCluster, TypeOK, chcs, managed
<1> QED BY <1>1, <1>2 DEF ControllerStep

\* The agents keep the state well formed.
LEMMA AgentTypes ==
  ASSUME TypeOK, NEW c \in Clusters, NEW h \in HealthChecks,
         AgentStep(c, h) \/ HealthChanges(c, h)
  PROVE  TypeOK'
<1>1. report \in [Clusters -> [HealthChecks -> Reports]] /\ report[c][h] \in Reports
  BY DEF TypeOK
<1>2. ASSUME NEW r \in Reports, report' = [report EXCEPT ![c][h] = r]
      PROVE  report' \in [Clusters -> [HealthChecks -> Reports]]
  BY <1>1, <1>2
<1>3. CASE AgentReports(c, h)
  <2>1. [report[c][h] EXCEPT !.content = 1] \in Reports
    BY <1>1 DEF Reports
  <2>2. report' = [report EXCEPT ![c][h] = [report[c][h] EXCEPT !.content = 1]]
    BY Zenon, <1>3 DEF AgentReports
  <2>3. report' \in [Clusters -> [HealthChecks -> Reports]]
    BY <1>2, <2>1, <2>2
  <2> QED BY <1>3, <2>3 DEF AgentReports, TypeOK, chcs
<1>4. CASE AgentRemoves(c, h)
  <2>1. [report[c][h] EXCEPT !.deleting = TRUE] \in Reports
    BY <1>1 DEF Reports
  <2>2. \/ report' = [report EXCEPT ![c][h] = NoReport]
        \/ report' = [report EXCEPT ![c][h] = [report[c][h] EXCEPT !.deleting = TRUE]]
    BY Zenon, <1>4 DEF AgentRemoves
  <2>3. report' \in [Clusters -> [HealthChecks -> Reports]]
    BY <1>2, <2>1, <2>2, IdleFacts
  <2> QED BY <1>4, <2>3 DEF AgentRemoves, TypeOK, chcs
<1>5. CASE ReportGone(c, h)
  <2>1. report' \in [Clusters -> [HealthChecks -> Reports]]
    BY <1>2, <1>5, IdleFacts DEF ReportGone
  <2> QED BY <1>5, <2>1 DEF ReportGone, TypeOK, chcs
<1>6. CASE HealthChanges(c, h)
  <2>1. [report[c][h] EXCEPT !.content = report[c][h].content + 1] \in Reports
    BY <1>1 DEF Reports
  <2>2. report' = [report EXCEPT ![c][h] = [report[c][h] EXCEPT !.content = report[c][h].content + 1]]
    BY Zenon, <1>6 DEF HealthChanges
  <2>3. report' \in [Clusters -> [HealthChecks -> Reports]]
    BY <1>2, <2>1, <2>2
  <2>4. changes' \in 0 .. MaxChanges
    BY <1>6, ReportsAssumption DEF HealthChanges, Change, TypeOK
  <2> QED BY <1>6, <2>3, <2>4 DEF HealthChanges, Change, TypeOK
<1> QED BY <1>3, <1>4, <1>5, <1>6 DEF AgentStep

\* What users and infrastructure change.
UserStep ==
  \/ \E k \in CHCs : DeleteCHC(k)
  \/ \E k \in CHCs, c \in Clusters : ChangeMatch(k, c)
  \/ \E h \in HealthChecks : ChangeHealthCheck(h)
  \/ \E c \in Clusters : ClusterGone(c)

\* Users and infrastructure keep the state well formed.
LEMMA UserTypes ==
  ASSUME TypeOK, UserStep
  PROVE  TypeOK'
<1>1. Change => changes' \in 0 .. MaxChanges
  BY ReportsAssumption DEF Change, TypeOK
<1>2. ASSUME NEW k \in CHCs, DeleteCHC(k)
      PROVE  TypeOK'
  <2>1. chc' \in [CHCs -> [exists : BOOLEAN, deleting : BOOLEAN]]
    <3>1. chc \in [CHCs -> [exists : BOOLEAN, deleting : BOOLEAN]]
      BY DEF TypeOK
    <3>2. [chc[k] EXCEPT !.deleting = TRUE] \in [exists : BOOLEAN, deleting : BOOLEAN]
      BY <3>1
    <3>3. chc' = [chc EXCEPT ![k] = [chc[k] EXCEPT !.deleting = TRUE]]
      BY Zenon, <1>2 DEF DeleteCHC
    <3> QED BY <3>1, <3>2, <3>3
  <2> QED BY <1>1, <1>2, <2>1 DEF DeleteCHC, Change, TypeOK, managed
<1>3. ASSUME NEW k \in CHCs, NEW c \in Clusters, ChangeMatch(k, c)
      PROVE  TypeOK'
  <2>1. matches' \in [CHCs -> SUBSET Clusters]
    BY <1>3 DEF ChangeMatch, TypeOK
  <2> QED BY <1>1, <1>3, <2>1 DEF ChangeMatch, Change, TypeOK, managed
<1>4. ASSUME NEW h \in HealthChecks, ChangeHealthCheck(h)
      PROVE  TypeOK'
  <2>1. healthCheck' \in [HealthChecks -> BOOLEAN]
    BY <1>4 DEF ChangeHealthCheck, TypeOK
  <2>2. queue' \subseteq ({"HealthCheck"} \X HealthChecks) \cup ({"Cluster"} \X Clusters)
    BY <1>4 DEF ChangeHealthCheck, TypeOK
  <2> QED BY <1>1, <1>4, <2>1, <2>2 DEF ChangeHealthCheck, Change, TypeOK, managed
<1>5. ASSUME NEW c \in Clusters, ClusterGone(c)
      PROVE  TypeOK'
  <2>1. cluster' \in [Clusters -> BOOLEAN] /\ matches' \in [CHCs -> SUBSET Clusters]
    BY <1>5 DEF ClusterGone, TypeOK
  <2>2. owners' \in [Clusters -> [HealthChecks -> SUBSET CHCs]]
    BY <1>5 DEF ClusterGone, TypeOK
  <2>3. report' \in [Clusters -> [HealthChecks -> Reports]]
    BY <1>5, IdleFacts DEF ClusterGone, TypeOK
  <2>4. queue' \subseteq ({"HealthCheck"} \X HealthChecks) \cup ({"Cluster"} \X Clusters)
    BY <1>5 DEF ClusterGone, TypeOK
  <2> QED BY <1>1, <1>5, <2>1, <2>2, <2>3, <2>4 DEF ClusterGone, Change, TypeOK
<1> QED BY <1>2, <1>3, <1>4, <1>5 DEF UserStep

-----------------------------------------------------------------------------
(* Entries and refs. *)

\* A step that only moves one entry.
OnlyEntry(k, c, v) ==
  /\ deployed[k][c] # "no"
  /\ deployed' = [deployed EXCEPT ![k][c] = v]
  /\ UNCHANGED <<chc, target, refs, cluster>>

\* The entries after a step that only moves one.
LEMMA EntryFacts ==
  ASSUME TypeOK, NEW k \in CHCs, NEW c \in Clusters, NEW v, OnlyEntry(k, c, v)
  PROVE  /\ deployed'[k][c] = v
         /\ \A j \in CHCs, d \in Clusters :
              j # k \/ d # c => deployed'[j][d] = deployed[j][d]
<1>1. deployed \in [CHCs -> [Clusters -> {"no", "new", "yes", "leaving", "left"}]]
  BY DEF TypeOK
<1> QED BY <1>1 DEF OnlyEntry

\* An entry that is dropped is not one the reconcile decided on.
LEMMA EntryKeepsEntries ==
  ASSUME TypeOK, EntriesInv, NEW k \in CHCs, NEW c \in Clusters, NEW v,
         OnlyEntry(k, c, v), v # "no" \/ c \notin target[k]
  PROVE  EntriesInv'
<1>1. chc[k].exists
  BY DEF EntriesInv, OnlyEntry
<1>2. \A j \in CHCs : target[j] \subseteq Clusters
  BY DEF TypeOK
<1>3. chc' = chc /\ target' = target
  BY DEF OnlyEntry
<1>4. ASSUME NEW j \in CHCs, NEW d \in target[j]
      PROVE  deployed'[j][d] # "no"
  <2>1. d \in Clusters /\ deployed[j][d] # "no"
    BY <1>2, <1>4 DEF EntriesInv
  <2>2. CASE j = k /\ d = c
    BY <1>4, <2>2, EntryFacts
  <2>3. CASE ~(j = k /\ d = c)
    BY <1>4, <2>1, <2>3, EntryFacts
  <2> QED BY <2>2, <2>3
<1>5. ASSUME NEW j \in CHCs, ~chc[j].exists, NEW d \in Clusters
      PROVE  deployed'[j][d] = "no"
  <2>1. j # k /\ deployed[j][d] = "no"
    BY <1>1, <1>5 DEF EntriesInv
  <2> QED BY <1>5, <2>1, EntryFacts
<1> QED BY <1>3, <1>4, <1>5 DEF EntriesInv

\* An entry that is dropped is not one MatchingClusterRefs still names.
LEMMA EntryKeepsRefs ==
  ASSUME TypeOK, RefsInv, NEW k \in CHCs, NEW c \in Clusters, NEW v, OnlyEntry(k, c, v),
         v # "no" \/ ~cluster[c] \/ chc[k].deleting \/ c \notin refs[k]
  PROVE  RefsInv'
<1>1. \A j \in CHCs : refs[j] \subseteq Clusters
  BY DEF TypeOK
<1>2. chc' = chc /\ refs' = refs /\ cluster' = cluster
  BY DEF OnlyEntry
<1>3. ASSUME NEW j \in CHCs, NEW d \in refs[j], chc[j].exists, ~chc[j].deleting, cluster[d]
      PROVE  deployed'[j][d] # "no"
  <2>1. d \in Clusters /\ deployed[j][d] # "no"
    BY <1>1, <1>3 DEF RefsInv
  <2>2. CASE j = k /\ d = c
    BY <1>3, <2>2, EntryFacts
  <2>3. CASE ~(j = k /\ d = c)
    BY <1>3, <2>1, <2>3, EntryFacts
  <2> QED BY <2>2, <2>3
<1> QED BY <1>2, <1>3 DEF RefsInv

\* A CHC that will clean up a cluster is not lost with another entry.
LEMMA EntryKeepsCleaner ==
  ASSUME TypeOK, NEW k \in CHCs, NEW c \in Clusters, NEW v, OnlyEntry(k, c, v), queue' = queue,
         NEW d \in Clusters, NEW h \in HealthChecks, SomebodyCleans(d, h),
         v # "no" \/ ~cluster[c] \/ ~(d = c /\ h \in References[k])
  PROVE  SomebodyCleans(d, h)'
<1>1. cluster' = cluster
  BY DEF OnlyEntry
<1>2. CASE ~cluster[d]
  BY <1>1, <1>2 DEF SomebodyCleans
<1>3. CASE cluster[d]
  <2>1. PICK j \in CHCs : h \in References[j] /\ deployed[j][d] # "no"
    BY <1>3 DEF SomebodyCleans
  <2>2. deployed'[j][d] # "no"
    <3>1. CASE j = k /\ d = c
      BY <1>3, <2>1, <3>1, EntryFacts
    <3>2. CASE ~(j = k /\ d = c)
      BY <2>1, <3>2, EntryFacts
    <3> QED BY <3>1, <3>2
  <2> QED BY <1>1, <1>3, <2>1, <2>2 DEF SomebodyCleans
<1> QED BY <1>2, <1>3

\* A reconcile only adds entries.
LEMMA ReconcileFacts ==
  ASSUME TypeOK, NEW k \in CHCs, Reconcile(k)
  PROVE  /\ target'[k] = Decided(k) /\ Decided(k) \subseteq Clusters
         /\ \A c \in Decided(k) : deployed'[k][c] # "no"
         /\ \A j \in CHCs : j # k => target'[j] = target[j] /\ deployed'[j] = deployed[j]
         /\ \A j \in CHCs, c \in Clusters : deployed[j][c] # "no" => deployed'[j][c] # "no"
<1>1. /\ deployed \in [CHCs -> [Clusters -> {"no", "new", "yes", "leaving", "left"}]]
      /\ target \in [CHCs -> SUBSET Clusters] /\ matches \in [CHCs -> SUBSET Clusters]
  BY DEF TypeOK
<1>2. Decided(k) \subseteq Clusters
  BY <1>1 DEF Decided
<1>3. target'[k] = Decided(k) /\ \A j \in CHCs : j # k => target'[j] = target[j]
  BY <1>1 DEF Reconcile
<1>4. /\ \A c \in Clusters : deployed'[k][c] = IF c \in Decided(k) /\ deployed[k][c] = "no"
                                               THEN "new" ELSE deployed[k][c]
      /\ \A j \in CHCs : j # k => deployed'[j] = deployed[j]
  BY <1>1 DEF Reconcile
<1> QED BY <1>2, <1>3, <1>4

\* What each job step does to its entry.
LEMMA JobEntries ==
  ASSUME NEW k \in CHCs, NEW c \in Clusters
  PROVE  /\ DeployHealthChecks(k, c) => OnlyEntry(k, c, "yes") /\ queue' = queue
         /\ RemoveStaleReports(k, c) => OnlyEntry(k, c, "leaving") /\ queue' = queue
         /\ RemoveStaleHealthChecks(k, c) => OnlyEntry(k, c, "left") /\ queue' = queue
         /\ RemoveReportsOfReferenced(k, c) => OnlyEntry(k, c, AfterCleanup(k, c)) /\ queue' = queue
         /\ ForgetCluster(k, c) => OnlyEntry(k, c, "no") /\ queue' = queue
<1>1. DeployHealthChecks(k, c) => OnlyEntry(k, c, "yes") /\ queue' = queue
  BY DEF DeployHealthChecks, OnlyEntry
<1>2. RemoveStaleReports(k, c) => OnlyEntry(k, c, "leaving") /\ queue' = queue
  BY DEF RemoveStaleReports, OnlyEntry
<1>3. RemoveStaleHealthChecks(k, c) => OnlyEntry(k, c, "left") /\ queue' = queue
  BY DEF RemoveStaleHealthChecks, OnlyEntry
<1>4. RemoveReportsOfReferenced(k, c) => OnlyEntry(k, c, AfterCleanup(k, c)) /\ queue' = queue
  BY DEF RemoveReportsOfReferenced, OnlyEntry
<1>5. ForgetCluster(k, c) => OnlyEntry(k, c, "no") /\ queue' = queue
  BY DEF ForgetCluster, OnlyEntry
<1> QED BY <1>1, <1>2, <1>3, <1>4, <1>5

\* Reports are still accounted for when none is added and nobody who removes
\* them is lost.
LEMMA ReportsKept ==
  ASSUME ReportsInv,
         \A c \in Clusters, h \in HealthChecks :
           /\ mgmt'[<<c, h>>] # 0 => mgmt[<<c, h>>] # 0
           /\ <<c, h>> \in InFlight' => <<c, h>> \in InFlight
           /\ AboutToCopy(c, h)' => AboutToCopy(c, h)
           /\ (mgmt'[<<c, h>>] # 0 \/ <<c, h>> \in InFlight') /\ SomebodyCleans(c, h) =>
                SomebodyCleans(c, h)'
           /\ (mgmt'[<<c, h>>] # 0 \/ AboutToCopy(c, h)') /\ HealthCheckWatched(h) =>
                HealthCheckWatched(h)'
  PROVE  ReportsInv'
  BY DEF ReportsInv

\* The same, when the step is not one of the collector's.
LEMMA ReportsLeftAlone ==
  ASSUME ReportsInv, collector' = collector,
         \A c \in Clusters, h \in HealthChecks :
           /\ mgmt'[<<c, h>>] # 0 => mgmt[<<c, h>>] # 0
           /\ (mgmt'[<<c, h>>] # 0 \/ <<c, h>> \in InFlight) /\ SomebodyCleans(c, h) =>
                SomebodyCleans(c, h)'
           /\ (mgmt'[<<c, h>>] # 0 \/ AboutToCopy(c, h)) /\ HealthCheckWatched(h) =>
                HealthCheckWatched(h)'
  PROVE  ReportsInv'
<1>1. InFlight' = InFlight
  BY DEF InFlight
<1>2. \A c \in Clusters, h \in HealthChecks : AboutToCopy(c, h)' <=> AboutToCopy(c, h)
  BY DEF AboutToCopy
<1> QED BY <1>1, <1>2, ReportsKept

\* A report about to be copied is in flight.
LEMMA AboutToCopyInFlight ==
  ASSUME CycleInv, NEW c \in Clusters, NEW h \in HealthChecks, AboutToCopy(c, h)
  PROVE  <<c, h>> \in InFlight
  BY InFlightDef DEF AboutToCopy, CycleInv

-----------------------------------------------------------------------------
(* Every step keeps the reports accounted for. *)

Accounted == EntriesInv /\ (raced \/ (RefsInv /\ ReportsInv))

\* Every initial copy is accounted for.
LEMMA AccountedInit == Init => Accounted
<1> SUFFICES ASSUME Init PROVE Accounted
  OBVIOUS
<1>1. /\ chc = [k \in CHCs |-> [exists |-> TRUE, deleting |-> FALSE]]
      /\ target = Selectable /\ refs = Selectable
      /\ deployed = [k \in CHCs |-> [c \in Clusters |->
                       IF c \in Selectable[k] THEN "yes" ELSE "no"]]
      /\ healthCheck = [h \in HealthChecks |-> TRUE] /\ cluster = [c \in Clusters |-> TRUE]
  BY DEF Init
<1>2. \A k \in CHCs : Selectable[k] \subseteq Clusters
  BY ReportsAssumption
<1>3. \A k \in CHCs : \A c \in Selectable[k] : deployed[k][c] # "no"
  BY <1>1, <1>2
<1>4. EntriesInv /\ RefsInv
  BY <1>1, <1>3 DEF EntriesInv, RefsInv
<1>5. ASSUME NEW c \in Clusters, NEW h \in HealthChecks, mgmt[<<c, h>>] # 0
      PROVE  SomebodyCleans(c, h)
  <2>1. mgmt[<<c, h>>] = report[c][h].content
    BY <1>5 DEF Init, Keys
  <2>2. report[c][h] = IF owners[c][h] # {} THEN [NoReport EXCEPT !.content = 1] ELSE NoReport
    BY <1>5 DEF Init
  <2>3. owners[c][h] # {}
    BY <1>5, <2>1, <2>2 DEF NoReport
  <2>4. owners[c][h] = {k \in CHCs : c \in Selectable[k] /\ h \in References[k]}
    BY <1>5 DEF Init
  <2>5. PICK k \in CHCs : c \in Selectable[k] /\ h \in References[k]
    BY <2>3, <2>4
  <2> QED BY <1>1, <1>3, <1>5, <2>5 DEF SomebodyCleans
<1>6. collector.pc = "clusters" /\ collector.wanted = {}
  BY DEF Init, Idle
<1>7. InFlight = {} /\ \A c \in Clusters, h \in HealthChecks : ~AboutToCopy(c, h)
  BY <1>6 DEF InFlight, AboutToCopy
<1>8. \A h \in HealthChecks : HealthCheckWatched(h)
  BY <1>1 DEF HealthCheckWatched
<1>9. ReportsInv
  BY <1>5, <1>7, <1>8 DEF ReportsInv
<1> QED BY <1>4, <1>9 DEF Accounted

\* The collector copies only reports somebody will remove.
LEMMA CollectorAccounted ==
  ASSUME TypeOK, CycleInv, Accounted, CollectorStep
  PROVE  Accounted'
<1>1. UNCHANGED <<chc, target, refs, deployed, healthCheck, cluster, queue, raced>>
  BY DEF CollectorStep, StartCycle, ListReports, ProcessReport, CopyReport, chcs
<1>2. EntriesInv'
  BY <1>1 DEF Accounted, EntriesInv
<1> SUFFICES ASSUME ~raced PROVE RefsInv' /\ ReportsInv'
  BY <1>1, <1>2 DEF Accounted
<1>3. RefsInv /\ ReportsInv
  BY DEF Accounted
<1>4. RefsInv'
  BY <1>1, <1>3 DEF RefsInv
<1>5. \A c \in Clusters, h \in HealthChecks :
        /\ SomebodyCleans(c, h)' <=> SomebodyCleans(c, h)
        /\ HealthCheckWatched(h)' <=> HealthCheckWatched(h)
  BY <1>1 DEF SomebodyCleans, HealthCheckWatched
<1>6. CASE StartCycle
  <2>1. collector'.pc = "clusters" /\ mgmt' = mgmt
    BY <1>6, StartCycleFacts DEF StartCycle
  <2>2. ASSUME NEW c \in Clusters, NEW h \in HealthChecks, <<c, h>> \in InFlight'
        PROVE  SomebodyCleans(c, h)
    <3>1. <<c, h>> \in Wanted /\ cluster[c]
      BY <1>6, <2>2, StartCycleFacts
    <3>2. PICK k \in CHCs : /\ chc[k].exists /\ ~chc[k].deleting
                            /\ c \in refs[k] /\ h \in References[k]
      BY <3>1 DEF Wanted
    <3>3. deployed[k][c] # "no"
      BY <1>3, <3>1, <3>2 DEF RefsInv
    <3> QED BY <3>1, <3>2, <3>3 DEF SomebodyCleans
  <2>3. \A c \in Clusters, h \in HealthChecks : ~AboutToCopy(c, h)'
    BY <2>1 DEF AboutToCopy
  <2>4. ReportsInv'
    BY <1>3, <1>5, <2>1, <2>2, <2>3 DEF ReportsInv
  <2> QED BY <1>4, <2>4
<1>7. ASSUME NEW c \in Clusters, ListReports(c)
      PROVE  ReportsInv'
  <2>1. CycleContinues /\ collector'.pc # "copy" /\ mgmt' = mgmt
    BY <1>7, ListReportsContinues DEF ListReports
  <2>2. \A d \in Clusters, h \in HealthChecks : ~AboutToCopy(d, h)'
    BY <2>1 DEF AboutToCopy
  <2> QED BY <1>3, <1>5, <2>1, <2>2 DEF ReportsInv, CycleContinues
<1>8. ASSUME NEW c \in Clusters, NEW h \in HealthChecks, ProcessReport(c, h)
      PROVE  ReportsInv'
  <2>1. /\ CycleContinues
        /\ \A d \in Clusters, i \in HealthChecks : AboutToCopy(d, i)' => healthCheck[i]
        /\ \A x \in Keys : mgmt'[x] # 0 => mgmt[x] # 0
    BY <1>8, ProcessReportContinues
  <2>2. \A d \in Clusters, i \in HealthChecks : mgmt'[<<d, i>>] # 0 => mgmt[<<d, i>>] # 0
    BY <2>1 DEF Keys
  <2>3. \A d \in Clusters, i \in HealthChecks : AboutToCopy(d, i)' => HealthCheckWatched(i)
    BY <2>1 DEF HealthCheckWatched
  <2> QED BY <1>3, <1>5, <2>1, <2>2, <2>3 DEF ReportsInv, CycleContinues
<1>9. ASSUME NEW c \in Clusters, NEW h \in HealthChecks, CopyReport(c, h)
      PROVE  ReportsInv'
  <2>1. /\ CycleContinues /\ collector'.pc # "copy"
        /\ AboutToCopy(c, h) /\ <<c, h>> \in InFlight
        /\ \A x \in Keys : x # <<c, h>> => mgmt'[x] = mgmt[x]
    BY <1>9, CopyReportContinues
  <2>2. SomebodyCleans(c, h) /\ HealthCheckWatched(h)
    BY <1>3, <1>9, <2>1 DEF ReportsInv
  <2>3. \A d \in Clusters, i \in HealthChecks : ~AboutToCopy(d, i)'
    BY <2>1 DEF AboutToCopy
  <2>4. ASSUME NEW d \in Clusters, NEW i \in HealthChecks, mgmt'[<<d, i>>] # 0
        PROVE  SomebodyCleans(d, i) /\ HealthCheckWatched(i)
    <3>1. CASE <<d, i>> = <<c, h>>
      BY <2>2, <3>1
    <3>2. CASE <<d, i>> # <<c, h>>
      <4>1. mgmt[<<d, i>>] # 0
        BY <2>1, <2>4, <3>2 DEF Keys
      <4> QED BY <1>3, <2>4, <4>1 DEF ReportsInv
    <3> QED BY <3>1, <3>2
  <2>5. \A d \in Clusters, i \in HealthChecks : <<d, i>> \in InFlight' => SomebodyCleans(d, i)
    BY <1>3, <2>1 DEF ReportsInv, CycleContinues
  <2> QED BY <1>5, <2>3, <2>4, <2>5 DEF ReportsInv
<1> QED BY <1>4, <1>6, <1>7, <1>8, <1>9 DEF CollectorStep

\* A CHC drops an entry only when it removed the reports of the cluster,
\* another CHC takes care of them, or the race is recorded.
LEMMA CHCAccounted ==
  ASSUME TypeOK, CycleInv, Accounted, NEW k \in CHCs, CHCStep(k)
  PROVE  Accounted'
<1>1. EntriesInv /\ (~raced => RefsInv /\ ReportsInv)
  BY DEF Accounted
<1>2. collector' = collector /\ UNCHANGED <<healthCheck, queue, cluster>>
  BY DEF CHCStep, Reconcile, Close, Released, DeployHealthChecks, RemoveStaleReports,
         RemoveStaleHealthChecks, RemoveReportsOfReferenced, ForgetCluster
<1>3. \A h \in HealthChecks : HealthCheckWatched(h)' <=> HealthCheckWatched(h)
  BY <1>2 DEF HealthCheckWatched
<1>4. CASE Reconcile(k)
  <2>1. UNCHANGED <<chc, refs, cluster, queue, mgmt, raced, collector>>
    BY <1>4 DEF Reconcile
  <2>2. EntriesInv'
    <3>1. ASSUME NEW j \in CHCs, NEW c \in target'[j]
          PROVE  deployed'[j][c] # "no"
      BY <1>1, <1>4, <3>1, ReconcileFacts DEF EntriesInv
    <3>2. ASSUME NEW j \in CHCs, ~chc[j].exists, NEW c \in Clusters
          PROVE  deployed'[j][c] = "no"
      <4>1. j # k
        BY <1>4, <3>2 DEF Reconcile
      <4> QED BY <1>1, <1>4, <3>2, <4>1, ReconcileFacts DEF EntriesInv
    <3> QED BY <2>1, <3>1, <3>2 DEF EntriesInv
  <2>3. \A j \in CHCs, c \in Clusters : deployed[j][c] # "no" => deployed'[j][c] # "no"
    BY <1>4, ReconcileFacts
  <2>4. RefsInv => RefsInv'
    <3>1. \A j \in CHCs : refs[j] \subseteq Clusters
      BY DEF TypeOK
    <3> QED BY <2>1, <2>3, <3>1 DEF RefsInv
  <2>5. \A c \in Clusters, h \in HealthChecks : SomebodyCleans(c, h) => SomebodyCleans(c, h)'
    BY <2>1, <2>3 DEF SomebodyCleans
  <2>6. ReportsInv => ReportsInv'
    BY <1>3, <2>1, <2>5, ReportsLeftAlone
  <2> QED BY <1>1, <2>1, <2>2, <2>4, <2>6 DEF Accounted
<1>5. CASE Close(k)
  <2>1. UNCHANGED <<chc, target, deployed, cluster, queue, mgmt, raced, collector>>
    BY <1>5 DEF Close
  <2>2. EntriesInv'
    BY <1>1, <2>1 DEF EntriesInv
  <2>3. /\ refs'[k] = target[k]
        /\ \A j \in CHCs : j # k => refs'[j] = refs[j]
    BY <1>5 DEF Close, TypeOK
  <2>4. RefsInv => RefsInv'
    BY <1>1, <2>1, <2>3 DEF RefsInv, EntriesInv
  <2>5. \A c \in Clusters, h \in HealthChecks : SomebodyCleans(c, h) => SomebodyCleans(c, h)'
    BY <2>1 DEF SomebodyCleans
  <2>6. ReportsInv => ReportsInv'
    BY <1>3, <2>1, <2>5, ReportsLeftAlone
  <2> QED BY <1>1, <2>1, <2>2, <2>4, <2>6 DEF Accounted
<1>6. CASE Released(k)
  <2>1. UNCHANGED <<target, deployed, cluster, queue, mgmt, raced, collector>>
    BY <1>6 DEF Released
  <2>2. /\ \A c \in Clusters : deployed[k][c] = "no"
        /\ \A j \in CHCs : j # k => chc'[j] = chc[j] /\ refs'[j] = refs[j]
        /\ refs'[k] = {}
    BY <1>6 DEF Released, TypeOK
  <2>3. EntriesInv'
    BY <1>1, <2>1, <2>2 DEF EntriesInv
  <2>4. RefsInv => RefsInv'
    BY <2>1, <2>2 DEF RefsInv
  <2>5. \A c \in Clusters, h \in HealthChecks : SomebodyCleans(c, h) => SomebodyCleans(c, h)'
    BY <2>1 DEF SomebodyCleans
  <2>6. ReportsInv => ReportsInv'
    BY <1>3, <2>1, <2>5, ReportsLeftAlone
  <2> QED BY <1>1, <2>1, <2>3, <2>4, <2>6 DEF Accounted
<1>7. ASSUME NEW c \in Clusters, NEW v, OnlyEntry(k, c, v), v # "no" \/ c \notin target[k],
             ~raced' => /\ ~raced
                        /\ v # "no" \/ ~cluster[c] \/ chc[k].deleting \/ c \notin refs[k]
                        /\ \A d \in Clusters, h \in HealthChecks :
                             /\ mgmt'[<<d, h>>] # 0 => mgmt[<<d, h>>] # 0
                             /\ mgmt'[<<d, h>>] # 0 \/ <<d, h>> \in InFlight =>
                                  v # "no" \/ ~cluster[c] \/ ~(d = c /\ h \in References[k]),
             raced' \in BOOLEAN
      PROVE  Accounted'
  <2>1. EntriesInv'
    BY <1>1, <1>7, EntryKeepsEntries
  <2>2. CASE raced'
    BY <2>1, <2>2 DEF Accounted
  <2>3. CASE ~raced'
    <3>1. RefsInv'
      BY <1>1, <1>7, <2>3, EntryKeepsRefs
    <3>2. \A d \in Clusters, h \in HealthChecks :
            (mgmt'[<<d, h>>] # 0 \/ <<d, h>> \in InFlight) /\ SomebodyCleans(d, h) =>
              SomebodyCleans(d, h)'
      BY <1>2, <1>7, <2>3, EntryKeepsCleaner
    <3>3. ReportsInv'
      BY <1>1, <1>2, <1>3, <1>7, <2>3, <3>2, ReportsLeftAlone
    <3> QED BY <2>1, <3>1, <3>3 DEF Accounted
  <2> QED BY <1>7, <2>2, <2>3
<1>8. raced \in BOOLEAN
  BY DEF TypeOK
<1>9. ASSUME NEW c \in Clusters, DeployHealthChecks(k, c)
      PROVE  Accounted'
  <2>1. OnlyEntry(k, c, "yes") /\ mgmt' = mgmt /\ raced' = raced
    BY <1>9, JobEntries DEF DeployHealthChecks
  <2> QED BY <1>7, <1>8, <2>1
<1>10. ASSUME NEW c \in Clusters, RemoveStaleReports(k, c)
       PROVE  Accounted'
  <2>1. OnlyEntry(k, c, "leaving")
    BY <1>10, JobEntries
  <2> DEFINE keys == {c} \X {h \in HealthChecks : owners[c][h] = {k}}
  <2>2. Remove(keys)
    BY <1>10 DEF RemoveStaleReports
  <2> HIDE DEF keys
  <2>3. /\ raced' \in BOOLEAN /\ (~raced' => ~raced)
        /\ \A x \in Keys : mgmt'[x] = IF x \in keys THEN 0 ELSE mgmt[x]
    BY <2>2, RemoveFacts
  <2>4. \A d \in Clusters, h \in HealthChecks : mgmt'[<<d, h>>] # 0 => mgmt[<<d, h>>] # 0
    BY <2>3 DEF Keys
  <2> QED BY <1>7, <2>1, <2>3, <2>4
<1>11. ASSUME NEW c \in Clusters, RemoveStaleHealthChecks(k, c)
       PROVE  Accounted'
  <2>1. OnlyEntry(k, c, "left") /\ mgmt' = mgmt /\ raced' = raced
    BY <1>11, JobEntries DEF RemoveStaleHealthChecks
  <2> QED BY <1>7, <1>8, <2>1
<1>12. ASSUME NEW c \in Clusters, RemoveReportsOfReferenced(k, c)
       PROVE  Accounted'
  <2>1. OnlyEntry(k, c, AfterCleanup(k, c))
    BY <1>12, JobEntries
  <2>2. AfterCleanup(k, c) # "no" \/ c \notin target[k]
    BY DEF AfterCleanup
  <2>3. /\ raced' \in BOOLEAN
        /\ \A d \in Clusters, h \in HealthChecks :
             mgmt'[<<d, h>>] = IF d = c /\ h \in References[k] THEN 0 ELSE mgmt[<<d, h>>]
        /\ ~raced' => /\ ~raced
                      /\ \A h \in References[k] : <<c, h>> \notin InFlight
                      /\ c \in refs[k] => chc[k].deleting
    BY <1>12, RemoveReferencedFacts
  <2>4. ASSUME ~raced', NEW d \in Clusters, NEW h \in HealthChecks
        PROVE  /\ mgmt'[<<d, h>>] # 0 => mgmt[<<d, h>>] # 0
               /\ mgmt'[<<d, h>>] # 0 \/ <<d, h>> \in InFlight => ~(d = c /\ h \in References[k])
    BY <2>3, <2>4
  <2> QED BY <1>7, <2>1, <2>2, <2>3, <2>4
<1>13. ASSUME NEW c \in Clusters, ForgetCluster(k, c)
       PROVE  Accounted'
  <2>1. OnlyEntry(k, c, "no") /\ mgmt' = mgmt /\ raced' = raced
    BY <1>13, JobEntries DEF ForgetCluster
  <2>2. ~cluster[c] /\ c \notin target[k]
    BY <1>13 DEF ForgetCluster
  <2> QED BY <1>7, <1>8, <2>1, <2>2
<1> QED BY <1>4, <1>5, <1>6, <1>9, <1>10, <1>11, <1>12, <1>13 DEF CHCStep

\* The controllers leave their queue only when the reports are removed.
LEMMA ControllerAccounted ==
  ASSUME TypeOK, CycleInv, Accounted, ControllerStep
  PROVE  Accounted'
<1>1. EntriesInv /\ (~raced => RefsInv /\ ReportsInv)
  BY DEF Accounted
<1>2. UNCHANGED <<chc, target, refs, deployed, healthCheck, cluster, collector>>
  BY DEF ControllerStep, ReconcileHealthCheck, ReconcileCluster, chcs
<1>3. EntriesInv' /\ (RefsInv => RefsInv')
  BY <1>1, <1>2 DEF EntriesInv, RefsInv
<1>4. raced \in BOOLEAN
  BY DEF TypeOK
<1>5. ASSUME NEW h \in HealthChecks, ReconcileHealthCheck(h)
      PROVE  Accounted'
  <2>1. queue' = queue \ {<<"HealthCheck", h>>}
    BY <1>5 DEF ReconcileHealthCheck
  <2>2. \A c \in Clusters, i \in HealthChecks : SomebodyCleans(c, i) => SomebodyCleans(c, i)'
    BY <1>2, <2>1 DEF SomebodyCleans
  <2>3. \A i \in HealthChecks : i # h \/ healthCheck[h] =>
          (HealthCheckWatched(i) => HealthCheckWatched(i)')
    BY <1>2, <2>1 DEF HealthCheckWatched
  <2>4. CASE healthCheck[h]
    <3>1. mgmt' = mgmt /\ raced' = raced
      BY <1>5, <2>4 DEF ReconcileHealthCheck
    <3>2. ReportsInv => ReportsInv'
      BY <1>2, <2>2, <2>3, <2>4, <3>1, ReportsLeftAlone
    <3> QED BY <1>1, <1>3, <3>1, <3>2 DEF Accounted
  <2>5. CASE ~healthCheck[h]
    <3> DEFINE keys == Clusters \X {h}
    <3>1. Remove(keys)
      BY <1>5, <2>5 DEF ReconcileHealthCheck
    <3>2. \A c \in Clusters, i \in HealthChecks : <<c, i>> \in keys <=> i = h
      OBVIOUS
    <3> HIDE DEF keys
    <3>3. /\ raced' \in BOOLEAN
          /\ \A x \in Keys : mgmt'[x] = IF x \in keys THEN 0 ELSE mgmt[x]
          /\ ~raced' => ~raced /\ \A x \in keys : x \notin InFlight
      BY <3>1, RemoveFacts
    <3>4. ASSUME ~raced' PROVE ReportsInv'
      <4>1. ASSUME NEW c \in Clusters, NEW i \in HealthChecks
            PROVE  /\ mgmt'[<<c, i>>] # 0 => mgmt[<<c, i>>] # 0 /\ i # h
                   /\ AboutToCopy(c, i) => i # h
        <5>1. mgmt'[<<c, i>>] = IF i = h THEN 0 ELSE mgmt[<<c, i>>]
          BY <3>2, <3>3, <4>1 DEF Keys
        <5>2. <<c, i>> \in InFlight => i # h
          BY <3>2, <3>3, <3>4, <4>1
        <5> QED BY <4>1, <5>1, <5>2, AboutToCopyInFlight
      <4> QED BY <1>1, <1>2, <2>2, <2>3, <3>3, <3>4, <4>1, ReportsLeftAlone
    <3>5. CASE raced'
      BY <1>3, <3>5 DEF Accounted
    <3>6. CASE ~raced'
      BY <1>1, <1>3, <3>3, <3>4, <3>6 DEF Accounted
    <3> QED BY <3>3, <3>5, <3>6
  <2> QED BY <2>4, <2>5
<1>6. ASSUME NEW c \in Clusters, ReconcileCluster(c)
      PROVE  Accounted'
  <2>1. queue' = queue \ {<<"Cluster", c>>}
    BY <1>6 DEF ReconcileCluster
  <2>2. \A i \in HealthChecks : HealthCheckWatched(i) => HealthCheckWatched(i)'
    BY <1>2, <2>1 DEF HealthCheckWatched
  <2>3. \A d \in Clusters, i \in HealthChecks : d # c \/ cluster[c] =>
          (SomebodyCleans(d, i) => SomebodyCleans(d, i)')
    BY <1>2, <2>1 DEF SomebodyCleans
  <2>4. CASE cluster[c]
    <3>1. mgmt' = mgmt /\ raced' = raced
      BY <1>6, <2>4 DEF ReconcileCluster
    <3>2. ReportsInv => ReportsInv'
      BY <1>2, <2>2, <2>3, <2>4, <3>1, ReportsLeftAlone
    <3> QED BY <1>1, <1>3, <3>1, <3>2 DEF Accounted
  <2>5. CASE ~cluster[c]
    <3> DEFINE keys == {x \in Keys : Name[x[1]] = Name[c]}
    <3>1. Remove(keys)
      BY <1>6, <2>5 DEF ReconcileCluster
    <3>2. \A i \in HealthChecks : <<c, i>> \in keys
      BY <1>6 DEF Keys
    <3> HIDE DEF keys
    <3>3. /\ raced' \in BOOLEAN
          /\ \A x \in Keys : mgmt'[x] = IF x \in keys THEN 0 ELSE mgmt[x]
          /\ ~raced' => ~raced /\ \A x \in keys : x \notin InFlight
      BY <3>1, RemoveFacts
    <3>4. ASSUME ~raced' PROVE ReportsInv'
      <4>1. ASSUME NEW d \in Clusters, NEW i \in HealthChecks
            PROVE  /\ mgmt'[<<d, i>>] # 0 => mgmt[<<d, i>>] # 0 /\ d # c
                   /\ <<d, i>> \in InFlight => d # c
        <5>1. mgmt'[<<d, i>>] = IF <<d, i>> \in keys THEN 0 ELSE mgmt[<<d, i>>]
          BY <3>3, <4>1 DEF Keys
        <5> QED BY <3>2, <3>3, <3>4, <4>1, <5>1
      <4> QED BY <1>1, <1>2, <2>2, <2>3, <3>3, <3>4, <4>1, ReportsLeftAlone
    <3>5. CASE raced'
      BY <1>3, <3>5 DEF Accounted
    <3>6. CASE ~raced'
      BY <1>1, <1>3, <3>3, <3>4, <3>6 DEF Accounted
    <3> QED BY <3>3, <3>5, <3>6
  <2> QED BY <2>4, <2>5
<1> QED BY <1>5, <1>6 DEF ControllerStep

\* A step that changes nothing the invariant reads.
LEMMA FrameAccounted ==
  ASSUME Accounted,
         UNCHANGED <<chc, target, refs, deployed, healthCheck, cluster, mgmt, queue,
                     collector, raced>>
  PROVE  Accounted'
<1>1. EntriesInv' = EntriesInv /\ RefsInv' = RefsInv
  BY DEF EntriesInv, RefsInv
<1>2. \A c \in Clusters, h \in HealthChecks :
        /\ SomebodyCleans(c, h) => SomebodyCleans(c, h)'
        /\ HealthCheckWatched(h) => HealthCheckWatched(h)'
  BY DEF SomebodyCleans, HealthCheckWatched
<1>3. ReportsInv => ReportsInv'
  BY <1>2, ReportsLeftAlone
<1> QED BY <1>1, <1>3 DEF Accounted

\* What is deleted is put in the queue of the controller that cleans up.
LEMMA UserAccounted ==
  ASSUME TypeOK, Accounted, UserStep
  PROVE  Accounted'
<1>1. EntriesInv /\ (~raced => RefsInv /\ ReportsInv)
  BY DEF Accounted
<1>2. Change
  BY DEF UserStep, DeleteCHC, ChangeMatch, ChangeHealthCheck, ClusterGone
<1>3. UNCHANGED <<target, refs, deployed, mgmt, collector, raced>>
  BY <1>2 DEF Change
<1>4. ASSUME NEW k \in CHCs, DeleteCHC(k)
      PROVE  Accounted'
  <2>1. UNCHANGED <<healthCheck, cluster, queue>>
    BY <1>4 DEF DeleteCHC
  <2>2. \A j \in CHCs : /\ chc'[j].exists <=> chc[j].exists
                        /\ chc[j].deleting => chc'[j].deleting
    BY <1>4 DEF DeleteCHC, TypeOK
  <2>3. EntriesInv' /\ (RefsInv => RefsInv')
    BY <1>1, <1>3, <2>1, <2>2 DEF EntriesInv, RefsInv
  <2>4. \A c \in Clusters, h \in HealthChecks :
          /\ SomebodyCleans(c, h) => SomebodyCleans(c, h)'
          /\ HealthCheckWatched(h) => HealthCheckWatched(h)'
    BY <1>3, <2>1 DEF SomebodyCleans, HealthCheckWatched
  <2>5. ReportsInv => ReportsInv'
    BY <1>3, <2>4, ReportsLeftAlone
  <2> QED BY <1>1, <1>3, <2>3, <2>5 DEF Accounted
<1>5. ASSUME NEW k \in CHCs, NEW c \in Clusters, ChangeMatch(k, c)
      PROVE  Accounted'
  BY <1>3, <1>5, FrameAccounted DEF ChangeMatch
<1>6. ASSUME NEW h \in HealthChecks, ChangeHealthCheck(h)
      PROVE  Accounted'
  <2>1. /\ UNCHANGED <<chc, cluster>>
        /\ queue' = queue \cup {<<"HealthCheck", h>>}
        /\ \A i \in HealthChecks : i # h => healthCheck'[i] = healthCheck[i]
    BY <1>6 DEF ChangeHealthCheck, TypeOK
  <2>2. EntriesInv' /\ (RefsInv => RefsInv')
    BY <1>1, <1>3, <2>1 DEF EntriesInv, RefsInv
  <2>3. \A c \in Clusters, i \in HealthChecks : SomebodyCleans(c, i) => SomebodyCleans(c, i)'
    BY <1>3, <2>1 DEF SomebodyCleans
  <2>4. \A i \in HealthChecks : HealthCheckWatched(i) => HealthCheckWatched(i)'
    BY <2>1 DEF HealthCheckWatched
  <2>5. ReportsInv => ReportsInv'
    BY <1>3, <2>3, <2>4, ReportsLeftAlone
  <2> QED BY <1>1, <1>3, <2>2, <2>5 DEF Accounted
<1>7. ASSUME NEW c \in Clusters, ClusterGone(c)
      PROVE  Accounted'
  <2>1. /\ UNCHANGED <<chc, healthCheck>>
        /\ queue' = queue \cup {<<"Cluster", c>>}
        /\ ~cluster'[c] /\ \A d \in Clusters : d # c => cluster'[d] = cluster[d]
    BY <1>7 DEF ClusterGone, TypeOK
  <2>2. RefsInv => RefsInv'
    <3>1. \A j \in CHCs : refs[j] \subseteq Clusters
      BY DEF TypeOK
    <3> QED BY <1>3, <2>1, <3>1 DEF RefsInv
  <2>3. EntriesInv'
    BY <1>1, <1>3, <2>1 DEF EntriesInv
  <2>4. \A d \in Clusters, i \in HealthChecks : SomebodyCleans(d, i) => SomebodyCleans(d, i)'
    BY <1>3, <2>1 DEF SomebodyCleans
  <2>5. \A i \in HealthChecks : HealthCheckWatched(i) => HealthCheckWatched(i)'
    BY <2>1 DEF HealthCheckWatched
  <2>6. ReportsInv => ReportsInv'
    BY <1>3, <2>4, <2>5, ReportsLeftAlone
  <2> QED BY <1>1, <1>3, <2>2, <2>3, <2>6 DEF Accounted
<1> QED BY <1>4, <1>5, <1>6, <1>7 DEF UserStep

\* Only the collector moves its cycle on.
LEMMA CycleUnchanged ==
  ASSUME CycleInv, collector' = collector
  PROVE  CycleInv'
  BY DEF CycleInv

\* The initial states satisfy the inductive invariant.
LEMMA InitInductive == Init => IInv
<1> SUFFICES ASSUME Init PROVE IInv
  OBVIOUS
<1>1. collector = Idle
  BY DEF Init
<1>2. CycleInv
  BY <1>1, IdleFacts DEF CycleInv
<1> QED BY <1>2, InitType, AccountedInit DEF IInv, Accounted

\* Every step keeps the inductive invariant.
LEMMA NextInductive == IInv /\ [Next]_vars => IInv'
<1> SUFFICES ASSUME IInv, [Next]_vars PROVE TypeOK' /\ CycleInv' /\ Accounted'
  BY DEF IInv, Accounted
<1>1. TypeOK /\ CycleInv /\ Accounted
  BY DEF IInv, Accounted
<1>2. CASE CollectorStep
  BY <1>1, <1>2, CollectorTypes, CollectorAccounted
<1>3. CASE ControllerStep
  <2>1. collector' = collector
    BY <1>3 DEF ControllerStep, ReconcileHealthCheck, ReconcileCluster
  <2> QED BY <1>1, <1>3, <2>1, ControllerTypes, ControllerAccounted, CycleUnchanged
<1>4. ASSUME NEW k \in CHCs, CHCStep(k)
      PROVE  TypeOK' /\ CycleInv' /\ Accounted'
  <2>1. collector' = collector
    BY <1>4 DEF CHCStep, Reconcile, Close, Released, DeployHealthChecks, RemoveStaleReports,
                RemoveStaleHealthChecks, RemoveReportsOfReferenced, ForgetCluster
  <2> QED BY <1>1, <1>4, <2>1, CHCTypes, CHCAccounted, CycleUnchanged
<1>5. ASSUME NEW c \in Clusters, NEW h \in HealthChecks, AgentStep(c, h) \/ HealthChanges(c, h)
      PROVE  TypeOK' /\ CycleInv' /\ Accounted'
  <2>1. UNCHANGED <<chc, target, refs, deployed, healthCheck, cluster, mgmt, queue,
                    collector, raced>>
    BY <1>5 DEF AgentStep, AgentReports, AgentRemoves, ReportGone, HealthChanges, Change, chcs
  <2> QED BY <1>1, <1>5, <2>1, AgentTypes, FrameAccounted, CycleUnchanged
<1>6. CASE UserStep
  <2>1. collector' = collector
    BY <1>6 DEF UserStep, DeleteCHC, ChangeMatch, ChangeHealthCheck, ClusterGone, Change
  <2> QED BY <1>1, <1>6, <2>1, UserTypes, UserAccounted, CycleUnchanged
<1>7. CASE UNCHANGED vars
  <2>1. TypeOK'
    BY <1>1, <1>7 DEF vars, TypeOK
  <2> QED BY <1>1, <1>7, <2>1, FrameAccounted, CycleUnchanged DEF vars
<1> QED BY <1>2, <1>3, <1>4, <1>5, <1>6, <1>7 DEF Next, UserStep

\* In a settled state an entry is one of a CHC that wants the reports.
LEMMA SettledIsWanted ==
  ASSUME TypeOK, EntriesInv, Settled, NEW c \in Clusters, NEW h \in HealthChecks,
         NEW k \in CHCs, h \in References[k], deployed[k][c] # "no"
  PROVE  <<c, h>> \in Wanted
<1>1. c \in target[k] /\ target[k] = Decided(k) /\ refs[k] = target[k]
  BY DEF Settled
<1>2. ~chc[k].deleting
  BY <1>1 DEF Decided
<1>3. chc[k].exists
  BY DEF EntriesInv
<1> QED BY <1>1, <1>2, <1>3 DEF Wanted, Keys

-----------------------------------------------------------------------------

\* Type correctness of the CHCs, the reports and the collector's cycle.
THEOREM TypeCorrect == Spec => []TypeOK
<1>1. IInv => TypeOK
  BY DEF IInv
<1> QED BY <1>1, InitInductive, NextInductive, PTL DEF Spec

\* No orphan report: when nobody is about to remove or to copy a report, every
\* copy in the management cluster belongs to a cluster and a HealthCheck that
\* exist and is wanted, unless a report was removed while a cycle of the
\* collector could still copy it.
THEOREM NoOrphans == Spec => []NoOrphanReportUnlessRaced
<1>1. IInv => NoOrphanReportUnlessRaced
  <2> SUFFICES ASSUME IInv, ~raced, Settled, NEW c \in Clusters, NEW h \in HealthChecks,
                      mgmt[<<c, h>>] # 0
               PROVE  cluster[c] /\ healthCheck[h] /\ <<c, h>> \in Wanted
    BY DEF NoOrphanReportUnlessRaced, NoOrphanReport
  <2>1. SomebodyCleans(c, h) /\ HealthCheckWatched(h)
    BY DEF IInv, ReportsInv
  <2>2. queue = {}
    BY DEF Settled
  <2>3. cluster[c] /\ healthCheck[h]
    BY <2>1, <2>2 DEF SomebodyCleans, HealthCheckWatched
  <2>4. PICK k \in CHCs : h \in References[k] /\ deployed[k][c] # "no"
    BY <2>1, <2>3 DEF SomebodyCleans
  <2>5. <<c, h>> \in Wanted
    BY <2>4, SettledIsWanted DEF IInv
  <2> QED BY <2>3, <2>5
<1> QED BY <1>1, InitInductive, NextInductive, PTL DEF Spec

=============================================================================
