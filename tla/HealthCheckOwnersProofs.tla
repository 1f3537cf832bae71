------------------------ MODULE HealthCheckOwnersProofs ------------------------
(***************************************************************************)
(* For every set of ClusterHealthChecks and HealthChecks, with failing     *)
(* calls, conflicts and restarts anywhere: a CHC that is done has nothing  *)
(* in the managed cluster that it should not have, nobody else takes away  *)
(* what it has there and, but for the race named in the model, it has all  *)
(* that it should have.                                                    *)
(*                                                                         *)
(* None is inductive.  Jobs act on what they read earlier: what nobody     *)
(* wrote since (fresh) is still what they read (Reads, MapReads).  A job   *)
(* adds nothing but what it keeps (Adds) and, once it listed the           *)
(* HealthChecks, still has to leave whatever else its CHC owns (Leaves).   *)
(* A job that no change overtook keeps what its CHC should have (Intent).  *)
(***************************************************************************)
EXTENDS HealthCheckOwners, TLAPS

Reads(j) ==
  \A h \in HealthChecks :
    /\ ~agentInMgmtCluster /\ h \in j.fresh => j.seen[h] = remote[h]
    /\ ~j.seen[h].present => j.seen[h].owners = {}

MapReads(j) ==
  agentInMgmtCluster /\ ConfigMap \in j.fresh
    => j.seenMap = configMap \/ (j.pc = "write" /\ ~j.seenMap.present)

Adds(k, j) ==
  /\ j.pc # "prune" => j.todo \subseteq j.keep
  /\ j.pc = "prune" => j.todo \cap j.keep = {}
  /\ j.item \subseteq j.keep
  /\ agentInMgmtCluster /\ j.pc # "idle" /\ j.young
       => \A h \in HealthChecks : <<k, h>> \in configMap.entries => h \in j.keep

Leaves(k, j) ==
  ~agentInMgmtCluster /\ j.pc = "prune"
    => \A h \in HealthChecks :
         remote[h].present /\ k \in remote[h].owners => h \in j.keep \cup j.todo

JobOK(k, j) == Reads(j) /\ MapReads(j) /\ Adds(k, j) /\ Leaves(k, j)

\* What is not there has no owners and no entries.
Absences ==
  /\ \A h \in HealthChecks : ~remote[h].present => remote[h].owners = {}
  /\ ~configMap.present => configMap.entries = {}

Intended(k, j) == IF j.pc = "idle" THEN Has(k) \subseteq ShouldHave(k)
                  ELSE j.keep = ShouldHave(k)

Intent == \A k \in CHCs \ dirty : Intended(k, job[k])

IInv == /\ TypeOK
        /\ Absences
        /\ \A k \in CHCs : JobOK(k, job[k])
        /\ Intent

\* The values jobs are made of are well formed.
LEMMA Values ==
  /\ Absent \in Remotes
  /\ NoConfigMap \in ConfigMaps
  /\ NoJob \in JobType
  /\ NoJob.pc = "idle" /\ NoJob.fresh = {} /\ NoJob.todo = {} /\ NoJob.item = {}
  /\ NoJob.keep = {} /\ ~NoJob.young
  /\ NoJob.seen = [h \in HealthChecks |-> Absent] /\ NoJob.seenMap = NoConfigMap
  BY DEF Absent, NoConfigMap, NoJob, Remotes, ConfigMaps, JobType

\* An idle job is in order whatever the state.
LEMMA NoJobOK == \A k : JobOK(k, NoJob)
  BY Values DEF JobOK, Reads, MapReads, Adds, Leaves, Absent, NoConfigMap

\* The initial states satisfy the invariant.
LEMMA InitHolds == Init => IInv
<1> SUFFICES ASSUME Init PROVE IInv
  OBVIOUS
<1>1. TypeOK
  BY Values, OwnersAssumption DEF Init, TypeOK
<1>2. Absences
  BY DEF Init, Absences, Absent, NoConfigMap
<1>3. \A k \in CHCs : JobOK(k, job[k])
  BY NoJobOK DEF Init
<1>4. Intent
  BY Values DEF Init, Intent, Intended, Has, Absent, NoConfigMap
<1> QED
  BY <1>1, <1>2, <1>3, <1>4 DEF IInv

\* A step of CHC k's own job.
LEMMA StepType ==
  ASSUME TypeOK, NEW k \in CHCs, NEW j \in JobType, Step(k, j)
  PROVE  /\ job' \in [CHCs -> JobType]
         /\ job'[k] = j
         /\ \A x \in CHCs \ {k} : job'[x] = job[x]
  BY DEF TypeOK, Step

\* What the job of x becomes but for "fresh" when k writes and goes on with j.
Going(k, j, x) == IF x = k THEN j ELSE job[x]

SameBut(i, j, obj, changed) ==
  /\ i.pc = j.pc /\ i.keep = j.keep /\ i.todo = j.todo /\ i.item = j.item
  /\ i.seen = j.seen /\ i.seenMap = j.seenMap /\ i.young = j.young
  /\ i.fresh \subseteq j.fresh
  /\ changed => obj \notin i.fresh

\* What is known of the jobs once k wrote obj.
LEMMA WroteType ==
  ASSUME TypeOK, NEW k \in CHCs, NEW j \in JobType, NEW obj, NEW changed \in BOOLEAN,
         Wrote(k, obj, changed, j)
  PROVE  /\ job' \in [CHCs -> JobType]
         /\ \A x \in CHCs : SameBut(job'[x], Going(k, j, x), obj, changed)
<1> DEFINE after(x) == IF changed THEN [Going(k, j, x) EXCEPT !.fresh = @ \ {obj}]
                       ELSE Going(k, j, x)
<1>1. job' = [x \in CHCs |-> after(x)]
  BY DEF Wrote, Going
<1>2. ASSUME NEW x \in CHCs
      PROVE  after(x) \in JobType /\ SameBut(after(x), Going(k, j, x), obj, changed)
  <2>1. Going(k, j, x) \in JobType
    BY DEF TypeOK, Going
  <2> QED
    BY <2>1 DEF JobType, SameBut
<1> HIDE DEF after
<1> QED
  BY <1>1, <1>2

\* Nothing but the job of k changes.
LEMMA OnlyJob ==
  ASSUME IInv, NEW k \in CHCs, NEW j \in JobType, Step(k, j), JobOK(k, j),
         UNCHANGED <<users, remote, configMap, raced>>,
         faults' \in 0 .. MaxFaults,
         dirty' \subseteq CHCs, dirty' \cup {k} = dirty \cup {k},
         k \notin dirty' => Intended(k, j)
  PROVE  IInv'
<1>1. /\ job' \in [CHCs -> JobType]
      /\ job'[k] = j
      /\ \A x \in CHCs \ {k} : job'[x] = job[x]
  BY StepType DEF IInv
<1>2. TypeOK'
  BY <1>1 DEF IInv, TypeOK, users
<1>3. Absences'
  BY DEF IInv, Absences
<1>4. ASSUME NEW x \in CHCs PROVE JobOK(x, job[x])'
  <2>1. JobOK(x, job'[x])
    BY <1>1 DEF IInv
  <2> QED
    BY <2>1 DEF JobOK, Reads, MapReads, Adds, Leaves, users
<1>5. Intent'
  <2> SUFFICES ASSUME NEW x \in CHCs, x \notin dirty' PROVE Intended(x, job[x])'
    BY DEF Intent
  <2>1. Intended(x, job'[x])
    BY <1>1 DEF IInv, Intent
  <2> QED
    BY <2>1 DEF Intended, Has, ShouldHave, users
<1> QED
  BY <1>2, <1>3, <1>4, <1>5 DEF IInv

\* The job of k writes r to h, taking h away from no other CHC.
LEMMA RemoteWrite ==
  ASSUME IInv, NEW k \in CHCs, NEW h \in HealthChecks, NEW r \in Remotes,
         NEW j \in JobType, ~agentInMgmtCluster, job[k].pc # "idle",
         remote' = [remote EXCEPT ![h] = r],
         Wrote(k, h, remote' # remote, j),
         UNCHANGED <<users, configMap, dirty, faults>>,
         raced' \subseteq {"deleted", "downgraded"},
         ~r.present => r.owners = {},
         \A x \in CHCs \ {k} : r.present /\ x \in r.owners
                                 => remote[h].present /\ x \in remote[h].owners,
         Reads(j), j.pc # "idle", j.keep = job[k].keep,
         j.pc # "prune" => j.todo \subseteq j.keep,
         j.item \subseteq j.keep,
         j.pc = "prune" => j.todo \cap j.keep = {},
         j.pc = "prune" =>
           \A g \in HealthChecks : remote'[g].present /\ k \in remote'[g].owners
                                     => g \in j.keep \cup j.todo
  PROVE  IInv'
<1> DEFINE changed == remote' # remote
<1>1. /\ job' \in [CHCs -> JobType]
      /\ \A x \in CHCs : SameBut(job'[x], Going(k, j, x), h, changed)
  <2>1. changed \in BOOLEAN /\ Wrote(k, h, changed, j)
    OBVIOUS
  <2> HIDE DEF changed
  <2> QED
    BY <2>1, WroteType DEF IInv
<1>2. /\ \A g \in HealthChecks : g # h => remote'[g] = remote[g]
      /\ remote'[h] = r
      /\ remote' \in [HealthChecks -> Remotes]
      /\ agentInMgmtCluster' = agentInMgmtCluster
  BY DEF IInv, TypeOK, users
<1>3. TypeOK'
  BY <1>1, <1>2 DEF IInv, TypeOK, users
<1>4. Absences'
  BY <1>2 DEF IInv, Absences
<1>5. ASSUME NEW x \in CHCs PROVE JobOK(x, job[x])'
  <2> DEFINE i == Going(k, j, x)
  <2>1. /\ Reads(i) /\ (i.pc # "prune" => i.todo \subseteq i.keep)
        /\ i.item \subseteq i.keep
        /\ i.pc = "prune" => i.todo \cap i.keep = {}
    BY DEF IInv, JobOK, Adds, Going
  <2>2. SameBut(job'[x], i, h, changed)
    BY <1>1
  <2>3. Leaves(x, job[x])'
    <3>1. CASE x = k
      BY <1>2, <2>2, <3>1 DEF Leaves, SameBut, Going
    <3>2. CASE x # k
      <4>1. Leaves(x, job[x])
        BY DEF IInv, JobOK
      <4> QED
        BY <1>2, <2>2, <3>2, <4>1 DEF Leaves, SameBut, Going
    <3> QED
      BY <3>1, <3>2
  <2> HIDE DEF i
  <2>4. Reads(job[x])'
    <3> SUFFICES ASSUME NEW g \in HealthChecks
                 PROVE  /\ g \in job'[x].fresh => job'[x].seen[g] = remote'[g]
                        /\ ~job'[x].seen[g].present => job'[x].seen[g].owners = {}
      BY <1>2 DEF Reads
    <3> QED
      BY <1>2, <2>1, <2>2 DEF Reads, SameBut
  <2>5. MapReads(job[x])' /\ Adds(x, job[x])'
    BY <1>2, <2>1, <2>2 DEF MapReads, Adds, SameBut
  <2> QED
    BY <2>3, <2>4, <2>5 DEF JobOK
<1>6. Intent'
  <2> SUFFICES ASSUME NEW x \in CHCs, x \notin dirty PROVE Intended(x, job[x])'
    BY DEF Intent
  <2>1. Intended(x, job[x])
    BY DEF IInv, Intent
  <2>2. ShouldHave(x)' = ShouldHave(x)
    BY DEF ShouldHave, users
  <2>3. CASE x = k
    BY <1>1, <2>1, <2>2, <2>3 DEF Intended, SameBut, Going
  <2>4. CASE x # k
    <3>1. Has(x)' \subseteq Has(x)
      BY <1>2, <2>4 DEF Has
    <3> QED
      BY <1>1, <2>1, <2>2, <2>4, <3>1 DEF Intended, SameBut, Going
  <2> QED
    BY <2>3, <2>4
<1> QED
  BY <1>3, <1>4, <1>5, <1>6 DEF IInv

\* The job of k writes cm to the ConfigMap, adding no entry of another CHC.
LEMMA ConfigMapWrite ==
  ASSUME IInv, NEW k \in CHCs, NEW cm \in ConfigMaps, NEW j \in JobType,
         agentInMgmtCluster, job[k].pc # "idle",
         configMap' = cm,
         Wrote(k, ConfigMap, configMap' # configMap, j),
         UNCHANGED <<users, remote, dirty, raced, faults>>,
         ~cm.present => cm.entries = {},
         \A x \in CHCs \ {k}, h \in HealthChecks :
           <<x, h>> \in cm.entries => <<x, h>> \in configMap.entries,
         j.fresh = {},
         \A h \in HealthChecks : ~j.seen[h].present => j.seen[h].owners = {},
         j.pc # "prune" => j.todo \subseteq j.keep,
         j.item \subseteq j.keep,
         j.pc # "prune",
         j.pc # "idle" /\ j.young =>
           \A h \in HealthChecks : <<k, h>> \in cm.entries => h \in j.keep,
         \/ j.pc # "idle" /\ j.keep = job[k].keep
         \/ j.pc = "idle" /\ \A h \in HealthChecks :
                               <<k, h>> \in cm.entries => h \in job[k].keep
  PROVE  IInv'
<1> DEFINE changed == configMap' # configMap
<1>1. /\ job' \in [CHCs -> JobType]
      /\ \A x \in CHCs : SameBut(job'[x], Going(k, j, x), ConfigMap, changed)
  <2>1. changed \in BOOLEAN /\ Wrote(k, ConfigMap, changed, j)
    OBVIOUS
  <2> HIDE DEF changed
  <2> QED
    BY <2>1, WroteType DEF IInv
<1>2. agentInMgmtCluster' = agentInMgmtCluster
  BY DEF users
<1>3. TypeOK'
  BY <1>1 DEF IInv, TypeOK, users
<1>4. Absences'
  BY DEF IInv, Absences
<1>5. ASSUME NEW x \in CHCs PROVE JobOK(x, job[x])'
  <2>1. SameBut(job'[x], Going(k, j, x), ConfigMap, changed)
    BY <1>1
  <2>2. CASE x = k
    BY <1>2, <2>1, <2>2 DEF SameBut, Going, JobOK, Reads, MapReads, Adds, Leaves
  <2>3. CASE x # k
    <3>1. JobOK(x, job[x])
      BY DEF IInv
    <3>2. Adds(x, job[x])'
      BY <1>2, <2>1, <2>3, <3>1 DEF SameBut, Going, JobOK, Adds
    <3>3. Reads(job[x])' /\ MapReads(job[x])' /\ Leaves(x, job[x])'
      BY <1>2, <2>1, <2>3, <3>1 DEF SameBut, Going, JobOK, Reads, MapReads, Leaves
    <3> QED
      BY <3>2, <3>3 DEF JobOK
  <2> QED
    BY <2>2, <2>3
<1>6. Intent'
  <2> SUFFICES ASSUME NEW x \in CHCs, x \notin dirty PROVE Intended(x, job[x])'
    BY DEF Intent
  <2>1. Intended(x, job[x])
    BY DEF IInv, Intent
  <2>2. ShouldHave(x)' = ShouldHave(x)
    BY DEF ShouldHave, users
  <2>3. CASE x = k
    <3>1. j.pc = "idle" => Has(x)' \subseteq job[k].keep
      BY <1>2, <2>3 DEF Has
    <3> QED
      BY <1>1, <2>1, <2>2, <2>3, <3>1 DEF Intended, SameBut, Going
  <2>4. CASE x # k
    <3>1. Has(x)' \subseteq Has(x)
      BY <1>2, <2>4 DEF Has
    <3> QED
      BY <1>1, <2>1, <2>2, <2>4, <3>1 DEF Intended, SameBut, Going
  <2> QED
    BY <2>3, <2>4
<1> QED
  BY <1>3, <1>4, <1>5, <1>6 DEF IInv

\* A job that ends with an error is asked for again.
LEMMA FailKeeps ==
  ASSUME IInv, NEW k \in CHCs, Fail(k), UNCHANGED <<users, remote, configMap, raced>>,
         faults' \in 0 .. MaxFaults
  PROVE  IInv'
<1>1. NoJob \in JobType /\ JobOK(k, NoJob)
  BY Values, NoJobOK
<1>2. dirty' \subseteq CHCs /\ dirty' \cup {k} = dirty \cup {k} /\ k \in dirty'
  BY DEF Fail, IInv, TypeOK
<1> QED
  BY <1>1, <1>2, OnlyJob DEF Fail

\* A job starts with what its CHC should have.
LEMMA StartKeeps ==
  ASSUME IInv, NEW k \in CHCs, StartDeploy(k) \/ StartCleanup(k)
  PROVE  IInv'
<1>1. ASSUME NEW j \in JobType, Step(k, j), j.pc = "deploy", j.keep = ShouldHave(k),
             j.todo = j.keep, j.item = {}, j.fresh = {},
             j.seen = [h \in HealthChecks |-> Absent], j.young => ~configMap.present
      PROVE  IInv'
  <2>1. /\ UNCHANGED <<users, remote, configMap, raced, faults>>
        /\ dirty' = dirty \ {k}
        /\ faults' \in 0 .. MaxFaults
    BY DEF StartDeploy, StartCleanup, IInv, TypeOK
  <2>2. Reads(j) /\ MapReads(j) /\ Leaves(k, j)
    BY <1>1 DEF Reads, MapReads, Leaves, Absent
  <2>3. Adds(k, j)
    BY <1>1 DEF Adds, IInv, Absences
  <2>4. Intended(k, j)
    BY <1>1 DEF Intended
  <2>5. dirty' \subseteq CHCs /\ dirty' \cup {k} = dirty \cup {k}
    BY <2>1 DEF IInv, TypeOK
  <2> QED
    BY <1>1, <2>1, <2>2, <2>3, <2>4, <2>5, OnlyJob DEF JobOK
<1>2. CASE StartDeploy(k)
  <2> DEFINE j == [NoJob EXCEPT !.pc = "deploy", !.keep = wants[k], !.todo = wants[k],
                                !.young = ~configMap.present]
  <2>1. /\ j \in JobType
        /\ j.pc = "deploy" /\ j.keep = wants[k] /\ j.todo = wants[k] /\ j.item = {}
        /\ j.fresh = {} /\ j.seen = [h \in HealthChecks |-> Absent]
        /\ j.young => ~configMap.present
    <3>1. wants[k] \in SUBSET HealthChecks
      BY DEF IInv, TypeOK
    <3> QED
      BY <3>1, Values DEF NoJob, JobType
  <2>2. Step(k, j) /\ wants[k] = ShouldHave(k)
    BY <1>2 DEF StartDeploy, ShouldHave
  <2> HIDE DEF j
  <2> QED
    BY <1>1, <2>1, <2>2
<1>3. CASE StartCleanup(k)
  <2> DEFINE j == [NoJob EXCEPT !.pc = "deploy", !.young = ~configMap.present]
  <2>1. /\ j \in JobType
        /\ j.pc = "deploy" /\ j.keep = {} /\ j.todo = {} /\ j.item = {}
        /\ j.fresh = {} /\ j.seen = [h \in HealthChecks |-> Absent]
        /\ j.young => ~configMap.present
    BY Values DEF NoJob, JobType
  <2>2. Step(k, j) /\ ShouldHave(k) = {}
    BY <1>3 DEF StartCleanup, ShouldHave
  <2> HIDE DEF j
  <2> QED
    BY <1>1, <2>1, <2>2
<1> QED
  BY <1>2, <1>3

\* A job goes on, keeping what it has to keep.
LEMMA GoesOn ==
  ASSUME IInv, NEW k \in CHCs, NEW j \in JobType, Step(k, j), JobOK(k, j),
         job[k].pc # "idle", j.pc # "idle", j.keep = job[k].keep,
         UNCHANGED <<users, remote, configMap, dirty, raced, faults>>
  PROVE  IInv'
<1>1. k \notin dirty' => Intended(k, j)
  BY DEF IInv, Intent, Intended
<1>2. /\ faults' \in 0 .. MaxFaults
      /\ dirty' \subseteq CHCs /\ dirty' \cup {k} = dirty \cup {k}
  BY DEF IInv, TypeOK
<1> QED
  BY <1>1, <1>2, OnlyJob

\* A HealthCheck is fetched from the management cluster.
LEMMA FetchKeeps ==
  ASSUME IInv, NEW k \in CHCs, FetchHealthCheck(k) PROVE IInv'
<1>1. PICK h \in job[k].todo :
        Step(k, [job[k] EXCEPT !.pc = "get", !.item = {h}, !.source = spec[h]])
  BY DEF FetchHealthCheck
<1> DEFINE j == [job[k] EXCEPT !.pc = "get", !.item = {h}, !.source = spec[h]]
<1>2. job[k] \in JobType /\ JobOK(k, job[k]) /\ job[k].pc = "deploy"
  BY DEF IInv, TypeOK, FetchHealthCheck
<1>3. h \in HealthChecks /\ spec[h] \in Nat
  BY <1>2 DEF JobType, IInv, TypeOK
<1>4. /\ j \in JobType
      /\ j.pc = "get" /\ j.keep = job[k].keep /\ j.todo = job[k].todo
      /\ j.item = {h} /\ j.fresh = job[k].fresh /\ j.seen = job[k].seen
      /\ j.seenMap = job[k].seenMap /\ j.young = job[k].young
  BY <1>2, <1>3 DEF JobType
<1>5. Step(k, j)
  BY <1>1
<1> HIDE DEF j
<1>6. JobOK(k, j)
  BY <1>2, <1>4 DEF JobOK, Reads, MapReads, Adds, Leaves
<1> QED
  BY <1>2, <1>4, <1>5, <1>6, GoesOn DEF FetchHealthCheck

\* The HealthCheck is read from the managed cluster.
LEMMA GetKeeps ==
  ASSUME IInv, NEW k \in CHCs, GetHealthCheck(k) PROVE IInv'
<1>1. PICK h \in job[k].item :
        Step(k, [job[k] EXCEPT !.pc = "write", !.seen[h] = remote[h], !.fresh = {h}])
  BY DEF GetHealthCheck
<1> DEFINE j == [job[k] EXCEPT !.pc = "write", !.seen[h] = remote[h], !.fresh = {h}]
<1>2. job[k] \in JobType /\ JobOK(k, job[k]) /\ job[k].pc = "get" /\ ~agentInMgmtCluster
  BY DEF IInv, TypeOK, GetHealthCheck
<1>3. h \in HealthChecks /\ remote[h] \in Remotes
  BY <1>2 DEF JobType, IInv, TypeOK
<1>4. /\ j \in JobType
      /\ j.pc = "write" /\ j.keep = job[k].keep /\ j.todo = job[k].todo
      /\ j.item = job[k].item /\ j.fresh = {h}
      /\ j.seen[h] = remote[h]
      /\ \A g \in HealthChecks : g # h => j.seen[g] = job[k].seen[g]
  BY <1>2, <1>3 DEF JobType, Objects
<1>5. Step(k, j)
  BY <1>1
<1> HIDE DEF j
<1>6. JobOK(k, j)
  BY <1>2, <1>4 DEF JobOK, Reads, MapReads, Adds, Leaves, IInv, Absences
<1> QED
  BY <1>2, <1>4, <1>5, <1>6, GoesOn DEF GetHealthCheck

\* The ConfigMap is read, from a cache that may not have it yet.
LEMMA GetConfigMapKeeps ==
  ASSUME IInv, NEW k \in CHCs, GetConfigMap(k) PROVE IInv'
<1>1. PICK cm \in {configMap} \cup IF job[k].young THEN {NoConfigMap} ELSE {} :
        Step(k, [job[k] EXCEPT !.pc = "write", !.seenMap = cm, !.fresh = {ConfigMap}])
  BY DEF GetConfigMap
<1> DEFINE j == [job[k] EXCEPT !.pc = "write", !.seenMap = cm, !.fresh = {ConfigMap}]
<1>2. job[k] \in JobType /\ JobOK(k, job[k]) /\ job[k].pc = "get" /\ agentInMgmtCluster
  BY DEF IInv, TypeOK, GetConfigMap
<1>3. cm \in ConfigMaps /\ (cm = configMap \/ ~cm.present)
  <2>1. cm = configMap \/ cm = NoConfigMap
    OBVIOUS
  <2>2. configMap \in ConfigMaps /\ ~NoConfigMap.present
    BY DEF IInv, TypeOK, NoConfigMap
  <2> QED
    BY <2>1, <2>2, Values
<1>4. /\ j \in JobType
      /\ j.pc = "write" /\ j.keep = job[k].keep /\ j.todo = job[k].todo
      /\ j.item = job[k].item /\ j.fresh = {ConfigMap} /\ j.seen = job[k].seen
      /\ j.seenMap = cm /\ j.young = job[k].young
  BY <1>2, <1>3 DEF JobType, Objects
<1>5. Step(k, j)
  BY <1>1
<1> HIDE DEF j
<1>6. JobOK(k, j)
  BY <1>2, <1>3, <1>4 DEF JobOK, Reads, MapReads, Adds, Leaves
<1> QED
  BY <1>2, <1>4, <1>5, <1>6, GoesOn DEF GetConfigMap

\* Whatever k owns and has not to keep is listed.
LEMMA ListStaleKeeps ==
  ASSUME IInv, NEW k \in CHCs, ListStale(k) PROVE IInv'
<1> DEFINE todo == {h \in HealthChecks \ job[k].keep :
                      remote[h].present /\ k \in remote[h].owners}
           j == [job[k] EXCEPT !.pc = "prune", !.seen = remote,
                               !.fresh = HealthChecks, !.todo = todo]
<1>1. job[k] \in JobType /\ JobOK(k, job[k]) /\ job[k].pc = "deploy" /\ ~agentInMgmtCluster
  BY DEF IInv, TypeOK, ListStale
<1>2. todo \subseteq HealthChecks /\ remote \in [HealthChecks -> Remotes]
  BY DEF IInv, TypeOK
<1>3. /\ j \in JobType
      /\ j.pc = "prune" /\ j.keep = job[k].keep /\ j.todo = todo
      /\ j.item = job[k].item /\ j.seen = remote
  <2> HIDE DEF todo
  <2> QED
    BY <1>1, <1>2 DEF JobType, Objects
<1>4. Step(k, j)
  BY DEF ListStale
<1> HIDE DEF j
<1>5. Reads(j) /\ MapReads(j) /\ Adds(k, j)
  BY <1>1, <1>3 DEF JobOK, Reads, MapReads, Adds, IInv, Absences
<1>6. Leaves(k, j)
  BY <1>3 DEF Leaves
<1> QED
  BY <1>1, <1>3, <1>4, <1>5, <1>6, GoesOn DEF ListStale, JobOK

\* A job that has nothing left to leave ends.
LEMMA EndsClean ==
  ASSUME IInv, NEW k \in CHCs, job[k].pc # "idle", Step(k, NoJob),
         UNCHANGED <<users, remote, configMap, dirty, raced, faults>>,
         Has(k) \subseteq job[k].keep
  PROVE  IInv'
<1>1. NoJob \in JobType /\ JobOK(k, NoJob)
  BY Values, NoJobOK
<1>2. k \notin dirty' => Intended(k, NoJob)
  BY Values DEF IInv, Intent, Intended
<1>3. /\ faults' \in 0 .. MaxFaults
      /\ dirty' \subseteq CHCs /\ dirty' \cup {k} = dirty \cup {k}
  BY DEF IInv, TypeOK
<1> QED
  BY <1>1, <1>2, <1>3, OnlyJob

\* Everything listed was left: the job ends.
LEMMA FinishKeeps ==
  ASSUME IInv, NEW k \in CHCs, Finish(k) PROVE IInv'
<1>1. Leaves(k, job[k])
  BY DEF IInv, JobOK
<1>2. Has(k) \subseteq job[k].keep
  BY <1>1 DEF Leaves, Finish, Has
<1> QED
  BY <1>2, EndsClean DEF Finish

\* The ConfigMap is read, or there was none and nothing to leave.
LEMMA ListEntriesKeeps ==
  ASSUME IInv, NEW k \in CHCs, ListEntries(k) PROVE IInv'
<1> DEFINE j == [job[k] EXCEPT !.pc = "prune", !.seenMap = configMap,
                               !.fresh = {ConfigMap}]
<1>1. job[k] \in JobType /\ JobOK(k, job[k]) /\ job[k].pc = "deploy" /\ agentInMgmtCluster
  BY DEF IInv, TypeOK, ListEntries
<1>2. CASE Step(k, j)
  <2>1. configMap \in ConfigMaps
    BY DEF IInv, TypeOK
  <2>2. /\ j \in JobType
        /\ j.pc = "prune" /\ j.keep = job[k].keep /\ j.item = job[k].item
        /\ j.todo = job[k].todo /\ job[k].todo = {}
        /\ j.fresh = {ConfigMap} /\ j.seen = job[k].seen
        /\ j.seenMap = configMap /\ j.young = job[k].young
    BY <1>1, <2>1 DEF JobType, Objects, ListEntries
  <2> HIDE DEF j
  <2>3. JobOK(k, j)
    BY <1>1, <2>2 DEF JobOK, Reads, MapReads, Adds, Leaves
  <2> QED
    BY <1>1, <1>2, <2>2, <2>3, GoesOn DEF ListEntries
<1>3. CASE (~configMap.present \/ job[k].young) /\ Step(k, NoJob)
  <2>1. Has(k) \subseteq job[k].keep
    BY <1>1, <1>3 DEF Has, JobOK, Adds, IInv, Absences
  <2> QED
    BY <1>1, <1>3, <2>1, EndsClean DEF ListEntries
<1> QED
  BY <1>2, <1>3 DEF ListEntries

\* The job after one HealthCheck was deployed.
LEMMA ItemDoneFields ==
  ASSUME NEW j \in JobType
  PROVE  /\ ItemDone(j) \in JobType
         /\ ItemDone(j).pc = "deploy" /\ ItemDone(j).keep = j.keep
         /\ ItemDone(j).todo = j.todo \ j.item /\ ItemDone(j).item = {}
         /\ ItemDone(j).fresh = {} /\ ItemDone(j).young = j.young
         /\ ItemDone(j).seen = [h \in HealthChecks |-> Absent]
<1>1. NoJob.seen = [h \in HealthChecks |-> Absent]
      /\ [h \in HealthChecks |-> Absent] \in [HealthChecks -> Remotes]
      /\ NoConfigMap \in ConfigMaps
  BY Values
<1> QED
  BY <1>1 DEF ItemDone, JobType

\* A HealthCheck is deployed, or the job fails.
LEMMA WriteKeeps ==
  ASSUME IInv, NEW k \in CHCs, WriteHealthCheck(k) PROVE IInv'
<1>1. CASE Fail(k) /\ UNCHANGED <<remote, raced>>
  BY <1>1, FailKeeps DEF WriteHealthCheck, IInv, TypeOK
<1>2. ASSUME NEW h \in job[k].item,
             IF job[k].seen[h].present THEN CanUpdate(k, h) ELSE ~remote[h].present,
             remote' = [remote EXCEPT ![h] = Deployed(k, h)],
             Wrote(k, h, remote' # remote, ItemDone(job[k])),
             raced' = raced \cup IF remote[h].spec > job[k].source
                                 THEN {"downgraded"} ELSE {},
             UNCHANGED dirty
      PROVE  IInv'
  <2> DEFINE j == ItemDone(job[k])
             r == Deployed(k, h)
  <2>1. /\ job[k] \in JobType /\ JobOK(k, job[k]) /\ job[k].pc = "write"
        /\ ~agentInMgmtCluster /\ raced \subseteq {"deleted", "downgraded"}
        /\ UNCHANGED <<users, configMap, faults>>
    BY DEF IInv, TypeOK, WriteHealthCheck
  <2>2. h \in HealthChecks /\ job[k].seen[h] \in Remotes /\ job[k].source \in Nat
    BY <2>1 DEF JobType
  <2>3. /\ r \in Remotes /\ r.present
        /\ r.owners = job[k].seen[h].owners \cup {k}
    BY <2>2 DEF Deployed, Remotes
  <2>4. \A x \in CHCs \ {k} : x \in r.owners => remote[h].present /\ x \in remote[h].owners
    BY <1>2, <2>1, <2>2, <2>3 DEF JobOK, Reads, CanUpdate
  <2>5. /\ j \in JobType /\ j.pc = "deploy" /\ j.keep = job[k].keep
        /\ j.todo = job[k].todo \ job[k].item /\ j.item = {} /\ j.fresh = {}
        /\ j.seen = [g \in HealthChecks |-> Absent]
    BY <2>1, ItemDoneFields
  <2> HIDE DEF j, r
  <2>6. Reads(j) /\ j.todo \subseteq j.keep /\ j.item \subseteq j.keep
    BY <2>1, <2>5 DEF Reads, Absent, JobOK, Adds
  <2>7. raced' \subseteq {"deleted", "downgraded"}
    BY <1>2, <2>1
  <2>8. remote' = [remote EXCEPT ![h] = r] /\ Wrote(k, h, remote' # remote, j)
    BY <1>2 DEF r, j
  <2> QED
    BY <1>2, <2>1, <2>2, <2>3, <2>4, <2>5, <2>6, <2>7, <2>8, RemoteWrite
<1> QED
  BY <1>1, <1>2 DEF WriteHealthCheck

\* An entry is added to the ConfigMap, or the job fails.
LEMMA AddKeeps ==
  ASSUME IInv, NEW k \in CHCs, AddToConfigMap(k) PROVE IInv'
<1> DEFINE j == ItemDone(job[k])
           entries == {<<k, h>> : h \in job[k].item}
           others == IF job[k].seenMap.present THEN job[k].seenMap.entries
                     ELSE configMap.entries
           cm == [present |-> TRUE, entries |-> others \cup entries]
<1>1. CASE Fail(k) /\ UNCHANGED configMap
  BY <1>1, FailKeeps DEF AddToConfigMap, IInv, TypeOK
<1>2. CASE /\ job[k].seenMap.present => CanUpdate(k, ConfigMap)
           /\ configMap' = cm
           /\ Wrote(k, ConfigMap, configMap' # configMap, j)
           /\ UNCHANGED dirty
  <2>1. /\ job[k] \in JobType /\ JobOK(k, job[k]) /\ job[k].pc = "write"
        /\ agentInMgmtCluster /\ configMap \in ConfigMaps
        /\ UNCHANGED <<users, remote, raced, faults>>
    BY DEF IInv, TypeOK, AddToConfigMap
  <2>2. others = configMap.entries
    BY <1>2, <2>1 DEF JobOK, MapReads, CanUpdate
  <2>3. entries \subseteq CHCs \X HealthChecks /\ others \subseteq CHCs \X HealthChecks
    BY <2>1, <2>2 DEF JobType, ConfigMaps
  <2>4. cm \in ConfigMaps /\ cm.present /\ cm.entries = configMap.entries \cup entries
    BY <2>2, <2>3 DEF ConfigMaps
  <2>5. \A x \in CHCs, h \in HealthChecks :
          <<x, h>> \in cm.entries
            => <<x, h>> \in configMap.entries \/ (x = k /\ h \in job[k].item)
    BY <2>4
  <2>6. /\ j \in JobType /\ j.pc = "deploy" /\ j.keep = job[k].keep
        /\ j.todo = job[k].todo \ job[k].item /\ j.item = {} /\ j.fresh = {}
        /\ j.seen = [g \in HealthChecks |-> Absent] /\ j.young = job[k].young
    BY <2>1, ItemDoneFields
  <2>7. configMap' = cm /\ Wrote(k, ConfigMap, configMap' # configMap, j) /\ UNCHANGED dirty
    BY <1>2
  <2> HIDE DEF j, cm
  <2>8. /\ j.todo \subseteq j.keep
        /\ \A h \in HealthChecks : ~j.seen[h].present => j.seen[h].owners = {}
    BY <2>1, <2>6 DEF JobOK, Adds, Absent
  <2>9. j.young => \A h \in HealthChecks : <<k, h>> \in cm.entries => h \in j.keep
    BY <2>1, <2>5, <2>6 DEF JobOK, Adds
  <2> QED
    BY <2>1, <2>4, <2>5, <2>6, <2>7, <2>8, <2>9, ConfigMapWrite
<1> QED
  BY <1>1, <1>2 DEF AddToConfigMap

\* Stale entries are removed from the ConfigMap, or the job fails.
LEMMA RemoveEntriesKeeps ==
  ASSUME IInv, NEW k \in CHCs, RemoveFromConfigMap(k) PROVE IInv'
<1> DEFINE cm == [configMap EXCEPT !.entries = job[k].seenMap.entries \ StaleEntries(k)]
<1>1. CASE Fail(k) /\ UNCHANGED configMap
  BY <1>1, FailKeeps DEF RemoveFromConfigMap, IInv, TypeOK
<1>2. CASE /\ CanUpdate(k, ConfigMap)
           /\ configMap' = cm
           /\ Wrote(k, ConfigMap, configMap' # configMap, NoJob)
           /\ UNCHANGED dirty
  <2>1. /\ job[k] \in JobType /\ JobOK(k, job[k]) /\ job[k].pc = "prune"
        /\ agentInMgmtCluster /\ configMap \in ConfigMaps
        /\ UNCHANGED <<users, remote, raced, faults>>
    BY DEF IInv, TypeOK, RemoveFromConfigMap
  <2>2. job[k].seenMap = configMap
    BY <1>2, <2>1 DEF JobOK, MapReads, CanUpdate
  <2>3. /\ cm \in ConfigMaps /\ cm.present = configMap.present
        /\ cm.entries \subseteq configMap.entries
    BY <2>1, <2>2 DEF ConfigMaps
  <2>4. \A h \in HealthChecks : <<k, h>> \in cm.entries => h \in job[k].keep
    BY <2>1 DEF StaleEntries, ConfigMaps
  <2>5. configMap' = cm /\ Wrote(k, ConfigMap, configMap' # configMap, NoJob) /\ UNCHANGED dirty
    BY <1>2
  <2> HIDE DEF cm
  <2>6. ~cm.present => cm.entries = {}
    BY <2>3 DEF IInv, Absences
  <2>7. \A h \in HealthChecks : ~NoJob.seen[h].present => NoJob.seen[h].owners = {}
    BY Values DEF Absent
  <2> QED
    BY <2>1, <2>3, <2>4, <2>5, <2>6, <2>7, Values, ConfigMapWrite
<1> QED
  BY <1>1, <1>2 DEF RemoveFromConfigMap

\* A HealthCheck is left or deleted, or the job fails.
LEMMA RemoveStaleKeeps ==
  ASSUME IInv, NEW k \in CHCs, RemoveStale(k) PROVE IInv'
<1>1. CASE Fail(k) /\ UNCHANGED <<remote, raced>>
  BY <1>1, FailKeeps DEF RemoveStale, IInv, TypeOK
<1>2. ASSUME NEW h \in job[k].todo, NEW r,
             \/ r = Absent
             \/ CanUpdate(k, h) /\ r = [job[k].seen[h] EXCEPT !.owners = @ \ {k}],
             remote' = [remote EXCEPT ![h] = r],
             Wrote(k, h, remote' # remote, [job[k] EXCEPT !.todo = @ \ {h}]),
             raced' \subseteq raced \cup {"deleted"},
             UNCHANGED dirty
      PROVE  IInv'
  <2> DEFINE j == [job[k] EXCEPT !.todo = @ \ {h}]
  <2>1. /\ job[k] \in JobType /\ JobOK(k, job[k]) /\ job[k].pc = "prune"
        /\ ~agentInMgmtCluster /\ raced \subseteq {"deleted", "downgraded"}
        /\ UNCHANGED <<users, configMap, faults>>
        /\ remote \in [HealthChecks -> Remotes]
    BY DEF IInv, TypeOK, RemoveStale
  <2>2. h \in HealthChecks /\ job[k].seen[h] \in Remotes
    BY <2>1 DEF JobType
  <2>3. CanUpdate(k, h) => job[k].seen[h] = remote[h]
    BY <2>1, <2>2 DEF JobOK, Reads, CanUpdate
  <2>4. /\ r \in Remotes
        /\ k \notin r.owners
        /\ ~r.present => r.owners = {}
        /\ \A x \in CHCs : r.present /\ x \in r.owners
                            => remote[h].present /\ x \in remote[h].owners
    <3>1. CASE r = Absent
      BY <3>1 DEF Absent, Remotes
    <3>2. CASE CanUpdate(k, h) /\ r = [job[k].seen[h] EXCEPT !.owners = @ \ {k}]
      <4>1. /\ r \in Remotes /\ r.present = remote[h].present
            /\ r.owners = remote[h].owners \ {k}
        BY <2>2, <2>3, <3>2 DEF Remotes
      <4> QED
        BY <2>2, <4>1 DEF IInv, Absences
    <3> QED
      BY <1>2, <3>1, <3>2
  <2>5. /\ j \in JobType /\ j.pc = "prune" /\ j.keep = job[k].keep
        /\ j.todo = job[k].todo \ {h} /\ j.item = job[k].item
        /\ j.fresh = job[k].fresh /\ j.seen = job[k].seen
    BY <2>1 DEF JobType
  <2>6. remote' = [remote EXCEPT ![h] = r] /\ Wrote(k, h, remote' # remote, j)
    BY <1>2
  <2>7. raced' \subseteq {"deleted", "downgraded"} /\ UNCHANGED dirty
    BY <1>2, <2>1
  <2> HIDE DEF j
  <2>8. Reads(j) /\ j.item \subseteq j.keep /\ j.todo \cap j.keep = {}
    BY <2>1, <2>5 DEF Reads, JobOK, Adds
  <2>9. \A g \in HealthChecks : remote'[g].present /\ k \in remote'[g].owners
                                  => g \in j.keep \cup j.todo
    BY <2>1, <2>2, <2>4, <2>5, <2>6 DEF JobOK, Leaves
  <2> QED
    BY <2>1, <2>2, <2>4, <2>5, <2>6, <2>7, <2>8, <2>9, RemoteWrite
<1> QED
  <2>1. PICK h \in job[k].todo :
          LET done == [job[k] EXCEPT !.todo = @ \ {h}]
          IN \/ /\ remote' = [remote EXCEPT ![h] = Absent]
                /\ Wrote(k, h, remote' # remote, done)
                /\ raced' = raced \cup IF h \in job[k].fresh THEN {} ELSE {"deleted"}
                /\ UNCHANGED dirty
             \/ /\ CanUpdate(k, h)
                /\ remote' = [remote EXCEPT ![h] = [job[k].seen[h] EXCEPT !.owners = @ \ {k}]]
                /\ Wrote(k, h, remote' # remote, done)
                /\ UNCHANGED <<dirty, raced>>
             \/ Fail(k) /\ UNCHANGED <<remote, raced>>
    BY DEF RemoveStale
  <2> QED
    BY <1>1, <1>2, <2>1

\* What the jobs had not done is asked for again after a restart.
LEMMA RestartKeeps ==
  ASSUME IInv, Restart PROVE IInv'
<1>1. /\ job' = [k \in CHCs |-> NoJob] /\ UNCHANGED <<users, remote, configMap, raced>>
      /\ dirty' = dirty \cup {k \in CHCs : job[k].pc # "idle"}
  BY DEF Restart
<1>2. TypeOK'
  <2>1. faults' \in 0 .. MaxFaults
    BY OwnersAssumption DEF Restart, Fault, IInv, TypeOK
  <2> QED
    BY <1>1, <2>1, Values DEF IInv, TypeOK, users
<1>3. Absences'
  BY <1>1 DEF IInv, Absences
<1>4. ASSUME NEW k \in CHCs PROVE JobOK(k, job[k])'
  BY <1>1, Values DEF JobOK, Reads, MapReads, Adds, Leaves, Absent
<1>5. ASSUME NEW k \in CHCs, k \notin dirty' PROVE Intended(k, job[k])'
  <2>1. job[k].pc = "idle" /\ k \notin dirty
    BY <1>1, <1>5
  <2>2. Has(k) \subseteq ShouldHave(k)
    BY <2>1 DEF IInv, Intent, Intended
  <2>3. Has(k)' = Has(k) /\ ShouldHave(k)' = ShouldHave(k)
    BY <1>1 DEF Has, ShouldHave, users
  <2> QED
    BY <1>1, <2>2, <2>3, Values DEF Intended
<1> QED
  BY <1>2, <1>3, <1>4, <1>5 DEF IInv, Intent

\* What users change concerns the CHCs it makes dirty.
LEMMA ChangeKeeps ==
  ASSUME IInv, NEW affected \in SUBSET CHCs, Change(affected),
         wants' \in [CHCs -> SUBSET HealthChecks], matches' \in [CHCs -> BOOLEAN],
         spec' \in [HealthChecks -> Nat],
         \A k \in CHCs \ affected : wants'[k] = wants[k] /\ matches'[k] = matches[k]
  PROVE  IInv'
<1>1. /\ UNCHANGED <<agentInMgmtCluster, remote, configMap, job, raced, faults>>
      /\ dirty' = dirty \cup affected
  BY DEF Change
<1>2. TypeOK'
  <2>1. changes' \in 0 .. MaxChanges
    BY OwnersAssumption DEF Change, IInv, TypeOK
  <2> QED
    BY <1>1, <2>1 DEF IInv, TypeOK
<1>3. Absences'
  BY <1>1 DEF IInv, Absences
<1>4. ASSUME NEW k \in CHCs PROVE JobOK(k, job[k])'
  BY <1>1 DEF IInv, JobOK, Reads, MapReads, Adds, Leaves
<1>5. ASSUME NEW k \in CHCs, k \notin dirty' PROVE Intended(k, job[k])'
  <2>1. Intended(k, job[k])
    BY <1>1, <1>5 DEF IInv, Intent
  <2>2. Has(k)' = Has(k) /\ ShouldHave(k)' = ShouldHave(k)
    BY <1>1, <1>5 DEF Has, ShouldHave
  <2> QED
    BY <1>1, <2>1, <2>2 DEF Intended
<1> QED
  BY <1>2, <1>3, <1>4, <1>5 DEF IInv, Intent

\* Every step preserves the invariant.
LEMMA NextKeeps == IInv /\ [Next]_vars => IInv'
<1> SUFFICES ASSUME IInv, [Next]_vars PROVE IInv'
  OBVIOUS
<1>1. ASSUME NEW k \in CHCs, JobStep(k) PROVE IInv'
  BY <1>1, StartKeeps, FetchKeeps, GetKeeps, WriteKeeps, GetConfigMapKeeps, AddKeeps,
     ListStaleKeeps, RemoveStaleKeeps, FinishKeeps, ListEntriesKeeps,
     RemoveEntriesKeeps DEF JobStep
<1>2. ASSUME NEW k \in CHCs, CallFails(k) PROVE IInv'
  <2>1. faults' \in 0 .. MaxFaults
    BY <1>2, OwnersAssumption DEF CallFails, Fault, IInv, TypeOK
  <2> QED
    BY <1>2, <2>1, FailKeeps DEF CallFails
<1>3. ASSUME NEW k \in CHCs, ChangeReferences(k) PROVE IInv'
  <2>1. /\ wants' \in [CHCs -> SUBSET HealthChecks]
        /\ \A x \in CHCs \ {k} : wants'[x] = wants[x]
    BY <1>3 DEF ChangeReferences, IInv, TypeOK
  <2>2. /\ matches' = matches /\ matches' \in [CHCs -> BOOLEAN]
        /\ spec' \in [HealthChecks -> Nat] /\ Change({k})
    BY <1>3 DEF ChangeReferences, IInv, TypeOK
  <2> QED
    BY <2>1, <2>2, ChangeKeeps
<1>4. ASSUME NEW k \in CHCs, ChangeMatch(k) PROVE IInv'
  <2>1. /\ matches' \in [CHCs -> BOOLEAN]
        /\ \A x \in CHCs \ {k} : matches'[x] = matches[x]
    BY <1>4 DEF ChangeMatch, IInv, TypeOK
  <2>2. /\ wants' = wants /\ wants' \in [CHCs -> SUBSET HealthChecks]
        /\ spec' \in [HealthChecks -> Nat] /\ Change({k})
    BY <1>4 DEF ChangeMatch, IInv, TypeOK
  <2> QED
    BY <2>1, <2>2, ChangeKeeps
<1>5. ASSUME NEW h \in HealthChecks, ChangeHealthCheck(h) PROVE IInv'
  <2> DEFINE affected == {k \in CHCs : matches[k] /\ h \in wants[k]}
  <2>1. spec' \in [HealthChecks -> Nat]
    BY <1>5 DEF ChangeHealthCheck, IInv, TypeOK
  <2>2. /\ wants' = wants /\ wants' \in [CHCs -> SUBSET HealthChecks]
        /\ matches' = matches /\ matches' \in [CHCs -> BOOLEAN]
        /\ affected \in SUBSET CHCs /\ Change(affected)
    BY <1>5 DEF ChangeHealthCheck, IInv, TypeOK
  <2> HIDE DEF affected
  <2> QED
    BY <2>1, <2>2, ChangeKeeps
<1>6. CASE UNCHANGED vars
  <2>1. TypeOK' /\ Absences'
    BY <1>6 DEF IInv, TypeOK, Absences, vars
  <2>2. ASSUME NEW k \in CHCs PROVE JobOK(k, job[k])'
    BY <1>6 DEF IInv, JobOK, Reads, MapReads, Adds, Leaves, vars
  <2>3. Intent'
    BY <1>6 DEF IInv, Intent, Intended, Has, ShouldHave, vars
  <2> QED
    BY <2>1, <2>2, <2>3 DEF IInv
<1> QED
  BY <1>1, <1>2, <1>3, <1>4, <1>5, <1>6, RestartKeeps DEF Next

-----------------------------------------------------------------------------
(* Theorems. *)

\* The state of the jobs, of the managed cluster and of the ConfigMap is well
\* formed in every reachable state.
THEOREM TypeCorrect == Spec => []TypeOK
<1>1. IInv => TypeOK
  BY DEF IInv
<1> QED
  BY <1>1, InitHolds, NextKeeps, PTL DEF Spec

\* Whatever conflicts, failures and restarts its jobs met, and whatever the
\* jobs of other CHCs did meanwhile: a CHC with nothing left to do has nothing
\* in the managed cluster that it does not reference, and nothing at all once
\* the cluster is no match (removeStaleHealthChecks, removeHealthCheckFromConfigMap).
THEOREM NothingStaleEver == Spec => []NothingStale
<1>1. IInv => NothingStale
  BY DEF IInv, Intent, Intended, NothingStale, Done
<1> QED
  BY <1>1, InitHolds, NextKeeps, PTL DEF Spec

\* Has does not depend on anything else.
LEMMA HasSame ==
  ASSUME UNCHANGED <<agentInMgmtCluster, remote, configMap>>, NEW k
  PROVE  Has(k)' = Has(k)
  BY DEF Has

\* Deploying takes nothing away from anybody.
LEMMA WriteTakesNothing ==
  ASSUME IInv, NEW k \in CHCs, WriteHealthCheck(k) \/ AddToConfigMap(k), NEW x \in CHCs
  PROVE  Has(x) \subseteq Has(x)'
<1>0. job[k] \in JobType /\ JobOK(k, job[k])
  BY DEF IInv, TypeOK
<1>1. CASE WriteHealthCheck(k)
  <2>1. CASE UNCHANGED remote
    BY <1>1, <2>1, HasSame DEF WriteHealthCheck, users
  <2>2. ASSUME NEW h \in job[k].item,
               IF job[k].seen[h].present THEN CanUpdate(k, h) ELSE ~remote[h].present,
               remote' = [remote EXCEPT ![h] = Deployed(k, h)]
        PROVE  Has(x) \subseteq Has(x)'
    <3>1. h \in HealthChecks /\ remote \in [HealthChecks -> Remotes]
      BY <1>0 DEF JobType, IInv, TypeOK
    <3>2. ~agentInMgmtCluster /\ ~agentInMgmtCluster'
      BY <1>1 DEF WriteHealthCheck, users
    <3>3. /\ remote'[h].present
          /\ remote'[h].owners = job[k].seen[h].owners \cup {k}
          /\ \A g \in HealthChecks : g # h => remote'[g] = remote[g]
      BY <2>2, <3>1 DEF Deployed
    <3>4. remote[h].present => job[k].seen[h] = remote[h]
      BY <1>0, <2>2, <3>1, <3>2 DEF JobOK, Reads, CanUpdate
    <3> QED
      BY <3>1, <3>2, <3>3, <3>4 DEF Has
  <2> QED
    BY <1>1, <2>1, <2>2 DEF WriteHealthCheck
<1>2. CASE AddToConfigMap(k)
  <2>1. agentInMgmtCluster /\ agentInMgmtCluster'
    BY <1>2 DEF AddToConfigMap, users
  <2>2. configMap.entries \subseteq configMap'.entries
    BY <1>0, <1>2, <2>1 DEF AddToConfigMap, JobOK, MapReads, CanUpdate
  <2> QED
    BY <2>1, <2>2 DEF Has
<1> QED
  BY <1>1, <1>2

\* Leaving takes what stays in the cluster from the leaving CHC alone, whose
\* job moves on.
LEMMA RemoveTakesItsOwn ==
  ASSUME IInv, NEW k \in CHCs, RemoveStale(k) \/ RemoveFromConfigMap(k),
         NEW x \in CHCs, NEW g \in HealthChecks,
         g \in Has(x), ~(g \in Has(x))', agentInMgmtCluster \/ remote[g].present'
  PROVE  Prunes(x, g)
<1>1. /\ job[k] \in JobType /\ JobOK(k, job[k]) /\ job[k].pc = "prune"
      /\ agentInMgmtCluster' = agentInMgmtCluster
  BY DEF IInv, TypeOK, RemoveStale, RemoveFromConfigMap, users
<1>2. CASE RemoveStale(k)
  <2>1. ~agentInMgmtCluster /\ configMap' = configMap
    BY <1>2 DEF RemoveStale
  <2>2. remote' # remote
    BY <1>1, <2>1, HasSame
  <2>3. PICK h \in job[k].todo :
          /\ Wrote(k, h, remote' # remote, [job[k] EXCEPT !.todo = @ \ {h}])
          /\ \/ remote' = [remote EXCEPT ![h] = Absent]
             \/ /\ CanUpdate(k, h)
                /\ remote' = [remote EXCEPT ![h] = [job[k].seen[h] EXCEPT !.owners = @ \ {k}]]
    BY <1>2, <2>2 DEF RemoveStale
  <2>4. h \in HealthChecks /\ remote \in [HealthChecks -> Remotes]
        /\ job[k].seen[h] \in Remotes
    BY <1>1 DEF JobType, IInv, TypeOK
  <2>5. x = k /\ g = h
    <3>1. remote[g].present /\ x \in remote[g].owners
          /\ remote'[g].present /\ x \notin remote'[g].owners
      BY <1>1, <2>1 DEF Has
    <3>2. g = h
      BY <2>3, <2>4, <3>1
    <3>3. CanUpdate(k, h) /\ remote'[h] = [job[k].seen[h] EXCEPT !.owners = @ \ {k}]
      <4>1. remote' # [remote EXCEPT ![h] = Absent]
        BY <2>4, <3>1, <3>2 DEF Absent
      <4> QED
        BY <2>3, <2>4, <4>1
    <3>4. remote'[h].owners = remote[h].owners \ {k}
      BY <1>1, <2>1, <2>4, <3>3 DEF JobOK, Reads, CanUpdate, Remotes
    <3> QED
      BY <3>1, <3>2, <3>4
  <2>6. job'[k].todo # job[k].todo
    <3> DEFINE j == [job[k] EXCEPT !.todo = @ \ {h}]
    <3>1. j \in JobType /\ j.todo = job[k].todo \ {h}
      BY <1>1 DEF JobType
    <3>2. Wrote(k, h, TRUE, j)
      BY <2>2, <2>3
    <3> HIDE DEF j
    <3>3. job'[k].todo = j.todo
      <4>1. SameBut(job'[k], Going(k, j, k), h, TRUE)
        BY <3>1, <3>2, WroteType DEF IInv
      <4> QED
        BY <4>1 DEF SameBut, Going
    <3> QED
      BY <3>1, <3>3
  <2>7. g \notin job[k].keep
    BY <1>1, <2>3, <2>5 DEF JobOK, Adds
  <2> QED
    BY <1>1, <2>5, <2>6, <2>7 DEF Prunes
<1>3. CASE RemoveFromConfigMap(k)
  <2>1. agentInMgmtCluster /\ remote' = remote
    BY <1>3 DEF RemoveFromConfigMap
  <2>2. configMap' # configMap
    BY <1>1, <2>1, HasSame
  <2>3. /\ CanUpdate(k, ConfigMap)
        /\ configMap' = [configMap EXCEPT !.entries = job[k].seenMap.entries
                                                      \ StaleEntries(k)]
        /\ Wrote(k, ConfigMap, configMap' # configMap, NoJob)
    BY <1>3, <2>2 DEF RemoveFromConfigMap
  <2>4. job[k].seenMap = configMap /\ configMap \in ConfigMaps
    BY <1>1, <2>1, <2>3 DEF JobOK, MapReads, CanUpdate, IInv, TypeOK
  <2>5. <<x, g>> \in configMap.entries /\ <<x, g>> \notin configMap'.entries
    BY <1>1, <2>1 DEF Has
  <2>6. configMap'.entries = configMap.entries \ StaleEntries(k)
    BY <2>3, <2>4 DEF ConfigMaps
  <2>7. x = k /\ g \notin job[k].keep
    BY <2>5, <2>6 DEF StaleEntries
  <2>8. job'[k].pc = "idle"
    <3>1. Wrote(k, ConfigMap, TRUE, NoJob)
      BY <2>2, <2>3
    <3> QED
      BY <3>1, Values, WroteType DEF IInv, SameBut, Going
  <2> QED
    BY <1>1, <2>7, <2>8 DEF Prunes
<1> QED
  BY <1>2, <1>3

\* No update is lost: as long as a HealthCheck stays in the cluster, and always
\* in the ConfigMap, what a CHC has there is taken away only by a job of its
\* own that prunes, and only what that job has not to keep, however the jobs of
\* several CHCs interleave their reads and their writes
\* (createOrUpdateHealthCheck, proceedRemovingStaleHealthChecks,
\* addHealthCheckToConfigMap, removeHealthCheckFromConfigMap).
THEOREM NothingTakenAwayEver == Spec => NothingTakenAway
<1> DEFINE Kept ==
      \A k \in CHCs, h \in HealthChecks :
        h \in Has(k) /\ ~(h \in Has(k))' /\ (agentInMgmtCluster \/ remote[h].present')
          => Prunes(k, h)
<1>1. IInv /\ [Next]_vars => [Kept]_vars
  <2> SUFFICES ASSUME IInv, Next, NEW x \in CHCs, NEW g \in HealthChecks,
                      g \in Has(x), ~(g \in Has(x))',
                      agentInMgmtCluster \/ remote[g].present'
               PROVE  Prunes(x, g)
    OBVIOUS
  <2>1. CASE UNCHANGED <<agentInMgmtCluster, remote, configMap>>
    BY <2>1, HasSame
  <2>2. ASSUME NEW k \in CHCs, WriteHealthCheck(k) \/ AddToConfigMap(k) PROVE FALSE
    <3>1. Has(x) \subseteq Has(x)'
      BY <2>2, WriteTakesNothing
    <3> QED
      BY <3>1
  <2>3. ASSUME NEW k \in CHCs, RemoveStale(k) \/ RemoveFromConfigMap(k)
        PROVE  Prunes(x, g)
    BY <2>3, RemoveTakesItsOwn
  <2>4. ASSUME NEW k \in CHCs, JobStep(k)
        PROVE  \/ UNCHANGED <<agentInMgmtCluster, remote, configMap>>
               \/ WriteHealthCheck(k) \/ AddToConfigMap(k)
               \/ RemoveStale(k) \/ RemoveFromConfigMap(k)
    BY <2>4 DEF JobStep, StartDeploy, StartCleanup, FetchHealthCheck, GetHealthCheck,
                GetConfigMap, ListStale, Finish, ListEntries, users
  <2>5. Restart \/ (\E k \in CHCs : CallFails(k) \/ ChangeReferences(k) \/ ChangeMatch(k))
          \/ (\E h \in HealthChecks : ChangeHealthCheck(h))
        => UNCHANGED <<agentInMgmtCluster, remote, configMap>>
    BY DEF Restart, CallFails, ChangeReferences, ChangeMatch, ChangeHealthCheck,
           Change, users
  <2> QED
    BY <2>1, <2>2, <2>3, <2>4, <2>5 DEF Next
<1>2. NothingTakenAway <=> [][Kept]_vars
  BY DEF NothingTakenAway
<1> HIDE DEF Kept
<1> QED
  BY <1>1, <1>2, InitHolds, NextKeeps, PTL DEF Spec

-----------------------------------------------------------------------------
(* Nothing is missing. *)

\* A job has deployed whatever it keeps and has not to deploy anymore, deploys
\* one HealthCheck at a time, and leaves none that it keeps.
Holding(k, j) ==
  /\ j.pc \in {"deploy", "get", "write"} => j.keep \ j.todo \subseteq Has(k)
  /\ j.pc = "prune" => j.keep \subseteq Has(k) /\ j.keep \cap j.todo = {}
  /\ \A g \in j.item, h \in j.item : g = h

\* A CHC with nothing left to do has what it should have.
Complete(k, j) == k \notin dirty /\ j.pc = "idle" => ShouldHave(k) \subseteq Has(k)

HoldInv == "deleted" \in raced \/ \A k \in CHCs : Holding(k, job[k]) /\ Complete(k, job[k])

\* Two jobs that have done, and have to do, the same.
SameWork(i, j) == i.pc = j.pc /\ i.keep = j.keep /\ i.todo = j.todo /\ i.item = j.item

\* A CHC whose job stays as it is and from which nothing is taken away.
LEMMA HoldsOn ==
  ASSUME NEW x \in CHCs, Holding(x, job[x]), Complete(x, job[x]),
         SameWork(job'[x], job[x]), Has(x) \subseteq Has(x)',
         x \in dirty' \/ (x \notin dirty /\ ShouldHave(x)' = ShouldHave(x))
  PROVE  Holding(x, job[x])' /\ Complete(x, job[x])'
<1>1. Holding(x, job[x])'
  BY DEF Holding, SameWork
<1>2. Complete(x, job[x])'
  BY DEF Complete, SameWork
<1> QED
  BY <1>1, <1>2

\* The jobs of the other CHCs when k writes.
LEMMA WroteOthers ==
  ASSUME TypeOK, NEW k \in CHCs, NEW obj, NEW changed \in BOOLEAN, NEW j,
         Wrote(k, obj, changed, j), NEW x \in CHCs, x # k
  PROVE  SameWork(job'[x], job[x])
<1>1. job[x] \in JobType
  BY DEF TypeOK
<1>2. job'[x] = IF changed THEN [job[x] EXCEPT !.fresh = @ \ {obj}] ELSE job[x]
  BY DEF Wrote
<1> QED
  BY <1>1, <1>2 DEF JobType, SameWork

\* A step of the job of k leaves the work of the others alone.
LEMMA OthersWork ==
  ASSUME IInv, NEW k \in CHCs, JobStep(k) \/ CallFails(k), NEW x \in CHCs, x # k
  PROVE  /\ SameWork(job'[x], job[x])
         /\ x \in dirty' <=> x \in dirty
         /\ ShouldHave(x)' = ShouldHave(x)
<1>t. TypeOK
  BY DEF IInv
<1>1. ShouldHave(x)' = ShouldHave(x) /\ (x \in dirty' <=> x \in dirty)
  BY DEF ShouldHave, users, JobStep, CallFails, Fail, StartDeploy, StartCleanup,
     FetchHealthCheck, GetHealthCheck, WriteHealthCheck, GetConfigMap, AddToConfigMap,
     ListStale, RemoveStale, Finish, ListEntries, RemoveFromConfigMap
<1> SUFFICES SameWork(job'[x], job[x])
  BY <1>1
<1>2. ASSUME NEW j, Step(k, j) PROVE SameWork(job'[x], job[x])
  BY <1>t, <1>2 DEF Step, SameWork, TypeOK
<1>3. CASE WriteHealthCheck(k)
  <2>1. CASE Fail(k)
    BY <1>2, <2>1 DEF Fail
  <2>2. ASSUME NEW h, Wrote(k, h, remote' # remote, ItemDone(job[k]))
        PROVE  SameWork(job'[x], job[x])
    BY <1>t, <2>2, WroteOthers
  <2> QED
    BY <1>3, <2>1, <2>2 DEF WriteHealthCheck
<1>4. CASE AddToConfigMap(k)
  <2>1. CASE Fail(k)
    BY <1>2, <2>1 DEF Fail
  <2>2. CASE Wrote(k, ConfigMap, configMap' # configMap, ItemDone(job[k]))
    BY <1>t, <2>2, WroteOthers
  <2> QED
    BY <1>4, <2>1, <2>2 DEF AddToConfigMap
<1>5. CASE RemoveStale(k)
  <2>1. CASE Fail(k)
    BY <1>2, <2>1 DEF Fail
  <2>2. ASSUME NEW h, Wrote(k, h, remote' # remote, [job[k] EXCEPT !.todo = @ \ {h}])
        PROVE  SameWork(job'[x], job[x])
    BY <1>t, <2>2, WroteOthers
  <2> QED
    BY <1>5, <2>1, <2>2 DEF RemoveStale
<1>6. CASE RemoveFromConfigMap(k)
  <2>1. CASE Fail(k)
    BY <1>2, <2>1 DEF Fail
  <2>2. CASE Wrote(k, ConfigMap, configMap' # configMap, NoJob)
    BY <1>t, <2>2, WroteOthers
  <2> QED
    BY <1>6, <2>1, <2>2 DEF RemoveFromConfigMap
<1>7. CASE StartDeploy(k) \/ StartCleanup(k)
  BY <1>2, <1>7 DEF StartDeploy, StartCleanup
<1>8. CASE FetchHealthCheck(k) \/ GetHealthCheck(k) \/ GetConfigMap(k)
  BY <1>2, <1>8 DEF FetchHealthCheck, GetHealthCheck, GetConfigMap
<1>9. CASE ListStale(k) \/ Finish(k) \/ ListEntries(k) \/ CallFails(k)
  BY <1>2, <1>9 DEF ListStale, Finish, ListEntries, CallFails, Fail
<1> QED
  BY <1>3, <1>4, <1>5, <1>6, <1>7, <1>8, <1>9 DEF JobStep

\* Unless a HealthCheck written since it was listed is deleted, leaving takes
\* nothing from the others, and from the leaving CHC only what it does not keep.
LEMMA RemoveSpares ==
  ASSUME IInv, NEW k \in CHCs, RemoveStale(k) \/ RemoveFromConfigMap(k),
         "deleted" \notin raced', NEW x \in CHCs, NEW g \in Has(x),
         x # k \/ (g \in job[k].keep /\ job[k].keep \cap job[k].todo = {})
  PROVE  g \in Has(x)'
<1>1. /\ job[k] \in JobType /\ JobOK(k, job[k])
      /\ agentInMgmtCluster' = agentInMgmtCluster /\ g \in HealthChecks
  BY DEF IInv, TypeOK, RemoveStale, RemoveFromConfigMap, users, Has
<1>2. CASE RemoveStale(k)
  <2>1. ~agentInMgmtCluster /\ configMap' = configMap
    BY <1>2 DEF RemoveStale
  <2>2. CASE remote' = remote
    BY <1>1, <2>1, <2>2, HasSame
  <2>3. CASE remote' # remote
    <3>1. PICK h \in job[k].todo :
            \/ /\ IsLastOwner(k, h) /\ h \in job[k].fresh
               /\ remote' = [remote EXCEPT ![h] = Absent]
            \/ /\ CanUpdate(k, h)
               /\ remote' = [remote EXCEPT ![h] = [job[k].seen[h] EXCEPT !.owners = @ \ {k}]]
      BY <1>2, <2>3 DEF RemoveStale
    <3>2. /\ h \in HealthChecks /\ remote \in [HealthChecks -> Remotes]
          /\ remote[h] \in Remotes
      BY <1>1 DEF JobType, IInv, TypeOK
    <3>3. job[k].seen[h] = remote[h]
      BY <1>1, <2>1, <3>1, <3>2 DEF JobOK, Reads, CanUpdate
    <3>4. remote[g].present /\ x \in remote[g].owners
      BY <2>1 DEF Has
    <3>5. CASE g # h
      BY <1>1, <2>1, <3>1, <3>2, <3>4, <3>5 DEF Has
    <3>6. CASE g = h
      <4>1. x # k
        BY <3>6
      <4>2. remote' = [remote EXCEPT ![h] = [remote[h] EXCEPT !.owners = @ \ {k}]]
        BY <3>1, <3>3, <3>4, <3>6, <4>1 DEF IsLastOwner
      <4>3. remote'[h].present /\ x \in remote'[h].owners
        BY <3>2, <3>4, <3>6, <4>1, <4>2 DEF Remotes
      <4> QED
        BY <1>1, <2>1, <3>6, <4>3 DEF Has
    <3> QED
      BY <3>5, <3>6
  <2> QED
    BY <2>2, <2>3
<1>3. CASE RemoveFromConfigMap(k)
  <2>1. agentInMgmtCluster /\ remote' = remote
    BY <1>3 DEF RemoveFromConfigMap
  <2>2. CASE configMap' = configMap
    BY <1>1, <2>1, <2>2, HasSame
  <2>3. CASE configMap' # configMap
    <3>1. /\ CanUpdate(k, ConfigMap) /\ job[k].pc = "prune"
          /\ configMap' = [configMap EXCEPT !.entries = job[k].seenMap.entries
                                                        \ StaleEntries(k)]
      BY <1>3, <2>3 DEF RemoveFromConfigMap
    <3>2. job[k].seenMap = configMap /\ configMap \in ConfigMaps
      BY <1>1, <2>1, <3>1 DEF JobOK, MapReads, CanUpdate, IInv, TypeOK
    <3>3. configMap'.entries = configMap.entries \ StaleEntries(k)
      BY <3>1, <3>2 DEF ConfigMaps
    <3>4. <<x, g>> \in configMap.entries /\ <<x, g>> \notin StaleEntries(k)
      BY <2>1 DEF Has, StaleEntries
    <3> QED
      BY <1>1, <2>1, <3>3, <3>4 DEF Has
  <2> QED
    BY <2>2, <2>3
<1> QED
  BY <1>2, <1>3

\* So no step of the job of k takes anything from another CHC.
LEMMA OthersKeep ==
  ASSUME IInv, NEW k \in CHCs, JobStep(k) \/ CallFails(k), "deleted" \notin raced',
         NEW x \in CHCs, x # k
  PROVE  Has(x) \subseteq Has(x)'
<1>1. CASE WriteHealthCheck(k) \/ AddToConfigMap(k)
  BY <1>1, WriteTakesNothing
<1>2. CASE RemoveStale(k) \/ RemoveFromConfigMap(k)
  BY <1>2, RemoveSpares
<1>3. CASE UNCHANGED <<agentInMgmtCluster, remote, configMap>>
  BY <1>3, HasSame
<1> QED
  BY <1>1, <1>2, <1>3 DEF JobStep, CallFails, StartDeploy, StartCleanup, FetchHealthCheck,
     GetHealthCheck, GetConfigMap, ListStale, Finish, ListEntries, users

\* A job that ends with an error is asked for again, with nothing held.
LEMMA FailHolds ==
  ASSUME IInv, NEW k \in CHCs, Fail(k)
  PROVE  Holding(k, job[k])' /\ Complete(k, job[k])'
<1>1. job'[k] = NoJob /\ k \in dirty'
  BY DEF Fail, Step, IInv, TypeOK
<1> QED
  BY <1>1, Values DEF Holding, Complete

\* A job that kept all it had to keep ends.
LEMMA EndHolds ==
  ASSUME IInv, NEW k \in CHCs, job[k].pc # "idle", job'[k].pc = "idle", job'[k].item = {},
         job[k].keep \subseteq Has(k)', dirty' = dirty, ShouldHave(k)' = ShouldHave(k)
  PROVE  Holding(k, job[k])' /\ Complete(k, job[k])'
<1>1. k \notin dirty => job[k].keep = ShouldHave(k)
  BY DEF IInv, Intent, Intended
<1> QED
  BY <1>1 DEF Holding, Complete

\* What a step of its own job does to what k has and has to do.
LEMMA OwnHolds ==
  ASSUME IInv, NEW k \in CHCs, JobStep(k) \/ CallFails(k), "deleted" \notin raced',
         Holding(k, job[k])
  PROVE  Holding(k, job[k])' /\ Complete(k, job[k])'
<1>t. job[k] \in JobType /\ JobOK(k, job[k]) /\ TypeOK
  BY DEF IInv, TypeOK
<1>0. CASE Fail(k)
  BY <1>0, FailHolds
<1>1. CASE StartDeploy(k)
  <2> DEFINE j == [NoJob EXCEPT !.pc = "deploy", !.keep = wants[k], !.todo = wants[k],
                                !.young = ~configMap.present]
  <2>1. j.pc = "deploy" /\ j.keep = wants[k] /\ j.todo = wants[k] /\ j.item = {}
    BY DEF NoJob
  <2>2. job'[k] = j
    BY <1>1, <1>t DEF StartDeploy, Step, TypeOK
  <2> HIDE DEF j
  <2> QED
    BY <2>1, <2>2 DEF Holding, Complete
<1>2. CASE StartCleanup(k)
  <2> DEFINE j == [NoJob EXCEPT !.pc = "deploy", !.young = ~configMap.present]
  <2>1. j.pc = "deploy" /\ j.keep = {} /\ j.todo = {} /\ j.item = {}
    BY DEF NoJob
  <2>2. job'[k] = j
    BY <1>2, <1>t DEF StartCleanup, Step, TypeOK
  <2> HIDE DEF j
  <2> QED
    BY <2>1, <2>2 DEF Holding, Complete
<1>3. ASSUME NEW j, Step(k, j), j.pc \in {"deploy", "get", "write"},
             j.keep = job[k].keep, j.todo = job[k].todo,
             \A g \in j.item, h \in j.item : g = h,
             job[k].pc \in {"deploy", "get", "write"},
             UNCHANGED <<users, remote, configMap>>
      PROVE  Holding(k, job[k])' /\ Complete(k, job[k])'
  <2>1. job'[k] = j
    BY <1>3, <1>t DEF Step, TypeOK
  <2>2. Has(k)' = Has(k)
    BY <1>3, HasSame DEF users
  <2> QED
    BY <1>3, <2>1, <2>2 DEF Holding, Complete
<1>4. CASE FetchHealthCheck(k)
  <2>1. PICK h \in job[k].todo :
          Step(k, [job[k] EXCEPT !.pc = "get", !.item = {h}, !.source = spec[h]])
    BY <1>4 DEF FetchHealthCheck
  <2> DEFINE j == [job[k] EXCEPT !.pc = "get", !.item = {h}, !.source = spec[h]]
  <2>2. j.pc = "get" /\ j.keep = job[k].keep /\ j.todo = job[k].todo /\ j.item = {h}
    BY <1>t DEF JobType
  <2>3. Step(k, j)
    BY <2>1
  <2> HIDE DEF j
  <2> QED
    BY <1>3, <1>4, <2>2, <2>3 DEF FetchHealthCheck
<1>5. CASE GetHealthCheck(k)
  <2>1. PICK h \in job[k].item :
          Step(k, [job[k] EXCEPT !.pc = "write", !.seen[h] = remote[h], !.fresh = {h}])
    BY <1>5 DEF GetHealthCheck
  <2> DEFINE j == [job[k] EXCEPT !.pc = "write", !.seen[h] = remote[h], !.fresh = {h}]
  <2>2. j.pc = "write" /\ j.keep = job[k].keep /\ j.todo = job[k].todo /\ j.item = job[k].item
    BY <1>t DEF JobType
  <2>3. Step(k, j)
    BY <2>1
  <2> HIDE DEF j
  <2> QED
    BY <1>3, <1>5, <2>2, <2>3 DEF GetHealthCheck, Holding
<1>6. CASE GetConfigMap(k)
  <2>1. PICK cm \in {configMap} \cup IF job[k].young THEN {NoConfigMap} ELSE {} :
          Step(k, [job[k] EXCEPT !.pc = "write", !.seenMap = cm, !.fresh = {ConfigMap}])
    BY <1>6 DEF GetConfigMap
  <2> DEFINE j == [job[k] EXCEPT !.pc = "write", !.seenMap = cm, !.fresh = {ConfigMap}]
  <2>2. j.pc = "write" /\ j.keep = job[k].keep /\ j.todo = job[k].todo /\ j.item = job[k].item
    BY <1>t DEF JobType
  <2>3. Step(k, j)
    BY <2>1
  <2> HIDE DEF j
  <2> QED
    BY <1>3, <1>6, <2>2, <2>3 DEF GetConfigMap, Holding
<1>7. ASSUME NEW obj, NEW changed \in BOOLEAN, Wrote(k, obj, changed, ItemDone(job[k])),
             job[k].pc = "write", Has(k) \cup job[k].item \subseteq Has(k)'
      PROVE  Holding(k, job[k])' /\ Complete(k, job[k])'
  <2>1. SameBut(job'[k], ItemDone(job[k]), obj, changed)
    BY <1>7, <1>t, WroteType, ItemDoneFields DEF Going
  <2>2. /\ job'[k].pc = "deploy" /\ job'[k].keep = job[k].keep
        /\ job'[k].todo = job[k].todo \ job[k].item /\ job'[k].item = {}
    BY <2>1, <1>t, ItemDoneFields DEF SameBut
  <2> QED
    BY <1>7, <2>2 DEF Holding, Complete
<1>8. CASE WriteHealthCheck(k)
  <2>1. ASSUME NEW h \in job[k].item,
               remote' = [remote EXCEPT ![h] = Deployed(k, h)],
               Wrote(k, h, remote' # remote, ItemDone(job[k]))
        PROVE  Holding(k, job[k])' /\ Complete(k, job[k])'
    <3>1. h \in HealthChecks /\ remote \in [HealthChecks -> Remotes]
      BY <1>t DEF JobType, TypeOK
    <3>2. remote'[h].present /\ k \in remote'[h].owners /\ ~agentInMgmtCluster'
      BY <1>8, <2>1, <3>1 DEF Deployed, WriteHealthCheck, users
    <3>3. h \in Has(k)'
      BY <3>1, <3>2 DEF Has
    <3>4. job[k].item = {h}
      BY <2>1 DEF Holding
    <3>5. Has(k) \subseteq Has(k)'
      BY <1>8, WriteTakesNothing
    <3> QED
      BY <1>7, <1>8, <2>1, <3>3, <3>4, <3>5 DEF WriteHealthCheck
  <2> QED
    BY <1>0, <1>8, <2>1 DEF WriteHealthCheck
<1>9. CASE AddToConfigMap(k) /\ ~Fail(k)
  <2>1. Wrote(k, ConfigMap, configMap' # configMap, ItemDone(job[k])) /\ job[k].pc = "write"
    BY <1>9 DEF AddToConfigMap
  <2>2. \A h \in job[k].item : <<k, h>> \in configMap'.entries
    BY <1>9 DEF AddToConfigMap
  <2>3. agentInMgmtCluster' /\ job[k].item \subseteq HealthChecks
    BY <1>9, <1>t DEF AddToConfigMap, users, JobType
  <2>4. job[k].item \subseteq Has(k)'
    BY <2>2, <2>3 DEF Has
  <2>5. Has(k) \subseteq Has(k)'
    BY <1>9, WriteTakesNothing
  <2> QED
    BY <1>7, <2>1, <2>4, <2>5
<1>10. CASE ListStale(k)
  <2> DEFINE todo == {h \in HealthChecks \ job[k].keep :
                        remote[h].present /\ k \in remote[h].owners}
             j == [job[k] EXCEPT !.pc = "prune", !.seen = remote,
                                 !.fresh = HealthChecks, !.todo = todo]
  <2>1. todo \cap job[k].keep = {}
    OBVIOUS
  <2>2. Step(k, j) /\ job[k].pc = "deploy" /\ job[k].todo = {}
    BY <1>10 DEF ListStale
  <2> HIDE DEF todo
  <2>3. j.pc = "prune" /\ j.keep = job[k].keep /\ j.todo = todo /\ j.item = job[k].item
    BY <1>t DEF JobType
  <2> HIDE DEF j
  <2>4. job'[k] = j
    BY <2>2, <1>t DEF Step, TypeOK
  <2>5. Has(k)' = Has(k)
    BY <1>10, HasSame DEF ListStale, users
  <2> QED
    BY <2>1, <2>2, <2>3, <2>4, <2>5 DEF Holding, Complete
<1>11. CASE RemoveStale(k)
  <2>1. ASSUME NEW h \in job[k].todo,
               Wrote(k, h, remote' # remote, [job[k] EXCEPT !.todo = @ \ {h}])
        PROVE  Holding(k, job[k])' /\ Complete(k, job[k])'
    <3> DEFINE j == [job[k] EXCEPT !.todo = @ \ {h}]
               changed == remote' # remote
    <3>1. /\ j \in JobType /\ j.pc = job[k].pc /\ j.keep = job[k].keep
          /\ j.todo = job[k].todo \ {h} /\ j.item = job[k].item
      BY <1>t DEF JobType
    <3>2. Wrote(k, h, changed, j) /\ changed \in BOOLEAN
      BY <2>1
    <3> HIDE DEF j, changed
    <3>3. SameBut(job'[k], j, h, changed)
      BY <1>t, <3>1, <3>2, WroteType DEF Going
    <3>4. /\ job'[k].pc = "prune" /\ job'[k].keep = job[k].keep
          /\ job'[k].todo = job[k].todo \ {h} /\ job'[k].item = job[k].item
          /\ job[k].pc = "prune"
      BY <1>11, <3>1, <3>3 DEF SameBut, RemoveStale
    <3>5. job[k].keep \subseteq Has(k)'
      <4>1. job[k].keep \subseteq Has(k) /\ job[k].keep \cap job[k].todo = {}
        BY <3>4 DEF Holding
      <4> QED
        BY <1>11, <4>1, RemoveSpares
    <3> QED
      BY <3>4, <3>5 DEF Holding, Complete
  <2> QED
    BY <1>0, <1>11, <2>1 DEF RemoveStale
<1>12. CASE RemoveFromConfigMap(k) /\ ~Fail(k)
  <2> DEFINE changed == configMap' # configMap
  <2>1. /\ Wrote(k, ConfigMap, changed, NoJob) /\ changed \in BOOLEAN
        /\ job[k].pc = "prune" /\ dirty' = dirty
    BY <1>12 DEF RemoveFromConfigMap
  <2> HIDE DEF changed
  <2>2. SameBut(job'[k], NoJob, ConfigMap, changed)
    BY <1>t, <2>1, Values, WroteType DEF Going
  <2>3. job'[k].pc = "idle" /\ job'[k].item = {}
    BY <2>2, Values DEF SameBut
  <2>4. job[k].keep \subseteq Has(k)'
    <3>1. job[k].keep \subseteq Has(k) /\ job[k].keep \cap job[k].todo = {}
      BY <2>1 DEF Holding
    <3> QED
      BY <1>12, <3>1, RemoveSpares
  <2>5. ShouldHave(k)' = ShouldHave(k)
    BY <1>12 DEF RemoveFromConfigMap, ShouldHave, users
  <2> QED
    BY <2>1, <2>3, <2>4, <2>5, EndHolds
<1>13. CASE Step(k, NoJob) /\ UNCHANGED <<users, remote, configMap, dirty>>
            /\ job[k].pc # "idle" /\ job[k].keep \subseteq Has(k)
  <2>1. job'[k] = NoJob
    BY <1>13, <1>t DEF Step, TypeOK
  <2>2. Has(k)' = Has(k) /\ ShouldHave(k)' = ShouldHave(k)
    BY <1>13, HasSame DEF users, ShouldHave
  <2> QED
    BY <1>13, <2>1, <2>2, Values, EndHolds
<1>14. CASE Finish(k)
  BY <1>13, <1>14 DEF Finish, Holding
<1>15. CASE ListEntries(k)
  <2>1. CASE Step(k, NoJob)
    <3>1. job[k].keep \subseteq Has(k) /\ job[k].pc = "deploy"
      BY <1>15 DEF ListEntries, Holding
    <3> QED
      BY <1>13, <1>15, <2>1, <3>1 DEF ListEntries
  <2> DEFINE j == [job[k] EXCEPT !.pc = "prune", !.seenMap = configMap,
                                 !.fresh = {ConfigMap}]
  <2>2. CASE Step(k, j)
    <3>1. /\ j.pc = "prune" /\ j.keep = job[k].keep /\ j.todo = job[k].todo
          /\ j.item = job[k].item
      BY <1>t DEF JobType
    <3>2. job[k].pc = "deploy" /\ job[k].todo = {} /\ Has(k)' = Has(k)
      BY <1>15, HasSame DEF ListEntries, users
    <3> HIDE DEF j
    <3>3. job'[k] = j
      BY <2>2, <1>t DEF Step, TypeOK
    <3> QED
      BY <3>1, <3>2, <3>3 DEF Holding, Complete
  <2> QED
    BY <1>15, <2>1, <2>2 DEF ListEntries
<1> QED
  BY <1>0, <1>1, <1>2, <1>4, <1>5, <1>6, <1>8, <1>9, <1>10, <1>11, <1>12, <1>14, <1>15
     DEF JobStep, CallFails

\* Every step keeps what the jobs hold.
LEMMA HoldNext == IInv /\ HoldInv /\ [Next]_vars => HoldInv'
<1> SUFFICES ASSUME IInv, HoldInv, [Next]_vars, "deleted" \notin raced', NEW x \in CHCs
             PROVE  Holding(x, job[x])' /\ Complete(x, job[x])'
  BY DEF HoldInv
<1>r. raced \subseteq raced'
  <2>1. ASSUME NEW k \in CHCs, WriteHealthCheck(k) \/ RemoveStale(k) PROVE raced \subseteq raced'
    BY <2>1 DEF WriteHealthCheck, RemoveStale
  <2>2. ASSUME NEW k \in CHCs, JobStep(k) \/ CallFails(k)
        PROVE  WriteHealthCheck(k) \/ RemoveStale(k) \/ raced' = raced
    BY <2>2 DEF JobStep, CallFails, StartDeploy, StartCleanup, FetchHealthCheck,
       GetHealthCheck, GetConfigMap, AddToConfigMap, ListStale, Finish, ListEntries,
       RemoveFromConfigMap
  <2> QED
    BY <2>1, <2>2 DEF Next, Restart, ChangeReferences, ChangeMatch, ChangeHealthCheck,
       Change, vars
<1>h. Holding(x, job[x]) /\ Complete(x, job[x])
  BY <1>r DEF HoldInv
<1>1. ASSUME NEW k \in CHCs, JobStep(k) \/ CallFails(k)
      PROVE  Holding(x, job[x])' /\ Complete(x, job[x])'
  <2>1. CASE x = k
    BY <1>h, <1>1, <2>1, OwnHolds
  <2>2. CASE x # k
    <3>1. Has(x) \subseteq Has(x)'
      BY <1>1, <2>2, OthersKeep
    <3> QED
      BY <1>h, <1>1, <2>2, <3>1, OthersWork, HoldsOn
  <2> QED
    BY <2>1, <2>2
<1>2. ASSUME UNCHANGED <<agentInMgmtCluster, remote, configMap, job>>,
             x \in dirty' \/ (x \notin dirty /\ ShouldHave(x)' = ShouldHave(x))
      PROVE  Holding(x, job[x])' /\ Complete(x, job[x])'
  <2>1. Has(x)' = Has(x) /\ SameWork(job'[x], job[x])
    BY <1>2, HasSame DEF SameWork
  <2> QED
    BY <1>h, <1>2, <2>1, HoldsOn
<1>3. ASSUME NEW k \in CHCs, ChangeReferences(k) \/ ChangeMatch(k)
      PROVE  Holding(x, job[x])' /\ Complete(x, job[x])'
  <2>1. x # k => wants'[x] = wants[x] /\ matches'[x] = matches[x]
    BY <1>3 DEF ChangeReferences, ChangeMatch, IInv, TypeOK
  <2>2. /\ UNCHANGED <<agentInMgmtCluster, remote, configMap, job>>
        /\ dirty' = dirty \cup {k}
    BY <1>3 DEF ChangeReferences, ChangeMatch, Change
  <2> QED
    BY <1>2, <2>1, <2>2 DEF ShouldHave
<1>4. ASSUME NEW h \in HealthChecks, ChangeHealthCheck(h)
      PROVE  Holding(x, job[x])' /\ Complete(x, job[x])'
  <2>1. /\ UNCHANGED <<agentInMgmtCluster, remote, configMap, job, wants, matches>>
        /\ dirty \subseteq dirty'
    BY <1>4 DEF ChangeHealthCheck, Change
  <2> QED
    BY <1>2, <2>1 DEF ShouldHave
<1>5. CASE Restart
  <2>1. /\ job'[x] = NoJob /\ UNCHANGED <<users, remote, configMap>>
        /\ dirty \subseteq dirty' /\ (x \notin dirty' => job[x].pc = "idle")
    BY <1>5 DEF Restart
  <2>2. Has(x)' = Has(x) /\ ShouldHave(x)' = ShouldHave(x)
    BY <2>1, HasSame DEF users, ShouldHave
  <2> QED
    BY <1>h, <2>1, <2>2, Values DEF Holding, Complete
<1>6. CASE UNCHANGED vars
  BY <1>2, <1>6 DEF vars, ShouldHave
<1> QED
  BY <1>1, <1>3, <1>4, <1>5, <1>6 DEF Next

\* Unless a job deletes a HealthCheck that another CHC became an owner of after
\* the job listed it, a CHC with nothing left to do has everything it should
\* have: conflicts, failures, restarts and stale reads of the ConfigMap lose
\* nothing (createOrUpdateHealthCheck, addHealthCheckToConfigMap).
THEOREM NothingMissingEver == Spec => []NothingMissingUnlessRaced
<1>1. Init => HoldInv
  <2> SUFFICES ASSUME Init, NEW k \in CHCs
               PROVE  Holding(k, job[k]) /\ Complete(k, job[k])
    BY DEF HoldInv
  <2>1. job[k] = NoJob /\ (k \in dirty <=> matches[k])
    BY DEF Init
  <2> QED
    BY <2>1, Values DEF Holding, Complete, ShouldHave
<1>2. HoldInv => NothingMissingUnlessRaced
  BY DEF HoldInv, Complete, NothingMissingUnlessRaced, NothingMissing, Done
<1> QED
  BY <1>1, <1>2, InitHolds, NextKeeps, HoldNext, PTL DEF Spec

=============================================================================
