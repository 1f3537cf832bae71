--------------------------- MODULE ManagedClusters ---------------------------
(***************************************************************************)
(* What the deployment of a ClusterHealthCheck promises to the managed     *)
(* clusters, without reconciles, requests, results or retries: a cluster   *)
(* is worked on by one activity at a time, which deploys the configuration *)
(* that was current when it began or cleans up, and nothing else changes   *)
(* what a cluster contains.  An activity may fail having done its work or  *)
(* not, and all are lost when the manager stops.                           *)
(***************************************************************************)
EXTENDS Naturals, TLAPS

CONSTANT Clusters

VARIABLES
  version,   \* of the configuration to deploy
  activity,  \* the activity at each cluster, with the version it works from
  content    \* version each cluster contains (0: nothing)

vars == <<version, activity, content>>

Nothing == [kind |-> "none", from |-> 0]
Deploying(v) == [kind |-> "deploy", from |-> v]
Cleaning == [kind |-> "cleanup", from |-> 0]

Init ==
  /\ version \in Nat
  /\ activity = [c \in Clusters |-> Nothing]
  /\ content = [c \in Clusters |-> 0]

\* The ClusterHealthCheck, or a HealthCheck it references, changes.
Publish ==
  /\ version' \in Nat /\ version' > version
  /\ UNCHANGED <<activity, content>>

Begin(c) ==
  /\ activity[c] = Nothing
  /\ \E a \in {Deploying(version), Cleaning} : activity' = [activity EXCEPT ![c] = a]
  /\ UNCHANGED <<version, content>>

End(c) ==
  /\ activity[c] # Nothing
  /\ activity' = [activity EXCEPT ![c] = Nothing]
  /\ \E v \in {content[c], activity[c].from} : content' = [content EXCEPT ![c] = v]
  /\ UNCHANGED version

\* The managed cluster is deleted.
Vanish(c) ==
  /\ content' = [content EXCEPT ![c] = 0]
  /\ UNCHANGED <<version, activity>>

\* The manager stops: its activities end, nowhere in the middle of a change.
Crash ==
  /\ activity' = [c \in Clusters |-> Nothing]
  /\ UNCHANGED <<version, content>>

Next ==
  \/ Publish \/ Crash
  \/ \E c \in Clusters : Begin(c) \/ End(c) \/ Vanish(c)

Spec == Init /\ [][Next]_vars

-----------------------------------------------------------------------------

\* A managed cluster never goes back to an older configuration.
NotOlder == \A c \in Clusters : content'[c] = 0 \/ content'[c] >= content[c]

Activities == [kind : {"none", "deploy", "cleanup"}, from : Nat]

\* What a cluster contains is not newer than what is being deployed there,
\* nor than the current version.
Ahead ==
  /\ version \in Nat
  /\ activity \in [Clusters -> Activities]
  /\ content \in [Clusters -> Nat]
  /\ \A c \in Clusters :
       /\ content[c] <= version
       /\ activity[c].from <= version
       /\ activity[c].kind = "deploy" => content[c] <= activity[c].from
       /\ activity[c].kind # "deploy" => activity[c].from = 0

\* Every step keeps Ahead, and takes no cluster back.
LEMMA AheadNext ==
  ASSUME Ahead, [Next]_vars
  PROVE  Ahead' /\ NotOlder
<1> USE DEF Ahead, NotOlder
<1>0. /\ Nothing \in Activities /\ Cleaning \in Activities
      /\ \A v \in Nat : Deploying(v) \in Activities
      /\ Nothing.kind = "none" /\ Cleaning.kind = "cleanup"
      /\ Nothing.from = 0 /\ Cleaning.from = 0
      /\ \A v : Deploying(v).kind = "deploy" /\ Deploying(v).from = v
  BY DEF Activities, Nothing, Cleaning, Deploying
<1>t. ASSUME NEW c \in Clusters
      PROVE  activity[c].from \in Nat /\ content[c] \in Nat
  BY DEF Activities
<1>1. CASE Publish
  BY <1>1, <1>t DEF Publish
<1>2. CASE Crash
  BY <1>2, <1>0, <1>t DEF Crash
<1>3. ASSUME NEW c \in Clusters, Begin(c) PROVE Ahead' /\ NotOlder
  BY <1>3, <1>0, <1>t DEF Begin
<1>4. ASSUME NEW c \in Clusters, End(c) PROVE Ahead' /\ NotOlder
  <2>1. PICK v \in {content[c], activity[c].from} : content' = [content EXCEPT ![c] = v]
    BY <1>4 DEF End
  <2>2. v \in Nat /\ v <= version /\ (v = 0 \/ v >= content[c])
    BY <2>1 DEF Activities
  <2>3. activity' = [activity EXCEPT ![c] = Nothing] /\ version' = version
    BY <1>4 DEF End
  <2> QED
    BY <1>0, <1>t, <2>1, <2>2, <2>3
<1>5. ASSUME NEW c \in Clusters, Vanish(c) PROVE Ahead' /\ NotOlder
  BY <1>5, <1>t DEF Vanish
<1>6. CASE UNCHANGED vars
  BY <1>6, <1>t DEF vars
<1> QED
  BY <1>1, <1>2, <1>3, <1>4, <1>5, <1>6 DEF Next

\* THEOREM: deployed configurations only move forward, cleanups apart.
THEOREM NeverOlder == Spec => [][NotOlder]_vars
<1>1. Init => Ahead
  BY DEF Init, Ahead, Activities, Nothing
<1>2. Ahead /\ [Next]_vars => Ahead'
  BY AheadNext
<1>3. Ahead /\ [Next]_vars => [NotOlder]_vars
  BY AheadNext
<1> QED
  BY <1>1, <1>2, <1>3, PTL DEF Spec

=============================================================================
