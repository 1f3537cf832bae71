------------------------- MODULE NotificationDelivery -------------------------
(***************************************************************************)
(* Liveness checks and notifications of one ClusterHealthCheck for one     *)
(* provisioned cluster: evaluateAndNotifyProvisionedClusters, the liveness *)
(* evaluation (liveness.go), the notification policies                     *)
(* (notification_policy.go), delivery (notification.go) and the requeue    *)
(* reconcileNormal asks for when a policy holds a notification back.       *)
(*                                                                         *)
(* A reconcile takes three steps, each with its own reading of the clock:  *)
(* EvaluateLivenessChecks, SendNotifications (time.Now() in                *)
(* sendNotifications) and FinishReconcile (time.Now() passed to            *)
(* notificationRequeueAfter, then scope.Close).  Time is counted in ticks; *)
(* what is persisted is a metav1.Time, truncated to seconds.               *)
(*                                                                         *)
(* health, told, recorded, failingFrom and rec.at are not in the code:     *)
(* what the reports say, what each recipient was last told, the last       *)
(* delivery whose record was persisted, since when every persisted         *)
(* evaluation found the cluster failing, and when this reconcile evaluated *)
(* the checks.                                                             *)
(***************************************************************************)
EXTENDS Integers, FiniteSets

CONSTANTS Checks,          \* Spec.LivenessChecks
          Messages,        \* failure messages
          Notifications,   \* Spec.Notifications
          Teams,           \* the ones of type Teams
          Policy,          \* NotificationPolicy of each notification
          RetryAfter,      \* normalRequeueAfter
          TicksPerSecond,  \* resolution of time.Now() versus metav1.Time
          ClockRuns,       \* may the clock advance during a reconcile?
          Faults,          \* which faults may happen
          MaxFaults,       \* bound on their number
          MaxTime          \* bound on time

Policies == [onlyOnTransition : BOOLEAN, minInterval : Nat, failingFor : Nat]

ASSUME NotificationAssumption ==
  /\ Teams \subseteq Notifications
  /\ Policy \in [Notifications -> Policies]
  /\ TicksPerSecond \in Nat \ {0}
  /\ RetryAfter \in Nat \ {0}
  /\ ClockRuns \in BOOLEAN
  /\ Faults \subseteq {"delivery", "evaluation", "close", "restart"}
  /\ MaxFaults \in Nat /\ MaxTime \in Nat

VARIABLES
  now,         \* the clock
  health,      \* the reports: a failure message, or Healthy, per check
  conditions,  \* persisted Conditions of the cluster
  summaries,   \* persisted NotificationSummaries of the cluster
  queued,      \* is a reconcile queued?
  timer,       \* when a delayed request is due, Never if there is none
  rec,         \* the reconcile in progress
  told,        \* per notification: the last delivery
  recorded,    \* per notification: the last delivery persisted as such
  failingFrom, \* since when persisted evaluations found the cluster failing
  faults       \* number of faults so far

vars == <<now, health, conditions, summaries, queued, timer, rec, told,
          recorded, failingFrom, faults>>

Healthy == "healthy"
Never == 0 - 1
NoMessages == [c \in {} |-> Healthy]

\* A delivery: when, whether it reported a failure, and which messages.
NotSent == [time |-> Never, failing |-> FALSE, messages |-> NoMessages]
WasSent(d) == d.time # Never
SameContent(d, e) == d.failing = e.failing /\ d.messages = e.messages

NoSummary == [status |-> "None", lastSent |-> NotSent]
NoCondition == [status |-> "Unknown", message |-> Healthy, since |-> Never]
Idle == [pc |-> "idle", at |-> Never, conditions |-> [c \in Checks |-> NoCondition],
         changed |-> FALSE, summaries |-> [n \in Notifications |-> NoSummary],
         sent |-> {}, failed |-> FALSE]

Init ==
  /\ now = 0
  /\ health \in [Checks -> Messages \cup {Healthy}]
  /\ conditions = [c \in Checks |-> NoCondition]
  /\ summaries = [n \in Notifications |-> NoSummary]
  /\ queued = TRUE
  /\ timer = Never
  /\ rec = Idle
  /\ told = [n \in Notifications |-> NotSent]
  /\ recorded = [n \in Notifications |-> NotSent]
  /\ failingFrom = Never
  /\ faults = 0

Fault(kind) == kind \in Faults /\ faults < MaxFaults /\ faults' = faults + 1
NoFault == UNCHANGED faults

-----------------------------------------------------------------------------
(* Policies. *)

HasPolicy(n) == \/ Policy[n].onlyOnTransition
                \/ Policy[n].minInterval > 0
                \/ Policy[n].failingFor > 0

\* getClusterState: the hash of the failure messages stands for them, and
\* failingSince is the oldest transition among the failing checks.
Failing(conds) == {c \in DOMAIN conds : conds[c].status = "False"}
FailingSince(conds) ==
  CHOOSE t \in {conds[c].since : c \in Failing(conds)} :
    \A c \in Failing(conds) : t <= conds[c].since
ClusterState(conds) ==
  [failing |-> Failing(conds) # {},
   messages |-> [c \in Failing(conds) |-> conds[c].message],
   failingSince |-> IF Failing(conds) = {} THEN Never ELSE FailingSince(conds)]

\* Mutant: OnlyOnTransition is ignored.
DifferenceOfMessages(p, summary, state) ==
  LET last == summary.lastSent
  IN IF ~WasSent(last) THEN state.failing
     ELSE last.failing # state.failing \/ (state.failing /\ last.messages # state.messages)

\* hasDifferenceToReport.
HasDifferenceToReport(p, summary, state) ==
  LET last == summary.lastSent
  IN IF ~WasSent(last) THEN state.failing
     ELSE \/ last.failing # state.failing
          \/ state.failing /\ ~p.onlyOnTransition /\ last.messages # state.messages

\* A failure has to last failingFor before it is reported.
TooRecent(p, summary, state, t) ==
  /\ state.failing
  /\ ~WasSent(summary.lastSent) \/ ~summary.lastSent.failing
  /\ p.failingFor > 0
  /\ t - state.failingSince < p.failingFor

\* Mutant: a recovery is reported at once.
TooSoonToFail(p, summary, t) ==
  /\ WasSent(summary.lastSent) /\ ~summary.lastSent.failing
  /\ p.minInterval > 0
  /\ summary.status # "FailedToDeliver"
  /\ t - summary.lastSent.time < p.minInterval

\* Deliveries are minInterval apart; a failed one is retried without waiting.
TooSoon(p, summary, t) ==
  /\ WasSent(summary.lastSent)
  /\ p.minInterval > 0
  /\ summary.status # "FailedToDeliver"
  /\ t - summary.lastSent.time < p.minInterval

\* evaluateNotificationPolicy: its results send and wait.
PolicySends(p, summary, state, t) ==
  /\ HasDifferenceToReport(p, summary, state)
  /\ ~TooRecent(p, summary, state, t)
  /\ ~TooSoon(p, summary, t)

\* Mutant: a notification held back by MinInterval gives no time to wait.
PolicyWaitForFailure(p, summary, state, t) ==
  IF HasDifferenceToReport(p, summary, state) /\ TooRecent(p, summary, state, t)
  THEN p.failingFor - (t - state.failingSince)
  ELSE 0

PolicyWait(p, summary, state, t) ==
  IF ~HasDifferenceToReport(p, summary, state) THEN 0
  ELSE IF TooRecent(p, summary, state, t) THEN p.failingFor - (t - state.failingSince)
  ELSE IF TooSoon(p, summary, t) THEN p.minInterval - (t - summary.lastSent.time)
  ELSE 0

\* notificationRequeueAfter: the shortest wait of a notification held back.
Waits(conds, sums, t) ==
  {PolicyWait(Policy[n], sums[n], ClusterState(conds), t) :
     n \in {m \in Notifications : HasPolicy(m)}} \ {0}
NotificationRequeueAfter(conds, sums, t) ==
  IF Waits(conds, sums, t) = {} THEN 0
  ELSE CHOOSE w \in Waits(conds, sums, t) : \A x \in Waits(conds, sums, t) : w <= x

-----------------------------------------------------------------------------
(* The reconcile. *)

\* AddAfter keeps the earlier of the two times (external, client-go).
Earlier(t, u) == IF t = Never \/ u < t THEN u ELSE t

\* evaluateLivenessCheck, and the status a condition gets.
Passing(c) == health[c] = Healthy

\* Mutant: the state of the check is stored unconverted.
ConditionStatusUnconverted(c) == health[c]

ConditionStatus(c) == IF Passing(c) THEN "True" ELSE "False"

\* Mutant: the transition time is never moved.
EvaluateCheckKeepsSince(c) ==
  [status |-> ConditionStatus(c), message |-> health[c],
   since |-> IF conditions[c].since # Never THEN conditions[c].since ELSE now]

\* evaluateClusterHealthCheckForCluster: the transition time moves only when
\* the status does; a status or message change resends every notification.
EvaluateCheck(c) ==
  [status |-> ConditionStatus(c), message |-> health[c],
   since |-> IF conditions[c].status = ConditionStatus(c) THEN conditions[c].since ELSE now]

HasStatusChanged(c) ==
  IF Passing(c) THEN conditions[c].status # "True"
  ELSE conditions[c].status # "False" \/ conditions[c].message # health[c]

EvaluateLivenessChecks ==
  /\ rec.pc = "idle" /\ queued
  /\ queued' = FALSE
  /\ \/ /\ NoFault
        /\ rec' = [Idle EXCEPT !.pc = "evaluated", !.at = now,
                               !.conditions = [c \in Checks |-> EvaluateCheck(c)],
                               !.changed = \E c \in Checks : HasStatusChanged(c)]
        /\ UNCHANGED timer
     \/ /\ Fault("evaluation")
        /\ timer' = Earlier(timer, now + RetryAfter)
        /\ UNCHANGED rec
  /\ UNCHANGED <<now, health, conditions, summaries, told, recorded, failingFrom>>

\* doSendNotification: without a policy, what changed or was not delivered.
DoSendNotification(n) == rec.changed \/ summaries[n].status # "Delivered"

ToSend == {n \in Notifications :
             IF HasPolicy(n)
             THEN PolicySends(Policy[n], summaries[n], ClusterState(rec.conditions), now)
             ELSE DoSendNotification(n)}

\* sendNotification for type Teams drops the errors of the webhook library.
ReportsError(n) == n \notin Teams

\* Mutant: a failed delivery is recorded like one that succeeded.
SummaryOfAttempt(n, delivery, failed) ==
  IF n \notin ToSend
  THEN [summaries[n] EXCEPT !.status = IF @ = "None" THEN "Delivered" ELSE @]
  ELSE [status |-> IF n \in failed THEN "FailedToDeliver" ELSE "Delivered",
        lastSent |-> IF HasPolicy(n) THEN delivery ELSE NotSent]

\* processNotification and processNotificationWithPolicy: the new summary.
NewSummary(n, delivery, failed) ==
  IF n \notin ToSend
  THEN [summaries[n] EXCEPT !.status = IF @ = "None" THEN "Delivered" ELSE @]
  ELSE IF n \in failed
  THEN [summaries[n] EXCEPT !.status = "FailedToDeliver"]
  ELSE [status |-> "Delivered", lastSent |-> IF HasPolicy(n) THEN delivery ELSE NotSent]

\* sendNotifications: every delivery may fail.
SendNotifications ==
  /\ rec.pc = "evaluated"
  /\ LET state == ClusterState(rec.conditions)
         delivery == [time |-> now, failing |-> state.failing, messages |-> state.messages]
     IN \E lost \in SUBSET ToSend :
          LET failed == {n \in lost : ReportsError(n)}
          IN /\ IF lost = {} THEN NoFault ELSE Fault("delivery")
             /\ rec' = [rec EXCEPT
                  !.pc = "sent",
                  !.summaries = [n \in Notifications |-> NewSummary(n, delivery, failed)],
                  !.sent = ToSend \ lost,
                  !.failed = failed # {}]
             /\ told' = [n \in Notifications |->
                           IF n \in ToSend \ lost THEN delivery ELSE told[n]]
  /\ UNCHANGED <<now, health, conditions, summaries, queued, timer, recorded, failingFrom>>

\* The API server keeps seconds.
Truncate(t) == IF t = Never THEN t ELSE t - (t % TicksPerSecond)

RequeueAfter == IF rec.failed THEN RetryAfter
                ELSE NotificationRequeueAfter(rec.conditions, rec.summaries, now)

\* The rest of reconcileNormal, and scope.Close.  When Close fails nothing is
\* persisted and the request is queued again at once.
FinishReconcile ==
  /\ rec.pc = "sent"
  /\ rec' = Idle
  /\ \/ /\ NoFault
        /\ conditions' = [c \in Checks |-> [rec.conditions[c] EXCEPT !.since = Truncate(@)]]
        /\ summaries' = [n \in Notifications |->
                           [rec.summaries[n] EXCEPT !.lastSent.time = Truncate(@)]]
        /\ recorded' = [n \in Notifications |->
                          IF n \in rec.sent THEN told[n] ELSE recorded[n]]
        /\ failingFrom' = IF Failing(rec.conditions) = {} THEN Never
                          ELSE IF failingFrom = Never THEN rec.at
                          ELSE failingFrom
        /\ timer' = IF RequeueAfter > 0 THEN Earlier(timer, now + RequeueAfter) ELSE timer
        /\ UNCHANGED queued
     \/ /\ Fault("close")
        /\ queued' = TRUE
        /\ UNCHANGED <<conditions, summaries, recorded, failingFrom, timer>>
  /\ UNCHANGED <<now, health, told>>

-----------------------------------------------------------------------------
(* The environment. *)

\* A report (or ClusterSummary) changes, which queues a reconcile.
HealthChanges(c) ==
  /\ \E m \in (Messages \cup {Healthy}) \ {health[c]} : health' = [health EXCEPT ![c] = m]
  /\ queued' = TRUE
  /\ UNCHANGED <<now, conditions, summaries, timer, rec, told, recorded, failingFrom, faults>>

\* A delayed request is due.
TimerFires ==
  /\ timer # Never /\ now >= timer
  /\ timer' = Never
  /\ queued' = TRUE
  /\ UNCHANGED <<now, health, conditions, summaries, rec, told, recorded, failingFrom, faults>>

\* Time passes, during a reconcile only if ClockRuns.
Tick ==
  /\ now < MaxTime
  /\ ClockRuns \/ rec.pc = "idle"
  /\ now' = now + 1
  /\ UNCHANGED <<health, conditions, summaries, queued, timer, rec, told,
                 recorded, failingFrom, faults>>

\* The manager restarts: the reconcile in progress and the timer are lost,
\* and every ClusterHealthCheck is reconciled again.
Restart ==
  /\ Fault("restart")
  /\ rec' = Idle
  /\ queued' = TRUE
  /\ timer' = Never
  /\ UNCHANGED <<now, health, conditions, summaries, told, recorded, failingFrom>>

Next ==
  \/ EvaluateLivenessChecks \/ SendNotifications \/ FinishReconcile
  \/ \E c \in Checks : HealthChanges(c)
  \/ TimerFires \/ Tick \/ Restart

Spec == Init /\ [][Next]_vars

-----------------------------------------------------------------------------
(* Properties. *)

Deliveries == [time : Nat \cup {Never}, failing : BOOLEAN,
               messages : UNION {[S -> Messages] : S \in SUBSET Checks}]
Conditions == [status : {"Unknown", "True", "False"},
               message : Messages \cup {Healthy}, since : Nat \cup {Never}]
Summaries == [status : {"None", "Delivered", "FailedToDeliver"}, lastSent : Deliveries]

\* Conditions, summaries and the reconcile's local copies are well formed.
TypeOK ==
  /\ now \in 0 .. MaxTime
  /\ health \in [Checks -> Messages \cup {Healthy}]
  /\ conditions \in [Checks -> Conditions]
  /\ summaries \in [Notifications -> Summaries]
  /\ queued \in BOOLEAN
  /\ timer \in Nat \cup {Never}
  /\ rec \in [pc : {"idle", "evaluated", "sent"}, at : Nat \cup {Never},
              conditions : [Checks -> Conditions],
              changed : BOOLEAN, summaries : [Notifications -> Summaries],
              sent : SUBSET Notifications, failed : BOOLEAN]
  /\ told \in [Notifications -> Deliveries]
  /\ recorded \in [Notifications -> Deliveries]
  /\ failingFrom \in Nat \cup {Never}
  /\ faults \in 0 .. MaxFaults

\* The notifications a step delivers (sendNotification returned in it).
Delivered == rec'.sent \ rec.sent

\* Two deliveries are MinInterval apart, up to the second metav1.Time drops,
\* although a delivery that failed is retried without waiting
\* (evaluateNotificationPolicy) and whatever the faults in between.
MinIntervalRespected ==
  [][\A n \in Delivered :
       Policy[n].minInterval > 0 /\ WasSent(recorded[n])
         => now - recorded[n].time > Policy[n].minInterval - TicksPerSecond]_vars

\* When a notification first reports a failure, the cluster was found failing
\* for FailingFor (up to a second): now, and by every evaluation recorded in
\* that time.
ObservedSince == IF failingFrom = Never THEN rec.at ELSE failingFrom
FirstReport(n) == told'[n].failing /\ ~(WasSent(recorded[n]) /\ recorded[n].failing)
FailingForRespected ==
  [][\A n \in Delivered :
       Policy[n].failingFor > 0 /\ FirstReport(n)
         => now - ObservedSince > Policy[n].failingFor - TicksPerSecond]_vars

\* A recipient is not told again what the last recorded delivery said: calling
\* evaluateAndNotifyProvisionedClusters on every reconcile is safe.
NoRepeatedNotification ==
  [][\A n \in Delivered :
       WasSent(recorded[n]) /\ summaries[n].status = "Delivered"
         => /\ ~SameContent(told'[n], recorded[n])
            /\ (Policy[n].onlyOnTransition => told'[n].failing # recorded[n].failing)]_vars

\* What is recorded as delivered was delivered: LastSentTime, LastSentFailing
\* and LastSentMessageHash of a notification with a policy are those of its
\* last recorded delivery, and one without a policy marked Delivered has
\* delivered the recorded conditions.
DeliveryRecordIsTrue ==
  \A n \in Notifications :
    IF HasPolicy(n)
    THEN summaries[n].lastSent = [recorded[n] EXCEPT !.time = Truncate(@)]
    ELSE summaries[n].status = "Delivered" =>
           WasSent(recorded[n]) /\ SameContent(recorded[n], ClusterState(conditions))

\* What the reports say now, and what a recipient should know of it.
CurrentState == ClusterState([c \in Checks |-> [NoCondition EXCEPT
                  !.status = ConditionStatus(c),
                  !.message = health[c]]])
Informed(n) ==
  IF HasPolicy(n)
  THEN ~HasDifferenceToReport(Policy[n], [NoSummary EXCEPT !.lastSent = told[n]], CurrentState)
  ELSE WasSent(told[n]) /\ SameContent(told[n], CurrentState)

\* When nothing is left to run, neither a queued reconcile nor a delayed one,
\* every recipient has been told: a notification held back by its policy is
\* never forgotten ("reconcile again when the policy allows it to be
\* delivered", clusterhealthcheck_controller.go:293-294).
NothingForgotten ==
  rec.pc = "idle" /\ ~queued /\ timer = Never => \A n \in Notifications : Informed(n)

=============================================================================
