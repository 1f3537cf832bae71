---------------------- MODULE NotificationDeliveryProofs ----------------------
(***************************************************************************)
(* Proofs about NotificationDelivery, for every set of checks, messages    *)
(* and notifications, every policy, clock resolution and set of faults.    *)
(*                                                                         *)
(* A policy decides on what was persisted: times truncated to seconds, the *)
(* state a recipient was last told, whether the delivery succeeded.  The   *)
(* invariant relates each of them to what really happened, in the status   *)
(* and in the copy of the reconcile in progress, which is persisted as a   *)
(* whole or not at all.                                                    *)
(***************************************************************************)
EXTENDS NotificationDelivery, TLAPS, WellFoundedInduction

-----------------------------------------------------------------------------
(* Time: seconds kept by the API server, and shortest waits. *)

\* A second that truncation removes is less than TicksPerSecond long.
LEMMA TruncateBounds ==
  ASSUME NEW t \in Nat
  PROVE  /\ Truncate(t) \in Nat
         /\ Truncate(t) <= t
         /\ t - TicksPerSecond < Truncate(t)
<1>1. t % TicksPerSecond \in 0 .. (TicksPerSecond - 1) /\ t % TicksPerSecond <= t
  BY NotificationAssumption
<1>2. Truncate(t) = t - (t % TicksPerSecond)
  BY DEF Truncate, Never
<1> QED BY <1>1, <1>2, NotificationAssumption

\* A truncated time is a whole number of seconds.
LEMMA WholeSeconds ==
  ASSUME NEW t \in Nat
  PROVE  Truncate(t) = TicksPerSecond * (t \div TicksPerSecond)
<1>1. t = TicksPerSecond * (t \div TicksPerSecond) + (t % TicksPerSecond)
  BY NotificationAssumption
<1>2. t \div TicksPerSecond \in Nat /\ t % TicksPerSecond \in Nat
  BY NotificationAssumption
<1>3. TicksPerSecond * (t \div TicksPerSecond) \in Nat
  BY <1>2, NotificationAssumption
<1> QED BY <1>1, <1>2, <1>3 DEF Truncate, Never

\* Truncating keeps what is not before a truncated time there.
LEMMA TruncateKeepsOrder ==
  ASSUME NEW s \in Nat, NEW t \in Nat, Truncate(t) <= s
  PROVE  Truncate(t) <= Truncate(s)
<1> DEFINE d == TicksPerSecond
           q == t \div d
           p == s \div d
<1>1. d \in Nat /\ d > 0 /\ q \in Nat /\ p \in Nat
  BY NotificationAssumption
<1>2. Truncate(t) = d * q /\ Truncate(s) = d * p
  BY WholeSeconds
<1>3. s - d < Truncate(s)
  BY TruncateBounds
<1>4. d * q < d * p + d
  BY <1>1, <1>2, <1>3, TruncateBounds
<1> HIDE DEF d, q, p
<1>5. d * p + d = d * (p + 1)
  BY <1>1
<1>6. q <= p
  <2>1. SUFFICES ASSUME q >= p + 1 PROVE FALSE
    BY <1>1
  <2>2. PICK e \in Nat : q = (p + 1) + e
    <3>1. q - (p + 1) \in Nat /\ q = (p + 1) + (q - (p + 1))
      BY <1>1, <2>1
    <3> QED BY <3>1
  <2>3. d * q = d * (p + 1) + d * e
    BY <1>1, <2>2
  <2>4. d * e \in Nat /\ d * (p + 1) \in Nat
    BY <1>1, <2>2
  <2> QED BY <1>4, <1>5, <2>3, <2>4
<1>7. PICK e \in Nat : p = q + e
  <2>1. p - q \in Nat /\ p = q + (p - q)
    BY <1>1, <1>6
  <2> QED BY <2>1
<1>8. d * p = d * q + d * e /\ d * e \in Nat /\ d * q \in Nat
  BY <1>1, <1>7
<1> QED BY <1>2, <1>8

\* Truncating is idempotent and keeps the order of two times.
LEMMA TruncateAgain ==
  ASSUME NEW t \in Nat \cup {Never}
  PROVE  Truncate(Truncate(t)) = Truncate(t)
<1>1. CASE t = Never
  BY <1>1 DEF Truncate
<1>2. CASE t \in Nat
  <2>1. Truncate(t) \in Nat /\ Truncate(t) <= Truncate(Truncate(t))
    BY <1>2, TruncateBounds, TruncateKeepsOrder
  <2>2. Truncate(Truncate(t)) <= Truncate(t) /\ Truncate(Truncate(t)) \in Nat
    BY <2>1, TruncateBounds
  <2> QED BY <2>1, <2>2
<1> QED BY <1>1, <1>2

\* Truncation keeps the time that stands for never, and no other becomes it.
LEMMA TruncateType ==
  ASSUME NEW t \in Nat \cup {Never}
  PROVE  /\ Truncate(t) \in Nat \cup {Never}
         /\ Truncate(t) = Never <=> t = Never
<1>1. CASE t = Never
  BY <1>1 DEF Truncate
<1>2. CASE t \in Nat
  BY <1>2, TruncateBounds DEF Never
<1> QED BY <1>1, <1>2

\* A set of times that is not empty has a first one.
LEMMA FirstOfTimes ==
  ASSUME NEW S \in SUBSET Nat, S # {}
  PROVE  \E m \in S : \A x \in S : m <= x
<1> DEFINE Less == {p \in Nat \X Nat : p[1] < p[2]}
<1>1. OpToRel(<, Nat) = Less
  BY Zenon DEF OpToRel
<1>2. IsWellFoundedOn(Less, Nat)
  BY Zenon, <1>1, NatLessThanWellFounded
<1>3. PICK m \in S : \A x \in S : ~ (<<x, m>> \in Less)
  BY Zenon, <1>2, WFMin
<1>4. ASSUME NEW x \in S PROVE m <= x
  <2>1. ~ (<<x, m>> \in Less)
    BY <1>3, <1>4
  <2>2. x \in Nat /\ m \in Nat
    BY <1>4
  <2>3. ~ (x < m)
    BY Zenon, <2>1, <2>2
  <2> QED BY <2>2, <2>3
<1> QED BY <1>4

-----------------------------------------------------------------------------
(* The inductive invariant. *)

\* What a cluster state says, without its time.
MessagesOf(conds) == [c \in Failing(conds) |-> conds[c].message]

\* Two evaluations that say the same of every check.
SaysTheSame(conds, others) ==
  \A c \in Checks : /\ conds[c].status = others[c].status
                    /\ conds[c].status = "False" => conds[c].message = others[c].message

\* A failing check has a failure message and a transition time.
FailuresInv(conds) ==
  \A c \in Checks : conds[c].status = "False" =>
                      conds[c].message \in Messages /\ conds[c].since \in Nat

\* The persisted transition times of failing checks are not before the
\* evaluation that first found the cluster failing, and neither are the ones
\* the reconcile in progress is about to use.
SinceInv ==
  /\ failingFrom <= now
  /\ \A c \in Checks : conditions[c].status = "False" =>
       failingFrom \in Nat /\ conditions[c].since >= Truncate(failingFrom)
  /\ rec.pc # "idle" =>
       /\ rec.at \in Nat /\ rec.at <= now /\ failingFrom <= rec.at
       /\ \A c \in Checks : rec.conditions[c].status = "False" =>
            rec.conditions[c].since >= Truncate(ObservedSince)

\* The reconcile in progress noticed every difference with what is persisted.
ChangedInv ==
  rec.pc # "idle" =>
    /\ \A c \in Checks : rec.conditions[c].status # "Unknown"
    /\ rec.changed <=> ~SaysTheSame(rec.conditions, conditions)

\* LastSentTime is not before the last recorded delivery, and a delivery that
\* failed had waited for MinInterval.
IntervalKept(n, summary) ==
  /\ WasSent(recorded[n]) =>
       /\ WasSent(summary.lastSent)
       /\ summary.lastSent.time >= Truncate(recorded[n].time)
  /\ (/\ summary.status = "FailedToDeliver"
      /\ WasSent(summary.lastSent)
      /\ Policy[n].minInterval > 0) =>
       now - summary.lastSent.time >= Policy[n].minInterval

IntervalInv ==
  \A n \in Notifications : HasPolicy(n) =>
    /\ recorded[n].time <= now
    /\ IntervalKept(n, summaries[n])
    /\ rec.pc = "sent" => IntervalKept(n, rec.summaries[n])

\* A delivery of the reconcile in progress says what it evaluated.
SentInv ==
  rec.pc = "sent" =>
    \A n \in rec.sent :
      /\ told[n].time \in Nat /\ told[n].time <= now
      /\ SameContent(told[n], ClusterState(rec.conditions))
      /\ HasPolicy(n) => rec.summaries[n].lastSent = told[n]

\* What the summaries a reconcile is about to persist say when it delivered
\* nothing (recipients whose errors are reported).
UnsentInv ==
  rec.pc = "sent" =>
    \A n \in Notifications \ (rec.sent \cup Teams) :
      /\ HasPolicy(n) => rec.summaries[n].lastSent = summaries[n].lastSent
      /\ ~HasPolicy(n) /\ rec.summaries[n].status = "Delivered" =>
           ~rec.changed /\ summaries[n].status = "Delivered"

\* DeliveryRecordIsTrue for one notification, with what makes it inductive:
\* conditions persisted with a delivery are no longer Unknown.
TrueRecord(n) ==
  IF HasPolicy(n)
  THEN summaries[n].lastSent = [recorded[n] EXCEPT !.time = Truncate(@)]
  ELSE summaries[n].status = "Delivered" =>
         WasSent(recorded[n]) /\ SameContent(recorded[n], ClusterState(conditions))

RecordInv ==
  /\ \A n \in Notifications \ Teams : TrueRecord(n)
  /\ \A n \in Notifications : summaries[n].status = "Delivered" =>
       \A c \in Checks : conditions[c].status # "Unknown"

IInv ==
  /\ TypeOK
  /\ FailuresInv(conditions) /\ FailuresInv(rec.conditions)
  /\ SinceInv
  /\ ChangedInv
  /\ IntervalInv
  /\ SentInv
  /\ UnsentInv
  /\ RecordInv

\* What no recipient is left without, for NothingForgotten: the deliveries are
\* recorded, the reconcile in progress has seen the reports unless another is
\* queued, and what it does not deliver has a time to wait.
QuietInv ==
  /\ \A n \in Notifications : rec.pc # "sent" \/ n \notin rec.sent => told[n] = recorded[n]
  /\ rec.pc # "idle" /\ ~queued =>
       \A c \in Checks : /\ rec.conditions[c].status = ConditionStatus(c)
                         /\ rec.conditions[c].message = health[c]
  /\ rec.pc = "sent" /\ ~rec.failed =>
       \A n \in Notifications :
         IF HasPolicy(n)
         THEN HasDifferenceToReport(Policy[n], rec.summaries[n], ClusterState(rec.conditions))
                => PolicyWait(Policy[n], rec.summaries[n], ClusterState(rec.conditions), now) > 0
         ELSE rec.summaries[n].status = "Delivered"
  /\ NothingForgotten

-----------------------------------------------------------------------------
(* Operators of the model. *)

\* getClusterState: whether the cluster is failing, and with which messages.
LEMMA ClusterStateFields ==
  ASSUME NEW conds
  PROVE  /\ ClusterState(conds).failing \in BOOLEAN
         /\ ClusterState(conds).failing <=> Failing(conds) # {}
         /\ ClusterState(conds).messages = MessagesOf(conds)
         /\ ClusterState(conds).failingSince =
              IF Failing(conds) = {} THEN Never ELSE FailingSince(conds)
  BY DEF ClusterState, MessagesOf

\* failingSince is the first transition of the failing checks.
LEMMA FailingSinceIsFirst ==
  ASSUME NEW conds \in [Checks -> Conditions], FailuresInv(conds), Failing(conds) # {}
  PROVE  /\ FailingSince(conds) \in Nat
         /\ \E c \in Failing(conds) : FailingSince(conds) = conds[c].since
<1> DEFINE S == {conds[c].since : c \in Failing(conds)}
<1>1. Failing(conds) \subseteq Checks /\ \A c \in Failing(conds) : conds[c].since \in Nat
  BY DEF Failing, FailuresInv
<1>2. S \in SUBSET Nat /\ S # {}
  BY <1>1
<1>3. PICK m \in S : \A x \in S : m <= x
  BY <1>2, FirstOfTimes
<1>4. \A c \in Failing(conds) : m <= conds[c].since
  BY <1>3
<1>5. FailingSince(conds) \in S
  BY <1>3, <1>4 DEF FailingSince
<1> QED BY <1>2, <1>5

\* A state evaluateNotificationPolicy is given has a time when it is failing.
LEMMA FailingSinceType ==
  ASSUME NEW conds \in [Checks -> Conditions], FailuresInv(conds)
  PROVE  ClusterState(conds).failingSince \in Nat \cup {Never}
<1>1. CASE Failing(conds) = {}
  BY <1>1, ClusterStateFields
<1>2. CASE Failing(conds) # {}
  BY <1>2, ClusterStateFields, FailingSinceIsFirst
<1> QED BY <1>1, <1>2

\* The messages of an evaluation are those of a delivery.
LEMMA MessagesType ==
  ASSUME NEW conds \in [Checks -> Conditions], FailuresInv(conds)
  PROVE  MessagesOf(conds) \in UNION {[S -> Messages] : S \in SUBSET Checks}
<1>1. Failing(conds) \in SUBSET Checks
  BY DEF Failing
<1>2. \A c \in Failing(conds) : conds[c].message \in Messages
  BY DEF Failing, FailuresInv
<1>3. MessagesOf(conds) \in [Failing(conds) -> Messages]
  BY <1>2 DEF MessagesOf
<1> QED BY <1>1, <1>3

\* What a delivery is told of an evaluation has the type of a delivery.
LEMMA DeliveryType ==
  ASSUME NEW conds \in [Checks -> Conditions], FailuresInv(conds), NEW t \in Nat
  PROVE  [time |-> t, failing |-> ClusterState(conds).failing,
          messages |-> ClusterState(conds).messages] \in Deliveries
  BY MessagesType, ClusterStateFields DEF Deliveries

\* The values nothing has been recorded in yet are of the types they stand in.
LEMMA ConstantTypes ==
  /\ NotSent \in Deliveries
  /\ NoSummary \in Summaries
  /\ NoCondition \in Conditions
<1>1. NoMessages \in [{} -> Messages] /\ {} \in SUBSET Checks
  BY DEF NoMessages
<1>2. NoMessages \in UNION {[S -> Messages] : S \in SUBSET Checks}
  BY <1>1
<1>3. NotSent \in Deliveries
  BY <1>2 DEF NotSent, Deliveries
<1>4. NoSummary \in Summaries
  BY <1>3 DEF NoSummary, Summaries
<1>5. NoCondition \in Conditions
  BY DEF NoCondition, Conditions, Healthy
<1> QED BY <1>3, <1>4, <1>5

\* The durations of a policy, and the fields of a summary.
LEMMA PolicyType ==
  ASSUME NEW n \in Notifications
  PROVE  /\ Policy[n] \in Policies
         /\ Policy[n].minInterval \in Nat
         /\ Policy[n].failingFor \in Nat
         /\ Policy[n].onlyOnTransition \in BOOLEAN
  BY NotificationAssumption DEF Policies

\* evaluateNotificationPolicy: a notification that is held back is given a
\* time to wait, and no other is.
LEMMA WaitIsPositive ==
  ASSUME NEW n \in Notifications, NEW summary \in Summaries,
         NEW conds \in [Checks -> Conditions], FailuresInv(conds), NEW t \in Nat
  PROVE  LET w == PolicyWait(Policy[n], summary, ClusterState(conds), t)
         IN /\ w \in Nat
            /\ w > 0 <=> /\ HasDifferenceToReport(Policy[n], summary, ClusterState(conds))
                         /\ ~PolicySends(Policy[n], summary, ClusterState(conds), t)
<1> DEFINE p == Policy[n]
           state == ClusterState(conds)
           last == summary.lastSent.time
<1>1. p.minInterval \in Nat /\ p.failingFor \in Nat
  BY PolicyType
<1>2. last \in Int /\ state.failingSince \in Int
  BY FailingSinceType DEF Summaries, Deliveries, Never
<1> HIDE DEF p, state, last
<1>3. CASE ~HasDifferenceToReport(p, summary, state)
  BY <1>3 DEF PolicyWait, PolicySends, p, state
<1>4. CASE HasDifferenceToReport(p, summary, state) /\ TooRecent(p, summary, state, t)
  <2>1. t - state.failingSince < p.failingFor
    BY <1>4 DEF TooRecent
  <2>2. p.failingFor - (t - state.failingSince) \in Nat \ {0}
    BY <1>1, <1>2, <2>1
  <2> QED BY <1>4, <2>2 DEF PolicyWait, PolicySends, p, state
<1>5. CASE /\ HasDifferenceToReport(p, summary, state) /\ ~TooRecent(p, summary, state, t)
           /\ TooSoon(p, summary, t)
  <2>1. t - last < p.minInterval
    BY <1>5 DEF TooSoon, last
  <2>2. p.minInterval - (t - last) \in Nat \ {0}
    BY <1>1, <1>2, <2>1
  <2> QED BY <1>5, <2>2 DEF PolicyWait, PolicySends, p, state, last
<1>6. CASE /\ HasDifferenceToReport(p, summary, state) /\ ~TooRecent(p, summary, state, t)
           /\ ~TooSoon(p, summary, t)
  BY <1>6 DEF PolicyWait, PolicySends, p, state
<1> QED BY <1>3, <1>4, <1>5, <1>6 DEF p, state

\* notificationRequeueAfter: positive when some notification is held back.
LEMMA RequeueAfterWaits ==
  ASSUME NEW conds \in [Checks -> Conditions], FailuresInv(conds),
         NEW sums \in [Notifications -> Summaries], NEW t \in Nat
  PROVE  /\ NotificationRequeueAfter(conds, sums, t) \in Nat
         /\ NotificationRequeueAfter(conds, sums, t) = 0 <=>
              \A n \in Notifications : HasPolicy(n) =>
                PolicyWait(Policy[n], sums[n], ClusterState(conds), t) = 0
<1> DEFINE W(n) == PolicyWait(Policy[n], sums[n], ClusterState(conds), t)
           S == Waits(conds, sums, t)
           r == NotificationRequeueAfter(conds, sums, t)
<1>1. \A n \in Notifications : W(n) \in Nat
  BY WaitIsPositive
<1> HIDE DEF W
<1>2. S = {W(n) : n \in {m \in Notifications : HasPolicy(m)}} \ {0}
  BY DEF Waits, W
<1>3. S \in SUBSET (Nat \ {0})
  BY <1>1, <1>2
<1>4. S = {} <=> \A n \in Notifications : HasPolicy(n) => W(n) = 0
  BY <1>2
<1>5. CASE S = {}
  <2>1. r = 0
    BY <1>5 DEF NotificationRequeueAfter
  <2> QED BY <1>4, <1>5, <2>1 DEF W
<1>6. CASE S # {}
  <2>1. \E m \in S : \A x \in S : m <= x
    BY <1>3, <1>6, FirstOfTimes
  <2>2. r = CHOOSE w \in S : \A x \in S : w <= x
    BY <1>6 DEF NotificationRequeueAfter
  <2>3. r \in S
    BY <2>1, <2>2
  <2>4. r \in Nat /\ r # 0
    BY <1>3, <2>3
  <2> QED BY <1>4, <1>6, <2>4 DEF W
<1> QED BY <1>5, <1>6

-----------------------------------------------------------------------------
(* What the steps of a reconcile do. *)

\* The reconcile's local state, and what an idle worker holds.
RecType == [pc : {"idle", "evaluated", "sent"}, at : Nat \cup {Never},
            conditions : [Checks -> Conditions],
            changed : BOOLEAN, summaries : [Notifications -> Summaries],
            sent : SUBSET Notifications, failed : BOOLEAN]

\* The local state of a reconciler that is not reconciling.
LEMMA IdleFacts ==
  /\ Idle \in RecType
  /\ Idle.pc = "idle" /\ Idle.sent = {}
  /\ \A c \in Checks : Idle.conditions[c].status = "Unknown"
<1>1. [c \in Checks |-> NoCondition] \in [Checks -> Conditions]
  BY ConstantTypes
<1>2. [n \in Notifications |-> NoSummary] \in [Notifications -> Summaries]
  BY ConstantTypes
<1>3. Idle \in RecType
  BY <1>1, <1>2 DEF Idle, RecType
<1>4. Idle.pc = "idle" /\ Idle.sent = {} /\ Idle.conditions = [c \in Checks |-> NoCondition]
  BY DEF Idle
<1>5. NoCondition.status = "Unknown"
  BY DEF NoCondition
<1> QED BY <1>3, <1>4, <1>5

\* An evaluation without a fault.
Evaluated ==
  /\ rec.pc = "idle"
  /\ rec' = [Idle EXCEPT !.pc = "evaluated", !.at = now,
                         !.conditions = [c \in Checks |-> EvaluateCheck(c)],
                         !.changed = \E c \in Checks : HasStatusChanged(c)]
  /\ queued' = FALSE
  /\ UNCHANGED <<now, health, conditions, summaries, timer, told, recorded, failingFrom, faults>>

\* What evaluateClusterHealthCheckForCluster leaves in the local copy.
LEMMA EvaluatedFacts ==
  ASSUME TypeOK, FailuresInv(conditions), Evaluated
  PROVE  /\ rec'.pc = "evaluated" /\ rec'.at = now /\ rec'.sent = {}
         /\ rec' \in RecType
         /\ FailuresInv(rec'.conditions)
         /\ \A c \in Checks :
              /\ rec'.conditions[c].status = ConditionStatus(c)
              /\ rec'.conditions[c].message = health[c]
              /\ rec'.conditions[c].since =
                   IF conditions[c].status = ConditionStatus(c)
                   THEN conditions[c].since ELSE now
         /\ rec'.changed <=> \E c \in Checks : HasStatusChanged(c)
<1> DEFINE E == [c \in Checks |-> EvaluateCheck(c)]
           changed == \E c \in Checks : HasStatusChanged(c)
<1>1. changed \in BOOLEAN
  OBVIOUS
<1>2. \A c \in Checks : /\ ConditionStatus(c) \in {"True", "False"}
                        /\ ConditionStatus(c) = "False" => health[c] \in Messages
                        /\ health[c] \in Messages \cup {Healthy}
  BY DEF TypeOK, ConditionStatus, Passing
<1>3. \A c \in Checks : /\ conditions[c].since \in Nat \cup {Never} /\ now \in Nat
                        /\ conditions[c].status = "False" => conditions[c].since \in Nat
  BY DEF TypeOK, Conditions, FailuresInv
<1>4. ASSUME NEW c \in Checks
      PROVE  /\ E[c] \in Conditions
             /\ E[c].status = ConditionStatus(c) /\ E[c].message = health[c]
             /\ E[c].since = IF conditions[c].status = ConditionStatus(c)
                             THEN conditions[c].since ELSE now
             /\ E[c].status = "False" => E[c].message \in Messages /\ E[c].since \in Nat
  <2>1. E[c] = EvaluateCheck(c)
    BY <1>4
  <2> DEFINE s == IF conditions[c].status = ConditionStatus(c)
                  THEN conditions[c].since ELSE now
  <2>2. /\ EvaluateCheck(c).status = ConditionStatus(c) /\ EvaluateCheck(c).message = health[c]
        /\ EvaluateCheck(c).since = s
    BY DEF EvaluateCheck
  <2>3. s \in Nat \cup {Never} /\ (ConditionStatus(c) = "False" => s \in Nat)
    BY <1>3, <1>4
  <2>4. EvaluateCheck(c) \in Conditions
    BY <1>2, <1>4, <2>3 DEF EvaluateCheck, Conditions
  <2> QED BY <1>2, <1>4, <2>1, <2>2, <2>3, <2>4
<1>5. E \in [Checks -> Conditions]
  BY <1>4
<1> HIDE DEF E, changed
<1>6. rec' = [Idle EXCEPT !.pc = "evaluated", !.at = now, !.conditions = E, !.changed = changed]
  BY DEF Evaluated, E, changed
<1>7. /\ rec'.pc = "evaluated" /\ rec'.at = now /\ rec'.sent = {} /\ rec'.conditions = E
      /\ rec' \in RecType
  <2>1. Idle \in RecType
    BY IdleFacts
  <2>2. now \in Nat
    BY DEF TypeOK
  <2>3. rec' \in RecType
    BY <1>1, <1>5, <1>6, <2>1, <2>2 DEF RecType
  <2>4. rec'.pc = "evaluated" /\ rec'.at = now /\ rec'.sent = Idle.sent /\ rec'.conditions = E
    BY <1>6, <2>1 DEF RecType
  <2> QED BY <2>3, <2>4, IdleFacts
<1>8. rec'.changed = changed
  BY <1>6, IdleFacts DEF RecType
<1>9. FailuresInv(rec'.conditions)
  BY <1>4, <1>7 DEF FailuresInv
<1> QED BY <1>4, <1>7, <1>8, <1>9 DEF changed

\* What the recipients of a reconcile are told.
NewDelivery == [time |-> now, failing |-> ClusterState(rec.conditions).failing,
                messages |-> ClusterState(rec.conditions).messages]

\* Attempting the deliveries, of which the ones in lost do not arrive.
Sent(lost) ==
  /\ rec.pc = "evaluated"
  /\ lost \in SUBSET ToSend
  /\ IF lost = {} THEN NoFault ELSE Fault("delivery")
  /\ rec' = [rec EXCEPT
       !.pc = "sent",
       !.summaries = [n \in Notifications |->
                        NewSummary(n, NewDelivery, {m \in lost : ReportsError(m)})],
       !.sent = ToSend \ lost,
       !.failed = {m \in lost : ReportsError(m)} # {}]
  /\ told' = [n \in Notifications |-> IF n \in ToSend \ lost THEN NewDelivery ELSE told[n]]
  /\ UNCHANGED <<now, health, conditions, summaries, queued, timer, recorded, failingFrom>>

\* sendNotifications loses some of the deliveries it attempts, and has the
\* effect the lemmas below are about.
LEMMA SendIsSent ==
  ASSUME SendNotifications
  PROVE  \E lost \in SUBSET ToSend : Sent(lost)
<1>1. PICK lost \in SUBSET ToSend :
        /\ IF lost = {} THEN NoFault ELSE Fault("delivery")
        /\ rec' = [rec EXCEPT
             !.pc = "sent",
             !.summaries = [n \in Notifications |->
                              NewSummary(n, NewDelivery, {m \in lost : ReportsError(m)})],
             !.sent = ToSend \ lost,
             !.failed = {m \in lost : ReportsError(m)} # {}]
        /\ told' = [n \in Notifications |->
                      IF n \in ToSend \ lost THEN NewDelivery ELSE told[n]]
  BY DEF SendNotifications, NewDelivery
<1> QED BY <1>1 DEF SendNotifications, Sent

\* processNotification and processNotificationWithPolicy, case by case.
LEMMA NewSummaryFacts ==
  ASSUME TypeOK, FailuresInv(rec.conditions), NEW n \in Notifications, NEW failed
  PROVE  LET s == NewSummary(n, NewDelivery, failed)
         IN /\ s \in Summaries
            /\ n \notin ToSend =>
                 /\ s.lastSent = summaries[n].lastSent
                 /\ s.status = IF summaries[n].status = "None" THEN "Delivered"
                               ELSE summaries[n].status
            /\ n \in ToSend /\ n \in failed =>
                 s.lastSent = summaries[n].lastSent /\ s.status = "FailedToDeliver"
            /\ n \in ToSend /\ n \notin failed =>
                 /\ s.status = "Delivered"
                 /\ HasPolicy(n) => s.lastSent = NewDelivery
<1>1. summaries[n] \in Summaries
  BY DEF TypeOK
<1>2. NewDelivery \in Deliveries
  BY DeliveryType DEF TypeOK, NewDelivery
<1>3. NotSent \in Deliveries
  BY ConstantTypes
<1>4. CASE n \notin ToSend
  <2> DEFINE st == IF summaries[n].status = "None" THEN "Delivered" ELSE summaries[n].status
  <2>1. NewSummary(n, NewDelivery, failed) = [summaries[n] EXCEPT !.status = st]
    BY <1>1, <1>4 DEF NewSummary, Summaries
  <2>2. st \in {"None", "Delivered", "FailedToDeliver"}
    BY <1>1 DEF Summaries
  <2> QED BY <1>1, <1>4, <2>1, <2>2 DEF Summaries
<1>5. CASE n \in ToSend /\ n \in failed
  BY <1>1, <1>5 DEF NewSummary, Summaries
<1>6. CASE n \in ToSend /\ n \notin failed
  BY <1>2, <1>3, <1>6 DEF NewSummary, Summaries
<1> QED BY <1>4, <1>5, <1>6

\* What sendNotifications leaves in the local copy.
LEMMA SentFacts ==
  ASSUME TypeOK, FailuresInv(rec.conditions), NEW lost \in SUBSET ToSend, Sent(lost)
  PROVE  /\ rec'.pc = "sent" /\ rec'.at = rec.at /\ rec'.conditions = rec.conditions
         /\ rec'.sent = ToSend \ lost
         /\ rec'.changed <=> rec.changed
         /\ rec'.failed <=> {m \in lost : ReportsError(m)} # {}
         /\ \A n \in Notifications :
              /\ rec'.summaries[n] = NewSummary(n, NewDelivery, {m \in lost : ReportsError(m)})
              /\ told'[n] = IF n \in ToSend \ lost THEN NewDelivery ELSE told[n]
         /\ rec' \in RecType
         /\ told' \in [Notifications -> Deliveries]
<1> DEFINE failed == {m \in lost : ReportsError(m)}
           sums == [n \in Notifications |-> NewSummary(n, NewDelivery, failed)]
           any == failed # {}
<1>1. any \in BOOLEAN
  OBVIOUS
<1>2. sums \in [Notifications -> Summaries]
  BY NewSummaryFacts
<1>3. rec \in RecType
  BY DEF TypeOK, RecType
<1>4. NewDelivery \in Deliveries
  BY DeliveryType DEF TypeOK, NewDelivery
<1>5. ToSend \subseteq Notifications
  BY DEF ToSend
<1>6. \A n \in Notifications : sums[n] = NewSummary(n, NewDelivery, failed)
  OBVIOUS
<1> HIDE DEF failed, sums, any
<1>7. rec' = [rec EXCEPT !.pc = "sent", !.summaries = sums, !.sent = ToSend \ lost, !.failed = any]
  BY DEF Sent, failed, sums, any
<1>8. /\ rec'.pc = "sent" /\ rec'.at = rec.at /\ rec'.conditions = rec.conditions
      /\ rec'.sent = ToSend \ lost /\ rec'.summaries = sums
      /\ rec' \in RecType
  BY <1>1, <1>2, <1>3, <1>5, <1>7 DEF RecType
<1>9. rec'.changed = rec.changed /\ rec'.failed = any
  BY <1>3, <1>7 DEF RecType
<1>10. told' = [n \in Notifications |-> IF n \in ToSend \ lost THEN NewDelivery ELSE told[n]]
  BY DEF Sent
<1>11. told' \in [Notifications -> Deliveries]
  BY <1>4, <1>10 DEF TypeOK
<1>12. \A n \in Notifications :
         /\ rec'.summaries[n] = NewSummary(n, NewDelivery, failed)
         /\ told'[n] = IF n \in ToSend \ lost THEN NewDelivery ELSE told[n]
  BY <1>6, <1>8, <1>10
<1> QED BY <1>8, <1>9, <1>11, <1>12 DEF failed, any

\* A reconcile that ends with its results persisted.
Finished ==
  /\ rec.pc = "sent" /\ rec' = Idle
  /\ NoFault
  /\ conditions' = [c \in Checks |-> [rec.conditions[c] EXCEPT !.since = Truncate(@)]]
  /\ summaries' = [n \in Notifications |->
                     [rec.summaries[n] EXCEPT !.lastSent.time = Truncate(@)]]
  /\ recorded' = [n \in Notifications |-> IF n \in rec.sent THEN told[n] ELSE recorded[n]]
  /\ failingFrom' = IF Failing(rec.conditions) = {} THEN Never
                    ELSE IF failingFrom = Never THEN rec.at
                    ELSE failingFrom
  /\ timer' = IF RequeueAfter > 0 THEN Earlier(timer, now + RequeueAfter) ELSE timer
  /\ UNCHANGED <<now, health, queued, told>>

\* What is persisted of a summary and of a condition.
LEMMA PersistedSummary ==
  ASSUME NEW s \in Summaries
  PROVE  LET t == [s EXCEPT !.lastSent.time = Truncate(@)]
         IN /\ t \in Summaries /\ t.status = s.status
            /\ t.lastSent = [s.lastSent EXCEPT !.time = Truncate(@)]
            /\ t.lastSent.time = Truncate(s.lastSent.time)
            /\ t.lastSent.failing = s.lastSent.failing
            /\ t.lastSent.messages = s.lastSent.messages
<1> DEFINE u == Truncate(s.lastSent.time)
           d == [s.lastSent EXCEPT !.time = u]
           t == [s EXCEPT !.lastSent.time = Truncate(@)]
<1>1. s.lastSent \in Deliveries
  BY DEF Summaries
<1>2. u \in Nat \cup {Never}
  BY <1>1, TruncateType DEF Deliveries
<1>3. t = [s EXCEPT !.lastSent = d]
  BY Zenon
<1>4. d = [s.lastSent EXCEPT !.time = Truncate(@)]
  BY Zenon
<1> HIDE DEF u, t
<1>5. d \in Deliveries /\ d.time = u
  BY <1>1, <1>2 DEF Deliveries
<1>6. d.failing = s.lastSent.failing /\ d.messages = s.lastSent.messages
  BY <1>1 DEF Deliveries
<1> HIDE DEF d
<1>7. t.status = s.status /\ t.lastSent = d
  BY <1>3 DEF Summaries
<1>8. t \in Summaries
  BY <1>3, <1>5 DEF Summaries
<1> QED BY <1>4, <1>5, <1>6, <1>7, <1>8 DEF t, u

\* A condition comes back from the API server with its time truncated only.
LEMMA PersistedCondition ==
  ASSUME NEW s \in Conditions
  PROVE  LET t == [s EXCEPT !.since = Truncate(@)]
         IN /\ t \in Conditions /\ t.status = s.status /\ t.message = s.message
            /\ t.since = Truncate(s.since)
<1> DEFINE u == Truncate(s.since)
           t == [s EXCEPT !.since = Truncate(@)]
<1>1. u \in Nat \cup {Never}
  BY TruncateType DEF Conditions
<1>2. t = [s EXCEPT !.since = u]
  BY Zenon
<1> HIDE DEF u, t
<1>3. t \in Conditions /\ t.status = s.status /\ t.message = s.message /\ t.since = u
  BY <1>1, <1>2 DEF Conditions
<1> QED BY <1>3 DEF t, u

\* The status scope.Close persists, and the request it leaves.
LEMMA FinishedFacts ==
  ASSUME TypeOK, FailuresInv(rec.conditions), Finished
  PROVE  /\ conditions' \in [Checks -> Conditions]
         /\ \A c \in Checks :
              /\ conditions'[c].status = rec.conditions[c].status
              /\ conditions'[c].message = rec.conditions[c].message
              /\ conditions'[c].since = Truncate(rec.conditions[c].since)
         /\ FailuresInv(conditions')
         /\ summaries' \in [Notifications -> Summaries]
         /\ \A n \in Notifications :
              /\ summaries'[n].status = rec.summaries[n].status
              /\ summaries'[n].lastSent = [rec.summaries[n].lastSent EXCEPT !.time = Truncate(@)]
              /\ summaries'[n].lastSent.time = Truncate(rec.summaries[n].lastSent.time)
         /\ recorded' \in [Notifications -> Deliveries]
         /\ \A n \in Notifications :
              recorded'[n] = IF n \in rec.sent THEN told[n] ELSE recorded[n]
         /\ RequeueAfter \in Nat
         /\ timer' \in Nat \cup {Never}
         /\ timer' = Never => timer = Never /\ RequeueAfter = 0
<1>1. rec.conditions \in [Checks -> Conditions] /\ rec.summaries \in [Notifications -> Summaries]
  BY DEF TypeOK
<1>2. ASSUME NEW c \in Checks
      PROVE  /\ conditions'[c] \in Conditions
             /\ conditions'[c].status = rec.conditions[c].status
             /\ conditions'[c].message = rec.conditions[c].message
             /\ conditions'[c].since = Truncate(rec.conditions[c].since)
  <2>1. rec.conditions[c] \in Conditions
    BY <1>1, <1>2
  <2>2. conditions'[c] = [rec.conditions[c] EXCEPT !.since = Truncate(@)]
    BY <1>2 DEF Finished
  <2> QED BY Zenon, <2>1, <2>2, PersistedCondition
<1>3. conditions' \in [Checks -> Conditions]
  BY <1>2 DEF Finished
<1>4. FailuresInv(conditions')
  <2>1. ASSUME NEW c \in Checks, rec.conditions[c].since \in Nat
        PROVE  Truncate(rec.conditions[c].since) \in Nat
    BY <2>1, TruncateBounds
  <2> QED BY <1>2, <2>1 DEF FailuresInv
<1>5. ASSUME NEW n \in Notifications
      PROVE  /\ summaries'[n] \in Summaries
             /\ summaries'[n].status = rec.summaries[n].status
             /\ summaries'[n].lastSent = [rec.summaries[n].lastSent EXCEPT !.time = Truncate(@)]
             /\ summaries'[n].lastSent.time = Truncate(rec.summaries[n].lastSent.time)
  <2>1. rec.summaries[n] \in Summaries
    BY <1>1, <1>5
  <2>2. summaries'[n] = [rec.summaries[n] EXCEPT !.lastSent.time = Truncate(@)]
    BY Zenon, <1>5 DEF Finished
  <2> QED BY Zenon, <2>1, <2>2, PersistedSummary
<1>6. summaries' \in [Notifications -> Summaries]
  <2>1. DOMAIN summaries' = Notifications /\ summaries' = [n \in DOMAIN summaries' |-> summaries'[n]]
    BY Zenon DEF Finished
  <2>2. \A n \in Notifications : summaries'[n] \in Summaries
    BY <1>5
  <2> QED BY Zenon, <2>1, <2>2
<1>7. recorded' \in [Notifications -> Deliveries]
  BY DEF Finished, TypeOK
<1>8. \A n \in Notifications : recorded'[n] = IF n \in rec.sent THEN told[n] ELSE recorded[n]
  BY DEF Finished
<1>9. now \in Nat /\ timer \in Nat \cup {Never} /\ RetryAfter \in Nat
  BY NotificationAssumption DEF TypeOK
<1>10. RequeueAfter \in Nat
  BY <1>1, <1>9, RequeueAfterWaits DEF RequeueAfter
<1>11. timer' = IF RequeueAfter > 0 THEN Earlier(timer, now + RequeueAfter) ELSE timer
  BY DEF Finished
<1>12. timer' \in Nat \cup {Never} /\ (timer' = Never => timer = Never /\ RequeueAfter = 0)
  BY <1>9, <1>10, <1>11 DEF Earlier, Never
<1> QED BY <1>2, <1>3, <1>4, <1>5, <1>6, <1>7, <1>8, <1>10, <1>12

\* Every other step: the reconcile is left alone or dropped, and nothing that
\* was persisted or delivered changes.
Elsewhere ==
  /\ rec' = rec \/ rec' = Idle
  /\ now' = now \/ (now' = now + 1 /\ now < MaxTime /\ (ClockRuns \/ rec.pc = "idle"))
  /\ UNCHANGED <<conditions, summaries, told, recorded, failingFrom>>

\* A step evaluates the checks, sends, ends a reconcile, or is none of the
\* reconciler's.
LEMMA NextCases ==
  ASSUME [Next]_vars
  PROVE  \/ Evaluated
         \/ \E lost \in SUBSET ToSend : Sent(lost)
         \/ Finished
         \/ Elsewhere
<1>1. CASE EvaluateLivenessChecks
  BY <1>1 DEF EvaluateLivenessChecks, Evaluated, Elsewhere, NoFault
<1>2. CASE SendNotifications
  BY <1>2, SendIsSent
<1>3. CASE FinishReconcile
  <2>1. CASE Fault("close") /\ UNCHANGED <<conditions, summaries, recorded, failingFrom, timer>>
    BY <1>3, <2>1 DEF FinishReconcile, Elsewhere
  <2>2. CASE ~(Fault("close") /\ UNCHANGED <<conditions, summaries, recorded, failingFrom, timer>>)
    BY Zenon, <1>3, <2>2 DEF FinishReconcile, Finished
  <2> QED BY <2>1, <2>2
<1>4. CASE \E c \in Checks : HealthChanges(c)
  BY <1>4 DEF HealthChanges, Elsewhere
<1>5. CASE TimerFires
  BY <1>5 DEF TimerFires, Elsewhere
<1>6. CASE Tick
  BY <1>6 DEF Tick, Elsewhere
<1>7. CASE Restart
  BY <1>7 DEF Restart, Elsewhere
<1>8. CASE UNCHANGED vars
  BY <1>8 DEF vars, Elsewhere
<1> QED BY <1>1, <1>2, <1>3, <1>4, <1>5, <1>6, <1>7, <1>8 DEF Next

-----------------------------------------------------------------------------
(* The invariant, conjunct by conjunct. *)

Typed == TypeOK /\ FailuresInv(conditions) /\ FailuresInv(rec.conditions)

\* The initial states are well formed.
LEMMA TypedInit == Init => Typed
<1> SUFFICES ASSUME Init PROVE Typed
  OBVIOUS
<1>1. conditions \in [Checks -> Conditions] /\ summaries \in [Notifications -> Summaries]
  BY ConstantTypes DEF Init
<1>2. told \in [Notifications -> Deliveries] /\ recorded \in [Notifications -> Deliveries]
  BY ConstantTypes DEF Init
<1>3. rec \in RecType
  BY IdleFacts DEF Init
<1>4. \A c \in Checks : conditions[c].status = "Unknown" /\ rec.conditions[c].status = "Unknown"
  BY IdleFacts DEF Init, NoCondition
<1>5. TypeOK
  BY <1>1, <1>2, <1>3, NotificationAssumption DEF Init, TypeOK, RecType
<1> QED BY <1>4, <1>5 DEF Typed, FailuresInv

\* A fault keeps their number within the bound.
LEMMA FaultsType ==
  ASSUME TypeOK, [Next]_vars
  PROVE  faults' \in 0 .. MaxFaults
<1>1. faults \in 0 .. MaxFaults /\ MaxFaults \in Nat
  BY NotificationAssumption DEF TypeOK
<1>2. faults' = faults \/ (faults < MaxFaults /\ faults' = faults + 1)
  <2>1. CASE EvaluateLivenessChecks
    BY <2>1 DEF EvaluateLivenessChecks, Fault, NoFault
  <2>2. CASE SendNotifications
    <3>1. PICK lost \in SUBSET ToSend : Sent(lost)
      BY <2>2, SendIsSent
    <3>2. NoFault \/ Fault("delivery")
      BY <3>1 DEF Sent
    <3> QED BY <3>2 DEF Fault, NoFault
  <2>3. CASE FinishReconcile
    <3>1. NoFault \/ Fault("close")
      BY Zenon, <2>3 DEF FinishReconcile
    <3> QED BY <3>1 DEF Fault, NoFault
  <2>4. CASE Restart
    BY <2>4 DEF Restart, Fault
  <2>5. CASE (\E c \in Checks : HealthChanges(c)) \/ TimerFires \/ Tick \/ UNCHANGED vars
    BY <2>5 DEF HealthChanges, TimerFires, Tick, vars
  <2> QED BY <2>1, <2>2, <2>3, <2>4, <2>5 DEF Next
<1> QED BY <1>1, <1>2

\* The reports, the queue and the timer.
LEMMA EnvironmentType ==
  ASSUME Typed, [Next]_vars
  PROVE  /\ health' \in [Checks -> Messages \cup {Healthy}]
         /\ queued' \in BOOLEAN
         /\ timer' \in Nat \cup {Never}
<1>1. /\ health \in [Checks -> Messages \cup {Healthy}] /\ queued \in BOOLEAN
      /\ timer \in Nat \cup {Never} /\ now \in Nat /\ RetryAfter \in Nat
  BY NotificationAssumption DEF Typed, TypeOK
<1>2. CASE EvaluateLivenessChecks
  <2>1. /\ health' = health /\ queued' = FALSE
        /\ timer' = timer \/ timer' = Earlier(timer, now + RetryAfter)
    BY Zenon, <1>2 DEF EvaluateLivenessChecks
  <2>2. Earlier(timer, now + RetryAfter) \in Nat \cup {Never}
    BY <1>1 DEF Earlier, Never
  <2> QED BY <1>1, <2>1, <2>2
<1>3. CASE SendNotifications
  BY <1>1, <1>3 DEF SendNotifications
<1>4. CASE FinishReconcile
  <2>1. CASE Finished
    BY <1>1, <2>1, FinishedFacts DEF Finished, Typed
  <2>2. CASE ~Finished
    <3>1. queued' = TRUE /\ UNCHANGED <<health, timer>>
      BY Zenon, <1>4, <2>2 DEF FinishReconcile, Finished
    <3> QED BY <1>1, <3>1
  <2> QED BY <2>1, <2>2
<1>5. CASE \E c \in Checks : HealthChanges(c)
  BY <1>1, <1>5 DEF HealthChanges
<1>6. CASE TimerFires \/ Tick \/ Restart \/ UNCHANGED vars
  BY <1>1, <1>6 DEF TimerFires, Tick, Restart, vars
<1> QED BY <1>2, <1>3, <1>4, <1>5, <1>6 DEF Next

\* Every step keeps the state well formed and failures with their messages.
LEMMA TypedStep ==
  ASSUME Typed, [Next]_vars
  PROVE  Typed'
<1>1. /\ health' \in [Checks -> Messages \cup {Healthy}] /\ queued' \in BOOLEAN
      /\ timer' \in Nat \cup {Never} /\ faults' \in 0 .. MaxFaults
  BY EnvironmentType, FaultsType DEF Typed
<1>2. rec \in RecType /\ now \in 0 .. MaxTime /\ failingFrom \in Nat \cup {Never}
  BY DEF Typed, TypeOK, RecType
<1>3. SUFFICES /\ now' \in 0 .. MaxTime
               /\ conditions' \in [Checks -> Conditions]
               /\ summaries' \in [Notifications -> Summaries]
               /\ rec' \in RecType
               /\ told' \in [Notifications -> Deliveries]
               /\ recorded' \in [Notifications -> Deliveries]
               /\ failingFrom' \in Nat \cup {Never}
               /\ FailuresInv(conditions') /\ FailuresInv(rec'.conditions)
  BY <1>1 DEF Typed, TypeOK, RecType, FailuresInv
<1>4. CASE Evaluated
  BY <1>2, <1>4, EvaluatedFacts DEF Evaluated, Typed, TypeOK
<1>5. CASE \E lost \in SUBSET ToSend : Sent(lost)
  <2>1. PICK lost \in SUBSET ToSend : Sent(lost)
    BY <1>5
  <2> QED BY <1>2, <2>1, SentFacts DEF Sent, Typed, TypeOK
<1>6. CASE Finished
  <2>1. FailuresInv(rec'.conditions) /\ rec' \in RecType
    BY <1>6, IdleFacts DEF Finished, FailuresInv
  <2>2. failingFrom' \in Nat \cup {Never}
    BY <1>2, <1>6 DEF Finished, RecType
  <2> QED BY <1>2, <1>6, <2>1, <2>2, FinishedFacts DEF Finished, Typed, TypeOK
<1>7. CASE Elsewhere
  <2>1. FailuresInv(rec'.conditions) /\ rec' \in RecType
    <3>1. CASE rec' = rec
      BY <1>2, <3>1 DEF Typed
    <3>2. CASE rec' = Idle
      BY <3>2, IdleFacts DEF FailuresInv
    <3> QED BY <1>7, <3>1, <3>2 DEF Elsewhere
  <2>2. now' \in 0 .. MaxTime
    BY <1>2, <1>7, NotificationAssumption DEF Elsewhere
  <2> QED BY <1>7, <2>1, <2>2 DEF Elsewhere, Typed, TypeOK
<1> QED BY <1>4, <1>5, <1>6, <1>7, NextCases

\* Type correctness: conditions, summaries and the local copies stay well
\* formed, and the requeue time is a duration whatever the policies.
THEOREM TypeCorrect == Spec => []TypeOK
<1>1. Typed /\ [Next]_vars => Typed'
  BY TypedStep
<1>2. Typed => TypeOK
  BY DEF Typed
<1> QED BY <1>1, <1>2, TypedInit, PTL DEF Spec

\* No step moves a transition time before what was observed: an evaluation
\* starts from the persisted conditions and only a new failure gets a new time.
LEMMA SinceStep ==
  ASSUME Typed, SinceInv, [Next]_vars
  PROVE  SinceInv'
<1>1. /\ now \in Nat /\ failingFrom \in Nat \cup {Never} /\ rec.at \in Nat \cup {Never}
      /\ now' \in Nat /\ Never \in Int
  BY TypedStep DEF Typed, TypeOK, Never
<1>2. CASE Evaluated
  <2>1. /\ now' = now /\ failingFrom' = failingFrom /\ conditions' = conditions
        /\ rec'.pc = "evaluated" /\ rec'.at = now
    BY <1>2, EvaluatedFacts DEF Evaluated, Typed
  <2>2. ObservedSince' = IF failingFrom = Never THEN now ELSE failingFrom
    BY <2>1 DEF ObservedSince
  <2>3. ASSUME NEW c \in Checks, rec'.conditions[c].status = "False"
        PROVE  rec'.conditions[c].since >= Truncate(ObservedSince')
    <3>1. /\ ConditionStatus(c) = "False"
          /\ rec'.conditions[c].since = IF conditions[c].status = "False"
                                        THEN conditions[c].since ELSE now
      BY <1>2, <2>3, EvaluatedFacts DEF Typed
    <3>2. CASE conditions[c].status = "False"
      BY <1>1, <2>2, <2>3, <3>1, <3>2 DEF SinceInv, Never
    <3>3. CASE conditions[c].status # "False"
      <4>1. ObservedSince' \in Nat /\ ObservedSince' <= now
        BY <1>1, <2>2 DEF SinceInv
      <4>2. Truncate(ObservedSince') <= ObservedSince' /\ Truncate(ObservedSince') \in Nat
        BY <4>1, TruncateBounds
      <4> QED BY <1>1, <3>1, <3>3, <4>1, <4>2
    <3> QED BY <3>2, <3>3
  <2> QED BY <1>1, <2>1, <2>3 DEF SinceInv
<1>3. CASE \E lost \in SUBSET ToSend : Sent(lost)
  <2>1. PICK lost \in SUBSET ToSend : Sent(lost)
    BY <1>3
  <2>2. /\ now' = now /\ failingFrom' = failingFrom /\ conditions' = conditions
        /\ rec.pc = "evaluated"
    BY <2>1 DEF Sent
  <2>3. rec'.at = rec.at /\ rec'.conditions = rec.conditions
    BY <2>1, SentFacts DEF Typed
  <2>4. ObservedSince' = ObservedSince
    BY <2>2, <2>3 DEF ObservedSince
  <2> QED BY <2>2, <2>3, <2>4 DEF SinceInv
<1>4. CASE Finished
  <2>1. now' = now /\ rec'.pc = "idle"
    BY <1>4, IdleFacts DEF Finished
  <2>2. rec.at \in Nat /\ rec.at <= now /\ ObservedSince \in Nat /\ ObservedSince <= now
    BY <1>1, <1>4 DEF SinceInv, Finished, ObservedSince
  <2>3. failingFrom' = IF Failing(rec.conditions) = {} THEN Never ELSE ObservedSince
    BY <1>4 DEF Finished, ObservedSince
  <2>4. ASSUME NEW c \in Checks, conditions'[c].status = "False"
        PROVE  failingFrom' \in Nat /\ conditions'[c].since >= Truncate(failingFrom')
    <3>1. /\ rec.conditions[c].status = "False"
          /\ conditions'[c].since = Truncate(rec.conditions[c].since)
      BY <1>4, <2>4, FinishedFacts DEF Typed
    <3>2. DOMAIN rec.conditions = Checks
      BY DEF Typed, TypeOK
    <3>3. c \in Failing(rec.conditions)
      BY <2>4, <3>1, <3>2 DEF Failing
    <3>4. rec.conditions[c].since \in Nat
      BY <2>4, <3>1 DEF Typed, FailuresInv
    <3>5. Truncate(ObservedSince) <= rec.conditions[c].since
      <4>1. rec.conditions[c].since >= Truncate(ObservedSince)
        BY <1>4, <2>4, <3>1 DEF SinceInv, Finished
      <4>2. Truncate(ObservedSince) \in Nat
        BY <2>2, TruncateBounds
      <4> QED BY <3>4, <4>1, <4>2
    <3>6. Truncate(ObservedSince) <= Truncate(rec.conditions[c].since)
      BY <2>2, <3>4, <3>5, TruncateKeepsOrder
    <3>7. Truncate(ObservedSince) \in Nat /\ Truncate(rec.conditions[c].since) \in Nat
      BY <2>2, <3>4, TruncateBounds
    <3> QED BY <2>2, <2>3, <3>1, <3>3, <3>6, <3>7
  <2>5. failingFrom' <= now'
    BY <1>1, <2>1, <2>2, <2>3 DEF Never
  <2> QED BY <2>1, <2>4, <2>5 DEF SinceInv
<1>5. CASE Elsewhere
  <2>1. now <= now' /\ failingFrom' = failingFrom /\ conditions' = conditions
    BY <1>1, <1>5 DEF Elsewhere
  <2>2. CASE rec' = rec
    <3>1. ObservedSince' = ObservedSince
      BY <2>1, <2>2 DEF ObservedSince
    <3> QED BY <1>1, <2>1, <2>2, <3>1 DEF SinceInv
  <2>3. CASE rec' = Idle
    BY <1>1, <2>1, <2>3, IdleFacts DEF SinceInv
  <2> QED BY <1>5, <2>2, <2>3 DEF Elsewhere
<1> QED BY <1>2, <1>3, <1>4, <1>5, NextCases

\* Only an evaluation compares with what is persisted, and nothing else is
\* persisted until the reconcile ends.
LEMMA ChangedStep ==
  ASSUME Typed, ChangedInv, [Next]_vars
  PROVE  ChangedInv'
<1>1. CASE Evaluated
  <2>1. rec'.changed <=> \E c \in Checks : HasStatusChanged(c)
    BY <1>1, EvaluatedFacts DEF Typed
  <2>2. conditions' = conditions
    BY <1>1 DEF Evaluated
  <2>3. ASSUME NEW c \in Checks
        PROVE  /\ rec'.conditions[c].status # "Unknown"
               /\ HasStatusChanged(c) <=>
                    ~ /\ rec'.conditions[c].status = conditions[c].status
                      /\ rec'.conditions[c].status = "False" =>
                           rec'.conditions[c].message = conditions[c].message
    <3>1. rec'.conditions[c].status = ConditionStatus(c) /\ rec'.conditions[c].message = health[c]
      BY <1>1, <2>3, EvaluatedFacts DEF Typed
    <3> QED BY <3>1 DEF ConditionStatus, HasStatusChanged
  <2>4. SaysTheSame(rec'.conditions, conditions') <=> ~ \E c \in Checks : HasStatusChanged(c)
    BY <2>2, <2>3 DEF SaysTheSame
  <2> QED BY <2>1, <2>3, <2>4 DEF ChangedInv
<1>2. CASE \E lost \in SUBSET ToSend : Sent(lost)
  <2>1. PICK lost \in SUBSET ToSend : Sent(lost)
    BY <1>2
  <2>2. rec'.conditions = rec.conditions /\ (rec'.changed <=> rec.changed)
    BY <2>1, SentFacts DEF Typed
  <2>3. rec.pc = "evaluated" /\ conditions' = conditions
    BY <2>1 DEF Sent
  <2> QED BY <2>2, <2>3 DEF ChangedInv, SaysTheSame
<1>3. CASE Finished
  BY <1>3, IdleFacts DEF Finished, ChangedInv
<1>4. CASE Elsewhere
  <2>1. CASE rec' = rec
    BY <1>4, <2>1 DEF Elsewhere, ChangedInv, SaysTheSame
  <2>2. CASE rec' = Idle
    BY <2>2, IdleFacts DEF ChangedInv
  <2> QED BY <1>4, <2>1, <2>2 DEF Elsewhere
<1> QED BY <1>1, <1>2, <1>3, <1>4, NextCases

\* A delivery of this reconcile says what it evaluated, at the time it reads.
LEMMA NewDeliveryFacts ==
  /\ NewDelivery.time = now
  /\ SameContent(NewDelivery, ClusterState(rec.conditions))
  BY DEF NewDelivery, SameContent

\* A delivery is made with the conditions of its own reconcile.
LEMMA SentStep ==
  ASSUME Typed, SentInv, [Next]_vars
  PROVE  SentInv'
<1>1. CASE Evaluated
  BY <1>1, EvaluatedFacts DEF SentInv, Typed
<1>2. CASE \E lost \in SUBSET ToSend : Sent(lost)
  <2>1. PICK lost \in SUBSET ToSend : Sent(lost)
    BY <1>2
  <2> DEFINE failed == {m \in lost : ReportsError(m)}
  <2>2. now' = now /\ now \in Nat
    BY <2>1 DEF Sent, Typed, TypeOK
  <2>3. ToSend \subseteq Notifications
    BY DEF ToSend
  <2>4. ASSUME NEW n \in rec'.sent
        PROVE  /\ told'[n].time \in Nat /\ told'[n].time <= now'
               /\ SameContent(told'[n], ClusterState(rec'.conditions))
               /\ HasPolicy(n) => rec'.summaries[n].lastSent = told'[n]
    <3>1. n \in ToSend /\ n \notin lost /\ n \in Notifications
      BY <2>1, <2>3, <2>4, SentFacts DEF Typed
    <3>2. told'[n] = NewDelivery /\ rec'.conditions = rec.conditions
      BY <2>1, <3>1, SentFacts DEF Typed
    <3>3. rec'.summaries[n] = NewSummary(n, NewDelivery, failed)
      BY <2>1, <3>1, SentFacts DEF Typed
    <3>4. HasPolicy(n) => rec'.summaries[n].lastSent = NewDelivery
      <4>1. n \notin failed
        BY <3>1
      <4> HIDE DEF failed
      <4> QED BY <3>1, <3>3, <4>1, NewSummaryFacts DEF Typed
    <3> QED BY <2>2, <3>2, <3>4, NewDeliveryFacts
  <2> QED BY <2>4 DEF SentInv
<1>3. CASE Finished
  BY <1>3, IdleFacts DEF Finished, SentInv
<1>4. CASE Elsewhere
  <2>1. CASE rec' = rec
    <3>1. told' = told /\ now' >= now /\ now \in Nat /\ now' \in Nat
      BY <1>4 DEF Elsewhere, Typed, TypeOK
    <3> QED BY <2>1, <3>1 DEF SentInv
  <2>2. CASE rec' = Idle
    BY <2>2, IdleFacts DEF SentInv
  <2> QED BY <1>4, <2>1, <2>2 DEF Elsewhere
<1> QED BY <1>1, <1>2, <1>3, <1>4, NextCases

\* A summary without delivery keeps what was persisted or says why not.
LEMMA UnsentStep ==
  ASSUME Typed, UnsentInv, [Next]_vars
  PROVE  UnsentInv'
<1>1. CASE Evaluated
  BY <1>1, EvaluatedFacts DEF UnsentInv, Typed
<1>2. CASE \E lost \in SUBSET ToSend : Sent(lost)
  <2>1. PICK lost \in SUBSET ToSend : Sent(lost)
    BY <1>2
  <2> DEFINE failed == {m \in lost : ReportsError(m)}
  <2>2. summaries' = summaries
    BY <2>1 DEF Sent
  <2>3. rec'.changed <=> rec.changed
    BY <2>1, SentFacts DEF Typed
  <2>4. ASSUME NEW n \in Notifications \ (rec'.sent \cup Teams)
        PROVE  /\ HasPolicy(n) => rec'.summaries[n].lastSent = summaries[n].lastSent
               /\ ~HasPolicy(n) /\ rec'.summaries[n].status = "Delivered" =>
                    ~rec.changed /\ summaries[n].status = "Delivered"
    <3>1. n \notin ToSend \/ n \in lost
      BY <2>1, <2>4, SentFacts DEF Typed
    <3>2. rec'.summaries[n] = NewSummary(n, NewDelivery, failed)
      BY <2>1, <2>4, SentFacts DEF Typed
    <3>3. CASE n \notin ToSend
      <4>1. rec'.summaries[n].lastSent = summaries[n].lastSent
        BY <2>4, <3>2, <3>3, NewSummaryFacts DEF Typed
      <4>2. ~HasPolicy(n) => ~rec.changed /\ summaries[n].status = "Delivered"
        BY <2>4, <3>3 DEF ToSend, DoSendNotification
      <4> QED BY <4>1, <4>2
    <3>4. CASE n \in ToSend /\ n \in lost
      <4>1. n \in failed
        BY <2>4, <3>4 DEF ReportsError
      <4> HIDE DEF failed
      <4>2. /\ rec'.summaries[n].lastSent = summaries[n].lastSent
            /\ rec'.summaries[n].status = "FailedToDeliver"
        BY <2>4, <3>2, <3>4, <4>1, NewSummaryFacts DEF Typed
      <4> QED BY <4>2
    <3> QED BY <2>1, <3>1, <3>3, <3>4
  <2> QED BY <2>2, <2>3, <2>4 DEF UnsentInv
<1>3. CASE Finished
  BY <1>3, IdleFacts DEF Finished, UnsentInv
<1>4. CASE Elsewhere
  <2>1. CASE rec' = rec
    BY <1>4, <2>1 DEF Elsewhere, UnsentInv
  <2>2. CASE rec' = Idle
    BY <2>2, IdleFacts DEF UnsentInv
  <2> QED BY <1>4, <2>1, <2>2 DEF Elsewhere
<1> QED BY <1>1, <1>2, <1>3, <1>4, NextCases

\* A summary keeps the deliveries apart until the API server truncates it, and
\* after.
LEMMA IntervalStep ==
  ASSUME Typed, SentInv, IntervalInv, [Next]_vars
  PROVE  IntervalInv'
<1>1. now \in Nat /\ now' \in Nat /\ now <= now'
  <2>1. now \in Nat /\ now' \in Nat
    BY TypedStep DEF Typed, TypeOK
  <2>2. now' = now \/ now' = now + 1
    BY NextCases DEF Evaluated, Sent, Finished, Elsewhere
  <2> QED BY <2>1, <2>2
<1> SUFFICES ASSUME NEW n \in Notifications, HasPolicy(n)
             PROVE  /\ recorded'[n].time <= now'
                    /\ IntervalKept(n, summaries[n])'
                    /\ rec'.pc = "sent" => IntervalKept(n, rec.summaries[n])'
  BY DEF IntervalInv
<1>2. /\ recorded[n] \in Deliveries /\ summaries[n] \in Summaries /\ rec.summaries[n] \in Summaries
      /\ recorded[n].time \in Nat \cup {Never}
      /\ summaries[n].lastSent.time \in Nat \cup {Never}
      /\ rec.summaries[n].lastSent.time \in Nat \cup {Never}
      /\ Policy[n].minInterval \in Nat
  BY PolicyType DEF Typed, TypeOK, Deliveries, Summaries
<1>3. IntervalKept(n, summaries[n]) /\ recorded[n].time <= now
  BY DEF IntervalInv
<1>4. ASSUME recorded' = recorded, summaries' = summaries
      PROVE  recorded'[n].time <= now' /\ IntervalKept(n, summaries[n])'
  BY <1>1, <1>2, <1>3, <1>4 DEF IntervalKept, WasSent, Never
<1>5. CASE Evaluated
  BY <1>4, <1>5, EvaluatedFacts DEF Evaluated, Typed
<1>6. CASE \E lost \in SUBSET ToSend : Sent(lost)
  <2>1. PICK lost \in SUBSET ToSend : Sent(lost)
    BY <1>6
  <2> DEFINE failed == {m \in lost : ReportsError(m)}
             s == NewSummary(n, NewDelivery, failed)
  <2>2. recorded' = recorded /\ summaries' = summaries /\ now' = now
    BY <2>1 DEF Sent
  <2>3. rec'.summaries[n] = s
    BY <2>1, SentFacts DEF Typed
  <2>4. /\ n \notin ToSend =>
             /\ s.lastSent = summaries[n].lastSent
             /\ s.status = IF summaries[n].status = "None" THEN "Delivered"
                           ELSE summaries[n].status
        /\ n \in ToSend /\ n \in failed =>
             s.lastSent = summaries[n].lastSent /\ s.status = "FailedToDeliver"
        /\ n \in ToSend /\ n \notin failed =>
             s.status = "Delivered" /\ s.lastSent = NewDelivery
    BY NewSummaryFacts DEF Typed
  <2> HIDE DEF s, failed
  <2>5. CASE n \notin ToSend
    BY <1>3, <2>2, <2>3, <2>4, <2>5 DEF IntervalKept
  <2>6. CASE n \in ToSend /\ n \in failed
    <3>1. ~TooSoon(Policy[n], summaries[n], now)
      BY <2>6 DEF ToSend, PolicySends
    <3>2. /\ WasSent(summaries[n].lastSent) /\ Policy[n].minInterval > 0 =>
               now - summaries[n].lastSent.time >= Policy[n].minInterval
      BY <1>1, <1>2, <1>3, <3>1 DEF TooSoon, IntervalKept, Never
    <3> QED BY <1>3, <2>2, <2>3, <2>4, <2>6, <3>2 DEF IntervalKept
  <2>7. CASE n \in ToSend /\ n \notin failed
    <3>1. s.lastSent.time = now /\ s.status = "Delivered"
      BY <2>4, <2>7, NewDeliveryFacts
    <3>2. WasSent(recorded[n]) => Truncate(recorded[n].time) <= now
                                  /\ Truncate(recorded[n].time) \in Nat
      BY <1>1, <1>2, <1>3, TruncateBounds DEF WasSent
    <3>3. now >= Truncate(recorded[n].time) \/ ~WasSent(recorded[n])
      BY <1>1, <3>2
    <3>4. IntervalKept(n, rec.summaries[n])'
      BY <1>1, <2>2, <2>3, <3>1, <3>3 DEF IntervalKept, WasSent, Never
    <3> QED BY <1>4, <2>2, <3>4
  <2> QED BY <1>4, <2>2, <2>5, <2>6, <2>7
<1>7. CASE Finished
  <2>1. now' = now /\ rec'.pc = "idle" /\ rec.pc = "sent"
    BY <1>7, IdleFacts DEF Finished
  <2>2. /\ summaries'[n].status = rec.summaries[n].status
        /\ summaries'[n].lastSent.time = Truncate(rec.summaries[n].lastSent.time)
        /\ recorded'[n] = IF n \in rec.sent THEN told[n] ELSE recorded[n]
    BY <1>7, FinishedFacts DEF Typed
  <2>3. IntervalKept(n, rec.summaries[n])
    BY <2>1 DEF IntervalInv
  <2> DEFINE last == rec.summaries[n].lastSent.time
             least == recorded'[n].time
  <2>4. /\ Truncate(last) \in Nat \cup {Never}
        /\ Truncate(last) = Never <=> last = Never
        /\ last \in Nat => Truncate(last) <= last
    BY <1>2, TruncateType, TruncateBounds
  <2>5. CASE n \in rec.sent
    <3>1. /\ told[n].time \in Nat /\ told[n].time <= now
          /\ rec.summaries[n].lastSent = told[n]
      BY <2>1, <2>5 DEF SentInv
    <3>2. recorded'[n].time = told[n].time /\ summaries'[n].lastSent.time = Truncate(told[n].time)
      BY <2>2, <2>5, <3>1
    <3>3. Truncate(told[n].time) \in Nat
      BY <3>1, TruncateBounds
    <3>4. summaries'[n].status = "FailedToDeliver" /\ Policy[n].minInterval > 0 =>
            now - Truncate(told[n].time) >= Policy[n].minInterval
      <4>1. rec.summaries[n].status = "FailedToDeliver" /\ Policy[n].minInterval > 0 =>
              now - last >= Policy[n].minInterval
        BY <2>3, <3>1 DEF IntervalKept, WasSent, Never
      <4> QED BY <1>1, <1>2, <2>2, <2>4, <3>1, <4>1
    <3> QED BY <1>1, <2>1, <3>1, <3>2, <3>3, <3>4 DEF IntervalKept, WasSent, Never
  <2>6. CASE n \notin rec.sent
    <3>1. recorded'[n] = recorded[n]
      BY <2>2, <2>6
    <3>2. WasSent(recorded[n]) => Truncate(recorded[n].time) <= Truncate(last) /\ last # Never
      <4> SUFFICES ASSUME WasSent(recorded[n])
                   PROVE  Truncate(recorded[n].time) <= Truncate(last) /\ last # Never
        OBVIOUS
      <4>1. recorded[n].time \in Nat /\ last \in Nat /\ last >= Truncate(recorded[n].time)
        BY <1>2, <2>3 DEF IntervalKept, WasSent
      <4>2. Truncate(recorded[n].time) \in Nat
        BY <4>1, TruncateBounds
      <4>3. Truncate(recorded[n].time) <= last
        BY <4>1, <4>2
      <4> QED BY <4>1, <4>3, TruncateKeepsOrder DEF Never
    <3>3. /\ rec.summaries[n].status = "FailedToDeliver" /\ last # Never
          /\ Policy[n].minInterval > 0
          => now - Truncate(last) >= Policy[n].minInterval
      <4>1. /\ rec.summaries[n].status = "FailedToDeliver" /\ last # Never
            /\ Policy[n].minInterval > 0
            => now - last >= Policy[n].minInterval
        BY <2>3 DEF IntervalKept, WasSent
      <4>2. last # Never => last \in Nat /\ Truncate(last) \in Nat
        BY <1>2, <2>4
      <4> QED BY <1>1, <1>2, <2>4, <4>1, <4>2
    <3>4. IntervalKept(n, summaries[n])'
      <4>1. WasSent(recorded[n]) => Truncate(last) >= Truncate(recorded[n].time)
        <5>1. WasSent(recorded[n]) => Truncate(recorded[n].time) \in Int /\ Truncate(last) \in Int
          BY <1>2, <2>4, TruncateType DEF Never
        <5> QED BY <3>2, <5>1
      <4> QED BY <2>1, <2>2, <2>4, <3>1, <3>2, <3>3, <4>1 DEF IntervalKept, WasSent
    <3> QED BY <1>3, <2>1, <3>1, <3>4
  <2> QED BY <2>1, <2>5, <2>6
<1>8. CASE Elsewhere
  <2>1. recorded'[n].time <= now' /\ IntervalKept(n, summaries[n])'
    BY <1>4, <1>8 DEF Elsewhere
  <2>2. CASE rec' = Idle
    BY <2>1, <2>2, IdleFacts
  <2>3. CASE rec' = rec
    <3>1. rec.pc = "sent" => IntervalKept(n, rec.summaries[n])
      BY DEF IntervalInv
    <3>2. recorded' = recorded
      BY <1>8 DEF Elsewhere
    <3> QED BY <1>1, <1>2, <2>1, <2>3, <3>1, <3>2 DEF IntervalKept, WasSent, Never
  <2> QED BY <1>8, <2>2, <2>3 DEF Elsewhere
<1> QED BY <1>5, <1>6, <1>7, <1>8, NextCases

\* Two evaluations that say the same give deliveries with the same content.
LEMMA SameStateContent ==
  ASSUME NEW conds \in [Checks -> Conditions], NEW others \in [Checks -> Conditions],
         SaysTheSame(conds, others)
  PROVE  /\ ClusterState(conds).failing = ClusterState(others).failing
         /\ ClusterState(conds).messages = ClusterState(others).messages
<1>1. DOMAIN conds = Checks /\ DOMAIN others = Checks
  OBVIOUS
<1>2. Failing(conds) = Failing(others)
  BY <1>1 DEF Failing, SaysTheSame
<1>3. \A c \in Failing(conds) : conds[c].message = others[c].message
  BY <1>1 DEF Failing, SaysTheSame
<1>4. MessagesOf(conds) = MessagesOf(others)
  BY <1>2, <1>3 DEF MessagesOf
<1>5. CASE Failing(conds) = {}
  <2>1. ClusterState(conds).failing = FALSE /\ ClusterState(others).failing = FALSE
    BY <1>2, <1>5, ClusterStateFields
  <2> QED BY <1>4, <2>1, ClusterStateFields
<1>6. CASE Failing(conds) # {}
  <2>1. ClusterState(conds).failing = TRUE /\ ClusterState(others).failing = TRUE
    BY <1>2, <1>6, ClusterStateFields
  <2> QED BY <1>4, <2>1, ClusterStateFields
<1> QED BY <1>5, <1>6

\* Conversely, a content that did not change leaves nothing to report.
LEMMA SameContentSaysTheSame ==
  ASSUME NEW conds \in [Checks -> Conditions], NEW others \in [Checks -> Conditions],
         \A c \in Checks : conds[c].status # "Unknown" /\ others[c].status # "Unknown",
         MessagesOf(conds) = MessagesOf(others)
  PROVE  SaysTheSame(conds, others)
<1>1. DOMAIN conds = Checks /\ DOMAIN others = Checks
  OBVIOUS
<1>2. DOMAIN MessagesOf(conds) = Failing(conds) /\ DOMAIN MessagesOf(others) = Failing(others)
  BY DEF MessagesOf
<1>3. Failing(conds) = Failing(others)
  BY <1>2
<1>4. ASSUME NEW c \in Checks, conds[c].status = "False"
      PROVE  others[c].status = "False" /\ conds[c].message = others[c].message
  <2>1. c \in Failing(conds) /\ c \in Failing(others)
    BY <1>1, <1>3, <1>4 DEF Failing
  <2>2. MessagesOf(conds)[c] = conds[c].message /\ MessagesOf(others)[c] = others[c].message
    BY <2>1 DEF MessagesOf
  <2> QED BY <2>1, <2>2 DEF Failing
<1>5. ASSUME NEW c \in Checks, others[c].status = "False"
      PROVE  conds[c].status = "False"
  BY <1>1, <1>3, <1>5 DEF Failing
<1>6. \A c \in Checks : /\ conds[c].status \in {"True", "False"}
                        /\ others[c].status \in {"True", "False"}
  BY DEF Conditions
<1> QED BY <1>4, <1>5, <1>6 DEF SaysTheSame

\* Truncating what was truncated changes nothing: a summary that is persisted
\* again stays the same.
LEMMA TruncatedTwice ==
  ASSUME NEW d \in Deliveries
  PROVE  LET e == [d EXCEPT !.time = Truncate(@)]
         IN /\ [e EXCEPT !.time = Truncate(@)] = e
            /\ e.failing = d.failing /\ e.messages = d.messages
            /\ e.time = Truncate(d.time)
            /\ WasSent(e) <=> WasSent(d)
<1> DEFINE u == Truncate(d.time)
           e == [d EXCEPT !.time = u]
<1>1. d.time \in Nat \cup {Never}
  BY DEF Deliveries
<1>2. Truncate(u) = u /\ (u = Never <=> d.time = Never)
  BY <1>1, TruncateAgain, TruncateType
<1>3. [d EXCEPT !.time = Truncate(@)] = e
  BY Zenon
<1> HIDE DEF u
<1>4. e.time = u /\ e.failing = d.failing /\ e.messages = d.messages
  BY DEF Deliveries
<1>5. [e EXCEPT !.time = u] = e
  BY DEF Deliveries
<1> HIDE DEF e
<1>6. [e EXCEPT !.time = Truncate(@)] = [e EXCEPT !.time = Truncate(e.time)]
  BY Zenon
<1>7. [e EXCEPT !.time = Truncate(@)] = e
  BY <1>2, <1>4, <1>5, <1>6
<1> QED BY <1>2, <1>3, <1>4, <1>7 DEF u, WasSent

\* The end of a reconcile persists the summaries with the conditions they are
\* about, or neither; no other step changes either.
LEMMA RecordStep ==
  ASSUME Typed, ChangedInv, SentInv, UnsentInv, RecordInv, [Next]_vars
  PROVE  RecordInv'
<1>1. ASSUME UNCHANGED <<conditions, summaries, recorded>>
      PROVE  RecordInv'
  BY <1>1 DEF RecordInv, TrueRecord
<1>2. CASE Evaluated
  BY <1>1, <1>2 DEF Evaluated
<1>3. CASE \E lost \in SUBSET ToSend : Sent(lost)
  BY <1>1, <1>3 DEF Sent
<1>4. CASE Finished
  <2>1. rec.pc = "sent"
    BY <1>4 DEF Finished
  <2>2. /\ conditions \in [Checks -> Conditions] /\ conditions' \in [Checks -> Conditions]
        /\ rec.conditions \in [Checks -> Conditions]
    BY <1>4, FinishedFacts DEF Typed, TypeOK
  <2>3. SaysTheSame(rec.conditions, conditions')
    BY <1>4, FinishedFacts DEF Typed, SaysTheSame
  <2>4. /\ ClusterState(conditions').failing = ClusterState(rec.conditions).failing
        /\ ClusterState(conditions').messages = ClusterState(rec.conditions).messages
    BY <2>2, <2>3, SameStateContent
  <2>5. ASSUME NEW n \in Notifications \ Teams, HasPolicy(n)
        PROVE  summaries'[n].lastSent = [recorded'[n] EXCEPT !.time = Truncate(@)]
    <3>1. /\ summaries'[n].lastSent = [rec.summaries[n].lastSent EXCEPT !.time = Truncate(@)]
          /\ recorded'[n] = IF n \in rec.sent THEN told[n] ELSE recorded[n]
      BY <1>4, <2>5, FinishedFacts DEF Typed
    <3>2. CASE n \in rec.sent
      <4>1. rec.summaries[n].lastSent = told[n] /\ recorded'[n] = told[n]
        BY <2>1, <2>5, <3>1, <3>2 DEF SentInv
      <4> QED BY <3>1, <4>1
    <3>3. CASE n \notin rec.sent
      <4>1. rec.summaries[n].lastSent = summaries[n].lastSent /\ recorded'[n] = recorded[n]
        BY <2>1, <2>5, <3>1, <3>3 DEF UnsentInv
      <4>2. summaries[n].lastSent = [recorded[n] EXCEPT !.time = Truncate(@)]
        BY <2>5 DEF RecordInv, TrueRecord
      <4>3. recorded[n] \in Deliveries
        BY <2>5 DEF Typed, TypeOK
      <4>4. [summaries[n].lastSent EXCEPT !.time = Truncate(@)] = summaries[n].lastSent
        BY Zenon, <4>2, <4>3, TruncatedTwice
      <4>5. summaries'[n].lastSent = summaries[n].lastSent
        BY Zenon, <3>1, <4>1, <4>4
      <4> QED BY Zenon, <4>1, <4>2, <4>5
    <3> QED BY <3>2, <3>3
  <2>6. ASSUME NEW n \in Notifications \ Teams, ~HasPolicy(n), summaries'[n].status = "Delivered"
        PROVE  WasSent(recorded'[n]) /\ SameContent(recorded'[n], ClusterState(conditions'))
    <3>1. /\ rec.summaries[n].status = "Delivered"
          /\ recorded'[n] = IF n \in rec.sent THEN told[n] ELSE recorded[n]
      BY <1>4, <2>6, FinishedFacts DEF Typed
    <3>2. CASE n \in rec.sent
      <4>1. told[n].time \in Nat /\ SameContent(told[n], ClusterState(rec.conditions))
        BY <2>1, <3>2 DEF SentInv
      <4>2. WasSent(told[n])
        BY <4>1 DEF WasSent, Never
      <4> QED BY <2>4, <3>1, <3>2, <4>1, <4>2 DEF SameContent
    <3>3. CASE n \notin rec.sent
      <4>1. ~rec.changed /\ summaries[n].status = "Delivered"
        BY <2>1, <2>6, <3>1, <3>3 DEF UnsentInv
      <4>2. SaysTheSame(rec.conditions, conditions)
        BY <2>1, <4>1 DEF ChangedInv
      <4>3. /\ ClusterState(rec.conditions).failing = ClusterState(conditions).failing
            /\ ClusterState(rec.conditions).messages = ClusterState(conditions).messages
        BY <2>2, <4>2, SameStateContent
      <4>4. WasSent(recorded[n]) /\ SameContent(recorded[n], ClusterState(conditions))
        BY <2>6, <4>1 DEF RecordInv, TrueRecord
      <4> QED BY <2>4, <3>1, <3>3, <4>3, <4>4 DEF SameContent
    <3> QED BY <3>2, <3>3
  <2>7. \A n \in Notifications \ Teams : TrueRecord(n)'
    BY <2>5, <2>6 DEF TrueRecord
  <2>8. \A c \in Checks : conditions'[c].status # "Unknown"
    BY <1>4, <2>1, FinishedFacts DEF Typed, ChangedInv
  <2> QED BY <2>7, <2>8 DEF RecordInv
<1>5. CASE Elsewhere
  BY <1>1, <1>5 DEF Elsewhere
<1> QED BY <1>2, <1>3, <1>4, <1>5, NextCases

\* Nothing is recorded initially.
LEMMA InitInductive == Init => IInv
<1> SUFFICES ASSUME Init PROVE IInv
  OBVIOUS
<1>1. Typed
  BY TypedInit
<1>2. /\ \A c \in Checks : conditions[c].status = "Unknown"
      /\ rec.pc = "idle" /\ failingFrom = Never /\ now = 0
  BY IdleFacts DEF Init, NoCondition
<1>3. \A n \in Notifications :
        recorded[n] = NotSent /\ summaries[n].lastSent = NotSent /\ summaries[n].status = "None"
  BY DEF Init, NoSummary
<1>4. NotSent \in Deliveries /\ NotSent.time = Never
  BY ConstantTypes DEF NotSent
<1>5. SinceInv
  BY <1>2 DEF SinceInv, Never
<1>6. ChangedInv /\ SentInv /\ UnsentInv
  BY <1>2 DEF ChangedInv, SentInv, UnsentInv
<1>7. IntervalInv
  BY <1>2, <1>3, <1>4 DEF IntervalInv, IntervalKept, WasSent, Never
<1>8. [NotSent EXCEPT !.time = Truncate(@)] = NotSent
  <2>1. Truncate(Never) = Never
    BY DEF Truncate
  <2> QED BY <1>4, <2>1 DEF NotSent
<1>9. RecordInv
  BY <1>3, <1>8 DEF RecordInv, TrueRecord
<1> QED BY <1>1, <1>5, <1>6, <1>7, <1>9 DEF IInv, Typed

\* Every step keeps the inductive invariant.
LEMMA NextInductive == IInv /\ [Next]_vars => IInv'
<1> SUFFICES ASSUME IInv, [Next]_vars PROVE IInv'
  OBVIOUS
<1>1. Typed'
  BY TypedStep DEF IInv, Typed
<1>2. SinceInv' /\ ChangedInv' /\ IntervalInv' /\ SentInv' /\ UnsentInv'
  BY SinceStep, ChangedStep, IntervalStep, SentStep, UnsentStep DEF IInv, Typed
<1>3. RecordInv'
  BY RecordStep DEF IInv, Typed
<1> QED BY <1>1, <1>2, <1>3 DEF IInv, Typed

-----------------------------------------------------------------------------
(* The policies and the records. *)

\* A step that delivers n is a sendNotifications that found it due.
LEMMA DeliveredFacts ==
  ASSUME IInv, [Next]_vars, NEW n \in Delivered
  PROVE  /\ n \in Notifications /\ n \in ToSend
         /\ rec.pc = "evaluated"
         /\ told'[n] = NewDelivery
<1>1. Typed
  BY DEF IInv, Typed
<1>2. CASE Evaluated
  BY <1>1, <1>2, EvaluatedFacts DEF Delivered, Typed
<1>3. CASE \E lost \in SUBSET ToSend : Sent(lost)
  <2>1. PICK lost \in SUBSET ToSend : Sent(lost)
    BY <1>3
  <2>2. ToSend \subseteq Notifications /\ rec'.sent = ToSend \ lost
    BY <1>1, <2>1, SentFacts DEF ToSend, Typed
  <2>3. n \in Notifications /\ n \in ToSend \ lost
    BY <2>2 DEF Delivered
  <2>4. told'[n] = NewDelivery
    BY <1>1, <2>1, <2>3, SentFacts DEF Typed
  <2> QED BY <2>1, <2>3, <2>4 DEF Sent
<1>4. CASE Finished
  BY <1>4, IdleFacts DEF Finished, Delivered
<1>5. CASE Elsewhere
  BY <1>5, IdleFacts DEF Elsewhere, Delivered
<1> QED BY <1>2, <1>3, <1>4, <1>5, NextCases

\* MinInterval: for every policy, every recipient (Teams ones included) and
\* every fault, two deliveries are MinInterval apart up to a second.
THEOREM MinIntervalHolds == Spec => MinIntervalRespected
<1>1. ASSUME IInv, [Next]_vars, NEW n \in Delivered,
             Policy[n].minInterval > 0, WasSent(recorded[n])
      PROVE  now - recorded[n].time > Policy[n].minInterval - TicksPerSecond
  <2>1. n \in Notifications /\ n \in ToSend
    BY <1>1, DeliveredFacts
  <2>2. HasPolicy(n)
    BY <1>1 DEF HasPolicy
  <2>3. /\ now \in Nat /\ recorded[n].time \in Nat /\ summaries[n].lastSent.time \in Nat \cup {Never}
        /\ Policy[n].minInterval \in Nat /\ TicksPerSecond \in Nat
    BY <1>1, <2>1, PolicyType, NotificationAssumption
       DEF IInv, TypeOK, Deliveries, Summaries, WasSent
  <2>4. IntervalKept(n, summaries[n])
    BY <1>1, <2>1, <2>2 DEF IInv, IntervalInv
  <2>5. ~TooSoon(Policy[n], summaries[n], now)
    BY <2>1, <2>2 DEF ToSend, PolicySends
  <2>6. now - summaries[n].lastSent.time >= Policy[n].minInterval
    BY <1>1, <2>3, <2>4, <2>5 DEF TooSoon, IntervalKept, Never
  <2>7. summaries[n].lastSent.time >= Truncate(recorded[n].time)
    BY <1>1, <2>4 DEF IntervalKept
  <2>8. /\ Truncate(recorded[n].time) \in Nat
        /\ recorded[n].time - TicksPerSecond < Truncate(recorded[n].time)
    BY <2>3, TruncateBounds
  <2> QED BY <2>3, <2>6, <2>7, <2>8 DEF Never
<1>2. IInv /\ [Next]_vars =>
        [\A n \in Delivered :
           Policy[n].minInterval > 0 /\ WasSent(recorded[n])
             => now - recorded[n].time > Policy[n].minInterval - TicksPerSecond]_vars
  BY <1>1
<1> QED BY <1>2, InitInductive, NextInductive, PTL DEF Spec, MinIntervalRespected

\* The record of a delivery to a recipient whose errors are reported.
LEMMA RecordFacts ==
  ASSUME IInv, NEW n \in Notifications \ Teams, HasPolicy(n)
  PROVE  /\ summaries[n].lastSent.failing = recorded[n].failing
         /\ summaries[n].lastSent.messages = recorded[n].messages
         /\ WasSent(summaries[n].lastSent) <=> WasSent(recorded[n])
<1>1. summaries[n].lastSent = [recorded[n] EXCEPT !.time = Truncate(@)]
  BY DEF IInv, RecordInv, TrueRecord
<1>2. recorded[n] \in Deliveries
  BY DEF IInv, TypeOK
<1>3. LET e == [recorded[n] EXCEPT !.time = Truncate(@)]
      IN /\ e.failing = recorded[n].failing /\ e.messages = recorded[n].messages
         /\ WasSent(e) <=> WasSent(recorded[n])
  BY <1>2, TruncatedTwice
<1> QED BY <1>1, <1>3

\* FailingFor: when no recipient is a Teams one, a failure is first reported
\* only when the cluster was found failing for FailingFor up to a second.
THEOREM FailingForHolds == Teams = {} => (Spec => FailingForRespected)
<1> SUFFICES ASSUME Teams = {} PROVE Spec => FailingForRespected
  OBVIOUS
<1>1. ASSUME IInv, [Next]_vars, NEW n \in Delivered,
             Policy[n].failingFor > 0, FirstReport(n)
      PROVE  now - ObservedSince > Policy[n].failingFor - TicksPerSecond
  <2>1. n \in Notifications /\ n \in ToSend /\ rec.pc = "evaluated" /\ told'[n] = NewDelivery
    BY <1>1, DeliveredFacts
  <2>2. HasPolicy(n)
    BY <1>1 DEF HasPolicy
  <2>3. rec.conditions \in [Checks -> Conditions] /\ FailuresInv(rec.conditions)
    BY <1>1 DEF IInv, TypeOK
  <2>4. /\ summaries[n].lastSent.failing = recorded[n].failing
        /\ WasSent(summaries[n].lastSent) <=> WasSent(recorded[n])
    BY <1>1, <2>1, <2>2, RecordFacts
  <2>5. ClusterState(rec.conditions).failing
    BY <1>1, <2>1 DEF FirstReport, NewDelivery
  <2>6. Failing(rec.conditions) # {}
    BY <2>5, ClusterStateFields
  <2>7. PICK c \in Failing(rec.conditions) : FailingSince(rec.conditions) = rec.conditions[c].since
    BY <2>3, <2>6, FailingSinceIsFirst
  <2>8. ClusterState(rec.conditions).failingSince = rec.conditions[c].since
    BY <2>6, <2>7, ClusterStateFields
  <2>9. c \in Checks /\ rec.conditions[c].status = "False" /\ rec.conditions[c].since \in Nat
    BY <2>3, <2>7 DEF Failing, FailuresInv
  <2>10. rec.conditions[c].since >= Truncate(ObservedSince)
    BY <1>1, <2>1, <2>9 DEF IInv, SinceInv
  <2>11. ObservedSince \in Nat
    BY <1>1, <2>1 DEF IInv, SinceInv, TypeOK, ObservedSince
  <2>12. ~TooRecent(Policy[n], summaries[n], ClusterState(rec.conditions), now)
    BY <2>1, <2>2 DEF ToSend, PolicySends
  <2>13. now \in Nat /\ Policy[n].failingFor \in Nat /\ TicksPerSecond \in Nat
    BY <1>1, <2>1, PolicyType, NotificationAssumption DEF IInv, TypeOK
  <2>14. ~WasSent(summaries[n].lastSent) \/ ~summaries[n].lastSent.failing
    BY <1>1, <2>4 DEF FirstReport
  <2>15. ~(now - rec.conditions[c].since < Policy[n].failingFor)
    BY <1>1, <2>5, <2>8, <2>12, <2>14 DEF TooRecent
  <2>16. Truncate(ObservedSince) \in Nat /\ ObservedSince - TicksPerSecond < Truncate(ObservedSince)
    BY <2>11, TruncateBounds
  <2> QED BY <2>9, <2>10, <2>11, <2>13, <2>15, <2>16
<1>2. IInv /\ [Next]_vars =>
        [\A n \in Delivered :
           Policy[n].failingFor > 0 /\ FirstReport(n)
             => now - ObservedSince > Policy[n].failingFor - TicksPerSecond]_vars
  BY <1>1
<1> QED BY <1>2, InitInductive, NextInductive, PTL DEF Spec, FailingForRespected

\* No repetition: when no recipient is a Teams one, a delivery whose record
\* was persisted is not followed by one with the same content, and with
\* OnlyOnTransition not by one with the same verdict.
THEOREM NoRepetition == Teams = {} => (Spec => NoRepeatedNotification)
<1> SUFFICES ASSUME Teams = {} PROVE Spec => NoRepeatedNotification
  OBVIOUS
<1>1. ASSUME IInv, [Next]_vars, NEW n \in Delivered,
             WasSent(recorded[n]), summaries[n].status = "Delivered"
      PROVE  /\ ~SameContent(told'[n], recorded[n])
             /\ Policy[n].onlyOnTransition => told'[n].failing # recorded[n].failing
  <2> DEFINE state == ClusterState(rec.conditions)
  <2>1. n \in Notifications /\ n \in ToSend /\ rec.pc = "evaluated" /\ told'[n] = NewDelivery
    BY <1>1, DeliveredFacts
  <2>2. told'[n].failing = state.failing /\ told'[n].messages = state.messages
    BY <2>1 DEF NewDelivery
  <2>3. CASE HasPolicy(n)
    <3>1. /\ summaries[n].lastSent.failing = recorded[n].failing
          /\ summaries[n].lastSent.messages = recorded[n].messages
          /\ WasSent(summaries[n].lastSent)
      BY <1>1, <2>1, <2>3, RecordFacts
    <3>2. HasDifferenceToReport(Policy[n], summaries[n], state)
      BY <2>1, <2>3 DEF ToSend, PolicySends
    <3> HIDE DEF state
    <3>3. \/ recorded[n].failing # state.failing
          \/ ~Policy[n].onlyOnTransition /\ recorded[n].messages # state.messages
      BY <3>1, <3>2 DEF HasDifferenceToReport
    <3> QED BY <2>2, <3>3 DEF SameContent
  <2>4. CASE ~HasPolicy(n)
    <3>1. ~Policy[n].onlyOnTransition
      BY <2>4 DEF HasPolicy
    <3>2. rec.changed
      BY <1>1, <2>1, <2>4 DEF ToSend, DoSendNotification
    <3>3. ~SaysTheSame(rec.conditions, conditions)
      BY <1>1, <2>1, <3>2 DEF IInv, ChangedInv
    <3>4. SameContent(recorded[n], ClusterState(conditions))
      BY <1>1, <2>1, <2>4 DEF IInv, RecordInv, TrueRecord
    <3>5. /\ \A c \in Checks : rec.conditions[c].status # "Unknown"
          /\ \A c \in Checks : conditions[c].status # "Unknown"
      BY <1>1, <2>1 DEF IInv, ChangedInv, RecordInv
    <3>6. conditions \in [Checks -> Conditions] /\ rec.conditions \in [Checks -> Conditions]
      BY <1>1 DEF IInv, TypeOK
    <3>7. MessagesOf(rec.conditions) # MessagesOf(conditions)
      BY <3>3, <3>5, <3>6, SameContentSaysTheSame
    <3>8. state.messages # recorded[n].messages
      BY <3>4, <3>7, ClusterStateFields DEF SameContent
    <3> QED BY <2>2, <3>1, <3>8 DEF SameContent
  <2> QED BY <2>3, <2>4
<1>2. IInv /\ [Next]_vars =>
        [\A n \in Delivered :
           WasSent(recorded[n]) /\ summaries[n].status = "Delivered"
             => /\ ~SameContent(told'[n], recorded[n])
                /\ (Policy[n].onlyOnTransition => told'[n].failing # recorded[n].failing)]_vars
  BY <1>1
<1> QED BY <1>2, InitInductive, NextInductive, PTL DEF Spec, NoRepeatedNotification

\* The delivery records: when no recipient is a Teams one, what the summaries
\* say was delivered was delivered, whatever deliveries, evaluations, closes
\* and restarts fail.
THEOREM RecordsAreTrue == Teams = {} => (Spec => []DeliveryRecordIsTrue)
<1> SUFFICES ASSUME Teams = {} PROVE Spec => []DeliveryRecordIsTrue
  OBVIOUS
<1>1. IInv => DeliveryRecordIsTrue
  BY DEF IInv, RecordInv, TrueRecord, DeliveryRecordIsTrue
<1> QED BY <1>1, InitInductive, NextInductive, PTL DEF Spec

-----------------------------------------------------------------------------
(* Nothing is forgotten. *)

\* The settings in which nothing a reconcile told anyone is lost: recipients
\* whose errors are reported, a status that is always persisted, and a clock
\* that does not move between the readings of one reconcile.
NothingIsLost ==
  /\ Teams = {}
  /\ ClockRuns = FALSE
  /\ "close" \notin Faults /\ "restart" \notin Faults

\* hasDifferenceToReport reads what was last sent and what is evaluated.
LEMMA DifferenceOfContent ==
  ASSUME NEW p, NEW s, NEW t, NEW state, NEW current,
         WasSent(s.lastSent) <=> WasSent(t.lastSent),
         SameContent(s.lastSent, t.lastSent), SameContent(state, current),
         ~HasDifferenceToReport(p, s, state)
  PROVE  ~HasDifferenceToReport(p, t, current)
<1>1. /\ s.lastSent.failing = t.lastSent.failing /\ s.lastSent.messages = t.lastSent.messages
      /\ state.failing = current.failing /\ state.messages = current.messages
  BY DEF SameContent
<1>2. CASE WasSent(s.lastSent)
  <2>1. /\ s.lastSent.failing = state.failing
        /\ ~(state.failing /\ ~p.onlyOnTransition /\ s.lastSent.messages # state.messages)
    BY <1>2 DEF HasDifferenceToReport
  <2>2. /\ t.lastSent.failing = current.failing
        /\ ~(current.failing /\ ~p.onlyOnTransition /\ t.lastSent.messages # current.messages)
    BY <1>1, <2>1
  <2> QED BY <1>2, <2>2 DEF HasDifferenceToReport
<1>3. CASE ~WasSent(s.lastSent)
  BY <1>1, <1>3 DEF HasDifferenceToReport
<1> QED BY <1>2, <1>3

\* A recipient stays informed while nothing is told and no report changes.
LEMMA InformedUnchanged ==
  ASSUME NEW n \in Notifications, UNCHANGED <<told, health>>, Informed(n)
  PROVE  Informed(n)'
  BY DEF Informed, CurrentState, ConditionStatus, Passing

\* What the reports say is what an evaluation of them says.
LEMMA CurrentContent ==
  ASSUME TypeOK,
         \A c \in Checks : /\ rec.conditions[c].status = ConditionStatus(c)
                           /\ rec.conditions[c].message = health[c]
  PROVE  SameContent(ClusterState(rec.conditions), CurrentState)
<1> DEFINE cond(c) == [NoCondition EXCEPT !.status = ConditionStatus(c), !.message = health[c]]
           current == [c \in Checks |-> cond(c)]
<1>1. ASSUME NEW c \in Checks
      PROVE  /\ cond(c) \in Conditions
             /\ cond(c).status = ConditionStatus(c) /\ cond(c).message = health[c]
  <2>1. ConditionStatus(c) \in {"True", "False"} /\ health[c] \in Messages \cup {Healthy}
    BY <1>1 DEF ConditionStatus, TypeOK
  <2> QED BY <2>1, ConstantTypes DEF Conditions
<1> HIDE DEF cond
<1>2. current \in [Checks -> Conditions]
  BY <1>1
<1>3. rec.conditions \in [Checks -> Conditions]
  BY DEF TypeOK
<1>4. SaysTheSame(rec.conditions, current)
  BY <1>1 DEF SaysTheSame
<1>5. CurrentState = ClusterState(current)
  BY DEF CurrentState, cond
<1> HIDE DEF current
<1> QED BY <1>2, <1>3, <1>4, <1>5, SameStateContent DEF SameContent

\* sendNotifications delivers, fails, or leaves a time to wait.
LEMMA NothingDropped ==
  ASSUME IInv, Teams = {}, NEW lost \in SUBSET ToSend, Sent(lost), ~rec'.failed,
         NEW n \in Notifications
  PROVE  IF HasPolicy(n)
         THEN HasDifferenceToReport(Policy[n], rec'.summaries[n], ClusterState(rec.conditions))
                => PolicyWait(Policy[n], rec'.summaries[n], ClusterState(rec.conditions), now) > 0
         ELSE rec'.summaries[n].status = "Delivered"
<1> DEFINE state == ClusterState(rec.conditions)
           failed == {m \in lost : ReportsError(m)}
           s == rec'.summaries[n]
<1>1. Typed
  BY DEF IInv, Typed
<1>2. n \notin failed
  BY <1>1, SentFacts DEF Typed
<1>3. s = NewSummary(n, NewDelivery, failed)
  BY <1>1, SentFacts DEF Typed
<1>4. /\ s \in Summaries
      /\ n \notin ToSend =>
           /\ s.lastSent = summaries[n].lastSent
           /\ s.status = IF summaries[n].status = "None" THEN "Delivered" ELSE summaries[n].status
      /\ n \in ToSend =>
           s.status = "Delivered" /\ (HasPolicy(n) => s.lastSent = NewDelivery)
  BY <1>1, <1>2, <1>3, NewSummaryFacts DEF Typed
<1> HIDE DEF s, failed, state
<1>5. CASE n \in ToSend /\ HasPolicy(n)
  <2>1. s.lastSent.failing = state.failing /\ s.lastSent.messages = state.messages
    BY <1>4, <1>5, NewDeliveryFacts DEF SameContent, state
  <2>2. WasSent(s.lastSent)
    BY <1>1, <1>4, <1>5, NewDeliveryFacts DEF WasSent, Never, Typed, TypeOK
  <2>3. ~HasDifferenceToReport(Policy[n], s, state)
    BY <2>1, <2>2 DEF HasDifferenceToReport
  <2> QED BY <1>5, <2>3 DEF s, state
<1>6. CASE n \notin ToSend /\ HasPolicy(n)
  <2>1. ~PolicySends(Policy[n], summaries[n], state, now)
    BY <1>6 DEF ToSend, state
  <2>2. s.lastSent = summaries[n].lastSent
        /\ (s.status = "FailedToDeliver" <=> summaries[n].status = "FailedToDeliver")
    BY <1>4, <1>6
  <2>3. /\ HasDifferenceToReport(Policy[n], s, state)
             <=> HasDifferenceToReport(Policy[n], summaries[n], state)
        /\ TooRecent(Policy[n], s, state, now) <=> TooRecent(Policy[n], summaries[n], state, now)
        /\ TooSoon(Policy[n], s, now) <=> TooSoon(Policy[n], summaries[n], now)
    BY <2>2 DEF HasDifferenceToReport, TooRecent, TooSoon
  <2>4. ~PolicySends(Policy[n], s, state, now)
    BY <2>1, <2>3 DEF PolicySends
  <2>5. /\ rec.conditions \in [Checks -> Conditions] /\ FailuresInv(rec.conditions)
        /\ now \in Nat
    BY <1>1 DEF Typed, TypeOK
  <2>6. HasDifferenceToReport(Policy[n], s, state) => PolicyWait(Policy[n], s, state, now) > 0
    BY <1>4, <2>4, <2>5, WaitIsPositive DEF state
  <2> QED BY <1>6, <2>6 DEF s, state
<1>7. CASE n \in ToSend /\ ~HasPolicy(n)
  BY <1>4, <1>7 DEF s
<1>8. CASE n \notin ToSend /\ ~HasPolicy(n)
  <2>1. summaries[n].status = "Delivered"
    BY <1>8 DEF ToSend, DoSendNotification
  <2> QED BY <1>4, <1>8, <2>1 DEF s
<1> QED BY <1>5, <1>6, <1>7, <1>8

\* A reconcile that leaves no request has told everyone.
LEMMA FinishedInforms ==
  ASSUME IInv, QuietInv, Teams = {}, Finished, ~queued, timer' = Never,
         NEW n \in Notifications
  PROVE  Informed(n)
<1> DEFINE state == ClusterState(rec.conditions)
<1>1. Typed /\ rec.pc = "sent"
  BY DEF IInv, Typed, Finished
<1>2. RequeueAfter = 0
  BY <1>1, FinishedFacts DEF Typed
<1>3. ~rec.failed
  BY <1>2, NotificationAssumption DEF RequeueAfter
<1>4. NotificationRequeueAfter(rec.conditions, rec.summaries, now) = 0
  BY <1>2, <1>3 DEF RequeueAfter
<1>5. SameContent(state, CurrentState)
  BY <1>1, CurrentContent DEF QuietInv, Typed
<1>6. n \notin rec.sent => told[n] = recorded[n]
  BY DEF QuietInv
<1>7. CASE HasPolicy(n)
  <2>1. PolicyWait(Policy[n], rec.summaries[n], state, now) = 0
    <3>1. /\ rec.conditions \in [Checks -> Conditions] /\ FailuresInv(rec.conditions)
          /\ rec.summaries \in [Notifications -> Summaries] /\ now \in Nat
      BY <1>1 DEF Typed, TypeOK
    <3> QED BY <1>4, <1>7, <3>1, RequeueAfterWaits
  <2>2. ~HasDifferenceToReport(Policy[n], rec.summaries[n], state)
    BY <1>1, <1>3, <1>7, <2>1 DEF QuietInv
  <2> DEFINE t == [NoSummary EXCEPT !.lastSent = told[n]]
  <2>3. t.lastSent = told[n]
    BY DEF NoSummary
  <2>4. /\ SameContent(rec.summaries[n].lastSent, told[n])
        /\ WasSent(rec.summaries[n].lastSent) <=> WasSent(told[n])
    <3>1. CASE n \in rec.sent
      BY <1>1, <1>7, <3>1 DEF IInv, SentInv, SameContent
    <3>2. CASE n \notin rec.sent
      <4>1. rec.summaries[n].lastSent = summaries[n].lastSent
        BY <1>1, <1>7, <3>2 DEF IInv, UnsentInv
      <4> QED BY <1>6, <1>7, <3>2, <4>1, RecordFacts DEF SameContent
    <3> QED BY <3>1, <3>2
  <2> HIDE DEF t, state
  <2>5. ~HasDifferenceToReport(Policy[n], t, CurrentState)
    BY <1>5, <2>2, <2>3, <2>4, DifferenceOfContent
  <2> QED BY <1>7, <2>5 DEF Informed, t
<1>8. CASE ~HasPolicy(n)
  <2>1. rec.summaries[n].status = "Delivered"
    BY <1>1, <1>3, <1>8 DEF QuietInv
  <2>2. WasSent(told[n]) /\ SameContent(told[n], state)
    <3>1. CASE n \in rec.sent
      BY <1>1, <3>1 DEF IInv, SentInv, WasSent, Never
    <3>2. CASE n \notin rec.sent
      <4>1. ~rec.changed /\ summaries[n].status = "Delivered"
        BY <1>1, <1>8, <2>1, <3>2 DEF IInv, UnsentInv
      <4>2. SaysTheSame(rec.conditions, conditions)
        BY <1>1, <4>1 DEF IInv, ChangedInv
      <4>3. SameContent(state, ClusterState(conditions))
        BY <1>1, <4>2, SameStateContent DEF Typed, TypeOK, SameContent
      <4>4. WasSent(recorded[n]) /\ SameContent(recorded[n], ClusterState(conditions))
        BY <1>8, <4>1 DEF IInv, RecordInv, TrueRecord
      <4> QED BY <1>6, <3>2, <4>3, <4>4 DEF SameContent
    <3> QED BY <3>1, <3>2
  <2> QED BY <1>5, <1>8, <2>2 DEF Informed, SameContent
<1> QED BY <1>7, <1>8

\* Every step leaves a reconcile queued, delayed or in progress for each
\* recipient that is not informed.
LEMMA QuietStep ==
  ASSUME NothingIsLost, IInv, QuietInv, [Next]_vars
  PROVE  QuietInv'
<1>1. Typed
  BY DEF IInv, Typed
<1>2. ASSUME Evaluated PROVE QuietInv'
  <2>1. /\ rec'.pc = "evaluated" /\ rec.pc = "idle"
        /\ told' = told /\ recorded' = recorded /\ health' = health
    BY <1>1, <1>2, EvaluatedFacts DEF Evaluated, Typed
  <2>2. \A c \in Checks : /\ rec'.conditions[c].status = ConditionStatus(c)'
                          /\ rec'.conditions[c].message = health'[c]
    BY <1>1, <1>2, <2>1, EvaluatedFacts DEF Typed, ConditionStatus, Passing
  <2> QED BY <2>1, <2>2 DEF QuietInv, NothingForgotten
<1>3. CASE EvaluateLivenessChecks
  <2>1. CASE Fault("evaluation") /\ timer' = Earlier(timer, now + RetryAfter) /\ UNCHANGED rec
    <3>1. /\ rec.pc = "idle" /\ UNCHANGED <<rec, told, recorded>>
      BY <1>3, <2>1 DEF EvaluateLivenessChecks
    <3>2. timer' # Never
      <4>1. timer \in Nat \cup {Never} /\ now \in Nat /\ RetryAfter \in Nat
        BY <1>1, NotificationAssumption DEF Typed, TypeOK
      <4> QED BY <2>1, <4>1 DEF Earlier, Never
    <3> QED BY <3>1, <3>2 DEF QuietInv, NothingForgotten
  <2>2. CASE ~(Fault("evaluation") /\ timer' = Earlier(timer, now + RetryAfter) /\ UNCHANGED rec)
    <3>1. Evaluated
      BY Zenon, <1>3, <2>2 DEF EvaluateLivenessChecks, Evaluated, NoFault
    <3> QED BY <1>2, <3>1
  <2> QED BY <2>1, <2>2
<1>4. CASE SendNotifications
  <2>1. PICK lost \in SUBSET ToSend : Sent(lost)
    BY <1>4, SendIsSent
  <2>2. /\ rec.pc = "evaluated" /\ rec'.pc = "sent" /\ rec'.conditions = rec.conditions
        /\ rec'.sent = ToSend \ lost
        /\ \A n \in Notifications : told'[n] = IF n \in ToSend \ lost THEN NewDelivery ELSE told[n]
        /\ UNCHANGED <<now, health, queued, recorded>>
    BY <1>1, <2>1, SentFacts DEF Sent, Typed
  <2>3. \A n \in Notifications : n \notin rec'.sent => told'[n] = recorded'[n]
    BY <2>2 DEF QuietInv
  <2>4. ~queued' => \A c \in Checks : /\ rec'.conditions[c].status = ConditionStatus(c)'
                                      /\ rec'.conditions[c].message = health'[c]
    BY <2>2 DEF QuietInv, ConditionStatus, Passing
  <2>5. ~rec'.failed =>
          \A n \in Notifications :
            IF HasPolicy(n)
            THEN HasDifferenceToReport(Policy[n], rec'.summaries[n], ClusterState(rec'.conditions))
                   => PolicyWait(Policy[n], rec'.summaries[n], ClusterState(rec'.conditions), now') > 0
            ELSE rec'.summaries[n].status = "Delivered"
    BY <2>1, <2>2, NothingDropped DEF NothingIsLost
  <2> QED BY <2>2, <2>3, <2>4, <2>5 DEF QuietInv, NothingForgotten
<1>5. CASE FinishReconcile
  <2>1. Finished
    <3>1. ~Fault("close")
      BY DEF Fault, NothingIsLost
    <3> QED BY Zenon, <1>5, <3>1 DEF FinishReconcile, Finished
  <2>2. rec.pc = "sent" /\ rec'.pc = "idle" /\ UNCHANGED <<told, health, queued>>
    BY <2>1, IdleFacts DEF Finished
  <2>3. \A n \in Notifications : told'[n] = recorded'[n]
    BY <1>1, <2>1, <2>2, FinishedFacts DEF QuietInv, Typed
  <2>4. ASSUME ~queued', timer' = Never, NEW n \in Notifications
        PROVE  Informed(n)'
    <3>1. Informed(n)
      BY <2>1, <2>2, <2>4, FinishedInforms DEF NothingIsLost
    <3> QED BY <2>2, <3>1, InformedUnchanged
  <2> QED BY <2>2, <2>3, <2>4 DEF QuietInv, NothingForgotten
<1>6. CASE \E c \in Checks : HealthChanges(c)
  <2>1. queued' = TRUE /\ UNCHANGED <<now, rec, told, recorded>>
    BY <1>6 DEF HealthChanges
  <2> QED BY <2>1 DEF QuietInv, NothingForgotten
<1>7. CASE TimerFires
  <2>1. queued' = TRUE /\ UNCHANGED <<now, rec, told, recorded>>
    BY <1>7 DEF TimerFires
  <2> QED BY <2>1 DEF QuietInv, NothingForgotten
<1>8. CASE Tick
  <2>1. rec.pc = "idle" /\ UNCHANGED <<health, queued, timer, rec, told, recorded>>
    BY <1>8 DEF Tick, NothingIsLost
  <2>2. \A n \in Notifications : Informed(n) => Informed(n)'
    BY <2>1, InformedUnchanged
  <2> QED BY <2>1, <2>2 DEF QuietInv, NothingForgotten
<1>9. CASE Restart
  BY <1>9 DEF Restart, Fault, NothingIsLost
<1>10. CASE UNCHANGED vars
  <2>1. UNCHANGED <<now, health, queued, timer, rec, told, recorded>>
    BY <1>10 DEF vars
  <2>2. \A n \in Notifications : Informed(n) => Informed(n)'
    BY <2>1, InformedUnchanged
  <2>3. \A c \in Checks : ConditionStatus(c)' = ConditionStatus(c)
    BY <2>1 DEF ConditionStatus, Passing
  <2> QED BY <2>1, <2>2, <2>3 DEF QuietInv, NothingForgotten
<1> QED BY <1>3, <1>4, <1>5, <1>6, <1>7, <1>8, <1>9, <1>10 DEF Next

\* Nothing is forgotten: with recipients whose errors are reported, a status
\* that is persisted and one reading of the clock per reconcile, when neither
\* a queued nor a delayed reconcile is left every recipient knows what the
\* reports say, whatever the policies and the failed deliveries.
THEOREM NothingForgottenHolds == NothingIsLost => (Spec => []NothingForgotten)
<1> SUFFICES ASSUME NothingIsLost PROVE Spec => []NothingForgotten
  OBVIOUS
<1>1. Init => QuietInv
  <2> SUFFICES ASSUME Init PROVE QuietInv
    OBVIOUS
  <2>1. rec.pc = "idle" /\ queued = TRUE /\ told = recorded
    BY IdleFacts DEF Init
  <2> QED BY <2>1 DEF QuietInv, NothingForgotten
<1>2. IInv /\ QuietInv /\ [Next]_vars => QuietInv'
  BY QuietStep
<1>3. QuietInv => NothingForgotten
  BY DEF QuietInv
<1> QED BY <1>1, <1>2, <1>3, InitInductive, NextInductive, PTL DEF Spec

=============================================================================
