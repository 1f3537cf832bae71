--------------------------- MODULE MCNotification ---------------------------
(* Instances of NotificationDelivery for TLC.                                *)
EXTENDS NotificationDelivery

\* Setting 0 for a duration is an unset one.
PolicyOf(transition, interval, failing) ==
  [onlyOnTransition |-> transition, minInterval |-> interval, failingFor |-> failing]

\* n1: no policy; n2: both durations.
PlainAndPolicy == [n \in Notifications |->
  IF n = "n1" THEN PolicyOf(FALSE, 0, 0) ELSE PolicyOf(FALSE, 3, 2)]

\* n1: transitions at least 3 ticks apart; n2: failures that last 3 ticks.
TransitionAndFailing == [n \in Notifications |->
  IF n = "n1" THEN PolicyOf(TRUE, 3, 0) ELSE PolicyOf(FALSE, 0, 3)]

=============================================================================
