SPECIFICATION Spec
CONSTANTS
  Checks = {"h1"}
  Messages = {"m1"}
  Notifications = {"n1", "n2"}
  Teams = {"n1"}
  Policy <- PlainAndPolicy
  RetryAfter = 1
  TicksPerSecond = 2
  ClockRuns = TRUE
  Faults = {"delivery"}
  MaxFaults = 1
  MaxTime = 4
INVARIANTS
  DeliveryRecordIsTrue
CHECK_DEADLOCK FALSE
