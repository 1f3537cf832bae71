SPECIFICATION Spec
CONSTANTS
  Checks = {"h1"}
  Messages = {"m1", "m2"}
  Notifications = {"n1", "n2"}
  Teams = {}
  Policy <- PlainAndPolicy
  RetryAfter = 1
  TicksPerSecond = 2
  ClockRuns = FALSE
  Faults = {"delivery", "evaluation"}
  MaxFaults = 2
  MaxTime = 6
INVARIANTS
  NothingForgotten
  DeliveryRecordIsTrue
CHECK_DEADLOCK FALSE
