SPECIFICATION Spec
CONSTANTS
  Checks = {"h1", "h2"}
  Messages = {"m1"}
  Notifications = {"n1", "n2"}
  Teams = {}
  Policy <- TransitionAndFailing
  RetryAfter = 1
  TicksPerSecond = 2
  ClockRuns = TRUE
  Faults = {"delivery", "evaluation", "close", "restart"}
  MaxFaults = 1
  MaxTime = 4
INVARIANTS
  TypeOK
PROPERTIES
  MinIntervalRespected
  FailingForRespected
  NoRepeatedNotification
CHECK_DEADLOCK FALSE
