SPECIFICATION DaemonFair
CONSTANTS
  Live = {"live"}
  Watch = {"watch"}
  Siblings = {"sibling"}
  Opted = {"live", "watch"}
  Targets = {"t1", "t2"}
  Flaky = {"t1"}
  AvailableTo = {"t1", "t2"}
  SucceededTo = {"t2"}
  FailedTo = {"t2"}
  TickArg = 2
  IntervalArg = 3
  StopTimeouts = {1, 30}
  CallTime = 1
  SendTimeout = 1
  Setback = 1
  MaxPublish = 2
  MaxEvents = 2
INVARIANTS
  TimesBounded
  Reported
PROPERTIES
  NewestHeard
