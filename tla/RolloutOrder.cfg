SPECIFICATION Spec
CONSTANTS
  Services = {1, 2, 3}
  Scaled = {}
  Conditions = {"started", "completed"}
  Restarts = {FALSE}
  Cycles = TRUE
  Labels = {"enabled"}
  Refs = {"tag"}
  Ids = {"previous"}
  CanFail = TRUE
  Disturbances = 1
  None = None
INVARIANTS
  OrderInv
  Accounted
CHECK_DEADLOCK FALSE
