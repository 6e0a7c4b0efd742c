SPECIFICATION Spec
CONSTANTS
  Services = {1, 2}
  Scaled = {1}
  Conditions = {"started", "completed"}
  Restarts = {TRUE, FALSE}
  Cycles = FALSE
  Labels = {"enabled", "unlabelled", "watch", "barred", "leftover"}
  Refs = {"tag", "alias", "digest"}
  Ids = {"previous", "current"}
  CanFail = FALSE
  Disturbances = 1
  None = None
INVARIANTS
  SchemaFirst
  LeftAlone
  BumpedExactly
CHECK_DEADLOCK FALSE
