SPECIFICATION Spec
CONSTANTS
  Runs = {r1}
  Before = before
  Owner = owner
  Deps = {d1}
  ByNameDeps = {}
  OptOut = {}
  Images = {i1, i2}
  FirstImage = i1
  MaxAttempts = 1
  MaxRetries = 1
  OneShots = {FALSE}
  Overlap = FALSE
  CanFail = TRUE
  CanKill = FALSE
  None = None
  ByName = ByName
INVARIANTS
  FailedStartRestored
CHECK_DEADLOCK FALSE
