SPECIFICATION Spec
CONSTANTS
  Runs = {r1, r2}
  Before = before
  Owner = owner
  Deps = {}
  ByNameDeps = {}
  OptOut = {}
  Images = {i1, i2}
  FirstImage = i1
  MaxAttempts = 1
  MaxRetries = 1
  OneShots = {FALSE}
  Overlap = TRUE
  CanFail = TRUE
  CanKill = TRUE
  None = None
  ByName = ByName
INVARIANTS
  KnownGoodKept
  DownMeansReported
CHECK_DEADLOCK FALSE
