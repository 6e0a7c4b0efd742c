SPECIFICATION Spec
CONSTANTS
  Runs = {r1, r2}
  Before = before
  Owner = owner
  Deps = {d1, d2}
  ByNameDeps = {d2}
  OptOut = {}
  Images = {i1, i2}
  FirstImage = i1
  MaxAttempts = 1
  MaxRetries = 1
  OneShots = {FALSE, TRUE}
  Overlap = FALSE
  CanFail = FALSE
  CanKill = FALSE
  None = None
  ByName = ByName
INVARIANTS
  DependentsRepaired
PROPERTIES
  PinnedOnlyBehindTag
  FailureEvidenceKept
CHECK_DEADLOCK FALSE
