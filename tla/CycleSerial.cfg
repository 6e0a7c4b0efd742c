SPECIFICATION FairSpec
CONSTANTS
  Runs = {r1, r2}
  Before = before
  Owner = owner
  Deps = {d1}
  ByNameDeps = {}
  OptOut = {}
  Images = {i1, i2}
  FirstImage = i1
  MaxAttempts = 0
  MaxRetries = 1
  OneShots = {FALSE}
  Overlap = FALSE
  CanFail = TRUE
  CanKill = TRUE
  None = None
  ByName = ByName
INVARIANTS
  TypeOK
  KnownGoodKept
  AtMostOneUp
  RepairNeverUpgrades
PROPERTIES
  OutcomeTruthful
  Termination
  ImplementsSafeUpdate
CHECK_DEADLOCK FALSE
