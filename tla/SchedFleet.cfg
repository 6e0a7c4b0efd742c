SPECIFICATION Spec
CONSTANTS
  Containers = {a, n, w}
  Cron = {n}
  Watch = {w}
  Project = {a, n}
  Jobs = {}
  MayLeave = {w}
  MayRelabel = {n}
  MayDefer = {a}
  Digests = {d1, d2}
  First = d1
  Bad = {d2}
  PollInterval = 1
  Day = 2
  CanFail = TRUE
  Races = FALSE
  MayShutDown = FALSE
  None = None
INVARIANTS
  NothingTwice
PROPERTIES
  WindowKept
