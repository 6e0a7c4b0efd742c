SPECIFICATION FairSpec
CONSTANTS
  Containers = {a, b, c}
  Cron = {b}
  Watch = {}
  Project = {a, b}
  Jobs = {j}
  MayLeave = {}
  MayRelabel = {}
  MayDefer = {}
  Digests = {d1, d2, d3}
  First = d1
  Bad = {d2}
  PollInterval = 2
  Day = 2
  CanFail = FALSE
  Races = FALSE
  MayShutDown = TRUE
  None = None
INVARIANTS
  LoopInv
PROPERTIES
  EventuallyCurrent
  Stops
