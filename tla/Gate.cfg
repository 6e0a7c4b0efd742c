SPECIFICATION Spec
CONSTANTS
  HealthTimeout = 12
  Grace = 5
  ExitTimeout = 7
  PollInterval = 2
  ProbeTime = 2
INVARIANTS
  GateInv
  GraceHonoured
  VerdictTruthful
