SPECIFICATION InputSpec
CONSTANTS
  Modes = {"live", "watch", "off"}
  Timeouts = {2, 120}
  Minutes = {2}
  Commands = {c1, c2}
  Careless = FALSE
  Absent = Absent
  Junk = Junk
  Invalid = Invalid
  Dotted = {"docker.io", "index.docker.io", "quay.io", "my.app"}
  Plain = {"localhost", "library", "app"}
  NoImage = NoImage
  Unit <- Calendar
  WordSize = 256
  Forward = 15
  Back = 29
  Shift = 2
  Horizon = 40
  MaxGap = 7
  LastMinute = 40
  NoStep = NoStep
  Never = Never
  Malformed = Malformed
  Unset = Unset
  Bad = Bad
  Refused = Refused
  Unknown = Unknown
  FailedCall = FailedCall
  Hex = {"1", "2", "3"}
  ShortLength = 3
  Nothing = Nothing
INVARIANTS
  OptOutsAgree
  OverridesNoted
  ReferencesAgree
  FieldsRead
  ConfigurationKept
  IdentityKept
  TableConsistent
PROPERTIES
  MigrationUnnoticed
  EveryWindow
CHECK_DEADLOCK FALSE
