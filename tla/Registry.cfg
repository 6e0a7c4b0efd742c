SPECIFICATION RegistrySpec
CONSTANTS
  Probers = {p1, p2}
  Lifetimes = {1, 9, Omitted}
  Omitted = Omitted
  Forever = 9
  DefaultTtl = 3
  Skew = 2
  MaxLag = 1
  MaxFaults = 1
  MaxChanges = 1
  NoToken = NoToken
INVARIANTS
  RegistryInv
  HonestVerdict
PROPERTIES
  Recovers
