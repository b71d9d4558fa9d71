CONSTANTS
  Ids = {s1, s2}
  Hosts = {s1}
  NoRow = NoRow
  MaxServers = 1
  Timeout = 1
  SweepEvery = 1
  SweepTakes = 1
  Creates = {c1, c2}
  Tokens = 2
  MaxKeys = 2
SPECIFICATION Spec
SYMMETRY Symmetry
INVARIANTS TypeOK LimitNeedsOverlap GoodTokenOpens
PROPERTY SweepIsTimely
