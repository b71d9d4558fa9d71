CONSTANTS
  s1 = s1
  s2 = s2
  g1 = g1
  Servers = {s1, s2}
  Users = {u1}
  Guests = {g1}
  Nobody = Nobody
  None = None
  TopRank = 2
  DiThreshold <- Thresholds
  MaxMerit = 2
  MaxTick <- ClockOnFirst
  Strangers <- OneEach
SPECIFICATION FairSpec
INVARIANTS TypeOK RankNotAhead
PROPERTIES CountsAtMostOnce EarnedIsCounted
