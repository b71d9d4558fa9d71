CONSTANTS
  StartHeld <- SmallGalaxy
  TModeMin = 2
  SurrenderAt = 1
  SurrenderClear = 3
  SurrenderTicks = 3
  WinPauseTicks = 2
  MaxCrew = 3
SPECIFICATION FairSpec
INVARIANTS TypeOK JudgedRightly
PROPERTY MatchGoesOn
