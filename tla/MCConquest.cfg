CONSTANTS
  NumSlots = 2
  Planets = {0, 1}
  StartTeam <- OwnHomes
  StartArmies <- TwoArmies
  Homeworld <- Home
  Starbases = FALSE
  ShipTypes = {"AS", "SC"}
  MaxArmies <- OneOrNone
  ArmiesPerKill <- NoKills
  BombMin = 2
  BeamMin = 2
  RefitTicks = 2
  RefitSlots = {0}
  TModeMin = 1
  SurrenderAt = 0
  SurrenderClear = 1
  SurrenderTicks = 1
  WinPauseTicks = 2
  ArmyCap = 2
  KillCap = 0
  None = None
SPECIFICATION Spec
INVARIANT TypeOK
PROPERTIES ImplementsMatch ShipsWorkByTheRules
