CONSTANTS
  Users = {u1, u2}
  Bot = Bot
  NoOne = NoOne
  NoBot = NoBot
  NumSlots = 3
  BotsPerTeam = 1
  MaxPlayersPerTeam = 1
  Conns = {c1, c2}
  NoConn = NoConn
  NoSlot = NoSlot
  WinPauseTicks = 2
  TModeMin = 1
  HumanCap = 2
SPECIFICATION Spec
SYMMETRY Symmetry
INVARIANTS TypeOK OneSessionPerUser ShipsHavePilots HumansNotUndercounted
PROPERTIES SharingStartsOnlyAt BotsFlyAfterTick
