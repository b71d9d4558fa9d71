CONSTANTS
  Users = {u1, u2, u3}
  Bot = Bot
  NoOne = NoOne
  NoBot = NoBot
  NumSlots = 4
  BotsPerTeam = 1
  MaxPlayersPerTeam = 2
  Conns = {c1, c2, c3}
  NoConn = NoConn
  NoSlot = NoSlot
  WinPauseTicks = 2
  TModeMin = 1
  HumanCap = 2
SPECIFICATION Spec
SYMMETRY Symmetry
PROPERTIES ResetKeepsSlots
