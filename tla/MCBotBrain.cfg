CONSTANTS
  g1 = g1
  Goals = {g1}
  Bots <- MCBots
  Me = 1
  Messages <- MCMessages
  Difficulty = 2
  AssessTicks = 1
  ExitTicks = 2
  Nobody = Nobody
  Home = Home
  Mate = Mate
  Foe = Foe
SPECIFICATION BrainSpec
INVARIANT BrainTypeOK
PROPERTY CarriersDeliver
INVARIANT MissionsTakeHold
