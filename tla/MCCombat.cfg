CONSTANTS
  FED = FED
  ROM = ROM
  NumSlots = 2
  Teams = {FED, ROM}
  MaxTorps = 1
  TorpLife = 2
  PlasmaLife = 2
  ExplosionTicks = 2
  RespawnDelay = 2
  WinPauseTicks = 2
  Free = Free
SPECIFICATION FairSpec
INVARIANTS TypeOK ArmsWithinLimits TorpsHaveFirer
PROPERTIES ChainEndsNextTick DeathIsTemporary
