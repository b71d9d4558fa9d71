CONSTANTS
  NumSlots = 3
  Teams = {"FED", "ROM"}
  Planets = {"FED"}
  MaxDock = 1
  RefitTicks = 2
  NumBots = 1
  BaseSlots = {0}
  LockSlots = {0}
  None = None
SPECIFICATION Spec
INVARIANT TypeOK
PROPERTY DocksSurviveTicks
