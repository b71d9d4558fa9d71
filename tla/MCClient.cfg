CONSTANTS
  Keys <- MCKeys
  OwnMacros <- MCOwnMacros
  QueueMax = 2
  MaxUp = 2
  MaxDown = 2
  MaxHeld = 1
SPECIFICATION ClientSpec
INVARIANTS ClientTypeOK LeftoversAreHarmless
PROPERTIES RestartOnlyInHaste ScreenFollowsShip
