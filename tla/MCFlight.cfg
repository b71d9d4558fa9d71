CONSTANTS
  MaxWarp = 3
  OrbitMaxWarp = 2
  MaxFuel = 2
  UncloakTicks = 2
SPECIFICATION FlightSpec
INVARIANTS FlightTypeOK SystemsExclude BotKeepsWorking
