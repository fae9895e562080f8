SPECIFICATION StartupFairSpec
CONSTANTS
  Sources = {s1}
  Capacity = 1
  Clients = {c1}
  Idle = {c1}
  Linux = TRUE
  MaxOffers = 1
  Env <- MCEnv
  ParsesAddr <- MCParsesAddr
  Resolves <- MCResolves
  Launches <- PlainLaunch
PROPERTY ShutdownJoins
