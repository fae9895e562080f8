SPECIFICATION StartupFairSpec
CONSTANTS
  Sources = {s1}
  Capacity = 2
  Clients = {c1}
  Idle = {}
  Linux = TRUE
  MaxOffers = 3
  Env <- MCEnv
  ParsesAddr <- MCParsesAddr
  Resolves <- MCResolves
  Launches <- MCLaunches
INVARIANTS SubstExact ScrapeSkew HandedInOrder LossBounded
PROPERTIES ShutdownJoins RingDrained
