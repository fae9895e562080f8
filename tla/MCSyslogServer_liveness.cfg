SPECIFICATION FairSpec
CONSTANTS
  Udp = Udp
  Acceptor = Acceptor
  Conns = {c1, c2}
  RingCapacity = 1
  MaxConnections = 1
  Linux = TRUE
  SocketQueue = 1
  MaxDatagrams = 1
  MaxFrames = 1
  MaxFaults = 1
PROPERTIES
  ShutdownSettles
  StopReturns
  BacklogServed
