SPECIFICATION Spec
CONSTANTS
  Udp = Udp
  Acceptor = Acceptor
  Conns = {c1, c2}
  RingCapacity = 1
  MaxConnections = 1
  Linux = FALSE
  SocketQueue = 1
  MaxDatagrams = 2
  MaxFrames = 2
  MaxFaults = 1
SYMMETRY ClientSymmetry
INVARIANTS
  TypeOK
  LiveCount
  ConnectionCap
  DeliveredExact
  AllAccounted
PROPERTIES
  RejectsOnlyWhenFull
  ImplementsRing
