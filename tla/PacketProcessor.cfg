SPECIFICATION FairSpec
CONSTANTS
  k1 = k1
  k2 = k2
  w1 = w1
  w2 = w2
  d1 = d1
  Lanes <- MCLanes
  Workers <- MCWorkers
  Worlds <- MCWorlds
  PacketLimit = 2
  MaxPackets = 3
  NoWork = NoWork
CHECK_DEADLOCK FALSE
INVARIANTS
  IndexesAgree
  StartedInOrder
  TickIsIsolated
PROPERTY
  ServerAdvances
