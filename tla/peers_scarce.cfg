CONSTANTS
  long = long
  short = short
  a = a
  b = b
  c = c
  NoPeer = NoPeer
  NoBlock = NoBlock
  Pieces <- TwoPieces
  Peers <- TwoPeers
  TotalBlocks <- TwoAndOne
  MinBlocks = 1
  DefaultPriority = 10
  MaxPriority = 11
  Garbage = {}
SPECIFICATION Spec
INVARIANTS TypeOK PeerConservation
PROPERTIES CyclesAsk PriorityFollowsService TasksSpec
CHECK_DEADLOCK FALSE
