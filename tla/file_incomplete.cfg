CONSTANTS
  long = long
  short = short
  a = a
  b = b
  c = c
  noise = noise
  NoPeer = NoPeer
  NoBlock = NoBlock
  Pieces <- TwoPieces
  Peers <- ThreePeers
  TotalBlocks <- OneAndOne
  MinBlocks = 1
  DefaultPriority = 10
  MaxPriority = 11
  Garbage = {}
  TrimmedLength <- Lengths
SPECIFICATION FileSpec
INVARIANT ReturnedComplete
CHECK_DEADLOCK FALSE
