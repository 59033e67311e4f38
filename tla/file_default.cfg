CONSTANTS
  long = long
  short = short
  a = a
  b = b
  c = c
  noise = noise
  NoPeer = NoPeer
  NoBlock = NoBlock
  Pieces <- TwoPieces
  Peers <- ThreePeers
  TotalBlocks <- OneAndOne
  MinBlocks = 1
  DefaultPriority = 10
  MaxPriority = 11
  Garbage <- Noise
  TrimmedLength <- Lengths
SPECIFICATION FairFileSpec
INVARIANTS FileTypeOK Accounting NeverWedged
PROPERTIES DeliverySpec FileEnds EveryDownloadEnds
