CONSTANTS
  HandshakeLength = 68
  MaxMessages = 3
  Streams <- Sequences
SPECIFICATION FairSpec
INVARIANTS TypeOK   
PROPERTIES Shrinks ParseEnds
CHECK_DEADLOCK FALSE
