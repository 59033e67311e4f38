CONSTANTS
  first = first
  second = second
  NoStream = NoStream
  Streams <- TwoStreams
  FirstPiece <- StartTwo
  LastPiece <- EndTwo
  MaxConcurrent = 3
  QueueLimit = 9
  Failing <- NoPieces
SPECIFICATION Spec
INVARIANT OwnPieces
CHECK_DEADLOCK FALSE
