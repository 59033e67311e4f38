CONSTANTS
  first = first
  second = second
  NoStream = NoStream
  Streams <- OneStream
  FirstPiece <- StartFive
  LastPiece <- EndFive
  MaxConcurrent = 3
  QueueLimit = 9
  Failing <- NoPieces
SPECIFICATION Spec
INVARIANT SequentialComplete
CHECK_DEADLOCK FALSE
