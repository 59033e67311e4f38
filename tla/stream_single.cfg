CONSTANTS
  first = first
  second = second
  NoStream = NoStream
  Streams <- OneStream
  FirstPiece <- StartFive
  LastPiece <- EndFive
  MaxConcurrent = 3
  QueueLimit = 1
  Failing <- SomeFail
SPECIFICATION FairSpec
INVARIANTS TypeOK PermitsAccounted PieceInOnePlace Ascending
PROPERTIES DeliverySpec 
