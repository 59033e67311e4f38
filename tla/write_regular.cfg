CONSTANTS
  BlockSize = 2
  MaxLength = 8
  Layouts <- Torrents
SPECIFICATION Spec
INVARIANTS TypeOK InPlace Whole
