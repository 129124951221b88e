SPECIFICATION MCFairSpec
CONSTANTS
  Texts <- MCTexts
  Seps <- MCSeps
  Length = 2
  MaxKeys = 2
  MaxLost = 1
  MaxPieces = 6
INVARIANTS TypeOK Conserved OnceInOrder
PROPERTIES Ends
