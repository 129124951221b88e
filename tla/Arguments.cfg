SPECIFICATION FairSpec
CONSTANTS
  Chars <- Alphabet
  Texts <- MCTexts
  MaxText = 5
  MaxArgs = 4
  Bare <- MCBare
  Inside <- MCInside
INVARIANTS
  TypeOK
  ReadAsMeant
  LettersKept
PROPERTIES
  Ends
CHECK_DEADLOCK FALSE
