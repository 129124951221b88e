SPECIFICATION MCFairSpec
CONSTANTS
  Games = 2
  Users = {"adm", "ply"}
  Admins = {"adm"}
  Paranoia = TRUE
  Lines <- MCLines
  MaxLines = 4
  MaxGames = 2
  MaxFaults = 1
INVARIANTS TypeOK NoLineTwice
PROPERTIES NoEntrySkipped CatchesUp ChatIsFetched
