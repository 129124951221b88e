SPECIFICATION MCSpec
CONSTANTS
  Names = {fancy, ann, bob}
  BotName = fancy
  MaxLog = 5
  MaxLines = 2
INVARIANTS TypeOK StatsCoherent StreaksMatchHistory KillsAreDeaths
PROPERTIES OverallNeverShrinks
SYMMETRY Players
