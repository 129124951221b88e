SPECIFICATION MCSpec
CONSTANTS
  Types <- MCTypes
  TeamBattle = "team battle"
  Maps <- MCMaps
  Offers <- MCOffers
  Searches <- MCSearches
  Finds <- MCFinds
  Begins <- MCBegins
  Tangles = {"tangle"}
  MaxCommands = 4
INVARIANTS TypeOK SwitchesFollow LimitsFollow CacheFits
PROPERTIES TangleStaysOut
CHECK_DEADLOCK FALSE
