SPECIFICATION FairSpec
CONSTANTS
  Players = {ann, bob}
  Robots = {}
  OddCBills = {bob}
  KickNames = {bob}
  TeamNames = {ann}
  MechNames = {ann}
  Budgets <- MCBudgets
INVARIANTS TypeOK DistinctRows 
PROPERTIES KickHitsWhenInSync TeamsHitWhenInSync Converges OrdersServed
