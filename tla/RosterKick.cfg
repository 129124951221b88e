SPECIFICATION Spec
CONSTANTS
  Players = {ann, bob}
  Robots = {}
  OddCBills = {bob}
  KickNames = {ann, bob}
  TeamNames = {}
  MechNames = {}
  Budgets <- KickBudgets
PROPERTIES KickHitsNamedPlayer
