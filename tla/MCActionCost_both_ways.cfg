SPECIFICATION Spec
CONSTANTS
  Colors = {1, 2}
  TunesTo = 1
  Costs <- MCCosts
  MaxDice = 3
  MaxLayer = 2
  MaxModifiers = 2
  BothWays = TRUE
PROPERTIES
  IncreaseNeverCheapens
CHECK_DEADLOCK FALSE
