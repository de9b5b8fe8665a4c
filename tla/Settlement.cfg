SPECIFICATION Spec
CONSTANTS
  Slots = 2
  MaxHealth = 2
  Dice = 1
  OdesPerPlayer = 1
  MaxWards = 2
  MaxSkills = 3
INVARIANTS
  EndIffFallen
  ActiveAliveAtRest
  ErrorOnlyAfterEnd
  AliveHasHealth
CHECK_DEADLOCK FALSE
