SPECIFICATION Spec
CONSTANTS
  Slots = 2
  MaxHealth = 2
  Dice = 1
  OdesPerPlayer = 2
  MaxWards = 2
  MaxSkills = 3
INVARIANTS
  HealAccepted
CHECK_DEADLOCK FALSE
