SPECIFICATION Spec
CONSTANTS
  Names = {n1, n2}
  Deck = 1
  InitialHands = 1
  MaxHands = 2
  MaxPile = 3
  MaxCards = 4
  MaxCount = 2
  MaxRepeats = 2
SYMMETRY Alike
INVARIANTS
  CardsConserved
PROPERTIES
  OverflowHasCause
  SwitchIsFair
  SpreadEvenly
CHECK_DEADLOCK FALSE
