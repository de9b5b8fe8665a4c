SPECIFICATION Spec
CONSTANTS
  MaxRounds = 3
  MaxRerolls = 1
  MaxActions = 1
  MaxEffects = 1
  PromptPause = FALSE
INVARIANTS
  InHome
  TurnDiscipline
  RoundDiscipline
