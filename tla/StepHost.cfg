SPECIFICATION FairHostSpec
CONSTANTS
  MaxRounds = 3
  MaxRerolls = 1
  MaxActions = 1
  MaxEffects = 1
  PromptPause = FALSE
  CallbackGiveUp = FALSE
INVARIANTS
  StepReturns
PROPERTIES
  MatchEnds
  HostSeesMatch
CHECK_DEADLOCK FALSE
