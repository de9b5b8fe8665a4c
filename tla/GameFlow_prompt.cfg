SPECIFICATION FairSpec
CONSTANTS
  MaxRounds = 2
  MaxRerolls = 2
  MaxActions = 1
  MaxEffects = 2
  PromptPause = TRUE
INVARIANTS
  TypeOK
  ResultIsWinner
PROPERTIES
  EndIsFinal
  SkipIsHonored
  OneRpcPerPlayer
  ImplementsMatch
  LoopEnds
