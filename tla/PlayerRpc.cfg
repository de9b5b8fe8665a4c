SPECIFICATION Spec
CONSTANTS
  InitTotalActionTime = 1
  RoundTotalActionTime = 2
  ActionTime = 1
  RerollTime = 1
  MaxRpcs = 4
  MaxMutations = 1
  MaxRounds = 1
INVARIANTS
  RoundTimeIsAccounted
  AnswersFit
  GivenUpAfterThree
  ConnectedIsShown
PROPERTIES
  Settles
CHECK_DEADLOCK FALSE
