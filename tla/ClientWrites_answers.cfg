SPECIFICATION Spec
CONSTANTS
  Item = {1, 2}
  MaxWrites = 2
  MaxOthers = 1
  MaxCuts = 1
  MaxUndos = 1
  MaxTokens = 1
  Allowed <- Nothing
CHECK_DEADLOCK FALSE
INVARIANTS
  ScreenIsBoardPlusPending
  EditsArriveOnceInOrder

  
