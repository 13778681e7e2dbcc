SPECIFICATION Spec
CONSTANTS
  Shapes = {1, 2}
  Texts = {3, 4}
  Lines = {5, 6}
  Furnished = {3}
  Toolbars <- SmallToolbars
  MaxPoints = 2
  MaxInputs = 3
  MaxMoves = 2
  MaxMishaps = 1
CHECK_DEADLOCK FALSE
INVARIANTS
  ScreensAgreeWhenSettled
  DragsWhatWasSelected
  PinchesLeaveNothing
