SPECIFICATION Spec
CONSTANTS
  Tab = {u}
  Moderator = {u}
  MaxPlace = 1
  Size = {1}
  DefaultSize = 2
  MaxSettings = 1
  MaxEdits = 1
  MaxEvents = 2
  Allowed <- Nothing
CHECK_DEADLOCK FALSE
INVARIANTS
  
  ScreensShowTheView
  
  SettingsSurvive
PROPERTIES
  CameraWaitsForStrokes
