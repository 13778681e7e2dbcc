SPECIFICATION Spec
CONSTANTS
  Socket = {s, t}
  Point = {p}
  MaxChildren = 2
  MaxLines = 2
  MaxTime = 1
  MaxEvents = 1
SYMMETRY Alike
CHECK_DEADLOCK FALSE
INVARIANTS
  
  RestartFindsTheStrokes
  
