CONSTANTS
  Socket = {s1, s2}
  Edit = {e1, e2}
  Import = {}
  Clearing = {e2}
  Instance = {b1}
  None = None
  MaxFaults = 1
SPECIFICATION FairSpec
PROPERTIES
  EditsAreAnswered
  EditsAreSaved
  UnusedBoardsAreReleased
CHECK_DEADLOCK FALSE
