CONSTANTS
  Socket = {s1, s2, s3}
  Edit = {e1, e2}
  Import = {}
  Clearing = {}
  Instance = {b1, b2, b3}
  None = None
  MaxFaults = 0
SPECIFICATION Spec
SYMMETRY Symmetry
INVARIANTS
  JournalIsReadable
CHECK_DEADLOCK FALSE
