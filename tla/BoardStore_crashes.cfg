CONSTANTS
  Socket = {s1, s2}
  Edit = {e1, e2}
  Import = {e2}
  Clearing = {e1}
  Instance = {b1, b2, b3}
  None = None
  MaxFaults = 2
SPECIFICATION Spec
SYMMETRY Symmetry
CHECK_DEADLOCK FALSE
INVARIANTS
  TypeOK
  AckedEditsAreDurable
  OnlyLateWritesBreakTheJournal
  LoadedBoardHasAckedEdits
  OneLiveInstance
PROPERTIES
  SnapshotNeverGoesBack
  ImplementsDurableLog
