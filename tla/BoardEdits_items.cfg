SPECIFICATION Spec
CONSTANTS
  Id = {1, 2, 3}
  User = {ann, bob}
  MaxItems = 2
  MaxChildren = 2
  MaxActions = 2
  MaxRestored = 2
  MaxEdits = 4
  ann = ann
  bob = bob
  Supply <- FewOthers
  Allowed <- Nothing
SYMMETRY Users
CHECK_DEADLOCK FALSE
INVARIANTS
  MemoryIsWhatIsShown
  StoredIsWhatWasShown
  RestartRestores
  UndoRemembers
PROPERTIES
  ReversalsKeepOthersEdits
  UndoIsUndoneByRedo
