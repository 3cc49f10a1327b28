SPECIFICATION Spec
CONSTANTS
  run1 = run1
  run2 = run2
  old = old
  None = None
  Partial = Partial
  Garbled = Garbled
  Tools = {run1, run2}
  Files <- MCFiles
  Contents = {old}
  MaxTime = 1
  MaxEdits = 1
SYMMETRY Runs
INVARIANTS TypeOK RootsAreBacked LogIsBacked LastRunHeals SameRepoSameRoot
CHECK_DEADLOCK FALSE
