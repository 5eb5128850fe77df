SPECIFICATION EditorSpec
CONSTANTS
  Files <- MCFiles
  NewKinds = {"plain", "loop", "goto", "condition", "call", "aiscope"}
  FnNames = {"f", "newFunction"}
  newFunction = "newFunction"
  Nothing = Nothing
  Text = Text
  MaxSteps = 3
  MaxFns = 2
  MaxWork = 3
INVARIANTS CleanIsKept
PROPERTIES RowsKeepDocument DragLands
CHECK_DEADLOCK FALSE
