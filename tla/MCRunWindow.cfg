SPECIFICATION Spec
CONSTANTS
  None = None
  User = User
  Windows = {w1, w2}
  Ops = {"open", "close", "navigate", "wait", "click", "appear"}
  Elements <- MCElements
  MaxCommands <- MCCommands
  MaxEvictions = 1
INVARIANTS OwnCloseSilent UserCloseTold NoOrphan ActsInWindow
PROPERTY CommandsAnswered
CHECK_DEADLOCK FALSE
