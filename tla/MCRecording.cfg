CONSTANTS
  Ids = {i1, i2}
  Tabs = {t1}
  Urls = {u1}
  MaxHandlers = 2
  Files <- MCFiles
  Updates = {"stop", "pause", "resume"}
  MaxEvents = 2
  MaxCommands <- MCMaxCommands
  MaxEvictions = 1
  None = None
SPECIFICATION Spec
INVARIANTS RecorderFollows
PROPERTIES NothingLost HistoryKept
CHECK_DEADLOCK FALSE
