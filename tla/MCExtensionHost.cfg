CONSTANTS
  OldRun = old
  None = None
  Clients = {x, y}
  Outdated = {}
  Conns = {c1, c2}
  Cmds = {m1}
  RunIds = {r1}
SPECIFICATION Spec
INVARIANT RunAgreed
PROPERTIES SettledOnce LinkSpec HelloAnswered
CHECK_DEADLOCK FALSE
