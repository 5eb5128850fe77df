SPECIFICATION Spec
CONSTANTS
  e1 = e1
  e2 = e2
  m1 = m1
  d1 = d1
  d2 = d2
  None = None
  Elements = {e1, e2}
  Marks = {m1}
  Downloads = {d1, d2}
  MaxRequests = 1
  Slots = {1, 2}
  Steps <- MCSteps
  Scripts <- MCScripts
  Names = {"secret", "result"}
  Secret = "secret"
  ToolResult = "result"
  MaxIterations = 3
  MaxReplans = 1
  MaxMilestones = 2
INVARIANTS
  ArtifactsComplete
  HistoryTold
PROPERTIES
  EndsAsAsked
  StepsEnd
CHECK_DEADLOCK FALSE
