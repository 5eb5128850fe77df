SPECIFICATION PanelSpec
CONSTANTS
  Kinds = {"navigate", "type", "otp", "submitClick"}
  Workloads <- MCWorkloads
  Words = {"w"}
  Answers <- MCAnswers
  Nothing = Nothing
  VERSION_CAP = 3
  MaxSessions = 2
  MaxEvents = 1
  MaxSteps = 3
  MaxEdits = 2
  MaxAsks = 1
PROPERTIES CommitsSaveEdits
CHECK_DEADLOCK FALSE
