CONSTANTS
  N = 2
  Cmds = {m1, m2}
  Policies = {"retry", "skip", "abort"}
  Targets <- MCTargets
  MaxRetries = 1
  MaxExecutions = 4
  MaxCmds = 2
  NoCheckpoint = NoCheckpoint
SPECIFICATION Spec
INVARIANTS BoundaryKeepsEnded
PROPERTIES StepsStartConnected RunEnds
CHECK_DEADLOCK FALSE
