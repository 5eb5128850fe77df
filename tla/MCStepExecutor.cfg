CONSTANTS
  Steps <- MCSteps
  Top <- MCTop
  Kind <- MCKind
  Block <- MCBlock
  OnFailure <- MCOnFailure
  Validated <- MCValidated
  Timeable <- MCTimeable
  MaxRetries = 1
  MaxIterations = 2
  MaxCallDepth = 3
  MaxRuns = 3
  MaxStale = 1
  None = None
SPECIFICATION Spec
INVARIANTS DepthCounts UntimedJumpIsOwn UntimedParamScoped
PROPERTY Settles
CHECK_DEADLOCK FALSE
