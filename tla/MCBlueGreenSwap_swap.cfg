SPECIFICATION Spec
CONSTANTS
  MaxDeploys = 3
  MaxFaults = 2
  MaxCancels = 2
  Overlap = TRUE
CONSTRAINT TwoMishaps
INVARIANTS TypeOK AlwaysServed NoLeftover
PROPERTIES FailureKeepsOld SuccessIsInProduction
CHECK_DEADLOCK FALSE
