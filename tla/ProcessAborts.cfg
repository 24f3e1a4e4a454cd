CONSTANTS
  Inits <- CoreInits
  MaxFailures = 0
SPECIFICATION Spec
INVARIANT ProcessNeverAborts
CHECK_DEADLOCK FALSE
