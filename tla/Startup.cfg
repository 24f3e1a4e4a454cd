CONSTANTS
  Inits <- SharedInits
  MaxFailures = 1
SPECIFICATION Spec

PROPERTY LeaderOnlyAfterWin
CHECK_DEADLOCK FALSE
