CONSTANTS
  Inits <- AdminOnly
  MaxFailures = 1
SPECIFICATION Spec
PROPERTY LeaderEventuallyKnown
CHECK_DEADLOCK FALSE
