CONSTANTS
  t1 = t1
  t2 = t2
  k1 = k1
  k2 = k2
  bypass = bypass
  s1 = s1
  Tabs <- TwoTabs
  Codes = {k1, k2}
  Bypass = bypass
  Supers <- NoSupers
  MaxTry = 1
  MaxIssues = 1
  MaxOtps = 1
  MaxCallbacks = 1
  RedisFails = FALSE
SPECIFICATION Spec
INVARIANT AttemptsLimited
CHECK_DEADLOCK FALSE
