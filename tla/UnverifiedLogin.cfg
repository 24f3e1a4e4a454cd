CONSTANTS
  t1 = t1
  t2 = t2
  k1 = k1
  k2 = k2
  bypass = bypass
  s1 = s1
  Tabs <- OneTab
  Codes = {k1}
  Bypass = bypass
  Supers <- OneSuper
  MaxTry = 1
  MaxIssues = 1
  MaxOtps = 1
  MaxCallbacks = 1
  RedisFails = FALSE
SPECIFICATION Spec
PROPERTY OnlyVerifiedGetTokens
CHECK_DEADLOCK FALSE
