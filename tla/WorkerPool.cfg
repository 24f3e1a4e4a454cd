CONSTANTS
  a1 = a1
  a2 = a2
  m1 = m1
  LogCallers = {a1}
  MsgCallers = {m1}
  N = 2
  MaxCalls <- OneEach
SPECIFICATION Spec
INVARIANT TypeOK
 
CHECK_DEADLOCK FALSE
