CONSTANTS
  a1 = a1
  a2 = a2
  m1 = m1
  LogCallers = {a1, a2}
  MsgCallers = {}
  N = 2
  MaxCalls <- ThreeEach
SPECIFICATION Spec
PROPERTY CallsReturn
CHECK_DEADLOCK FALSE
