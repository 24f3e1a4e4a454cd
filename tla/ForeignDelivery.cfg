CONSTANTS
  c1 = c1  c2 = c2  k1 = k1  k2 = k2  None = None
  Conns = {c1, c2}
  Objs = {k1}
  Topics <- MCTopics
  Frames <- SubUnsubFrames
  MaxConnections = 2
  MaxFrames = 1
  MaxSubs = 2
  MaxPublish = 1
SPECIFICATION Spec
INVARIANT NoForeignDelivery
CHECK_DEADLOCK FALSE
