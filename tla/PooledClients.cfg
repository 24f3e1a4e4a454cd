CONSTANTS
  c1 = c1  c2 = c2  k1 = k1  k2 = k2  None = None
  Conns = {c1, c2}
  Objs = {k1}
  Topics <- MCTopics
  Frames <- AnyFrames
  MaxConnections = 1
  MaxFrames = 1
  MaxSubs = 2
  MaxPublish = 1
SPECIFICATION Spec
SYMMETRY ConnSymmetry
INVARIANT TypeOK
INVARIANT SubscribeIdempotent
CHECK_DEADLOCK FALSE
