SPECIFICATION Spec
CONSTANTS
  Conns = {c1, c2}
  NoConn = NoConn
  PoolSize = 1
  SockCap = 1
  MaxChunks = 1
  MaxReplies = 1
PROPERTY RepliesArrive
CHECK_DEADLOCK FALSE
