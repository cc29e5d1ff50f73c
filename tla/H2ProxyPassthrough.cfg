SPECIFICATION Spec
CONSTANTS
  Conns = {c1}
  NoConn = NoConn
  PoolSize = 1
  SockCap = 1
  MaxChunks = 1
  MaxReplies = 2
PROPERTY DefaultHandlerAlone
CHECK_DEADLOCK FALSE
