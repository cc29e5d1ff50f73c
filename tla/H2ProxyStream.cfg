SPECIFICATION Spec
CONSTANTS
  Conns = {c1}
  NoConn = NoConn
  PoolSize = 1
  SockCap = 1
  MaxChunks = 3
  MaxReplies = 2
INVARIANT TypeOK
PROPERTIES StreamSwitched SentIsRead
CHECK_DEADLOCK FALSE
