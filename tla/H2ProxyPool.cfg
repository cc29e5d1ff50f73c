SPECIFICATION Spec
CONSTANTS
  Conns = {c1, c2}
  NoConn = NoConn
  PoolSize = 2
  SockCap = 1
  MaxChunks = 1
  MaxReplies = 1
PROPERTIES LoopsEnd RepliesArrive ReactorFreed
CHECK_DEADLOCK FALSE
