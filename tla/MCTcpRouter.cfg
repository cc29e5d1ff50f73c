SPECIFICATION Spec
CONSTANTS
  Conns = {c1}
  Exts = {e1, e2}
  NoExt = NoExt
  ChunkLens <- ShortAndLong
  DetectBytes = 8
  MaxChunks = 3
  MaxReplies = 2
  MaxRegs = 2
INVARIANTS TypeOK StreamInv RepliesFromSink PausedForAReason PeerIsLive
PROPERTIES StreamSwitched SentIsRead LegsCloseTogether
CHECK_DEADLOCK FALSE
