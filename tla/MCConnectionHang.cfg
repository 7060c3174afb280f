CONSTANTS
  Conn = {c1}
  Worker = {w1, w2}
  Owner = owner
  NULL = NULL
  HdrSz = 1
  PduSz = 2
  RepSizes = {1, 2}
  SockBuf = 1
  QueueMax = 1
  MaxPdu = 2
  Lossy = FALSE
SPECIFICATION FairSpec
PROPERTY SendReturns
CHECK_DEADLOCK FALSE
