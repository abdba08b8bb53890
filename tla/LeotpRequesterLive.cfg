SPECIFICATION FairSpec
CONSTANTS
  LEOTP_MSS = 2
  LEOTP_WND_RCV = 1
  LEOTP_DEADLINK = 2
  LEOTP_SNDQ_MAX = 3
  LEOTP_INTB_MAX = 2
  MaxHole = 2
  REQ_LEN = 1
  MaxBufSize = 2
  NewOutputs = {0, 1, 3}
  MaxByte = 3
  MaxClears = 0
PROPERTIES
  AnsweredOrDead
  ReadyIsRead
CHECK_DEADLOCK FALSE
