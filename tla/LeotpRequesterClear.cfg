SPECIFICATION Spec
CONSTANTS
  LEOTP_MSS = 2
  LEOTP_WND_RCV = 2
  LEOTP_DEADLINK = 2
  LEOTP_SNDQ_MAX = 4
  LEOTP_INTB_MAX = 4
  MaxHole = 2
  REQ_LEN = 2
  MaxBufSize = 3
  NewOutputs = {0, 2}
  MaxByte = 4
  MaxClears = 1
INVARIANTS
  ReceivedIsKept
CHECK_DEADLOCK FALSE
