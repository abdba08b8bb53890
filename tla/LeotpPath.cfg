SPECIFICATION PathFairSpec
CONSTANTS
  LEOTP_MSS = 4
  LEOTP_OVERHEAD = 1
  LEOTP_WND_RCV = 2
  LEOTP_DEADLINK = 2
  LEOTP_SNDQ_MAX = 10
  LEOTP_INTB_MAX = 4
  MaxHole = 2
  REQ_LEN = 5
  MaxBufSize = 4
  NewOutputs = {0, 4}
  MaxByte = 5
  MaxClears = 0
  DataOutputs = {0, 2}
  BLOCK_LEN = 6
  MaxFaults = 1
INVARIANTS
  ServerTypeOK
  SndQueueAccounted
  OneRetryPerFault
  DatagramsFit
  EachInterestOnce
PROPERTIES
  Delivered
  InsertedAnswersAll
CHECK_DEADLOCK FALSE
