SPECIFICATION Spec
CONSTANTS
  LEOTP_MSS = 2
  LEOTP_OVERHEAD = 1
  LEOTP_WND_RCV = 2
  LEOTP_INTB_MAX = 2
  MaxHole = 2
  NewOutputs = {0, 1, 3}
  BLOCK_LEN = 3
  BLOCK_SEG_NUM = 1
  MaxByte = 4
  MaxInputs = 3
INVARIANTS
  TypeOK
  NeverRefuses
  NothingForgotten
  SndQueueAccounted
  WaitsOnlyForRoom
PROPERTIES
  NextNodeSeesNoHole
  QueuedReachesCache
CHECK_DEADLOCK FALSE
