SPECIFICATION Spec
CONSTANTS
  LEOTP_MSS = 3
  LEOTP_WND_RCV = 2
  LEOTP_DEADLINK = 2
  LEOTP_SNDQ_MAX = 4
  LEOTP_INTB_MAX = 4
  MaxHole = 2
  REQ_LEN = 5
  MaxBufSize = 3
  NewOutputs = {0, 3}
  MaxByte = 5
  MaxClears = 1
INVARIANTS
  TypeOK
  EveryByteOnce
  IntBufAccounted
  QueueInOrder
  RunsDescribeBuf
  HolesInOrder
  CreditKept
PROPERTIES
  AnsweredStays
  StreamSpec
CHECK_DEADLOCK FALSE
