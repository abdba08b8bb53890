SPECIFICATION Spec
CONSTANTS
  CLOCK = 128
  USEC = 15
  MaxSlap = 5
  LEOTP_UPDATE_INTERVAL = 1
  LEOTP_RTO_MIN = 1
  LEOTP_RTO_DEF = 2
  LEOTP_RTO_MAX = 4
  ExpoNum = 2
  ExpoDen = 1
  MaxConseq = 2
  LEOTP_DEADLINK = 2
  Starts = {118}
  MaxLag = 1
  MaxSets = 2
  SetTo = {40, 125}
  MaxEvents = 2
  MaxRtt = 2
INVARIANTS
  TypeOK
  FlushesInTime
  NeverLate
PROPERTIES
  NeverEarly
  OversleepsOnlyReadBack
CHECK_DEADLOCK FALSE
