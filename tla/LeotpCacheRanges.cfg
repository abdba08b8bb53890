SPECIFICATION FairSpec
CONSTANTS
  Names = {n1}
  BLOCK_LEN = 5
  BLOCK_SEG_NUM = 2
  MAX_BLOCK_NUM = 2
  MaxByte = 7
INVARIANTS
  TypeOK
  RangesSeparated
  GarbageOnlyAfterOverflow
PROPERTIES
  ClaimsOnlyGrow
  CallReturns
