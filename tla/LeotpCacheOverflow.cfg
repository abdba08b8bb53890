SPECIFICATION Spec
CONSTANTS
  Names = {n1}
  BLOCK_LEN = 5
  BLOCK_SEG_NUM = 2
  MAX_BLOCK_NUM = 1
  MaxByte = 5
INVARIANTS
  InsertStores
