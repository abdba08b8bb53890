SPECIFICATION Spec
CONSTANTS
  Names = {n1}
  BLOCK_LEN = 3
  BLOCK_SEG_NUM = 1
  MAX_BLOCK_NUM = 2
  MaxByte = 7
INVARIANTS
  LruAgrees
  ReadIsLongestPrefix
  InsertCompletes
PROPERTIES
  StoreSpec
