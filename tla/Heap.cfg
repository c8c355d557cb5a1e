CONSTANTS
  WORDS = 24
  Sizes = {1, 4, 8}
SPECIFICATION HeapSpec
INVARIANTS Tiled BlocksIntact NothingLost
CHECK_DEADLOCK FALSE
