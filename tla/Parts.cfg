CONSTANTS
  Cpus = {0, 1, 2}
  NoCpu = NoCpu
  ram_start = 6
  ram_size = 11
  Entities <- MCEntities
  vruntime <- MCKeys
  RbNodes <- MCEntities
  NULL = 0
  p1 = p1
  p2 = p2
  p3 = p3
  Nodes = {p1, p2, p3}
  lst = lst
  NoNode = NoNode
  PAGE_SIZE = 2
  start = 0
  end = 14
  Sizes <- MCSizes
  Bases <- MCBases
  ITEM_PER_CONTAINER = 2
  MaxContainers = 4
  INT_BITS = 8
  MAX_CORES = 2
  MAX_MODULES = 2
  WIDTH = 3
  HEIGHT = 3
  MAX_RETRY = 3
  Scancodes = {14, 28, 29, 30, 48, 88, 90, 158, 224}
SPECIFICATION MCSpec
INVARIANTS Exclusive NoLeak RedBlack Linked AreasDisjoint LookupRight SlotsDistinct MovesRight StringsRight PrintsRight TablesRead NothingLeftOver DisplayShowsText
PROPERTIES ImplementsPool ImplementsQueue ImplementsDeque ImplementsScreen
CHECK_DEADLOCK FALSE
