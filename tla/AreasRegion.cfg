CONSTANTS
  PAGE_SIZE = 2
  start = 0
  end = 14
  Sizes = {1, 2, 3}
  Bases = {0}
  ITEM_PER_CONTAINER = 2
  MaxContainers = 4
SPECIFICATION AreasSpec
INVARIANT AreasInRegion
CHECK_DEADLOCK FALSE
