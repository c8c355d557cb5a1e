CONSTANTS
  Frames = {1, 2, 3, 4, 5, 6}
  Devices = {20}
  KernelRoot = 10
  Users = {"u"}
  Kernel = "k"
  FAN = 2
  LEVELS = 2
  ITEM_PER_CONTAINER = 2
  nx_flag_enabled = TRUE
  Pages = {1, 2}
  Region <- MCRegion
  Flags <- MCFlags
SPECIFICATION SpecUncleared
INVARIANT Isolation
CHECK_DEADLOCK FALSE
