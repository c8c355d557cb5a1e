CONSTANTS
  Cpus = {0, 1, 2}
  MAX_CORES = 3
  NX = TRUE
  NoCpu = NoCpu
SPECIFICATION Spec
INVARIANTS OneBootProcessor Reachable InterruptsFindHandlers CountRight
PROPERTY AllArrive
