CONSTANTS
  p1 = p1
  p2 = p2
  t1 = t1
  t2 = t2
  t3 = t3
  Procs = {p1, p2}
  Threads = {t1, t2, t3}
  NULL = NULL
  idle_t = idle_t
  Kernel = Kernel
  Deltas <- MCDeltas
  MaxGap = 4
SPECIFICATION Spec
INVARIANTS Accounted OwnAddressSpace
PROPERTIES NoStarvation DeadCollected
