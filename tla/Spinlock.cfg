CONSTANTS
  vmm_lock = vmm_lock
  phys_alloc_lock = phys_alloc_lock
  Cpus = {0, 1}
  Locks = {vmm_lock, phys_alloc_lock}
  Rank <- MCRank
  Section = Section
  MaxFrames = 1
SPECIFICATION FairSpec
INVARIANTS MutualExclusion HolderUninterruptible
PROPERTIES ImplementsMutex SpinningProgress
CHECK_DEADLOCK FALSE
