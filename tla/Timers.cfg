SPECIFICATION TimersSpec
CONSTANTS
  Cores = {0}
  BootCore = 0
  UINT64 = 6
  UINT32_MAX = 14
  hpet_period = 4
  lapic_period = 3
  CALIBRATION_DURATION = 23
  Delays = {5, 22}
  Slices = {20, 48}
PROPERTIES SleepsLongEnough NeverEarly Interrupted
