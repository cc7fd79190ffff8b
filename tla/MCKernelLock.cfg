SPECIFICATION FairSpec
CONSTANTS
  cpu0 = cpu0
  cpu1 = cpu1
  cpu2 = cpu2
  CPUS <- MC_CPUS
  BSP = cpu0
  NoCpu = NoCpu
  MayPanic = TRUE
INVARIANTS MutualExclusion NoLockPanic PanicKeepsOthersOut
PROPERTIES BootCompletes 
CHECK_DEADLOCK FALSE
