SPECIFICATION Spec
CONSTANTS
  cpu0 = cpu0
  cpu1 = cpu1
  CPUS <- MC_CPUS
  BSP = cpu0
  NENV = 3
  NBoot = 2
  MaxGen = 2
  NULL = NULL
  Ops <- AllOps
  Lapses = {}
INVARIANTS SingleCpu StatusMatchesCpus FreeListExact WaitersAreBlocked MonitorMeansIdle 
PROPERTIES ZombieFreedByItsTrap
