SPECIFICATION FairSpec
CONSTANTS
  cpu0 = cpu0
  cpu1 = cpu1
  CPUS <- MC_CPUS
  BSP = cpu0
  NENV = 3
  NBoot = 1
  MaxGen = 2
  NULL = NULL
  Ops = {"destroy", "exofork", "set_status", "yield"}
  Lapses = {}
PROPERTIES ZombiesAreReaped
