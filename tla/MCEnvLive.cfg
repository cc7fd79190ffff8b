SPECIFICATION FairSpec
CONSTANTS
  cpu0 = cpu0
  cpu1 = cpu1
  CPUS <- MC_CPUS
  BSP = cpu0
  NENV = 4
  NBoot = 4
  MaxGen = 2
  NULL = NULL
  Ops = {"yield", "ipc_send", "ipc_recv", "e1000_recv", "e1000_intr", "other"}
  Lapses = {}
PROPERTY EveryRunnableRuns
