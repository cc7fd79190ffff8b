SPECIFICATION Spec
CONSTANTS
  cpu0 = cpu0
  cpu1 = cpu1
  env0 = env0
  env1 = env1
  p1 = p1
  p2 = p2
  p3 = p3
  p4 = p4
  p5 = p5
  CPUS <- MC_CPU1
  Envs <- MC_Envs2
  Pages <- MC_Pages5
  Env0 = env0
  VAs <- MC_TwoTables
  RefMod = 32
  UTOP = UTOP
  NULL = NULL
  Lapses = {"bad_map", "bad_send"}
SYMMETRY MC_Symmetry
INVARIANTS CountsExact TablesPrivate
