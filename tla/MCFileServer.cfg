SPECIFICATION FairSpec
CONSTANTS
  c1 = c1
  c2 = c2
  f = f
  g = g
  Clients <- MCClients
  Client0 = c1
  MAXOPEN = 2
  MAXFD = 2
  Names <- MCNames
  NoName = NoName
  IdMod = 16
  NULL = NULL
  Lapses = {}
INVARIANTS FdMeansFile NoStaleId NoMutualSend
PROPERTIES  TakenIsAnswered
