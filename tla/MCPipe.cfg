CONSTANTS
  p1 = p1  p2 = p2  p3 = p3  x = x  y = y  z = z  null = null
  Procs <- MCTwoProcs
  Parent <- p1
  Slots <- MCSlots
  DupTo = {1}
  Byte <- MCByte
  Text <- MCText
  PIPEBUFSIZ = 1
  MaxBytes = 2
  NCPU = 1
  NULL <- null
  Lapses = {}
SPECIFICATION FairSpec
INVARIANT ClosedIsTrue
PROPERTIES  CallsReturn
