CONSTANTS
  Near <- MCNear
  InitPage <- MCInitPage
  e0 = e0  e1 = e1  null = null
  Envs <- MCEnvs
  Env0 <- e0
  Pages <- MCPages
  PFTEMP = 1
  Text = {3}
  Data = {2}
  Shared = {4}
  Stack = 5
  UXSTACK = 6
  Val = {0, 1, 2}
  Writes <- MCWrites
  Zero = 0
  MaxForks = 2
  NULL <- null
SPECIFICATION Spec
INVARIANTS WritableIsPrivate ExceptionStack
PROPERTY ForkCopies
