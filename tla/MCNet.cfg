CONSTANTS
  c1 = c1  c2 = c2  input_env = input_env  timer_env = timer_env  null = null
  NTXQ = 2
  NRXQ = 3
  QUEUE_SIZE = 3
  Clients <- MCClients
  Input <- input_env
  Timer <- timer_env
  Pages <- MCPages
  MaxRx = 3
  MaxTx = 3
  MaxReq = 3
  NULL <- null
  Lapses = {}
SPECIFICATION FairSpec
INVARIANTS  RequestHeld
PROPERTIES RxIsFifo TxIsFifo RxArrives 
