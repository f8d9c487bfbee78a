SPECIFICATION PoolSpec
CONSTANTS
  Main = Main
  Idle = Idle
  A = A
  B = B
  S = S
  P = P
  MB = MB
  MBs = MBs
  MB2 = MB2
  MB2s = MB2s
  MQ = MQ
  MQs = MQs
  M = M
  N = N
  E = E
  m1 = m1
  m2 = m2
  m3 = m3
  m4 = m4
  e1 = e1
  e2 = e2
  Nothing = Nothing
  Nobody = Nobody
  Thread <- MCThread
  PriorityMax = 4
  InitPriority <- MCInitPriority
  Slice <- MCSlice
  TickMod = 7
  Semaphore = {S}
  OtherLists = {MB, MBs, MB2, MB2s, MQ, MQs, M, N, E, P}
  ByPriority = {M, N, MB, MBs, MB2}
  ValueMax = 2
  UserTimer = {}
  Periodic = {}
  Signals <- NoTimers
  Mailbox = {MB, MB2}
  MessageQueue = {MQ}
  Mutex = {M, N}
  Event = {E}
  Senders <- MCSenders
  Size <- MCSize
  HoldMax = 2
  Pool = {P}
  PoolSize <- MCPoolSize
  Programs <- CrossedPrograms
INVARIANT PriorityRestored
