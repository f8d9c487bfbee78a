SPECIFICATION Spec
CONSTANTS
  Main = Main
  Idle = Idle
  A = A
  B = B
  S = S
  Q = Q
  X = X
  Thread <- MCThread
  PriorityMax = 4
  InitPriority <- MCInitPriority
  Slice <- MCSlice
  TickMod = 8
  Semaphore = {S, Q}
  OtherLists = {}
  ByPriority = {Q}
  ValueMax = 2
  UserTimer = {X}
  Periodic = {X}
  Signals <- MCSignals
  Programs <- MCPrograms
INVARIANTS
  TypeOK
  ListsConsistent
  TimersConsistent
  RunsOwnContext
  RunsHighest
PROPERTIES
  HandlerEnds
  SemaphoresImplement
  TimedCallsReturn
