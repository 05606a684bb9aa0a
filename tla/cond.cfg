CONSTANTS
  Threads = {t0, t1, t2}
  Default = t0
  DefaultPriority = 16
  Priorities = {8, 16}
  SleepQueues = {m1, c1}
  WaitQueues = {}
  Mutexes = {m1}
  Conds = {c1}
  Attributes = {TRUE}
  ExitValues = {100}
  NoThread = NoThread
  NoQueue = NoQueue
  MaxSuspend = 1
  MaxDisable = 0
  MaxCount = 2
CHECK_DEADLOCK FALSE
SPECIFICATION CondSpec
SYMMETRY MCSymmetry
PROPERTIES RelockRestoresDepth LoopEnds
