CONSTANTS
  Threads = {t0, t1, t2}
  Default = t0
  DefaultPriority = 16
  Priorities = {8, 16, 24}
  SleepQueues = {m1, m2}
  WaitQueues = {}
  Mutexes = {m1, m2}
  Conds = {}
  Attributes = {TRUE}
  ExitValues = {100}
  NoThread = NoThread
  NoQueue = NoQueue
  MaxSuspend = 1
  MaxDisable = 0
  MaxCount = 1
CHECK_DEADLOCK FALSE
SPECIFICATION Spec
SYMMETRY MCSymmetry
INVARIANT CountPositive
