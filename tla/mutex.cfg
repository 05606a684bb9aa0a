CONSTANTS
  Threads = {t0, t1, t2}
  Default = t0
  DefaultPriority = 16
  Priorities = {8, 16, 24}
  SleepQueues = {m1, m2, c1}
  WaitQueues = {}
  Mutexes = {m1, m2}
  Conds = {c1}
  Attributes = {TRUE}
  ExitValues = {100}
  NoThread = NoThread
  NoQueue = NoQueue
  MaxSuspend = 1
  MaxDisable = 1
  MaxCount = 1
  Third = 24
CHECK_DEADLOCK FALSE
SPECIFICATION MCSpec
SYMMETRY MCSymmetry
INVARIANTS TypeOK PlacesFollowPriority OwnershipOK NoOrphanMutex NoLostWakeup PriorityIsEffective
PROPERTIES NoNullDereference InheritanceExact NoMissedPreemption
