CONSTANTS
  Threads = {t0, t1, t2}
  Default = t0
  DefaultPriority = 16
  Priorities = {8, 16}
  k1 = k1
  senders = senders
  receivers = receivers
  SleepQueues = {w1, senders, receivers}
  WaitQueues = {w1}
  Mutexes = {}
  Conds = {}
  MsgQueues = {k1}
  Messages = {a, b}
  NoMessage = NoMessage
  Capacity <- MCCapacity
  SendQueue <- MCSendQueue
  ReceiveQueue <- MCReceiveQueue
  Attributes = {TRUE, FALSE}
  ExitValues = {100}
  NoThread = NoThread
  NoQueue = NoQueue
  MaxSuspend = 2
  MaxDisable = 1
  MaxCount = 0
SPECIFICATION MCSpec
SYMMETRY MCSymmetry
INVARIANTS RunQueuesExact NobodySleepsInVain
PROPERTIES TurnsInOrder ImplementsMailbox
