CONSTANTS
  Alarms = {a1, a2, a3}
  NoAlarm = NoAlarm
  Ticks <- MCTicks
  Periods = {0, 2, 3}
  MaxTime = 5
  Word = 16
  Base = 5
  Entries = 4
  Lengths = {0, 3, 7}
  Modules = {m1, m2, m3, m4}
  NoModule = NoModule
  GameCallbacks = {g1}
  HostCallbacks = {h1, h2, h3}
  NoCallback = NoCallback
  Overflow = Overflow
  MaxSeen = 2
  MaxRetraces = 3
  TicksPerSec = 40500000
  TicksPerMsec = 40500
SPECIFICATION Spec
INVARIANTS AramStacked ArithmeticExact BookkeepingExact
PROPERTIES ImplementsAlarmClock
VIEW MCView
SYMMETRY MCSymmetry
