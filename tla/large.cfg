CONSTANTS
  Half = 128
  MemBase = 128
  Align = 4
  DescSize = 3
  BootLos = {129}
  BootHis = {0}
  DefaultLo = 132
  DefaultHi = 183
  MaxHeaps = 2
  Areas <- MCAreas
  Sizes = {5, 124}
CHECK_DEADLOCK FALSE
SPECIFICATION Spec
INVARIANTS BlocksInMemory
