CONSTANTS
  Requests = {r1, r2, r3}
  None = None
  Sources = {3}
  Dests = {1}
  Lengths = {0, 2, 5}
  Chunk = 2
  Word = 8
SPECIFICATION FairSpec
INVARIANTS TypeOK OneTransfer NeverStalls CallbackOfServed NextPart
PROPERTIES HighPreempts ImplementsService HighServed LowServed
