------------------------------- MODULE ARAM -------------------------------
(***************************************************************************)
(* The allocator of audio memory in src/sdk_port/ar/ar.c: a stack of       *)
(* blocks whose lengths stand in an array of the program.  Nothing is      *)
(* checked: programs allocate no more blocks than the array has entries    *)
(* and free no more than they allocated, as the property test does.        *)
(* Addresses are 32 bits wide and wrap at Word.                            *)
(***************************************************************************)
EXTENDS Integers

CONSTANTS
  Word,
  Base,       \* 0x4000, where the blocks begin
  Entries,    \* entries of the array of lengths
  Lengths     \* lengths that programs ask for

ASSUME AramAssumption ==
  /\ Word \in Nat /\ Base \in 0 .. Word - 1
  /\ Entries \in Nat /\ Lengths \subseteq 0 .. Word - 1

VARIABLES
  initFlag, stackPointer, freeBlocks, blockLengthIdx,
  blockLength,   \* the array of lengths
  handed         \* what ARAlloc returned for the block in each entry

aramVars == <<initFlag, stackPointer, freeBlocks, blockLengthIdx, blockLength, handed>>

Indices == 0 .. Entries - 1

Plus(a, b) == IF a + b < Word THEN a + b ELSE a + b - Word
Minus(a, b) == IF b <= a THEN a - b ELSE a - b + Word

AramInit ==
  /\ initFlag = FALSE /\ stackPointer = 0 /\ freeBlocks = 0 /\ blockLengthIdx = 0
  /\ blockLength = [i \in Indices |-> 0] /\ handed = [i \in Indices |-> 0]

\* A second call changes nothing.
ARInit ==
  /\ ~initFlag
  /\ initFlag' = TRUE /\ stackPointer' = Base
  /\ freeBlocks' = Entries /\ blockLengthIdx' = 0
  /\ UNCHANGED <<blockLength, handed>>

ARAlloc(length) ==
  /\ initFlag /\ freeBlocks > 0
  /\ handed' = [handed EXCEPT ![blockLengthIdx] = stackPointer]
  /\ stackPointer' = Plus(stackPointer, length)
  /\ blockLength' = [blockLength EXCEPT ![blockLengthIdx] = length]
  /\ blockLengthIdx' = blockLengthIdx + 1
  /\ freeBlocks' = freeBlocks - 1
  /\ UNCHANGED initFlag

\* Mutant: the length is read before the index is lowered.
FreeAbove ==
  /\ initFlag /\ blockLengthIdx > 0
  /\ blockLengthIdx' = blockLengthIdx - 1
  /\ stackPointer' = Minus(stackPointer, IF blockLengthIdx \in Indices THEN blockLength[blockLengthIdx] ELSE 0)
  /\ freeBlocks' = freeBlocks + 1
  /\ UNCHANGED <<initFlag, blockLength, handed>>

ARFree ==
  /\ initFlag /\ blockLengthIdx > 0
  /\ blockLengthIdx' = blockLengthIdx - 1
  /\ stackPointer' = Minus(stackPointer, blockLength[blockLengthIdx - 1])
  /\ freeBlocks' = freeBlocks + 1
  /\ UNCHANGED <<initFlag, blockLength, handed>>

AramNext == ARInit \/ (\E length \in Lengths : ARAlloc(length)) \/ ARFree

AramSpec == AramInit /\ [][AramNext]_aramVars

-----------------------------------------------------------------------------
\* Where block i ends and the next one begins.
End(i) == Plus(handed[i], blockLength[i])

\* The blocks lie end to end from the base to the stack pointer, even when the pointer
\* wrapped, so that freeing them returns the addresses in the reverse order of the
\* allocations, and every entry of the array is either free or counted.
AramStacked ==
  initFlag =>
    /\ stackPointer = IF blockLengthIdx = 0 THEN Base ELSE End(blockLengthIdx - 1)
    /\ blockLengthIdx > 0 => handed[0] = Base
    /\ \A i \in 1 .. blockLengthIdx - 1 : handed[i] = End(i - 1)
    /\ freeBlocks + blockLengthIdx = Entries
=============================================================================
