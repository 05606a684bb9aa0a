-------------------------------- MODULE Sram --------------------------------
(***************************************************************************)
(* The console's settings memory, src/sdk_port/os/OSRtc.c: a copy in RAM   *)
(* behind a lock, and the clock chip's memory behind it.  The record "scb" *)
(* is the code's Scb; a call returns it as it leaves it.  OSSram is 20     *)
(* bytes, OSSramEx the 44 behind it; of the first the model keeps one      *)
(* value under the checksum, of the second the flash ID of a memory card   *)
(* and its checksum.  The chip is external: OSRtc.c only counts reads and  *)
(* writes, and its knobs say whether they work.                            *)
(***************************************************************************)
EXTENDS Integers

SramSize == 64
Halves == {"main", "ex"}
StartOf == [h \in Halves |-> IF h = "main" THEN 0 ELSE 20]

\* checkSum over the words of the settings, and __CARDMount's over a flash ID.
SumOf(value) == value
FlashCheck(id) == 255 - id

\* Memory that was cleared.
ZeroSram == [main |-> [value |-> 0, sum |-> 0], ex |-> [value |-> 0, sum |-> 0]]

\* Whether the chip could be read, the RAM copy is zero: ReadSram clears it or leaves it alone.
InitSram(readOk) ==
  [ram |-> ZeroSram, chip |-> ZeroSram, locked |-> FALSE, sync |-> readOk, offset |-> SramSize]

\* NULL, which is "ok" being FALSE, when somebody holds the lock.
LockSram(scb) ==
  IF scb.locked THEN [ok |-> FALSE, scb |-> scb] ELSE [ok |-> TRUE, scb |-> [scb EXCEPT !.locked = TRUE]]

WriteSram(scb, offset) ==
  [h \in Halves |-> IF offset <= StartOf[h] THEN scb.ram[h] ELSE scb.chip[h]]

\* Only OSSram has a checksum that a commit computes.
Summed(scb, h) ==
  IF h = "main" THEN [scb EXCEPT !.ram.main.sum = SumOf(scb.ram.main.value)] ELSE scb

\* Mutant: every commit writes from its own half on, whatever was not written before.
CommitOwnHalf(scb, h, works) ==
  LET summed == Summed(scb, h)
  IN [summed EXCEPT !.sync = works,
                    !.offset = IF works THEN SramSize ELSE StartOf[h],
                    !.chip = IF works THEN WriteSram(summed, StartOf[h]) ELSE @]

Commit(scb, h, works) ==
  LET from == IF StartOf[h] < scb.offset THEN StartOf[h] ELSE scb.offset
      summed == Summed(scb, h)
  IN [summed EXCEPT !.sync = works,
                    !.offset = IF works THEN SramSize ELSE from,
                    !.chip = IF works THEN WriteSram(summed, from) ELSE @]

UnlockSram(scb, h, commit, works) ==
  [(IF commit THEN Commit(scb, h, works) ELSE scb) EXCEPT !.locked = FALSE]
=============================================================================
