-------------------------------- MODULE EXI --------------------------------
(***************************************************************************)
(* A channel of the EXI bus, src/sdk_port/exi/EXI.c.  A call is an         *)
(* operator that gives the channel it leaves; the field "ok" is the BOOL,  *)
(* and stays FALSE through a sequence of calls of which one was refused.   *)
(* Channels share no state, so one stands for all of them.                 *)
(*                                                                         *)
(* EXI.c keeps the callbacks of EXILock, EXIAttach and EXISetExiCallback,  *)
(* but never calls them, so they are left out; the callback of EXIDma runs *)
(* before EXIDma returns, as the step after it in the module that calls.   *)
(***************************************************************************)
EXTENDS Integers

\* What the IMM register may hold: bit 6 of a card's status, or something else.
Imm == {"unlocked", "locked", "noise"}
Devices == {0, 1}

\* EXI_STATE_DMA is set only while the hook of EXIDma runs.
Channels ==
  [ok : BOOLEAN, locked : BOOLEAN, selected : BOOLEAN, busy : BOOLEAN, attached : BOOLEAN,
   dev : Devices, statusNext : BOOLEAN, hasAddr : BOOLEAN, imm : Imm]

EXIInit ==
  [ok |-> TRUE, locked |-> FALSE, selected |-> FALSE, busy |-> FALSE, attached |-> FALSE,
   dev |-> 0, statusNext |-> FALSE, hasAddr |-> FALSE, imm |-> "noise"]

Refused(b) == [b EXCEPT !.ok = FALSE]

\* The channel between calls.
Channel(b) == [b EXCEPT !.ok = TRUE]

EXILock(b, dev) ==
  IF b.locked THEN Refused(b) ELSE [b EXCEPT !.locked = TRUE, !.dev = dev]

EXIUnlock(b) == IF b.busy THEN Refused(b) ELSE [b EXCEPT !.locked = FALSE]

EXISelect(b, dev) ==
  IF ~b.locked \/ b.selected THEN Refused(b) ELSE [b EXCEPT !.selected = TRUE, !.dev = dev]

EXIDeselect(b) ==
  IF ~b.selected \/ b.busy THEN Refused(b) ELSE [b EXCEPT !.selected = FALSE]

\* Commands of a memory card, device 0; the bus knows the first two.
Commands == {"read status", "clear status", "enable interrupt", "read", "latency"}

\* A write of 1 to 4 bytes that starts with a command.
EXIImmWrite(b, cmd) ==
  IF ~b.selected \/ b.busy THEN Refused(b)
  ELSE [b EXCEPT !.busy = TRUE, !.imm = "noise",
                 !.statusNext = IF b.dev # 0 THEN @
                                ELSE (@ \/ cmd = "read status") /\ cmd # "clear status"]

\* A read of one byte; the register gives the card's status if that was asked for.
EXIImmRead(b, status) ==
  IF ~b.selected \/ b.busy THEN Refused(b)
  ELSE IF b.dev = 0 /\ b.statusNext THEN [b EXCEPT !.busy = TRUE, !.statusNext = FALSE, !.imm = status]
  ELSE [b EXCEPT !.busy = TRUE]

\* Completes the transfer; a reader's buffer gets what the IMM register holds.
EXISync(b) == [b EXCEPT !.busy = FALSE]

\* EXIImmEx, of which one piece stands for all, gives up when a piece is refused.  The
\* address in a card's command packet is kept for EXIDma before the first piece.
EXIImmEx(b, cmd) ==
  LET addressed == IF cmd = "read" THEN [b EXCEPT !.hasAddr = TRUE] ELSE b
      written == EXIImmWrite(addressed, cmd)
  IN IF written.ok THEN EXISync(written) ELSE written

\* The hook answers whether the device moved the data.
EXIDma(b, hook) ==
  IF b.selected /\ ~b.busy /\ b.hasAddr /\ hook THEN b ELSE Refused(b)

EXIProbe(probe) == probe > 0

EXIAttach(b, works) == IF works THEN [b EXCEPT !.attached = TRUE] ELSE Refused(b)
EXIDetach(b) == [b EXCEPT !.attached = FALSE]
=============================================================================
