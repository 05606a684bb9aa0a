----------------------------- MODULE CardMount -----------------------------
(***************************************************************************)
(* Mounting a memory card: card/CARDMount.c and card/card_bios.c on the    *)
(* EXI bus and the SRAM lock.  A mount is one call of the program: the     *)
(* transfers call back before they return, and every callback is the last  *)
(* thing its caller does.  So "pc" names the function that runs next, and  *)
(* all else waits for it to be idle: a client of the bus, a client of the  *)
(* SRAM and users of the card.                                             *)
(*                                                                         *)
(* The card may be pulled or changed at any time: every question to it has *)
(* a fresh answer.  Not kept: callbacks that nobody calls or that always   *)
(* are the same (unlock, exi, ext, tx, xfer), and the vendor check, since  *)
(* IsCard refuses the id 0x80000004 while s_card_vendor_id is 0xFFFF.      *)
(***************************************************************************)
EXTENDS EXI, Sram, CardResults, Sequences

CONSTANTS
  Ids,        \* what EXIGetID may read, without the upper half
  Segments,   \* segments of 512 bytes in a block of 8 KB: 16
  FlashIds,   \* ids that __CARDUnlock may find in the card
  Settings    \* values of the settings in OSSram

ASSUME CardAssumption ==
  Ids \subseteq Nat /\ Segments \in Nat \ {0} /\ FlashIds \subseteq 0 .. 255 /\ Settings \subseteq Nat

VARIABLES
  bus, scb,    \* the EXI channel, the SRAM's control block
  card,        \* gc_card_block of the channel
  pc,          \* the function that runs next, and the result it is given
  area,        \* history: the segments <<block, segment>> in the work area
  call,        \* history: the last CARDMountAsync that was accepted
  client,      \* what another device's driver did to the bus
  sramUser,    \* the half that a client of the SRAM holds, and whether it changed it
  cardUser     \* a user of the card holds its control block

vars == <<bus, scb, card, pc, area, call, client, sramUser, cardUser>>

MaxMountStep == 7
Blocks == 0 .. MaxMountStep - 3

Nothing == [half |-> "none", changed |-> FALSE]
NoCall == [asked |-> FALSE, returned |-> READY, callbacks |-> <<>>, waits |-> "no"]
Idle == [at |-> "idle", with |-> READY]
At(f) == [at |-> f, with |-> READY]
Quiet == pc = Idle

\* After EXIInit, __OSInitSram and CARDInit.
CARDInit ==
  [result |-> NOCARD, attached |-> FALSE, step |-> 0, id |-> 0, api |-> FALSE, repeat |-> 0,
   block |-> 0, segment |-> 0]

Init ==
  /\ bus = EXIInit /\ card = CARDInit /\ pc = Idle /\ area = {} /\ call = NoCall
  /\ \E readOk \in BOOLEAN : scb = InitSram(readOk)
  /\ client = [locked |-> FALSE, selected |-> FALSE, attached |-> FALSE]
  /\ sramUser = Nothing /\ cardUser = FALSE

-----------------------------------------------------------------------------
(* What an id says of a card.                                               *)

SectorKB == [i \in 0 .. 7 |-> IF i < 6 THEN 8 * 2 ^ i ELSE 0]
SizeMb(id) == (id % 256) - (id % 4)
SectorOf(id) == SectorKB[(id \div 2048) % 8]

IsCard(id) ==
  /\ id < 65536 /\ id % 4 = 0
  /\ SizeMb(id) \in {4, 8, 16, 32, 64, 128}
  /\ SectorOf(id) # 0 /\ SizeMb(id) * 128 >= 8 * SectorOf(id)

\* CARDProbeEx: the result, and the size of the card when it is READY.
CARDProbeEx(probe, hasId, id) ==
  LET answer(r, size) == [result |-> r, size |-> size]
  IN CASE probe = -1 -> answer(NOCARD, 0)
       [] probe = 0 -> answer(BUSY, 0)
       [] probe > 0 /\ card.attached ->
            IF card.step < 1 THEN answer(BUSY, 0) ELSE answer(READY, SizeMb(card.id))
       [] probe > 0 /\ ~card.attached /\ bus.attached -> answer(WRONGDEVICE, 0)
       [] OTHER -> IF ~hasId THEN answer(BUSY, 0)
                   ELSE IF IsCard(id) THEN answer(READY, SizeMb(id)) ELSE answer(WRONGDEVICE, 0)

-----------------------------------------------------------------------------
(* The control block.                                                       *)

__CARDPutControlBlock(c, result) ==
  IF c.attached \/ c.result = BUSY THEN [c EXCEPT !.result = result] ELSE c

Unmounted(c, result) ==
  IF c.attached THEN [c EXCEPT !.attached = FALSE, !.result = result, !.step = 0] ELSE c

\* A user of the card takes its control block, unless it is busy or away, and puts it back.
__CARDGetControlBlock ==
  /\ card.attached /\ card.result # BUSY
  /\ card' = [card EXCEPT !.result = BUSY, !.api = FALSE]
  /\ cardUser' = TRUE /\ call' = NoCall
  /\ UNCHANGED <<bus, scb, pc, area, client, sramUser>>

PutBack(result) ==
  /\ cardUser
  /\ card' = __CARDPutControlBlock(card, result)
  /\ cardUser' = FALSE
  /\ UNCHANGED <<bus, scb, pc, area, call, client, sramUser>>

CARDUnmount ==
  /\ card.attached /\ card.result # BUSY
  /\ card' = Unmounted([card EXCEPT !.result = BUSY, !.api = FALSE], NOCARD)
  /\ bus' = EXIDetach(bus)
  /\ call' = NoCall
  /\ UNCHANGED <<scb, pc, area, client, sramUser, cardUser>>

-----------------------------------------------------------------------------
(* Commands of one byte, of which the bus may refuse parts.                 *)

Sent(b, cmd) == EXISync(EXIImmWrite(EXISelect(b, 0), cmd))

__CARDClearStatus(b) ==
  IF EXISelect(b, 0).ok THEN EXIDeselect(Sent(b, "clear status")) ELSE Refused(b)

__CARDReadStatus(b, status) ==
  IF EXISelect(b, 0).ok
  THEN EXIDeselect(EXISync(EXIImmRead(Sent(b, "read status"), status))) ELSE Refused(b)

__CARDEnableInterrupt(b) ==
  IF EXISelect(b, 0).ok THEN EXIDeselect(Sent(b, "enable interrupt")) ELSE Refused(b)

-----------------------------------------------------------------------------
(* CARDMountAsync and DoMount.                                              *)

Ends(result) == pc' = Idle /\ call' = [call EXCEPT !.returned = result]

\* Calls that are refused before they touch the control block are no step: the card is
\* busy, another device is attached, or the game runs without cards.
CARDMountAsync(attachOk) ==
  LET asked == [card EXCEPT !.result = BUSY, !.api = TRUE]
      attached == IF card.attached THEN bus ELSE EXIAttach(bus, attachOk)
      locked == EXILock(attached, 0)
  IN /\ card.result # BUSY /\ (card.attached \/ ~bus.attached)
     /\ area' = {}
     /\ IF ~attached.ok
        THEN /\ card' = [asked EXCEPT !.result = NOCARD]
             /\ call' = [NoCall EXCEPT !.asked = TRUE, !.returned = NOCARD]
             /\ UNCHANGED <<bus, pc>>
        ELSE /\ card' = [asked EXCEPT !.step = 0, !.attached = TRUE]
             /\ bus' = Channel(locked)
             /\ pc' = IF locked.ok THEN At("identify") ELSE Idle
             /\ call' = [NoCall EXCEPT !.asked = TRUE, !.waits = IF locked.ok THEN "no" ELSE "bus"]
     /\ UNCHANGED <<scb, client, sramUser, cardUser>>

\* Mutant: the error label keeps the bus.
ErrorKeepsBus(b, result) ==
  /\ card' = Unmounted(card, result)
  /\ bus' = Channel(EXIDetach(b))
  /\ Ends(result)

\* DoMount's error label; only the call of CARDMountAsync gets there.
Error(b, result) ==
  /\ card' = Unmounted(card, result)
  /\ bus' = Channel(EXIDetach(EXIUnlock(b)))
  /\ Ends(result)

Identify(hasId, id) ==
  /\ pc = At("identify")
  /\ IF hasId /\ IsCard(id)
     THEN card' = [card EXCEPT !.id = id] /\ pc' = At("status") /\ UNCHANGED <<bus, call>>
     ELSE Error(bus, IF hasId THEN WRONGDEVICE ELSE NOCARD)
  /\ UNCHANGED <<scb, area, client, sramUser, cardUser>>

\* The two commands on the status and the probe; bit 6 says that the card is unlocked.
Status(status, probe) ==
  LET cleared == __CARDClearStatus(bus)
      asked == IF cleared.ok THEN __CARDReadStatus(cleared, status) ELSE cleared
  IN /\ pc = At("status")
     /\ IF asked.ok /\ EXIProbe(probe)
        THEN /\ pc' = At(IF asked.imm = "unlocked" THEN "flash" ELSE "unlock")
             /\ bus' = asked
             /\ UNCHANGED <<card, call>>
        ELSE Error(asked, NOCARD)
     /\ UNCHANGED <<scb, area, client, sramUser, cardUser>>

Crash == pc' = At("fault") /\ UNCHANGED <<bus, scb, card, call>>

\* The card's id goes to the SRAM, and DoMount returns with the bus locked.  The rest of
\* the mount would come with the callback of an unlock that the stub does not start.
Unlock(ok, id, writeOk) ==
  LET taken == LockSram(scb)
      stored == [taken.scb EXCEPT !.ram.ex = [value |-> id, sum |-> FlashCheck(id)]]
  IN /\ pc = At("unlock")
     /\ IF ~ok THEN Error(bus, NOCARD) /\ UNCHANGED scb
        ELSE IF ~taken.ok THEN Crash
        ELSE /\ scb' = UnlockSram(stored, "ex", TRUE, writeOk)
             /\ pc' = Idle /\ call' = [call EXCEPT !.waits = "unlock"]
             /\ UNCHANGED <<bus, card>>
     /\ UNCHANGED <<area, client, sramUser, cardUser>>

\* __CARDRead of the block of a mount step.
BeginRead(c) == [c EXCEPT !.repeat = Segments, !.block = c.step - 2, !.segment = 0]

\* The SRAM must know the card: the check of its flash ID, then steps 1 and 2.
Flash ==
  LET taken == LockSram(scb)
      known == scb.ram.ex.sum = FlashCheck(scb.ram.ex.value)
      enabled == __CARDEnableInterrupt(bus)
  IN /\ pc = At("flash")
     /\ IF ~taken.ok THEN Crash
        ELSE /\ scb' = UnlockSram(taken.scb, "ex", FALSE, TRUE)
             /\ IF ~known THEN Error(bus, IOERROR)
                ELSE IF ~enabled.ok THEN Error(enabled, NOCARD)
                ELSE /\ bus' = EXIUnlock(enabled)
                     /\ card' = BeginRead([card EXCEPT !.step = 2])
                     /\ pc' = At("segment") /\ UNCHANGED call
     /\ UNCHANGED <<area, client, sramUser, cardUser>>

-----------------------------------------------------------------------------
(* Reading the system blocks.                                               *)

\* The end of __CARDMountCallback: the program is told.
TellAttached(c, result) ==
  /\ card' = __CARDPutControlBlock([c EXCEPT !.api = FALSE], result)
  /\ call' = [call EXCEPT !.callbacks = IF c.api THEN Append(@, result) ELSE @]
  /\ pc' = Idle

\* __CARDRead returns an error: DoMount was called by CARDMountAsync for the first
\* block, by the callback for the others.  The card stays attached.
FirstSegmentFails ==
  IF card.step = 2 THEN card' = __CARDPutControlBlock(card, NOCARD) /\ Ends(NOCARD)
  ELSE TellAttached(__CARDPutControlBlock(card, NOCARD), NOCARD)

\* The error label of BlockReadCallback, which the last segment reaches too.
EndOfBlock(c, result) ==
  /\ card' = IF c.api THEN c ELSE __CARDPutControlBlock(c, result)
  /\ pc' = [at |-> "mount", with |-> result]
  /\ UNCHANGED call

\* What __CARDStart does to the bus; a bus that is locked it does not touch.
__CARDStart(b) == IF b.locked THEN Refused(b) ELSE EXISelect(EXILock(b, 0), 0)

__CARDReadSegment(hook) ==
  LET started == __CARDStart(bus)
      packet == IF started.ok THEN EXIImmEx(started, "read") ELSE started
      latency == IF packet.ok THEN EXIImmEx(packet, "latency") ELSE packet
      sent == IF latency.ok THEN EXIDma(latency, hook) ELSE latency
      ended == EXIUnlock(IF started.ok THEN EXIDeselect(sent) ELSE started)
  IN /\ pc = At("segment")
     /\ IF card.attached /\ bus.locked THEN Ends(READY) /\ UNCHANGED <<bus, card, area>>
        ELSE IF card.attached /\ sent.ok
        THEN /\ bus' = sent
             /\ area' = area \cup {<<card.block, card.segment>>}
             /\ pc' = At("sent") /\ UNCHANGED <<card, call>>
        ELSE /\ bus' = IF card.attached THEN Channel(ended) ELSE bus
             /\ IF card.repeat = Segments THEN FirstSegmentFails ELSE EndOfBlock(card, NOCARD)
             /\ UNCHANGED area
     /\ UNCHANGED <<scb, client, sramUser, cardUser>>

__CARDTxHandler(probe) ==
  LET deselected == EXIDeselect(bus)
  IN /\ pc = At("sent")
     /\ bus' = Channel(EXIUnlock(deselected))
     /\ pc' = [at |-> "block",
               with |-> IF deselected.ok /\ EXIProbe(probe) THEN READY ELSE NOCARD]
     /\ UNCHANGED <<scb, card, area, call, client, sramUser, cardUser>>

\* Mutant: the block's last segment is not counted.
NextSegmentLate(c) == IF c.repeat < 0 THEN "done" ELSE "more"

NextSegment(c) == IF c.repeat <= 0 THEN "done" ELSE "more"

BlockReadCallback ==
  LET c == [card EXCEPT !.repeat = @ - 1, !.segment = @ + 1]
  IN /\ pc.at = "block"
     /\ IF pc.with < 0 THEN EndOfBlock(card, pc.with)
        ELSE IF NextSegment(c) = "done" THEN EndOfBlock(c, pc.with)
        ELSE card' = c /\ pc' = At("segment") /\ UNCHANGED call
     /\ UNCHANGED <<bus, scb, area, client, sramUser, cardUser>>

\* UNLOCKED, which only an unlock could report, does not occur.
__CARDMountCallback(verified) ==
  LET c == [card EXCEPT !.step = @ + 1]
  IN /\ pc.at = "mount"
     /\ IF pc.with = READY
        THEN /\ UNCHANGED bus
             /\ IF c.step < MaxMountStep
                THEN card' = BeginRead(c) /\ pc' = At("segment") /\ UNCHANGED call
                ELSE TellAttached(c, verified)
        ELSE /\ bus' = IF card.attached THEN EXIDetach(bus) ELSE bus
             /\ TellAttached(Unmounted(card, pc.with), pc.with)
     /\ UNCHANGED <<scb, area, client, sramUser, cardUser>>

-----------------------------------------------------------------------------
(* The clients.  They use only what they hold; in which order is up to them. *)

Calls(b, now) == b.ok /\ bus' = b /\ client' = now

ClientStep ==
  /\ \/ ~client.locked /\ Calls(EXILock(bus, 1), [client EXCEPT !.locked = TRUE])
     \/ /\ client.locked
        /\ \/ Calls(EXIUnlock(bus), [client EXCEPT !.locked = FALSE])
           \/ Calls(EXISelect(bus, 1), [client EXCEPT !.selected = TRUE])
           \/ Calls(EXIDeselect(bus), [client EXCEPT !.selected = FALSE])
           \/ Calls(EXIImmWrite(bus, "read status"), client)
           \/ Calls(EXIImmRead(bus, "noise"), client)
           \/ Calls(EXISync(bus), client)
     \/ ~bus.attached /\ Calls(EXIAttach(bus, TRUE), [client EXCEPT !.attached = TRUE])
     \/ client.attached /\ Calls(EXIDetach(bus), [client EXCEPT !.attached = FALSE])
  /\ UNCHANGED <<scb, card, pc, area, call, sramUser, cardUser>>

SramStep ==
  /\ \/ \E h \in Halves :
          /\ LockSram(scb).ok /\ scb' = LockSram(scb).scb
          /\ sramUser' = [half |-> h, changed |-> FALSE]
     \/ /\ sramUser.half = "main" /\ sramUser' = [sramUser EXCEPT !.changed = TRUE]
        /\ \E v \in Settings : scb' = [scb EXCEPT !.ram.main.value = v]
     \/ /\ sramUser.half = "ex" /\ sramUser' = [sramUser EXCEPT !.changed = TRUE]
        /\ \E v \in FlashIds : scb' = [scb EXCEPT !.ram.ex = [value |-> v, sum |-> FlashCheck(v)]]
     \/ /\ sramUser.half # "none" /\ sramUser' = Nothing
        /\ \E commit, ok \in BOOLEAN :
             /\ sramUser.changed => commit
             /\ scb' = UnlockSram(scb, sramUser.half, commit, ok)
  /\ UNCHANGED <<bus, card, pc, area, call, client, cardUser>>

OSGetProgressiveMode ==
  LET taken == LockSram(scb)
  IN /\ IF taken.ok THEN scb' = UnlockSram(taken.scb, "main", FALSE, TRUE) /\ UNCHANGED pc
        ELSE pc' = At("fault") /\ UNCHANGED scb
     /\ UNCHANGED <<bus, card, area, call, client, sramUser, cardUser>>

Mounting ==
  \/ \E hasId \in BOOLEAN, id \in Ids : Identify(hasId, id)
  \/ \E status \in Imm \ {"noise"}, probe \in -1 .. 1 : Status(status, probe)
  \/ \E ok, writeOk \in BOOLEAN, id \in FlashIds : Unlock(ok, id, writeOk)
  \/ Flash
  \/ \E hook \in BOOLEAN : __CARDReadSegment(hook)
  \/ \E probe \in -1 .. 1 : __CARDTxHandler(probe)
  \/ BlockReadCallback
  \/ \E verified \in {READY, BROKEN} : __CARDMountCallback(verified)

Next ==
  \/ Mounting
  \/ Quiet /\ \E attachOk \in BOOLEAN : CARDMountAsync(attachOk)
  \/ Quiet /\ CARDUnmount
  \/ Quiet /\ __CARDGetControlBlock
  \/ Quiet /\ \E result \in {READY, IOERROR} : PutBack(result)
  \/ Quiet /\ (ClientStep \/ SramStep \/ OSGetProgressiveMode)

Spec == Init /\ [][Next]_vars

-----------------------------------------------------------------------------
WorkArea == Blocks \X (0 .. Segments - 1)

\* Between calls, every mount that was accepted has been answered exactly once, by an
\* error of the call or by one callback, with the result the card keeps; READY comes
\* with the whole work area, and then CARDProbeEx finds the card that was identified.
\* The exceptions wait for ever, with the card busy: the bus was locked, or the card
\* was.  A quiet card is busy for no other reason than these and a user.
MountsAnswered ==
  Quiet =>
    /\ card.result = BUSY <=> cardUser \/ call.waits # "no"
    /\ call.asked =>
         /\ Len(call.callbacks) + (IF call.returned < 0 THEN 1 ELSE 0)
              + (IF call.waits # "no" THEN 1 ELSE 0) = 1
         /\ call.returned < 0 => card.result = call.returned
         /\ call.callbacks # <<>> => card.result = call.callbacks[1]
         /\ call.callbacks = <<READY>> =>
              /\ area = WorkArea
              /\ \A id \in Ids : LET p == CARDProbeEx(1, TRUE, id)
                                 IN p.result = READY /\ p.size = SizeMb(card.id) /\ IsCard(card.id)

\* However a mount ends, it leaves the channel as its clients know it: locked and
\* selected only for them, attached only for one of them, and never in a transfer.
\* A card that is to be unlocked keeps the bus.
BusReturned ==
  Quiet =>
    /\ bus.locked <=> client.locked \/ call.waits = "unlock"
    /\ bus.selected <=> client.selected
    /\ bus.busy => client.locked
    /\ bus.attached <=> card.attached \/ client.attached
    /\ ~(card.attached /\ client.attached)

\* A commit that failed is not forgotten: while nobody holds the lock, whatever the
\* chip does not have yet lies in the range that the next commit, of either half, will
\* write; __OSSyncSram says so; and the chip's settings always match their checksum.
\* Mounts and looks at the progressive mode give the lock back, so that the program
\* reads through the NULL of a lock that is taken only while a client holds it.
SramKept ==
  /\ ~scb.locked =>
       \A h \in Halves : scb.ram[h] # scb.chip[h] => ~scb.sync /\ scb.offset <= StartOf[h]
  /\ scb.chip.main.sum = SumOf(scb.chip.main.value)
  /\ scb.locked <=> sramUser.half # "none"
  /\ pc.at = "fault" => sramUser.half # "none"
=============================================================================
