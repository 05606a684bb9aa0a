----------------------------- MODULE CardProofs ------------------------------
(***************************************************************************)
(* Proofs about memory cards.  The first three parts are about a mount:    *)
(* what its clients do with the settings in SRAM, with the EXI channel,    *)
(* and with the answer.  Each has an inductive invariant of its own; the   *)
(* third rests on the second.  The fourth is about the card's files.       *)
(***************************************************************************)
EXTENDS CardMount, CardFat, SequenceFacts

-----------------------------------------------------------------------------
(***************************************************************************)
(* For all settings, flash ids and cards: what the chip does not have yet  *)
(* lies in the range that the next commit writes (SramKept of CardMount).  *)
(*                                                                         *)
(* While a client holds the lock and has changed its half, neither the     *)
(* range nor the checksum has to know; SramInv says that this is the only  *)
(* exception.  That the settings in RAM match their checksum otherwise is  *)
(* needed because a commit of the other half may write them too.           *)
(***************************************************************************)
ControlBlocks ==
  [ram : [Halves -> [value : Int, sum : Int]], chip : [Halves -> [value : Int, sum : Int]],
   locked : BOOLEAN, sync : BOOLEAN, offset : {0, 20, SramSize}]

Right(contents) == contents["main"].sum = SumOf(contents["main"].value)

\* Half h is on the chip or in the range of the next commit.
Remembered(s, h) == s.ram[h] # s.chip[h] => ~s.sync /\ s.offset <= StartOf[h]

AllKept(s) ==
  /\ s \in ControlBlocks
  /\ \A h \in Halves : Remembered(s, h)
  /\ Right(s.ram) /\ Right(s.chip)

Changed(h) == sramUser.half = h /\ sramUser.changed

SramInv ==
  /\ scb \in ControlBlocks
  /\ sramUser \in [half : Halves \cup {"none"}, changed : BOOLEAN]
  /\ sramUser.half = "none" => ~sramUser.changed
  /\ \A h \in Halves : Changed(h) \/ Remembered(scb, h)
  /\ Changed("main") \/ Right(scb.ram)
  /\ Right(scb.chip)
  /\ scb.locked <=> sramUser.half # "none"
  /\ pc.at = "fault" => sramUser.half # "none"

sramVars == <<scb, sramUser>>

\* A commit of half h leaves all remembered, whether the chip takes it or not, if the
\* other half was.
LEMMA CommitKeeps ==
  ASSUME NEW s \in ControlBlocks, NEW h \in Halves, NEW works \in BOOLEAN,
         \A k \in Halves \ {h} : Remembered(s, k),
         h = "main" \/ Right(s.ram), Right(s.chip)
  PROVE  AllKept(UnlockSram(s, h, TRUE, works)) /\ ~UnlockSram(s, h, TRUE, works).locked
<1> DEFINE m == Summed(s, h)
           from == IF StartOf[h] < s.offset THEN StartOf[h] ELSE s.offset
           t == UnlockSram(s, h, TRUE, works)
<1>1. /\ m \in ControlBlocks /\ Right(m.ram)
      /\ m.chip = s.chip /\ m.sync = s.sync /\ m.offset = s.offset
      /\ m.ram["ex"] = s.ram["ex"]
      /\ h = "ex" => m.ram = s.ram
  BY DEF Summed, ControlBlocks, Right, SumOf, Halves
<1>2. from \in {0, 20} /\ from <= StartOf[h] /\ from <= s.offset
  BY DEF ControlBlocks, StartOf, Halves, SramSize
<1>3. /\ t.ram = m.ram /\ t.locked = FALSE /\ t.sync = works
      /\ t.offset = IF works THEN SramSize ELSE from
      /\ t.chip = IF works THEN WriteSram(m, from) ELSE m.chip
      /\ DOMAIN t = DOMAIN s
  BY <1>1 DEF UnlockSram, Commit, ControlBlocks
<1>4. WriteSram(m, from) \in [Halves -> [value : Int, sum : Int]]
  BY <1>1 DEF WriteSram, ControlBlocks
<1>5. t \in ControlBlocks
  BY <1>1, <1>2, <1>4 DEF UnlockSram, Commit, ControlBlocks
<1>8. /\ StartOf["main"] = 0 /\ StartOf["ex"] = 20
      /\ h = "ex" => Remembered(s, "main")
      /\ h = "main" => Remembered(s, "ex")
  BY DEF StartOf, Halves
<1> HIDE DEF m, from, t
<1>6. ASSUME works PROVE AllKept(t) /\ ~t.locked
  <2>1. \A k \in Halves : WriteSram(m, from)[k] = IF from <= StartOf[k] THEN m.ram[k] ELSE m.chip[k]
    BY DEF WriteSram
  <2>2. \A k \in Halves : StartOf[k] < from => k = "main" /\ h = "ex" /\ s.offset # 0
    BY <1>2, <1>8, s \in ControlBlocks DEF Halves, ControlBlocks, SramSize
  <2>3. \A k \in Halves : WriteSram(m, from)[k] = m.ram[k]
    <3>1. SUFFICES ASSUME NEW k \in Halves, StartOf[k] < from PROVE m.ram[k] = m.chip[k]
      BY <2>1, <1>2, <1>8 DEF Halves
    <3> QED
      BY <2>2, <3>1, <1>1, <1>8, s \in ControlBlocks DEF Remembered, ControlBlocks, SramSize
  <2> QED
    BY <2>3, <1>1, <1>3, <1>5, <1>6 DEF AllKept, Remembered, Right, Halves
<1>7. ASSUME ~works PROVE AllKept(t) /\ ~t.locked
  <2>1. Remembered(t, h)
    BY <1>2, <1>3, <1>7 DEF Remembered
  <2>2. ASSUME NEW k \in Halves, k # h PROVE Remembered(t, k)
    <3>1. t.ram[k] = s.ram[k] /\ t.chip[k] = s.chip[k]
      BY <2>2, <1>1, <1>3, <1>7 DEF Halves
    <3> QED
      BY <2>2, <3>1, <1>2, <1>3, <1>7, <1>8, s \in ControlBlocks
         DEF Remembered, Halves, ControlBlocks, SramSize
  <2> QED
    BY <2>1, <2>2, <1>1, <1>3, <1>5, <1>7 DEF AllKept, Right
<1> QED
  BY <1>6, <1>7 DEF t

LEMMA SramInitially == Init => SramInv
<1> SUFFICES ASSUME Init PROVE SramInv
  OBVIOUS
<1>1. PICK readOk \in BOOLEAN : scb = InitSram(readOk)
  BY DEF Init
<1>2. ZeroSram \in [Halves -> [value : Int, sum : Int]]
  BY DEF ZeroSram, Halves
<1>3. scb \in ControlBlocks
  BY <1>1, <1>2 DEF InitSram, ControlBlocks, SramSize
<1>4. Right(ZeroSram)
  BY DEF Right, ZeroSram, SumOf
<1> QED
  BY <1>1, <1>3, <1>4 DEF Init, SramInv, InitSram, Remembered, Changed, Nothing, Idle

\* What the invariant says when nobody holds the lock.
LEMMA FreeLock ==
  ASSUME SramInv, ~scb.locked PROVE AllKept(scb) /\ sramUser.half = "none"
BY DEF SramInv, AllKept, Changed, Halves

LEMMA FreedLock ==
  ASSUME SramInv, AllKept(scb'), ~scb'.locked, sramUser'.half = "none", ~sramUser'.changed,
         sramUser' \in [half : Halves \cup {"none"}, changed : BOOLEAN], pc'.at # "fault"
  PROVE  SramInv'
BY DEF SramInv, AllKept, Changed, Halves

-----------------------------------------------------------------------------
\* Between two calls a client uses the lock, or the settings behind it.
LEMMA ClientKeepsSram == SramInv /\ Quiet /\ SramStep => SramInv'
<1> SUFFICES ASSUME SramInv, Quiet, SramStep PROVE SramInv'
  OBVIOUS
<1> USE DEF SramInv
<1>1. pc' = pc /\ pc.at # "fault"
  BY DEF SramStep, Quiet, Idle
<1>2. CASE \E h \in Halves : /\ LockSram(scb).ok /\ scb' = LockSram(scb).scb
                             /\ sramUser' = [half |-> h, changed |-> FALSE]
  <2>1. ~scb.locked /\ scb' = [scb EXCEPT !.locked = TRUE]
    BY <1>2 DEF LockSram
  <2>2. AllKept(scb)
    BY <2>1, FreeLock
  <2>3. /\ scb' \in ControlBlocks /\ scb'.locked
        /\ scb'.ram = scb.ram /\ scb'.chip = scb.chip
        /\ scb'.sync = scb.sync /\ scb'.offset = scb.offset
    BY <2>1 DEF ControlBlocks
  <2>4. PICK h \in Halves : sramUser' = [half |-> h, changed |-> FALSE]
    BY <1>2
  <2> QED
    BY <2>2, <2>3, <2>4, <1>1 DEF AllKept, Remembered, Halves
<1>3. CASE /\ sramUser.half = "main" /\ sramUser' = [sramUser EXCEPT !.changed = TRUE]
           /\ \E v \in Settings : scb' = [scb EXCEPT !.ram.main.value = v]
  <2>1. PICK v \in Settings : scb' = [scb EXCEPT !.ram.main.value = v]
    BY <1>3
  <2>2. v \in Int
    BY CardAssumption DEF CardAssumption
  <2>3. /\ scb' \in ControlBlocks /\ scb'.locked = scb.locked
        /\ scb'.ram["ex"] = scb.ram["ex"] /\ scb'.chip = scb.chip
        /\ scb'.sync = scb.sync /\ scb'.offset = scb.offset
    BY <2>1, <2>2 DEF ControlBlocks, Halves
  <2>4. sramUser' = [half |-> "main", changed |-> TRUE]
    BY <1>3
  <2> QED
    BY <2>3, <2>4, <1>1, <1>3 DEF Changed, Remembered, Halves
<1>4. CASE /\ sramUser.half = "ex" /\ sramUser' = [sramUser EXCEPT !.changed = TRUE]
           /\ \E v \in FlashIds :
                scb' = [scb EXCEPT !.ram.ex = [value |-> v, sum |-> FlashCheck(v)]]
  <2>1. PICK v \in FlashIds :
          scb' = [scb EXCEPT !.ram.ex = [value |-> v, sum |-> FlashCheck(v)]]
    BY <1>4
  <2>2. v \in Int /\ FlashCheck(v) \in Int
    BY CardAssumption DEF CardAssumption, FlashCheck
  <2>3. /\ scb' \in ControlBlocks /\ scb'.locked = scb.locked
        /\ scb'.ram["main"] = scb.ram["main"] /\ scb'.chip = scb.chip
        /\ scb'.sync = scb.sync /\ scb'.offset = scb.offset
    BY <2>1, <2>2 DEF ControlBlocks, Halves
  <2>4. sramUser' = [half |-> "ex", changed |-> TRUE]
    BY <1>4
  <2> QED
    BY <2>3, <2>4, <1>1, <1>4 DEF Changed, Remembered, Right, Halves
<1>5. CASE /\ sramUser.half # "none" /\ sramUser' = Nothing
           /\ \E commit, ok \in BOOLEAN :
                /\ sramUser.changed => commit
                /\ scb' = UnlockSram(scb, sramUser.half, commit, ok)
  <2>1. PICK commit \in BOOLEAN, ok \in BOOLEAN :
          (sramUser.changed => commit) /\ scb' = UnlockSram(scb, sramUser.half, commit, ok)
    BY <1>5
  <2>2. sramUser.half \in Halves
    BY <1>5 DEF Halves
  <2>3. CASE commit
    <3>1. commit = TRUE /\ scb' = UnlockSram(scb, sramUser.half, TRUE, ok)
      BY <2>1, <2>3
    <3> QED
      BY <3>1, <2>2, <1>1, <1>5, CommitKeeps, FreedLock DEF Changed, Nothing
  <2>4. CASE ~commit
    <3>1. ~sramUser.changed /\ scb' = [scb EXCEPT !.locked = FALSE]
      BY <2>1, <2>4 DEF UnlockSram
    <3>2. AllKept(scb') /\ ~scb'.locked
      BY <3>1 DEF AllKept, Remembered, Changed, ControlBlocks
    <3> QED
      BY <3>2, <1>1, <1>5, FreedLock DEF Nothing
  <2> QED
    BY <2>3, <2>4
<1> QED
  BY <1>2, <1>3, <1>4, <1>5 DEF SramStep

\* A mount or a look at the mode takes the lock and gives it back, or finds it taken.
LEMMA LookKeepsSram ==
  ASSUME SramInv, NEW h \in Halves, ~scb.locked, sramUser' = sramUser, pc'.at # "fault",
         scb' = UnlockSram(LockSram(scb).scb, h, FALSE, TRUE)
  PROVE  SramInv'
<1>1. AllKept(scb) /\ sramUser.half = "none"
  BY FreeLock
<1>2. AllKept(scb') /\ ~scb'.locked
  BY <1>1 DEF UnlockSram, LockSram, AllKept, Remembered, ControlBlocks
<1> QED
  BY <1>1, <1>2, FreedLock DEF SramInv

LEMMA StoreKeepsSram ==
  ASSUME SramInv, NEW id \in FlashIds, NEW works \in BOOLEAN, ~scb.locked,
         sramUser' = sramUser, pc'.at # "fault",
         scb' = UnlockSram([LockSram(scb).scb EXCEPT !.ram.ex = [value |-> id, sum |-> FlashCheck(id)]],
                           "ex", TRUE, works)
  PROVE  SramInv'
<1> DEFINE s == [LockSram(scb).scb EXCEPT !.ram.ex = [value |-> id, sum |-> FlashCheck(id)]]
<1>1. AllKept(scb) /\ sramUser.half = "none"
  BY FreeLock
<1>2. id \in Int /\ FlashCheck(id) \in Int
  BY CardAssumption DEF CardAssumption, FlashCheck
<1>3. /\ s \in ControlBlocks /\ s.ram["main"] = scb.ram["main"] /\ s.chip = scb.chip
      /\ s.sync = scb.sync /\ s.offset = scb.offset
  BY <1>1, <1>2 DEF AllKept, LockSram, ControlBlocks, Halves
<1>4. \A k \in Halves \ {"ex"} : Remembered(s, k)
  BY <1>1, <1>3 DEF AllKept, Remembered, Halves
<1>5. Right(s.ram) /\ Right(s.chip) /\ "ex" \in Halves
  BY <1>1, <1>3 DEF AllKept, Right, Halves
<1> HIDE DEF s
<1>6. AllKept(UnlockSram(s, "ex", TRUE, works)) /\ ~UnlockSram(s, "ex", TRUE, works).locked
  BY <1>3, <1>4, <1>5, CommitKeeps
<1> QED
  BY <1>1, <1>6, FreedLock DEF SramInv, s

\* A call that finds the lock taken and crashes: somebody holds it.
LEMMA CrashKeepsSram ==
  ASSUME SramInv, scb.locked, UNCHANGED sramVars PROVE SramInv'
BY DEF SramInv, sramVars, Remembered, Changed, Right

\* Other steps leave the SRAM alone and do not crash.
LEMMA ElseKeepsSram ==
  ASSUME SramInv, UNCHANGED sramVars, pc'.at # "fault" PROVE SramInv'
BY DEF SramInv, sramVars, Remembered, Changed, Right

\* The steps of a mount that answer it: they set pc to "idle".
LEMMA ErrorAnswers ==
  ASSUME NEW b, NEW outcome, Error(b, outcome) PROVE pc'.at = "idle"
BY DEF Error, Ends, Idle

LEMMA MountKeepsSram == SramInv /\ Mounting => SramInv'
<1> SUFFICES ASSUME SramInv, Mounting PROVE SramInv'
  OBVIOUS
<1>1. ASSUME NEW hasId \in BOOLEAN, NEW id \in Ids, Identify(hasId, id) PROVE SramInv'
  <2>1. pc'.at # "fault"
    BY <1>1, ErrorAnswers DEF Identify, At
  <2> QED
    BY <1>1, <2>1, ElseKeepsSram DEF Identify, sramVars
<1>2. ASSUME NEW status \in Imm, NEW probe \in -1 .. 1, Status(status, probe) PROVE SramInv'
  <2>1. pc'.at # "fault"
    BY <1>2, ErrorAnswers DEF Status, At
  <2> QED
    BY <1>2, <2>1, ElseKeepsSram DEF Status, sramVars
<1>3. ASSUME NEW ok \in BOOLEAN, NEW writeOk \in BOOLEAN, NEW id \in FlashIds,
             Unlock(ok, id, writeOk)
      PROVE  SramInv'
  <2>1. CASE ~ok
    BY <1>3, <2>1, ErrorAnswers, ElseKeepsSram DEF Unlock, sramVars
  <2>2. CASE ok /\ scb.locked
    <3>1. ~LockSram(scb).ok
      BY <2>2 DEF LockSram
    <3> QED
      BY <1>3, <2>2, <3>1, CrashKeepsSram DEF Unlock, Crash, sramVars
  <2>3. CASE ok /\ ~scb.locked
    <3>1. LockSram(scb).ok
      BY <2>3 DEF LockSram
    <3>2. /\ scb' = UnlockSram([LockSram(scb).scb EXCEPT !.ram.ex =
                                  [value |-> id, sum |-> FlashCheck(id)]], "ex", TRUE, writeOk)
          /\ pc'.at # "fault" /\ sramUser' = sramUser
      BY <1>3, <2>3, <3>1 DEF Unlock, Idle
    <3> QED
      BY <2>3, <3>2, StoreKeepsSram
  <2> QED
    BY <2>1, <2>2, <2>3
<1>4. ASSUME Flash PROVE SramInv'
  <2>1. CASE scb.locked
    <3>1. ~LockSram(scb).ok
      BY <2>1 DEF LockSram
    <3> QED
      BY <1>4, <2>1, <3>1, CrashKeepsSram DEF Flash, Crash, sramVars
  <2>2. CASE ~scb.locked
    <3>1. LockSram(scb).ok
      BY <2>2 DEF LockSram
    <3>2. scb' = UnlockSram(LockSram(scb).scb, "ex", FALSE, TRUE) /\ sramUser' = sramUser
      BY <1>4, <3>1 DEF Flash
    <3>3. pc'.at # "fault"
      BY <1>4, <3>1, ErrorAnswers DEF Flash, At
    <3> QED
      BY <2>2, <3>2, <3>3, LookKeepsSram DEF Halves
  <2> QED
    BY <2>1, <2>2
<1>5. ASSUME NEW hook \in BOOLEAN, __CARDReadSegment(hook) PROVE SramInv'
  <2>1. pc' \in {Idle, At("sent"), [at |-> "mount", with |-> NOCARD]}
    BY <1>5, Zenon
       DEF __CARDReadSegment, Ends, FirstSegmentFails, TellAttached, EndOfBlock
  <2>2. pc'.at # "fault"
    BY <2>1 DEF At, Idle
  <2> QED
    BY <1>5, <2>2, ElseKeepsSram DEF __CARDReadSegment, sramVars
<1>6. ASSUME NEW probe \in -1 .. 1, __CARDTxHandler(probe) PROVE SramInv'
  <2>1. pc'.at # "fault"
    BY <1>6 DEF __CARDTxHandler
  <2> QED
    BY <1>6, <2>1, ElseKeepsSram DEF __CARDTxHandler, sramVars
<1>7. ASSUME BlockReadCallback PROVE SramInv'
  <2>1. pc'.at # "fault"
    BY <1>7 DEF BlockReadCallback, EndOfBlock, At
  <2> QED
    BY <1>7, <2>1, ElseKeepsSram DEF BlockReadCallback, sramVars
<1>8. ASSUME NEW verified, __CARDMountCallback(verified) PROVE SramInv'
  <2>1. pc'.at # "fault"
    BY <1>8 DEF __CARDMountCallback, TellAttached, At, Idle
  <2> QED
    BY <1>8, <2>1, ElseKeepsSram DEF __CARDMountCallback, sramVars
<1> QED
  BY <1>1, <1>2, <1>3, <1>4, <1>5, <1>6, <1>7, <1>8 DEF Mounting

LEMMA SramNext == SramInv /\ [Next]_vars => SramInv'
<1> SUFFICES ASSUME SramInv, [Next]_vars PROVE SramInv'
  OBVIOUS
<1>1. ASSUME NEW attachOk \in BOOLEAN, Quiet, CARDMountAsync(attachOk) PROVE SramInv'
  <2>1. pc' = Idle \/ pc' = At("identify")
    BY ONLY <1>1 DEF CARDMountAsync, Quiet
  <2>2. pc'.at # "fault"
    BY <2>1 DEF At, Idle
  <2> QED
    BY <1>1, <2>2, ElseKeepsSram DEF CARDMountAsync, sramVars
<1>2. ASSUME Quiet, CARDUnmount PROVE SramInv'
  BY <1>2, ElseKeepsSram DEF CARDUnmount, sramVars, Quiet, Idle
<1>3. ASSUME Quiet, __CARDGetControlBlock PROVE SramInv'
  BY <1>3, ElseKeepsSram DEF __CARDGetControlBlock, sramVars, Quiet, Idle
<1>4. ASSUME Quiet, NEW outcome, PutBack(outcome) PROVE SramInv'
  BY <1>4, ElseKeepsSram DEF PutBack, sramVars, Quiet, Idle
<1>5. ASSUME Quiet, ClientStep PROVE SramInv'
  BY <1>5, ElseKeepsSram DEF ClientStep, sramVars, Quiet, Idle
<1>6. ASSUME Quiet, OSGetProgressiveMode PROVE SramInv'
  <2>1. CASE scb.locked
    <3>1. ~LockSram(scb).ok
      BY <2>1 DEF LockSram
    <3> QED
      BY <1>6, <2>1, <3>1, CrashKeepsSram DEF OSGetProgressiveMode, sramVars
  <2>2. CASE ~scb.locked
    <3>1. LockSram(scb).ok
      BY <2>2 DEF LockSram
    <3>2. /\ scb' = UnlockSram(LockSram(scb).scb, "main", FALSE, TRUE)
          /\ sramUser' = sramUser /\ pc'.at # "fault"
      BY <1>6, <3>1 DEF OSGetProgressiveMode, Quiet, Idle
    <3> QED
      BY <2>2, <3>2, LookKeepsSram DEF Halves
  <2> QED
    BY <2>1, <2>2
<1>7. ASSUME UNCHANGED vars PROVE SramInv'
  <2>1. UNCHANGED sramVars /\ pc' = pc
    BY <1>7 DEF vars, sramVars
  <2> QED
    BY <2>1 DEF SramInv, sramVars, Remembered, Changed, Right
<1> QED
  BY <1>1, <1>2, <1>3, <1>4, <1>5, <1>6, <1>7, MountKeepsSram, ClientKeepsSram DEF Next

\* Whatever the chip refuses and whatever mounts come between, the SRAM forgets no
\* commit, its settings match their checksum, and its lock is held by a client alone:
\* SramKept of CardMount, for all settings, flash ids, card ids and segments.
THEOREM SramKeptAlways == Spec => []SramKept
<1>1. SramInv => SramKept
  BY DEF SramInv, SramKept, Remembered, Changed, Right
<1> QED
  BY <1>1, SramInitially, SramNext, PTL DEF Spec

-----------------------------------------------------------------------------
(***************************************************************************)
(* For all cards, segments and settings: however a mount ends, the EXI     *)
(* channel is locked, selected and attached only for those who know it     *)
(* (BusReturned of CardMount).                                             *)
(*                                                                         *)
(* BusInv follows the channel through a mount: the card holds it locked    *)
(* until the flash ID was checked, then it is free between segments and    *)
(* locked and selected during one.                                         *)
(***************************************************************************)
Held(b, locked, selected, busy, attached) ==
  /\ b \in Channels
  /\ b.locked <=> locked
  /\ b.selected <=> selected
  /\ b.busy <=> busy
  /\ b.attached <=> attached

\* Calls of the bus, by what they do to lock, selection, transfer and attachment.
LEMMA Locking ==
  ASSUME NEW b \in Channels, NEW dev \in Devices
  PROVE  /\ EXILock(b, dev).ok <=> (b.ok /\ ~b.locked)
         /\ Held(EXILock(b, dev), TRUE, b.selected, b.busy, b.attached)
BY DEF EXILock, Channels, Refused, Held

LEMMA Unlocking ==
  ASSUME NEW b \in Channels
  PROVE  /\ EXIUnlock(b).ok <=> (b.ok /\ ~b.busy)
         /\ Held(EXIUnlock(b), b.locked /\ b.busy, b.selected, b.busy, b.attached)
BY DEF EXIUnlock, Channels, Refused, Held

LEMMA Selecting ==
  ASSUME NEW b \in Channels, NEW dev \in Devices
  PROVE  /\ EXISelect(b, dev).ok <=> (b.ok /\ b.locked /\ ~b.selected)
         /\ Held(EXISelect(b, dev), b.locked, b.selected \/ b.locked, b.busy, b.attached)
BY DEF EXISelect, Channels, Refused, Held

LEMMA Deselecting ==
  ASSUME NEW b \in Channels
  PROVE  /\ EXIDeselect(b).ok <=> (b.ok /\ b.selected /\ ~b.busy)
         /\ Held(EXIDeselect(b), b.locked, b.selected /\ b.busy, b.busy, b.attached)
BY DEF EXIDeselect, Channels, Refused, Held

LEMMA Writing ==
  ASSUME NEW b \in Channels, NEW cmd \in Commands
  PROVE  /\ EXIImmWrite(b, cmd).ok <=> (b.ok /\ b.selected /\ ~b.busy)
         /\ Held(EXIImmWrite(b, cmd), b.locked, b.selected, b.busy \/ b.selected, b.attached)
BY DEF EXIImmWrite, Channels, Refused, Held, Imm

LEMMA Reading ==
  ASSUME NEW b \in Channels, NEW status \in Imm
  PROVE  /\ EXIImmRead(b, status).ok <=> (b.ok /\ b.selected /\ ~b.busy)
         /\ Held(EXIImmRead(b, status), b.locked, b.selected, b.busy \/ b.selected, b.attached)
BY DEF EXIImmRead, Channels, Refused, Held

LEMMA Completing ==
  ASSUME NEW b \in Channels
  PROVE  (EXISync(b).ok <=> b.ok) /\ Held(EXISync(b), b.locked, b.selected, FALSE, b.attached)
BY DEF EXISync, Channels, Held

LEMMA WritingAll ==
  ASSUME NEW b \in Channels, NEW cmd \in Commands, b.ok, ~b.busy
  PROVE  /\ EXIImmEx(b, cmd).ok <=> b.selected
         /\ Held(EXIImmEx(b, cmd), b.locked, b.selected, FALSE, b.attached)
<1> DEFINE addressed == IF cmd = "read" THEN [b EXCEPT !.hasAddr = TRUE] ELSE b
<1>1. addressed.ok /\ Held(addressed, b.locked, b.selected, FALSE, b.attached)
  BY DEF Held, Channels
<1>2. EXIImmEx(b, cmd) = LET written == EXIImmWrite(addressed, cmd)
                         IN IF written.ok THEN EXISync(written) ELSE written
  BY DEF EXIImmEx
<1> HIDE DEF addressed
<1>3. /\ EXIImmWrite(addressed, cmd).ok <=> b.selected
      /\ Held(EXIImmWrite(addressed, cmd), b.locked, b.selected, b.selected, b.attached)
  BY <1>1, Writing DEF Held
<1> QED
  BY <1>2, <1>3, Completing DEF Held

LEMMA Moving ==
  ASSUME NEW b \in Channels, NEW hook \in BOOLEAN, ~b.busy
  PROVE  /\ EXIDma(b, hook).ok => b.ok
         /\ Held(EXIDma(b, hook), b.locked, b.selected, FALSE, b.attached)
BY DEF EXIDma, Channels, Refused, Held

LEMMA Attaching ==
  ASSUME NEW b \in Channels, NEW works \in BOOLEAN
  PROVE  /\ EXIAttach(b, works).ok <=> (b.ok /\ works)
         /\ Held(EXIAttach(b, works), b.locked, b.selected, b.busy, b.attached \/ works)
BY DEF EXIAttach, Channels, Refused, Held

LEMMA Detaching ==
  ASSUME NEW b \in Channels
  PROVE  (EXIDetach(b).ok <=> b.ok) /\ Held(EXIDetach(b), b.locked, b.selected, b.busy, FALSE)
BY DEF EXIDetach, Channels, Held

LEMMA Resting ==
  ASSUME NEW b \in Channels
  PROVE  Channel(b).ok /\ Held(Channel(b), b.locked, b.selected, b.busy, b.attached)
BY DEF Channel, Channels, Held

-----------------------------------------------------------------------------
(* The card's commands.                                                     *)

\* A command ends as it began, but that a refused one may leave the channel so that the
\* next call is refused too.
Ended(c, b) == Held(c, b.locked, b.selected, FALSE, b.attached) /\ (c.ok => ~b.selected)

LEMMA Sending ==
  ASSUME NEW b \in Channels, NEW cmd \in Commands, b.ok, b.locked, ~b.selected, ~b.busy
  PROVE  Sent(b, cmd).ok /\ Held(Sent(b, cmd), TRUE, TRUE, FALSE, b.attached)
<1>1. EXISelect(b, 0).ok /\ Held(EXISelect(b, 0), TRUE, TRUE, FALSE, b.attached)
  BY Selecting DEF Held, Devices
<1>2. /\ EXIImmWrite(EXISelect(b, 0), cmd).ok
      /\ Held(EXIImmWrite(EXISelect(b, 0), cmd), TRUE, TRUE, TRUE, b.attached)
  BY <1>1, Writing DEF Held
<1> QED
  BY <1>2, Completing DEF Held, Sent

LEMMA RefusedEnds ==
  ASSUME NEW b \in Channels, ~b.busy PROVE Ended(Refused(b), b)
BY DEF Ended, Held, Refused, Channels

LEMMA Clearing ==
  ASSUME NEW b \in Channels, b.ok, b.locked, ~b.busy PROVE Ended(__CARDClearStatus(b), b)
<1>1. CASE b.selected
  BY <1>1, Selecting, RefusedEnds DEF __CARDClearStatus, Devices
<1>2. CASE ~b.selected
  <2> DEFINE s == Sent(b, "clear status")
  <2>1. Held(s, TRUE, TRUE, FALSE, b.attached)
    BY <1>2, Sending DEF Commands
  <2>2. __CARDClearStatus(b) = EXIDeselect(s)
    BY <1>2, Selecting DEF __CARDClearStatus, Devices
  <2> HIDE DEF s
  <2> QED
    BY <1>2, <2>1, <2>2, Deselecting DEF Held, Ended
<1> QED
  BY <1>1, <1>2

LEMMA Asking ==
  ASSUME NEW b \in Channels, NEW status \in Imm, b.ok, b.locked, ~b.busy
  PROVE  Ended(__CARDReadStatus(b, status), b)
<1>1. CASE b.selected
  BY <1>1, Selecting, RefusedEnds DEF __CARDReadStatus, Devices
<1>2. CASE ~b.selected
  <2> DEFINE s == Sent(b, "read status")
             r == EXIImmRead(s, status)
  <2>1. s.ok /\ Held(s, TRUE, TRUE, FALSE, b.attached)
    BY <1>2, Sending DEF Commands
  <2>2. __CARDReadStatus(b, status) = EXIDeselect(EXISync(r))
    BY <1>2, Selecting DEF __CARDReadStatus, Devices
  <2> HIDE DEF s
  <2>3. Held(r, TRUE, TRUE, TRUE, b.attached)
    BY <2>1, Reading DEF Held
  <2> HIDE DEF r
  <2>4. Held(EXISync(r), TRUE, TRUE, FALSE, b.attached)
    BY <2>3, Completing DEF Held
  <2> QED
    BY <1>2, <2>2, <2>4, Deselecting DEF Held, Ended
<1> QED
  BY <1>1, <1>2

LEMMA Enabling ==
  ASSUME NEW b \in Channels, b.ok, b.locked, ~b.busy
  PROVE  Ended(__CARDEnableInterrupt(b), b)
<1>1. CASE b.selected
  BY <1>1, Selecting, RefusedEnds DEF __CARDEnableInterrupt, Devices
<1>2. CASE ~b.selected
  <2> DEFINE s == Sent(b, "enable interrupt")
  <2>1. Held(s, TRUE, TRUE, FALSE, b.attached)
    BY <1>2, Sending DEF Commands
  <2>2. __CARDEnableInterrupt(b) = EXIDeselect(s)
    BY <1>2, Selecting DEF __CARDEnableInterrupt, Devices
  <2> HIDE DEF s
  <2> QED
    BY <1>2, <2>1, <2>2, Deselecting DEF Held, Ended
<1> QED
  BY <1>1, <1>2

-----------------------------------------------------------------------------
(* The invariant.                                                           *)

Cards ==
  [result : Int, attached : BOOLEAN, step : Int, id : Int, api : BOOLEAN, repeat : Int,
   block : Int, segment : Int]

HoldsBus == {"identify", "status", "unlock", "flash"}
BetweenSegments == {"segment", "block", "mount"}

BusTyped ==
  /\ bus \in Channels /\ bus.ok
  /\ card \in Cards
  /\ pc \in [at : {"idle", "fault", "sent"} \cup HoldsBus \cup BetweenSegments, with : Int]
  /\ call \in [asked : BOOLEAN, returned : Int, callbacks : Seq(Int),
               waits : {"no", "bus", "unlock"}]
  /\ client \in [locked : BOOLEAN, selected : BOOLEAN, attached : BOOLEAN]
  /\ cardUser \in BOOLEAN

\* Between calls: BusReturned, and a card that waits or has a user is busy.
Rest ==
  /\ bus.locked <=> client.locked \/ call.waits = "unlock"
  /\ bus.selected <=> client.selected
  /\ bus.busy => client.locked
  /\ bus.attached <=> card.attached \/ client.attached
  /\ ~(card.attached /\ client.attached)
  /\ call.waits = "unlock" => ~client.locked
  /\ call.waits # "no" => card.result = BUSY /\ ~cardUser
  /\ cardUser => card.result = BUSY

\* In a mount that got the bus.
Mounted ==
  /\ card.attached /\ ~client.locked /\ ~client.attached
  /\ call.waits = "no" /\ ~cardUser

BusInv ==
  /\ BusTyped
  /\ pc.at = "idle" => Rest
  /\ pc.at \in HoldsBus =>
       Mounted /\ card.result = BUSY /\ Held(bus, TRUE, client.selected, FALSE, TRUE)
  /\ pc.at \in BetweenSegments => Mounted /\ ~client.selected /\ Held(bus, FALSE, FALSE, FALSE, TRUE)
  /\ pc.at = "sent" => Mounted /\ ~client.selected /\ Held(bus, TRUE, TRUE, FALSE, TRUE)

others == <<client, cardUser>>

LEMMA BusInitially == Init => BusInv
<1> SUFFICES ASSUME Init PROVE BusInv
  OBVIOUS
<1>1. bus \in Channels /\ bus.ok /\ Held(bus, FALSE, FALSE, FALSE, FALSE)
  BY DEF Init, EXIInit, Channels, Devices, Imm, Held
<1>2. card \in Cards /\ ~card.attached
  BY DEF Init, CARDInit, Cards, NOCARD
<1>3. /\ call \in [asked : BOOLEAN, returned : Int, callbacks : Seq(Int),
                   waits : {"no", "bus", "unlock"}]
      /\ call.waits = "no"
  BY DEF Init, NoCall, READY
<1>4. /\ client \in [locked : BOOLEAN, selected : BOOLEAN, attached : BOOLEAN]
      /\ ~client.locked /\ ~client.selected /\ ~client.attached
      /\ cardUser = FALSE
  BY DEF Init
<1>5. /\ pc \in [at : {"idle", "fault", "sent"} \cup HoldsBus \cup BetweenSegments, with : Int]
      /\ pc.at = "idle"
  BY DEF Init, Idle, READY
<1>6. BusTyped
  BY <1>1, <1>2, <1>3, <1>4, <1>5 DEF BusTyped
<1>7. Rest
  BY <1>1, <1>2, <1>3, <1>4 DEF Rest, Held
<1> QED
  BY <1>5, <1>6, <1>7 DEF BusInv, HoldsBus, BetweenSegments

LEMMA UnmountedCard ==
  ASSUME NEW c \in Cards, NEW r \in Int
  PROVE  Unmounted(c, r) \in Cards /\ ~Unmounted(c, r).attached
<1>1. CASE c.attached
  <2>1. Unmounted(c, r) = [c EXCEPT !.attached = FALSE, !.result = r, !.step = 0]
    BY <1>1 DEF Unmounted
  <2>2. 0 \in Int
    OBVIOUS
  <2> QED
    BY <2>1, <2>2 DEF Cards
<1>2. CASE ~c.attached
  BY <1>2 DEF Unmounted
<1> QED
  BY <1>1, <1>2

LEMMA PutCard ==
  ASSUME NEW c \in Cards, NEW r \in Int
  PROVE  /\ __CARDPutControlBlock(c, r) \in Cards
         /\ __CARDPutControlBlock(c, r).attached = c.attached
BY DEF __CARDPutControlBlock, Cards

LEMMA ReadingCard ==
  ASSUME NEW c \in Cards PROVE BeginRead(c) \in Cards /\ BeginRead(c).attached = c.attached
<1>1. Segments \in Int /\ c.step - 2 \in Int /\ 0 \in Int
  BY CardAssumption DEF CardAssumption, Cards
<1> QED
  BY <1>1 DEF BeginRead, Cards

\* The error label gives the bus back.
LEMMA ErrorReturns ==
  ASSUME BusTyped, Mounted, NEW b \in Channels, Held(b, TRUE, client.selected, FALSE, TRUE),
         NEW r \in Int, Error(b, r), UNCHANGED others
  PROVE  BusInv'
<1> DEFINE u == EXIUnlock(b)
           d == EXIDetach(u)
<1>1. Held(u, FALSE, client.selected, FALSE, TRUE)
  BY Unlocking DEF Held
<1> HIDE DEF u
<1>2. Held(d, FALSE, client.selected, FALSE, FALSE)
  BY <1>1, Detaching DEF Held
<1>3. bus' = Channel(d) /\ card' = Unmounted(card, r) /\ Ends(r)
  BY DEF Error, d, u
<1> HIDE DEF d
<1>4. bus'.ok /\ Held(bus', FALSE, client.selected, FALSE, FALSE)
  BY <1>2, <1>3, Resting DEF Held
<1>5. card' \in Cards /\ ~card'.attached
  BY <1>3, UnmountedCard DEF BusTyped
<1>6. /\ pc' = Idle
      /\ call' \in [asked : BOOLEAN, returned : Int, callbacks : Seq(Int),
                    waits : {"no", "bus", "unlock"}]
      /\ call'.waits = "no"
  BY <1>3 DEF Ends, BusTyped, Mounted
<1> QED
  BY <1>4, <1>5, <1>6
     DEF BusInv, BusTyped, Rest, Mounted, Held, others, Idle, HoldsBus, BetweenSegments, READY

\* The end of __CARDMountCallback leaves a bus that nobody holds.
LEMMA TellingRests ==
  ASSUME BusTyped, call.waits = "no", ~cardUser, ~client.locked, ~client.selected, ~client.attached,
         NEW c \in Cards, NEW r \in Int, TellAttached(c, r),
         bus' \in Channels, bus'.ok, Held(bus', FALSE, FALSE, FALSE, c.attached), UNCHANGED others
  PROVE  BusInv'
<1> DEFINE a == [c EXCEPT !.api = FALSE]
<1>1. a \in Cards /\ a.attached = c.attached
  BY DEF Cards
<1>2. card' = __CARDPutControlBlock(a, r)
  BY DEF TellAttached
<1> HIDE DEF a
<1>3. card' \in Cards /\ card'.attached = c.attached
  BY <1>1, <1>2, PutCard
<1>4. /\ pc' = Idle
      /\ call' \in [asked : BOOLEAN, returned : Int, callbacks : Seq(Int),
                    waits : {"no", "bus", "unlock"}]
      /\ call'.waits = "no"
  <2>1. Append(call.callbacks, r) \in Seq(Int)
    BY DEF BusTyped
  <2>2. pc' = Idle /\ call' = [call EXCEPT !.callbacks = IF c.api THEN Append(@, r) ELSE @]
    BY DEF TellAttached
  <2> QED
    BY <2>1, <2>2 DEF BusTyped
<1> QED
  BY <1>3, <1>4 DEF BusInv, BusTyped, Rest, Held, others, Idle, HoldsBus, BetweenSegments, READY

-----------------------------------------------------------------------------
(* One lemma for each step of a mount.                                      *)

\* A step that keeps the card attached and leaves the bus as the next function needs it.
LEMMA GoesOn ==
  ASSUME BusTyped, Mounted, NEW f \in {"sent"} \cup HoldsBus \cup BetweenSegments,
         NEW r \in Int, pc' = [at |-> f, with |-> r],
         card' \in Cards, card'.attached, call' = call, UNCHANGED others,
         bus' \in Channels, bus'.ok,
         f \in HoldsBus => card'.result = BUSY /\ Held(bus', TRUE, client.selected, FALSE, TRUE),
         f \notin HoldsBus => ~client.selected,
         f \in BetweenSegments => Held(bus', FALSE, FALSE, FALSE, TRUE),
         f = "sent" => Held(bus', TRUE, TRUE, FALSE, TRUE)
  PROVE  BusInv'
BY DEF BusInv, BusTyped, Mounted, others, HoldsBus, BetweenSegments

LEMMA IdentifyReturns ==
  ASSUME BusInv, NEW hasId \in BOOLEAN, NEW id \in Ids, Identify(hasId, id) PROVE BusInv'
<1>1. /\ pc.at \in HoldsBus /\ BusTyped /\ Mounted /\ card.result = BUSY
      /\ Held(bus, TRUE, client.selected, FALSE, TRUE)
  BY DEF Identify, At, BusInv, HoldsBus
<1>2. UNCHANGED others
  BY DEF Identify, others
<1>3. CASE hasId /\ IsCard(id)
  <2>1. pc' = [at |-> "status", with |-> READY] /\ bus' = bus /\ call' = call
        /\ card' = [card EXCEPT !.id = id]
    BY <1>3 DEF Identify, At
  <2>2. id \in Int
    BY CardAssumption DEF CardAssumption
  <2>3. card' \in Cards /\ card'.attached /\ card'.result = card.result
    BY <1>1, <2>1, <2>2 DEF BusTyped, Mounted, Cards
  <2>4. bus' \in Channels /\ bus'.ok /\ Held(bus', TRUE, client.selected, FALSE, TRUE)
    BY <1>1, <2>1 DEF BusTyped, Held
  <2>5. /\ "status" \in HoldsBus /\ "status" \notin BetweenSegments /\ "status" # "sent"
        /\ READY \in Int
    BY DEF HoldsBus, BetweenSegments, READY
  <2> QED
    BY <1>1, <1>2, <2>1, <2>3, <2>4, <2>5, GoesOn
<1>4. CASE ~(hasId /\ IsCard(id))
  <2>1. PICK r \in {WRONGDEVICE, NOCARD} : Error(bus, r)
    BY <1>4 DEF Identify
  <2> QED
    BY <1>1, <1>2, <2>1, ErrorReturns DEF Held, WRONGDEVICE, NOCARD
<1> QED
  BY <1>3, <1>4

LEMMA StatusReturns ==
  ASSUME BusInv, NEW status \in Imm, NEW probe \in -1 .. 1, Status(status, probe) PROVE BusInv'
<1> DEFINE cleared == __CARDClearStatus(bus)
           asked == IF cleared.ok THEN __CARDReadStatus(cleared, status) ELSE cleared
<1>1. /\ pc.at \in HoldsBus /\ BusTyped /\ Mounted /\ card.result = BUSY
      /\ Held(bus, TRUE, client.selected, FALSE, TRUE)
  BY DEF Status, At, BusInv, HoldsBus
<1>2. UNCHANGED others
  BY DEF Status, others
<1>3. /\ IF asked.ok /\ EXIProbe(probe)
         THEN /\ pc' = At(IF asked.imm = "unlocked" THEN "flash" ELSE "unlock")
              /\ bus' = asked
              /\ UNCHANGED <<card, call>>
         ELSE Error(asked, NOCARD)
  BY DEF Status
<1>4. Held(cleared, TRUE, client.selected, FALSE, TRUE)
  BY <1>1, Clearing DEF BusTyped, Ended, Held
<1>5. cleared.ok => Held(__CARDReadStatus(cleared, status), TRUE, client.selected, FALSE, TRUE)
  BY <1>4, Asking DEF Ended, Held
<1> HIDE DEF cleared
<1>6. Held(asked, TRUE, client.selected, FALSE, TRUE)
  BY <1>4, <1>5
<1> HIDE DEF asked
<1>7. CASE asked.ok /\ EXIProbe(probe)
  <2>1. PICK f \in {"flash", "unlock"} : pc' = [at |-> f, with |-> READY]
    BY <1>3, <1>7 DEF At
  <2> QED
    BY <1>1, <1>2, <1>3, <1>6, <1>7, <2>1, GoesOn
       DEF BusTyped, Mounted, Held, HoldsBus, BetweenSegments, READY
<1>8. CASE ~(asked.ok /\ EXIProbe(probe))
  BY <1>1, <1>2, <1>3, <1>6, <1>8, ErrorReturns DEF Held, NOCARD
<1> QED
  BY <1>7, <1>8

\* A crash ends everything.
LEMMA CrashReturns ==
  ASSUME BusInv, Crash, UNCHANGED others PROVE BusInv'
BY DEF BusInv, BusTyped, Crash, At, others, READY, HoldsBus, BetweenSegments

LEMMA UnlockReturns ==
  ASSUME BusInv, NEW ok \in BOOLEAN, NEW id \in FlashIds, NEW writeOk \in BOOLEAN,
         Unlock(ok, id, writeOk)
  PROVE  BusInv'
<1>1. /\ pc.at \in HoldsBus /\ BusTyped /\ Mounted /\ card.result = BUSY
      /\ Held(bus, TRUE, client.selected, FALSE, TRUE)
  BY DEF Unlock, At, BusInv, HoldsBus
<1>2. UNCHANGED others
  BY DEF Unlock, others
<1>3. CASE ~ok
  BY <1>1, <1>2, <1>3, ErrorReturns DEF Unlock, Held, NOCARD
<1>4. CASE ok /\ ~LockSram(scb).ok
  BY <1>2, <1>4, CrashReturns DEF Unlock
<1>5. CASE ok /\ LockSram(scb).ok
  <2>1. /\ pc' = Idle /\ call' = [call EXCEPT !.waits = "unlock"]
        /\ bus' = bus /\ card' = card
    BY <1>5 DEF Unlock
  <2>2. /\ call' \in [asked : BOOLEAN, returned : Int, callbacks : Seq(Int),
                      waits : {"no", "bus", "unlock"}]
        /\ call'.waits = "unlock"
    BY <1>1, <2>1 DEF BusTyped
  <2>3. pc' \in [at : {"idle", "fault", "sent"} \cup HoldsBus \cup BetweenSegments, with : Int]
        /\ pc'.at = "idle"
    BY <2>1 DEF Idle, READY
  <2>4. BusTyped'
    BY <1>1, <1>2, <2>1, <2>2, <2>3 DEF BusTyped, others
  <2>5. Rest'
    BY <1>1, <1>2, <2>1, <2>2 DEF Rest, Mounted, Held, others
  <2> QED
    BY <2>3, <2>4, <2>5 DEF BusInv, HoldsBus, BetweenSegments
<1> QED
  BY <1>3, <1>4, <1>5

LEMMA FlashReturns == ASSUME BusInv, Flash PROVE BusInv'
<1> DEFINE enabled == __CARDEnableInterrupt(bus)
<1>1. /\ pc.at \in HoldsBus /\ BusTyped /\ Mounted /\ card.result = BUSY
      /\ Held(bus, TRUE, client.selected, FALSE, TRUE)
  BY DEF Flash, At, BusInv, HoldsBus
<1>2. UNCHANGED others
  BY DEF Flash, others
<1>3. Held(enabled, TRUE, client.selected, FALSE, TRUE) /\ (enabled.ok => ~client.selected)
  BY <1>1, Enabling DEF BusTyped, Ended, Held
<1>4. \/ Crash
      \/ Error(bus, IOERROR)
      \/ ~enabled.ok /\ Error(enabled, NOCARD)
      \/ /\ enabled.ok /\ bus' = EXIUnlock(enabled)
         /\ card' = BeginRead([card EXCEPT !.step = 2])
         /\ pc' = At("segment") /\ UNCHANGED call
  BY DEF Flash
<1> HIDE DEF enabled
<1>5. CASE Crash
  BY <1>2, <1>5, CrashReturns
<1>6. CASE Error(bus, IOERROR)
  BY <1>1, <1>2, <1>6, ErrorReturns DEF Held, IOERROR
<1>7. CASE Error(enabled, NOCARD)
  BY <1>1, <1>2, <1>3, <1>7, ErrorReturns DEF Held, NOCARD
<1>8. CASE /\ enabled.ok /\ bus' = EXIUnlock(enabled)
           /\ card' = BeginRead([card EXCEPT !.step = 2])
           /\ pc' = At("segment") /\ UNCHANGED call
  <2>1. bus'.ok /\ Held(bus', FALSE, FALSE, FALSE, TRUE)
    BY <1>3, <1>8, Unlocking DEF Held
  <2>2. [card EXCEPT !.step = 2] \in Cards /\ [card EXCEPT !.step = 2].attached
    BY <1>1 DEF BusTyped, Mounted, Cards
  <2>3. card' \in Cards /\ card'.attached
    BY <1>8, <2>2, ReadingCard
  <2> QED
    BY <1>1, <1>2, <1>3, <1>8, <2>1, <2>3, GoesOn
       DEF At, Held, HoldsBus, BetweenSegments, READY
<1> QED
  BY <1>4, <1>5, <1>6, <1>7, <1>8

LEMMA SegmentReturns ==
  ASSUME BusInv, NEW hook \in BOOLEAN, __CARDReadSegment(hook) PROVE BusInv'
<1> DEFINE started == __CARDStart(bus)
           packet == IF started.ok THEN EXIImmEx(started, "read") ELSE started
           latency == IF packet.ok THEN EXIImmEx(packet, "latency") ELSE packet
           sent == IF latency.ok THEN EXIDma(latency, hook) ELSE latency
           returned == EXIUnlock(IF started.ok THEN EXIDeselect(sent) ELSE started)
<1>1. /\ pc.at = "segment" /\ BusTyped /\ Mounted /\ ~client.selected
      /\ Held(bus, FALSE, FALSE, FALSE, TRUE)
  BY DEF __CARDReadSegment, At, BusInv, BetweenSegments
<1>2. UNCHANGED others /\ card.attached /\ ~bus.locked
  BY <1>1 DEF __CARDReadSegment, others, Mounted, Held
<1>3. \/ /\ sent.ok /\ bus' = sent
         /\ pc' = At("sent") /\ UNCHANGED <<card, call>>
      \/ /\ bus' = Channel(returned)
         /\ \/ FirstSegmentFails
            \/ EndOfBlock(card, NOCARD)
  BY <1>2 DEF __CARDReadSegment
<1>4. started.ok /\ Held(started, TRUE, TRUE, FALSE, TRUE)
  <2>1. EXILock(bus, 0).ok /\ Held(EXILock(bus, 0), TRUE, FALSE, FALSE, TRUE)
    BY <1>1, Locking DEF BusTyped, Held, Devices
  <2>2. started = EXISelect(EXILock(bus, 0), 0)
    BY <1>2 DEF __CARDStart
  <2> QED
    BY <2>1, <2>2, Selecting DEF Held, Devices
<1> HIDE DEF started
<1>5. packet.ok /\ Held(packet, TRUE, TRUE, FALSE, TRUE)
  BY <1>4, WritingAll DEF Held, Commands
<1> HIDE DEF packet
<1>6. latency.ok /\ Held(latency, TRUE, TRUE, FALSE, TRUE)
  BY <1>5, WritingAll DEF Held, Commands
<1> HIDE DEF latency
<1>7. Held(sent, TRUE, TRUE, FALSE, TRUE)
  BY <1>6, Moving DEF Held
<1> HIDE DEF sent
<1>8. Held(EXIDeselect(sent), TRUE, FALSE, FALSE, TRUE)
  BY <1>7, Deselecting DEF Held
<1>9. Held(returned, FALSE, FALSE, FALSE, TRUE)
  <2>1. returned = EXIUnlock(EXIDeselect(sent))
    BY <1>4
  <2> QED
    BY <1>8, <2>1, Unlocking DEF Held
<1> HIDE DEF returned
<1>10. CASE sent.ok /\ bus' = sent /\ pc' = At("sent") /\ UNCHANGED <<card, call>>
  <2>1. pc' = [at |-> "sent", with |-> READY] /\ READY \in Int
    BY <1>10 DEF At, READY
  <2>2. "sent" \notin HoldsBus /\ "sent" \notin BetweenSegments
    BY DEF HoldsBus, BetweenSegments
  <2>3. /\ bus' \in Channels /\ bus'.ok /\ Held(bus', TRUE, TRUE, FALSE, TRUE)
        /\ card' \in Cards /\ card'.attached /\ call' = call
    BY <1>1, <1>7, <1>10 DEF BusTyped, Mounted, Held
  <2> QED
    BY <1>1, <1>2, <2>1, <2>2, <2>3, GoesOn
<1>11. ASSUME bus' = Channel(returned) PROVE bus' \in Channels /\ bus'.ok /\ Held(bus', FALSE, FALSE, FALSE, TRUE)
  BY <1>9, <1>11, Resting DEF Held
<1>12. card \in Cards /\ NOCARD \in Int
  BY <1>1 DEF BusTyped, NOCARD
<1>13. CASE bus' = Channel(returned) /\ FirstSegmentFails
  <2> DEFINE c == __CARDPutControlBlock(card, NOCARD)
  <2>1. c \in Cards /\ c.attached
    BY <1>2, <1>12, PutCard
  <2>2. \/ card' = c /\ Ends(NOCARD)
        \/ TellAttached(c, NOCARD)
    BY <1>13 DEF FirstSegmentFails
  <2> HIDE DEF c
  <2>3. CASE TellAttached(c, NOCARD)
    BY <1>1, <1>2, <1>11, <1>13, <1>12, <2>1, <2>3, TellingRests DEF Mounted, Held
  <2>4. CASE card' = c /\ Ends(NOCARD)
    <3>1. /\ pc' = Idle
          /\ call' \in [asked : BOOLEAN, returned : Int, callbacks : Seq(Int),
                        waits : {"no", "bus", "unlock"}]
          /\ call'.waits = "no"
      BY <1>1, <1>12, <2>1, <2>4 DEF Ends, BusTyped, Mounted
    <3> QED
      BY <1>1, <1>2, <1>11, <1>13, <2>1, <2>4, <3>1
         DEF BusInv, BusTyped, Rest, Mounted, Held, others, Idle, HoldsBus, BetweenSegments, READY
  <2> QED
    BY <2>2, <2>3, <2>4
<1>14. CASE bus' = Channel(returned) /\ EndOfBlock(card, NOCARD)
  <2>1. card' \in Cards /\ card'.attached
    BY <1>2, <1>14, <1>12, PutCard DEF EndOfBlock
  <2>2. pc' = [at |-> "mount", with |-> NOCARD] /\ call' = call
    BY <1>14 DEF EndOfBlock
  <2>3. "mount" \in BetweenSegments /\ "mount" \notin HoldsBus /\ "mount" # "sent"
    BY DEF BetweenSegments, HoldsBus
  <2> QED
    BY <1>1, <1>2, <1>11, <1>14, <1>12, <2>1, <2>2, <2>3, GoesOn
<1> QED
  BY <1>3, <1>10, <1>13, <1>14

LEMMA SentReturns ==
  ASSUME BusInv, NEW probe \in -1 .. 1, __CARDTxHandler(probe) PROVE BusInv'
<1> DEFINE d == EXIDeselect(bus)
           r == IF d.ok /\ EXIProbe(probe) THEN READY ELSE NOCARD
<1>1. /\ BusTyped /\ Mounted /\ ~client.selected
      /\ Held(bus, TRUE, TRUE, FALSE, TRUE)
  BY DEF __CARDTxHandler, At, BusInv
<1>2. UNCHANGED others /\ card' = card /\ call' = call
      /\ bus' = Channel(EXIUnlock(d)) /\ pc' = [at |-> "block", with |-> r]
  BY DEF __CARDTxHandler, others
<1>3. r \in Int
  BY DEF READY, NOCARD
<1> HIDE DEF r
<1>4. Held(d, TRUE, FALSE, FALSE, TRUE)
  BY <1>1, Deselecting DEF Held
<1> HIDE DEF d
<1>5. Held(EXIUnlock(d), FALSE, FALSE, FALSE, TRUE)
  BY <1>4, Unlocking DEF Held
<1>6. bus' \in Channels /\ bus'.ok /\ Held(bus', FALSE, FALSE, FALSE, TRUE)
  BY <1>2, <1>5, Resting DEF Held
<1>7. "block" \in BetweenSegments /\ "block" \notin HoldsBus /\ "block" # "sent"
  BY DEF BetweenSegments, HoldsBus
<1>8. card' \in Cards /\ card'.attached
  BY <1>1, <1>2 DEF BusTyped, Mounted
<1> QED
  BY <1>1, <1>2, <1>3, <1>6, <1>7, <1>8, GoesOn

LEMMA BlockReturns == ASSUME BusInv, BlockReadCallback PROVE BusInv'
<1> DEFINE c == [card EXCEPT !.repeat = @ - 1, !.segment = @ + 1]
<1>1. /\ BusTyped /\ Mounted /\ ~client.selected
      /\ Held(bus, FALSE, FALSE, FALSE, TRUE)
  BY DEF BlockReadCallback, BusInv, BetweenSegments
<1>2. UNCHANGED others /\ bus' = bus
  BY DEF BlockReadCallback, others
<1>3. card \in Cards /\ card.attached /\ pc.with \in Int
  BY <1>1 DEF BusTyped, Mounted
<1>4. card.repeat - 1 \in Int /\ card.segment + 1 \in Int
  BY <1>3 DEF Cards
<1>5. c \in Cards /\ c.attached
  BY <1>3, <1>4 DEF Cards
<1>6. \/ EndOfBlock(card, pc.with)
      \/ EndOfBlock(c, pc.with)
      \/ card' = c /\ pc' = At("segment") /\ UNCHANGED call
  BY DEF BlockReadCallback
<1> HIDE DEF c
<1>7. bus' \in Channels /\ bus'.ok /\ Held(bus', FALSE, FALSE, FALSE, TRUE)
  BY <1>1, <1>2 DEF BusTyped, Held
<1>8. /\ {"segment", "mount"} \subseteq BetweenSegments
      /\ "segment" \notin HoldsBus /\ "mount" \notin HoldsBus
      /\ "segment" # "sent" /\ "mount" # "sent"
      /\ READY \in Int
  BY DEF BetweenSegments, HoldsBus, READY
<1>9. ASSUME NEW d \in Cards, d.attached, EndOfBlock(d, pc.with) PROVE BusInv'
  <2>1. card' \in Cards /\ card'.attached
    BY <1>3, <1>9, PutCard DEF EndOfBlock
  <2>2. pc' = [at |-> "mount", with |-> pc.with] /\ call' = call
    BY <1>9 DEF EndOfBlock
  <2> QED
    BY <1>1, <1>2, <1>3, <1>7, <1>8, <2>1, <2>2, GoesOn
<1>10. CASE card' = c /\ pc' = At("segment") /\ UNCHANGED call
  <2>1. pc' = [at |-> "segment", with |-> READY]
    BY <1>10 DEF At
  <2> QED
    BY <1>1, <1>2, <1>5, <1>7, <1>8, <1>10, <2>1, GoesOn
<1> QED
  BY <1>3, <1>5, <1>6, <1>9, <1>10

LEMMA CallbackReturns ==
  ASSUME BusInv, NEW verified \in {READY, BROKEN}, __CARDMountCallback(verified) PROVE BusInv'
<1> DEFINE c == [card EXCEPT !.step = @ + 1]
           u == Unmounted(card, pc.with)
<1>1. /\ BusTyped /\ Mounted /\ ~client.selected
      /\ Held(bus, FALSE, FALSE, FALSE, TRUE)
  BY DEF __CARDMountCallback, BusInv, BetweenSegments
<1>2. UNCHANGED others
  BY DEF __CARDMountCallback, others
<1>3. card \in Cards /\ card.attached /\ pc.with \in Int /\ verified \in Int
  BY <1>1 DEF BusTyped, Mounted, READY, BROKEN
<1>4. card.step + 1 \in Int
  BY <1>3 DEF Cards
<1>5. c \in Cards /\ c.attached
  BY <1>3, <1>4 DEF Cards
<1>6. u \in Cards /\ ~u.attached
  BY <1>3, UnmountedCard
<1>7. \/ /\ bus' = bus
         /\ \/ card' = BeginRead(c) /\ pc' = At("segment") /\ UNCHANGED call
            \/ TellAttached(c, verified)
      \/ bus' = EXIDetach(bus) /\ TellAttached(u, pc.with)
  BY <1>3 DEF __CARDMountCallback
<1> HIDE DEF c, u
<1>8. bus \in Channels /\ bus.ok
  BY <1>1 DEF BusTyped
<1>9. CASE bus' = bus /\ card' = BeginRead(c) /\ pc' = At("segment") /\ UNCHANGED call
  <2>1. card' \in Cards /\ card'.attached
    BY <1>5, <1>9, ReadingCard
  <2>2. pc' = [at |-> "segment", with |-> READY] /\ READY \in Int
    BY <1>9 DEF At, READY
  <2>3. "segment" \in BetweenSegments /\ "segment" \notin HoldsBus /\ "segment" # "sent"
    BY DEF BetweenSegments, HoldsBus
  <2>4. bus' \in Channels /\ bus'.ok /\ Held(bus', FALSE, FALSE, FALSE, TRUE)
    BY <1>1, <1>8, <1>9 DEF Held
  <2> QED
    BY <1>1, <1>2, <1>9, <2>1, <2>2, <2>3, <2>4, GoesOn
<1>10. CASE bus' = bus /\ TellAttached(c, verified)
  <2>1. bus' \in Channels /\ bus'.ok /\ Held(bus', FALSE, FALSE, FALSE, c.attached)
    BY <1>1, <1>5, <1>8, <1>10 DEF Held
  <2> QED
    BY <1>1, <1>2, <1>3, <1>5, <1>10, <2>1, TellingRests DEF Mounted
<1>11. CASE bus' = EXIDetach(bus) /\ TellAttached(u, pc.with)
  <2>1. bus' \in Channels /\ bus'.ok /\ Held(bus', FALSE, FALSE, FALSE, u.attached)
    BY <1>1, <1>6, <1>8, <1>11, Detaching DEF Held
  <2> QED
    BY <1>1, <1>2, <1>3, <1>6, <1>11, <2>1, TellingRests DEF Mounted
<1> QED
  BY <1>7, <1>9, <1>10, <1>11

-----------------------------------------------------------------------------
(* Calls from outside a mount.                                              *)

\* The next call of the bus' client.
LEMMA ClientRests == ASSUME BusInv, Quiet, ClientStep PROVE BusInv'
<1>1. BusTyped /\ Rest /\ bus \in Channels /\ bus.ok
  BY DEF BusInv, BusTyped, Quiet, Idle
<1>2. /\ pc' = pc /\ card' = card /\ call' = call /\ cardUser' = cardUser
      /\ pc.at = "idle"
  BY DEF ClientStep, Quiet, Idle
<1>3. ASSUME NEW b \in Channels, NEW now, Calls(b, now),
             now \in [locked : BOOLEAN, selected : BOOLEAN, attached : BOOLEAN],
             b.locked <=> now.locked \/ call.waits = "unlock",
             b.selected <=> now.selected, b.busy => now.locked,
             b.attached <=> card.attached \/ now.attached,
             ~(card.attached /\ now.attached),
             call.waits = "unlock" => ~now.locked
      PROVE  BusInv'
  BY <1>1, <1>2, <1>3 DEF Calls, BusInv, BusTyped, Rest, HoldsBus, BetweenSegments
<1>4. client \in [locked : BOOLEAN, selected : BOOLEAN, attached : BOOLEAN]
  BY <1>1 DEF BusTyped
<1>5. CASE ~client.locked /\ Calls(EXILock(bus, 1), [client EXCEPT !.locked = TRUE])
  <2> DEFINE now == [client EXCEPT !.locked = TRUE]
  <2>1. /\ now \in [locked : BOOLEAN, selected : BOOLEAN, attached : BOOLEAN]
        /\ now.locked = TRUE /\ now.selected = client.selected /\ now.attached = client.attached
    BY <1>4
  <2>2. Calls(EXILock(bus, 1), now) /\ EXILock(bus, 1).ok
    BY <1>5 DEF Calls
  <2> HIDE DEF now
  <2> QED
    BY <1>1, <1>3, <1>5, <2>1, <2>2, Locking DEF Rest, Held, Devices
<1>6. CASE client.locked /\ Calls(EXIUnlock(bus), [client EXCEPT !.locked = FALSE])
  <2> DEFINE now == [client EXCEPT !.locked = FALSE]
  <2>1. /\ now \in [locked : BOOLEAN, selected : BOOLEAN, attached : BOOLEAN]
        /\ now.locked = FALSE /\ now.selected = client.selected /\ now.attached = client.attached
    BY <1>4
  <2>2. Calls(EXIUnlock(bus), now) /\ EXIUnlock(bus).ok
    BY <1>6 DEF Calls
  <2> HIDE DEF now
  <2> QED
    BY <1>1, <1>3, <1>6, <2>1, <2>2, Unlocking DEF Rest, Held
<1>7. CASE client.locked /\ Calls(EXISelect(bus, 1), [client EXCEPT !.selected = TRUE])
  <2> DEFINE now == [client EXCEPT !.selected = TRUE]
  <2>1. /\ now \in [locked : BOOLEAN, selected : BOOLEAN, attached : BOOLEAN]
        /\ now.selected = TRUE /\ now.locked = client.locked /\ now.attached = client.attached
    BY <1>4
  <2>2. Calls(EXISelect(bus, 1), now) /\ EXISelect(bus, 1).ok
    BY <1>7 DEF Calls
  <2> HIDE DEF now
  <2> QED
    BY <1>1, <1>3, <1>7, <2>1, <2>2, Selecting DEF Rest, Held, Devices
<1>8. CASE client.locked /\ Calls(EXIDeselect(bus), [client EXCEPT !.selected = FALSE])
  <2> DEFINE now == [client EXCEPT !.selected = FALSE]
  <2>1. /\ now \in [locked : BOOLEAN, selected : BOOLEAN, attached : BOOLEAN]
        /\ now.selected = FALSE /\ now.locked = client.locked /\ now.attached = client.attached
    BY <1>4
  <2>2. Calls(EXIDeselect(bus), now) /\ EXIDeselect(bus).ok
    BY <1>8 DEF Calls
  <2> HIDE DEF now
  <2> QED
    BY <1>1, <1>3, <1>8, <2>1, <2>2, Deselecting DEF Rest, Held
<1>9. CASE client.locked /\ Calls(EXIImmWrite(bus, "read status"), client)
  BY <1>1, <1>3, <1>4, <1>9, Writing DEF Rest, Held, Commands
<1>10. CASE client.locked /\ Calls(EXIImmRead(bus, "noise"), client)
  BY <1>1, <1>3, <1>4, <1>10, Reading DEF Rest, Held, Imm
<1>11. CASE client.locked /\ Calls(EXISync(bus), client)
  BY <1>1, <1>3, <1>4, <1>11, Completing DEF Rest, Held
<1>12. CASE ~bus.attached /\ Calls(EXIAttach(bus, TRUE), [client EXCEPT !.attached = TRUE])
  BY <1>1, <1>3, <1>4, <1>12, Attaching DEF Rest, Held
<1>13. CASE client.attached /\ Calls(EXIDetach(bus), [client EXCEPT !.attached = FALSE])
  BY <1>1, <1>3, <1>4, <1>13, Detaching DEF Rest, Held
<1> QED
  BY <1>5, <1>6, <1>7, <1>8, <1>9, <1>10, <1>11, <1>12, <1>13 DEF ClientStep

\* A mount that is refused, waits for the bus, or goes on to identify the card.
LEMMA MountAsks ==
  ASSUME BusInv, Quiet, NEW attachOk \in BOOLEAN, CARDMountAsync(attachOk) PROVE BusInv'
<1> DEFINE asked == [card EXCEPT !.result = BUSY, !.api = TRUE]
           attached == IF card.attached THEN bus ELSE EXIAttach(bus, attachOk)
           locked == EXILock(attached, 0)
           refused == [asked EXCEPT !.result = NOCARD]
           begun == [asked EXCEPT !.step = 0, !.attached = TRUE]
           lost == [NoCall EXCEPT !.asked = TRUE, !.returned = NOCARD]
           waiting == [NoCall EXCEPT !.asked = TRUE, !.waits = IF locked.ok THEN "no" ELSE "bus"]
<1>1. /\ BusTyped /\ Rest /\ pc = Idle /\ bus \in Channels /\ bus.ok
      /\ UNCHANGED others
      /\ card.result # BUSY /\ (card.attached \/ ~bus.attached)
  BY DEF CARDMountAsync, others, BusInv, BusTyped, Quiet, Idle
<1>2. /\ call.waits = "no" /\ ~cardUser /\ ~client.attached
      /\ bus.locked <=> client.locked
  BY <1>1 DEF Rest, BusTyped
<1>3. /\ Held(attached, client.locked, client.selected, bus.busy, attached.attached)
      /\ attached.ok => attached.attached
      /\ ~attached.ok => ~card.attached
  BY <1>1, <1>2, Attaching DEF Rest, Held, Channels
<1>4. IF ~attached.ok
      THEN card' = refused /\ call' = lost /\ bus' = bus /\ pc' = pc
      ELSE /\ card' = begun /\ bus' = Channel(locked) /\ call' = waiting
           /\ pc' = IF locked.ok THEN At("identify") ELSE Idle
  BY DEF CARDMountAsync
<1>5. BUSY \in Int /\ NOCARD \in Int /\ READY \in Int
  BY DEF BUSY, NOCARD, READY
<1>6. asked \in Cards /\ asked.attached = card.attached /\ asked.result = BUSY
  BY <1>1, <1>5 DEF BusTyped, Cards
<1> HIDE DEF asked
<1>7. refused \in Cards /\ refused.attached = card.attached
  BY <1>5, <1>6 DEF Cards
<1>8. begun \in Cards /\ begun.attached /\ begun.result = BUSY
  <2>1. 0 \in Int
    OBVIOUS
  <2> QED
    BY <1>6, <2>1 DEF Cards
<1> DEFINE Accepted == [asked : BOOLEAN, returned : Int, callbacks : Seq(Int),
                        waits : {"no", "bus", "unlock"}]
<1>9. NoCall \in Accepted /\ NoCall.waits = "no"
  BY <1>5 DEF NoCall
<1>10. lost \in Accepted /\ lost.waits = "no"
  BY <1>5, <1>9
<1>11. waiting \in Accepted /\ waiting.waits = IF locked.ok THEN "no" ELSE "bus"
  <2> DEFINE w == IF locked.ok THEN "no" ELSE "bus"
  <2>1. w \in {"no", "bus", "unlock"}
    OBVIOUS
  <2>2. waiting = [NoCall EXCEPT !.asked = TRUE, !.waits = w]
    OBVIOUS
  <2> HIDE DEF w
  <2>3. waiting \in Accepted /\ waiting.waits = w
    BY <1>9, <2>1, <2>2
  <2> QED
    BY <2>3 DEF w
<1> HIDE DEF refused, begun, lost, waiting
<1>12. CASE ~attached.ok
  BY <1>1, <1>2, <1>3, <1>4, <1>7, <1>10, <1>12
     DEF BusInv, BusTyped, Rest, others, Idle, HoldsBus, BetweenSegments
<1>13. CASE attached.ok
  <2>1. /\ locked.ok <=> ~client.locked
        /\ Held(locked, TRUE, client.selected, bus.busy, TRUE)
    BY <1>3, <1>13, Locking DEF Held, Devices
  <2> HIDE DEF locked
  <2>2. bus'.ok /\ Held(bus', TRUE, client.selected, bus.busy, TRUE)
    BY <1>4, <1>13, <2>1, Resting DEF Held
  <2>3. CASE locked.ok
    <3>1. pc' = [at |-> "identify", with |-> READY]
      BY <1>4, <1>13, <2>3 DEF At
    <3>2. ~bus.busy
      BY <1>1, <2>1, <2>3 DEF Rest
    <3>3. "identify" \in HoldsBus /\ "identify" \notin BetweenSegments /\ "identify" # "sent"
          /\ "identify" # "idle"
      BY DEF HoldsBus, BetweenSegments
    <3>4. card' = begun /\ call' = waiting
      BY <1>4, <1>13
    <3>5. Mounted'
      BY <1>1, <1>2, <1>8, <1>11, <2>1, <2>3, <3>4 DEF Mounted, others
    <3>6. BusTyped'
      BY <1>1, <1>5, <1>8, <1>11, <2>2, <3>1, <3>3, <3>4 DEF BusTyped, others, Held
    <3> QED
      BY <1>1, <1>8, <2>2, <3>1, <3>2, <3>3, <3>4, <3>5, <3>6 DEF BusInv, Held, others
  <2>4. CASE ~locked.ok
    <3>1. pc' = Idle /\ card' = begun /\ call' = waiting
      BY <1>4, <1>13, <2>4
    <3> QED
      BY <1>1, <1>2, <1>8, <1>11, <2>1, <2>2, <2>4, <3>1
         DEF BusInv, BusTyped, Rest, Held, others, Idle, HoldsBus, BetweenSegments
  <2> QED
    BY <2>3, <2>4
<1> QED
  BY <1>12, <1>13

LEMMA UnmountReturns == ASSUME BusInv, Quiet, CARDUnmount PROVE BusInv'
<1> DEFINE c == [card EXCEPT !.result = BUSY, !.api = FALSE]
<1>1. /\ BusTyped /\ Rest /\ pc = Idle /\ pc' = pc /\ bus \in Channels /\ bus.ok
      /\ UNCHANGED others /\ call' = NoCall
      /\ card.attached /\ card.result # BUSY
      /\ card' = Unmounted(c, NOCARD) /\ bus' = EXIDetach(bus)
  BY DEF CARDUnmount, others, BusInv, BusTyped, Quiet, Idle
<1>2. BUSY \in Int /\ NOCARD \in Int
  BY DEF BUSY, NOCARD
<1>3. c \in Cards
  BY <1>1, <1>2 DEF BusTyped, Cards
<1> HIDE DEF c
<1>4. card' \in Cards /\ ~card'.attached
  BY <1>1, <1>2, <1>3, UnmountedCard
<1>5. bus'.ok /\ Held(bus', bus.locked, bus.selected, bus.busy, FALSE)
  BY <1>1, Detaching
<1>6. /\ call' \in [asked : BOOLEAN, returned : Int, callbacks : Seq(Int),
                    waits : {"no", "bus", "unlock"}]
      /\ call'.waits = "no"
  BY <1>1 DEF NoCall, READY
<1> QED
  BY <1>1, <1>4, <1>5, <1>6
     DEF BusInv, BusTyped, Rest, Held, others, Idle, HoldsBus, BetweenSegments

LEMMA UserTakes == ASSUME BusInv, Quiet, __CARDGetControlBlock PROVE BusInv'
<1>1. /\ BusTyped /\ Rest /\ pc = Idle /\ pc' = pc /\ bus' = bus /\ client' = client
      /\ call' = NoCall /\ cardUser' = TRUE
      /\ card.attached /\ card.result # BUSY
      /\ card' = [card EXCEPT !.result = BUSY, !.api = FALSE]
  BY DEF __CARDGetControlBlock, BusInv, Quiet, Idle
<1>2. BUSY \in Int
  BY DEF BUSY
<1>3. card' \in Cards /\ card'.attached = card.attached /\ card'.result = BUSY
  BY <1>1, <1>2 DEF BusTyped, Cards
<1>4. /\ call' \in [asked : BOOLEAN, returned : Int, callbacks : Seq(Int),
                    waits : {"no", "bus", "unlock"}]
      /\ call'.waits = "no"
  BY <1>1 DEF NoCall, READY
<1> QED
  BY <1>1, <1>3, <1>4 DEF BusInv, BusTyped, Rest, Idle, HoldsBus, BetweenSegments

LEMMA UserPuts ==
  ASSUME BusInv, Quiet, NEW r \in {READY, IOERROR}, PutBack(r) PROVE BusInv'
<1>1. /\ BusTyped /\ Rest /\ pc = Idle /\ pc' = pc /\ bus' = bus /\ client' = client
      /\ call' = call /\ cardUser /\ cardUser' = FALSE
      /\ card' = __CARDPutControlBlock(card, r)
  BY DEF PutBack, BusInv, Quiet, Idle
<1>2. card' \in Cards /\ card'.attached = card.attached
  <2>1. card \in Cards
    BY <1>1 DEF BusTyped
  <2>2. r \in Int
    BY DEF READY, IOERROR
  <2> QED
    BY <1>1, <2>1, <2>2, PutCard
<1>3. call.waits = "no"
  BY <1>1 DEF Rest
<1> QED
  BY <1>1, <1>2, <1>3 DEF BusInv, BusTyped, Rest, Idle, HoldsBus, BetweenSegments

\* What leaves the bus and the card alone.
LEMMA ElseRests ==
  ASSUME BusInv, UNCHANGED <<bus, card, pc, call, client, cardUser>> PROVE BusInv'
BY DEF BusInv, BusTyped, Rest, Mounted, Held

LEMMA ModeRests == ASSUME BusInv, OSGetProgressiveMode PROVE BusInv'
<1>1. UNCHANGED <<bus, card, call, client, cardUser>>
  BY DEF OSGetProgressiveMode
<1>2. CASE UNCHANGED pc
  BY <1>1, <1>2, ElseRests
<1>3. CASE pc' = At("fault")
  BY <1>1, <1>3 DEF BusInv, BusTyped, At, READY, HoldsBus, BetweenSegments
<1> QED
  BY <1>2, <1>3 DEF OSGetProgressiveMode

LEMMA BusNext == ASSUME BusInv, [Next]_vars PROVE BusInv'
<1>1. CASE Mounting
  <2>1. ASSUME NEW hasId \in BOOLEAN, NEW id \in Ids, Identify(hasId, id) PROVE BusInv'
    BY <2>1, IdentifyReturns
  <2>2. ASSUME NEW status \in Imm, NEW probe \in -1 .. 1, Status(status, probe) PROVE BusInv'
    BY <2>2, StatusReturns
  <2>3. ASSUME NEW ok \in BOOLEAN, NEW writeOk \in BOOLEAN, NEW id \in FlashIds,
               Unlock(ok, id, writeOk)
        PROVE  BusInv'
    BY <2>3, UnlockReturns
  <2>4. CASE Flash
    BY <2>4, FlashReturns
  <2>5. ASSUME NEW hook \in BOOLEAN, __CARDReadSegment(hook) PROVE BusInv'
    BY <2>5, SegmentReturns
  <2>6. ASSUME NEW probe \in -1 .. 1, __CARDTxHandler(probe) PROVE BusInv'
    BY <2>6, SentReturns
  <2>7. CASE BlockReadCallback
    BY <2>7, BlockReturns
  <2>8. ASSUME NEW verified \in {READY, BROKEN}, __CARDMountCallback(verified) PROVE BusInv'
    BY <2>8, CallbackReturns
  <2> QED
    BY <1>1, <2>1, <2>2, <2>3, <2>4, <2>5, <2>6, <2>7, <2>8 DEF Mounting
<1>2. ASSUME Quiet, NEW attachOk \in BOOLEAN, CARDMountAsync(attachOk) PROVE BusInv'
  BY <1>2, MountAsks
<1>3. CASE Quiet /\ CARDUnmount
  BY <1>3, UnmountReturns
<1>4. CASE Quiet /\ __CARDGetControlBlock
  BY <1>4, UserTakes
<1>5. ASSUME Quiet, NEW outcome \in {READY, IOERROR}, PutBack(outcome) PROVE BusInv'
  BY <1>5, UserPuts
<1>6. CASE Quiet /\ ClientStep
  BY <1>6, ClientRests
<1>7. CASE SramStep
  BY <1>7, ElseRests DEF SramStep
<1>8. CASE OSGetProgressiveMode
  BY <1>8, ModeRests
<1>9. CASE UNCHANGED vars
  BY <1>9, ElseRests DEF vars
<1> QED
  BY <1>1, <1>2, <1>3, <1>4, <1>5, <1>6, <1>7, <1>8, <1>9 DEF Next

\* Between calls the channel is locked, selected, busy and attached only for its client,
\* the card or an unlock that is waited for.
THEOREM BusReturnedAlways == Spec => []BusReturned
<1>1. Init => BusInv
  BY BusInitially
<1>2. BusInv /\ [Next]_vars => BusInv'
  BY BusNext
<1>3. BusInv => BusReturned
  BY DEF BusInv, Rest, BusReturned, Quiet, Idle
<1> QED
  BY <1>1, <1>2, <1>3, PTL DEF Spec

-----------------------------------------------------------------------------
(***************************************************************************)
(* For all cards and segments: every mount is answered exactly once, and   *)
(* READY comes with the whole work area (MountsAnswered of CardMount).     *)
(*                                                                         *)
(* AnswerInv follows a mount: until its end it has no answer and its       *)
(* caller waits for one (api), and while the system blocks are read, the   *)
(* work area holds what lies before the card's block and segment.  That    *)
(* nobody else has the channel then, so that no segment waits for it, is   *)
(* BusInv.                                                                 *)
(***************************************************************************)
\* The segments before <<block, segment>>.
Before(block, segment) ==
  {x \in Blocks \X (0 .. Segments - 1) : x[1] < block \/ (x[1] = block /\ x[2] < segment)}

Unanswered ==
  /\ call.asked /\ call.returned = READY /\ call.callbacks = <<>>
  /\ card.api

\* A mount that reads, with "done" segments of the card's block.
Reads(done) ==
  /\ IsCard(card.id)
  /\ card.step \in 2 .. MaxMountStep - 1 /\ card.block = card.step - 2
  /\ area = Before(card.block, done)

Counts ==
  card.segment \in 0 .. Segments - 1 /\ card.repeat = Segments - card.segment

\* The answer that a quiet card has given.
Answered ==
  /\ call.returned < 0 => call.callbacks = <<>> /\ call.waits = "no" /\ card.result = call.returned
  /\ call.waits # "no" => call.callbacks = <<>> /\ call.returned = READY
  /\ call.returned >= 0 /\ call.waits = "no" =>
       Len(call.callbacks) = 1 /\ card.result = call.callbacks[1]
  /\ call.callbacks = <<READY>> =>
       area = WorkArea /\ card.attached /\ card.step = MaxMountStep /\ IsCard(card.id)

Rested ==
  /\ card.result = BUSY <=> cardUser \/ call.waits # "no"
  /\ cardUser => ~call.asked
  /\ call.asked => Answered

AnswerInv ==
  /\ pc.at = "idle" => Rested
  /\ pc.at \in HoldsBus => Unanswered /\ area = {}
  /\ pc.at \in {"status", "unlock", "flash"} => IsCard(card.id)
  /\ pc.at = "segment" => Unanswered /\ Reads(card.segment) /\ Counts
  /\ pc.at = "sent" => Unanswered /\ Reads(card.segment + 1) /\ Counts
  /\ pc.at = "block" =>
       /\ Unanswered /\ pc.with \in {READY, NOCARD}
       /\ pc.with = READY => Reads(card.segment + 1) /\ Counts
  /\ pc.at = "mount" =>
       /\ Unanswered /\ pc.with \in {READY, NOCARD}
       /\ pc.with = READY => Reads(Segments)

LEMMA Numbers ==
  /\ READY = 0 /\ BUSY = -1 /\ WRONGDEVICE = -2 /\ NOCARD = -3 /\ IOERROR = -5 /\ BROKEN = -6
  /\ MaxMountStep = 7 /\ Segments \in Nat \ {0}
BY CardAssumption
   DEF READY, BUSY, WRONGDEVICE, NOCARD, IOERROR, BROKEN, MaxMountStep, CardAssumption

-----------------------------------------------------------------------------
(* Segments.                                                                *)

LEMMA NoneBefore == Before(0, 0) = {}
BY DEF Before, Blocks, MaxMountStep

LEMMA OneMore ==
  ASSUME NEW b \in Blocks, NEW s \in 0 .. Segments - 1
  PROVE  Before(b, s + 1) = Before(b, s) \cup {<<b, s>>}
BY Numbers DEF Before, Blocks

LEMMA WholeBlock ==
  ASSUME NEW b \in Blocks PROVE Before(b + 1, 0) = Before(b, Segments)
BY Numbers DEF Before, Blocks

LEMMA AllBefore == Before(MaxMountStep - 3, Segments) = WorkArea
BY Numbers DEF Before, Blocks, WorkArea

-----------------------------------------------------------------------------
(* How a mount ends.                                                        *)

LEMMA AnswersInitially == Init => AnswerInv
<1> SUFFICES ASSUME Init PROVE AnswerInv
  OBVIOUS
<1>1. pc.at = "idle" /\ call.waits = "no" /\ ~call.asked /\ cardUser = FALSE /\ card.result # BUSY
  BY Numbers DEF Init, Idle, NoCall, CARDInit
<1> QED
  BY <1>1 DEF AnswerInv, Rested, HoldsBus

\* A mount that ends in an error of the call.
LEMMA ErrorsAnswered ==
  ASSUME BusTyped, Mounted, Unanswered, NEW r \in {WRONGDEVICE, NOCARD, IOERROR},
         pc' = Idle, call' = [call EXCEPT !.returned = r], card'.result = r, cardUser' = cardUser
  PROVE  AnswerInv'
<1>1. /\ call'.asked /\ call'.returned = r /\ call'.callbacks = <<>> /\ call'.waits = "no"
      /\ pc'.at = "idle" /\ ~cardUser' /\ r < 0 /\ r # BUSY
  BY Numbers DEF BusTyped, Mounted, Unanswered, Idle
<1>2. <<>> # <<READY>> /\ r \in Int /\ ~(r >= 0)
  BY Numbers
<1>3. Answered'
  BY <1>1, <1>2 DEF Answered
<1> QED
  BY <1>1, <1>3 DEF AnswerInv, Rested, HoldsBus

LEMMA ErrorEnds ==
  ASSUME BusTyped, Mounted, Unanswered, NEW b, NEW r \in {WRONGDEVICE, NOCARD, IOERROR},
         Error(b, r), UNCHANGED others
  PROVE  AnswerInv'
<1>1. pc' = Idle /\ call' = [call EXCEPT !.returned = r] /\ cardUser' = cardUser
      /\ card' = Unmounted(card, r)
  BY DEF Error, Ends, others
<1>2. card'.result = r
  BY <1>1 DEF BusTyped, Mounted, Cards, Unmounted
<1> QED
  BY <1>1, <1>2, ErrorsAnswered

\* A mount that ends in a callback.
LEMMA TellingAnswers ==
  ASSUME BusTyped, Mounted, Unanswered, NEW c \in Cards, c.api, NEW r \in {READY, NOCARD, BROKEN},
         c.attached \/ c.result = r,
         r = READY => /\ c.attached /\ c.step = MaxMountStep /\ IsCard(c.id)
                      /\ area' = WorkArea,
         TellAttached(c, r), cardUser' = cardUser
  PROVE  AnswerInv'
<1> DEFINE a == [c EXCEPT !.api = FALSE]
<1>1. a \in Cards /\ a.attached = c.attached /\ a.result = c.result /\ a.step = c.step /\ a.id = c.id
  BY DEF Cards
<1>2. card' = __CARDPutControlBlock(a, r)
  BY DEF TellAttached
<1> HIDE DEF a
<1>3. /\ card'.result = r
      /\ card'.attached = c.attached /\ card'.step = c.step /\ card'.id = c.id
  BY <1>1, <1>2 DEF __CARDPutControlBlock, Cards
<1>4. pc'.at = "idle" /\ call' = [call EXCEPT !.callbacks = Append(@, r)]
  BY DEF TellAttached, Idle
<1>5. call'.asked /\ call'.returned = READY /\ call'.waits = "no" /\ call'.callbacks = <<r>>
  BY <1>4 DEF BusTyped, Mounted, Unanswered
<1>6. <<r>> = <<READY>> => r = READY
  OBVIOUS
<1>7. Len(<<r>>) = 1 /\ <<r>>[1] = r /\ r # BUSY
  BY Numbers
<1>8. Answered'
  BY <1>3, <1>5, <1>6, <1>7, Numbers DEF Answered, Mounted
<1> QED
  BY <1>3, <1>4, <1>5, <1>7, <1>8 DEF AnswerInv, Rested, HoldsBus, Mounted

\* A crash ends everything.
LEMMA CrashAnswers == ASSUME Crash PROVE AnswerInv'
BY DEF Crash, At, AnswerInv, HoldsBus

-----------------------------------------------------------------------------
(* One lemma for each step of a mount.                                      *)

LEMMA IdentifyAnswers ==
  ASSUME BusInv, AnswerInv, NEW hasId \in BOOLEAN, NEW id \in Ids, Identify(hasId, id)
  PROVE  AnswerInv'
<1>1. pc.at = "identify" /\ "identify" \in HoldsBus
  BY DEF Identify, At, HoldsBus
<1>2. BusTyped /\ Mounted /\ Unanswered /\ area = {} /\ area' = area /\ UNCHANGED others
  BY <1>1 DEF BusInv, AnswerInv, Identify, others
<1>3. CASE hasId /\ IsCard(id)
  <2>1. card' = [card EXCEPT !.id = id] /\ pc'.at = "status" /\ call' = call
    BY <1>3 DEF Identify, At
  <2>2. card'.id = id /\ card'.api = card.api
    BY <1>2, <2>1 DEF BusTyped, Cards
  <2> QED
    BY <1>2, <1>3, <2>1, <2>2 DEF AnswerInv, Unanswered, HoldsBus
<1>4. CASE ~(hasId /\ IsCard(id))
  <2>1. PICK r \in {WRONGDEVICE, NOCARD} : Error(bus, r)
    BY <1>4 DEF Identify
  <2> QED
    BY <1>2, <2>1, ErrorEnds
<1> QED
  BY <1>3, <1>4

LEMMA StatusAnswers ==
  ASSUME BusInv, AnswerInv, NEW status \in Imm, NEW probe \in -1 .. 1, Status(status, probe)
  PROVE  AnswerInv'
<1>1. pc.at = "status" /\ "status" \in HoldsBus
  BY DEF Status, At, HoldsBus
<1>2. /\ BusTyped /\ Mounted /\ Unanswered /\ IsCard(card.id)
      /\ area = {} /\ area' = area /\ UNCHANGED others
  BY <1>1 DEF BusInv, AnswerInv, Status, others
<1>3. \/ pc'.at \in {"flash", "unlock"} /\ card' = card /\ call' = call
      \/ \E b : Error(b, NOCARD)
  BY DEF Status, At
<1>4. CASE pc'.at \in {"flash", "unlock"} /\ card' = card /\ call' = call
  BY <1>2, <1>4 DEF AnswerInv, Unanswered, HoldsBus
<1>5. CASE \E b : Error(b, NOCARD)
  BY <1>2, <1>5, ErrorEnds
<1> QED
  BY <1>3, <1>4, <1>5

LEMMA UnlockAnswers ==
  ASSUME BusInv, AnswerInv, NEW ok \in BOOLEAN, NEW id \in FlashIds, NEW writeOk \in BOOLEAN,
         Unlock(ok, id, writeOk)
  PROVE  AnswerInv'
<1>1. pc.at = "unlock" /\ "unlock" \in HoldsBus
  BY DEF Unlock, At, HoldsBus
<1>2. BusTyped /\ Mounted /\ Unanswered /\ card.result = BUSY /\ UNCHANGED others
  BY <1>1 DEF BusInv, AnswerInv, Unlock, others
<1>3. CASE ~ok
  BY <1>2, <1>3, ErrorEnds DEF Unlock
<1>4. CASE ok /\ ~LockSram(scb).ok
  BY <1>4, CrashAnswers DEF Unlock
<1>5. CASE ok /\ LockSram(scb).ok
  <2>1. pc'.at = "idle" /\ call' = [call EXCEPT !.waits = "unlock"] /\ card' = card
    BY <1>5 DEF Unlock, Idle
  <2>2. /\ call'.waits = "unlock" /\ call'.callbacks = <<>> /\ call'.returned = READY
        /\ ~cardUser' /\ card'.result = BUSY
    BY <1>2, <2>1 DEF BusTyped, Mounted, Unanswered, others
  <2>3. <<>> # <<READY>> /\ ~(READY < 0)
    BY Numbers
  <2>4. Answered'
    BY <2>2, <2>3 DEF Answered
  <2> QED
    BY <2>1, <2>2, <2>4 DEF AnswerInv, Rested, HoldsBus
<1> QED
  BY <1>3, <1>4, <1>5

LEMMA FlashAnswers == ASSUME BusInv, AnswerInv, Flash PROVE AnswerInv'
<1>1. pc.at = "flash" /\ "flash" \in HoldsBus
  BY DEF Flash, At, HoldsBus
<1>2. /\ BusTyped /\ Mounted /\ Unanswered /\ IsCard(card.id)
      /\ area = {} /\ area' = area /\ UNCHANGED others
  BY <1>1 DEF BusInv, AnswerInv, Flash, others
<1>3. \/ Crash
      \/ \E r \in {NOCARD, IOERROR} : \E b : Error(b, r)
      \/ /\ card' = BeginRead([card EXCEPT !.step = 2])
         /\ pc' = At("segment") /\ UNCHANGED call
  BY DEF Flash
<1>4. CASE \E r \in {NOCARD, IOERROR} : \E b : Error(b, r)
  BY <1>2, <1>4, ErrorEnds
<1>5. CASE /\ card' = BeginRead([card EXCEPT !.step = 2])
           /\ pc' = At("segment") /\ UNCHANGED call
  <2>1. /\ card'.step = 2 /\ card'.block = 0 /\ card'.segment = 0 /\ card'.repeat = Segments
        /\ card'.id = card.id /\ card'.api = card.api
    BY <1>2, <1>5 DEF BusTyped, Cards, BeginRead
  <2>2. pc'.at = "segment" /\ "segment" \notin HoldsBus
    BY <1>5 DEF At, HoldsBus
  <2>3. Reads(card.segment)' /\ Counts'
    BY <1>2, <2>1, NoneBefore, Numbers DEF Reads, Counts
  <2> QED
    BY <1>2, <1>5, <2>1, <2>2, <2>3 DEF AnswerInv, Unanswered
<1> QED
  BY <1>3, <1>4, <1>5, CrashAnswers

\* The end of a block leaves the card as it is, for the callback to answer.
LEMMA BlockEnds ==
  ASSUME Unanswered, NEW c \in Cards, c.api, NEW r \in {READY, NOCARD}, EndOfBlock(c, r),
         r = READY => IsCard(c.id) /\ c.step \in 2 .. MaxMountStep - 1 /\ c.block = c.step - 2
                      /\ area' = Before(c.block, Segments)
  PROVE  AnswerInv'
<1>1. card' = c /\ call' = call /\ pc' = [at |-> "mount", with |-> r]
  BY DEF EndOfBlock
<1> QED
  BY <1>1 DEF AnswerInv, Unanswered, Reads, HoldsBus

LEMMA SegmentAnswers ==
  ASSUME BusInv, AnswerInv, NEW hook \in BOOLEAN, __CARDReadSegment(hook) PROVE AnswerInv'
<1>1. pc.at = "segment" /\ "segment" \in BetweenSegments
  BY DEF __CARDReadSegment, At, BetweenSegments
<1>2. /\ BusTyped /\ Mounted /\ Unanswered /\ Reads(card.segment) /\ Counts
      /\ ~bus.locked /\ UNCHANGED others /\ card \in Cards
  BY <1>1 DEF BusInv, AnswerInv, __CARDReadSegment, others, Held, BusTyped
<1>3. \/ /\ area' = area \cup {<<card.block, card.segment>>}
         /\ pc' = At("sent") /\ UNCHANGED <<card, call>>
      \/ card.repeat = Segments /\ FirstSegmentFails
      \/ card.repeat # Segments /\ EndOfBlock(card, NOCARD)
  BY <1>2 DEF __CARDReadSegment, Mounted
<1>4. CASE /\ area' = area \cup {<<card.block, card.segment>>}
           /\ pc' = At("sent") /\ UNCHANGED <<card, call>>
  <2>1. card.block \in Blocks /\ card.segment \in 0 .. Segments - 1
    BY <1>2, Numbers DEF Reads, Counts, Blocks, Cards
  <2>2. area' = Before(card.block, card.segment + 1)
    BY <1>2, <1>4, <2>1, OneMore DEF Reads
  <2>3. pc'.at = "sent" /\ "sent" \notin HoldsBus
    BY <1>4 DEF At, HoldsBus
  <2> QED
    BY <1>2, <1>4, <2>2, <2>3 DEF AnswerInv, Unanswered, Reads, Counts
<1>5. CASE FirstSegmentFails
  <2> DEFINE p == __CARDPutControlBlock(card, NOCARD)
  <2>1. p.result = NOCARD /\ p.api = card.api /\ p \in Cards
    BY <1>2, Numbers DEF Mounted, Cards, __CARDPutControlBlock
  <2>2. \/ card' = p /\ Ends(NOCARD)
        \/ TellAttached(p, NOCARD)
    BY <1>5 DEF FirstSegmentFails
  <2> HIDE DEF p
  <2>3. CASE card' = p /\ Ends(NOCARD)
    BY <1>2, <2>1, <2>3, ErrorsAnswered DEF Ends, others
  <2>4. CASE TellAttached(p, NOCARD)
    <3>1. p.api /\ NOCARD # READY /\ cardUser' = cardUser
      BY <1>2, <2>1, Numbers DEF Unanswered, others
    <3> QED
      BY <1>2, <2>1, <2>4, <3>1, TellingAnswers
  <2> QED
    BY <2>2, <2>3, <2>4
<1>6. CASE EndOfBlock(card, NOCARD)
  BY <1>2, <1>6, BlockEnds, Numbers DEF Unanswered
<1> QED
  BY <1>3, <1>4, <1>5, <1>6

LEMMA SentAnswers ==
  ASSUME BusInv, AnswerInv, NEW probe \in -1 .. 1, __CARDTxHandler(probe) PROVE AnswerInv'
<1>1. Unanswered /\ Reads(card.segment + 1) /\ Counts
  BY DEF __CARDTxHandler, At, AnswerInv
<1>2. /\ pc'.at = "block" /\ pc'.with \in {READY, NOCARD}
      /\ UNCHANGED <<card, area, call>>
  BY DEF __CARDTxHandler
<1> QED
  BY <1>1, <1>2 DEF AnswerInv, Unanswered, Reads, Counts, HoldsBus

LEMMA BlockAnswers == ASSUME BusInv, AnswerInv, BlockReadCallback PROVE AnswerInv'
<1> DEFINE c == [card EXCEPT !.repeat = @ - 1, !.segment = @ + 1]
<1>1. /\ pc.at = "block" /\ "block" \in BetweenSegments
      /\ area' = area
  BY DEF BlockReadCallback, BetweenSegments
<1>2. /\ card \in Cards /\ card.api /\ Unanswered /\ pc.with \in {READY, NOCARD}
      /\ pc.with = READY => Reads(card.segment + 1) /\ Counts
  BY <1>1 DEF BusInv, AnswerInv, BusTyped, Unanswered
<1>3. CASE pc.with = NOCARD
  BY <1>2, <1>3, BlockEnds, Numbers DEF BlockReadCallback
<1>4. CASE pc.with = READY
  <2>1. card.repeat - 1 \in Int /\ card.segment + 1 \in Int
    BY <1>2 DEF Cards
  <2>2. /\ c.repeat = card.repeat - 1 /\ c.segment = card.segment + 1
        /\ c.id = card.id /\ c.step = card.step /\ c.block = card.block /\ c.api
        /\ c \in Cards
    BY <1>2, <2>1 DEF Cards
  <2>3. \/ c.repeat <= 0 /\ EndOfBlock(c, READY)
        \/ ~(c.repeat <= 0) /\ card' = c /\ pc' = At("segment") /\ call' = call
    BY <1>4, Numbers DEF BlockReadCallback, NextSegment
  <2> HIDE DEF c
  <2>4. CASE c.repeat <= 0 /\ EndOfBlock(c, READY)
    <3>1. card.segment + 1 = Segments
      BY <1>2, <1>4, <2>2, <2>4, Numbers DEF Counts
    <3>2. /\ IsCard(c.id) /\ c.step \in 2 .. MaxMountStep - 1 /\ c.block = c.step - 2
          /\ area' = Before(c.block, Segments)
      BY <1>1, <1>2, <1>4, <2>2, <3>1 DEF Reads
    <3> QED
      BY <1>2, <2>2, <2>4, <3>2, BlockEnds
  <2>5. CASE ~(c.repeat <= 0) /\ card' = c /\ pc' = At("segment") /\ call' = call
    <3>1. Counts'
      BY <1>2, <1>4, <2>2, <2>5, Numbers DEF Counts
    <3>2. Reads(card.segment)'
      BY <1>1, <1>2, <1>4, <2>2, <2>5 DEF Reads
    <3>3. pc'.at = "segment" /\ "segment" \notin HoldsBus
      BY <2>5 DEF At, HoldsBus
    <3> QED
      BY <1>2, <2>2, <2>5, <3>1, <3>2, <3>3 DEF AnswerInv, Unanswered
  <2> QED
    BY <2>3, <2>4, <2>5
<1> QED
  BY <1>2, <1>3, <1>4

LEMMA CallbackAnswers ==
  ASSUME BusInv, AnswerInv, NEW verified \in {READY, BROKEN}, __CARDMountCallback(verified)
  PROVE  AnswerInv'
<1> DEFINE c == [card EXCEPT !.step = @ + 1]
           u == Unmounted(card, NOCARD)
<1>1. /\ pc.at = "mount" /\ "mount" \in BetweenSegments
      /\ area' = area /\ cardUser' = cardUser
  BY DEF __CARDMountCallback, BetweenSegments
<1>2. /\ BusTyped /\ Mounted /\ card \in Cards /\ card.api /\ card.attached
      /\ Unanswered /\ pc.with \in {READY, NOCARD}
      /\ pc.with = READY => Reads(Segments)
  BY <1>1 DEF BusInv, AnswerInv, BusTyped, Unanswered, Mounted
<1>3. CASE pc.with = NOCARD
  <2>1. TellAttached(u, NOCARD)
    BY <1>3, Numbers DEF __CARDMountCallback
  <2>2. u.result = NOCARD /\ u.api
    BY <1>2 DEF Unmounted, Cards
  <2>3. u \in Cards
    BY <1>2, UnmountedCard, Numbers
  <2> HIDE DEF u
  <2> QED
    BY <1>1, <1>2, <2>1, <2>2, <2>3, TellingAnswers, Numbers
<1>4. CASE pc.with = READY
  <2>1. /\ c \in Cards /\ c.step = card.step + 1
        /\ c.id = card.id /\ c.api /\ c.attached
    BY <1>2 DEF Cards
  <2>2. \/ c.step < MaxMountStep /\ card' = BeginRead(c) /\ pc' = At("segment") /\ call' = call
        \/ ~(c.step < MaxMountStep) /\ TellAttached(c, verified)
    BY <1>4 DEF __CARDMountCallback
  <2> HIDE DEF c
  <2>3. Reads(Segments) /\ card.block \in Blocks
    BY <1>2, <1>4, Numbers DEF Reads, Blocks
  <2>4. CASE c.step < MaxMountStep /\ card' = BeginRead(c) /\ pc' = At("segment") /\ call' = call
    <3>1. /\ card'.repeat = Segments /\ card'.segment = 0 /\ card'.block = c.step - 2
          /\ card'.step = c.step /\ card'.id = c.id /\ card'.api
      BY <2>1, <2>4 DEF BeginRead, Cards
    <3>2. Before(card.block + 1, 0) = Before(card.block, Segments)
      BY <2>3, WholeBlock
    <3>3. card'.block = card.block + 1 /\ card'.step \in 2 .. MaxMountStep - 1
      BY <2>1, <2>3, <2>4, <3>1, Numbers DEF Reads
    <3>4. Reads(card.segment)' /\ Counts'
      BY <1>1, <2>1, <2>3, <3>1, <3>2, <3>3, Numbers DEF Reads, Counts
    <3>5. pc'.at = "segment" /\ "segment" \notin HoldsBus
      BY <2>4 DEF At, HoldsBus
    <3> QED
      BY <1>2, <2>4, <3>1, <3>4, <3>5 DEF AnswerInv, Unanswered
  <2>5. CASE ~(c.step < MaxMountStep) /\ TellAttached(c, verified)
    <3>1. c.step = MaxMountStep /\ card.block = MaxMountStep - 3 /\ IsCard(c.id)
      BY <2>1, <2>3, <2>5, Numbers DEF Reads
    <3>2. area' = WorkArea
      BY <1>1, <2>3, <3>1, AllBefore DEF Reads
    <3> QED
      BY <1>1, <1>2, <2>1, <2>5, <3>1, <3>2, TellingAnswers
  <2> QED
    BY <2>2, <2>4, <2>5
<1> QED
  BY <1>2, <1>3, <1>4

-----------------------------------------------------------------------------
(* Calls from outside a mount.                                              *)

LEMMA MountAnswers ==
  ASSUME BusInv, AnswerInv, Quiet, NEW attachOk \in BOOLEAN, CARDMountAsync(attachOk)
  PROVE  AnswerInv'
<1> DEFINE asked == [card EXCEPT !.result = BUSY, !.api = TRUE]
           attached == IF card.attached THEN bus ELSE EXIAttach(bus, attachOk)
           locked == EXILock(attached, 0)
<1>1. /\ BusTyped /\ card \in Cards /\ pc.at = "idle" /\ Rested
      /\ area' = {} /\ cardUser' = cardUser /\ card.result # BUSY
  BY DEF BusInv, BusTyped, AnswerInv, Quiet, Idle, CARDMountAsync
<1>2. ~cardUser
  BY <1>1 DEF Rested
<1>3. \/ /\ card' = [asked EXCEPT !.result = NOCARD] /\ pc' = pc
         /\ call' = [NoCall EXCEPT !.asked = TRUE, !.returned = NOCARD]
      \/ /\ card' = [asked EXCEPT !.step = 0, !.attached = TRUE]
         /\ \/ /\ pc' = At("identify")
               /\ call' = [NoCall EXCEPT !.asked = TRUE, !.waits = "no"]
            \/ /\ pc' = Idle
               /\ call' = [NoCall EXCEPT !.asked = TRUE, !.waits = "bus"]
  <2>1. locked.ok \/ ~locked.ok
    OBVIOUS
  <2> HIDE DEF asked, attached
  <2> QED
    BY <2>1 DEF CARDMountAsync, attached, asked
<1>4. asked \in Cards /\ asked.result = BUSY /\ asked.api
  <2>1. card \in Cards /\ BUSY \in Int
    BY <1>1, Numbers
  <2> QED
    BY <2>1 DEF Cards
<1> HIDE DEF asked
<1>5. <<>> # <<READY>> /\ NOCARD < 0 /\ ~(READY < 0) /\ NOCARD # BUSY /\ ~(NOCARD >= 0)
  BY Numbers
<1>6. CASE /\ card' = [asked EXCEPT !.result = NOCARD] /\ pc' = pc
           /\ call' = [NoCall EXCEPT !.asked = TRUE, !.returned = NOCARD]
  <2>1. /\ card'.result = NOCARD
        /\ call'.returned = NOCARD /\ call'.callbacks = <<>> /\ call'.waits = "no"
    BY <1>4, <1>6 DEF NoCall, Cards
  <2>2. Answered'
    BY <1>5, <2>1 DEF Answered
  <2> QED
    BY <1>1, <1>2, <1>5, <1>6, <2>1, <2>2 DEF AnswerInv, Rested, HoldsBus
<1>7. CASE /\ card' = [asked EXCEPT !.step = 0, !.attached = TRUE]
           /\ pc' = At("identify")
           /\ call' = [NoCall EXCEPT !.asked = TRUE, !.waits = "no"]
  <2>1. card'.api /\ call'.asked /\ call'.returned = READY /\ call'.callbacks = <<>>
    BY <1>4, <1>7 DEF NoCall, Cards
  <2>2. pc'.at = "identify"
    BY <1>7 DEF At
  <2> QED
    BY <1>1, <2>1, <2>2 DEF AnswerInv, Unanswered, HoldsBus
<1>8. CASE /\ card' = [asked EXCEPT !.step = 0, !.attached = TRUE]
           /\ pc' = Idle
           /\ call' = [NoCall EXCEPT !.asked = TRUE, !.waits = "bus"]
  <2>1. /\ card'.result = BUSY
        /\ call'.returned = READY /\ call'.callbacks = <<>> /\ call'.waits = "bus"
    BY <1>4, <1>8 DEF NoCall, Cards
  <2>2. Answered'
    BY <1>5, <2>1 DEF Answered
  <2>3. pc'.at = "idle"
    BY <1>8 DEF Idle
  <2> QED
    BY <1>1, <1>2, <2>1, <2>2, <2>3 DEF AnswerInv, Rested, HoldsBus
<1> QED
  BY <1>3, <1>6, <1>7, <1>8

\* Whoever takes the card while it is quiet ends the account of the last mount.
LEMMA UnmountAnswers == ASSUME BusInv, AnswerInv, Quiet, CARDUnmount PROVE AnswerInv'
<1>1. /\ card \in Cards /\ pc.at = "idle" /\ pc' = pc /\ Rested /\ cardUser' = cardUser
      /\ card.attached /\ card.result # BUSY /\ call' = NoCall
      /\ card' = Unmounted([card EXCEPT !.result = BUSY, !.api = FALSE], NOCARD)
  BY DEF BusInv, BusTyped, AnswerInv, Quiet, Idle, CARDUnmount
<1>2. card'.result = NOCARD
  BY <1>1 DEF Cards, Unmounted
<1>3. ~cardUser /\ ~call'.asked /\ call'.waits = "no" /\ NOCARD # BUSY
  BY <1>1, Numbers DEF Rested, NoCall
<1> QED
  BY <1>1, <1>2, <1>3 DEF AnswerInv, Rested, HoldsBus

LEMMA TakingAnswers == ASSUME BusInv, AnswerInv, Quiet, __CARDGetControlBlock PROVE AnswerInv'
<1>1. /\ card \in Cards /\ pc.at = "idle" /\ pc' = pc /\ cardUser' = TRUE /\ call' = NoCall
      /\ card' = [card EXCEPT !.result = BUSY, !.api = FALSE]
  BY DEF BusInv, BusTyped, Quiet, Idle, __CARDGetControlBlock
<1>2. card'.result = BUSY /\ ~call'.asked
  BY <1>1 DEF Cards, NoCall
<1> QED
  BY <1>1, <1>2 DEF AnswerInv, Rested, HoldsBus

LEMMA PuttingAnswers ==
  ASSUME BusInv, AnswerInv, Quiet, NEW r \in {READY, IOERROR}, PutBack(r) PROVE AnswerInv'
<1>1. /\ BusTyped /\ card \in Cards /\ pc.at = "idle" /\ pc' = pc /\ Rest /\ Rested
      /\ cardUser /\ cardUser' = FALSE /\ call' = call
      /\ card' = __CARDPutControlBlock(card, r)
  BY DEF BusInv, BusTyped, AnswerInv, Quiet, Idle, PutBack
<1>2. card.result = BUSY /\ ~call.asked /\ call.waits = "no" /\ r # BUSY
  BY <1>1, Numbers DEF Rest, Rested
<1>3. card'.result = r
  BY <1>1, <1>2 DEF Cards, __CARDPutControlBlock
<1> QED
  BY <1>1, <1>2, <1>3 DEF AnswerInv, Rested, HoldsBus

LEMMA ElseAnswers ==
  ASSUME AnswerInv, UNCHANGED <<card, pc, call, area, cardUser>> PROVE AnswerInv'
BY DEF AnswerInv, Rested, Answered, Unanswered, Reads, Counts

LEMMA ModeAnswers == ASSUME AnswerInv, OSGetProgressiveMode PROVE AnswerInv'
<1>1. UNCHANGED <<card, call, area, cardUser>>
  BY DEF OSGetProgressiveMode
<1>2. CASE UNCHANGED pc
  BY <1>1, <1>2, ElseAnswers
<1>3. CASE pc' = At("fault")
  BY <1>3 DEF AnswerInv, At, HoldsBus
<1> QED
  BY <1>2, <1>3 DEF OSGetProgressiveMode

LEMMA AnswersNext == ASSUME BusInv, AnswerInv, [Next]_vars PROVE AnswerInv'
<1>1. CASE Mounting
  <2>1. ASSUME NEW hasId \in BOOLEAN, NEW id \in Ids, Identify(hasId, id) PROVE AnswerInv'
    BY <2>1, IdentifyAnswers
  <2>2. ASSUME NEW status \in Imm, NEW probe \in -1 .. 1, Status(status, probe) PROVE AnswerInv'
    BY <2>2, StatusAnswers
  <2>3. ASSUME NEW ok \in BOOLEAN, NEW writeOk \in BOOLEAN, NEW id \in FlashIds,
               Unlock(ok, id, writeOk)
        PROVE  AnswerInv'
    BY <2>3, UnlockAnswers
  <2>4. CASE Flash
    BY <2>4, FlashAnswers
  <2>5. ASSUME NEW hook \in BOOLEAN, __CARDReadSegment(hook) PROVE AnswerInv'
    BY <2>5, SegmentAnswers
  <2>6. ASSUME NEW probe \in -1 .. 1, __CARDTxHandler(probe) PROVE AnswerInv'
    BY <2>6, SentAnswers
  <2>7. CASE BlockReadCallback
    BY <2>7, BlockAnswers
  <2>8. ASSUME NEW verified \in {READY, BROKEN}, __CARDMountCallback(verified) PROVE AnswerInv'
    BY <2>8, CallbackAnswers
  <2> QED
    BY <1>1, <2>1, <2>2, <2>3, <2>4, <2>5, <2>6, <2>7, <2>8 DEF Mounting
<1>2. ASSUME Quiet, NEW attachOk \in BOOLEAN, CARDMountAsync(attachOk) PROVE AnswerInv'
  BY <1>2, MountAnswers
<1>3. CASE Quiet /\ CARDUnmount
  BY <1>3, UnmountAnswers
<1>4. CASE Quiet /\ __CARDGetControlBlock
  BY <1>4, TakingAnswers
<1>5. ASSUME Quiet, NEW outcome \in {READY, IOERROR}, PutBack(outcome) PROVE AnswerInv'
  BY <1>5, PuttingAnswers
<1>6. CASE ClientStep
  BY <1>6, ElseAnswers DEF ClientStep
<1>7. CASE SramStep
  BY <1>7, ElseAnswers DEF SramStep
<1>8. CASE OSGetProgressiveMode
  BY <1>8, ModeAnswers
<1>9. CASE UNCHANGED vars
  BY <1>9, ElseAnswers DEF vars
<1> QED
  BY <1>1, <1>2, <1>3, <1>4, <1>5, <1>6, <1>7, <1>8, <1>9 DEF Next

-----------------------------------------------------------------------------
LEMMA AnswersSuffice == ASSUME BusInv, AnswerInv PROVE MountsAnswered
<1> SUFFICES ASSUME Quiet PROVE MountsAnswered
  BY DEF MountsAnswered
<1>1. /\ BusTyped /\ Rested /\ call.returned \in Int /\ call.callbacks \in Seq(Int)
      /\ card.step \in Int
  BY DEF BusInv, BusTyped, Cards, AnswerInv, Quiet, Idle
<1>2. CASE ~call.asked
  BY <1>1, <1>2 DEF Rested, MountsAnswered
<1>3. CASE call.asked
  <2> DEFINE count == Len(call.callbacks) + (IF call.returned < 0 THEN 1 ELSE 0)
                        + (IF call.waits # "no" THEN 1 ELSE 0)
  <2>1. Answered
    BY <1>1, <1>3 DEF Rested
  <2>2. call.returned < 0 => card.result = call.returned
    BY <2>1 DEF Answered
  <2>3. call.callbacks # <<>> => card.result = call.callbacks[1]
    BY <1>1, <2>1, Numbers DEF Answered
  <2>4. count = 1
    <3>1. Len(<<>>) = 0
      OBVIOUS
    <3>2. CASE call.returned < 0
      <4>1. Len(call.callbacks) = 0 /\ call.waits = "no"
        BY <2>1, <3>1, <3>2 DEF Answered
      <4> QED
        BY <3>2, <4>1
    <3>3. CASE ~(call.returned < 0) /\ call.waits # "no"
      BY <2>1, <3>1, <3>3 DEF Answered
    <3>4. CASE ~(call.returned < 0) /\ call.waits = "no"
      BY <1>1, <2>1, <3>4 DEF Answered
    <3> QED
      BY <3>2, <3>3, <3>4
  <2>5. ASSUME call.callbacks = <<READY>>, NEW id \in Ids
        PROVE  LET p == CARDProbeEx(1, TRUE, id)
               IN p.result = READY /\ p.size = SizeMb(card.id) /\ IsCard(card.id)
    <3>1. card.attached /\ ~(card.step < 1) /\ IsCard(card.id)
      BY <2>1, <2>5, Numbers DEF Answered
    <3> DEFINE p == CARDProbeEx(1, TRUE, id)
    <3>2. p.result = READY /\ p.size = SizeMb(card.id)
      BY <3>1 DEF CARDProbeEx
    <3> HIDE DEF p
    <3> QED
      BY <3>1, <3>2 DEF p
  <2>6. call.callbacks = <<READY>> => area = WorkArea
    BY <2>1 DEF Answered
  <2> QED
    BY <1>1, <2>2, <2>3, <2>4, <2>5, <2>6 DEF Rested, MountsAnswered
<1> QED
  BY <1>2, <1>3

\* Between calls every mount that was accepted has exactly one answer, or waits for ever
\* for a bus or an unlock; the card keeps that answer, and READY comes with the whole
\* work area and a card that CARDProbeEx finds.
THEOREM MountsAnsweredAlways == Spec => []MountsAnswered
<1>1. Init => BusInv /\ AnswerInv
  BY BusInitially, AnswersInitially
<1>2. BusInv /\ AnswerInv /\ [Next]_vars => (BusInv /\ AnswerInv)'
  BY BusNext, AnswersNext
<1>3. BusInv /\ AnswerInv => MountsAnswered
  BY AnswersSuffice
<1> QED
  BY <1>1, <1>2, <1>3, PTL DEF Spec

-----------------------------------------------------------------------------
(***************************************************************************)
(* The files of a memory card keep their blocks, for every size of card    *)
(* and of block, every directory and every set of names and sizes.         *)
(***************************************************************************)

LinkValues == Data \cup {Avail, End}
FreeSet(next) == {b \in Data : next[b] = Avail}

\* Block i of a chain, and what closes it.
BlockAt(c, i) == IF i \in 1 .. Len(c) THEN c[i] ELSE End

\* The links lead from start along the blocks c and end there.
Chained(next, start, c) ==
  start = BlockAt(c, 1) /\ \A i \in 1 .. Len(c) : next[c[i]] = BlockAt(c, i + 1)

LEMMA DataFacts ==
  /\ Data \subseteq Nat /\ IsFiniteSet(Data) /\ cBlock \in Nat /\ cBlock - System \in Nat
  /\ Cardinality(Data) = cBlock - System /\ cBlock - System > 0
  /\ End \in Nat /\ End \notin Data /\ Avail \notin Data /\ Avail # End /\ Word > cBlock
  /\ \A b : b \in Data <=> b \in Nat /\ System <= b /\ b < cBlock
<1>1. Word \in Nat /\ cBlock \in Int /\ 6 <= cBlock /\ cBlock <= Word - 2 /\ System = 5
  BY FatAssumption DEF System, End
<1>2. Data = 5 .. cBlock - 1 /\ 5 \in Int /\ cBlock - 1 \in Int /\ ~(5 > cBlock - 1)
  BY <1>1 DEF Data
<1> DEFINE top == cBlock - 1
<1>3. IsFiniteSet(Data) /\ Cardinality(Data) = (cBlock - 1) - 5 + 1
  <2>1. top \in Int /\ ~(5 > top)
    BY <1>2
  <2> HIDE DEF top
  <2>2. IsFiniteSet(5 .. top) /\ Cardinality(5 .. top) = top - 5 + 1
    BY <2>1, FS_Interval
  <2> QED
    BY <1>2, <2>2 DEF top
<1> QED
  BY <1>1, <1>2, <1>3 DEF End, Avail

\* A line of blocks.
LEMMA BlockFacts ==
  ASSUME NEW c \in Lines(Data)
  PROVE  /\ c \in Seq(Data) /\ Len(c) \in Nat /\ DOMAIN c = 1 .. Len(c) /\ Len(c) <= cBlock - System
         /\ c = <<>> <=> Len(c) = 0
         /\ \A i \in 1 .. Len(c) : c[i] \in Data /\ c[i] \in ToSet(c) /\ BlockAt(c, i) = c[i]
         /\ \A i, j \in 1 .. Len(c) : c[i] = c[j] => i = j
         /\ BlockAt(c, Len(c) + 1) = End
         /\ \A i \in Int : BlockAt(c, i) \in Data \cup {End}
         /\ \A b \in ToSet(c) : \E i \in 1 .. Len(c) : c[i] = b
         /\ ToSet(c) \subseteq Data
<1>1. c \in Seq(Data) /\ Len(c) \in Nat /\ DOMAIN c = 1 .. Len(c) /\ c \in [1 .. Len(c) -> Data] /\ (c = <<>> <=> Len(c) = 0) /\ ToSet(c) \subseteq Data
  BY SeqFacts DEF Lines
<1>2. Len(c) <= cBlock - System
  BY LineCount, DataFacts
<1>3. \A i \in 1 .. Len(c) : c[i] \in Data /\ c[i] \in ToSet(c) /\ BlockAt(c, i) = c[i]
  BY <1>1 DEF BlockAt, ToSet
<1>4. \A i, j \in 1 .. Len(c) : c[i] = c[j] => i = j
  BY <1>1 DEF Lines, IsInjective
<1>5. BlockAt(c, Len(c) + 1) = End
  <2>1. Len(c) + 1 \notin 1 .. Len(c)
    BY <1>1
  <2> QED
    BY <2>1 DEF BlockAt
<1>6. \A i \in Int : BlockAt(c, i) \in Data \cup {End}
  BY <1>3 DEF BlockAt
<1>7. \A b \in ToSet(c) : \E i \in 1 .. Len(c) : c[i] = b
  BY <1>1 DEF ToSet
<1> QED
  BY <1>1, <1>2, <1>3, <1>4, <1>5, <1>6, <1>7

-----------------------------------------------------------------------------
(* A walk along a chain meets its blocks. *)

Few(c, k) == IF k < Len(c) THEN k ELSE Len(c)

\* The first blocks of a chain, as many as k.
Opening(c, k) == [i \in 1 .. Few(c, k) |-> c[i]]

FollowLink(next, start, s) ==
  LET b == IF s = <<>> THEN start ELSE next[Last(s)] IN IF b \in Data THEN Append(s, b) ELSE s

\* t holds the first m blocks of c.
Begins(c, m, t) ==
  /\ t \in Seq(Data) /\ Len(t) = m /\ (t = <<>> <=> m = 0)
  /\ \A i \in 1 .. m : t[i] = c[i]
  /\ m # 0 => Last(t) = c[m]

LEMMA OpeningIs ==
  ASSUME NEW c \in Lines(Data), NEW k \in Nat
  PROVE  Few(c, k) \in 0 .. Len(c) /\ Begins(c, Few(c, k), Opening(c, k))
<1> DEFINE m == Few(c, k)
           t == Opening(c, k)
<1>1. m \in 0 .. Len(c) /\ m \in Nat
  BY BlockFacts DEF Few
<1>2. t = [i \in 1 .. m |-> c[i]]
  BY DEF Opening
<1> HIDE DEF m, t
<1>3. \A i \in 1 .. m : c[i] \in Data
  BY <1>1, BlockFacts
<1>4. t \in Seq(Data) /\ Len(t) = m
  BY <1>1, <1>2, <1>3
<1>5. (t = <<>> <=> m = 0) /\ \A i \in 1 .. m : t[i] = c[i]
  BY <1>1, <1>2, <1>4, SeqFacts
<1>6. m # 0 => Last(t) = c[m]
  <2> SUFFICES ASSUME m # 0 PROVE Last(t) = c[m]
    OBVIOUS
  <2>1. m \in 1 .. m
    BY <1>1
  <2> QED
    BY <1>4, <1>5, <2>1 DEF Last
<1> QED
  BY <1>1, <1>4, <1>5, <1>6 DEF Begins, m, t

LEMMA FollowIs ==
  ASSUME NEW next, NEW start, NEW c \in Lines(Data), Chained(next, start, c), NEW k \in Nat
  PROVE  FollowLink(next, start, Opening(c, k)) = Opening(c, k + 1)
<1> DEFINE t == Opening(c, k)
           u == Opening(c, k + 1)
           b == IF t = <<>> THEN start ELSE next[Last(t)]
           m == Few(c, k)
<1>1. m \in 0 .. Len(c) /\ Begins(c, m, t) /\ k + 1 \in Nat /\ Len(c) \in Nat
  BY OpeningIs, BlockFacts
<1>2. FollowLink(next, start, t) = IF b \in Data THEN Append(t, b) ELSE t
  BY DEF FollowLink
<1>3. b = BlockAt(c, m + 1)
  <2>1. CASE m = 0
    BY <1>1, <2>1 DEF Begins, Chained
  <2>2. CASE m # 0
    <3>1. m \in 1 .. Len(c) /\ t # <<>> /\ Last(t) = c[m]
      BY <1>1, <2>2 DEF Begins
    <3> QED
      BY <3>1 DEF Chained
  <2> QED
    BY <2>1, <2>2
<1>4. CASE k < Len(c)
  <2>1. m = k /\ Few(c, k + 1) = k + 1 /\ k + 1 \in 1 .. Len(c)
    BY <1>1, <1>4 DEF Few
  <2>2. b = c[k + 1] /\ b \in Data
    BY <1>3, <2>1, BlockFacts
  <2>3. Begins(c, k + 1, u)
    BY <1>1, <2>1, OpeningIs
  <2>4. t \in Seq(Data) /\ Len(t) = k /\ \A i \in 1 .. k : t[i] = c[i]
    BY <1>1, <2>1 DEF Begins
  <2>5. u \in Seq(Data) /\ Len(u) = k + 1 /\ \A i \in 1 .. k + 1 : u[i] = c[i]
    BY <2>3 DEF Begins
  <2> HIDE DEF t, u, b, m
  <2> DEFINE v == Append(t, b)
  <2>6. v \in Seq(Data) /\ Len(v) = k + 1 /\ v[k + 1] = b /\ \A i \in 1 .. k : v[i] = t[i]
    BY <2>2, <2>4
  <2> HIDE DEF v
  <2>7. \A i \in 1 .. k + 1 : v[i] = u[i]
    BY <2>2, <2>4, <2>5, <2>6
  <2>8. v = u
    BY <2>5, <2>6, <2>7, SeqEqual
  <2> QED
    BY <1>2, <2>2, <2>8 DEF v, t, u
<1>5. CASE ~(k < Len(c))
  <2>1. m = Len(c) /\ Few(c, k + 1) = Few(c, k)
    BY <1>1, <1>5 DEF Few
  <2>2. b \notin Data
    BY <1>3, <2>1, BlockFacts, DataFacts
  <2>3. u = t
    BY <2>1 DEF Opening
  <2> QED
    BY <1>2, <2>2, <2>3
<1> QED
  BY <1>4, <1>5

LEMMA ChainIs ==
  ASSUME NEW next, NEW start, NEW c \in Lines(Data), Chained(next, start, c)
  PROVE  ChainFrom(next, start) = c
<1> DEFINE W(w) == w = [k \in Nat |-> IF k = 0 THEN <<>> ELSE FollowLink(next, start, w[k - 1])]
           walk == CHOOSE w : W(w)
           met == [k \in Nat |-> Opening(c, k)]
<1>1. ChainFrom(next, start) = walk[cBlock]
  BY DEF ChainFrom, FollowLink
<1>2. Opening(c, 0) = <<>>
  <2>1. Few(c, 0) = 0 /\ 0 \in Nat
    BY BlockFacts DEF Few
  <2> QED
    BY <2>1, OpeningIs DEF Begins
<1>3. W(met)
  <2>1. ASSUME NEW k \in Nat PROVE met[k] = IF k = 0 THEN <<>> ELSE FollowLink(next, start, met[k - 1])
    <3>1. CASE k = 0
      BY <1>2, <3>1
    <3>2. CASE k # 0
      <4>1. k - 1 \in Nat /\ (k - 1) + 1 = k
        BY <3>2
      <4>2. FollowLink(next, start, Opening(c, k - 1)) = Opening(c, (k - 1) + 1)
        BY <4>1, FollowIs
      <4> QED
        BY <3>2, <4>1, <4>2
    <3> QED
      BY <3>1, <3>2
  <2> HIDE DEF met
  <2>2. met = [k \in Nat |-> met[k]]
    BY DEF met
  <2> QED
    BY <2>1, <2>2
<1>4. W(walk)
  <2> HIDE DEF W
  <2> QED
    BY <1>3
<1> HIDE DEF walk
<1> DEFINE T == {k \in Nat : walk[k] = Opening(c, k)}
<1>5. 0 \in T
  BY <1>2, <1>4
<1>6. ASSUME NEW k \in Nat, k \in T PROVE k + 1 \in T
  <2>1. k + 1 \in Nat /\ k + 1 # 0 /\ (k + 1) - 1 = k
    OBVIOUS
  <2>2. walk[k + 1] = FollowLink(next, start, walk[k])
    BY <1>4, <2>1
  <2> QED
    BY <1>6, <2>1, <2>2, FollowIs
<1>7. cBlock \in T
  <2> HIDE DEF T
  <2> QED
    BY <1>5, <1>6, SetInduction, DataFacts
<1>8. Few(c, cBlock) = Len(c)
  BY BlockFacts, DataFacts DEF Few, System
<1>9. Opening(c, cBlock) \in Seq(Data) /\ Len(Opening(c, cBlock)) = Len(c) /\ \A i \in 1 .. Len(c) : Opening(c, cBlock)[i] = c[i]
  BY <1>8, OpeningIs, DataFacts DEF Begins
<1>10. Opening(c, cBlock) = c
  BY <1>9, BlockFacts, SeqEqual
<1> QED
  BY <1>1, <1>7, <1>10

-----------------------------------------------------------------------------
(* The search for free blocks. *)

Lasts == System - 1 .. cBlock - 1

\* The circle holds each block once.
LEMMA CircleIs ==
  ASSUME NEW last \in Lasts
  PROVE  /\ \A i \in 1 .. cBlock - System : CircleFrom(last)[i] \in Data
         /\ \A i, j \in 1 .. cBlock - System : CircleFrom(last)[i] = CircleFrom(last)[j] => i = j
         /\ \A b \in Data : \E i \in 1 .. cBlock - System : CircleFrom(last)[i] = b
<1> DEFINE n == cBlock - System
<1>1. System = 5 /\ cBlock \in Nat /\ n \in Nat /\ last \in Int /\ 4 <= last /\ last < cBlock /\ n = cBlock - 5
  BY DataFacts DEF Lasts, System
<1>2. \A i \in 1 .. n : CircleFrom(last)[i] = IF last + i < cBlock THEN last + i ELSE last + i - cBlock + 5
  <2>1. \A i \in 1 .. n : last + i \in Data <=> last + i < cBlock
    BY <1>1 DEF Data
  <2> QED
    BY <1>1, <2>1 DEF CircleFrom
<1>3. \A i \in 1 .. n : CircleFrom(last)[i] \in Data
  BY <1>1, <1>2 DEF Data
<1>4. \A i, j \in 1 .. n : CircleFrom(last)[i] = CircleFrom(last)[j] => i = j
  BY <1>1, <1>2
<1>5. ASSUME NEW b \in Data PROVE \E i \in 1 .. n : CircleFrom(last)[i] = b
  <2>1. b \in Int /\ 5 <= b /\ b < cBlock
    BY DataFacts, <1>1
  <2>2. CASE b > last
    <3>1. b - last \in 1 .. n /\ last + (b - last) = b
      BY <1>1, <2>1, <2>2
    <3> QED
      BY <1>2, <2>1, <3>1
  <2>3. CASE ~(b > last)
    <3> DEFINE i == b - last + cBlock - 5
    <3>1. i \in 1 .. n /\ last + i - cBlock + 5 = b /\ ~(last + i < cBlock)
      BY <1>1, <2>1, <2>3
    <3> QED
      BY <1>2, <3>1
  <2> QED
    BY <2>2, <2>3
<1> QED
  BY <1>3, <1>4, <1>5

LookAt(next, circle, n, k, got) ==
  IF Len(got) < n /\ next[circle[k]] = Avail THEN Append(got, circle[k]) ELSE got

\* What a search for n blocks has found after k blocks of the circle.
FoundSoFar(next, circle, n, k, got) ==
  /\ got \in Lines(Data) /\ Len(got) <= n
  /\ \A b \in ToSet(got) : next[b] = Avail /\ \E i \in 1 .. k : circle[i] = b
  /\ Len(got) < n => \A i \in 1 .. k : next[circle[i]] = Avail => circle[i] \in ToSet(got)

LEMMA LookAtIs ==
  ASSUME NEW next, NEW circle, NEW n \in Nat, NEW k \in 0 .. cBlock - System - 1, NEW got,
         \A i \in 1 .. cBlock - System : circle[i] \in Data,
         \A i, j \in 1 .. cBlock - System : circle[i] = circle[j] => i = j,
         FoundSoFar(next, circle, n, k, got)
  PROVE  FoundSoFar(next, circle, n, k + 1, LookAt(next, circle, n, k + 1, got))
<1> DEFINE N == cBlock - System
           b == circle[k + 1]
<1>1. N \in Nat /\ k \in Nat /\ k + 1 \in 1 .. N /\ \A i \in 1 .. k + 1 : i \in 1 .. k \/ i = k + 1
  BY DataFacts
<1>2. \A i \in 1 .. k : i \in 1 .. k + 1 /\ i \in 1 .. N /\ i # k + 1
  BY <1>1
<1>3. b \in Data /\ \A i \in 1 .. k : circle[i] # b
  BY <1>1, <1>2
<1>4. got \in Lines(Data) /\ Len(got) \in Nat /\ ToSet(got) \subseteq Data
  BY BlockFacts DEF FoundSoFar
<1>5. b \notin ToSet(got)
  BY <1>3 DEF FoundSoFar
<1>6. CASE Len(got) < n /\ next[b] = Avail
  <2> DEFINE u == Append(got, b)
  <2>1. u \in Lines(Data) /\ ToSet(u) = ToSet(got) \cup {b} /\ Len(u) = Len(got) + 1
    <3>1. got \in Seq(Data)
      BY <1>4 DEF Lines
    <3> HIDE DEF b
    <3> QED
      BY <1>3, <1>4, <1>5, <3>1, AppendLine, AppendIs
  <2>2. LookAt(next, circle, n, k + 1, got) = u
    BY <1>6 DEF LookAt
  <2> HIDE DEF u
  <2>3. Len(u) <= n
    BY <1>4, <1>6, <2>1
  <2>4. \A x \in ToSet(u) : next[x] = Avail /\ \E i \in 1 .. k + 1 : circle[i] = x
    <3> TAKE x \in ToSet(u)
    <3>1. CASE x = b
      BY <1>1, <1>6, <3>1
    <3>2. CASE x # b
      BY <1>2, <2>1, <3>2 DEF FoundSoFar
    <3> QED
      BY <3>1, <3>2
  <2>5. \A i \in 1 .. k + 1 : next[circle[i]] = Avail => circle[i] \in ToSet(u)
    BY <1>1, <1>6, <2>1 DEF FoundSoFar
  <2> QED
    BY <2>1, <2>2, <2>3, <2>4, <2>5 DEF FoundSoFar
<1>7. CASE ~(Len(got) < n /\ next[b] = Avail)
  <2>1. LookAt(next, circle, n, k + 1, got) = got
    BY <1>7 DEF LookAt
  <2>2. Len(got) < n => \A i \in 1 .. k + 1 : next[circle[i]] = Avail => circle[i] \in ToSet(got)
    BY <1>1, <1>7 DEF FoundSoFar
  <2>3. \A x \in ToSet(got) : next[x] = Avail /\ \E i \in 1 .. k + 1 : circle[i] = x
    BY <1>2 DEF FoundSoFar
  <2> QED
    BY <2>1, <2>2, <2>3 DEF FoundSoFar
<1> QED
  BY <1>6, <1>7

\* The search finds n free blocks or, if there are fewer, all of them.
LEMMA FoundIs ==
  ASSUME NEW next, NEW last \in Lasts, NEW n \in Nat
  PROVE  LET got == Found(next, CircleFrom(last), n)
         IN /\ got \in Lines(Data) /\ Len(got) <= n /\ ToSet(got) \subseteq FreeSet(next)
            /\ Len(got) < n => ToSet(got) = FreeSet(next)
<1> DEFINE circle == CircleFrom(last)
           N == cBlock - System
           W(w) == w = [k \in Nat |-> IF k = 0 THEN <<>> ELSE LookAt(next, circle, n, k, w[k - 1])]
           after == CHOOSE w : W(w)
           Seen == Data \cup {circle[k] : k \in Nat}
           S == Seq(Seen)
           G == [p \in Nat \X S |-> LookAt(next, circle, n, p[1] + 1, p[2])]
           none == <<>>
<1>1. Found(next, circle, n) = after[N]
  BY DEF Found, LookAt
<1>2. G \in [Nat \X S -> S] /\ none \in S
  <2>1. ASSUME NEW p \in Nat \X S PROVE LookAt(next, circle, n, p[1] + 1, p[2]) \in S
    <3>1. p[2] \in S /\ p[1] + 1 \in Nat
      OBVIOUS
    <3>2. circle[p[1] + 1] \in Seen
      BY <3>1
    <3> HIDE DEF Seen
    <3>3. Append(p[2], circle[p[1] + 1]) \in S
      BY <3>1, <3>2
    <3> QED
      BY <3>1, <3>3 DEF LookAt
  <2> QED
    BY <2>1
<1>3. \A k \in Nat, s \in S : G[<<k, s>>] = LookAt(next, circle, n, k + 1, s)
  BY DEF G
<1> HIDE DEF G, S
<1>4. PICK f \in [Nat -> S] : Stepped(f, G, none)
  <2> HIDE DEF none
  <2> QED
    BY <1>2, Recurs
<1>5. W(f)
  <2>1. ASSUME NEW k \in Nat PROVE f[k] = IF k = 0 THEN <<>> ELSE LookAt(next, circle, n, k, f[k - 1])
    <3>1. CASE k = 0
      BY <1>4, <3>1 DEF Stepped
    <3>2. CASE k # 0
      <4>1. k - 1 \in Nat /\ (k - 1) + 1 = k
        BY <3>2
      <4>2. f[k] = G[<<k - 1, f[k - 1]>>] /\ f[k - 1] \in S
        BY <1>4, <4>1 DEF Stepped
      <4> QED
        BY <1>3, <3>2, <4>1, <4>2
    <3> QED
      BY <3>1, <3>2
  <2>2. f = [k \in Nat |-> f[k]]
    OBVIOUS
  <2> QED
    BY <2>1, <2>2
<1>6. W(after)
  <2> HIDE DEF W
  <2> QED
    BY <1>5
<1> HIDE DEF after
<1>7. after[0] = <<>>
  BY <1>6
<1>8. ASSUME NEW k \in Nat PROVE after[k + 1] = LookAt(next, circle, n, k + 1, after[k])
  <2>1. k + 1 \in Nat /\ k + 1 # 0 /\ (k + 1) - 1 = k
    OBVIOUS
  <2> QED
    BY <1>6, <2>1
<1>9. /\ \A i \in 1 .. N : circle[i] \in Data
      /\ \A i, j \in 1 .. N : circle[i] = circle[j] => i = j
      /\ \A b \in Data : \E i \in 1 .. N : circle[i] = b
  BY CircleIs
<1> HIDE DEF circle, W, none
<1> DEFINE T == {k \in Nat : FoundSoFar(next, circle, n, k, after[k])}
<1>10. 0 \in T
  <2>1. <<>> \in Lines(Data) /\ ToSet(<<>>) = {} /\ Len(<<>>) = 0
    BY EmptyLine
  <2> QED
    BY <1>7, <2>1 DEF FoundSoFar
<1>11. ASSUME NEW k \in 0 .. N - 1, k \in T PROVE k + 1 \in T
  <2>1. k \in Nat /\ k + 1 \in Nat
    BY DataFacts
  <2>2. FoundSoFar(next, circle, n, k + 1, LookAt(next, circle, n, k + 1, after[k]))
    BY <1>9, <1>11, LookAtIs
  <2> QED
    BY <1>8, <2>1, <2>2
<1>12. N \in T
  <2>1. N \in Nat
    BY DataFacts
  <2> HIDE DEF T, N
  <2> QED
    BY <1>10, <1>11, <2>1, BoundedInduction
<1> DEFINE got == after[N]
<1>13. FoundSoFar(next, circle, n, N, got)
  BY <1>12
<1> HIDE DEF got, T
<1>14. got \in Lines(Data) /\ Len(got) <= n /\ ToSet(got) \subseteq Data
  BY <1>13, BlockFacts DEF FoundSoFar
<1>15. ToSet(got) \subseteq FreeSet(next)
  BY <1>13, <1>14 DEF FoundSoFar, FreeSet
<1>16. ASSUME Len(got) < n PROVE FreeSet(next) \subseteq ToSet(got)
  BY <1>9, <1>13, <1>16 DEF FoundSoFar, FreeSet
<1> QED
  BY <1>1, <1>14, <1>15, <1>16 DEF got, circle

-----------------------------------------------------------------------------
(* What allocating and freeing do to the table. *)

TableRec(sums) ==
  [code : 0 .. Word - 1, free : Nat, last : Lasts, sums : {sums}, next : [Data -> LinkValues]]

TableTyped(f) == f \in TableRec(f.sums)
TableOk(f) == TableTyped(f) /\ Sound(f)

\* The counter and the checksums of a table are new, and nothing else is.
LEMMA UpdatedIs ==
  ASSUME NEW f, TableTyped(f)
  PROVE  /\ TableTyped(Updated(f)) /\ Updated(f).sums = port_CARDCheckSum(Updated(f))
         /\ Updated(f).free = f.free /\ Updated(f).last = f.last /\ Updated(f).next = f.next
<1> DEFINE counted == [f EXCEPT !.code = (@ + 1) % Word]
           sums == port_CARDCheckSum(counted)
           g == [counted EXCEPT !.sums = sums]
<1>1. Word \in Nat /\ Word > 0 /\ f.code \in 0 .. Word - 1
  BY DataFacts, FatAssumption DEF TableTyped, TableRec
<1>2. ((f.code + 1) % Word) \in 0 .. Word - 1
  BY <1>1
<1>3. /\ counted \in TableRec(f.sums) /\ counted.free = f.free /\ counted.last = f.last
      /\ counted.next = f.next
  BY <1>2 DEF TableTyped, TableRec
<1> HIDE DEF counted, sums
<1>4. /\ g \in TableRec(sums) /\ g.sums = sums /\ g.code = counted.code /\ g.free = counted.free
      /\ g.last = counted.last /\ g.next = counted.next
  BY <1>3 DEF TableRec
<1>5. Updated(f) = g
  BY DEF Updated, counted, sums
<1> HIDE DEF g
<1>6. port_CARDCheckSum(g) = port_CARDCheckSum(counted)
  BY <1>4 DEF port_CARDCheckSum
<1> QED
  BY <1>3, <1>4, <1>5, <1>6 DEF TableTyped, sums

LEMMA LinkedIs ==
  ASSUME NEW next \in [Data -> LinkValues], NEW got \in Lines(Data)
  PROVE  /\ Linked(next, got) \in [Data -> LinkValues]
         /\ Chained(Linked(next, got), BlockAt(got, 1), got)
         /\ \A b \in Data \ ToSet(got) : Linked(next, got)[b] = next[b]
         /\ FreeSet(Linked(next, got)) = FreeSet(next) \ ToSet(got)
<1> DEFINE new == Linked(next, got)
<1>1. ASSUME NEW i \in 1 .. Len(got) PROVE new[got[i]] = BlockAt(got, i + 1)
  <2> DEFINE b == got[i]
             j == CHOOSE j \in DOMAIN got : got[j] = b
  <2>1. b \in Data /\ b \in ToSet(got) /\ DOMAIN got = 1 .. Len(got) /\ Len(got) \in Nat
    BY BlockFacts
  <2>2. j \in DOMAIN got /\ got[j] = b
    BY <2>1
  <2> HIDE DEF j
  <2>3. j = i
    BY <2>1, <2>2, BlockFacts
  <2>4. new[b] = IF j < Len(got) THEN got[j + 1] ELSE End
    BY <2>1 DEF Linked, j
  <2>5. i < Len(got) <=> i + 1 \in 1 .. Len(got)
    BY <2>1
  <2> QED
    BY <2>3, <2>4, <2>5 DEF BlockAt
<1>2. \A b \in Data \ ToSet(got) : new[b] = next[b]
  BY DEF Linked
<1>3. \A b \in ToSet(got) : new[b] \in Data \cup {End}
  <2> TAKE b \in ToSet(got)
  <2>1. PICK i \in 1 .. Len(got) : got[i] = b
    BY BlockFacts
  <2>2. i + 1 \in Int
    BY BlockFacts
  <2> QED
    BY <1>1, <2>1, <2>2, BlockFacts
<1>4. new = [b \in Data |-> new[b]]
  BY DEF Linked
<1> HIDE DEF new
<1>5. new \in [Data -> LinkValues]
  <2>1. \A b \in Data : new[b] \in LinkValues
    BY <1>2, <1>3 DEF LinkValues
  <2> QED
    BY <1>4, <2>1
<1>6. FreeSet(new) = FreeSet(next) \ ToSet(got)
  <2>1. \A b \in ToSet(got) : new[b] # Avail
    BY <1>3, DataFacts
  <2> QED
    BY <1>2, <2>1 DEF FreeSet
<1>7. Chained(new, BlockAt(got, 1), got)
  BY <1>1 DEF Chained
<1> QED
  BY <1>2, <1>5, <1>6, <1>7 DEF new

\* Counting the free blocks.
LEMMA FreeCounts ==
  ASSUME NEW next
  PROVE  /\ IsFiniteSet(FreeSet(next)) /\ Cardinality(FreeSet(next)) \in Nat
         /\ Cardinality(FreeSet(next)) <= cBlock - System
<1>1. FreeSet(next) \in SUBSET Data
  BY DEF FreeSet
<1> QED
  BY <1>1, DataFacts, FS_Subset, FS_CardinalityType

LEMMA FewerFree ==
  ASSUME NEW next, NEW c \in Lines(Data), ToSet(c) \subseteq FreeSet(next)
  PROVE  Len(c) <= Cardinality(FreeSet(next)) /\
         Cardinality(FreeSet(next) \ ToSet(c)) = Cardinality(FreeSet(next)) - Len(c)
<1>1. IsFiniteSet(ToSet(c)) /\ Cardinality(ToSet(c)) = Len(c) /\ IsFiniteSet(FreeSet(next))
  BY LineCount, FreeCounts
<1>2. FreeSet(next) \cap ToSet(c) = ToSet(c)
  OBVIOUS
<1>3. Cardinality(FreeSet(next) \ ToSet(c)) = Cardinality(FreeSet(next)) - Cardinality(FreeSet(next) \cap ToSet(c))
  BY <1>1, FS_Difference
<1>4. Cardinality(ToSet(c)) <= Cardinality(FreeSet(next))
  BY <1>1, FS_Subset
<1> QED
  BY <1>1, <1>2, <1>3, <1>4

LEMMA MoreFree ==
  ASSUME NEW next, NEW c \in Lines(Data), ToSet(c) \cap FreeSet(next) = {}
  PROVE  /\ Cardinality(FreeSet(next) \cup ToSet(c)) = Cardinality(FreeSet(next)) + Len(c)
         /\ Cardinality(FreeSet(next)) + Len(c) <= cBlock - System
<1>1. IsFiniteSet(ToSet(c)) /\ Cardinality(ToSet(c)) = Len(c) /\ IsFiniteSet(FreeSet(next)) /\ Len(c) \in Nat
  BY LineCount, FreeCounts
<1>2. FreeSet(next) \cap ToSet(c) = {} /\ Cardinality({}) = 0
  BY FS_EmptySet
<1>3. Cardinality(FreeSet(next) \cup ToSet(c)) =
        Cardinality(FreeSet(next)) + Cardinality(ToSet(c)) - Cardinality(FreeSet(next) \cap ToSet(c))
  BY <1>1, FS_Union
<1>4. FreeSet(next) \cup ToSet(c) \in SUBSET Data
  BY BlockFacts DEF FreeSet
<1>5. Cardinality(FreeSet(next) \cup ToSet(c)) <= cBlock - System
  BY <1>4, DataFacts, FS_Subset
<1>6. Cardinality(FreeSet(next) \cap ToSet(c)) = 0
  BY <1>2
<1> QED
  BY <1>1, <1>3, <1>5, <1>6, FreeCounts

\* What an allocation of n blocks gives: nothing if there are too few, or a chain of n
\* blocks that were free.
Given(f, n, a) ==
  \/ f.free < n /\ a.fat = f /\ a.result = INSSPACE
  \/ /\ a.result = READY /\ TableOk(a.fat)
     /\ \E got \in Lines(Data) :
          /\ Len(got) = n /\ ToSet(got) \subseteq FreeSet(f.next)
          /\ a.fat.next = Linked(f.next, got) /\ a.start = BlockAt(got, 1)

LEMMA AllocatedIs ==
  ASSUME NEW f, TableOk(f), NEW n \in Nat
  PROVE  Given(f, n, Allocated(f, n))
<1> DEFINE got == Found(f.next, CircleFrom(f.last), n)
           taken == [f EXCEPT !.free = (@ - n) % Word, !.next = Linked(@, got)]
           last == IF n = 0 THEN taken ELSE [taken EXCEPT !.last = Last(got)]
           a == Allocated(f, n)
<1>1. /\ f \in TableRec(f.sums) /\ f.free \in Nat /\ f.last \in Lasts /\ f.next \in [Data -> LinkValues]
      /\ f.free = Cardinality(FreeSet(f.next))
  BY DEF TableOk, TableTyped, TableRec, Sound, FreeBlocks, FreeSet
<1>2. CASE f.free < n
  <2>1. a = [fat |-> f, start |-> End, result |-> INSSPACE]
    <3> HIDE DEF got, taken, last
    <3>1. f.free \in Nat
      BY <1>1
    <3> QED
      BY <1>2, <3>1 DEF Allocated
  <2> QED
    BY <1>2, <2>1 DEF Given
<1>3. CASE ~(f.free < n)
  <2>1. /\ got \in Lines(Data) /\ Len(got) <= n /\ ToSet(got) \subseteq FreeSet(f.next)
        /\ Len(got) < n => ToSet(got) = FreeSet(f.next)
    BY <1>1, FoundIs
  <2>2. f.free >= n
    BY <1>1, <1>3
  <2>3. /\ Len(got) < n => a = [fat |-> taken, start |-> End, result |-> BROKEN]
        /\ ~(Len(got) < n) => a = [fat |-> Updated(last), start |-> IF n = 0 THEN End ELSE got[1],
                                   result |-> READY]
    BY <1>3, <2>2 DEF Allocated
  <2> HIDE DEF got
  <2>4. Len(got) \in Nat /\ Len(got) = Cardinality(ToSet(got))
    BY <2>1, LineCount
  <2>5. Len(got) = n
    BY <1>1, <2>1, <2>2, <2>4
  <2>6. a = [fat |-> Updated(last), start |-> IF n = 0 THEN End ELSE got[1], result |-> READY]
    BY <2>3, <2>5
  <2>7. ((f.free - n) % Word) = f.free - n /\ f.free - n \in Nat
    <3>1. f.free <= cBlock - System /\ f.free - n \in Nat
      BY <1>1, <1>3, FreeCounts
    <3>2. f.free - n < Word /\ Word \in Nat
      BY <1>1, <3>1, DataFacts, FatAssumption DEF System
    <3> QED
      BY <3>1, <3>2
  <2> DEFINE linked == Linked(f.next, got)
  <2>8. linked \in [Data -> LinkValues] /\ FreeSet(linked) = FreeSet(f.next) \ ToSet(got)
    BY <1>1, <2>1, LinkedIs
  <2>9. taken = [f EXCEPT !.free = f.free - n, !.next = linked]
    BY <2>7
  <2> HIDE DEF taken, linked
  <2>10. /\ taken \in TableRec(f.sums) /\ taken.free = f.free - n /\ taken.next = linked
         /\ taken.sums = f.sums
    BY <1>1, <2>7, <2>8, <2>9 DEF TableRec
  <2>11. last \in TableRec(f.sums) /\ last.free = f.free - n /\ last.next = linked /\ last.sums = f.sums
    <3>1. CASE n = 0
      BY <2>10, <3>1
    <3>2. CASE n # 0
      <4>1. Last(got) \in Lasts
        <5>1. n \in 1 .. Len(got) /\ Last(got) = got[n]
          BY <2>5, <3>2 DEF Last
        <5>2. got[n] \in Data
          BY <2>1, <5>1, BlockFacts
        <5> QED
          BY <5>1, <5>2 DEF Data, Lasts, System
      <4> DEFINE z == Last(got)
      <4>2. z \in Lasts
        BY <4>1
      <4> HIDE DEF z
      <4>3. LET g == [taken EXCEPT !.last = z]
            IN g \in TableRec(f.sums) /\ g.free = taken.free /\ g.next = taken.next /\ g.sums = taken.sums
        BY <2>10, <4>2 DEF TableRec
      <4> QED
        BY <2>10, <3>2, <4>3 DEF z
    <3> QED
      BY <3>1, <3>2
  <2> HIDE DEF last, a
  <2>12. TableTyped(last)
    BY <2>11 DEF TableTyped
  <2> DEFINE g == Updated(last)
  <2>13. TableTyped(g) /\ g.sums = port_CARDCheckSum(g) /\ g.free = f.free - n /\ g.next = linked
    BY <2>11, <2>12, UpdatedIs
  <2> HIDE DEF g
  <2>14. g.free = FreeBlocks(g)
    <3>1. FreeBlocks(g) = Cardinality(FreeSet(linked))
      BY <2>13 DEF FreeBlocks, FreeSet
    <3>2. Cardinality(FreeSet(linked)) = f.free - n
      BY <1>1, <2>1, <2>5, <2>8, FewerFree
    <3> QED
      BY <2>13, <3>1, <3>2
  <2>15. TableOk(g)
    BY <2>13, <2>14 DEF TableOk, Sound
  <2>16. a.start = BlockAt(got, 1) /\ a.fat = g /\ a.result = READY
    <3>1. n = 0 => 1 \notin 1 .. Len(got)
      BY <2>5
    <3>2. n # 0 => 1 \in 1 .. Len(got)
      BY <2>5
    <3> QED
      BY <2>6, <3>1, <3>2 DEF BlockAt, g
  <2>17. a.fat.next = Linked(f.next, got)
    BY <2>13, <2>16 DEF linked
  <2> QED
    BY <2>1, <2>5, <2>15, <2>16, <2>17 DEF Given, a
<1> QED
  BY <1>2, <1>3

-----------------------------------------------------------------------------
(* Freeing a chain. *)

FreeStep(s) ==
  IF s.at \notin Data THEN s
  ELSE [fat |-> [s.fat EXCEPT !.next[s.at] = Avail, !.free = (@ + 1) % Word],
        at |-> s.fat.next[s.at]]

\* The links when the first m blocks of a chain were freed.
Unlinked(next, c, m) == [b \in Data |-> IF \E i \in 1 .. m : c[i] = b THEN Avail ELSE next[b]]

\* Where freeing a chain of f stands when m of its blocks are free.
Emptied(f, c, m, s) ==
  /\ s.fat \in TableRec(f.sums) /\ s.at = BlockAt(c, m + 1)
  /\ s.fat.next = Unlinked(f.next, c, m) /\ s.fat.free = f.free + m
  /\ s.fat.last = f.last /\ s.fat.code = f.code

FreeStates(f) == [fat : TableRec(f.sums), at : LinkValues]

\* One link of a table is cleared, and the count stored.
LinkCleared(t, b, n) == [t EXCEPT !.next[b] = Avail, !.free = n]
Without(next, b) == [next EXCEPT ![b] = Avail]

LEMMA TableEdit ==
  ASSUME NEW sums, NEW t \in TableRec(sums), NEW b \in Data, NEW n \in Nat
  PROVE  /\ LinkCleared(t, b, n) \in TableRec(sums)
         /\ LinkCleared(t, b, n).next = Without(t.next, b) /\ LinkCleared(t, b, n).free = n
         /\ LinkCleared(t, b, n).last = t.last /\ LinkCleared(t, b, n).code = t.code
<1> DEFINE new == [t.next EXCEPT ![b] = Avail]
           g == [t EXCEPT !.next = new, !.free = n]
<1>1. new \in [Data -> LinkValues]
  BY DEF TableRec, LinkValues
<1> HIDE DEF new
<1>2. /\ g \in TableRec(sums) /\ g.next = new /\ g.free = n /\ g.last = t.last /\ g.code = t.code
  BY <1>1 DEF TableRec
<1>3. LinkCleared(t, b, n) = g
  BY DEF TableRec, new, LinkCleared
<1> HIDE DEF g
<1> QED
  BY <1>2, <1>3 DEF new, Without

LEMMA FreeStepTyped ==
  ASSUME NEW f, NEW s \in FreeStates(f)
  PROVE  FreeStep(s) \in FreeStates(f)
<1>1. CASE s.at \notin Data
  BY <1>1 DEF FreeStep
<1>2. CASE s.at \in Data
  <2> DEFINE t == s.fat
             n == (t.free + 1) % Word
             g == LinkCleared(t, s.at, n)
  <2>1. t \in TableRec(f.sums) /\ t.free \in Nat /\ t.next[s.at] \in LinkValues
    BY <1>2 DEF FreeStates, TableRec
  <2>2. n \in Nat
    BY <2>1, DataFacts, FatAssumption
  <2> HIDE DEF n
  <2>3. g \in TableRec(f.sums)
    BY <1>2, <2>1, <2>2, TableEdit
  <2>4. FreeStep(s) = [fat |-> g, at |-> t.next[s.at]]
    BY <1>2 DEF FreeStep, LinkCleared, n
  <2> HIDE DEF g
  <2> QED
    BY <2>1, <2>3, <2>4 DEF FreeStates
<1> QED
  BY <1>1, <1>2

LEMMA FreeStepIs ==
  ASSUME NEW f, TableOk(f), NEW block, NEW c \in Lines(Data), Chained(f.next, block, c),
         NEW m \in 0 .. Len(c), NEW s \in FreeStates(f), Emptied(f, c, m, s)
  PROVE  /\ m < Len(c) => Emptied(f, c, m + 1, FreeStep(s))
         /\ m = Len(c) => FreeStep(s) = s
<1>0. m \in Nat /\ Len(c) \in Nat /\ m + 1 \in Int
  BY BlockFacts
<1>1. CASE m < Len(c)
  <2> DEFINE t == s.fat
             b == c[m + 1]
             n == (t.free + 1) % Word
             g == LinkCleared(t, b, n)
  <2>1. m + 1 \in 1 .. Len(c)
    BY <1>0, <1>1
  <2>2. s.at = b /\ b \in Data
    BY <2>1, BlockFacts DEF Emptied
  <2>3. /\ t \in TableRec(f.sums) /\ t.free = f.free + m /\ t.next = Unlinked(f.next, c, m)
        /\ t.last = f.last /\ t.code = f.code
    BY DEF Emptied
  <2>4. f.free \in Nat /\ f.free + Len(c) < Word /\ f.next \in [Data -> LinkValues]
    <3>1. ToSet(c) \cap FreeSet(f.next) = {}
      <4>1. ASSUME NEW i \in 1 .. Len(c) PROVE f.next[c[i]] # Avail
        <5>1. i + 1 \in Int
          BY <1>0
        <5>2. BlockAt(c, i + 1) # Avail
          BY <5>1, BlockFacts, DataFacts
        <5> QED
          BY <5>2 DEF Chained
      <4> QED
        BY <4>1, BlockFacts DEF FreeSet
    <3>2. f.free = Cardinality(FreeSet(f.next)) /\ f.next \in [Data -> LinkValues]
      BY DEF TableOk, TableTyped, TableRec, Sound, FreeBlocks, FreeSet
    <3>3. f.free + Len(c) <= cBlock - System
      BY <3>1, <3>2, MoreFree
    <3> QED
      BY <1>0, <3>2, <3>3, DataFacts, FreeCounts, FatAssumption DEF System
  <2>5. n = f.free + (m + 1) /\ n \in Nat
    <3> DEFINE x == f.free + m + 1
    <3>1. x \in Nat /\ x < Word /\ t.free + 1 = x /\ Word \in Nat /\ f.free + (m + 1) = x
      BY <1>0, <1>1, <2>3, <2>4, FatAssumption
    <3> HIDE DEF x
    <3>2. (x % Word) = x
      BY <3>1
    <3> QED
      BY <3>1, <3>2
  <2>6. FreeStep(s) = [fat |-> g, at |-> t.next[b]]
    BY <2>2 DEF FreeStep, LinkCleared
  <2>7. t.next[b] = BlockAt(c, m + 2)
    <3>1. ~\E i \in 1 .. m : c[i] = b
      BY <1>0, <2>1, BlockFacts
    <3>2. f.next[b] = BlockAt(c, m + 2)
      <4>1. (m + 1) + 1 = m + 2
        BY <1>0
      <4> QED
        BY <2>1, <4>1 DEF Chained
    <3> QED
      BY <2>2, <2>3, <3>1, <3>2 DEF Unlinked
  <2>8. Without(t.next, b) = Unlinked(f.next, c, m + 1)
    <3>1. \A x : (\E i \in 1 .. m + 1 : c[i] = x) <=> ((\E i \in 1 .. m : c[i] = x) \/ x = b)
      BY <1>0
    <3> QED
      BY <2>2, <2>3, <3>1 DEF Unlinked, Without
  <2> HIDE DEF n, t, b
  <2>9. /\ g \in TableRec(f.sums) /\ g.next = Without(t.next, b) /\ g.free = n
        /\ g.last = t.last /\ g.code = t.code
    BY <2>2, <2>3, <2>5, TableEdit
  <2> HIDE DEF g
  <2>10. FreeStep(s).fat = g /\ FreeStep(s).at = BlockAt(c, (m + 1) + 1)
    <3>1. (m + 1) + 1 = m + 2
      BY <1>0
    <3> QED
      BY <2>6, <2>7, <3>1
  <2> QED
    BY <1>0, <1>1, <2>3, <2>5, <2>8, <2>9, <2>10 DEF Emptied
<1>2. CASE m = Len(c)
  <2>1. s.at \notin Data
    BY <1>2, BlockFacts, DataFacts DEF Emptied
  <2> QED
    BY <1>0, <1>2, <2>1 DEF FreeStep
<1> QED
  BY <1>0, <1>1, <1>2

\* Freeing a file frees all its blocks, and no other.
Taken(f, c, a) ==
  /\ a.result = READY /\ TableOk(a.fat)
  /\ a.fat.next = Unlinked(f.next, c, Len(c))

LEMMA FreedIs ==
  ASSUME NEW f, TableOk(f), NEW block, NEW c \in Lines(Data), Chained(f.next, block, c)
  PROVE  Taken(f, c, Freed(f, block))
<1> DEFINE S == FreeStates(f)
           first == [fat |-> f, at |-> block]
           G == [s \in S |-> FreeStep(s)]
           W(w) == w = [k \in Nat |-> IF k = 0 THEN first ELSE FreeStep(w[k - 1])]
           walk == CHOOSE w : W(w)
           N == 2 * cBlock
           a == Freed(f, block)
<1>0. /\ f \in TableRec(f.sums) /\ f.next \in [Data -> LinkValues] /\ f.free = Cardinality(FreeSet(f.next))
      /\ f.free \in Nat /\ Len(c) \in Nat
  BY BlockFacts DEF TableOk, TableTyped, TableRec, Sound, FreeBlocks, FreeSet
<1>1. a = IF walk[N].at = End THEN [fat |-> Updated(walk[N].fat), result |-> READY]
          ELSE [fat |-> walk[N].fat, result |-> BROKEN]
  BY DEF Freed, FreeStep
<1>2. first \in S /\ G \in [S -> S]
  <2>1. block = BlockAt(c, 1) /\ 1 \in Int
    BY DEF Chained
  <2>2. block \in LinkValues
    BY <2>1, BlockFacts DEF LinkValues
  <2> QED
    BY <1>0, <2>2, FreeStepTyped DEF FreeStates
<1>3. \A s \in S : G[s] = FreeStep(s)
  OBVIOUS
<1> HIDE DEF G, S
<1>4. PICK w \in [Nat -> S] : Iterated(w, G, first)
  <2> HIDE DEF first
  <2> QED
    BY <1>2, Iterates
<1>5. W(w)
  <2>1. ASSUME NEW k \in Nat PROVE w[k] = IF k = 0 THEN first ELSE FreeStep(w[k - 1])
    <3>1. CASE k = 0
      BY <1>4, <3>1 DEF Iterated
    <3>2. CASE k # 0
      <4>1. k - 1 \in Nat /\ (k - 1) + 1 = k
        BY <3>2
      <4>2. w[k] = G[w[k - 1]] /\ w[k - 1] \in S
        BY <1>4, <4>1 DEF Iterated
      <4> QED
        BY <1>3, <3>2, <4>2
    <3> QED
      BY <3>1, <3>2
  <2> HIDE DEF first
  <2>2. w = [k \in Nat |-> w[k]]
    OBVIOUS
  <2> QED
    BY <2>1, <2>2
<1>6. W(walk)
  <2> HIDE DEF W
  <2> QED
    BY <1>5
<1> HIDE DEF walk
<1>7. walk[0] = first
  <2> HIDE DEF first
  <2> QED
    BY <1>6
<1>8. ASSUME NEW k \in Nat PROVE walk[k + 1] = FreeStep(walk[k])
  <2> HIDE DEF first
  <2>1. k + 1 \in Nat /\ k + 1 # 0 /\ (k + 1) - 1 = k
    OBVIOUS
  <2> QED
    BY <1>6, <2>1
<1> HIDE DEF W
<1> DEFINE T == {k \in Nat : walk[k] \in S /\ Emptied(f, c, Few(c, k), walk[k])}
<1>9. 0 \in T
  <2>1. Few(c, 0) = 0
    BY <1>0 DEF Few
  <2>2. Unlinked(f.next, c, 0) = f.next
    BY <1>0 DEF Unlinked
  <2>3. Emptied(f, c, 0, first)
    BY <1>0, <2>2 DEF Emptied, Chained
  <2> HIDE DEF first
  <2> QED
    BY <1>2, <1>7, <2>1, <2>3
<1>10. ASSUME NEW k \in Nat, k \in T PROVE k + 1 \in T
  <2> HIDE DEF first
  <2> DEFINE m == Few(c, k)
  <2>1. m \in 0 .. Len(c) /\ (m < Len(c) => Few(c, k + 1) = m + 1) /\ (m = Len(c) => Few(c, k + 1) = m)
    BY <1>0 DEF Few
  <2>2. walk[k] \in S /\ Emptied(f, c, m, walk[k]) /\ walk[k + 1] = FreeStep(walk[k])
    BY <1>8, <1>10
  <2> HIDE DEF m
  <2>3. /\ m < Len(c) => Emptied(f, c, m + 1, FreeStep(walk[k]))
        /\ m = Len(c) => FreeStep(walk[k]) = walk[k]
    BY <2>1, <2>2, FreeStepIs DEF S
  <2>4. walk[k + 1] \in S
    BY <2>2, FreeStepTyped DEF S
  <2>5. m < Len(c) \/ m = Len(c)
    BY <1>0, <2>1
  <2> QED
    BY <2>1, <2>2, <2>3, <2>4, <2>5
<1>11. N \in T
  <2>1. N \in Nat
    BY DataFacts
  <2> HIDE DEF T, N
  <2> QED
    BY <1>9, <1>10, <2>1, SetInduction
<1> DEFINE s == walk[N]
<1>12. Emptied(f, c, Len(c), s)
  <2>1. Few(c, N) = Len(c)
    BY <1>0, BlockFacts, DataFacts DEF Few, System
  <2> QED
    BY <1>11, <2>1
<1> HIDE DEF s, T
<1>13. s.at = End
  BY <1>12, BlockFacts DEF Emptied
<1>14. a = [fat |-> Updated(s.fat), result |-> READY]
  BY <1>1, <1>13 DEF s
<1>15. /\ TableTyped(s.fat) /\ s.fat.sums = f.sums /\ s.fat.next = Unlinked(f.next, c, Len(c))
       /\ s.fat.free = f.free + Len(c)
  BY <1>12 DEF Emptied, TableTyped, TableRec
<1> DEFINE g == Updated(s.fat)
<1>16. /\ TableTyped(g) /\ g.sums = port_CARDCheckSum(g) /\ g.next = Unlinked(f.next, c, Len(c))
       /\ g.free = f.free + Len(c)
  BY <1>15, UpdatedIs
<1> HIDE DEF g
<1>17. FreeSet(g.next) = FreeSet(f.next) \cup ToSet(c)
  <2>1. \A b \in Data : (\E i \in 1 .. Len(c) : c[i] = b) <=> b \in ToSet(c)
    BY BlockFacts
  <2>2. ToSet(c) \subseteq Data
    BY BlockFacts
  <2> QED
    BY <1>16, <2>1, <2>2 DEF FreeSet, Unlinked
<1>18. ToSet(c) \cap FreeSet(f.next) = {}
  <2>1. ASSUME NEW i \in 1 .. Len(c) PROVE f.next[c[i]] # Avail
    <3>1. i + 1 \in Int
      BY <1>0
    <3>2. BlockAt(c, i + 1) # Avail
      BY <3>1, BlockFacts, DataFacts
    <3> QED
      BY <3>2 DEF Chained
  <2> QED
    BY <2>1, BlockFacts DEF FreeSet
<1>19. FreeBlocks(g) = f.free + Len(c)
  <2>1. FreeBlocks(g) = Cardinality(FreeSet(g.next))
    BY DEF FreeBlocks, FreeSet
  <2> QED
    BY <1>0, <1>17, <1>18, <2>1, MoreFree
<1>20. TableOk(g)
  BY <1>16, <1>19 DEF TableOk, Sound
<1> HIDE DEF a
<1> QED
  BY <1>14, <1>16, <1>20 DEF Taken, a, g

-----------------------------------------------------------------------------
(* The directory and the chains of its files. *)

\* Each entry of the directory d holds the blocks of its chain, and no other block is in
\* use; an entry without file has the chain of no blocks.
Holding(next, d, chain) ==
  /\ chain \in [Slots -> Lines(Data)]
  /\ \A s \in Slots : Chained(next, d[s].start, chain[s]) /\ Len(chain[s]) = d[s].length
  /\ \A s, t \in Slots : s # t => ToSet(chain[s]) \cap ToSet(chain[t]) = {}
  /\ \A b \in Data : next[b] # Avail <=> \E s \in Slots : b \in ToSet(chain[s])

LEMMA ChainedKept ==
  ASSUME NEW next, NEW new, NEW start, NEW c \in Lines(Data), Chained(next, start, c),
         \A b \in ToSet(c) : new[b] = next[b]
  PROVE  Chained(new, start, c)
BY BlockFacts DEF Chained

LEMMA NoBlocks ==
  ASSUME NEW next
  PROVE  /\ <<>> \in Lines(Data) /\ Len(<<>>) = 0 /\ ToSet(<<>>) = {}
         /\ Chained(next, End, <<>>) /\ BlockAt(<<>>, 1) = End
BY EmptyLine DEF Chained, BlockAt

LEMMA HoldingMore ==
  ASSUME NEW next \in [Data -> LinkValues], NEW d, NEW chain, Holding(next, d, chain), NEW d2,
         NEW slot \in Slots, NEW got \in Lines(Data), ToSet(got) \subseteq FreeSet(next),
         chain[slot] = <<>>, \A s \in Slots : s # slot => d2[s] = d[s],
         d2[slot].start = BlockAt(got, 1), d2[slot].length = Len(got)
  PROVE  Holding(Linked(next, got), d2, [chain EXCEPT ![slot] = got])
<1> DEFINE new == Linked(next, got)
           chain2 == [chain EXCEPT ![slot] = got]
<1>1. /\ Chained(new, BlockAt(got, 1), got) /\ FreeSet(new) = FreeSet(next) \ ToSet(got)
      /\ \A b \in Data \ ToSet(got) : new[b] = next[b]
  BY LinkedIs
<1>2. /\ chain2 \in [Slots -> Lines(Data)] /\ chain2[slot] = got
      /\ \A s \in Slots : s # slot => chain2[s] = chain[s]
  BY DEF Holding
<1> HIDE DEF new, chain2
<1>3. \A s \in Slots : chain[s] \in Lines(Data) /\ ToSet(chain[s]) \subseteq Data
  BY BlockFacts DEF Holding
<1>4. \A s \in Slots : \A b \in ToSet(chain[s]) : b \in Data /\ next[b] # Avail /\ b \notin ToSet(got)
  BY <1>3 DEF Holding, FreeSet
<1>5. ASSUME NEW s \in Slots
      PROVE  Chained(new, d2[s].start, chain2[s]) /\ Len(chain2[s]) = d2[s].length
  <2>1. CASE s = slot
    BY <1>1, <1>2, <2>1
  <2>2. CASE s # slot
    <3>1. Chained(next, d[s].start, chain[s]) /\ Len(chain[s]) = d[s].length /\ chain[s] \in Lines(Data)
      BY <1>3 DEF Holding
    <3>2. \A b \in ToSet(chain[s]) : new[b] = next[b]
      BY <1>1, <1>4
    <3>3. Chained(new, d[s].start, chain[s])
      BY <3>1, <3>2, ChainedKept
    <3> QED
      BY <1>2, <2>2, <3>1, <3>3
  <2> QED
    BY <2>1, <2>2
<1>6. ASSUME NEW s \in Slots, NEW t \in Slots, s # t PROVE ToSet(chain2[s]) \cap ToSet(chain2[t]) = {}
  <2>1. ToSet(chain[s]) \cap ToSet(chain[t]) = {}
    BY <1>6 DEF Holding
  <2> QED
    BY <1>2, <1>4, <1>6, <2>1
<1>7. ASSUME NEW b \in Data PROVE new[b] # Avail <=> \E s \in Slots : b \in ToSet(chain2[s])
  <2>1. CASE b \in ToSet(got)
    BY <1>1, <1>2, <2>1 DEF FreeSet
  <2>2. CASE b \notin ToSet(got)
    <3>1. new[b] = next[b]
      BY <1>1, <2>2
    <3>2. (\E s \in Slots : b \in ToSet(chain2[s])) <=> (\E s \in Slots : b \in ToSet(chain[s]))
      <4>1. b \notin ToSet(chain[slot])
        BY NoBlocks
      <4> QED
        BY <1>2, <2>2, <4>1
    <3> QED
      BY <3>1, <3>2 DEF Holding
  <2> QED
    BY <2>1, <2>2
<1> QED
  BY <1>2, <1>5, <1>6, <1>7 DEF Holding, new, chain2

\* The directory d fits the links after the chain of a slot is freed.
Cleared(next, d, chain, slot) ==
  Holding(Unlinked(next, chain[slot], Len(chain[slot])), d, [chain EXCEPT ![slot] = <<>>])

LEMMA HoldingLess ==
  ASSUME NEW next \in [Data -> LinkValues], NEW d, NEW chain, Holding(next, d, chain), NEW d2,
         NEW slot \in Slots, \A s \in Slots : s # slot => d2[s] = d[s],
         d2[slot].start = End, d2[slot].length = 0
  PROVE  Cleared(next, d2, chain, slot)
<1> DEFINE c == chain[slot]
           new == Unlinked(next, c, Len(c))
           chain2 == [chain EXCEPT ![slot] = <<>>]
<1>1. c \in Lines(Data)
  BY DEF Holding
<1>2. \A b \in Data : new[b] = IF b \in ToSet(c) THEN Avail ELSE next[b]
  <2>1. \A b \in Data : (\E i \in 1 .. Len(c) : c[i] = b) <=> b \in ToSet(c)
    <3> HIDE DEF c
    <3> QED
      BY <1>1, BlockFacts
  <2> QED
    BY <2>1 DEF Unlinked
<1>3. /\ chain2 \in [Slots -> Lines(Data)] /\ chain2[slot] = <<>>
      /\ \A s \in Slots : s # slot => chain2[s] = chain[s]
  BY NoBlocks DEF Holding
<1> HIDE DEF new, chain2
<1>4. \A s \in Slots : chain[s] \in Lines(Data) /\ ToSet(chain[s]) \subseteq Data
  BY BlockFacts DEF Holding
<1>5. ASSUME NEW s \in Slots
      PROVE  Chained(new, d2[s].start, chain2[s]) /\ Len(chain2[s]) = d2[s].length
  <2>1. CASE s = slot
    BY <1>3, <2>1, NoBlocks
  <2>2. CASE s # slot
    <3>1. Chained(next, d[s].start, chain[s]) /\ Len(chain[s]) = d[s].length /\ chain[s] \in Lines(Data)
      BY <1>4 DEF Holding
    <3>2. \A b \in ToSet(chain[s]) : new[b] = next[b]
      <4>1. ToSet(chain[s]) \cap ToSet(c) = {}
        BY <2>2 DEF Holding
      <4> QED
        BY <1>2, <1>4, <4>1
    <3>3. Chained(new, d[s].start, chain[s])
      BY <3>1, <3>2, ChainedKept
    <3> QED
      BY <1>3, <2>2, <3>1, <3>3
  <2> QED
    BY <2>1, <2>2
<1>6. ASSUME NEW s \in Slots, NEW t \in Slots, s # t PROVE ToSet(chain2[s]) \cap ToSet(chain2[t]) = {}
  <2>1. ToSet(chain[s]) \cap ToSet(chain[t]) = {}
    BY <1>6 DEF Holding
  <2> QED
    BY <1>3, <1>6, <2>1, NoBlocks
<1>7. ASSUME NEW b \in Data PROVE new[b] # Avail <=> \E s \in Slots : b \in ToSet(chain2[s])
  <2>1. CASE b \in ToSet(c)
    <3>1. \A s \in Slots : s # slot => b \notin ToSet(chain[s])
      BY <2>1 DEF Holding
    <3> QED
      BY <1>2, <1>3, <2>1, <3>1, NoBlocks
  <2>2. CASE b \notin ToSet(c)
    <3>1. new[b] = next[b]
      BY <1>2, <2>2
    <3>2. (\E s \in Slots : b \in ToSet(chain2[s])) <=> (\E s \in Slots : b \in ToSet(chain[s]))
      BY <1>3, <2>2, NoBlocks
    <3> QED
      BY <3>1, <3>2 DEF Holding
  <2> QED
    BY <2>1, <2>2
<1> QED
  BY <1>3, <1>5, <1>6, <1>7 DEF Holding, Cleared, new, chain2, c

-----------------------------------------------------------------------------
(* Names. *)

\* The comparison of a field and a string is equality.
LEMMA CompareIs ==
  ASSUME NEW field \in Seq(Nat \ {0}), NEW string \in Seq(Nat \ {0}), Len(field) <= NameMax
  PROVE  port_CARDCompareFileName(field, string) <=> field = string
<1> DEFINE m == Len(field)
           n == Len(string)
<1>1. m \in Nat /\ n \in Nat /\ NameMax \in Nat /\ m <= NameMax
  BY LenProperties, FatAssumption
<1>2. \A i \in 1 .. m : field[i] # 0 /\ FieldChar(field, i) = field[i]
  BY LenProperties DEF FieldChar
<1>3. \A i \in 1 .. n : string[i] # 0 /\ FieldChar(string, i) = string[i]
  BY LenProperties DEF FieldChar
<1>4. FieldChar(field, m + 1) = 0 /\ FieldChar(string, n + 1) = 0
  BY <1>1 DEF FieldChar
<1>5. ASSUME port_CARDCompareFileName(field, string) PROVE field = string
  <2>1. n <= NameMax
    BY <1>5 DEF port_CARDCompareFileName
  <2>2. \A i \in 1 .. NameMax : i <= n + 1 => FieldChar(field, i) = FieldChar(string, i)
    <3> SUFFICES ASSUME NEW i \in 1 .. NameMax, i <= n + 1
                 PROVE  FieldChar(field, i) = FieldChar(string, i)
      OBVIOUS
    <3>1. \A j \in 1 .. i - 1 : FieldChar(string, j) # 0
      BY <1>1, <1>3
    <3> QED
      BY <1>5, <3>1 DEF port_CARDCompareFileName
  <2>3. \A i \in 1 .. n : i <= m
    <3> SUFFICES ASSUME NEW i \in 1 .. n, i > m PROVE FALSE
      BY <1>1
    <3>1. m + 1 \in 1 .. n /\ m + 1 \in 1 .. NameMax /\ m + 1 <= n + 1
      BY <1>1, <2>1
    <3> QED
      BY <1>3, <1>4, <2>2, <3>1
  <2>4. n <= m
    BY <1>1, <2>3
  <2>5. m <= n
    <3> SUFFICES ASSUME m > n PROVE FALSE
      BY <1>1
    <3>1. n + 1 \in 1 .. m /\ n + 1 \in 1 .. NameMax /\ n + 1 <= n + 1
      BY <1>1
    <3> QED
      BY <1>2, <1>4, <2>2, <3>1
  <2>6. m = n
    BY <1>1, <2>4, <2>5
  <2>7. \A i \in 1 .. m : field[i] = string[i]
    <3> TAKE i \in 1 .. m
    <3>1. i \in 1 .. n /\ i \in 1 .. NameMax /\ i <= n + 1
      BY <1>1, <2>6
    <3> QED
      BY <1>2, <1>3, <2>2, <3>1
  <2> QED
    BY <2>6, <2>7, SeqEqual
<1>6. ASSUME field = string PROVE port_CARDCompareFileName(field, string)
  BY <1>1, <1>6 DEF port_CARDCompareFileName
<1> QED
  BY <1>5, <1>6

-----------------------------------------------------------------------------
(* Seeking. *)

\* The offset x lies in block i of a file, counted from 0.
InBlock(x, i) == i * SectorSize <= x /\ x < i * SectorSize + SectorSize

LEMMA Products ==
  ASSUME NEW i \in Nat, NEW j \in Nat
  PROVE  /\ i * SectorSize \in Nat /\ (i + 1) * SectorSize = i * SectorSize + SectorSize
         /\ i <= j => i * SectorSize <= j * SectorSize
<1>1. SectorSize \in Nat /\ SectorSize > 0
  BY FatAssumption
<1>2. i * SectorSize \in Nat /\ (i + 1) * SectorSize = i * SectorSize + SectorSize
  BY <1>1
<1>3. ASSUME i <= j PROVE i * SectorSize <= j * SectorSize
  <2> DEFINE k == j - i
  <2>1. k \in Nat /\ j = i + k
    BY <1>3
  <2> HIDE DEF k
  <2>2. k * SectorSize \in Nat /\ (i + k) * SectorSize = i * SectorSize + k * SectorSize
    BY <1>1, <2>1
  <2> QED
    BY <1>2, <2>1, <2>2
<1> QED
  BY <1>2, <1>3

LEMMA BlockNumber ==
  ASSUME NEW x \in Nat
  PROVE  /\ (x \div SectorSize) \in Nat /\ InBlock(x, x \div SectorSize)
         /\ SeekTarget(x) = (x \div SectorSize) * SectorSize
<1>1. SectorSize \in Nat /\ SectorSize > 0
  BY FatAssumption
<1>2. (x \div SectorSize) \in Nat /\ (x % SectorSize) \in Nat /\ (x % SectorSize) < SectorSize
  BY <1>1
<1>3. x = (x \div SectorSize) * SectorSize + (x % SectorSize)
  BY <1>1
<1> QED
  BY <1>1, <1>2, <1>3, Products DEF InBlock, SeekTarget

LEMMA InBlockIs ==
  ASSUME NEW x \in Nat, NEW i \in Nat, InBlock(x, i)
  PROVE  /\ (x \div SectorSize) = i
         /\ InBlock(x + SectorSize, i + 1)
         /\ \A t \in Nat : x >= t * SectorSize <=> i >= t
<1>1. SectorSize \in Nat /\ SectorSize > 0 /\ i * SectorSize \in Nat
  BY Products, FatAssumption
<1>2. ASSUME NEW t \in Nat PROVE x >= t * SectorSize <=> i >= t
  <2>1. t * SectorSize \in Nat /\ (t <= i => t * SectorSize <= i * SectorSize)
    BY Products
  <2>2. i + 1 \in Nat /\ (i + 1 <= t => (i + 1) * SectorSize <= t * SectorSize)
    BY Products
  <2>3. (i + 1) * SectorSize = i * SectorSize + SectorSize
    BY Products
  <2> QED
    BY <1>1, <2>1, <2>2, <2>3 DEF InBlock
<1>3. InBlock(x + SectorSize, i + 1)
  <2>1. (i + 1) * SectorSize = i * SectorSize + SectorSize
    BY Products
  <2> QED
    BY <1>1, <2>1 DEF InBlock
<1>4. (x \div SectorSize) = i
  <2> DEFINE q == x \div SectorSize
  <2>1. q \in Nat /\ InBlock(x, q)
    BY BlockNumber
  <2> HIDE DEF q
  <2>2. x >= q * SectorSize /\ i * SectorSize <= x /\ x < i * SectorSize + SectorSize
    BY <1>1, <2>1, Products DEF InBlock
  <2>3. i >= q
    BY <1>2, <2>1, <2>2
  <2>4. ~(q + 1 <= i)
    <3> SUFFICES ASSUME q + 1 <= i PROVE FALSE
      OBVIOUS
    <3>1. (q + 1) * SectorSize <= i * SectorSize /\ (q + 1) * SectorSize = q * SectorSize + SectorSize /\ q * SectorSize \in Nat
      BY <2>1, Products
    <3> QED
      BY <1>1, <2>1, <2>2, <3>1 DEF InBlock
  <2>5. q = i
    BY <2>1, <2>3, <2>4
  <2> QED
    BY <2>5 DEF q
<1> QED
  BY <1>2, <1>3, <1>4

FileRec == [slot : Slots, offset : Nat, block : LinkValues]

\* A file that stands at offset x is in the block b of its chain c, if it has any.
Standing(x, b, c) == b = BlockAt(c, (x \div SectorSize) + 1) /\ (c # <<>> => b \in Data)

SeekStep(next, target, s) ==
  IF s.offset >= target \/ s.block \notin Data THEN s
  ELSE [s EXCEPT !.offset = @ + SectorSize, !.block = next[s.block]]

\* The walk of a seek is in block i.
SeekAt(s, c, slot, i) ==
  s \in FileRec /\ s.slot = slot /\ InBlock(s.offset, i) /\ s.block = BlockAt(c, i + 1)

\* A step of the walk to block t.
Seeks(next, t, s, c, slot, i) ==
  LET new == SeekStep(next, t * SectorSize, s)
  IN (i < t => SeekAt(new, c, slot, i + 1)) /\ (i = t => new = s)

LEMMA SeekStepTyped ==
  ASSUME NEW next \in [Data -> LinkValues], NEW target, NEW s \in FileRec
  PROVE  SeekStep(next, target, s) \in FileRec
<1> DEFINE x == s.offset + SectorSize
           b == next[s.block]
           u == [s EXCEPT !.offset = x, !.block = b]
<1>1. SeekStep(next, target, s) = s \/ (s.block \in Data /\ SeekStep(next, target, s) = u)
  BY DEF SeekStep
<1>2. x \in Nat /\ (s.block \in Data => b \in LinkValues)
  BY FatAssumption DEF FileRec
<1> HIDE DEF x, b
<1>3. b \in LinkValues => u \in FileRec
  BY <1>2 DEF FileRec
<1> QED
  BY <1>1, <1>2, <1>3

LEMMA SeekStepIs ==
  ASSUME NEW next \in [Data -> LinkValues], NEW start, NEW c \in Lines(Data), Chained(next, start, c),
         NEW t \in Nat, t < Len(c), NEW slot, NEW i \in 0 .. t, NEW s, SeekAt(s, c, slot, i)
  PROVE  Seeks(next, t, s, c, slot, i)
<1>1. /\ s \in FileRec /\ s.offset \in Nat /\ s.slot = slot /\ InBlock(s.offset, i)
      /\ s.block = BlockAt(c, i + 1) /\ i \in Nat /\ Len(c) \in Nat /\ i + 1 \in 1 .. Len(c)
  BY BlockFacts DEF SeekAt, FileRec
<1>2. s.block = c[i + 1] /\ s.block \in Data
  BY <1>1, BlockFacts
<1>3. s.offset >= t * SectorSize <=> i >= t
  BY <1>1, InBlockIs
<1>4. ASSUME i < t PROVE SeekAt(SeekStep(next, t * SectorSize, s), c, slot, i + 1)
  <2> DEFINE x == s.offset + SectorSize
             b == next[s.block]
             u == [s EXCEPT !.offset = x, !.block = b]
  <2>1. SeekStep(next, t * SectorSize, s) = u
    BY <1>1, <1>2, <1>3, <1>4 DEF SeekStep
  <2>2. b = BlockAt(c, (i + 1) + 1) /\ b \in LinkValues
    BY <1>1, <1>2 DEF Chained
  <2>3. x \in Nat /\ InBlock(x, i + 1)
    <3>1. /\ (i + 1) * SectorSize = i * SectorSize + SectorSize /\ i * SectorSize \in Nat
          /\ SectorSize \in Nat
      BY <1>1, Products, FatAssumption
    <3> QED
      BY <1>1, <3>1 DEF InBlock
  <2> HIDE DEF x, b
  <2>4. u \in FileRec /\ u.offset = x /\ u.block = b /\ u.slot = s.slot
    BY <1>1, <2>2, <2>3 DEF FileRec
  <2> HIDE DEF u
  <2> QED
    BY <1>1, <2>1, <2>2, <2>3, <2>4 DEF SeekAt
<1>5. ASSUME i = t PROVE SeekStep(next, t * SectorSize, s) = s
  <2>1. i >= t
    BY <1>1, <1>5
  <2> QED
    BY <1>3, <2>1 DEF SeekStep
<1> QED
  BY <1>4, <1>5 DEF Seeks

\* A seek leaves the file in the block of its offset, and never meets a bad link.
Sought(a, slot, c) ==
  /\ a.result # BROKEN /\ a.file \in FileRec /\ a.file.slot = slot
  /\ Standing(a.file.offset, a.file.block, c)

LEMMA SeekIs ==
  ASSUME NEW file \in FileRec, NEW c \in Lines(Data), fat.next \in [Data -> LinkValues],
         Chained(fat.next, dir[file.slot].start, c), Len(c) = dir[file.slot].length,
         Standing(file.offset, file.block, c), NEW length \in Nat, NEW offset \in Nat
  PROVE  Sought(port_CARDSeek(file, length, offset), file.slot, c)
<1> DEFINE entry == dir[file.slot]
           back == IF offset < file.offset THEN [file EXCEPT !.offset = 0, !.block = entry.start] ELSE file
           t == offset \div SectorSize
           target == t * SectorSize
           W(w) == w = [k \in Nat |-> IF k = 0 THEN back ELSE SeekStep(fat.next, target, w[k - 1])]
           walk == CHOOSE w : W(w)
           end == walk[cBlock]
           size == entry.length * SectorSize
           a == port_CARDSeek(file, length, offset)
           G == [s \in FileRec |-> SeekStep(fat.next, target, s)]
<1>1. /\ file.slot \in Slots /\ file.offset \in Nat /\ file.block \in LinkValues /\ SectorSize \in Nat
      /\ SectorSize > 0 /\ Len(c) \in Nat /\ entry.length = Len(c) /\ entry.start = BlockAt(c, 1)
  BY BlockFacts, FatAssumption DEF FileRec, Chained
<1>2. t \in Nat /\ InBlock(offset, t) /\ SeekTarget(offset) = target
  BY BlockNumber
<1>3. a = CASE file.block \notin Data \/ cBlock * SectorSize <= file.offset -> [file |-> file, result |-> FATAL]
            [] file.block \in Data /\ (size <= offset \/ size < offset + length) ->
                 [file |-> file, result |-> LIMIT]
            [] OTHER -> IF end.block \notin Data THEN [file |-> end, result |-> BROKEN]
                        ELSE [file |-> [end EXCEPT !.offset = offset], result |-> READY]
  BY <1>2 DEF port_CARDSeek, SeekStep
<1> HIDE DEF end, a, t
<1>4. CASE file.block \notin Data \/ cBlock * SectorSize <= file.offset
  <2>1. a = [file |-> file, result |-> FATAL] \/ a = [file |-> file, result |-> LIMIT]
    BY <1>3, <1>4
  <2> QED
    BY <2>1 DEF Sought, a, FATAL, LIMIT, BROKEN
<1>5. CASE ~(file.block \notin Data \/ cBlock * SectorSize <= file.offset) /\ (size <= offset \/ size < offset + length)
  <2>1. a = [file |-> file, result |-> LIMIT]
    BY <1>3, <1>5
  <2> QED
    BY <2>1 DEF Sought, a, LIMIT, BROKEN
<1>6. CASE ~(file.block \notin Data \/ cBlock * SectorSize <= file.offset) /\ ~(size <= offset \/ size < offset + length)
  <2>1. /\ file.block \in Data /\ ~(size <= offset)
        /\ a = IF end.block \notin Data THEN [file |-> end, result |-> BROKEN]
               ELSE [file |-> [end EXCEPT !.offset = offset], result |-> READY]
    BY <1>3, <1>6
  <2>2. t < Len(c)
    <3> SUFFICES ASSUME Len(c) <= t PROVE FALSE
      BY <1>1, <1>2
    <3>1. Len(c) * SectorSize <= t * SectorSize /\ Len(c) * SectorSize \in Nat /\ t * SectorSize \in Nat
      BY <1>1, <1>2, Products
    <3>2. t * SectorSize <= offset
      BY <1>2 DEF InBlock
    <3> QED
      BY <1>1, <2>1, <3>1, <3>2
  <2>3. PICK i0 \in 0 .. t : SeekAt(back, c, file.slot, i0)
    <3>1. CASE offset < file.offset
      <4> DEFINE b == entry.start
                 u == [file EXCEPT !.offset = 0, !.block = b]
      <4>1. b \in LinkValues
        BY <1>1, BlockFacts DEF LinkValues
      <4>2. back = u
        BY <3>1
      <4> HIDE DEF b, back
      <4>3. u \in FileRec /\ u.slot = file.slot /\ u.offset = 0 /\ u.block = b
        BY <4>1 DEF FileRec
      <4> HIDE DEF u
      <4>4. InBlock(0, 0) /\ BlockAt(c, 0 + 1) = b /\ 0 \in 0 .. t
        BY <1>1, <1>2 DEF InBlock, b
      <4> QED
        BY <4>2, <4>3, <4>4 DEF SeekAt
    <3>2. CASE ~(offset < file.offset)
      <4> DEFINE i == file.offset \div SectorSize
      <4>1. i \in Nat /\ InBlock(file.offset, i)
        BY <1>1, BlockNumber
      <4>2. file.block = BlockAt(c, i + 1)
        BY DEF Standing
      <4>3. back = file
        BY <3>2
      <4> HIDE DEF i, back
      <4>4. i <= t
        <5>1. i * SectorSize <= file.offset
          BY <4>1 DEF InBlock
        <5>2. i * SectorSize \in Nat
          BY <4>1, Products
        <5>3. offset >= i * SectorSize
          BY <1>1, <3>2, <5>1, <5>2
        <5>4. t >= i
          BY <1>2, <4>1, <5>3, InBlockIs
        <5> QED
          BY <1>2, <4>1, <5>4
      <4> QED
        BY <1>2, <4>1, <4>2, <4>3, <4>4 DEF SeekAt
    <3> QED
      BY <3>1, <3>2
  <2> HIDE DEF back
  <2>4. back \in FileRec /\ G \in [FileRec -> FileRec]
    <3>1. G \in [FileRec -> FileRec]
      BY SeekStepTyped
    <3> QED
      BY <2>3, <3>1 DEF SeekAt
  <2>5. \A s \in FileRec : G[s] = SeekStep(fat.next, target, s)
    OBVIOUS
  <2> HIDE DEF G, target
  <2>6. PICK w \in [Nat -> FileRec] : Iterated(w, G, back)
    BY <2>4, Iterates
  <2>7. W(w)
    <3>1. ASSUME NEW k \in Nat PROVE w[k] = IF k = 0 THEN back ELSE SeekStep(fat.next, target, w[k - 1])
      <4>1. CASE k = 0
        BY <2>6, <4>1 DEF Iterated
      <4>2. CASE k # 0
        <5>1. k - 1 \in Nat /\ (k - 1) + 1 = k
          BY <4>2
        <5>2. w[k] = G[w[k - 1]] /\ w[k - 1] \in FileRec
          BY <2>6, <5>1 DEF Iterated
        <5> QED
          BY <2>5, <4>2, <5>2
      <4> QED
        BY <4>1, <4>2
    <3>2. w = [k \in Nat |-> w[k]]
      OBVIOUS
    <3> QED
      BY <3>1, <3>2
  <2>8. W(walk)
    <3> HIDE DEF W
    <3> QED
      BY <2>7
  <2> HIDE DEF walk
  <2>9. walk[0] = back
    BY <2>8
  <2>10. ASSUME NEW k \in Nat PROVE walk[k + 1] = SeekStep(fat.next, target, walk[k])
    <3>1. k + 1 \in Nat /\ k + 1 # 0 /\ (k + 1) - 1 = k
      OBVIOUS
    <3> QED
      BY <2>8, <3>1
  <2> HIDE DEF W
  <2> DEFINE at(k) == IF i0 + k < t THEN i0 + k ELSE t
             T == {k \in Nat : SeekAt(walk[k], c, file.slot, at(k))}
  <2>11. 0 \in T
    <3>1. at(0) = i0
      BY <1>2
    <3> QED
      BY <2>3, <2>9, <3>1
  <2>12. ASSUME NEW k \in Nat, k \in T PROVE k + 1 \in T
    <3> DEFINE i == at(k)
    <3>1. /\ i \in 0 .. t /\ (i < t => at(k + 1) = i + 1) /\ (i = t => at(k + 1) = t)
          /\ (i < t \/ i = t) /\ k + 1 \in Nat
      BY <1>2
    <3>2. SeekAt(walk[k], c, file.slot, i)
      BY <2>12
    <3> HIDE DEF i, at
    <3> DEFINE s == walk[k]
               next == fat.next
               start == dir[file.slot].start
    <3>3. next \in [Data -> LinkValues] /\ Chained(next, start, c) /\ SeekAt(s, c, file.slot, i)
      BY <3>2
    <3> HIDE DEF s, next, start
    <3>4. Seeks(next, t, s, c, file.slot, i)
      BY <1>2, <2>2, <3>1, <3>3, SeekStepIs
    <3>5. walk[k + 1] = SeekStep(next, t * SectorSize, s)
      BY <2>10 DEF target, s, next
    <3>6. SeekAt(walk[k + 1], c, file.slot, at(k + 1))
      BY <3>1, <3>3, <3>4, <3>5 DEF Seeks
    <3> QED
      BY <3>1, <3>6
  <2>13. cBlock \in T
    <3> HIDE DEF T
    <3> QED
      BY <2>11, <2>12, SetInduction, DataFacts
  <2>14. SeekAt(end, c, file.slot, t)
    <3>1. at(cBlock) = t
      <4>1. Len(c) <= cBlock /\ cBlock \in Nat
        BY BlockFacts, DataFacts DEF System
      <4> QED
        BY <1>1, <1>2, <2>2, <4>1
    <3> QED
      BY <2>13, <3>1 DEF end
  <2> HIDE DEF T
  <2>15. end \in FileRec /\ end.slot = file.slot /\ end.block = BlockAt(c, t + 1)
    BY <2>14 DEF SeekAt
  <2>16. end.block \in Data
    <3>1. t + 1 \in 1 .. Len(c)
      BY <1>1, <1>2, <2>2
    <3> QED
      BY <2>15, <3>1, BlockFacts
  <2> DEFINE new == [end EXCEPT !.offset = offset]
  <2>17. new \in FileRec /\ new.slot = file.slot /\ new.block = end.block /\ new.offset = offset
    BY <2>15 DEF FileRec
  <2>18. a = [file |-> new, result |-> READY]
    BY <2>1, <2>16
  <2> HIDE DEF new
  <2>19. Standing(offset, end.block, c)
    BY <2>15, <2>16 DEF Standing, t
  <2>20. a.result # BROKEN
    BY <2>18 DEF READY, BROKEN
  <2> QED
    BY <2>17, <2>18, <2>19, <2>20 DEF Sought, a
<1> QED
  BY <1>4, <1>5, <1>6

-----------------------------------------------------------------------------
(* The inductive invariant. *)

Entries ==
  [game : Games \cup {255}, name : {<<>>} \cup Names, public : BOOLEAN, start : Data \cup {End},
   length : Nat]

IsFile(e) == e.game \in Games /\ e.name \in Names /\ Len(e.name) <= NameMax /\ e.public = (e.game = Game)

\* An entry is empty or a file, and no two files have the same game and name.
DirOk(d) ==
  /\ d \in [Slots -> Entries]
  /\ \A s \in Slots : d[s] = NoEntry \/ IsFile(d[s])
  /\ \A s, t \in Slots : s # t /\ d[s].game = d[t].game /\ d[s].name = d[t].name => d[s] = NoEntry

\* The open file exists, and stands where its offset is.
InfoOk(i, d, chain) ==
  \/ i = Closed
  \/ i \in FileRec /\ d[i.slot] # NoEntry /\ Standing(i.offset, i.block, chain[i.slot])

FatIInv ==
  /\ TableOk(fat) /\ DirOk(dir) /\ result # BROKEN
  /\ \E chain : Holding(fat.next, dir, chain) /\ InfoOk(info, dir, chain)

LEMMA EntryFacts ==
  /\ NoEntry \in Entries /\ NoEntry.game = 255 /\ NoEntry.start = End /\ NoEntry.length = 0
  /\ NoEntry.game \notin Games /\ NoEntry.name = <<>> /\ Closed.slot \notin Slots
BY FatAssumption DEF NoEntry, Entries, Closed

LEMMA TableNext ==
  ASSUME NEW f, TableOk(f) PROVE f.next \in [Data -> LinkValues]
BY DEF TableOk, TableTyped, TableRec

\* What a look-up finds.
Finds(d, name, diskNone, s) ==
  \/ s = NOFILE /\ \A t \in Slots : d[t] # NoEntry /\ (diskNone \/ d[t].game = Game) => d[t].name # name
  \/ s \in Slots /\ IsFile(d[s]) /\ (diskNone \/ d[s].game = Game) /\ d[s].name = name

LEMMA FindsIs ==
  ASSUME NEW d, DirOk(d), NEW name \in Names, NEW diskNone \in BOOLEAN
  PROVE  Finds(d, name, diskNone, port_CARDGetFileNo(d, name, diskNone))
<1> DEFINE found == {s \in Slots : /\ port_CARDAccess(d[s], diskNone) = READY
                                   /\ port_CARDCompareFileName(d[s].name, name)}
           x == port_CARDGetFileNo(d, name, diskNone)
<1>1. x = IF found = {} THEN NOFILE ELSE CHOOSE s \in found : \A t \in found : s <= t
  BY DEF port_CARDGetFileNo
<1>2. ASSUME NEW s \in Slots
      PROVE  s \in found <=> IsFile(d[s]) /\ (diskNone \/ d[s].game = Game) /\ d[s].name = name
  <2>1. port_CARDAccess(d[s], diskNone) = READY <=> d[s].game # 255 /\ (diskNone \/ d[s].game = Game)
    BY DEF port_CARDAccess, READY, NOFILE, NOPERM
  <2>2. CASE d[s] = NoEntry
    BY <2>1, <2>2, EntryFacts DEF IsFile
  <2>3. CASE IsFile(d[s])
    <3>1. /\ d[s].name \in Seq(Nat \ {0}) /\ name \in Seq(Nat \ {0}) /\ Len(d[s].name) <= NameMax
          /\ d[s].game # 255
      BY <2>3, FatAssumption DEF IsFile
    <3>2. port_CARDCompareFileName(d[s].name, name) <=> d[s].name = name
      BY <3>1, CompareIs
    <3> QED
      BY <2>1, <2>3, <3>1, <3>2
  <2> QED
    BY <2>2, <2>3 DEF DirOk
<1>3. found \in SUBSET Nat
  BY FatAssumption
<1> HIDE DEF found, x
<1>4. CASE found = {}
  <2>1. x = NOFILE
    BY <1>1, <1>4
  <2>2. \A t \in Slots : d[t] # NoEntry /\ (diskNone \/ d[t].game = Game) => d[t].name # name
    BY <1>2, <1>4 DEF DirOk
  <2> QED
    BY <2>1, <2>2 DEF Finds, x
<1>5. CASE found # {}
  <2>1. \E s \in found : \A t \in found : s <= t
    BY <1>3, <1>5, Least
  <2>2. x \in found
    BY <1>1, <1>5, <2>1
  <2>3. x \in Slots
    BY <2>2 DEF found
  <2>4. IsFile(d[x]) /\ (diskNone \/ d[x].game = Game) /\ d[x].name = name
    BY <1>2, <2>2, <2>3
  <2> QED
    BY <2>3, <2>4 DEF Finds, x
<1> QED
  BY <1>4, <1>5

LEMMA FatBegins == FatInit => FatIInv
<1> SUFFICES ASSUME FatInit PROVE FatIInv
  OBVIOUS
<1> DEFINE next == [b \in Data |-> Avail]
           f == [code |-> 0, free |-> cBlock - System, last |-> System - 1, sums |-> <<0, 0>>, next |-> next]
           chain == [s \in Slots |-> <<>>]
<1>1. next \in [Data -> LinkValues] /\ FreeSet(next) = Data /\ \A b \in Data : next[b] = Avail
  BY DEF LinkValues, FreeSet
<1> HIDE DEF next
<1>2. f \in TableRec(f.sums) /\ f.next = next /\ f.free = cBlock - System
  <2>1. /\ 0 \in 0 .. Word - 1 /\ cBlock - System \in Nat /\ System - 1 \in Lasts
    BY DataFacts, FatAssumption DEF Lasts, System
  <2> QED
    BY <1>1, <2>1 DEF TableRec
<1>3. fat = Updated(f)
  BY DEF FatInit, next
<1> HIDE DEF f
<1>4. TableTyped(f)
  BY <1>2 DEF TableTyped
<1>5. TableTyped(fat) /\ fat.sums = port_CARDCheckSum(fat) /\ fat.free = f.free /\ fat.next = next
  BY <1>2, <1>3, <1>4, UpdatedIs
<1>6. FreeBlocks(fat) = fat.free
  <2>1. FreeBlocks(fat) = Cardinality(FreeSet(next))
    BY <1>5 DEF FreeBlocks, FreeSet
  <2> QED
    BY <1>1, <1>2, <1>5, <2>1, DataFacts
<1>7. TableOk(fat)
  BY <1>5, <1>6 DEF TableOk, Sound
<1>8. DirOk(dir)
  BY EntryFacts DEF FatInit, DirOk
<1>9. chain \in [Slots -> Lines(Data)] /\ \A s \in Slots : chain[s] = <<>> /\ dir[s] = NoEntry
  BY NoBlocks DEF FatInit
<1> HIDE DEF chain
<1>10. Holding(fat.next, dir, chain)
  <2>1. \A s \in Slots : Chained(fat.next, dir[s].start, chain[s]) /\ Len(chain[s]) = dir[s].length
    BY <1>9, NoBlocks, EntryFacts
  <2>2. \A s, t \in Slots : s # t => ToSet(chain[s]) \cap ToSet(chain[t]) = {}
    BY <1>9, NoBlocks
  <2>3. \A b \in Data : fat.next[b] # Avail <=> \E s \in Slots : b \in ToSet(chain[s])
    BY <1>1, <1>5, <1>9, NoBlocks
  <2> QED
    BY <1>9, <2>1, <2>2, <2>3 DEF Holding
<1>11. InfoOk(info, dir, chain) /\ result # BROKEN
  BY DEF InfoOk, FatInit, READY, BROKEN
<1> QED
  BY <1>7, <1>8, <1>10, <1>11 DEF FatIInv

LEMMA CreateKeeps ==
  ASSUME FatIInv, NEW slot \in Slots, NEW game \in Games, NEW name \in Names, NEW n \in FileSizes,
         CreateFile(slot, game, name, game = Game, n)
  PROVE  FatIInv'
<1> DEFINE a == Allocated(fat, n)
           public == game = Game
<1>1. /\ dir[slot] = NoEntry /\ Len(name) <= NameMax
      /\ \A s \in Slots : dir[s].game # game \/ dir[s].name # name
      /\ fat' = a.fat /\ result' = a.result /\ info' = info
      /\ dir' = IF a.result # READY THEN dir
                ELSE [dir EXCEPT ![slot] = [game |-> game, name |-> name, public |-> public,
                                            start |-> a.start, length |-> n]]
  BY DEF CreateFile
<1>2. n \in Nat /\ public \in BOOLEAN
  BY FatAssumption
<1>3. PICK chain : Holding(fat.next, dir, chain) /\ InfoOk(info, dir, chain)
  BY DEF FatIInv
<1>4. TableOk(fat) /\ DirOk(dir)
  BY DEF FatIInv
<1>5. Given(fat, n, a)
  BY <1>2, <1>4, AllocatedIs
<1> HIDE DEF a, public
<1>6. CASE fat.free < n /\ a.fat = fat /\ a.result = INSSPACE
  <2>1. a.result # READY /\ a.result # BROKEN
    BY <1>6 DEF INSSPACE, READY, BROKEN
  <2>2. fat' = fat /\ dir' = dir /\ info' = info /\ result' # BROKEN
    BY <1>1, <1>6, <2>1
  <2> QED
    BY <1>3, <1>4, <2>2 DEF FatIInv
<1>7. ASSUME a.result = READY, TableOk(a.fat), NEW got \in Lines(Data), Len(got) = n,
             ToSet(got) \subseteq FreeSet(fat.next), a.fat.next = Linked(fat.next, got),
             a.start = BlockAt(got, 1)
      PROVE  FatIInv'
  <2> DEFINE e == [game |-> game, name |-> name, public |-> public, start |-> a.start, length |-> n]
             d == [dir EXCEPT ![slot] = e]
             chain2 == [chain EXCEPT ![slot] = got]
  <2>1. dir' = d
    BY <1>1, <1>7
  <2>2. e \in Entries /\ IsFile(e) /\ e.start = BlockAt(got, 1) /\ e.length = n /\ e.game = game /\ e.name = name
    <3>1. a.start \in Data \cup {End}
      BY <1>7, BlockFacts
    <3> QED
      BY <1>1, <1>2, <1>7, <3>1 DEF Entries, IsFile, public
  <2> HIDE DEF e
  <2>3. dir \in [Slots -> Entries] /\ d \in [Slots -> Entries] /\ d[slot] = e /\ \A s \in Slots : s # slot => d[s] = dir[s]
    BY <1>4, <2>2 DEF DirOk
  <2> HIDE DEF d
  <2>4. DirOk(d)
    <3>1. \A s \in Slots : d[s] = NoEntry \/ IsFile(d[s])
      BY <1>4, <2>2, <2>3 DEF DirOk
    <3>2. ASSUME NEW s \in Slots, NEW t \in Slots, s # t, d[s].game = d[t].game, d[s].name = d[t].name
          PROVE  d[s] = NoEntry
      <4>1. s # slot
        <5> SUFFICES ASSUME s = slot PROVE FALSE
          OBVIOUS
        <5>1. d[t] = dir[t] /\ d[s] = e
          BY <2>3, <3>2
        <5> QED
          BY <1>1, <2>2, <3>2, <5>1
      <4>2. t # slot
        <5> SUFFICES ASSUME t = slot PROVE FALSE
          OBVIOUS
        <5>1. d[s] = dir[s] /\ d[t] = e
          BY <2>3, <3>2
        <5> QED
          BY <1>1, <2>2, <3>2, <5>1
      <4> QED
        BY <1>4, <2>3, <3>2, <4>1, <4>2 DEF DirOk
    <3> QED
      BY <2>3, <3>1, <3>2 DEF DirOk
  <2>5. chain[slot] = <<>>
    <3>1. Len(chain[slot]) = 0 /\ chain[slot] \in Lines(Data)
      BY <1>1, <1>3, EntryFacts DEF Holding
    <3> QED
      BY <3>1, BlockFacts
  <2>6. Holding(Linked(fat.next, got), d, chain2)
    <3>1. d[slot].start = BlockAt(got, 1) /\ d[slot].length = Len(got)
      BY <1>7, <2>2, <2>3
    <3>2. fat.next \in [Data -> LinkValues]
      BY <1>4, TableNext
    <3> QED
      BY <1>3, <1>7, <2>3, <2>5, <3>1, <3>2, HoldingMore
  <2>7. InfoOk(info, d, chain2)
    <3>1. CASE info = Closed
      BY <3>1 DEF InfoOk
    <3>2. CASE info \in FileRec /\ dir[info.slot] # NoEntry /\ Standing(info.offset, info.block, chain[info.slot])
      <4>1. info.slot \in Slots /\ info.slot # slot
        BY <1>1, <3>2 DEF FileRec
      <4>2. d[info.slot] = dir[info.slot] /\ chain2[info.slot] = chain[info.slot]
        BY <1>3, <2>3, <4>1 DEF Holding
      <4> QED
        BY <3>2, <4>2 DEF InfoOk
    <3> QED
      BY <1>3, <3>1, <3>2 DEF InfoOk
  <2>8. result' # BROKEN
    BY <1>1, <1>7 DEF READY, BROKEN
  <2> HIDE DEF chain2
  <2>9. TableOk(fat)' /\ Holding(fat.next, dir, chain2)' /\ InfoOk(info, dir, chain2)' /\ DirOk(dir)'
    BY <1>1, <1>7, <2>1, <2>4, <2>6, <2>7
  <2> QED
    BY <2>8, <2>9 DEF FatIInv
<1> QED
  BY <1>5, <1>6, <1>7 DEF Given

LEMMA DeleteKeeps ==
  ASSUME FatIInv, NEW slot \in Slots, DeleteFile(slot)
  PROVE  FatIInv'
<1> DEFINE block == dir[slot].start
           a == Freed(fat, block)
           d == [dir EXCEPT ![slot] = NoEntry]
<1>1. dir[slot] # NoEntry /\ slot # info.slot /\ fat' = a.fat /\ result' = a.result /\ dir' = d /\ info' = info
  BY DEF DeleteFile
<1>2. PICK chain : Holding(fat.next, dir, chain) /\ InfoOk(info, dir, chain)
  BY DEF FatIInv
<1>3. TableOk(fat) /\ DirOk(dir) /\ fat.next \in [Data -> LinkValues]
  BY TableNext DEF FatIInv
<1> DEFINE c == chain[slot]
           chain2 == [chain EXCEPT ![slot] = <<>>]
<1>4. c \in Lines(Data) /\ Chained(fat.next, block, c)
  BY <1>2 DEF Holding
<1> HIDE DEF a
<1>5. Taken(fat, c, a)
  <2> HIDE DEF c, block
  <2> QED
    BY <1>3, <1>4, FreedIs DEF a
<1>6. d \in [Slots -> Entries] /\ d[slot] = NoEntry /\ \A s \in Slots : s # slot => d[s] = dir[s]
  BY <1>3, EntryFacts DEF DirOk
<1> HIDE DEF d
<1>7. DirOk(d)
  <2>1. \A s \in Slots : d[s] = NoEntry \/ IsFile(d[s])
    BY <1>3, <1>6 DEF DirOk
  <2>2. ASSUME NEW s \in Slots, NEW t \in Slots, s # t, d[s].game = d[t].game, d[s].name = d[t].name
        PROVE  d[s] = NoEntry
    <3>1. CASE s = slot
      BY <1>6, <3>1
    <3>2. CASE s # slot /\ t = slot
      <4>1. d[s].game \notin Games
        BY <1>6, <2>2, <3>2, EntryFacts
      <4> QED
        BY <2>1, <4>1 DEF IsFile
    <3>3. CASE s # slot /\ t # slot
      BY <1>3, <1>6, <2>2, <3>3 DEF DirOk
    <3> QED
      BY <3>1, <3>2, <3>3
  <2> QED
    BY <1>6, <2>1, <2>2 DEF DirOk
<1>8. Holding(Unlinked(fat.next, chain[slot], Len(chain[slot])), d, chain2)
  <2> DEFINE next == fat.next
  <2>1. /\ next \in [Data -> LinkValues] /\ Holding(next, dir, chain)
        /\ d[slot].start = End /\ d[slot].length = 0 /\ \A s \in Slots : s # slot => d[s] = dir[s]
    BY <1>2, <1>3, <1>6, EntryFacts
  <2> HIDE DEF next
  <2>2. Cleared(next, d, chain, slot)
    BY <2>1, HoldingLess
  <2> QED
    BY <2>2 DEF Cleared, next
<1>9. InfoOk(info, d, chain2)
  <2>1. CASE info = Closed
    BY <2>1 DEF InfoOk
  <2>2. CASE info \in FileRec /\ dir[info.slot] # NoEntry /\ Standing(info.offset, info.block, chain[info.slot])
    <3>1. info.slot \in Slots /\ info.slot # slot
      BY <1>1, <2>2 DEF FileRec
    <3>2. d[info.slot] = dir[info.slot] /\ chain2[info.slot] = chain[info.slot]
      BY <1>2, <1>6, <3>1 DEF Holding
    <3> QED
      BY <2>2, <3>2 DEF InfoOk
  <2> QED
    BY <1>2, <2>1, <2>2 DEF InfoOk
<1> HIDE DEF chain2
<1>10. result' # BROKEN /\ TableOk(fat)'
  BY <1>1, <1>5 DEF Taken, READY, BROKEN
<1>11. fat'.next = Unlinked(fat.next, chain[slot], Len(chain[slot]))
  BY <1>1, <1>5 DEF Taken
<1>12. Holding(fat.next, dir, chain2)' /\ InfoOk(info, dir, chain2)' /\ DirOk(dir)'
  BY <1>1, <1>7, <1>8, <1>9, <1>11
<1> QED
  BY <1>10, <1>12 DEF FatIInv

LEMMA OpenKeeps ==
  ASSUME FatIInv, NEW name \in Names, NEW diskNone \in BOOLEAN, OpenFile(name, diskNone)
  PROVE  FatIInv'
<1> DEFINE slot == port_CARDGetFileNo(dir, name, diskNone)
           block == dir[slot].start
           i == [slot |-> slot, offset |-> 0, block |-> block]
<1>1. slot # NOFILE /\ info' = i /\ result' = READY /\ fat' = fat /\ dir' = dir
  BY DEF OpenFile
<1>2. PICK chain : Holding(fat.next, dir, chain) /\ InfoOk(info, dir, chain)
  BY DEF FatIInv
<1>3. TableOk(fat) /\ DirOk(dir)
  BY DEF FatIInv
<1>4. Finds(dir, name, diskNone, slot)
  BY <1>3, FindsIs
<1> HIDE DEF slot
<1>5. slot \in Slots /\ IsFile(dir[slot])
  BY <1>1, <1>4 DEF Finds
<1>6. block = BlockAt(chain[slot], 1) /\ chain[slot] \in Lines(Data)
  BY <1>2, <1>5 DEF Holding, Chained
<1>7. block \in LinkValues
  BY <1>6, BlockFacts DEF LinkValues
<1>8. dir[slot] # NoEntry
  BY <1>5, EntryFacts DEF IsFile
<1> HIDE DEF block
<1>9. i \in FileRec /\ i.slot = slot /\ i.offset = 0 /\ i.block = block
  BY <1>5, <1>7 DEF FileRec
<1> HIDE DEF i
<1>10. Standing(0, block, chain[slot])
  <2> DEFINE c == chain[slot]
  <2>1. c \in Lines(Data) /\ block = BlockAt(c, 1)
    BY <1>6
  <2> HIDE DEF c
  <2>2. (0 \div SectorSize) + 1 = 1
    <3>1. InBlock(0, 0)
      BY FatAssumption DEF InBlock
    <3>2. (0 \div SectorSize) = 0
      BY <3>1, InBlockIs
    <3> QED
      BY <3>2
  <2>3. c # <<>> => block \in Data
    <3> SUFFICES ASSUME c # <<>> PROVE block \in Data
      OBVIOUS
    <3>1. 1 \in 1 .. Len(c)
      BY <2>1, BlockFacts
    <3> QED
      BY <2>1, <3>1, BlockFacts
  <2> QED
    BY <2>1, <2>2, <2>3 DEF Standing, c
<1>11. InfoOk(info', dir, chain)
  BY <1>1, <1>8, <1>9, <1>10 DEF InfoOk
<1>12. result' # BROKEN
  BY <1>1 DEF READY, BROKEN
<1>13. TableOk(fat)' /\ Holding(fat.next, dir, chain)' /\ InfoOk(info, dir, chain)' /\ DirOk(dir)'
  BY <1>1, <1>2, <1>3, <1>11
<1> QED
  BY <1>12, <1>13 DEF FatIInv

LEMMA CloseKeeps ==
  ASSUME FatIInv, CloseFile
  PROVE  FatIInv'
<1>1. PICK chain : Holding(fat.next, dir, chain)
  BY DEF FatIInv
<1>2. fat' = fat /\ dir' = dir /\ result' = result /\ info' = Closed
  BY DEF CloseFile
<1>3. InfoOk(info', dir, chain)
  BY <1>2 DEF InfoOk
<1> QED
  BY <1>1, <1>2, <1>3 DEF FatIInv

LEMMA SeekKeeps ==
  ASSUME FatIInv, NEW length \in Nat, NEW offset \in Nat, SeekFile(length, offset)
  PROVE  FatIInv'
<1> DEFINE a == port_CARDSeek(info, length, offset)
<1>1. info # Closed /\ info' = a.file /\ result' = a.result /\ fat' = fat /\ dir' = dir
  BY DEF SeekFile
<1>2. PICK chain : Holding(fat.next, dir, chain) /\ InfoOk(info, dir, chain)
  BY DEF FatIInv
<1>3. TableOk(fat) /\ DirOk(dir) /\ fat.next \in [Data -> LinkValues]
  BY TableNext DEF FatIInv
<1>4. info \in FileRec /\ dir[info.slot] # NoEntry /\ Standing(info.offset, info.block, chain[info.slot])
  BY <1>1, <1>2 DEF InfoOk
<1> DEFINE c == chain[info.slot]
<1>5. /\ info.slot \in Slots /\ c \in Lines(Data) /\ Chained(fat.next, dir[info.slot].start, c)
      /\ Len(c) = dir[info.slot].length /\ Standing(info.offset, info.block, c)
  BY <1>2, <1>4 DEF FileRec, Holding
<1> HIDE DEF c
<1>6. Sought(a, info.slot, c)
  BY <1>3, <1>4, <1>5, SeekIs
<1> HIDE DEF a
<1>7. InfoOk(a.file, dir, chain) /\ a.result # BROKEN
  BY <1>4, <1>6 DEF Sought, InfoOk, c
<1> QED
  BY <1>1, <1>2, <1>3, <1>7 DEF FatIInv

LEMMA FatKept == FatIInv /\ [FatNext]_fatVars => FatIInv'
<1> SUFFICES ASSUME FatIInv, [FatNext]_fatVars PROVE FatIInv'
  OBVIOUS
<1>1. ASSUME NEW slot \in Slots, NEW game \in Games, NEW name \in Names, NEW n \in FileSizes,
             CreateFile(slot, game, name, game = Game, n)
      PROVE  FatIInv'
  BY <1>1, CreateKeeps
<1>2. ASSUME NEW slot \in Slots, DeleteFile(slot) PROVE FatIInv'
  BY <1>2, DeleteKeeps
<1>3. ASSUME NEW name \in Names, NEW diskNone \in BOOLEAN, OpenFile(name, diskNone) PROVE FatIInv'
  BY <1>3, OpenKeeps
<1>4. CASE CloseFile
  BY <1>4, CloseKeeps
<1>5. ASSUME NEW length \in 0 .. 1, NEW offset \in 0 .. (cBlock - System) * SectorSize, SeekFile(length, offset)
      PROVE  FatIInv'
  <2>1. length \in Nat /\ offset \in Nat
    BY <1>5
  <2> QED
    BY <1>5, <2>1, SeekKeeps
<1>6. CASE UNCHANGED fatVars
  BY <1>6 DEF fatVars, FatIInv
<1> QED
  BY <1>1, <1>2, <1>3, <1>4, <1>5, <1>6 DEF FatNext

LEMMA FatShows == FatIInv => FilesKeepBlocks
<1> SUFFICES ASSUME FatIInv PROVE FilesKeepBlocks
  OBVIOUS
<1>1. PICK chain : Holding(fat.next, dir, chain) /\ InfoOk(info, dir, chain)
  BY DEF FatIInv
<1>2. TableOk(fat) /\ DirOk(dir) /\ result # BROKEN /\ Sound(fat)
  BY DEF FatIInv, TableOk
<1>3. ASSUME NEW s \in Slots
      PROVE  /\ chain[s] \in Lines(Data) /\ Chained(fat.next, dir[s].start, chain[s])
             /\ Len(chain[s]) = dir[s].length /\ ChainOf(dir[s].start) = chain[s]
  <2>1. chain[s] \in Lines(Data) /\ Chained(fat.next, dir[s].start, chain[s]) /\ Len(chain[s]) = dir[s].length
    BY <1>1 DEF Holding
  <2> DEFINE next == fat.next
             start == dir[s].start
             c == chain[s]
  <2>2. c \in Lines(Data) /\ Chained(next, start, c)
    BY <2>1
  <2> HIDE DEF next, start, c
  <2>3. ChainFrom(next, start) = c
    BY <2>2, ChainIs
  <2> QED
    BY <2>1, <2>3 DEF ChainOf, next, start, c
<1>4. Files \subseteq Slots
  BY DEF Files
<1>5. ASSUME NEW s \in Files
      PROVE  LET c == ChainOf(dir[s].start)
             IN Len(c) = dir[s].length /\ IsInjective(c) /\ (c # <<>> => fat.next[Last(c)] = End)
  <2> DEFINE c == chain[s]
  <2>1. c \in Lines(Data) /\ Chained(fat.next, dir[s].start, c) /\ Len(c) = dir[s].length /\ ChainOf(dir[s].start) = c
    BY <1>3, <1>4
  <2> HIDE DEF c
  <2>2. IsInjective(c)
    BY <2>1 DEF Lines
  <2>3. ASSUME c # <<>> PROVE fat.next[Last(c)] = End
    <3>1. Len(c) \in 1 .. Len(c) /\ Last(c) = c[Len(c)]
      BY <2>1, <2>3, BlockFacts DEF Last
    <3>2. fat.next[c[Len(c)]] = BlockAt(c, Len(c) + 1)
      BY <2>1, <3>1 DEF Chained
    <3>3. BlockAt(c, Len(c) + 1) = End
      BY <2>1, BlockFacts
    <3> QED
      BY <3>1, <3>2, <3>3
  <2> QED
    BY <2>1, <2>2, <2>3
<1>6. ASSUME NEW s \in Files, NEW t \in Files, s # t
      PROVE  ToSet(ChainOf(dir[s].start)) \cap ToSet(ChainOf(dir[t].start)) = {}
  BY <1>1, <1>3, <1>4, <1>6 DEF Holding
<1>7. {b \in Data : fat.next[b] # Avail} = UNION {ToSet(ChainOf(dir[s].start)) : s \in Files}
  <2>1. \A s \in Slots : ToSet(chain[s]) # {} => s \in Files
    <3> SUFFICES ASSUME NEW s \in Slots, s \notin Files PROVE ToSet(chain[s]) = {}
      OBVIOUS
    <3>1. Len(chain[s]) = 0
      BY <1>3, EntryFacts DEF Files
    <3>2. chain[s] = <<>>
      BY <1>3, <3>1, BlockFacts
    <3> QED
      BY <3>2, NoBlocks
  <2>2. UNION {ToSet(ChainOf(dir[s].start)) : s \in Files} = UNION {ToSet(chain[s]) : s \in Files}
    BY <1>3, <1>4
  <2>3. \A s \in Slots : ToSet(chain[s]) \subseteq Data
    BY <1>3, BlockFacts
  <2>4. \A b \in Data : fat.next[b] # Avail <=> \E s \in Slots : b \in ToSet(chain[s])
    BY <1>1 DEF Holding
  <2>5. {b \in Data : fat.next[b] # Avail} = UNION {ToSet(chain[s]) : s \in Files}
    BY <1>4, <2>1, <2>3, <2>4
  <2> QED
    BY <2>2, <2>5
<1>8. info # Closed /\ dir[info.slot].length > 0 =>
        info.block = ChainOf(dir[info.slot].start)[info.offset \div SectorSize + 1]
  <2> SUFFICES ASSUME info # Closed, dir[info.slot].length > 0
               PROVE  info.block = ChainOf(dir[info.slot].start)[info.offset \div SectorSize + 1]
    OBVIOUS
  <2> DEFINE c == chain[info.slot]
             i == (info.offset \div SectorSize) + 1
  <2>1. info \in FileRec /\ info.slot \in Slots /\ Standing(info.offset, info.block, c)
    BY <1>1 DEF InfoOk, FileRec
  <2>2. c \in Lines(Data) /\ Len(c) = dir[info.slot].length /\ ChainOf(dir[info.slot].start) = c
    BY <1>3, <2>1
  <2>3. info.block = BlockAt(c, i) /\ (c # <<>> => info.block \in Data)
    BY <2>1 DEF Standing
  <2> HIDE DEF c, i
  <2>4. c # <<>>
    BY <2>2, BlockFacts
  <2>5. i \in 1 .. Len(c)
    BY <2>3, <2>4, DataFacts DEF BlockAt
  <2>6. info.block = c[i]
    BY <2>3, <2>5 DEF BlockAt
  <2> QED
    BY <2>2, <2>6 DEF i
<1>9. ASSUME NEW name \in Names
      PROVE  LET s == port_CARDGetFileNo(dir, name, FALSE)
             IN IF s = NOFILE THEN \A t \in Files : dir[t].game # Game \/ dir[t].name # name
                ELSE dir[s].game = Game /\ dir[s].name = name /\ port_CARDIsPublic(dir[s]) = READY
  <2> DEFINE s == port_CARDGetFileNo(dir, name, FALSE)
  <2>1. Finds(dir, name, FALSE, s)
    BY <1>2, FindsIs
  <2> HIDE DEF s
  <2>2. CASE s = NOFILE
    <3>1. NOFILE \notin Slots
      BY FatAssumption DEF NOFILE
    <3>2. \A t \in Slots : dir[t] # NoEntry /\ dir[t].game = Game => dir[t].name # name
      BY <2>1, <2>2, <3>1 DEF Finds
    <3> QED
      BY <2>2, <3>2 DEF s, Files
  <2>3. CASE s # NOFILE
    <3>1. IsFile(dir[s]) /\ dir[s].game = Game /\ dir[s].name = name
      BY <2>1, <2>3 DEF Finds
    <3>2. dir[s].public = TRUE /\ dir[s].game # 255
      BY <3>1, FatAssumption DEF IsFile
    <3>3. port_CARDIsPublic(dir[s]) = READY
      BY <3>2 DEF port_CARDIsPublic
    <3> QED
      BY <2>3, <3>1, <3>3 DEF s
  <2> QED
    BY <2>2, <2>3
<1> QED
  BY <1>2, <1>5, <1>6, <1>7, <1>8, <1>9 DEF FilesKeepBlocks

\* The table of blocks, the directory and the open file fit together in every state, with
\* each block free or in the chain of one file.
THEOREM FilesHeld == FatSpec => []FatIInv
<1>1. FatInit => FatIInv
  BY FatBegins
<1>2. FatIInv /\ [FatNext]_fatVars => FatIInv'
  BY FatKept
<1> QED
  BY <1>1, <1>2, PTL DEF FatSpec

\* Whatever files are made, deleted, opened and sought, each file keeps its own chain of as
\* many blocks as it asked for, the table passes the check of a mount, and an open file
\* stands in the block of its offset.
THEOREM FilesKeepBlocksAlways == FatSpec => []FilesKeepBlocks
<1>1. FatSpec => []FatIInv
  BY FilesHeld
<1>2. FatIInv => FilesKeepBlocks
  BY FatShows
<1> QED
  BY <1>1, <1>2, PTL
=============================================================================
