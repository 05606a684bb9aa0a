----------------------------- MODULE CardCheck -----------------------------
(***************************************************************************)
(* The check of a card's system blocks when it is mounted, CARDCheck.c,    *)
(* and the image file behind a card, memcard_backend.c.                    *)
(*                                                                         *)
(* The directory and the block table are stored twice and written in turn. *)
(* The two pairs are checked the same way, except that a copy of the table *)
(* must also count its free blocks right; "pair" is one of them and the    *)
(* other is in order.  Writing copies is not in src/: a console writes the *)
(* copy that is not the newest one and counts on, and may be switched off  *)
(* before the copy is whole.                                               *)
(***************************************************************************)
EXTENDS Integers, Sequences, SequencesExt

CONSTANTS
  Half,        \* 2^15: a counter of 16 bits runs from -Half to Half - 1
  MaxSerial,   \* bound: how often a copy is written
  Bytes,       \* values of a byte of the image; 255 among them
  ImageSizes   \* sizes a card may be inserted with

ASSUME CheckAssumption ==
  /\ Half \in Nat \ {0} /\ MaxSerial \in Nat /\ 255 \in Bytes /\ ImageSizes \subseteq Nat \ {0}

VARIABLES
  pair,      \* which of the two pairs
  onCard,    \* the two copies on the card: a serial number, whole or torn, free count right
  work,      \* the two copies in the work area, after the check
  ptr,       \* current_dir_ptr or current_fat_ptr: copy 0 or 1 of this work area, or none
  verified,  \* what __CARDVerify returned, none before a mount
  fresh,     \* history: the pointer was none when it was called
  image,     \* the card that is inserted: data and dirty flag
  file,      \* the image file: whether it exists, and its bytes
  lost       \* history: the code overlooked that its last reading or writing of the file failed

checkVars == <<pair, onCard, work, ptr, verified, fresh>>
imageVars == <<image, file, lost>>

Ready == 0   Broken == -6   Encoding == -13
None == 2
Copies == {0, 1}

\* The update counter as an int16_t.
Counter(copy) == ((copy.serial + Half) % (2 * Half)) - Half

Intact(copy) == copy.whole /\ (pair = "fat" => copy.freeRight)

-----------------------------------------------------------------------------
\* VerifyID's answer to a block that is right in all or fails in one respect.
VerifyID(id) ==
  CASE id \in {"device or size", "checksum", "sram held", "serial"} -> Broken
    [] id = "encode" -> Encoding
    [] id = "right" -> Ready

\* Mutant: the newer copy is taken for the older one.
OlderSwapped(copies) == IF Counter(copies[0]) - Counter(copies[1]) < 0 THEN 1 ELSE 0

\* The copy that counts as the older one, by the difference as an int.
Older(copies) == IF Counter(copies[0]) - Counter(copies[1]) < 0 THEN 0 ELSE 1

\* VerifyDir or VerifyFAT of the copies that were read into the work area: without a
\* pointer, the older copy becomes the current one with the contents of the other.
Verify(copies) ==
  LET damaged == {i \in Copies : ~Intact(copies[i])}
      old == Older(copies)
  IN /\ IF damaged # {} THEN ptr' = None /\ work' = copies
        ELSE IF ptr = None THEN ptr' = old /\ work' = [copies EXCEPT ![old] = copies[1 - old]]
        ELSE ptr' = ptr /\ work' = copies
     /\ verified' = IF damaged = {} THEN Ready ELSE Broken

\* __CARDVerify.  CARDMountAsync cleared current_dir and current_fat, which nothing
\* reads, and not the pointers.
__CARDVerify(id) ==
  /\ fresh' = (ptr = None)
  /\ IF VerifyID(id) < 0
     THEN verified' = VerifyID(id) /\ work' = onCard /\ UNCHANGED ptr
     ELSE Verify(onCard)
  /\ UNCHANGED <<pair, onCard>>

Newest == IF onCard[0].serial > onCard[1].serial THEN 0 ELSE 1

\* A console writes the copy that is damaged, or not the newest.
WriteCopy(whole, freeRight) ==
  LET to == IF \E i \in Copies : ~Intact(onCard[i])
            THEN CHOOSE i \in Copies : ~Intact(onCard[i]) ELSE 1 - Newest
      from == onCard[1 - to].serial
  IN /\ from < MaxSerial /\ verified' = None
     /\ \E i \in Copies : Intact(onCard[i])
     /\ onCard' = [onCard EXCEPT ![to] = [serial |-> from + 1, whole |-> whole, freeRight |-> freeRight]]
     /\ UNCHANGED <<pair, work, ptr, fresh>>

CheckInit ==
  /\ pair \in {"dir", "fat"}
  /\ onCard = [i \in Copies |-> [serial |-> i, whole |-> TRUE, freeRight |-> TRUE]]
  /\ work = onCard /\ ptr = None /\ verified = None /\ fresh = TRUE

CheckNext ==
  \/ \E id \in {"right", "device or size", "checksum", "sram held", "serial", "encode"} : __CARDVerify(id)
  \/ \E whole, freeRight \in BOOLEAN : WriteCopy(whole, freeRight)

CheckSpec == CheckInit /\ [][CheckNext]_checkVars

-----------------------------------------------------------------------------
(* The image.                                                               *)

NoCard == [inserted |-> FALSE, data |-> <<>>, dirty |-> FALSE]
NoFile == [exists |-> FALSE, bytes |-> <<>>]
Filled(size) == [i \in 1 .. size |-> 255]

\* What load_or_create makes of a file: cut or filled up to the card's size.
Loaded(bytes, size) == [i \in 1 .. size |-> IF i <= Len(bytes) THEN bytes[i] ELSE 255]

\* Writing a file creates or cuts it first.  fwrite accepts bytes, of which fewer may have
\* arrived when fclose returns.
Written(data, arrived) == [exists |-> TRUE, bytes |-> SubSeq(data, 1, arrived)]

\* fread gets r bytes of the file: all that the card can take, or fewer if it fails.
ReadImage(size, r) ==
  /\ file.exists /\ r <= Len(file.bytes)
  /\ image' = [inserted |-> TRUE, data |-> Loaded(SubSeq(file.bytes, 1, r), size), dirty |-> FALSE]
  /\ lost' = (r < size /\ r < Len(file.bytes))
  /\ UNCHANGED file

\* There is no file, or it does not open for reading: it is written, filled.
CreateImage(size, accepted, arrived) ==
  /\ image' = IF accepted = size
              THEN [inserted |-> TRUE, data |-> Filled(size), dirty |-> FALSE] ELSE NoCard
  /\ file' = Written(Filled(size), arrived)
  /\ lost' = (arrived < accepted)

\* The card that was there is gone also when no file opens.
gc_memcard_insert(size) ==
  \/ \E r \in 0 .. size : ReadImage(size, r)
  \/ \E accepted \in 0 .. size : \E arrived \in 0 .. accepted : CreateImage(size, accepted, arrived)
  \/ image' = NoCard /\ UNCHANGED <<file, lost>>

gc_memcard_eject == image' = NoCard /\ UNCHANGED <<file, lost>>

\* The range check of reads and writes, with or without the DMA hook.
Moves(off, len) == image.inserted /\ off <= Len(image.data) /\ len <= Len(image.data) - off

gc_memcard_write(off, value) ==
  /\ Moves(off, 1)
  /\ image' = [image EXCEPT !.data[off + 1] = value, !.dirty = TRUE]
  /\ UNCHANGED <<file, lost>>

\* The hook of EXIDma: a card that is written through the bus.
gc_memcard_exi_dma(off) == \E value \in Bytes : gc_memcard_write(off, value)

\* Mutant: the card is clean once its file was opened.
FlushedWhenOpen(accepted) == accepted >= 0

FlushedWhen(accepted) == accepted = Len(image.data)

\* The card is clean, and the call returns 0, when fwrite accepted all bytes.  A card that
\* is not dirty is saved already, and a file that does not open stays as it is.
gc_memcard_flush(accepted, arrived) ==
  /\ image.inserted /\ image.dirty
  /\ file' = Written(image.data, arrived)
  /\ image' = [image EXCEPT !.dirty = ~FlushedWhen(accepted)]
  /\ lost' = (arrived < accepted)

ImageInit == image = NoCard /\ file = NoFile /\ lost = FALSE

ImageNext ==
  \/ \E size \in ImageSizes : gc_memcard_insert(size)
  \/ gc_memcard_eject
  \/ \E off \in 0 .. Len(image.data) : gc_memcard_exi_dma(off)
  \/ \E accepted \in 0 .. Len(image.data) : \E arrived \in 0 .. accepted : gc_memcard_flush(accepted, arrived)

ImageSpec == ImageInit /\ [][ImageNext]_imageVars

-----------------------------------------------------------------------------
Wrapped == Counter(onCard[Newest]) < Counter(onCard[1 - Newest])

\* A mount that succeeds never works with a copy that was torn or whose free blocks are
\* miscounted; and when it has no pointer from an earlier mount, both copies become the
\* one that was written last, but for the one time the counter wraps: then the last
\* update is lost.  An error of the card's identity leaves the copies as they are.
NewestSurvives ==
  /\ verified = Ready =>
       /\ \A i \in Copies : Intact(onCard[i]) /\ Intact(work[i])
       /\ fresh => work = [i \in Copies |-> onCard[IF Wrapped THEN 1 - Newest ELSE Newest]]
  /\ verified = Encoding => work = onCard

\* While a card is not dirty its bytes are the file's, so that taking it out and in
\* again gives the same card: also after files that are too short or long, that did not
\* open, or that fwrite did not take to the end, which leaves the card dirty.  Two
\* failures the code does not look for: that of fclose, after a write that is taken for
\* whole, and that of fread, which it takes for the end of the file.
CleanMeansSaved ==
  image.inserted /\ ~image.dirty /\ ~lost =>
    file.exists /\ image.data = Loaded(file.bytes, Len(image.data))
=============================================================================
