---------------------------- MODULE DeviceProofs ----------------------------
(***************************************************************************)
(* Proofs about what the devices keep: the allocator of audio memory, the  *)
(* image of a card in a file of the host, the two copies of the directory  *)
(* and of the block table of a card, and the DVD driver's waiting queues.  *)
(***************************************************************************)
EXTENDS ARAM, CardCheck, DVDQueue, DVDFsProps, OSAlarm, Bookkeeping, SequenceFacts

-----------------------------------------------------------------------------
(***************************************************************************)
(* The blocks of audio memory lie end to end, for every word size, base,   *)
(* array and set of lengths.                                               *)
(***************************************************************************)
Addresses == 0 .. Word - 1

\* The values the state keeps, and how the index and the count belong together.
AramTyped ==
  /\ initFlag \in BOOLEAN
  /\ stackPointer \in Nat /\ freeBlocks \in Nat /\ blockLengthIdx \in Nat
  /\ blockLength \in [Indices -> Addresses] /\ handed \in [Indices -> Addresses]
  /\ initFlag => stackPointer \in Addresses /\ freeBlocks + blockLengthIdx = Entries

AramInv == AramTyped /\ AramStacked

-----------------------------------------------------------------------------
\* Addition that wraps stays in the word.
LEMMA PlusTyped ==
  ASSUME NEW a \in Addresses, NEW b \in Addresses
  PROVE  Plus(a, b) \in Addresses
BY AramAssumption DEF Plus, Addresses

\* Subtraction undoes an addition, whether or not it wrapped.
LEMMA MinusPlus ==
  ASSUME NEW a \in Addresses, NEW b \in Addresses
  PROVE  Minus(Plus(a, b), b) = a
BY AramAssumption DEF Plus, Minus, Addresses

-----------------------------------------------------------------------------
LEMMA AramInitially == AramInit => AramInv
<1> SUFFICES ASSUME AramInit PROVE AramInv
  OBVIOUS
<1>1. 0 \in Addresses
  BY AramAssumption DEF Addresses
<1> QED
  BY <1>1 DEF AramInit, AramInv, AramTyped, AramStacked

LEMMA AramStep == AramInv /\ [AramNext]_aramVars => AramInv'
<1> SUFFICES ASSUME AramInv, [AramNext]_aramVars PROVE AramInv'
  OBVIOUS
<1> USE AramAssumption
<1>1. CASE ARInit
  BY <1>1 DEF ARInit, AramInv, AramTyped, AramStacked, Addresses
<1>2. ASSUME NEW length \in Lengths, ARAlloc(length)
      PROVE  AramInv'
  <2>0. PICK n \in Nat : n = blockLengthIdx
    BY DEF AramInv, AramTyped
  <2>1. n \in Indices /\ length \in Addresses /\ stackPointer \in Addresses
    BY <1>2, <2>0 DEF ARAlloc, AramInv, AramTyped, Indices, Addresses
  <2>2. /\ handed' = [handed EXCEPT ![n] = stackPointer]
        /\ blockLength' = [blockLength EXCEPT ![n] = length]
        /\ handed'[n] = stackPointer /\ blockLength'[n] = length
        /\ \A i \in Indices \ {n} : handed'[i] = handed[i] /\ blockLength'[i] = blockLength[i]
    BY <1>2, <2>0, <2>1 DEF ARAlloc, AramInv, AramTyped
  <2>3. \A i \in Indices \ {n} : End(i)' = End(i)
    BY <2>2 DEF End
  <2>4. AramTyped'
    <3>1. stackPointer' \in Addresses
      BY <1>2, <2>1, PlusTyped DEF ARAlloc
    <3>2. freeBlocks' \in Nat /\ blockLengthIdx' \in Nat /\ freeBlocks' + blockLengthIdx' = Entries
      BY <1>2 DEF ARAlloc, AramInv, AramTyped
    <3>3. initFlag' \in BOOLEAN
      BY <1>2 DEF ARAlloc, AramInv, AramTyped
    <3>4. blockLength' \in [Indices -> Addresses] /\ handed' \in [Indices -> Addresses]
      BY <2>1, <2>2 DEF AramInv, AramTyped
    <3>5. stackPointer' \in Nat
      BY <3>1 DEF Addresses
    <3> QED
      BY <3>1, <3>2, <3>3, <3>4, <3>5, Zenon DEF AramTyped
  <2>5. stackPointer' = End(n)' /\ blockLengthIdx' = n + 1
    BY <1>2, <2>0, <2>2 DEF ARAlloc, End
  <2>6. handed'[0] = Base
    BY <1>2, <2>0, <2>1, <2>2 DEF ARAlloc, AramInv, AramTyped, AramStacked, Indices
  <2>7. \A i \in 1 .. blockLengthIdx' - 1 : handed'[i] = End(i - 1)'
    <3> TAKE i \in 1 .. blockLengthIdx' - 1
    <3>1. i - 1 \in Indices \ {n}
      BY <2>1, <2>5 DEF Indices
    <3>2. CASE i = n
      BY <1>2, <2>0, <2>2, <2>3, <3>1, <3>2 DEF ARAlloc, AramInv, AramStacked, Indices
    <3>3. CASE i # n
      <4>1. i \in 1 .. n - 1 /\ i \in Indices \ {n}
        BY <2>1, <2>5, <3>3 DEF Indices
      <4> QED
        BY <1>2, <2>0, <2>2, <2>3, <3>1, <4>1 DEF ARAlloc, AramInv, AramStacked
    <3> QED
      BY <3>2, <3>3
  <2>8. blockLengthIdx' # 0 /\ stackPointer' = End(blockLengthIdx - 1)'
    <3>1. blockLengthIdx' - 1 = n /\ blockLengthIdx' # 0
      BY <2>1, <2>5 DEF Indices
    <3> QED
      BY <2>5, <3>1 DEF End
  <2>9. freeBlocks' + blockLengthIdx' = Entries
    BY <1>2 DEF ARAlloc, AramInv, AramTyped
  <2> QED
    BY <2>4, <2>6, <2>7, <2>8, <2>9 DEF AramInv, AramStacked
<1>3. CASE ARFree
  <2> DEFINE n == blockLengthIdx - 1
  <2>1. n \in Indices
    BY <1>3 DEF ARFree, AramInv, AramTyped, Indices
  <2>2. handed[n] \in Addresses /\ blockLength[n] \in Addresses
    BY <2>1 DEF AramInv, AramTyped
  <2>3. stackPointer' = handed[n]
    BY <1>3, <2>1, <2>2, MinusPlus DEF ARFree, AramInv, AramTyped, AramStacked, End
  <2>4. AramTyped'
    BY <1>3, <2>1, <2>2, <2>3 DEF ARFree, AramInv, AramTyped, Indices, Addresses
  <2>5. \A i : End(i)' = End(i)
    BY <1>3 DEF ARFree, End
  <2>6. handed[n] = IF n = 0 THEN Base ELSE End(n - 1)
    BY <1>3, <2>1 DEF ARFree, AramInv, AramTyped, AramStacked, Indices
  <2> QED
    BY <1>3, <2>1, <2>3, <2>4, <2>5, <2>6 DEF ARFree, AramInv, AramTyped, AramStacked, Indices
<1>4. CASE UNCHANGED aramVars
  BY <1>4 DEF aramVars, AramInv, AramTyped, AramStacked, End
<1> QED
  BY <1>1, <1>2, <1>3, <1>4 DEF AramNext

-----------------------------------------------------------------------------
\* ARFree returns the address that ARAlloc returned for the same block, also when the
\* stack pointer has wrapped: the blocks always lie end to end.
THEOREM AramStackedAlways == AramSpec => []AramStacked
<1>1. AramInit => AramInv
  BY AramInitially
<1>2. AramInv /\ [AramNext]_aramVars => AramInv'
  BY AramStep
<1>3. AramInv => AramStacked
  BY DEF AramInv
<1> QED
  BY <1>1, <1>2, <1>3, PTL DEF AramSpec

-----------------------------------------------------------------------------
(***************************************************************************)
(* For images of any size and bytes: a card that is not dirty is saved     *)
(* (CleanMeansSaved of CardCheck), whatever part of a file was read or     *)
(* written and whether it opened, but for the failures of fclose and fread *)
(* that the code overlooks.                                                *)
(***************************************************************************)
ImageTyped ==
  /\ image \in [inserted : BOOLEAN, data : Seq(Bytes), dirty : BOOLEAN]
  /\ file \in [exists : BOOLEAN, bytes : Seq(Bytes)]

ImageInv == ImageTyped /\ CleanMeansSaved

\* Filling up or cutting a sequence of bytes gives one of the size asked for.
LEMMA LoadedTyped ==
  ASSUME NEW bytes \in Seq(Bytes), NEW size \in Nat
  PROVE  Loaded(bytes, size) \in Seq(Bytes) /\ Len(Loaded(bytes, size)) = size
<1>1. \A i \in 1 .. size : (IF i <= Len(bytes) THEN bytes[i] ELSE 255) \in Bytes
  BY CheckAssumption DEF CheckAssumption
<1>2. Loaded(bytes, size) \in [1 .. size -> Bytes]
  BY <1>1 DEF Loaded
<1> QED
  BY <1>2

\* What was written in full is loaded as it was.
LEMMA LoadedWhole ==
  ASSUME NEW bytes \in Seq(Bytes) PROVE Loaded(bytes, Len(bytes)) = bytes
BY DEF Loaded

\* A reading that comes to the end of the card or of the file gives all there is to load.
LEMMA LoadedRead ==
  ASSUME NEW bytes \in Seq(Bytes), NEW size \in Nat, NEW r \in 0 .. size, r <= Len(bytes),
         r = size \/ r = Len(bytes)
  PROVE  Loaded(SubSeq(bytes, 1, r), size) = Loaded(bytes, size)
<1>1. SubSeq(bytes, 1, r) \in Seq(Bytes) /\ Len(SubSeq(bytes, 1, r)) = r
  OBVIOUS
<1>2. \A i \in 1 .. size : i <= r => SubSeq(bytes, 1, r)[i] = bytes[i]
  OBVIOUS
<1>3. \A i \in 1 .. size : i <= r <=> i <= Len(bytes)
  OBVIOUS
<1> QED
  BY <1>1, <1>2, <1>3 DEF Loaded

LEMMA WrittenTyped ==
  ASSUME NEW data \in Seq(Bytes), NEW arrived \in 0 .. Len(data)
  PROVE  /\ Written(data, arrived) \in [exists : BOOLEAN, bytes : Seq(Bytes)]
         /\ Written(data, arrived).exists
         /\ arrived = Len(data) => Written(data, arrived).bytes = data
<1>1. SubSeq(data, 1, arrived) \in Seq(Bytes)
  OBVIOUS
<1>2. arrived = Len(data) => SubSeq(data, 1, arrived) = data
  OBVIOUS
<1> QED
  BY <1>1, <1>2 DEF Written

LEMMA FilledTyped ==
  ASSUME NEW size \in Nat PROVE Filled(size) \in Seq(Bytes) /\ Len(Filled(size)) = size
<1>1. Filled(size) \in [1 .. size -> Bytes]
  BY CheckAssumption DEF CheckAssumption, Filled
<1> QED
  BY <1>1

LEMMA ImageInitially == ImageInit => ImageInv
BY DEF ImageInit, ImageInv, ImageTyped, CleanMeansSaved, NoCard, NoFile

LEMMA ReadKeeps ==
  ASSUME ImageInv, NEW size \in ImageSizes, NEW r \in 0 .. size, ReadImage(size, r)
  PROVE  ImageInv'
<1> USE DEF ImageInv, ImageTyped
<1>1. size \in Nat /\ file.bytes \in Seq(Bytes) /\ r <= Len(file.bytes) /\ file.exists
  BY CheckAssumption DEF CheckAssumption, ReadImage
<1> DEFINE data == Loaded(SubSeq(file.bytes, 1, r), size)
<1>2. data \in Seq(Bytes) /\ Len(data) = size
  <2>1. SubSeq(file.bytes, 1, r) \in Seq(Bytes)
    BY <1>1
  <2> QED
    BY <1>1, <2>1, LoadedTyped
<1>3. ~lost' => data = Loaded(file.bytes, size)
  <2>1. ~lost' => r = size \/ r = Len(file.bytes)
    BY <1>1 DEF ReadImage
  <2> QED
    BY <1>1, <2>1, LoadedRead
<1>4. image' = [inserted |-> TRUE, data |-> data, dirty |-> FALSE] /\ file' = file
  BY DEF ReadImage
<1> HIDE DEF data
<1>5. ImageTyped'
  BY <1>2, <1>4
<1>6. CleanMeansSaved'
  BY <1>1, <1>2, <1>3, <1>4 DEF CleanMeansSaved
<1> QED
  BY <1>5, <1>6

LEMMA CreateKeeps ==
  ASSUME ImageInv, NEW size \in ImageSizes, NEW accepted \in 0 .. size, NEW arrived \in 0 .. accepted,
         CreateImage(size, accepted, arrived)
  PROVE  ImageInv'
<1> USE DEF ImageInv, ImageTyped
<1>1. size \in Nat
  BY CheckAssumption DEF CheckAssumption
<1> DEFINE data == Filled(size)
<1>2. data \in Seq(Bytes) /\ Len(data) = size
  BY <1>1, FilledTyped
<1>3. /\ file' \in [exists : BOOLEAN, bytes : Seq(Bytes)] /\ file'.exists
      /\ arrived = size => file'.bytes = data
  <2>1. arrived \in 0 .. Len(data) /\ file' = Written(data, arrived)
    BY <1>1, <1>2 DEF CreateImage
  <2> HIDE DEF data
  <2> QED
    BY <1>2, <2>1, WrittenTyped
<1>4. /\ image' = IF accepted = size THEN [inserted |-> TRUE, data |-> data, dirty |-> FALSE] ELSE NoCard
      /\ lost' = (arrived < accepted)
  BY DEF CreateImage
<1> HIDE DEF data
<1>5. CASE accepted = size
  <2>1. image' = [inserted |-> TRUE, data |-> data, dirty |-> FALSE]
    BY <1>4, <1>5
  <2>2. ~lost' => file'.bytes = data
    BY <1>1, <1>3, <1>4, <1>5
  <2>3. Loaded(data, Len(data)) = data
    BY <1>2, LoadedWhole
  <2> QED
    BY <1>2, <1>3, <2>1, <2>2, <2>3 DEF CleanMeansSaved
<1>6. CASE accepted # size
  BY <1>3, <1>4, <1>6 DEF NoCard, CleanMeansSaved
<1> QED
  BY <1>5, <1>6

LEMMA FlushKeeps ==
  ASSUME ImageInv, NEW accepted \in 0 .. Len(image.data), NEW arrived \in 0 .. accepted,
         gc_memcard_flush(accepted, arrived)
  PROVE  ImageInv'
<1> USE DEF ImageInv, ImageTyped
<1>1. image.data \in Seq(Bytes) /\ Len(image.data) \in Nat /\ arrived \in 0 .. Len(image.data)
  OBVIOUS
<1>2. /\ image' = [image EXCEPT !.dirty = ~(accepted = Len(image.data))]
      /\ lost' = (arrived < accepted)
  BY DEF gc_memcard_flush, FlushedWhen
<1>3. /\ file' \in [exists : BOOLEAN, bytes : Seq(Bytes)] /\ file'.exists
      /\ arrived = Len(image.data) => file'.bytes = image.data
  BY <1>1, WrittenTyped DEF gc_memcard_flush
<1>4. Loaded(image.data, Len(image.data)) = image.data
  BY <1>1, LoadedWhole
<1>5. image'.dirty = ~(accepted = Len(image.data)) /\ image'.data = image.data
  BY <1>2
<1>6. accepted = Len(image.data) /\ ~(arrived < accepted) => arrived = Len(image.data)
  BY <1>1
<1>7. ~image'.dirty /\ ~lost' => file'.bytes = image'.data
  BY <1>2, <1>3, <1>5, <1>6
<1>8. CleanMeansSaved'
  BY <1>3, <1>4, <1>5, <1>7 DEF CleanMeansSaved
<1> QED
  BY <1>1, <1>2, <1>3, <1>8

LEMMA ImageStep == ImageInv /\ [ImageNext]_imageVars => ImageInv'
<1> SUFFICES ASSUME ImageInv, [ImageNext]_imageVars PROVE ImageInv'
  OBVIOUS
<1>1. ASSUME gc_memcard_eject PROVE ImageInv'
  BY <1>1 DEF gc_memcard_eject, NoCard, ImageInv, ImageTyped, CleanMeansSaved
<1>2. ASSUME NEW off \in 0 .. Len(image.data), gc_memcard_exi_dma(off) PROVE ImageInv'
  <2>1. PICK value \in Bytes : gc_memcard_write(off, value)
    BY <1>2 DEF gc_memcard_exi_dma
  <2>2. [image.data EXCEPT ![off + 1] = value] \in Seq(Bytes)
    <3>1. image.data \in Seq(Bytes)
      BY DEF ImageInv, ImageTyped
    <3>2. off + 1 \in 1 .. Len(image.data)
      BY <2>1, <3>1 DEF gc_memcard_write, Moves
    <3> QED
      BY <3>1, <3>2, ExceptSeq
  <2> QED
    BY <2>1, <2>2 DEF gc_memcard_write, ImageInv, ImageTyped, CleanMeansSaved
<1>3. ASSUME UNCHANGED imageVars PROVE ImageInv'
  BY <1>3 DEF imageVars, ImageInv, ImageTyped, CleanMeansSaved
<1>4. ASSUME NEW size \in ImageSizes, gc_memcard_insert(size) PROVE ImageInv'
  <2>1. CASE image' = NoCard /\ UNCHANGED <<file, lost>>
    BY <2>1 DEF NoCard, ImageInv, ImageTyped, CleanMeansSaved
  <2> QED
    BY <1>4, <2>1, ReadKeeps, CreateKeeps DEF gc_memcard_insert
<1> QED
  BY <1>1, <1>2, <1>3, <1>4, FlushKeeps DEF ImageNext

\* While a card is not dirty, taking it out and in again gives the same card, for every
\* order of inserting, writing and saving it, whichever opening of the file fails and
\* however little fwrite accepts, unless the last fclose lost bytes or the last fread came
\* short, which the code does not look for: CleanMeansSaved of CardCheck, for all sizes
\* and bytes.
THEOREM CleanMeansSavedAlways == ImageSpec => []CleanMeansSaved
<1>1. ImageInv => CleanMeansSaved
  BY DEF ImageInv
<1> QED
  BY <1>1, ImageInitially, ImageStep, PTL DEF ImageSpec

-----------------------------------------------------------------------------
(***************************************************************************)
(* For counters of any width and any number of writes: a mount works with  *)
(* whole copies and the newest (NewestSurvives of CardCheck).  CheckInv    *)
(* adds that the serial numbers of the copies differ by one, torn copies   *)
(* included: so their counters differ, however often they wrapped, and     *)
(* the order of two counters is wrong only where one wraps.                *)
(***************************************************************************)
Stored == [serial : Nat, whole : BOOLEAN, freeRight : BOOLEAN]

CheckTyped ==
  /\ pair \in {"dir", "fat"}
  /\ onCard \in [Copies -> Stored] /\ work \in [Copies -> Stored]
  /\ ptr \in {0, 1, None} /\ verified \in {Ready, Broken, Encoding, None} /\ fresh \in BOOLEAN

InTurn(copies) ==
  copies[0].serial = copies[1].serial + 1 \/ copies[1].serial = copies[0].serial + 1

CheckInv == CheckTyped /\ InTurn(onCard) /\ NewestSurvives

LEMMA Answers == Ready = 0 /\ Broken = -6 /\ Encoding = -13 /\ None = 2 /\ Copies = {0, 1}
BY DEF Ready, Broken, Encoding, None, Copies

LEMMA RemainderIs ==
  ASSUME NEW n \in Nat, n > 1, NEW a \in Nat
  PROVE  a % n = a - n * (a \div n) /\ a \div n \in Int /\ a % n \in Int
OBVIOUS

\* Of two numbers in turn, the remainders differ.
LEMMA RemaindersDiffer ==
  ASSUME NEW n \in Nat, n > 1, NEW a \in Nat PROVE a % n # (a + 1) % n
<1> SUFFICES ASSUME a % n = (a + 1) % n PROVE FALSE
  OBVIOUS
<1>1. PICK q \in Int : a % n = a - n * q
  BY RemainderIs
<1>2. PICK r \in Int : (a + 1) % n = (a + 1) - n * r
  <2>1. a + 1 \in Nat
    OBVIOUS
  <2> QED
    BY <2>1, RemainderIs
<1>3. PICK d \in Int : d = r - q
  OBVIOUS
<1>4. n * d = 1
  <2>1. n * d = n * r - n * q
    BY <1>3
  <2>2. n * r \in Int /\ n * q \in Int
    OBVIOUS
  <2> QED
    BY <1>1, <1>2, <2>1, <2>2
<1>5. CASE d <= 0
  BY <1>4, <1>5
<1>6. CASE d >= 1
  BY <1>4, <1>6
<1> QED
  BY <1>5, <1>6

LEMMA CountersDiffer ==
  ASSUME NEW c \in Stored, NEW d \in Stored, d.serial = c.serial + 1
  PROVE  /\ Counter(c) \in Int /\ Counter(d) \in Int
         /\ Counter(c) # Counter(d)
<1> DEFINE n == 2 * Half
           a == c.serial + Half
<1>1. Half \in Nat \ {0} /\ c.serial \in Nat
  BY CheckAssumption DEF CheckAssumption, Stored
<1>2. n \in Nat /\ n > 1 /\ a \in Nat
  BY <1>1
<1>3. d.serial + Half = a + 1
  BY <1>1
<1>4. Counter(c) = (a % n) - Half /\ Counter(d) = ((a + 1) % n) - Half
  BY <1>3 DEF Counter
<1> HIDE DEF n, a
<1>5. a % n \in Int /\ (a + 1) % n \in Int
  <2>1. a + 1 \in Nat
    BY <1>2
  <2> QED
    BY <1>2, <2>1, RemainderIs
<1>6. a % n # (a + 1) % n
  BY <1>2, RemaindersDiffer
<1> QED
  BY <1>1, <1>4, <1>5, <1>6

\* The older copy is told right, but for the wrap.
LEMMA OlderIsOlder ==
  ASSUME CheckTyped, InTurn(onCard)
  PROVE  Older(onCard) = IF Wrapped THEN Newest ELSE 1 - Newest
<1>1. onCard[0] \in Stored /\ onCard[1] \in Stored
  BY Answers DEF CheckTyped
<1>2. onCard[0].serial \in Nat /\ onCard[1].serial \in Nat
  BY <1>1 DEF Stored
<1>3. /\ Counter(onCard[0]) \in Int /\ Counter(onCard[1]) \in Int
      /\ Counter(onCard[0]) # Counter(onCard[1])
  BY <1>1, CountersDiffer DEF InTurn
<1>4. CASE onCard[0].serial > onCard[1].serial
  <2>1. Newest = 0
    BY <1>4 DEF Newest
  <2> QED
    BY <1>3, <2>1 DEF Older, Wrapped
<1>5. CASE ~(onCard[0].serial > onCard[1].serial)
  <2>1. Newest = 1
    BY <1>5 DEF Newest
  <2> QED
    BY <1>3, <2>1 DEF Older, Wrapped
<1> QED
  BY <1>4, <1>5

LEMMA CheckInitially == CheckInit => CheckInv
<1> SUFFICES ASSUME CheckInit PROVE CheckInv
  OBVIOUS
<1>1. CheckTyped
  BY Answers DEF CheckInit, CheckTyped, Stored
<1>2. InTurn(onCard)
  BY Answers DEF CheckInit, InTurn
<1>3. NewestSurvives
  BY Answers DEF CheckInit, NewestSurvives
<1> QED
  BY <1>1, <1>2, <1>3 DEF CheckInv

IdFaults == {"device or size", "checksum", "sram held", "serial", "encode"}

LEMMA IdAnswers ==
  ASSUME NEW id \in IdFaults \cup {"right"}
  PROVE  VerifyID(id) < 0 => VerifyID(id) \in {Broken, Encoding}
<1>1. CASE id = "right"
  BY <1>1, Answers DEF VerifyID
<1>2. CASE id = "encode"
  BY <1>2, Answers DEF VerifyID
<1>3. CASE id \in {"device or size", "checksum", "sram held", "serial"}
  BY <1>3, Answers DEF VerifyID
<1> QED
  BY <1>1, <1>2, <1>3 DEF IdFaults

LEMMA VerifyKeeps ==
  ASSUME CheckInv, NEW id \in IdFaults \cup {"right"}, __CARDVerify(id) PROVE CheckInv'
<1>1. CheckTyped /\ InTurn(onCard) /\ onCard' = onCard /\ pair' = pair
      /\ fresh' = (ptr = None)
  BY DEF CheckInv, __CARDVerify
<1>2. CASE VerifyID(id) < 0
  <2>1. verified' = VerifyID(id) /\ work' = onCard /\ ptr' = ptr
    BY <1>2 DEF __CARDVerify
  <2>2. verified' \in {Broken, Encoding}
    BY <1>2, <2>1, IdAnswers, Answers
  <2>3. verified' # Ready /\ verified' \in {Ready, Broken, Encoding, None}
    BY <2>2, Answers
  <2>4. CheckTyped'
    BY <1>1, <2>1, <2>3 DEF CheckTyped
  <2>5. NewestSurvives'
    BY <1>1, <2>1, <2>3 DEF NewestSurvives
  <2> QED
    BY <1>1, <2>4, <2>5 DEF CheckInv, InTurn
<1>3. CASE ~(VerifyID(id) < 0)
  <2> DEFINE old == Older(onCard)
             damaged == {i \in Copies : ~Intact(onCard[i])}
             copied == [onCard EXCEPT ![old] = onCard[1 - old]]
  <2>1. /\ verified' = IF damaged = {} THEN Ready ELSE Broken
        /\ \/ work' = onCard /\ ptr' = None /\ damaged # {}
           \/ work' = copied /\ ptr = None /\ ptr' = old /\ damaged = {}
           \/ work' = onCard /\ ptr # None /\ ptr' = ptr /\ damaged = {}
    BY <1>3 DEF __CARDVerify, Verify
  <2>2. old \in {0, 1} /\ old \in Copies /\ 1 - old \in Copies
    BY Answers DEF Older
  <2>3. old = IF Wrapped THEN Newest ELSE 1 - Newest
    BY <1>1, OlderIsOlder
  <2> HIDE DEF old
  <2>4. copied \in [Copies -> Stored] /\ copied[old] = onCard[1 - old] /\ copied[1 - old] = onCard[1 - old]
        /\ copied = [i \in Copies |-> onCard[1 - old]]
    <3>1. onCard \in [Copies -> Stored]
      BY <1>1 DEF CheckTyped
    <3>2. onCard[1 - old] \in Stored
      BY <2>2, <3>1
    <3>3. copied \in [Copies -> Stored] /\ copied[old] = onCard[1 - old]
      BY <2>2, <3>1, <3>2
    <3>4. 1 - old # old
      BY <2>2
    <3>5. copied[1 - old] = onCard[1 - old]
      BY <2>2, <3>1, <3>4
    <3>6. \A i \in Copies : i = old \/ i = 1 - old
      BY <2>2, Answers
    <3>7. \A i \in Copies : copied[i] = onCard[1 - old]
      BY <3>3, <3>5, <3>6
    <3> HIDE DEF copied
    <3> QED
      BY <3>3, <3>5, <3>7
  <2> HIDE DEF copied
  <2>5. CheckTyped'
    BY <1>1, <2>1, <2>2, <2>4 DEF CheckTyped
  <2>6. verified' # Encoding /\ (verified' = Ready => damaged = {})
    BY <2>1, Answers
  <2>7. ASSUME damaged = {} PROVE \A i \in Copies : Intact(onCard[i])' /\ Intact(work[i])'
    <3>1. \A i \in Copies : Intact(onCard[i])
      BY <2>7
    <3>2. \A i \in Copies : work'[i] = onCard[i] \/ work'[i] = onCard[1 - old]
      BY <2>1, <2>4, <2>7
    <3> QED
      BY <1>1, <2>2, <3>1, <3>2 DEF Intact
  <2>8. ASSUME damaged = {}, fresh'
        PROVE  work' = [i \in Copies |-> onCard[IF Wrapped THEN 1 - Newest ELSE Newest]]
    <3>1. work' = [i \in Copies |-> onCard[1 - old]]
      BY <1>1, <2>1, <2>4, <2>8
    <3>2. 1 - old = IF Wrapped THEN 1 - Newest ELSE Newest
      BY <2>3 DEF Newest
    <3> QED
      BY <3>1, <3>2
  <2>9. Wrapped' = Wrapped /\ Newest' = Newest
    BY <1>1 DEF Wrapped, Newest
  <2>10. NewestSurvives'
    BY <1>1, <2>6, <2>7, <2>8, <2>9 DEF NewestSurvives
  <2> QED
    BY <1>1, <2>5, <2>10 DEF CheckInv, InTurn
<1> QED
  BY <1>2, <1>3

\* Whichever copy is written, it is the next in turn, and it waits for a mount.
LEMMA WriteKeeps ==
  ASSUME CheckInv, NEW whole \in BOOLEAN, NEW freeRight \in BOOLEAN, WriteCopy(whole, freeRight)
  PROVE  CheckInv'
<1>1. /\ CheckTyped /\ onCard \in [Copies -> Stored]
      /\ verified' = None /\ UNCHANGED <<pair, work, ptr, fresh>>
  BY DEF CheckInv, CheckTyped, WriteCopy
<1> DEFINE copy(to) == [serial |-> onCard[1 - to].serial + 1, whole |-> whole, freeRight |-> freeRight]
<1>2. \E to \in Copies : onCard' = [onCard EXCEPT ![to] = copy(to)]
  <2> DEFINE t == IF \E i \in Copies : ~Intact(onCard[i])
                  THEN CHOOSE i \in Copies : ~Intact(onCard[i]) ELSE 1 - Newest
  <2>1. t \in Copies
    BY Answers DEF Newest
  <2>2. onCard' = [onCard EXCEPT ![t] = copy(t)]
    BY DEF WriteCopy
  <2> HIDE DEF t
  <2> QED
    BY <2>1, <2>2
<1>3. PICK to \in Copies : onCard' = [onCard EXCEPT ![to] = copy(to)]
  BY <1>2
<1>4. to \in {0, 1} /\ 1 - to \in Copies /\ onCard[1 - to] \in Stored
  BY <1>1, Answers
<1>5. copy(to) \in Stored /\ copy(to).serial = onCard[1 - to].serial + 1
  BY <1>4 DEF Stored
<1> HIDE DEF copy
<1>6. onCard' \in [Copies -> Stored] /\ onCard'[to] = copy(to) /\ onCard'[1 - to] = onCard[1 - to]
  BY <1>1, <1>3, <1>4, <1>5
<1>7. InTurn(onCard)'
  BY <1>4, <1>5, <1>6 DEF InTurn
<1>8. CheckTyped'
  BY <1>1, <1>6, Answers DEF CheckTyped
<1>9. NewestSurvives'
  BY <1>1, Answers DEF NewestSurvives
<1> QED
  BY <1>7, <1>8, <1>9 DEF CheckInv

LEMMA CheckStutters == ASSUME CheckInv, UNCHANGED checkVars PROVE CheckInv'
BY DEF CheckInv, CheckTyped, InTurn, NewestSurvives, checkVars, Intact, Wrapped, Newest

\* A mount that succeeds works with whole copies, and with the newest ones unless a
\* pointer was left or the counter wrapped.
THEOREM NewestSurvivesAlways == CheckSpec => []NewestSurvives
<1>1. CheckInit => CheckInv
  BY CheckInitially
<1>2. CheckInv /\ [CheckNext]_checkVars => CheckInv'
  BY VerifyKeeps, WriteKeeps, CheckStutters DEF CheckNext, IdFaults
<1>3. CheckInv => NewestSurvives
  BY DEF CheckInv
<1> QED
  BY <1>1, <1>2, <1>3, PTL DEF CheckSpec

-----------------------------------------------------------------------------
(***************************************************************************)
(* The links of the DVD driver's waiting queues are a line per priority,   *)
(* for every set of priorities and every finite set of blocks.             *)
(***************************************************************************)

\* Place i of a ring of the blocks s, which its sentinel q opens and closes.
Place(q, s, i) == IF i \in 1 .. Len(s) THEN s[i] ELSE q

\* The links close the blocks s to a ring behind the sentinel q.
Strung(nx, pv, q, s) ==
  \A i \in 0 .. Len(s) : /\ nx[Place(q, s, i)] = Place(q, s, i + 1)
                         /\ pv[Place(q, s, i + 1)] = Place(q, s, i)

Links == [Nodes -> Nodes \cup {Null}]

\* Each sentinel has its ring, and no block is in two.
Rings(nx, pv, line) ==
  /\ \A q \in Queues : line[q] \in Lines(Blocks) /\ Strung(nx, pv, q, line[q])
  /\ \A p, q \in Queues : p # q => ToSet(line[p]) \cap ToSet(line[q]) = {}

LinesNow == [q \in Queues |-> BlocksOf(q)]

\* The links are what the walks along them find.
QueueIInv ==
  /\ next \in Links /\ prev \in Links
  /\ Rings(next, prev, LinesNow)

-----------------------------------------------------------------------------
LEMMA PlaceIs ==
  ASSUME NEW q \in Queues, NEW s \in Lines(Blocks)
  PROVE  /\ Len(s) \in Nat /\ DOMAIN s = 1 .. Len(s)
         /\ Place(q, s, 0) = q /\ Place(q, s, Len(s) + 1) = q
         /\ \A i \in 1 .. Len(s) : Place(q, s, i) = s[i] /\ s[i] \in Blocks /\ s[i] \notin Queues
         /\ \A i \in Int : Place(q, s, i) \in {q} \cup ToSet(s) /\ Place(q, s, i) \in Nodes
         /\ \A i, j \in 0 .. Len(s) : Place(q, s, i) = Place(q, s, j) => i = j
         /\ \A i, j \in 1 .. Len(s) + 1 : Place(q, s, i) = Place(q, s, j) => i = j
<1>1. s \in Seq(Blocks) /\ Len(s) \in Nat /\ DOMAIN s = 1 .. Len(s) /\ s \in [1 .. Len(s) -> Blocks]
  BY SeqFacts DEF Lines
<1>2. \A i \in 1 .. Len(s) : Place(q, s, i) = s[i] /\ s[i] \in Blocks /\ s[i] \notin Queues /\ s[i] \in ToSet(s)
  BY <1>1, QueueAssumption DEF Place, ToSet
<1>3. \A i \in Int : i \notin 1 .. Len(s) => Place(q, s, i) = q
  BY DEF Place
<1>4. 0 \notin 1 .. Len(s) /\ Len(s) + 1 \notin 1 .. Len(s) /\ Len(s) + 1 \in Int
  BY <1>1
<1>5. \A i, j \in 1 .. Len(s) : s[i] = s[j] => i = j
  BY <1>1 DEF Lines, IsInjective
<1>6. ASSUME NEW i \in Int PROVE Place(q, s, i) \in {q} \cup ToSet(s) /\ Place(q, s, i) \in Nodes
  BY <1>2, <1>3 DEF Nodes
<1>7. ASSUME NEW i \in 0 .. Len(s), NEW j \in 0 .. Len(s), Place(q, s, i) = Place(q, s, j) PROVE i = j
  <2>1. (i = 0 \/ i \in 1 .. Len(s)) /\ (j = 0 \/ j \in 1 .. Len(s))
    BY <1>1
  <2> QED
    BY <1>2, <1>3, <1>4, <1>5, <1>7, <2>1
<1>8. ASSUME NEW i \in 1 .. Len(s) + 1, NEW j \in 1 .. Len(s) + 1, Place(q, s, i) = Place(q, s, j) PROVE i = j
  <2>1. (i = Len(s) + 1 \/ i \in 1 .. Len(s)) /\ (j = Len(s) + 1 \/ j \in 1 .. Len(s))
    BY <1>1
  <2> QED
    BY <1>2, <1>3, <1>4, <1>5, <1>8, <2>1
<1> QED
  BY <1>1, <1>2, <1>3, <1>4, <1>6, <1>7, <1>8

-----------------------------------------------------------------------------
(* A walk meets the blocks of the ring. *)

\* How far a walk has come after n steps, and what it has met.
Far(s, n) == IF n < Len(s) THEN n ELSE Len(s)

Met(q, s, n) == [i \in 1 .. Far(s, n) + 1 |-> Place(q, s, i - 1)]

Step(nx, q, t) == IF nx[Last(t)] = q THEN t ELSE Append(t, nx[Last(t)])

\* t holds the first places of the ring, up to place m.
Opens(q, s, m, t) ==
  /\ t \in Seq(Nodes) /\ Len(t) = m + 1 /\ t # <<>>
  /\ \A i \in 1 .. m + 1 : t[i] = Place(q, s, i - 1)
  /\ Last(t) = Place(q, s, m)

LEMMA MetIs ==
  ASSUME NEW q \in Queues, NEW s \in Lines(Blocks), NEW n \in Nat
  PROVE  Far(s, n) \in 0 .. Len(s) /\ Opens(q, s, Far(s, n), Met(q, s, n))
<1> DEFINE m == Far(s, n)
           t == Met(q, s, n)
<1>1. m \in 0 .. Len(s) /\ m + 1 \in Nat
  BY PlaceIs DEF Far
<1>2. t = [i \in 1 .. m + 1 |-> Place(q, s, i - 1)]
  BY DEF Met
<1> HIDE DEF m, t
<1>3. \A i \in 1 .. m + 1 : Place(q, s, i - 1) \in Nodes /\ i - 1 \in Int
  BY <1>1, PlaceIs
<1>4. t \in Seq(Nodes) /\ Len(t) = m + 1
  BY <1>1, <1>2, <1>3
<1>5. t # <<>> /\ \A i \in 1 .. m + 1 : t[i] = Place(q, s, i - 1)
  BY <1>1, <1>2, <1>4
<1>6. Last(t) = t[m + 1] /\ m + 1 \in 1 .. m + 1 /\ (m + 1) - 1 = m
  BY <1>1, <1>4 DEF Last
<1>7. Last(t) = Place(q, s, m)
  BY <1>5, <1>6
<1> QED
  BY <1>1, <1>4, <1>5, <1>7 DEF m, t, Opens

LEMMA StepIs ==
  ASSUME NEW nx, NEW pv, NEW q \in Queues, NEW s \in Lines(Blocks), Strung(nx, pv, q, s), NEW n \in Nat
  PROVE  Step(nx, q, Met(q, s, n)) = Met(q, s, n + 1)
<1> DEFINE m == Far(s, n)
           t == Met(q, s, n)
           u == Met(q, s, n + 1)
<1>0. Len(s) \in Nat /\ n + 1 \in Nat
  BY PlaceIs
<1>1. /\ m \in 0 .. Len(s) /\ t \in Seq(Nodes) /\ Len(t) = m + 1
      /\ \A i \in 1 .. m + 1 : t[i] = Place(q, s, i - 1)
      /\ Last(t) = Place(q, s, m)
  BY MetIs DEF Opens
<1>2. nx[Last(t)] = Place(q, s, m + 1)
  BY <1>1 DEF Strung
<1>3. CASE n < Len(s)
  <2>1. m = n /\ n + 1 \in 1 .. Len(s)
    BY <1>0, <1>3 DEF Far
  <2>2. nx[Last(t)] = s[n + 1] /\ s[n + 1] # q /\ s[n + 1] \in Nodes /\ Place(q, s, n + 1) = s[n + 1]
    BY <1>2, <2>1, PlaceIs DEF Nodes
  <2>3. Far(s, n + 1) = n + 1
    BY <1>0, <1>3 DEF Far
  <2>4. u \in Seq(Nodes) /\ Len(u) = n + 2 /\ \A i \in 1 .. n + 2 : u[i] = Place(q, s, i - 1)
    <3>1. Opens(q, s, n + 1, u)
      BY <1>0, <2>3, MetIs
    <3> HIDE DEF u
    <3> QED
      BY <3>1 DEF Opens
  <2>5. Len(t) = n + 1 /\ \A i \in 1 .. n + 1 : t[i] = Place(q, s, i - 1)
    BY <1>1, <2>1
  <2>6. t \in Seq(Nodes)
    BY <1>1
  <2>7. Step(nx, q, t) = Append(t, s[n + 1])
    BY <2>2 DEF Step
  <2> HIDE DEF t, u, m
  <2>8. /\ Append(t, s[n + 1]) \in Seq(Nodes) /\ Len(Append(t, s[n + 1])) = n + 2
        /\ \A i \in 1 .. n + 1 : Append(t, s[n + 1])[i] = t[i]
        /\ Append(t, s[n + 1])[n + 2] = s[n + 1]
    BY <2>2, <2>5, <2>6
  <2> DEFINE v == Append(t, s[n + 1])
  <2>9. \A i \in 1 .. n + 2 : v[i] = u[i]
    <3> TAKE i \in 1 .. n + 2
    <3>1. CASE i = n + 2
      <4>1. i - 1 = n + 1
        BY <3>1
      <4> QED
        BY <2>2, <2>4, <2>8, <3>1, <4>1
    <3>2. CASE i # n + 2
      <4>1. i \in 1 .. n + 1
        BY <3>2
      <4> QED
        BY <2>4, <2>5, <2>8, <4>1
    <3> QED
      BY <3>1, <3>2
  <2>10. v \in Seq(Nodes) /\ Len(v) = Len(u)
    BY <2>4, <2>8
  <2> HIDE DEF v
  <2>11. v = u
    BY <2>4, <2>9, <2>10, SeqEqual
  <2> QED
    BY <2>7, <2>11 DEF v, t, u
<1>4. CASE ~(n < Len(s))
  <2>1. m = Len(s) /\ Far(s, n + 1) = Far(s, n)
    BY <1>0, <1>4 DEF Far
  <2>2. nx[Last(t)] = q
    BY <1>2, <2>1, PlaceIs
  <2>3. Met(q, s, n + 1) = Met(q, s, n)
    BY <2>1 DEF Met
  <2> QED
    BY <2>2, <2>3 DEF Step
<1> QED
  BY <1>3, <1>4

\* A line is no longer than the set of its blocks.
LEMMA LineFits ==
  ASSUME NEW s \in Lines(Blocks) PROVE Cardinality(Blocks) \in Nat /\ Len(s) <= Cardinality(Blocks)
<1> DEFINE n == Len(s)
           I == 1 .. n
<1>1. n \in Nat /\ s \in [I -> Blocks] /\ n \in Int /\ n >= 0 /\ DOMAIN s = I
  BY SeqFacts DEF Lines
<1>2. \A i, j \in I : i # j => s[i] # s[j]
  BY <1>1 DEF Lines, IsInjective
<1>3. IsFiniteSet(I) /\ Cardinality(I) = n
  <2> HIDE DEF n
  <2> QED
    BY <1>1, FS_Interval
<1> HIDE DEF I, n
<1>4. IsFiniteSet(Blocks) /\ Cardinality(Blocks) \in Nat
  BY QueueAssumption, FS_CardinalityType
<1>5. ~(Cardinality(Blocks) < Cardinality(I))
  BY <1>1, <1>2, <1>3, <1>4, FS_PigeonHole
<1> QED
  BY <1>1, <1>3, <1>4, <1>5 DEF n

LEMMA WalkIs ==
  ASSUME NEW nx, NEW pv, NEW q \in Queues, NEW s \in Lines(Blocks), Strung(nx, pv, q, s)
  PROVE  RingWalk(nx, q) = s
<1> DEFINE N == Cardinality(Blocks) + 1
           W(w) == w = [n \in Nat |-> IF n = 0 THEN <<q>> ELSE Step(nx, q, w[n - 1])]
           walk == CHOOSE w : W(w)
           met == [n \in Nat |-> Met(q, s, n)]
<1>1. RingWalk(nx, q) = Tail(walk[N])
  BY DEF RingWalk, Step
<1>2. Met(q, s, 0) = <<q>>
  <2>1. Far(s, 0) = 0 /\ Place(q, s, 0) = q
    BY PlaceIs DEF Far
  <2>2. Met(q, s, 0) \in Seq(Nodes) /\ Len(Met(q, s, 0)) = 1 /\ Met(q, s, 0)[1] = q
    <3>1. Opens(q, s, 0, Met(q, s, 0))
      BY <2>1, MetIs
    <3>2. 1 \in 1 .. 0 + 1 /\ 1 - 1 = 0
      OBVIOUS
    <3> QED
      BY <2>1, <3>1, <3>2 DEF Opens
  <2> QED
    BY <2>2
<1>3. W(met)
  <2>1. ASSUME NEW n \in Nat PROVE met[n] = IF n = 0 THEN <<q>> ELSE Step(nx, q, met[n - 1])
    <3>1. CASE n = 0
      BY <1>2, <3>1
    <3>2. CASE n # 0
      <4>1. n - 1 \in Nat /\ (n - 1) + 1 = n
        BY <3>2
      <4>2. Step(nx, q, Met(q, s, n - 1)) = Met(q, s, (n - 1) + 1)
        BY <4>1, StepIs
      <4> QED
        BY <3>2, <4>1, <4>2
    <3> QED
      BY <3>1, <3>2
  <2> HIDE DEF met
  <2>2. met = [n \in Nat |-> met[n]]
    BY DEF met
  <2> QED
    BY <2>1, <2>2
<1>4. W(walk)
  <2> HIDE DEF W
  <2> QED
    BY <1>3
<1> HIDE DEF walk
<1> DEFINE T == {n \in Nat : walk[n] = Met(q, s, n)}
<1>5. 0 \in T
  BY <1>2, <1>4
<1>6. ASSUME NEW n \in Nat, n \in T PROVE n + 1 \in T
  <2>1. n + 1 \in Nat /\ n + 1 # 0 /\ (n + 1) - 1 = n
    OBVIOUS
  <2>2. walk[n + 1] = Step(nx, q, walk[n])
    BY <1>4, <2>1
  <2> QED
    BY <1>6, <2>1, <2>2, StepIs
<1>7. N \in Nat /\ N \in T /\ ~(N < Len(s))
  <2>1. N \in Nat /\ ~(N < Len(s))
    BY LineFits, PlaceIs
  <2> HIDE DEF T, N
  <2> QED
    BY <1>5, <1>6, <2>1, SetInduction
<1> DEFINE t == Met(q, s, N)
<1>8. walk[N] = t
  BY <1>7
<1> HIDE DEF N, W, T
<1>9. Opens(q, s, Len(s), t)
  <2>1. Far(s, N) = Len(s)
    BY <1>7 DEF Far
  <2> QED
    BY <1>7, <2>1, MetIs
<1> HIDE DEF t
<1>10. t \in Seq(Nodes) /\ Len(t) = Len(s) + 1 /\ t # <<>> /\ \A i \in 1 .. Len(s) + 1 : t[i] = Place(q, s, i - 1)
  BY <1>9 DEF Opens
<1>11. Tail(t) \in Seq(Nodes) /\ Len(Tail(t)) = Len(s) /\ \A i \in 1 .. Len(s) : Tail(t)[i] = t[i + 1]
  <2>1. Len(s) \in Nat
    BY PlaceIs
  <2> QED
    BY <1>10, <2>1, HeadTailProperties
<1>12. \A i \in 1 .. Len(s) : Tail(t)[i] = s[i]
  <2> TAKE i \in 1 .. Len(s)
  <2>1. i + 1 \in 1 .. Len(s) + 1 /\ (i + 1) - 1 = i
    BY PlaceIs
  <2>2. Place(q, s, i) = s[i]
    BY PlaceIs
  <2> QED
    BY <1>10, <1>11, <2>1, <2>2
<1>13. s \in Seq(Nodes)
  <2>1. s \in Seq(Blocks)
    BY DEF Lines
  <2> QED
    BY <2>1 DEF Nodes
<1> QED
  BY <1>1, <1>8, <1>11, <1>12, <1>13, SeqEqual

-----------------------------------------------------------------------------
(* What pushing a block and taking one out do to the rings. *)

Agree(nx, pv, nx2, pv2, S) == \A x \in S : nx2[x] = nx[x] /\ pv2[x] = pv[x]

\* The block b has gone into the ring of q as its last.
Pushed(nx, pv, nx2, pv2, q, b) ==
  \A x \in Nodes :
    /\ nx2[x] = IF x = b THEN q ELSE IF x = pv[q] THEN b ELSE nx[x]
    /\ pv2[x] = IF x = q THEN b ELSE IF x = b THEN pv[q] ELSE pv[x]

\* The block at place k of the ring has been bridged; its own links may be anything.
Bridged(nx, pv, nx2, pv2, q, s, k) ==
  \A x \in Nodes \ {s[k]} :
    /\ nx2[x] = IF x = Place(q, s, k - 1) THEN Place(q, s, k + 1) ELSE nx[x]
    /\ pv2[x] = IF x = Place(q, s, k + 1) THEN Place(q, s, k - 1) ELSE pv[x]

LEMMA StrungKept ==
  ASSUME NEW nx, NEW pv, NEW nx2, NEW pv2, NEW q \in Queues, NEW s \in Lines(Blocks),
         Strung(nx, pv, q, s), Agree(nx, pv, nx2, pv2, {q} \cup ToSet(s))
  PROVE  Strung(nx2, pv2, q, s)
<1>1. ASSUME NEW i \in 0 .. Len(s)
      PROVE  nx2[Place(q, s, i)] = Place(q, s, i + 1) /\ pv2[Place(q, s, i + 1)] = Place(q, s, i)
  <2>1. Len(s) \in Nat /\ i \in Int /\ i + 1 \in Int
    BY PlaceIs
  <2>2. Place(q, s, i) \in {q} \cup ToSet(s) /\ Place(q, s, i + 1) \in {q} \cup ToSet(s)
    BY <2>1, PlaceIs
  <2>3. nx[Place(q, s, i)] = Place(q, s, i + 1) /\ pv[Place(q, s, i + 1)] = Place(q, s, i)
    BY DEF Strung
  <2> QED
    BY <2>2, <2>3 DEF Agree
<1> QED
  BY <1>1 DEF Strung

LEMMA StrungPush ==
  ASSUME NEW nx, NEW pv, NEW nx2, NEW pv2, NEW q \in Queues, NEW s \in Lines(Blocks),
         Strung(nx, pv, q, s), NEW b \in Blocks \ ToSet(s), Pushed(nx, pv, nx2, pv2, q, b)
  PROVE  /\ pv[q] \in {q} \cup ToSet(s)
         /\ Strung(nx2, pv2, q, Append(s, b))
<1> DEFINE n == Len(s)
           t == Append(s, b)
<1>1. n \in Nat /\ n \in 0 .. n /\ n \in Int /\ n + 1 \in Int
  BY PlaceIs
<1>2. Place(q, s, n + 1) = q /\ pv[Place(q, s, n + 1)] = Place(q, s, n) /\ Place(q, s, n) \in {q} \cup ToSet(s)
  BY <1>1, PlaceIs DEF Strung
<1>3. pv[q] = Place(q, s, n)
  BY <1>2
<1>4. t \in Lines(Blocks) /\ Len(t) = n + 1 /\ t[n + 1] = b /\ \A i \in 1 .. n : t[i] = s[i]
  <2>1. s \in Seq(Blocks)
    BY DEF Lines
  <2> QED
    BY <2>1, AppendIs, AppendLine
<1>5. b \in Nodes /\ b # q /\ q \in Nodes
  BY QueueAssumption DEF Nodes
<1> HIDE DEF t
<1>6. Place(q, t, n + 1) = b /\ Place(q, t, n + 2) = q
  <2>1. n + 1 \in 1 .. Len(t) /\ n + 2 \notin 1 .. Len(t)
    BY <1>1, <1>4
  <2> QED
    BY <1>4, <2>1 DEF Place
<1>7. ASSUME NEW i \in 0 .. n PROVE Place(q, t, i) = Place(q, s, i)
  <2>1. CASE i = 0
    <3>1. i \notin 1 .. Len(t) /\ i \notin 1 .. Len(s)
      BY <2>1
    <3> QED
      BY <3>1 DEF Place
  <2>2. CASE i # 0
    <3>1. i \in 1 .. n /\ i \in 1 .. Len(t)
      BY <1>1, <1>4, <2>2
    <3> QED
      BY <1>4, <3>1 DEF Place
  <2> QED
    BY <2>1, <2>2
<1>8. ASSUME NEW i \in 0 .. n + 1
      PROVE  nx2[Place(q, t, i)] = Place(q, t, i + 1) /\ pv2[Place(q, t, i + 1)] = Place(q, t, i)
  <2>1. CASE i = n + 1
    <3>1. Place(q, t, i) = b /\ Place(q, t, i + 1) = q
      BY <1>1, <1>6, <2>1
    <3> QED
      BY <1>5, <3>1 DEF Pushed
  <2>2. CASE i = n
    <3>1. Place(q, t, i) = pv[q] /\ Place(q, t, i + 1) = b
      BY <1>1, <1>3, <1>6, <1>7, <2>2
    <3>2. pv[q] # b /\ pv[q] \in Nodes
      BY <1>1, <1>2, <1>3, <1>5, PlaceIs
    <3> QED
      BY <1>5, <3>1, <3>2 DEF Pushed
  <2>3. CASE i \in 0 .. n - 1
    <3>1. i \in 0 .. n /\ i + 1 \in 1 .. n /\ i + 1 \in 0 .. n /\ i \in Int /\ i + 1 \in Int /\ i # n
      BY <1>1, <2>3
    <3>2. Place(q, t, i) = Place(q, s, i) /\ Place(q, t, i + 1) = Place(q, s, i + 1)
      BY <1>7, <3>1
    <3>3. nx[Place(q, s, i)] = Place(q, s, i + 1) /\ pv[Place(q, s, i + 1)] = Place(q, s, i)
      BY <3>1 DEF Strung
    <3>4. Place(q, s, i) # Place(q, s, n) /\ Place(q, s, i) # b /\ Place(q, s, i) \in Nodes
      BY <1>1, <1>5, <3>1, PlaceIs
    <3>5. Place(q, s, i + 1) # q /\ Place(q, s, i + 1) # b /\ Place(q, s, i + 1) \in Nodes
      <4>1. Place(q, s, i + 1) = s[i + 1] /\ s[i + 1] \notin Queues
        BY <3>1, PlaceIs
      <4>2. Place(q, s, i + 1) \in {q} \cup ToSet(s)
        BY <3>1, PlaceIs
      <4> QED
        BY <1>5, <3>1, <4>1, <4>2, PlaceIs
    <3> QED
      BY <1>3, <3>2, <3>3, <3>4, <3>5 DEF Pushed
  <2> QED
    BY <1>1, <2>1, <2>2, <2>3
<1>9. Strung(nx2, pv2, q, t)
  BY <1>4, <1>8 DEF Strung
<1> QED
  BY <1>2, <1>3, <1>9 DEF t

LEMMA StrungBridge ==
  ASSUME NEW nx, NEW pv, NEW nx2, NEW pv2, NEW q \in Queues, NEW s \in Lines(Blocks),
         Strung(nx, pv, q, s), NEW k \in 1 .. Len(s), Bridged(nx, pv, nx2, pv2, q, s, k)
  PROVE  Strung(nx2, pv2, q, RemoveFirst(s, s[k]))
<1> DEFINE n == Len(s)
           t == RemoveFirst(s, s[k])
<1>1. n \in Nat /\ k \in 1 .. n /\ DOMAIN s = 1 .. n /\ s[k] \in ToSet(s)
  BY PlaceIs DEF ToSet
<1>2. PICK l \in 1 .. n : s[l] = s[k] /\ t = [i \in 1 .. n - 1 |-> IF i < l THEN s[i] ELSE s[i + 1]]
  <2>1. s \in Seq(Blocks)
    BY DEF Lines
  <2> QED
    BY <1>1, <2>1, RemoveFirstIs
<1>3. l = k
  BY <1>1, <1>2 DEF Lines, IsInjective
<1>4. t \in Lines(Blocks)
  BY <1>1, RemoveFirstLine
<1>5. Len(t) = n - 1
  <2>1. DOMAIN t = 1 .. n - 1 /\ n - 1 \in Nat
    BY <1>1, <1>2
  <2>2. DOMAIN t = 1 .. Len(t) /\ Len(t) \in Nat
    BY <1>4, PlaceIs
  <2> HIDE DEF t, n
  <2> QED
    BY <2>1, <2>2
<1> HIDE DEF t
<1>6. ASSUME NEW i \in 0 .. n PROVE Place(q, t, i) = Place(q, s, IF i < k THEN i ELSE i + 1)
  <2>1. CASE i = 0
    <3>1. i \notin 1 .. Len(t) /\ i \notin 1 .. n /\ i < k
      BY <1>1, <2>1
    <3> QED
      BY <3>1 DEF Place
  <2>2. CASE i = n
    <3>1. i \notin 1 .. Len(t) /\ i + 1 \notin 1 .. n /\ ~(i < k)
      BY <1>1, <1>5, <2>2
    <3> QED
      BY <3>1 DEF Place
  <2>3. CASE i \in 1 .. n - 1
    <3>1. i \in 1 .. Len(t) /\ i \in 1 .. n /\ i + 1 \in 1 .. n
      BY <1>1, <1>5, <2>3
    <3>2. t[i] = IF i < k THEN s[i] ELSE s[i + 1]
      BY <1>2, <1>3, <2>3
    <3> QED
      BY <3>1, <3>2 DEF Place
  <2>4. i = 0 \/ i = n \/ i \in 1 .. n - 1
    <3>1. i \in 0 .. n /\ n \in Nat
      BY <1>1
    <3> HIDE DEF n
    <3> QED
      BY <3>1
  <2> QED
    BY <2>1, <2>2, <2>3, <2>4
<1>7. ASSUME NEW i \in 0 .. n - 1
      PROVE  nx2[Place(q, t, i)] = Place(q, t, i + 1) /\ pv2[Place(q, t, i + 1)] = Place(q, t, i)
  <2>0. i \in 0 .. n /\ i + 1 \in 0 .. n /\ i \in Int /\ i + 1 \in Int /\ i + 2 \in Int /\ k \in 0 .. n /\ k - 1 \in 0 .. n /\ k + 1 \in 1 .. n + 1
    BY <1>1
  <2>1. CASE i + 1 < k
    <3>1. Place(q, t, i) = Place(q, s, i) /\ Place(q, t, i + 1) = Place(q, s, i + 1)
      BY <1>1, <1>6, <2>0, <2>1
    <3>2. nx[Place(q, s, i)] = Place(q, s, i + 1) /\ pv[Place(q, s, i + 1)] = Place(q, s, i)
      BY <2>0 DEF Strung
    <3>3. i # k - 1 /\ i # k /\ i + 1 # k /\ i + 1 # k + 1 /\ i + 1 \in 1 .. n + 1 /\ k \in 1 .. n + 1
      BY <1>1, <2>0, <2>1
    <3>4. Place(q, s, k) = s[k]
      BY PlaceIs
    <3>5. Place(q, s, i) \in Nodes \ {s[k]} /\ Place(q, s, i) # Place(q, s, k - 1)
      BY <2>0, <3>3, <3>4, PlaceIs
    <3>6. Place(q, s, i + 1) \in Nodes \ {s[k]} /\ Place(q, s, i + 1) # Place(q, s, k + 1)
      BY <2>0, <3>3, <3>4, PlaceIs
    <3> QED
      BY <3>1, <3>2, <3>5, <3>6 DEF Bridged
  <2>2. CASE i + 1 = k
    <3>1. Place(q, t, i) = Place(q, s, k - 1) /\ Place(q, t, i + 1) = Place(q, s, k + 1)
      <4>1. i < k /\ i = k - 1 /\ ~(i + 1 < k) /\ (i + 1) + 1 = k + 1
        BY <1>1, <2>0, <2>2
      <4> QED
        BY <1>6, <2>0, <4>1
    <3>2. Place(q, s, k) = s[k] /\ k # k - 1 /\ k # k + 1 /\ k \in 1 .. n + 1 /\ k - 1 \in Int /\ k + 1 \in Int
      BY <1>1, PlaceIs
    <3>3. Place(q, s, k - 1) \in Nodes \ {s[k]} /\ Place(q, s, k + 1) \in Nodes \ {s[k]}
      BY <2>0, <3>2, PlaceIs
    <3> QED
      BY <3>1, <3>3 DEF Bridged
  <2>3. CASE ~(i + 1 < k) /\ i + 1 # k
    <3>1. Place(q, t, i) = Place(q, s, i + 1) /\ Place(q, t, i + 1) = Place(q, s, i + 2)
      <4>1. ~(i < k) /\ ~(i + 1 < k) /\ (i + 1) + 1 = i + 2
        BY <1>1, <2>0, <2>3
      <4> QED
        BY <1>6, <2>0, <4>1
    <3>2. nx[Place(q, s, i + 1)] = Place(q, s, i + 2) /\ pv[Place(q, s, i + 2)] = Place(q, s, i + 1)
      <4>1. (i + 1) + 1 = i + 2
        BY <2>0
      <4> QED
        BY <2>0, <4>1 DEF Strung
    <3>3. i + 1 # k - 1 /\ i + 1 # k /\ i + 2 # k /\ i + 2 # k + 1 /\ i + 2 \in 1 .. n + 1 /\ k \in 1 .. n + 1
      BY <1>1, <2>0, <2>3
    <3>4. Place(q, s, k) = s[k]
      BY PlaceIs
    <3>5. Place(q, s, i + 1) \in Nodes \ {s[k]} /\ Place(q, s, i + 1) # Place(q, s, k - 1)
      BY <2>0, <3>3, <3>4, PlaceIs
    <3>6. Place(q, s, i + 2) \in Nodes \ {s[k]} /\ Place(q, s, i + 2) # Place(q, s, k + 1)
      BY <2>0, <3>3, <3>4, PlaceIs
    <3> QED
      BY <3>1, <3>2, <3>5, <3>6 DEF Bridged
  <2> QED
    BY <2>1, <2>2, <2>3
<1> QED
  BY <1>5, <1>7 DEF Strung, t

-----------------------------------------------------------------------------
(* The same for all the rings. *)

\* The node x is not of the ring of q.
LEMMA RingApart ==
  ASSUME NEW nx, NEW pv, NEW line, Rings(nx, pv, line), NEW p \in Queues, NEW q \in Queues, p # q
  PROVE  ({p} \cup ToSet(line[p])) \cap ({q} \cup ToSet(line[q])) = {}
<1>1. line[p] \in Lines(Blocks) /\ line[q] \in Lines(Blocks) /\ ToSet(line[p]) \cap ToSet(line[q]) = {}
  BY DEF Rings
<1>2. \A s \in Lines(Blocks) : ToSet(s) \subseteq Blocks
  BY SeqFacts DEF Lines
<1>3. p \notin Blocks /\ q \notin Blocks
  BY QueueAssumption
<1> QED
  BY <1>1, <1>2, <1>3

LEMMA RingsPush ==
  ASSUME NEW nx, NEW pv, NEW nx2, NEW pv2, NEW line \in [Queues -> Lines(Blocks)], Rings(nx, pv, line),
         NEW q \in Queues, NEW b \in Blocks, \A p \in Queues : b \notin ToSet(line[p]),
         Pushed(nx, pv, nx2, pv2, q, b)
  PROVE  Rings(nx2, pv2, [line EXCEPT ![q] = Append(line[q], b)])
<1> DEFINE s == line[q]
           t == Append(s, b)
           line2 == [line EXCEPT ![q] = t]
<1>1. s \in Lines(Blocks) /\ Strung(nx, pv, q, s) /\ b \in Blocks \ ToSet(s)
  BY DEF Rings
<1>2. t \in Lines(Blocks) /\ ToSet(t) = ToSet(s) \cup {b}
  BY <1>1, AppendLine
<1>3. pv[q] \in {q} \cup ToSet(s) /\ Strung(nx2, pv2, q, t)
  <2> HIDE DEF s
  <2> QED
    BY <1>1, StrungPush
<1> HIDE DEF t
<1>4. line2[q] = t /\ \A p \in Queues : p # q => line2[p] = line[p]
  OBVIOUS
<1> HIDE DEF line2
<1>5. ASSUME NEW p \in Queues, p # q PROVE line[p] \in Lines(Blocks) /\ Strung(nx2, pv2, p, line[p])
  <2>1. line[p] \in Lines(Blocks) /\ Strung(nx, pv, p, line[p])
    BY DEF Rings
  <2>2. Agree(nx, pv, nx2, pv2, {p} \cup ToSet(line[p]))
    <3> SUFFICES ASSUME NEW x \in {p} \cup ToSet(line[p]) PROVE nx2[x] = nx[x] /\ pv2[x] = pv[x]
      BY DEF Agree
    <3>1. x \notin {q} \cup ToSet(s)
      BY <1>5, RingApart
    <3>2. x # b
      BY QueueAssumption
    <3>3. x \in Nodes
      <4>1. ToSet(line[p]) \subseteq Blocks
        BY <2>1, SeqFacts DEF Lines
      <4> QED
        BY <4>1 DEF Nodes
    <3> QED
      BY <1>3, <3>1, <3>2, <3>3 DEF Pushed
  <2> QED
    BY <2>1, <2>2, StrungKept
<1>6. ASSUME NEW p \in Queues PROVE line2[p] \in Lines(Blocks) /\ Strung(nx2, pv2, p, line2[p])
  BY <1>2, <1>3, <1>4, <1>5
<1>7. ASSUME NEW p \in Queues, NEW r \in Queues, p # r PROVE ToSet(line2[p]) \cap ToSet(line2[r]) = {}
  <2>1. ToSet(line[p]) \cap ToSet(line[r]) = {}
    BY <1>7 DEF Rings
  <2>2. b \notin ToSet(line[p]) /\ b \notin ToSet(line[r])
    OBVIOUS
  <2> QED
    BY <1>2, <1>4, <1>7, <2>1, <2>2
<1> QED
  BY <1>6, <1>7 DEF Rings, line2, t

Departs(line, b) == [p \in Queues |-> RemoveFirst(line[p], b)]

LEMMA RingsBridge ==
  ASSUME NEW nx, NEW pv, NEW nx2, NEW pv2, NEW line \in [Queues -> Lines(Blocks)], Rings(nx, pv, line),
         NEW q \in Queues, NEW k \in 1 .. Len(line[q]), Bridged(nx, pv, nx2, pv2, q, line[q], k)
  PROVE  /\ Rings(nx2, pv2, Departs(line, line[q][k]))
         /\ \A p \in Queues : p # q => Departs(line, line[q][k])[p] = line[p]
         /\ Departs(line, line[q][k])[q] = RemoveFirst(line[q], line[q][k])
<1> DEFINE s == line[q]
           b == s[k]
           line2 == Departs(line, b)
<1>1. s \in Lines(Blocks) /\ Strung(nx, pv, q, s) /\ Len(s) \in Nat /\ DOMAIN s = 1 .. Len(s)
  BY SeqFacts DEF Rings, Lines
<1>2. b \in ToSet(s) /\ b \in Nodes
  <2>1. b \in ToSet(s)
    BY <1>1 DEF ToSet
  <2>2. ToSet(s) \subseteq Blocks
    BY <1>1, SeqFacts DEF Lines
  <2> QED
    BY <2>1, <2>2 DEF Nodes
<1>3. line2[q] = RemoveFirst(s, b)
  BY DEF Departs
<1>4. ASSUME NEW p \in Queues, p # q PROVE line2[p] = line[p]
  <2>1. line[p] \in Seq(Blocks) /\ b \notin ToSet(line[p])
    BY <1>2, <1>4 DEF Rings, Lines
  <2>2. RemoveFirst(line[p], b) = line[p]
    <3> HIDE DEF b
    <3> QED
      BY <2>1, RemoveFirstNone
  <2> QED
    BY <2>2 DEF Departs
<1>5. line2[q] \in Lines(Blocks) /\ ToSet(line2[q]) = ToSet(s) \ {b}
  <2> HIDE DEF b, s, line2
  <2> QED
    BY <1>1, <1>2, <1>3, RemoveFirstLine
<1>6. Strung(nx2, pv2, q, line2[q])
  <2>1. Strung(nx2, pv2, q, RemoveFirst(s, s[k]))
    <3> HIDE DEF b, line2
    <3>1. k \in 1 .. Len(s) /\ Bridged(nx, pv, nx2, pv2, q, s, k)
      OBVIOUS
    <3> HIDE DEF s
    <3> QED
      BY <1>1, <3>1, StrungBridge
  <2> QED
    BY <1>3, <2>1
<1>7. ASSUME NEW p \in Queues, p # q PROVE line[p] \in Lines(Blocks) /\ Strung(nx2, pv2, p, line[p])
  <2>1. line[p] \in Lines(Blocks) /\ Strung(nx, pv, p, line[p])
    BY DEF Rings
  <2>2. Agree(nx, pv, nx2, pv2, {p} \cup ToSet(line[p]))
    <3> SUFFICES ASSUME NEW x \in {p} \cup ToSet(line[p]) PROVE nx2[x] = nx[x] /\ pv2[x] = pv[x]
      BY DEF Agree
    <3>1. x \notin {q} \cup ToSet(s)
      BY <1>7, RingApart
    <3>2. x \in Nodes
      <4>1. ToSet(line[p]) \subseteq Blocks
        BY <2>1, SeqFacts DEF Lines
      <4> QED
        BY <4>1 DEF Nodes
    <3>3. Place(q, s, k - 1) \in {q} \cup ToSet(s) /\ Place(q, s, k + 1) \in {q} \cup ToSet(s)
      <4>1. k - 1 \in Int /\ k + 1 \in Int
        BY <1>1
      <4> HIDE DEF s
      <4> QED
        BY <1>1, <4>1, PlaceIs
    <3>4. x \in Nodes \ {s[k]} /\ x # Place(q, s, k - 1) /\ x # Place(q, s, k + 1)
      BY <1>2, <3>1, <3>2, <3>3
    <3> QED
      BY <3>4 DEF Bridged
  <2> QED
    BY <2>1, <2>2, StrungKept
<1> HIDE DEF line2
<1>8. ASSUME NEW p \in Queues PROVE line2[p] \in Lines(Blocks) /\ Strung(nx2, pv2, p, line2[p])
  BY <1>4, <1>5, <1>6, <1>7
<1>9. ASSUME NEW p \in Queues, NEW r \in Queues, p # r PROVE ToSet(line2[p]) \cap ToSet(line2[r]) = {}
  <2>1. ToSet(line[p]) \cap ToSet(line[r]) = {}
    BY <1>9 DEF Rings
  <2> QED
    BY <1>4, <1>5, <1>9, <2>1
<1>10. Rings(nx2, pv2, line2)
  BY <1>8, <1>9 DEF Rings
<1> QED
  BY <1>3, <1>4, <1>10 DEF line2

LEMMA RingsAre ==
  ASSUME NEW nx, NEW pv, NEW line \in [Queues -> Lines(Blocks)], Rings(nx, pv, line)
  PROVE  [q \in Queues |-> RingWalk(nx, q)] = line
<1>1. ASSUME NEW q \in Queues PROVE RingWalk(nx, q) = line[q]
  BY WalkIs DEF Rings
<1> QED
  BY <1>1

-----------------------------------------------------------------------------
(* The steps. *)

LEMMA QueueInitially == QueueInit => QueueIInv /\ LinesNow = [q \in Queues |-> <<>>]
<1> SUFFICES ASSUME QueueInit PROVE QueueIInv /\ LinesNow = [q \in Queues |-> <<>>]
  OBVIOUS
<1> DEFINE line == [q \in Queues |-> <<>>]
<1>1. next \in Links /\ prev \in Links
  BY DEF QueueInit, Cleared, Links, Nodes
<1>2. \A q \in Queues : line[q] \in Lines(Blocks) /\ ToSet(line[q]) = {}
  BY EmptyLine
<1>3. ASSUME NEW q \in Queues PROVE Strung(next, prev, q, line[q])
  <2>1. Len(line[q]) = 0 /\ \A i \in Int : Place(q, line[q], i) = q
    BY DEF Place
  <2>2. next[q] = q /\ prev[q] = q
    BY DEF QueueInit, Cleared, Nodes
  <2>3. \A i \in 0 .. 0 : i \in Int /\ i + 1 \in Int
    OBVIOUS
  <2> HIDE DEF line
  <2> QED
    BY <2>1, <2>2, <2>3 DEF Strung
<1>4. Rings(next, prev, line) /\ line \in [Queues -> Lines(Blocks)]
  BY <1>2, <1>3 DEF Rings
<1> HIDE DEF line
<1>5. LinesNow = line
  BY <1>4, RingsAre DEF LinesNow, BlocksOf
<1> QED
  BY <1>1, <1>4, <1>5 DEF QueueIInv, line

\* What the invariant says of the lines.
LEMMA LinesTyped ==
  ASSUME QueueIInv
  PROVE  /\ LinesNow \in [Queues -> Lines(Blocks)] /\ Rings(next, prev, LinesNow)
         /\ \A q \in Queues : LinesNow[q] = BlocksOf(q) /\ ToSet(LinesNow[q]) \subseteq Blocks
         /\ \A q \in Queues : next[q] # q <=> LinesNow[q] # <<>>
         /\ \A q \in Queues : LinesNow[q] # <<>> => next[q] = Head(LinesNow[q])
<1>1. \A q \in Queues : LinesNow[q] \in Lines(Blocks) /\ LinesNow[q] = BlocksOf(q)
  BY DEF QueueIInv, Rings, LinesNow
<1>2. LinesNow \in [Queues -> Lines(Blocks)]
  <2>1. LinesNow = [q \in Queues |-> LinesNow[q]]
    BY DEF LinesNow
  <2> QED
    BY <1>1, <2>1
<1>3. \A q \in Queues : ToSet(LinesNow[q]) \subseteq Blocks
  BY <1>1, SeqFacts DEF Lines
<1>4. ASSUME NEW q \in Queues
      PROVE  /\ (next[q] # q) <=> (LinesNow[q] # <<>>)
             /\ LinesNow[q] # <<>> => next[q] = Head(LinesNow[q])
  <2> DEFINE s == LinesNow[q]
  <2>1. s \in Lines(Blocks) /\ Strung(next, prev, q, s)
    BY <1>1 DEF QueueIInv, Rings
  <2> HIDE DEF s
  <2>2. Len(s) \in Nat /\ 0 \in 0 .. Len(s) /\ Place(q, s, 0) = q /\ 0 + 1 = 1
    BY <2>1, PlaceIs
  <2>3. next[q] = Place(q, s, 1)
    BY <2>1, <2>2 DEF Strung
  <2>4. CASE s = <<>>
    <3>1. Len(s) + 1 = 1 /\ Place(q, s, Len(s) + 1) = q
      BY <2>1, <2>4, PlaceIs
    <3> QED
      BY <2>3, <2>4, <3>1 DEF s
  <2>5. CASE s # <<>>
    <3>1. s \in Seq(Blocks)
      BY <2>1 DEF Lines
    <3>2. 1 \in 1 .. Len(s) /\ Head(s) = s[1]
      BY <2>5, <3>1
    <3>3. Place(q, s, 1) = s[1] /\ s[1] \notin Queues
      BY <2>1, <3>2, PlaceIs
    <3> QED
      BY <2>3, <2>5, <3>2, <3>3 DEF s
  <2> QED
    BY <2>4, <2>5
<1> QED
  BY <1>1, <1>2, <1>3, <1>4 DEF QueueIInv

LEMMA PushSteps ==
  ASSUME QueueIInv, NEW q \in Queues, NEW b \in Blocks, DVDPushWaitingQueue(q, b)
  PROVE  QueueIInv' /\ Waiting!Push(q, b)
<1> DEFINE line == LinesNow
           line2 == [line EXCEPT ![q] = Append(line[q], b)]
<1>1. line \in [Queues -> Lines(Blocks)] /\ Rings(next, prev, line) /\ \A p \in Queues : line[p] = BlocksOf(p)
  BY LinesTyped
<1>2. \A p \in Queues : b \notin ToSet(line[p])
  BY <1>1 DEF DVDPushWaitingQueue, DVDIsBlockInWaitingQueue
<1>3. next \in Links /\ prev \in Links /\ q \in Nodes /\ b \in Nodes /\ b # q
  BY QueueAssumption DEF QueueIInv, Nodes
<1> HIDE DEF line
<1>4. prev[q] \in {q} \cup ToSet(line[q])
  <2>1. line[q] \in Lines(Blocks) /\ Strung(next, prev, q, line[q])
    BY <1>1 DEF Rings
  <2> DEFINE s == line[q]
  <2>2. s \in Lines(Blocks) /\ Strung(next, prev, q, s)
    BY <2>1
  <2> HIDE DEF s
  <2>3. Len(s) \in 0 .. Len(s) /\ Place(q, s, Len(s) + 1) = q /\ Place(q, s, Len(s)) \in {q} \cup ToSet(s)
    BY <2>2, PlaceIs
  <2>4. prev[q] \in {q} \cup ToSet(s)
    BY <2>2, <2>3 DEF Strung
  <2> QED
    BY <2>4 DEF s
<1>5. prev[q] \in Nodes /\ prev[q] # b
  <2>1. line[q] \in Lines(Blocks)
    BY <1>1
  <2>2. ToSet(line[q]) \subseteq Blocks
    BY <2>1, SeqFacts DEF Lines
  <2> QED
    BY <1>2, <1>3, <1>4, <2>2 DEF Nodes
<1>6. next' \in Links /\ prev' \in Links /\ Pushed(next, prev, next', prev', q, b)
  <2>1. next' = [next EXCEPT ![prev[q]] = b, ![b] = q] /\ prev' = [prev EXCEPT ![b] = prev[q], ![q] = b]
    BY DEF DVDPushWaitingQueue
  <2> QED
    BY <1>3, <1>5, <2>1 DEF Links, Pushed
<1>7. Rings(next', prev', line2)
  BY <1>1, <1>2, <1>6, RingsPush
<1>8. line2 \in [Queues -> Lines(Blocks)]
  <2>1. Append(line[q], b) \in Lines(Blocks)
    BY <1>1, <1>2, AppendLine
  <2> QED
    BY <1>1, <2>1
<1> HIDE DEF line2
<1>9. LinesNow' = line2
  BY <1>7, <1>8, RingsAre DEF LinesNow, BlocksOf
<1>10. QueueIInv'
  BY <1>6, <1>7, <1>9 DEF QueueIInv
<1>11. b \notin UNION {ToSet(LinesNow[p]) : p \in Queues}
  BY <1>2 DEF line
<1>12. LinesNow' = [LinesNow EXCEPT ![q] = Append(@, b)] /\ UNCHANGED popped
  BY <1>9 DEF line, line2, DVDPushWaitingQueue
<1> QED
  BY <1>10, <1>11, <1>12 DEF Waiting!Push, Waiting!Waiting, Waiting!ToSet, ToSet, LinesNow

\* What both ways of taking a block out of a ring have in common.
LEMMA BridgeSteps ==
  ASSUME QueueIInv, NEW q \in Queues, NEW k \in 1 .. Len(LinesNow[q]),
         next' \in Links, prev' \in Links, Bridged(next, prev, next', prev', q, LinesNow[q], k)
  PROVE  /\ QueueIInv' /\ LinesNow' = Departs(LinesNow, LinesNow[q][k])
         /\ \A p \in Queues : p # q => LinesNow'[p] = LinesNow[p]
         /\ LinesNow'[q] = RemoveFirst(LinesNow[q], LinesNow[q][k])
<1> DEFINE line == LinesNow
           b == line[q][k]
           line2 == Departs(line, b)
<1>1. line \in [Queues -> Lines(Blocks)] /\ Rings(next, prev, line)
  BY LinesTyped
<1> HIDE DEF line
<1>2. /\ Rings(next', prev', line2) /\ line2[q] = RemoveFirst(line[q], b)
      /\ \A p \in Queues : p # q => line2[p] = line[p]
  <2>1. k \in 1 .. Len(line[q]) /\ Bridged(next, prev, next', prev', q, line[q], k)
    BY DEF line
  <2> HIDE DEF line2
  <2>2. /\ Rings(next', prev', Departs(line, line[q][k]))
        /\ \A p \in Queues : p # q => Departs(line, line[q][k])[p] = line[p]
        /\ Departs(line, line[q][k])[q] = RemoveFirst(line[q], line[q][k])
    BY <1>1, <2>1, RingsBridge
  <2> QED
    BY <2>2 DEF line2
<1>3. line2 \in [Queues -> Lines(Blocks)]
  <2>1. \A p \in Queues : line2[p] \in Lines(Blocks)
    BY <1>2 DEF Rings
  <2>2. line2 = [p \in Queues |-> line2[p]]
    BY DEF Departs
  <2> QED
    BY <2>1, <2>2
<1> HIDE DEF line2
<1>4. LinesNow' = line2
  BY <1>2, <1>3, RingsAre DEF LinesNow, BlocksOf
<1>5. QueueIInv'
  BY <1>2, <1>4 DEF QueueIInv
<1> QED
  BY <1>2, <1>4, <1>5 DEF line, line2

LEMMA PopSteps ==
  ASSUME QueueIInv, NEW q \in Queues, next[q] # q, \A p \in Queues : next[p] # p => q <= p,
         PopWaitingQueuePrio(q)
  PROVE  QueueIInv' /\ Waiting!Pop(q)
<1> DEFINE s == LinesNow[q]
           b == next[q]
<1>1. /\ LinesNow \in [Queues -> Lines(Blocks)] /\ s \in Lines(Blocks) /\ s # <<>> /\ b = Head(s)
      /\ Strung(next, prev, q, s)
      /\ \A p \in Queues : next[p] # p <=> LinesNow[p] # <<>>
  BY LinesTyped DEF Rings
<1>2. next \in Links /\ prev \in Links /\ q \in Nodes
  BY DEF QueueIInv, Nodes
<1>3. /\ next' = [next EXCEPT ![q] = next[b], ![b] = Null]
      /\ prev' = [prev EXCEPT ![next[b]] = q, ![b] = Null]
      /\ popped' = b
  BY DEF PopWaitingQueuePrio
<1> HIDE DEF s, b
<1>4. 1 \in 1 .. Len(s) /\ b = s[1] /\ Len(s) \in Nat
  BY <1>1 DEF Lines
<1>5. Place(q, s, 0) = q /\ Place(q, s, 1) = b /\ Place(q, s, 2) \in Nodes /\ b \in Nodes /\ b # q
  <2>1. 2 \in Int /\ b \in Blocks
    BY <1>1, <1>4, PlaceIs
  <2> QED
    BY <1>1, <1>4, <2>1, PlaceIs, QueueAssumption DEF Nodes
<1>6. next[b] = Place(q, s, 2)
  <2>1. 1 \in 0 .. Len(s) /\ 1 + 1 = 2
    BY <1>4
  <2> QED
    BY <1>1, <1>5, <2>1 DEF Strung
<1>7. next' \in Links /\ prev' \in Links /\ Bridged(next, prev, next', prev', q, s, 1)
  <2>1. next[b] \in Nodes \cup {Null} /\ Null \in Nodes \cup {Null} /\ q \in Nodes \cup {Null}
    BY <1>2, <1>5, <1>6
  <2>2. next' \in Links /\ prev' \in Links
    BY <1>2, <1>3, <2>1 DEF Links
  <2>3. 1 - 1 = 0 /\ 1 + 1 = 2
    OBVIOUS
  <2>4. \A x \in Nodes \ {b} : /\ next'[x] = IF x = q THEN next[b] ELSE next[x]
                               /\ prev'[x] = IF x = next[b] THEN q ELSE prev[x]
    BY <1>2, <1>3 DEF Links
  <2>5. Bridged(next, prev, next', prev', q, s, 1)
    BY <1>4, <1>5, <1>6, <2>3, <2>4 DEF Bridged
  <2> QED
    BY <2>2, <2>5
<1>8. /\ QueueIInv' /\ LinesNow'[q] = RemoveFirst(s, b)
      /\ \A p \in Queues : p # q => LinesNow'[p] = LinesNow[p]
  BY <1>4, <1>7, BridgeSteps DEF s
<1>9. RemoveFirst(s, b) = Tail(s)
  BY <1>1, RemoveHead
<1>10. LinesNow' = [LinesNow EXCEPT ![q] = Tail(@)]
  <2>1. LinesNow' = [p \in Queues |-> LinesNow'[p]]
    BY DEF LinesNow
  <2> QED
    BY <1>1, <1>8, <1>9, <2>1 DEF s
<1>11. popped' = Head(LinesNow[q]) /\ LinesNow[q] # <<>> /\ \A p \in Queues : LinesNow[p] # <<>> => q <= p
  BY <1>1, <1>3 DEF s
<1> QED
  BY <1>8, <1>10, <1>11 DEF Waiting!Pop, LinesNow

LEMMA PopNothingSteps ==
  ASSUME QueueIInv, ~DVDCheckWaitingQueue, popped' = Null, UNCHANGED <<next, prev>>
  PROVE  QueueIInv' /\ Waiting!PopNothing
<1>1. \A q \in Queues : LinesNow[q] = <<>>
  BY LinesTyped DEF DVDCheckWaitingQueue
<1>2. ToSet(<<>>) = {}
  BY EmptyLine
<1>3. UNION {ToSet(LinesNow[q]) : q \in Queues} = {}
  BY <1>1, <1>2
<1>4. LinesNow' = LinesNow
  BY DEF LinesNow, BlocksOf
<1>5. QueueIInv'
  BY <1>4 DEF QueueIInv
<1> QED
  BY <1>3, <1>4, <1>5 DEF Waiting!PopNothing, Waiting!Waiting, Waiting!ToSet, ToSet, LinesNow

LEMMA DequeueSteps ==
  ASSUME QueueIInv, NEW b \in Blocks, DVDDequeueWaitingQueue(b)
  PROVE  QueueIInv' /\ Waiting!Leave(b)
<1>1. PICK q \in Queues : b \in ToSet(LinesNow[q])
  BY LinesTyped DEF DVDDequeueWaitingQueue, DVDIsBlockInWaitingQueue
<1> DEFINE s == LinesNow[q]
<1>2. LinesNow \in [Queues -> Lines(Blocks)] /\ s \in Lines(Blocks) /\ Strung(next, prev, q, s)
  BY LinesTyped DEF Rings
<1>3. next \in Links /\ prev \in Links
  BY DEF QueueIInv
<1>4. next' = [next EXCEPT ![prev[b]] = next[b]] /\ prev' = [prev EXCEPT ![next[b]] = prev[b]] /\ popped' = popped
  BY DEF DVDDequeueWaitingQueue
<1>5. b \in ToSet(s)
  BY <1>1
<1> HIDE DEF s
<1>6. PICK k \in 1 .. Len(s) : s[k] = b
  BY <1>2, <1>5, PlaceIs DEF ToSet
<1>7. /\ Len(s) \in Nat /\ k \in 0 .. Len(s) /\ k - 1 \in 0 .. Len(s) /\ (k - 1) + 1 = k
      /\ k - 1 \in Int /\ k + 1 \in Int
  BY <1>2, PlaceIs
<1>8. Place(q, s, k) = b /\ Place(q, s, k - 1) \in Nodes /\ Place(q, s, k + 1) \in Nodes
  BY <1>2, <1>6, <1>7, PlaceIs
<1>9. next[b] = Place(q, s, k + 1) /\ prev[b] = Place(q, s, k - 1)
  BY <1>2, <1>7, <1>8 DEF Strung
<1>10. next' \in Links /\ prev' \in Links /\ Bridged(next, prev, next', prev', q, s, k)
  BY <1>3, <1>4, <1>8, <1>9 DEF Links, Bridged
<1>11. QueueIInv' /\ LinesNow' = Departs(LinesNow, b)
  BY <1>6, <1>10, BridgeSteps DEF s
<1>12. b \in UNION {ToSet(LinesNow[p]) : p \in Queues}
  BY <1>1
<1>13. \A t : Waiting!RemoveFirst(t, b) = RemoveFirst(t, b)
  BY DEF Waiting!RemoveFirst, Waiting!RemoveAt, RemoveFirst, RemoveAt, Waiting!SelectInSeq, SelectInSeq, Waiting!Min, Min
<1>14. LinesNow' = [p \in Queues |-> Waiting!RemoveFirst(LinesNow[p], b)]
  BY <1>11, <1>13 DEF Departs
<1> QED
  BY <1>4, <1>11, <1>12, <1>14 DEF Waiting!Leave, Waiting!Waiting, Waiting!ToSet, ToSet, LinesNow

\* The rings of links stay rings, whatever is queued, served and taken out, and each
\* call does to the lines what the abstract queue says.
LEMMA QueueSteps == QueueIInv /\ [QueueNext]_queueVars => QueueIInv' /\ [Waiting!Next]_<<LinesNow, popped>>
<1> SUFFICES ASSUME QueueIInv, [QueueNext]_queueVars
             PROVE  QueueIInv' /\ [Waiting!Next]_<<LinesNow, popped>>
  OBVIOUS
<1>1. CASE \E q \in Queues, b \in Blocks : DVDPushWaitingQueue(q, b)
  BY <1>1, PushSteps DEF Waiting!Next
<1>2. CASE DVDPopWaitingQueue
  <2>1. CASE ~DVDCheckWaitingQueue /\ popped' = Null /\ UNCHANGED <<next, prev>>
    BY <2>1, PopNothingSteps DEF Waiting!Next
  <2>2. CASE \E q \in Queues : /\ next[q] # q /\ \A p \in Queues : next[p] # p => q <= p
                               /\ PopWaitingQueuePrio(q)
    BY <2>2, PopSteps DEF Waiting!Next
  <2> QED
    BY <1>2, <2>1, <2>2 DEF DVDPopWaitingQueue
<1>3. CASE \E b \in Blocks : DVDDequeueWaitingQueue(b)
  BY <1>3, DequeueSteps DEF Waiting!Next
<1>4. CASE UNCHANGED queueVars
  <2>1. LinesNow' = LinesNow /\ next' = next /\ prev' = prev /\ popped' = popped
    BY <1>4 DEF LinesNow, BlocksOf, queueVars
  <2> QED
    BY <2>1 DEF QueueIInv
<1> QED
  BY <1>1, <1>2, <1>3, <1>4 DEF QueueNext

\* The links of a waiting queue always close its blocks to one ring behind its
\* sentinel, forward and backward, and no block is in two rings or twice in one.
THEOREM RingsAlways == QueueSpec => []QueueIInv
<1>1. QueueInit => QueueIInv
  BY QueueInitially
<1>2. QueueIInv /\ [QueueNext]_queueVars => QueueIInv'
  BY QueueSteps
<1> QED
  BY <1>1, <1>2, PTL DEF QueueSpec

\* The driver's linked queues implement the line per priority (dvdqueue.c).
THEOREM QueuesAreLinesAlways == QueueSpec => QueuesAreLines
<1>1. QueueInit => Waiting!Init
  BY QueueInitially DEF Waiting!Init, QueueInit, LinesNow
<1>2. QueueIInv /\ [QueueNext]_queueVars => [Waiting!Next]_<<LinesNow, popped>>
  BY QueueSteps
<1>3. QueueIInv /\ [QueueNext]_queueVars => [Waiting!Next]_<<[q \in Queues |-> BlocksOf(q)], popped>>
  BY <1>2 DEF LinesNow
<1> QED
  BY <1>1, <1>3, RingsAlways, PTL DEF QueueSpec, QueuesAreLines, Waiting!Spec

-----------------------------------------------------------------------------
(***************************************************************************)
(* A read of a file on disc stays inside the file, for every table, list   *)
(* of paths, sizes and arguments.                                          *)
(***************************************************************************)
\* The sizes of the test files are u32 values, and an open file has a number.
FsTyped ==
  /\ testFiles \in [0 .. MaxFiles - 1 -> 0 .. U32 - 1]
  /\ disc \in Tables \cup {NoTable}
  /\ loaded => disc # NoTable
  /\ info # NoInfo => info.entry \in Nat

FsInv == FsTyped /\ ReadsInside

LEMMA FsInitially == FsInit => FsInv
<1> SUFFICES ASSUME FsInit PROVE FsInv
  OBVIOUS
<1>1. 0 \in 0 .. U32 - 1
  BY DiscAssumption
<1>2. ReadsInside
  BY DEF FsInit, NoRead, ReadsInside
<1> QED
  BY <1>1, <1>2 DEF FsInit, FsInv, FsTyped

\* What a read returns for a file of this size.
LEMMA ResultInside ==
  ASSUME NEW size \in 0 .. U32 - 1, NEW len \in ReadArgs, NEW offset \in ReadArgs,
         NEW n, n = ReadResult(size, offset, len)
  PROVE  \/ n = -1
         \/ n \in Nat /\ offset \in Nat /\ len >= n /\ n = len /\ (n = 0 \/ offset + n <= size)
         \/ n \in Nat /\ offset \in Nat /\ len >= n /\ offset + n = size
<1> DEFINE half == U32 \div 2
           sum == offset + len
<1>1. U32 \in Nat \ {0} /\ half \in Nat /\ half + half <= U32
  BY DiscAssumption
<1>2. offset \in -half .. half - 1 /\ len \in -half .. half - 1
  BY DiscAssumption
<1> HIDE DEF half
<1>3. offset \in Int /\ len \in Int /\ size \in Nat /\ sum \in Int
  BY <1>1, <1>2
<1>4. CASE size = 0 \/ offset < 0 \/ len < 0 \/ offset > size
  BY <1>4 DEF ReadResult
<1>5. CASE ~(size = 0 \/ offset < 0 \/ len < 0 \/ offset > size)
  <2>1. sum \in Nat /\ sum < U32
    BY <1>1, <1>2, <1>3, <1>5
  <2>2. sum % U32 = sum
    <3> HIDE DEF sum
    <3> QED
      BY <1>1, <2>1
  <2>3. n = IF sum > size THEN size - offset ELSE len
    <3> DEFINE end == sum % U32
    <3>1. n = IF end > size THEN size - offset ELSE len
      BY <1>5 DEF ReadResult
    <3> QED
      BY <2>2, <3>1
  <2> QED
    BY <1>3, <1>5, <2>3
<1> QED
  BY <1>4, <1>5

LEMMA ReadInside ==
  ASSUME FsInv, NEW len \in ReadArgs, NEW offset \in ReadArgs, DVDReadAsync(len, offset)
  PROVE  FsInv'
<1> DEFINE size == IF info.entry < MaxFiles THEN testFiles[info.entry] ELSE 0
           n == ReadResult(size, offset, len)
<1>1. /\ info # NoInfo
      /\ read' = [offset |-> offset, len |-> len, size |-> size, n |-> n,
                  callback |-> IF n < 0 THEN -1 ELSE n, result |-> IF n < 0 THEN 0 ELSE 1]
      /\ UNCHANGED <<disc, loaded, cwd, testPaths, testFiles, info>>
  BY DEF DVDReadAsync
<1>2. info.entry \in Nat /\ testFiles \in [0 .. MaxFiles - 1 -> 0 .. U32 - 1]
  BY <1>1 DEF FsInv, FsTyped
<1>3. size \in 0 .. U32 - 1
  <2>1. CASE info.entry < MaxFiles
    <3>1. info.entry \in 0 .. MaxFiles - 1
      BY <1>2, <2>1, DiscAssumption
    <3> QED
      BY <1>2, <2>1, <3>1
  <2>2. CASE ~(info.entry < MaxFiles)
    BY <2>2, DiscAssumption
  <2> QED
    BY <2>1, <2>2
<1> HIDE DEF size
<1>4. \/ n = -1
      \/ n \in Nat /\ offset \in Nat /\ len >= n /\ n = len /\ (n = 0 \/ offset + n <= size)
      \/ n \in Nat /\ offset \in Nat /\ len >= n /\ offset + n = size
  BY <1>3, ResultInside
<1>5. size \in Int
  BY <1>3
<1> HIDE DEF n
<1>6. /\ read'.offset = offset /\ read'.len = len /\ read'.size = size /\ read'.n = n
      /\ read'.callback = (IF n < 0 THEN -1 ELSE n) /\ read'.result = (IF n < 0 THEN 0 ELSE 1)
  BY <1>1
<1>7. ReadsInside'
  <2>1. CASE n = -1
    BY <1>6, <2>1 DEF ReadsInside
  <2>2. CASE n \in Nat /\ offset \in Nat /\ len >= n /\ n = len /\ (n = 0 \/ offset + n <= size)
    BY <1>5, <1>6, <2>2 DEF ReadsInside
  <2>3. CASE n \in Nat /\ offset \in Nat /\ len >= n /\ offset + n = size
    BY <1>5, <1>6, <2>3 DEF ReadsInside
  <2> QED
    BY <1>4, <2>1, <2>2, <2>3
<1> QED
  BY <1>1, <1>7 DEF FsInv, FsTyped

\* What a program can open has a number.
LEMMA OpenedNumber ==
  ASSUME FsInv, NEW e, NEW ready \in BOOLEAN, ready => disc # NoTable, Opened(e, ready) # NoInfo
  PROVE  Opened(e, ready).entry \in Nat
<1>1. CASE ready
  <2>1. MaxEntry(disc) \in Nat
    BY <1>1, DiscAssumption DEF FsInv, FsTyped, MaxEntry
  <2>2. e \in 0 .. MaxEntry(disc) - 1 /\ Opened(e, ready).entry = e
    BY <1>1 DEF Opened
  <2> QED
    BY <2>1, <2>2
<1>2. CASE ~ready
  <2>1. e \in 0 .. MaxFiles - 1 /\ Opened(e, ready).entry = e
    BY <1>2 DEF Opened
  <2> QED
    BY <2>1, DiscAssumption
<1> QED
  BY <1>1, <1>2

LEMMA FsStep ==
  ASSUME NEW paths, NEW entries, FsInv, [FsNext(paths, entries)]_fsVars
  PROVE  FsInv'
<1>1. CASE UNCHANGED fsVars
  BY <1>1 DEF fsVars, FsInv, FsTyped, ReadsInside
<1>2. CASE DVDFSInit
  BY <1>2 DEF DVDFSInit, Load, FsInv, FsTyped, ReadsInside
<1>3. ASSUME NEW path \in paths, DVDOpen(path) PROVE FsInv'
  <2> DEFINE ready == disc # NoTable
             opened == Opened(DVDConvertPathToEntrynum(path), ready)
  <2>1. /\ Load /\ info' = (IF opened # NoInfo THEN opened ELSE info)
        /\ UNCHANGED <<cwd, read>>
    BY <1>3 DEF DVDOpen
  <2>2. opened # NoInfo => opened.entry \in Nat
    BY OpenedNumber
  <2> HIDE DEF opened
  <2> QED
    BY <2>1, <2>2 DEF Load, FsInv, FsTyped, ReadsInside
<1>4. ASSUME NEW path \in paths, DVDChangeDir(path) PROVE FsInv'
  BY <1>4 DEF DVDChangeDir, Load, FsInv, FsTyped, ReadsInside
<1>5. ASSUME NEW e \in entries, DVDFastOpen(e) PROVE FsInv'
  <2>1. Opened(e, loaded) # NoInfo /\ info' = Opened(e, loaded)
        /\ UNCHANGED <<disc, loaded, cwd, testPaths, testFiles, read>>
    BY <1>5 DEF DVDFastOpen
  <2>2. info'.entry \in Nat
    <3>1. CASE loaded = TRUE
      BY <2>1, <3>1, OpenedNumber DEF FsInv, FsTyped
    <3>2. CASE loaded # TRUE
      <4>1. info'.entry = e /\ e \in 0 .. MaxFiles - 1 
        BY <2>1, <3>2 DEF Opened
      <4> QED
        BY <4>1, DiscAssumption
    <3> QED
      BY <3>1, <3>2
  <2> QED
    BY <2>1, <2>2 DEF FsInv, FsTyped, ReadsInside
<1>6. ASSUME NEW e \in 0 .. MaxFiles - 1, NEW n \in FileSizes, gc_dvd_test_set_file(e, n) PROVE FsInv'
  BY <1>6, DiscAssumption DEF gc_dvd_test_set_file, FsInv, FsTyped, ReadsInside
<1>7. ASSUME NEW list \in PathLists, gc_dvd_test_set_paths(list) PROVE FsInv'
  BY <1>7 DEF gc_dvd_test_set_paths, FsInv, FsTyped, ReadsInside
<1>8. ASSUME NEW len \in ReadArgs, NEW offset \in ReadArgs, DVDReadAsync(len, offset) PROVE FsInv'
  BY <1>8, ReadInside
<1> QED
  BY <1>1, <1>2, <1>3, <1>4, <1>5, <1>6, <1>7, <1>8 DEF FsNext

\* ReadsInside of DVDFsProps: a read returns what lies between its offset and the end of
\* the file as it is now, never more than was asked for, and the callback is told the same.
THEOREM ReadsInsideAlways ==
  ASSUME NEW paths, NEW entries PROVE FsSpec(paths, entries) => []ReadsInside
<1>1. FsInv /\ [FsNext(paths, entries)]_fsVars => FsInv'
  BY FsStep
<1>2. FsInv => ReadsInside
  BY DEF FsInv
<1> QED
  BY FsInitially, <1>1, <1>2, PTL DEF FsSpec

-----------------------------------------------------------------------------
(***************************************************************************)
(* The module list and the tokens of the retrace callbacks, for any        *)
(* modules and callbacks and any number of host functions told apart.      *)
(***************************************************************************)
LinkRecords == [prev : Modules \cup {NoModule}, next : Modules \cup {NoModule}]
NextModule(lk) == [m \in Modules |-> lk[m].next]
PrevModule(lk) == [m \in Modules |-> lk[m].prev]

\* The list holds the modules of line s, and those outside are clear.
Lists(lk, first, last, s) ==
  /\ lk \in [Modules -> LinkRecords] /\ s \in Lines(Modules)
  /\ DoublyLinked(NextModule(lk), PrevModule(lk), first, last, NoModule, s)
  /\ \A m \in Modules \ ToSet(s) : lk[m].prev = NoModule /\ lk[m].next = NoModule

ModuleInv == Lists(link, moduleHead, moduleTail, order)

\* Whether a module is linked can be told: the first from the head, the others from the
\* link to the one before.
LEMMA LinkedTold ==
  ASSUME ModuleInv, NEW m \in Modules PROVE IsLinked(m) <=> m \in ToSet(order)
<1>1. /\ order \in Lines(Modules) /\ link \in [Modules -> LinkRecords]
      /\ DoublyLinked(NextModule(link), PrevModule(link), moduleHead, moduleTail, NoModule, order)
  BY DEF ModuleInv, Lists
<1>2. /\ Len(order) \in Nat
      /\ \A i \in 1 .. Len(order) : Beside(order, NoModule, i) = order[i] /\ order[i] \in Modules /\ order[i] \in ToSet(order)
      /\ \A i \in Int : Beside(order, NoModule, i) \in ToSet(order) \cup {NoModule}
      /\ \A i \in Int : Beside(order, NoModule, i) = NoModule <=> i \notin 1 .. Len(order)
      /\ \A x \in ToSet(order) : \E i \in 1 .. Len(order) : x = order[i]
  BY <1>1, BesideIs, ModuleAssumption
<1>3. ASSUME m \in ToSet(order) PROVE IsLinked(m)
  <2>1. PICK i \in 1 .. Len(order) : m = order[i]
    BY <1>2, <1>3
  <2>2. link[m].prev = Beside(order, NoModule, i - 1) /\ moduleHead = Beside(order, NoModule, 1)
    BY <1>1, <2>1 DEF DoublyLinked, PrevModule
  <2>3. CASE i = 1
    BY <1>2, <2>1, <2>2, <2>3 DEF IsLinked
  <2>4. CASE i # 1
    <3>1. i - 1 \in 1 .. Len(order) /\ i - 1 \in Int
      BY <1>2, <2>4
    <3> QED
      BY <1>2, <2>2, <3>1 DEF IsLinked
  <2> QED
    BY <2>3, <2>4
<1>4. ASSUME m \notin ToSet(order) PROVE ~IsLinked(m)
  <2>1. link[m].prev = NoModule /\ link[m].next = NoModule
    BY <1>4 DEF ModuleInv, Lists
  <2>2. moduleHead = Beside(order, NoModule, 1)
    BY <1>1 DEF DoublyLinked
  <2>3. moduleHead # m
    BY <1>2, <1>4, <2>2, ModuleAssumption
  <2> QED
    BY <2>1, <2>3 DEF IsLinked
<1> QED
  BY <1>3, <1>4

LEMMA LinkKeeps ==
  ASSUME ModuleInv, NEW m \in Modules, OSLink(m) PROVE ModuleInv'
<1>1. CASE m \in ToSet(order)
  <2>1. UNCHANGED <<moduleHead, moduleTail, link, order>>
    BY <1>1, LinkedTold DEF OSLink
  <2> QED
    BY <2>1 DEF ModuleInv
<1>2. CASE m \notin ToSet(order)
  <2> DEFINE k == Len(order) + 1
             lk == [x \in Modules |->
                      IF x = m THEN [prev |-> moduleTail, next |-> NoModule]
                      ELSE IF x = moduleTail THEN [link[x] EXCEPT !.next = m] ELSE link[x]]
             s == InsertAt(order, k, m)
             first == IF moduleTail = NoModule THEN m ELSE moduleHead
  <2>1. /\ order' = Append(order, m) /\ moduleHead' = first /\ moduleTail' = m /\ link' = lk
    BY <1>2, LinkedTold DEF OSLink
  <2>2. /\ order \in Lines(Modules) /\ link \in [Modules -> LinkRecords]
        /\ DoublyLinked(NextModule(link), PrevModule(link), moduleHead, moduleTail, NoModule, order)
        /\ \A x \in Modules \ ToSet(order) : link[x].prev = NoModule /\ link[x].next = NoModule
    BY DEF ModuleInv, Lists
  <2>3. order \in Seq(Modules) /\ Len(order) \in Nat /\ k \in 1 .. Len(order) + 1
    BY <2>2, SeqFacts DEF Lines
  <2>4. s = Append(order, m)
    BY <2>3, AppendInserts
  <2>5. s \in Lines(Modules) /\ ToSet(s) = ToSet(order) \cup {m}
    BY <1>2, <2>2, <2>3, InsertAtLine
  <2>6. /\ moduleTail = Beside(order, NoModule, k - 1)
        /\ Beside(order, NoModule, k) = NoModule
        /\ moduleTail \in ToSet(order) \cup {NoModule}
    <3>1. k - 1 = Len(order) /\ k \in Int /\ k \notin 1 .. Len(order) /\ Len(order) \in Int
      BY <2>3
    <3>2. moduleTail = Beside(order, NoModule, Len(order))
      BY <2>2 DEF DoublyLinked
    <3>3. Beside(order, NoModule, k) = NoModule
      BY <3>1 DEF Beside
    <3>4. moduleTail \in ToSet(order) \cup {NoModule}
      BY <2>2, <3>1, <3>2, BesideIs, ModuleAssumption
    <3> QED
      BY <3>1, <3>2, <3>3, <3>4
  <2>7. ToSet(order) \subseteq Modules
    BY <2>3, SeqFacts
  <2>8. /\ lk \in [Modules -> LinkRecords]
        /\ lk[m].prev = moduleTail /\ lk[m].next = NoModule
        /\ \A x \in Modules : x # m => /\ lk[x].next = (IF x = moduleTail THEN m ELSE link[x].next)
                                       /\ lk[x].prev = link[x].prev
    BY <2>2, <2>6, <2>7 DEF LinkRecords
  <2> HIDE DEF lk, s, k
  <2> DEFINE nx == NextModule(lk)
             pv == PrevModule(lk)
             nx0 == NextModule(link)
             pv0 == PrevModule(link)
  <2>9. /\ nx[m] = NoModule /\ pv[m] = moduleTail
        /\ \A x \in ToSet(order) : /\ nx[x] = (IF x = moduleTail THEN m ELSE nx0[x])
                                   /\ pv[x] = (IF x = NoModule THEN m ELSE pv0[x])
    BY <1>2, <2>7, <2>8, ModuleAssumption DEF NextModule, PrevModule
  <2>10. DoublyLinked(nx0, pv0, moduleHead, moduleTail, NoModule, order)
    BY <2>2
  <2> HIDE DEF nx, pv, nx0, pv0
  <2>11. LinksIn(nx0, pv0, moduleHead, moduleTail, nx, pv, first, m, NoModule, order, k, m)
    BY <2>6, <2>9 DEF LinksIn
  <2>12. DoublyLinked(nx, pv, first, m, NoModule, s)
    <3>1. NoModule \notin Modules /\ order \in Lines(Modules) /\ m \notin ToSet(order) /\ k \in 1 .. Len(order) + 1
      BY <1>2, <2>2, <2>3, ModuleAssumption
    <3> HIDE DEF first
    <3> QED
      BY <2>10, <2>11, <3>1, LinkedInsert DEF s
  <2>13. \A x \in Modules \ ToSet(s) : lk[x].prev = NoModule /\ lk[x].next = NoModule
    BY <2>2, <2>5, <2>6, <2>7, <2>8, ModuleAssumption
  <2>14. Lists(lk, first, m, s)
    BY <2>5, <2>8, <2>12, <2>13 DEF Lists, nx, pv
  <2> QED
    BY <2>1, <2>4, <2>14 DEF ModuleInv
<1> QED
  BY <1>1, <1>2

LEMMA UnlinkKeeps ==
  ASSUME ModuleInv, NEW m \in Modules, OSUnlink(m) PROVE ModuleInv'
<1>0. order' = RemoveFirst(order, m)
  BY DEF OSUnlink
<1>1. /\ order \in Lines(Modules) /\ link \in [Modules -> LinkRecords]
      /\ DoublyLinked(NextModule(link), PrevModule(link), moduleHead, moduleTail, NoModule, order)
      /\ \A x \in Modules \ ToSet(order) : link[x].prev = NoModule /\ link[x].next = NoModule
  BY DEF ModuleInv, Lists
<1>2. order \in Seq(Modules)
  BY <1>1 DEF Lines
<1>3. CASE m \notin ToSet(order)
  <2>1. UNCHANGED <<moduleHead, moduleTail, link, order>>
    BY <1>0, <1>2, <1>3, LinkedTold, RemoveFirstNone DEF OSUnlink
  <2> QED
    BY <2>1 DEF ModuleInv
<1>4. CASE m \in ToSet(order)
  <2>1. /\ Len(order) \in Nat
        /\ \A i \in 1 .. Len(order) : Beside(order, NoModule, i) = order[i] /\ order[i] \in Modules /\ order[i] \in ToSet(order)
        /\ \A i \in Int : Beside(order, NoModule, i) \in ToSet(order) \cup {NoModule}
        /\ \A i \in Int : Beside(order, NoModule, i) = NoModule <=> i \notin 1 .. Len(order)
        /\ \A i, j \in 1 .. Len(order) : order[i] = order[j] => i = j
        /\ \A x \in ToSet(order) : \E i \in 1 .. Len(order) : x = order[i]
    BY <1>1, BesideIs, ModuleAssumption
  <2>2. PICK k \in 1 .. Len(order) : m = order[k]
    BY <1>4, <2>1
  <2> DEFINE p == link[m].prev
             n == link[m].next
             lk == [x \in Modules |->
                      IF x = m THEN [prev |-> NoModule, next |-> NoModule]
                      ELSE IF x = p THEN [link[x] EXCEPT !.next = n]
                      ELSE IF x = n THEN [link[x] EXCEPT !.prev = p]
                      ELSE link[x]]
             s == RemoveAt(order, k)
             first == IF p = NoModule THEN n ELSE moduleHead
             last == IF n = NoModule THEN p ELSE moduleTail
  <2>3. moduleHead' = first /\ moduleTail' = last /\ link' = lk
    BY <1>4, LinkedTold DEF OSUnlink
  <2>4. s = RemoveFirst(order, m) /\ s \in Lines(Modules) /\ ToSet(s) = ToSet(order) \ {m}
    BY <1>1, <2>2, RemoveAtLine
  <2>5. p = Beside(order, NoModule, k - 1) /\ n = Beside(order, NoModule, k + 1)
    BY <1>1, <2>2 DEF DoublyLinked, NextModule, PrevModule
  <2>6. p \in ToSet(order) \cup {NoModule} /\ n \in ToSet(order) \cup {NoModule} /\ k - 1 \in Int /\ k + 1 \in Int
    <3>1. k - 1 \in Int /\ k + 1 \in Int
      BY <2>1
    <3> QED
      BY <2>1, <2>5, <3>1
  <2>7. ToSet(order) \subseteq Modules
    BY <1>2, SeqFacts
  <2>8. p # n \/ p = NoModule
    <3>1. CASE k - 1 \in 1 .. Len(order) /\ k + 1 \in 1 .. Len(order)
      <4> DEFINE i == k - 1
                 j == k + 1
      <4>1. i # j
        BY <2>1
      <4> HIDE DEF i, j
      <4>2. i \in 1 .. Len(order) /\ j \in 1 .. Len(order) /\ p = Beside(order, NoModule, i)
            /\ n = Beside(order, NoModule, j)
        BY <2>5, <3>1 DEF i, j
      <4> HIDE DEF p, n
      <4>3. p = order[i] /\ n = order[j]
        BY <2>1, <4>2
      <4>4. order[i] # order[j]
        BY <2>1, <4>1, <4>2
      <4> QED
        BY <4>3, <4>4
    <3>2. CASE k - 1 \notin 1 .. Len(order)
      BY <2>1, <2>5, <2>6, <3>2
    <3>3. CASE k - 1 \in 1 .. Len(order) /\ k + 1 \notin 1 .. Len(order)
      BY <2>1, <2>5, <2>6, <3>3
    <3> QED
      BY <3>1, <3>2, <3>3
  <2> HIDE DEF p, n
  <2>9. /\ lk \in [Modules -> LinkRecords]
        /\ lk[m].prev = NoModule /\ lk[m].next = NoModule
        /\ \A x \in Modules : x # m => /\ lk[x].next = (IF x = p THEN n ELSE link[x].next)
                                       /\ lk[x].prev = (IF x = n THEN p ELSE link[x].prev)
    BY <1>1, <2>6, <2>7, <2>8, ModuleAssumption DEF LinkRecords
  <2> HIDE DEF lk, s
  <2> DEFINE nx == NextModule(lk)
             pv == PrevModule(lk)
             nx0 == NextModule(link)
             pv0 == PrevModule(link)
  <2>10. \A x \in ToSet(order) : x # order[k] => /\ nx[x] = (IF x = p THEN n ELSE nx0[x])
                                                 /\ pv[x] = (IF x = n THEN p ELSE pv0[x])
    BY <2>2, <2>7, <2>9 DEF NextModule, PrevModule
  <2>11. DoublyLinked(nx0, pv0, moduleHead, moduleTail, NoModule, order)
    BY <1>1
  <2> HIDE DEF nx, pv, nx0, pv0
  <2>12. DoublyLinked(nx, pv, first, last, NoModule, s)
    <3>1. order \in Lines(Modules) /\ NoModule \notin Modules /\ k \in 1 .. Len(order)
      BY <1>1, ModuleAssumption
    <3>2. LinksOut(nx0, pv0, moduleHead, moduleTail, nx, pv, first, last, NoModule, order, k)
      BY <2>5, <2>10 DEF LinksOut
    <3> HIDE DEF first, last
    <3> QED
      BY <2>11, <3>1, <3>2, LinkedRemove DEF s
  <2>13. \A x \in Modules \ ToSet(s) : lk[x].prev = NoModule /\ lk[x].next = NoModule
    <3> TAKE x \in Modules \ ToSet(s)
    <3>1. CASE x = m
      BY <2>9, <3>1
    <3>2. CASE x # m
      <4>1. x \notin ToSet(order) /\ x # NoModule
        BY <2>4, <3>2, ModuleAssumption
      <4>2. x # p /\ x # n
        BY <2>6, <4>1
      <4> QED
        BY <1>1, <2>9, <3>2, <4>1, <4>2
    <3> QED
      BY <3>1, <3>2
  <2>14. Lists(lk, first, last, s)
    BY <2>4, <2>9, <2>12, <2>13 DEF Lists, nx, pv
  <2> QED
    BY <1>0, <2>3, <2>4, <2>14 DEF ModuleInv
<1> QED
  BY <1>3, <1>4

LEMMA ModuleStep == ModuleInv /\ [ModuleNext]_moduleVars => ModuleInv'
<1> SUFFICES ASSUME ModuleInv, [ModuleNext]_moduleVars PROVE ModuleInv'
  OBVIOUS
<1>1. CASE UNCHANGED moduleVars
  BY <1>1 DEF moduleVars, ModuleInv
<1>2. ASSUME NEW m \in Modules, OSLink(m) \/ OSUnlink(m) PROVE ModuleInv'
  BY <1>2, LinkKeeps, UnlinkKeeps
<1> QED
  BY <1>1, <1>2 DEF ModuleNext

LEMMA ModuleInitially == ModuleInit => ModuleInv
<1> SUFFICES ASSUME ModuleInit PROVE ModuleInv
  OBVIOUS
<1>1. /\ moduleHead = NoModule /\ moduleTail = NoModule /\ order = <<>>
      /\ link = [m \in Modules |-> [prev |-> NoModule, next |-> NoModule]]
  BY DEF ModuleInit
<1>2. <<>> \in Lines(Modules) /\ ToSet(<<>>) = {} /\ Len(<<>>) = 0
  BY EmptyLine
<1>3. \A i \in Int : Beside(order, NoModule, i) = NoModule
  BY <1>1, <1>2 DEF Beside
<1>4. DoublyLinked(NextModule(link), PrevModule(link), moduleHead, moduleTail, NoModule, order)
  BY <1>1, <1>2, <1>3 DEF DoublyLinked
<1> QED
  BY <1>1, <1>2, <1>4 DEF ModuleInv, Lists, LinkRecords

LEMMA ModulesAre == ModuleInv => ModulesLinked
<1> SUFFICES ASSUME ModuleInv PROVE ModulesLinked
  OBVIOUS
<1>1. /\ order \in Lines(Modules) /\ link \in [Modules -> LinkRecords]
      /\ DoublyLinked(NextModule(link), PrevModule(link), moduleHead, moduleTail, NoModule, order)
      /\ \A x \in Modules \ ToSet(order) : link[x].prev = NoModule /\ link[x].next = NoModule
  BY DEF ModuleInv, Lists
<1>2. Len(order) \in Nat /\ DOMAIN order = 1 .. Len(order) /\ \A i \in 1 .. Len(order) : order[i] \in Modules
  BY <1>1, SeqFacts DEF Lines
<1>3. \A i : Neighbour(order, i) = Beside(order, NoModule, i)
  BY <1>2 DEF Neighbour, Beside
<1>4. \A i \in DOMAIN order : link[order[i]] = [prev |-> Neighbour(order, i - 1), next |-> Neighbour(order, i + 1)]
  <2> TAKE i \in DOMAIN order
  <2>1. /\ order[i] \in Modules /\ link[order[i]] \in LinkRecords
        /\ link[order[i]].next = Beside(order, NoModule, i + 1)
        /\ link[order[i]].prev = Beside(order, NoModule, i - 1)
    BY <1>1, <1>2 DEF DoublyLinked, NextModule, PrevModule
  <2> QED
    BY <1>3, <2>1 DEF LinkRecords
<1>5. \A m \in Modules \ ToSet(order) : link[m] = [prev |-> NoModule, next |-> NoModule]
  BY <1>1 DEF LinkRecords
<1>6. moduleHead = Neighbour(order, 1) /\ moduleTail = Neighbour(order, Len(order))
  BY <1>1, <1>3 DEF DoublyLinked
<1> QED
  BY <1>4, <1>5, <1>6, LinkedTold DEF ModulesLinked

-----------------------------------------------------------------------------
\* c is a callback with the token that the table gives it: itself, its number, or the mark
\* of one that came when the table was full.
Known(c, table) ==
  \/ c.fn \notin HostCallbacks /\ c.fn \in AnyCallback /\ c.token = c.fn
  \/ c.fn \in HostCallbacks /\ c.token \in 1 .. Len(table) /\ table[c.token] = c.fn
  \/ /\ c.fn \in HostCallbacks \ ToSet(table) /\ c.token = Overflow
     /\ Len(table) = MaxSeen

VideoInv ==
  /\ seen \in Lines(HostCallbacks) /\ Len(seen) <= MaxSeen
  /\ Known(post, seen) /\ Known(pre, seen)
  /\ heard \in Seq(Nat) /\ retraceCount \in Nat
  /\ told.calls = Len(heard) /\ (heard # <<>> => told.arg = Last(heard))

\* A callback that is installed is known, and the one that was known still is.
LEMMA InstalledKnown ==
  ASSUME VideoInv, NEW cb \in AnyCallback, NEW table, table = Remembered(cb)
  PROVE  /\ table \in Lines(HostCallbacks) /\ Len(table) <= MaxSeen
         /\ Known(Installed(cb), table)
         /\ \A c : Known(c, seen) => Known(c, table)
<1>1. seen \in Lines(HostCallbacks) /\ seen \in Seq(HostCallbacks) /\ Len(seen) <= MaxSeen /\ MaxSeen \in Nat
  BY VideoAssumption DEF VideoInv, Lines
<1>2. Len(seen) \in Nat /\ DOMAIN seen = 1 .. Len(seen) /\ seen \in [1 .. Len(seen) -> HostCallbacks]
  BY <1>1, SeqFacts
<1>3. /\ table \in Lines(HostCallbacks) /\ Len(table) <= MaxSeen
      /\ \A c : Known(c, seen) => Known(c, table)
      /\ cb \in HostCallbacks => cb \in ToSet(table) \/ Len(table) = MaxSeen
  <2>1. CASE cb \in HostCallbacks \ ToSet(seen) /\ Len(seen) < MaxSeen
    <3>1. table = Append(seen, cb)
      BY <2>1 DEF Remembered
    <3>2. table \in Lines(HostCallbacks) /\ ToSet(table) = ToSet(seen) \cup {cb}
      BY <1>1, <2>1, <3>1, AppendLine
    <3>3. Len(table) = Len(seen) + 1 /\ \A i \in 1 .. Len(seen) : table[i] = seen[i]
      BY <1>1, <1>2, <2>1, <3>1
    <3>4. Len(table) <= MaxSeen
      BY <1>1, <1>2, <2>1, <3>3
    <3>5. ASSUME NEW c, Known(c, seen) PROVE Known(c, table)
      <4>1. Len(seen) # MaxSeen
        <5> DEFINE n == Len(seen)
        <5>1. n \in Nat /\ MaxSeen \in Nat /\ n < MaxSeen
          BY <1>1, <1>2, <2>1
        <5> HIDE DEF n
        <5>2. n # MaxSeen
          BY <5>1
        <5> QED
          BY <5>2 DEF n
      <4>2. \A i \in 1 .. Len(seen) : i \in 1 .. Len(table)
        BY <1>2, <3>3
      <4> QED
        BY <3>3, <3>5, <4>1, <4>2 DEF Known
    <3> QED
      BY <3>2, <3>4, <3>5
  <2>2. CASE ~(cb \in HostCallbacks \ ToSet(seen) /\ Len(seen) < MaxSeen)
    <3>1. table = seen
      BY <2>2 DEF Remembered
    <3>2. cb \in HostCallbacks => cb \in ToSet(table) \/ Len(table) = MaxSeen
      <4> DEFINE n == Len(seen)
      <4>1. n \in Nat /\ MaxSeen \in Nat /\ n <= MaxSeen
        BY <1>1, <1>2
      <4>2. cb \in HostCallbacks /\ cb \notin ToSet(seen) => ~(n < MaxSeen)
        BY <2>2
      <4> HIDE DEF n
      <4>3. cb \in HostCallbacks /\ cb \notin ToSet(seen) => n = MaxSeen
        BY <4>1, <4>2
      <4> QED
        BY <3>1, <4>3 DEF n
    <3> QED
      BY <1>1, <3>1, <3>2
  <2> QED
    BY <2>1, <2>2
<1>4. Known(Installed(cb), table)
  <2> DEFINE c == Installed(cb)
  <2> SUFFICES Known(c, table)
    OBVIOUS
  <2>1. c.fn = cb /\ c.token = vi_cb_tokenize(cb)
    BY DEF Installed
  <2> HIDE DEF c
  <2>2. CASE cb \notin HostCallbacks
    <3>1. c.token = cb
      BY <2>1, <2>2 DEF vi_cb_tokenize
    <3> QED
      BY <2>1, <2>2, <3>1 DEF Known
  <2>3. CASE cb \in HostCallbacks /\ cb \in ToSet(table)
    <3> DEFINE I == {i \in 1 .. Len(table) : table[i] = cb}
    <3>1. c.token = SelectInSeq(table, LAMBDA x : x = cb)
      BY <2>1, <2>3 DEF vi_cb_tokenize
    <3>2. Len(table) \in Nat /\ DOMAIN table = 1 .. Len(table)
      BY <1>3, SeqFacts DEF Lines
    <3>3. I \in SUBSET Nat /\ I # {}
      BY <2>3, <3>2 DEF ToSet
    <3>4. Min(I) \in I
      BY <3>3, MinIsLeast
    <3>5. c.token = Min(I)
      BY <3>1, <3>3 DEF SelectInSeq
    <3> QED
      BY <2>1, <2>3, <3>4, <3>5 DEF Known
  <2>4. CASE cb \in HostCallbacks /\ cb \notin ToSet(table)
    <3>1. c.token = Overflow
      BY <2>1, <2>4 DEF vi_cb_tokenize
    <3> QED
      BY <1>3, <2>1, <2>4, <3>1 DEF Known
  <2> QED
    BY <2>2, <2>3, <2>4
<1> QED
  BY <1>3, <1>4

LEMMA VideoInitially == VideoInit => VideoInv
<1> SUFFICES ASSUME VideoInit PROVE VideoInv
  OBVIOUS
<1>1. <<>> \in Lines(HostCallbacks) /\ Len(<<>>) = 0 /\ <<>> \in Seq(Nat)
  BY EmptyLine
<1>2. post.fn = NoCallback /\ post.token = NoCallback /\ pre = post
  BY DEF VideoInit
<1>3. NoCallback \notin HostCallbacks /\ NoCallback \in AnyCallback /\ MaxSeen \in Nat
  BY VideoAssumption DEF AnyCallback
<1>4. Known(post, seen) /\ Known(pre, seen)
  BY <1>2, <1>3 DEF Known
<1>5. seen = <<>> /\ heard = <<>> /\ retraceCount = 0 /\ told.calls = 0
  BY DEF VideoInit
<1> QED
  BY <1>1, <1>3, <1>4, <1>5 DEF VideoInv

LEMMA VideoStep == VideoInv /\ [VideoNext]_videoVars => VideoInv'
<1> SUFFICES ASSUME VideoInv, [VideoNext]_videoVars PROVE VideoInv'
  OBVIOUS
<1>1. CASE UNCHANGED videoVars
  BY <1>1 DEF videoVars, VideoInv
<1>2. ASSUME NEW cb \in AnyCallback, VISetPostRetraceCallback(cb) PROVE VideoInv'
  <2>1. /\ post' = Installed(cb) /\ seen' = Remembered(cb)
        /\ UNCHANGED <<pre, retraceCount, told, heard>>
    BY <1>2 DEF VISetPostRetraceCallback
  <2>2. /\ seen' \in Lines(HostCallbacks) /\ Len(seen') <= MaxSeen
        /\ Known(Installed(cb), seen') /\ \A c : Known(c, seen) => Known(c, seen')
    BY <2>1, InstalledKnown
  <2> QED
    BY <2>1, <2>2 DEF VideoInv
<1>3. ASSUME NEW cb \in AnyCallback, VISetPreRetraceCallback(cb) PROVE VideoInv'
  <2>1. /\ pre' = Installed(cb) /\ seen' = Remembered(cb)
        /\ UNCHANGED <<post, retraceCount, told, heard>>
    BY <1>3 DEF VISetPreRetraceCallback
  <2>2. /\ seen' \in Lines(HostCallbacks) /\ Len(seen') <= MaxSeen
        /\ Known(Installed(cb), seen') /\ \A c : Known(c, seen) => Known(c, seen')
    BY <2>1, InstalledKnown
  <2> QED
    BY <2>1, <2>2 DEF VideoInv
<1>4. ASSUME NEW cb \in AnyCallback, NEW replaced \in BOOLEAN, VIWaitForRetrace(replaced, cb)
      PROVE  VideoInv'
  <2>1. retraceCount' = retraceCount + 1 /\ pre' = pre /\ retraceCount + 1 \in Nat
    BY <1>4 DEF VIWaitForRetrace, VideoInv
  <2>2. CASE post.fn = NoCallback
    <3>1. UNCHANGED <<post, seen, told, heard>>
      BY <1>4, <2>2 DEF VIWaitForRetrace
    <3> QED
      BY <2>1, <3>1 DEF VideoInv
  <2>3. CASE post.fn # NoCallback
    <3>1. /\ heard' = Append(heard, retraceCount + 1)
          /\ told' = [calls |-> told.calls + 1, arg |-> retraceCount + 1]
          /\ post' = (IF replaced THEN Installed(cb) ELSE post)
          /\ seen' = (IF replaced THEN Remembered(cb) ELSE seen)
      BY <1>4, <2>3 DEF VIWaitForRetrace
    <3>2. /\ seen' \in Lines(HostCallbacks) /\ Len(seen') <= MaxSeen
          /\ Known(post', seen') /\ Known(pre, seen')
      <4>1. CASE replaced
        <5>1. /\ seen' \in Lines(HostCallbacks) /\ Len(seen') <= MaxSeen
              /\ Known(Installed(cb), seen') /\ \A c : Known(c, seen) => Known(c, seen')
          BY <3>1, <4>1, InstalledKnown
        <5> QED
          BY <3>1, <4>1, <5>1 DEF VideoInv
      <4>2. CASE ~replaced
        BY <3>1, <4>2 DEF VideoInv
      <4> QED
        BY <4>1, <4>2
    <3>3. heard \in Seq(Nat) /\ told.calls = Len(heard)
      BY DEF VideoInv
    <3>4. /\ heard' \in Seq(Nat) /\ Len(heard') = Len(heard) + 1 /\ heard'[Len(heard) + 1] = retraceCount + 1
      BY <2>1, <3>1, <3>3
    <3>5. told'.calls = Len(heard') /\ told'.arg = Last(heard')
      BY <3>1, <3>3, <3>4 DEF Last
    <3> QED
      BY <2>1, <3>2, <3>4, <3>5 DEF VideoInv
  <2> QED
    BY <2>2, <2>3
<1> QED
  BY <1>1, <1>2, <1>3, <1>4 DEF VideoNext

LEMMA CallbacksAre == VideoInv => CallbacksTold
<1> SUFFICES ASSUME VideoInv PROVE CallbacksTold
  OBVIOUS
<1>1. Known(post, seen) /\ Known(pre, seen) /\ seen \in Lines(HostCallbacks) /\ Len(seen) <= MaxSeen
  BY DEF VideoInv
<1>2. /\ Len(seen) \in Nat /\ DOMAIN seen = 1 .. Len(seen) /\ MaxSeen \in Nat
      /\ \A i, j \in 1 .. Len(seen) : seen[i] = seen[j] => i = j
  BY <1>1, SeqFacts, VideoAssumption DEF Lines, IsInjective
<1>3. /\ \A i \in 1 .. Len(seen) : i \notin AnyCallback \ HostCallbacks /\ i # Overflow
      /\ Overflow \notin AnyCallback \ HostCallbacks
  <2>1. \A i \in 1 .. Len(seen) : i \in 1 .. MaxSeen
    BY <1>1, <1>2
  <2> QED
    BY <2>1, VideoAssumption DEF AnyCallback
<1>4. \A c : Known(c, seen) /\ c.token = Overflow => Len(seen) = MaxSeen /\ c.fn \notin ToSet(seen)
  BY <1>3 DEF Known
<1>5. post.token # Overflow => ((post.token = pre.token) <=> (post.fn = pre.fn))
  <2> SUFFICES ASSUME post.token # Overflow PROVE (post.token = pre.token) <=> (post.fn = pre.fn)
    OBVIOUS
  <2>1. CASE post.fn \notin HostCallbacks /\ post.fn \in AnyCallback /\ post.token = post.fn
    BY <1>1, <1>3, <2>1 DEF Known
  <2>2. CASE post.fn \in HostCallbacks /\ post.token \in 1 .. Len(seen) /\ seen[post.token] = post.fn
    <3>1. post.fn \in ToSet(seen)
      BY <1>2, <2>2 DEF ToSet
    <3>2. CASE pre.fn \notin HostCallbacks /\ pre.fn \in AnyCallback /\ pre.token = pre.fn
      BY <1>3, <2>2, <3>2
    <3>3. CASE pre.fn \in HostCallbacks /\ pre.token \in 1 .. Len(seen) /\ seen[pre.token] = pre.fn
      BY <1>2, <2>2, <3>3
    <3>4. CASE pre.fn \in HostCallbacks \ ToSet(seen) /\ pre.token = Overflow
      BY <3>1, <3>4
    <3> QED
      BY <1>1, <3>2, <3>3, <3>4 DEF Known
  <2> QED
    BY <1>1, <2>1, <2>2 DEF Known
<1>6. told.calls = Len(heard) /\ (heard # <<>> => told.arg = Last(heard))
  BY DEF VideoInv
<1> QED
  BY <1>1, <1>4, <1>5, <1>6 DEF CallbacksTold

-----------------------------------------------------------------------------
\* BookkeepingExact: the module list is what programs linked and did not unlink, each
\* module's links and the test for a linked one included; the tokens of the two retrace
\* callbacks are equal just when the callbacks are, up to the limit of the table.
THEOREM BookkeepingExactAlways == BookSpec => []BookkeepingExact
<1>1. BookInit => ModuleInv /\ VideoInv
  BY ModuleInitially, VideoInitially DEF BookInit
<1>2. ModuleInv /\ VideoInv /\ [BookNext]_bookVars => ModuleInv' /\ VideoInv'
  <2> SUFFICES ASSUME ModuleInv, VideoInv, [BookNext]_bookVars PROVE ModuleInv' /\ VideoInv'
    OBVIOUS
  <2>1. [ModuleNext]_moduleVars /\ [VideoNext]_videoVars
    BY DEF BookNext, bookVars, moduleVars, videoVars
  <2> QED
    BY <2>1, ModuleStep, VideoStep
<1>3. ModuleInv /\ VideoInv => BookkeepingExact
  BY ModulesAre, CallbacksAre DEF BookkeepingExact
<1> QED
  BY <1>1, <1>2, <1>3, PTL DEF BookSpec

-----------------------------------------------------------------------------
(***************************************************************************)
(* The alarm queue implements the line of AlarmClock, for any finite set   *)
(* of alarms, any delays and any periods.                                  *)
(***************************************************************************)
AlarmRecords ==
  [handler : BOOLEAN, fire : Int, prev : Alarms \cup {NoAlarm}, next : Alarms \cup {NoAlarm},
   period : Int, start : Int]

NextAlarm(mem) == [a \in Alarms |-> mem[a].next]
PrevAlarm(mem) == [a \in Alarms |-> mem[a].prev]

\* The queue q holds the alarms of line s, none before one that fires earlier.
Holds(q, s) ==
  /\ q.mem \in [Alarms -> AlarmRecords] /\ s \in Lines(Alarms)
  /\ DoublyLinked(NextAlarm(q.mem), PrevAlarm(q.mem), q.head, q.tail, NoAlarm, s)
  /\ \A i, j \in 1 .. Len(s) : i <= j => q.mem[s[i]].fire <= q.mem[s[j]].fire

\* The alarms of the line are those that are set.
AlarmIInv ==
  /\ systemTime \in Nat /\ created \subseteq Alarms
  /\ \E s \in Lines(Alarms) :
       /\ Holds(Queue, s)
       /\ \A a \in Alarms : a \in ToSet(s) <=> a \in created /\ alarms[a].handler

\* The line of AlarmClock that line s of alarms stands for.
RecordOf(mem, a) ==
  [alarm |-> a, due |-> mem[a].fire, start |-> mem[a].start, period |-> mem[a].period]
LineOf(mem, s) == [i \in 1 .. Len(s) |-> RecordOf(mem, s[i])]
LineRecords == [alarm : Alarms, due : Int, start : Int, period : Int]

-----------------------------------------------------------------------------
(* What the walks along the queue find. *)

LEMMA HeldPlaces ==
  ASSUME NEW q, NEW s, Holds(q, s)
  PROVE  /\ Len(s) \in Nat /\ Cardinality(Alarms) \in Nat /\ Len(s) <= Cardinality(Alarms)
         /\ \A i \in 1 .. Len(s) : /\ Beside(s, NoAlarm, i) = s[i]
                                   /\ s[i] \in Alarms /\ s[i] \in ToSet(s) /\ s[i] # NoAlarm
         /\ \A i \in Int : Beside(s, NoAlarm, i) = NoAlarm <=> i \notin 1 .. Len(s)
         /\ q.head = Beside(s, NoAlarm, 1)
         /\ \A i \in 1 .. Len(s) : /\ q.mem[s[i]].next = Beside(s, NoAlarm, i + 1)
                                   /\ q.mem[s[i]].prev = Beside(s, NoAlarm, i - 1)
                                   /\ q.mem[s[i]].fire \in Int
<1>1. /\ s \in Lines(Alarms) /\ q.mem \in [Alarms -> AlarmRecords]
      /\ DoublyLinked(NextAlarm(q.mem), PrevAlarm(q.mem), q.head, q.tail, NoAlarm, s)
  BY DEF Holds
<1>2. NoAlarm \notin Alarms /\ IsFiniteSet(Alarms)
  BY AlarmAssumption
<1>3. /\ Len(s) \in Nat
      /\ \A i \in 1 .. Len(s) : Beside(s, NoAlarm, i) = s[i] /\ s[i] \in Alarms /\ s[i] \in ToSet(s)
      /\ \A i \in Int : Beside(s, NoAlarm, i) = NoAlarm <=> i \notin 1 .. Len(s)
  BY <1>1, <1>2, BesideIs
<1>4. Cardinality(Alarms) \in Nat /\ Len(s) <= Cardinality(Alarms)
  BY <1>1, <1>2, LineCount
<1>5. /\ q.head = Beside(s, NoAlarm, 1)
      /\ \A i \in 1 .. Len(s) : /\ NextAlarm(q.mem)[s[i]] = Beside(s, NoAlarm, i + 1)
                                /\ PrevAlarm(q.mem)[s[i]] = Beside(s, NoAlarm, i - 1)
  BY <1>1 DEF DoublyLinked
<1>6. \A a \in Alarms : NextAlarm(q.mem)[a] = q.mem[a].next /\ PrevAlarm(q.mem)[a] = q.mem[a].prev /\ q.mem[a].fire \in Int
  BY <1>1 DEF NextAlarm, PrevAlarm, AlarmRecords
<1> QED
  BY <1>2, <1>3, <1>4, <1>5, <1>6

\* The walk from the head meets the alarms of the line.
LEMMA AlarmsOfIs ==
  ASSUME NEW q, NEW s, Holds(q, s)
  PROVE  AlarmsOf(q) = LineOf(q.mem, s)
<1> DEFINE N == Cardinality(Alarms)
           after(a) == IF a = NoAlarm THEN NoAlarm ELSE q.mem[a].next
           W(w) == w = [n \in Nat |-> IF n = 0 THEN q.head
                                      ELSE IF w[n - 1] = NoAlarm THEN NoAlarm ELSE q.mem[w[n - 1]].next]
           walk == CHOOSE w : W(w)
           place == [n \in Nat |-> Beside(s, NoAlarm, n + 1)]
           met == {n \in 0 .. N : walk[n] # NoAlarm}
<1>1. /\ Len(s) \in Nat /\ N \in Nat /\ Len(s) <= N
      /\ \A i \in 1 .. Len(s) : Beside(s, NoAlarm, i) = s[i]
      /\ \A i \in Int : Beside(s, NoAlarm, i) = NoAlarm <=> i \notin 1 .. Len(s)
      /\ q.head = Beside(s, NoAlarm, 1)
      /\ \A i \in 1 .. Len(s) : q.mem[s[i]].next = Beside(s, NoAlarm, i + 1)
  BY HeldPlaces
<1>2. AlarmsOf(q) = [i \in 1 .. Cardinality(met) |-> RecordOf(q.mem, walk[i - 1])]
  BY DEF AlarmsOf, RecordOf
<1>3. \A n \in Nat : after(Beside(s, NoAlarm, n + 1)) = Beside(s, NoAlarm, (n + 1) + 1)
  <2> TAKE n \in Nat
  <2>1. CASE n + 1 \in 1 .. Len(s)
    BY <1>1, <2>1
  <2>2. CASE n + 1 \notin 1 .. Len(s)
    <3>1. (n + 1) + 1 \notin 1 .. Len(s) /\ n + 1 \in Int /\ (n + 1) + 1 \in Int
      BY <1>1, <2>2
    <3> QED
      BY <1>1, <2>2, <3>1
  <2> QED
    BY <2>1, <2>2
<1>4. W(place)
  <2>1. ASSUME NEW n \in Nat PROVE place[n] = IF n = 0 THEN q.head ELSE after(place[n - 1])
    <3>1. CASE n = 0
      BY <1>1, <3>1
    <3>2. CASE n # 0
      <4>1. n - 1 \in Nat /\ (n - 1) + 1 = n
        BY <3>2
      <4>2. after(Beside(s, NoAlarm, (n - 1) + 1)) = Beside(s, NoAlarm, ((n - 1) + 1) + 1)
        BY <1>3, <4>1
      <4> HIDE DEF after
      <4>3. place[n - 1] = Beside(s, NoAlarm, (n - 1) + 1) /\ place[n] = Beside(s, NoAlarm, n + 1)
        BY <4>1
      <4> QED
        BY <3>2, <4>1, <4>2, <4>3
    <3> QED
      BY <3>1, <3>2
  <2> HIDE DEF place
  <2>2. place = [n \in Nat |-> place[n]]
    BY DEF place
  <2> QED
    BY <2>1, <2>2
<1>5. W(walk)
  <2> HIDE DEF W
  <2> QED
    BY <1>4
<1> HIDE DEF walk
<1> DEFINE T == {n \in Nat : walk[n] = Beside(s, NoAlarm, n + 1)}
<1>6. 0 \in T
  BY <1>1, <1>5
<1>7. ASSUME NEW n \in Nat, n \in T PROVE n + 1 \in T
  <2>1. n + 1 \in Nat /\ n + 1 # 0 /\ (n + 1) - 1 = n
    OBVIOUS
  <2>2. walk[n + 1] = after(walk[n])
    BY <1>5, <2>1
  <2>3. after(Beside(s, NoAlarm, n + 1)) = Beside(s, NoAlarm, (n + 1) + 1)
    BY <1>3
  <2> HIDE DEF after
  <2> QED
    BY <1>7, <2>1, <2>2, <2>3
<1>8. \A n \in Nat : walk[n] = Beside(s, NoAlarm, n + 1)
  <2>1. Nat \subseteq T
    <3> HIDE DEF T
    <3> QED
      BY <1>6, <1>7, SetInduction
  <2> QED
    BY <2>1
<1>9. met = 0 .. Len(s) - 1
  <2> HIDE DEF W, T, N, place
  <2>1. ASSUME NEW n \in 0 .. N PROVE walk[n] # NoAlarm <=> n + 1 \in 1 .. Len(s)
    <3>1. n \in Nat /\ n + 1 \in Int
      BY <1>1
    <3> QED
      BY <1>1, <1>8, <3>1
  <2> QED
    BY <1>1, <2>1
<1>10. Cardinality(met) = Len(s)
  <2> DEFINE last == Len(s) - 1
  <2>1. last \in Int /\ (IF 0 <= last THEN (last - 0) + 1 ELSE 0) = Len(s)
    BY <1>1
  <2> HIDE DEF last, met
  <2>2. Cardinality(0 .. last) = IF 0 <= last THEN (last - 0) + 1 ELSE 0
    BY <2>1, FS_Interval
  <2> QED
    BY <1>9, <2>1, <2>2 DEF last
<1>11. \A i \in 1 .. Len(s) : walk[i - 1] = s[i]
  <2> TAKE i \in 1 .. Len(s)
  <2>1. i - 1 \in Nat /\ (i - 1) + 1 = i
    BY <1>1
  <2> QED
    BY <1>1, <1>8, <2>1
<1> QED
  BY <1>2, <1>10, <1>11 DEF LineOf

\* The first c alarms of the line fire no later than this, the others do.
Splits(q, s, fire, c) ==
  /\ c \in 0 .. Len(s)
  /\ \A i \in 1 .. Len(s) : q.mem[s[i]].fire <= fire <=> i < c + 1

\* A line in order can be split at any time.
LEMMA SplitExists ==
  ASSUME NEW q, NEW s, Holds(q, s), NEW fire \in Int
  PROVE  \E c : Splits(q, s, fire, c)
<1> DEFINE due(i) == q.mem[s[i]].fire
           later == {j \in 0 .. Len(s) : j = Len(s) \/ due(j + 1) > fire}
<1>1. Len(s) \in Nat /\ \A i \in 1 .. Len(s) : due(i) \in Int
  BY HeldPlaces
<1>2. \A i, j \in 1 .. Len(s) : i <= j => due(i) <= due(j)
  BY DEF Holds
<1> HIDE DEF due
<1>3. later \in SUBSET Nat /\ Len(s) \in later
  BY <1>1
<1>4. PICK c \in later : \A j \in later : c <= j
  <2> HIDE DEF later
  <2> QED
    BY <1>3, Least
<1>5. c \in 0 .. Len(s)
  BY <1>4
<1>6. ASSUME NEW i \in 1 .. Len(s) PROVE due(i) <= fire <=> i < c + 1
  <2>1. CASE i < c + 1
    <3>1. i - 1 \in 0 .. Len(s) /\ (i - 1) + 1 = i /\ i - 1 # Len(s) /\ ~(c <= i - 1)
      BY <1>1, <1>5, <2>1
    <3>2. i - 1 \notin later
      BY <1>4, <3>1
    <3>3. ~(due(i) > fire)
      BY <3>1, <3>2
    <3> QED
      BY <1>1, <2>1, <3>3
  <2>2. CASE ~(i < c + 1)
    <3>1. c + 1 \in 1 .. Len(s) /\ c + 1 <= i /\ c # Len(s)
      BY <1>1, <1>5, <2>2
    <3>2. due(c + 1) > fire
      BY <1>4, <3>1
    <3>3. due(c + 1) <= due(i)
      BY <1>2, <3>1
    <3> QED
      BY <1>1, <2>2, <3>1, <3>2, <3>3
  <2> QED
    BY <2>1, <2>2
<1> QED
  BY <1>5, <1>6 DEF Splits, due

\* The search ends behind the alarms that fire no later.
LEMMA LaterIs ==
  ASSUME NEW q, NEW s, Holds(q, s), NEW fire \in Int, NEW c, Splits(q, s, fire, c)
  PROVE  Later(q, fire) = Beside(s, NoAlarm, c + 1)
<1> DEFINE N == Cardinality(Alarms)
           after(a) == IF a # NoAlarm /\ q.mem[a].fire <= fire THEN q.mem[a].next ELSE a
           W(w) == w = [n \in Nat |-> IF n = 0 THEN q.head ELSE after(w[n - 1])]
           walk == CHOOSE w : W(w)
           far(n) == IF n < c THEN n ELSE c
           place == [n \in Nat |-> Beside(s, NoAlarm, far(n) + 1)]
<1>1. /\ Len(s) \in Nat /\ N \in Nat /\ Len(s) <= N
      /\ \A i \in 1 .. Len(s) : Beside(s, NoAlarm, i) = s[i] /\ s[i] # NoAlarm
      /\ \A i \in Int : Beside(s, NoAlarm, i) = NoAlarm <=> i \notin 1 .. Len(s)
      /\ q.head = Beside(s, NoAlarm, 1)
      /\ \A i \in 1 .. Len(s) : q.mem[s[i]].next = Beside(s, NoAlarm, i + 1)
  BY HeldPlaces
<1>2. c \in 0 .. Len(s) /\ \A i \in 1 .. Len(s) : q.mem[s[i]].fire <= fire <=> i < c + 1
  BY DEF Splits
<1>3. Later(q, fire) = walk[N]
  BY DEF Later
<1>4. \A n \in Nat : after(Beside(s, NoAlarm, far(n) + 1)) = Beside(s, NoAlarm, far(n + 1) + 1)
  <2> TAKE n \in Nat
  <2>1. CASE n < c
    <3>1. far(n) = n /\ far(n + 1) = n + 1 /\ n + 1 \in 1 .. Len(s) /\ n + 1 < c + 1
      BY <1>1, <1>2, <2>1
    <3>2. after(s[n + 1]) = Beside(s, NoAlarm, (n + 1) + 1)
      BY <1>1, <1>2, <3>1
    <3> HIDE DEF after, far
    <3> QED
      BY <1>1, <3>1, <3>2
  <2>2. CASE ~(n < c)
    <3>1. far(n) = c /\ far(n + 1) = c /\ c + 1 \in Int
      BY <1>1, <1>2, <2>2
    <3>2. after(Beside(s, NoAlarm, c + 1)) = Beside(s, NoAlarm, c + 1)
      <4>1. CASE c + 1 \in 1 .. Len(s)
        <5>1. ~(c + 1 < c + 1)
          BY <3>1
        <5> QED
          BY <1>1, <1>2, <4>1, <5>1
      <4>2. CASE c + 1 \notin 1 .. Len(s)
        BY <1>1, <3>1, <4>2
      <4> QED
        BY <4>1, <4>2
    <3> HIDE DEF after, far
    <3> QED
      BY <3>1, <3>2
  <2> QED
    BY <2>1, <2>2
<1>5. far(0) = 0 /\ far(N) = c
  BY <1>1, <1>2
<1> HIDE DEF far
<1>6. W(place)
  <2>1. ASSUME NEW n \in Nat PROVE place[n] = IF n = 0 THEN q.head ELSE after(place[n - 1])
    <3>1. CASE n = 0
      BY <1>1, <1>5, <3>1
    <3>2. CASE n # 0
      <4>1. n - 1 \in Nat /\ (n - 1) + 1 = n
        BY <3>2
      <4>2. after(Beside(s, NoAlarm, far(n - 1) + 1)) = Beside(s, NoAlarm, far((n - 1) + 1) + 1)
        BY <1>4, <4>1
      <4> HIDE DEF after
      <4>3. place[n - 1] = Beside(s, NoAlarm, far(n - 1) + 1) /\ place[n] = Beside(s, NoAlarm, far(n) + 1)
        BY <4>1
      <4> QED
        BY <3>2, <4>1, <4>2, <4>3
    <3> QED
      BY <3>1, <3>2
  <2> HIDE DEF place
  <2>2. place = [n \in Nat |-> place[n]]
    BY DEF place
  <2> QED
    BY <2>1, <2>2
<1>7. W(walk)
  <2> HIDE DEF W
  <2> QED
    BY <1>6
<1> HIDE DEF walk
<1> DEFINE T == {n \in Nat : walk[n] = Beside(s, NoAlarm, far(n) + 1)}
<1>8. 0 \in T
  BY <1>1, <1>5, <1>7
<1>9. ASSUME NEW n \in Nat, n \in T PROVE n + 1 \in T
  <2>1. n + 1 \in Nat /\ n + 1 # 0 /\ (n + 1) - 1 = n
    OBVIOUS
  <2>2. walk[n + 1] = after(walk[n])
    BY <1>7, <2>1
  <2>3. after(Beside(s, NoAlarm, far(n) + 1)) = Beside(s, NoAlarm, far(n + 1) + 1)
    BY <1>4
  <2> HIDE DEF after
  <2> QED
    BY <1>9, <2>1, <2>2, <2>3
<1>10. N \in T
  <2> HIDE DEF T, N
  <2> QED
    BY <1>1, <1>8, <1>9, SetInduction
<1> QED
  BY <1>3, <1>5, <1>10

-----------------------------------------------------------------------------
(* Entering and leaving the queue. *)

\* When an alarm is due that is set now.
DueOf(rec, given) ==
  IF rec.period > 0 THEN PeriodicFire(rec.start, rec.period, systemTime) ELSE given

\* The alarms of S are as they were, their links aside.
SameAlarms(mem, mem2, S) ==
  \A a \in S : /\ mem2[a].fire = mem[a].fire /\ mem2[a].start = mem[a].start
               /\ mem2[a].period = mem[a].period /\ mem2[a].handler = mem[a].handler

\* The alarm has entered behind the first c of the line.
Entered(q, o, s, alarm, fire, c) ==
  /\ Holds(o, InsertAt(s, c + 1, alarm))
  /\ ToSet(InsertAt(s, c + 1, alarm)) = ToSet(s) \cup {alarm}
  /\ SameAlarms(q.mem, o.mem, Alarms \ {alarm})
  /\ o.mem[alarm].handler = TRUE /\ o.mem[alarm].fire = fire
  /\ o.mem[alarm].start = q.mem[alarm].start /\ o.mem[alarm].period = q.mem[alarm].period

LEMMA DueTyped ==
  ASSUME NEW rec \in AlarmRecords, NEW given \in Int, systemTime \in Nat
  PROVE  DueOf(rec, given) \in Int
<1> DEFINE b == rec.start
           t == rec.period
           k == (systemTime - b) \div t
<1>1. b \in Int /\ t \in Int
  BY DEF AlarmRecords
<1>2. CASE t > 0 /\ b < systemTime
  <2>1. k \in Int
    <3> HIDE DEF b, t
    <3> QED
      BY <1>1, <1>2
  <2>2. DueOf(rec, given) = b + t * (k + 1)
    BY <1>2 DEF DueOf, PeriodicFire
  <2> HIDE DEF b, t, k
  <2> QED
    BY <1>1, <2>1, <2>2
<1>3. CASE ~(t > 0 /\ b < systemTime)
  BY <1>1, <1>3 DEF DueOf, PeriodicFire
<1> QED
  BY <1>2, <1>3

LEMMA InsertIs ==
  ASSUME NEW q, NEW s, Holds(q, s), NEW alarm \in Alarms, alarm \notin ToSet(s), NEW given,
         NEW fire \in Int, fire = DueOf(q.mem[alarm], given), NEW c, Splits(q, s, fire, c)
  PROVE  Entered(q, InsertAlarm(q, alarm, given), s, alarm, fire, c)
<1> DEFINE k == c + 1
           n == Later(q, fire)
           p == IF n = NoAlarm THEN q.tail ELSE q.mem[n].prev
           old == q.mem[alarm]
           mem == [a \in Alarms |->
                     IF a = alarm THEN [old EXCEPT !.handler = TRUE, !.fire = fire, !.prev = p, !.next = n]
                     ELSE IF a = n THEN [q.mem[a] EXCEPT !.prev = alarm]
                     ELSE IF a = p THEN [q.mem[a] EXCEPT !.next = alarm]
                     ELSE q.mem[a]]
           o == InsertAlarm(q, alarm, given)
           u == InsertAt(s, k, alarm)
<1>1. /\ o.mem = mem /\ o.head = (IF p = NoAlarm THEN alarm ELSE q.head)
      /\ o.tail = (IF n = NoAlarm THEN alarm ELSE q.tail)
  BY DEF InsertAlarm, DueOf
<1>2. /\ Len(s) \in Nat
      /\ \A i \in 1 .. Len(s) : /\ Beside(s, NoAlarm, i) = s[i]
                                /\ s[i] \in Alarms /\ s[i] \in ToSet(s) /\ s[i] # NoAlarm
      /\ \A i \in Int : Beside(s, NoAlarm, i) = NoAlarm <=> i \notin 1 .. Len(s)
      /\ \A i \in 1 .. Len(s) : /\ q.mem[s[i]].prev = Beside(s, NoAlarm, i - 1)
                                /\ q.mem[s[i]].fire \in Int
  BY HeldPlaces
<1>3. c \in 0 .. Len(s) /\ k \in 1 .. Len(s) + 1 /\ \A i \in 1 .. Len(s) : q.mem[s[i]].fire <= fire <=> i < k
  BY <1>2 DEF Splits
<1>4. n = Beside(s, NoAlarm, k)
  BY LaterIs
<1>5. /\ s \in Lines(Alarms) /\ q.mem \in [Alarms -> AlarmRecords]
      /\ DoublyLinked(NextAlarm(q.mem), PrevAlarm(q.mem), q.head, q.tail, NoAlarm, s)
      /\ \A i, j \in 1 .. Len(s) : i <= j => q.mem[s[i]].fire <= q.mem[s[j]].fire
  BY DEF Holds
<1>6. NoAlarm \notin Alarms
  BY AlarmAssumption
<1> HIDE DEF n
<1>7. p = Beside(s, NoAlarm, k - 1)
  <2>1. CASE k \in 1 .. Len(s)
    <3>1. n = s[k] /\ n # NoAlarm
      BY <1>2, <1>4, <2>1
    <3> QED
      BY <1>2, <2>1, <3>1
  <2>2. CASE k = Len(s) + 1
    <3>1. k \notin 1 .. Len(s) /\ k \in Int /\ k - 1 = Len(s)
      BY <1>2, <2>2
    <3>2. n = NoAlarm
      BY <1>2, <1>4, <3>1
    <3> QED
      BY <1>5, <3>1, <3>2 DEF DoublyLinked
  <2> QED
    BY <1>2, <1>3, <2>1, <2>2
<1> HIDE DEF p
<1>8. /\ n \in ToSet(s) \cup {NoAlarm} /\ p \in ToSet(s) \cup {NoAlarm}
      /\ ToSet(s) \subseteq Alarms /\ n # alarm /\ p # alarm
      /\ p # n \/ p = NoAlarm
  <2>1. k \in Int /\ k - 1 \in Int /\ k - 1 # k
    BY <1>2, <1>3
  <2>2. \A i \in Int : Beside(s, NoAlarm, i) \in ToSet(s) \cup {NoAlarm}
    BY <1>5, <1>6, BesideIs
  <2>3. ToSet(s) \subseteq Alarms
    BY <1>5, SeqFacts DEF Lines
  <2>4. n \in ToSet(s) \cup {NoAlarm} /\ p \in ToSet(s) \cup {NoAlarm}
    BY <1>4, <1>7, <2>1, <2>2
  <2>5. p # n \/ p = NoAlarm
    <3>1. ASSUME p = n, p # NoAlarm PROVE FALSE
      <4>1. k \in 1 .. Len(s) /\ k - 1 \in 1 .. Len(s)
        BY <1>2, <1>4, <1>7, <2>1, <3>1
      <4>2. s[k] = s[k - 1]
        BY <1>2, <1>4, <1>7, <3>1, <4>1
      <4>3. \A i, j \in 1 .. Len(s) : s[i] = s[j] => i = j
        BY <1>5, <1>6, BesideIs
      <4> QED
        BY <2>1, <4>1, <4>2, <4>3
    <3> QED
      BY <3>1
  <2> QED
    BY <1>6, <2>3, <2>4, <2>5
<1>9. /\ mem \in [Alarms -> AlarmRecords]
      /\ mem[alarm].next = n /\ mem[alarm].prev = p /\ mem[alarm].handler = TRUE
      /\ mem[alarm].fire = fire /\ mem[alarm].start = old.start /\ mem[alarm].period = old.period
      /\ SameAlarms(q.mem, mem, Alarms \ {alarm})
      /\ \A a \in Alarms \ {alarm} : /\ mem[a].next = (IF a = p THEN alarm ELSE q.mem[a].next)
                                     /\ mem[a].prev = (IF a = n THEN alarm ELSE q.mem[a].prev)
  <2> DEFINE new == [old EXCEPT !.handler = TRUE, !.fire = fire, !.prev = p, !.next = n]
  <2>1. /\ n \in Alarms \cup {NoAlarm} /\ p \in Alarms \cup {NoAlarm}
        /\ \A a \in Alarms : q.mem[a] \in AlarmRecords
    BY <1>5, <1>8
  <2>2. /\ new \in AlarmRecords /\ new.next = n /\ new.prev = p /\ new.handler = TRUE
        /\ new.fire = fire /\ new.start = old.start /\ new.period = old.period
    <3>1. old \in AlarmRecords
      BY <2>1
    <3> HIDE DEF old
    <3> QED
      BY <2>1, <3>1 DEF AlarmRecords
  <2>3. mem[alarm] = new
    OBVIOUS
  <2> HIDE DEF new
  <2>4. ASSUME NEW a \in Alarms \ {alarm}
        PROVE  /\ mem[a] \in AlarmRecords
               /\ mem[a].fire = q.mem[a].fire /\ mem[a].start = q.mem[a].start
               /\ mem[a].period = q.mem[a].period /\ mem[a].handler = q.mem[a].handler
               /\ mem[a].next = (IF a = p THEN alarm ELSE q.mem[a].next)
               /\ mem[a].prev = (IF a = n THEN alarm ELSE q.mem[a].prev)
    <3>1. q.mem[a] \in AlarmRecords /\ a # NoAlarm
      BY <1>6, <2>1
    <3>2. CASE a = n
      <4>1. mem[a] = [q.mem[a] EXCEPT !.prev = alarm]
        BY <3>2
      <4>2. a # p
        BY <1>8, <3>1, <3>2
      <4> HIDE DEF mem
      <4> QED
        BY <3>1, <3>2, <4>1, <4>2 DEF AlarmRecords
    <3>3. CASE a # n /\ a = p
      <4>1. mem[a] = [q.mem[a] EXCEPT !.next = alarm]
        BY <3>3
      <4> HIDE DEF mem
      <4> QED
        BY <3>1, <3>3, <4>1 DEF AlarmRecords
    <3>4. CASE a # n /\ a # p
      <4>1. mem[a] = q.mem[a]
        BY <3>4
      <4> HIDE DEF mem
      <4> QED
        BY <3>1, <3>4, <4>1
    <3> QED
      BY <3>2, <3>3, <3>4
  <2>5. mem \in [Alarms -> AlarmRecords]
    <3>1. \A a \in Alarms : mem[a] \in AlarmRecords
      BY <2>2, <2>3, <2>4
    <3>2. mem = [a \in Alarms |-> mem[a]]
      OBVIOUS
    <3> HIDE DEF mem
    <3> QED
      BY <3>1, <3>2
  <2> HIDE DEF mem, old
  <2>6. SameAlarms(q.mem, mem, Alarms \ {alarm})
    BY <2>4 DEF SameAlarms
  <2> QED
    BY <2>2, <2>3, <2>4, <2>5, <2>6
<1> HIDE DEF mem, u, o
<1> DEFINE nx == NextAlarm(mem)
           pv == PrevAlarm(mem)
           nx0 == NextAlarm(q.mem)
           pv0 == PrevAlarm(q.mem)
<1>10. /\ nx[alarm] = n /\ pv[alarm] = p
       /\ \A a \in ToSet(s) : nx[a] = (IF a = p THEN alarm ELSE nx0[a]) /\ pv[a] = (IF a = n THEN alarm ELSE pv0[a])
  BY <1>8, <1>9 DEF NextAlarm, PrevAlarm
<1>11. DoublyLinked(nx0, pv0, q.head, q.tail, NoAlarm, s)
  BY <1>5
<1> HIDE DEF nx, pv, nx0, pv0
<1>12. DoublyLinked(nx, pv, IF p = NoAlarm THEN alarm ELSE q.head, IF n = NoAlarm THEN alarm ELSE q.tail,
              NoAlarm, u)
  <2> DEFINE first == q.head
             last == q.tail
             first2 == IF p = NoAlarm THEN alarm ELSE first
             last2 == IF n = NoAlarm THEN alarm ELSE last
  <2>1. DoublyLinked(nx0, pv0, first, last, NoAlarm, s)
    BY <1>11
  <2>2. /\ NoAlarm \notin Alarms /\ s \in Lines(Alarms) /\ alarm \in Alarms /\ alarm \notin ToSet(s)
        /\ k \in 1 .. Len(s) + 1
    BY <1>3, <1>5, <1>6
  <2> HIDE DEF first, last, k
  <2>3. LinksIn(nx0, pv0, first, last, nx, pv, first2, last2, NoAlarm, s, k, alarm)
    BY <1>4, <1>7, <1>10 DEF LinksIn
  <2> HIDE DEF first2, last2
  <2>4. DoublyLinked(nx, pv, first2, last2, NoAlarm, InsertAt(s, k, alarm))
    BY <2>1, <2>2, <2>3, LinkedInsert
  <2> QED
    BY <2>4 DEF u, first, last, first2, last2, k
<1>13. u \in Lines(Alarms) /\ ToSet(u) = ToSet(s) \cup {alarm}
  <2> HIDE DEF k
  <2> QED
    BY <1>3, <1>5, InsertAtLine DEF u
<1>14. /\ Len(u) = Len(s) + 1
       /\ \A i \in 1 .. Len(s) + 1 : u[i] = IF i < k THEN s[i] ELSE IF i = k THEN alarm ELSE s[i - 1]
  <2>1. s \in Seq(Alarms)
    BY <1>5 DEF Lines
  <2> HIDE DEF k
  <2>2. u = [i \in 1 .. Len(s) + 1 |-> IF i < k THEN s[i] ELSE IF i = k THEN alarm ELSE s[i - 1]]
    BY <1>3, <2>1, InsertAtIs DEF u
  <2>3. Len(u) \in Nat /\ DOMAIN u = 1 .. Len(u)
    BY <1>13, SeqFacts DEF Lines
  <2> QED
    BY <1>2, <2>2, <2>3
<1>15. ASSUME NEW i \in 1 .. Len(u), NEW j \in 1 .. Len(u), i <= j PROVE mem[u[i]].fire <= mem[u[j]].fire
  <2> DEFINE due(x) == q.mem[s[x]].fire
  <2>1. /\ \A x \in 1 .. Len(s) : mem[s[x]].fire = due(x) /\ due(x) \in Int /\ (due(x) <= fire <=> x < k)
        /\ \A x, y \in 1 .. Len(s) : x <= y => due(x) <= due(y)
    <3>1. \A x \in 1 .. Len(s) : s[x] \in Alarms \ {alarm} /\ due(x) \in Int
      BY <1>2
    <3>2. \A a \in Alarms \ {alarm} : mem[a].fire = q.mem[a].fire
      BY <1>9 DEF SameAlarms
    <3>3. \A x \in 1 .. Len(s) : mem[s[x]].fire = due(x)
      BY <3>1, <3>2
    <3>4. \A x \in 1 .. Len(s) : due(x) <= fire <=> x < k
      BY <1>3
    <3>5. \A x, y \in 1 .. Len(s) : x <= y => due(x) <= due(y)
      BY <1>5
    <3> HIDE DEF due, k
    <3> QED
      BY <3>1, <3>3, <3>4, <3>5
  <2> HIDE DEF due
  <2>2. k \in 1 .. Len(s) + 1 /\ i \in 1 .. Len(s) + 1 /\ j \in 1 .. Len(s) + 1
    BY <1>3, <1>14
  <2> HIDE DEF k
  <2>3. CASE i < k /\ j < k
    <3>1. i \in 1 .. Len(s) /\ j \in 1 .. Len(s) /\ u[i] = s[i] /\ u[j] = s[j]
      BY <1>2, <1>14, <2>2, <2>3
    <3> QED
      BY <1>15, <2>1, <3>1
  <2>4. CASE i < k /\ j = k
    <3>1. i \in 1 .. Len(s) /\ u[i] = s[i] /\ u[j] = alarm
      BY <1>2, <1>14, <2>2, <2>4
    <3> QED
      BY <1>9, <2>1, <2>4, <3>1
  <2>5. CASE i < k /\ j > k
    <3>1. i \in 1 .. Len(s) /\ j - 1 \in 1 .. Len(s) /\ i <= j - 1 /\ u[i] = s[i] /\ u[j] = s[j - 1]
      BY <1>2, <1>14, <2>2, <2>5
    <3> QED
      BY <2>1, <3>1
  <2>6. CASE i = k /\ j = k
    BY <1>9, <1>14, <2>2, <2>6
  <2>7. CASE i = k /\ j > k
    <3>1. j - 1 \in 1 .. Len(s) /\ ~(j - 1 < k) /\ u[i] = alarm /\ u[j] = s[j - 1]
      BY <1>2, <1>14, <2>2, <2>7
    <3>2. due(j - 1) \in Int /\ ~(due(j - 1) <= fire) /\ mem[u[j]].fire = due(j - 1)
      BY <2>1, <3>1
    <3> QED
      BY <1>9, <3>1, <3>2
  <2>8. CASE i > k /\ j > k
    <3>1. /\ i - 1 \in 1 .. Len(s) /\ j - 1 \in 1 .. Len(s) /\ i - 1 <= j - 1
          /\ u[i] = s[i - 1] /\ u[j] = s[j - 1]
      BY <1>2, <1>14, <1>15, <2>2, <2>8
    <3> QED
      BY <2>1, <3>1
  <2> QED
    BY <1>15, <2>2, <2>3, <2>4, <2>5, <2>6, <2>7, <2>8
<1>16. Holds(o, u)
  BY <1>1, <1>9, <1>12, <1>13, <1>15 DEF Holds, nx, pv
<1> QED
  BY <1>1, <1>9, <1>13, <1>16 DEF Entered, u, o

\* The alarm at place k has left, and the links beside it bridge the gap.
Leaves(q, o, s, k) ==
  /\ o.mem \in [Alarms -> AlarmRecords]
  /\ SameAlarms(q.mem, o.mem, Alarms \ {s[k]})
  /\ \A a \in Alarms \ {s[k]} :
       /\ o.mem[a].next = (IF a = q.mem[s[k]].prev THEN q.mem[s[k]].next ELSE q.mem[a].next)
       /\ o.mem[a].prev = (IF a = q.mem[s[k]].next THEN q.mem[s[k]].prev ELSE q.mem[a].prev)
  /\ o.head = (IF q.mem[s[k]].prev = NoAlarm THEN q.mem[s[k]].next ELSE q.head)
  /\ o.tail = (IF q.mem[s[k]].next = NoAlarm THEN q.mem[s[k]].prev ELSE q.tail)

LEMMA LeaveIs ==
  ASSUME NEW q, NEW s, Holds(q, s), NEW k \in 1 .. Len(s), NEW o, Leaves(q, o, s, k)
  PROVE  /\ Holds(o, RemoveAt(s, k)) /\ ToSet(RemoveAt(s, k)) = ToSet(s) \ {s[k]}
         /\ s[k] \in Alarms
<1> DEFINE p == q.mem[s[k]].prev
           n == q.mem[s[k]].next
           u == RemoveAt(s, k)
<1>1. /\ Len(s) \in Nat
      /\ \A i \in 1 .. Len(s) : s[i] \in Alarms
      /\ p = Beside(s, NoAlarm, k - 1) /\ n = Beside(s, NoAlarm, k + 1)
  BY HeldPlaces
<1>2. /\ s \in Lines(Alarms) /\ s \in Seq(Alarms) /\ q.mem \in [Alarms -> AlarmRecords]
      /\ DoublyLinked(NextAlarm(q.mem), PrevAlarm(q.mem), q.head, q.tail, NoAlarm, s)
      /\ \A i, j \in 1 .. Len(s) : i <= j => q.mem[s[i]].fire <= q.mem[s[j]].fire
  BY DEF Holds, Lines
<1>3. NoAlarm \notin Alarms
  BY AlarmAssumption
<1>4. /\ o.mem \in [Alarms -> AlarmRecords]
      /\ SameAlarms(q.mem, o.mem, Alarms \ {s[k]})
      /\ \A a \in Alarms \ {s[k]} : /\ o.mem[a].next = (IF a = p THEN n ELSE q.mem[a].next)
                                    /\ o.mem[a].prev = (IF a = n THEN p ELSE q.mem[a].prev)
      /\ o.head = (IF p = NoAlarm THEN n ELSE q.head)
      /\ o.tail = (IF n = NoAlarm THEN p ELSE q.tail)
  BY DEF Leaves
<1> HIDE DEF p, n
<1>5. u \in Lines(Alarms) /\ ToSet(u) = ToSet(s) \ {s[k]}
  BY <1>2, RemoveAtLine
<1>6. /\ Len(u) = Len(s) - 1
      /\ \A i \in 1 .. Len(s) - 1 : u[i] = IF i < k THEN s[i] ELSE s[i + 1]
  <2>1. u = [i \in 1 .. Len(s) - 1 |-> IF i < k THEN s[i] ELSE s[i + 1]]
    BY <1>2, RemoveAtIs
  <2> HIDE DEF u
  <2>2. Len(u) \in Nat /\ DOMAIN u = 1 .. Len(u)
    BY <1>5, SeqFacts DEF Lines
  <2>3. k \in 1 .. Len(s)
    OBVIOUS
  <2> QED
    BY <1>1, <2>1, <2>2, <2>3
<1> DEFINE nx == NextAlarm(o.mem)
           pv == PrevAlarm(o.mem)
           nx0 == NextAlarm(q.mem)
           pv0 == PrevAlarm(q.mem)
<1>7. ToSet(s) \subseteq Alarms
  BY <1>2, SeqFacts
<1>8. \A a \in ToSet(s) : a # s[k] => /\ nx[a] = (IF a = p THEN n ELSE nx0[a])
                                      /\ pv[a] = (IF a = n THEN p ELSE pv0[a])
  BY <1>4, <1>7 DEF NextAlarm, PrevAlarm
<1>9. DoublyLinked(nx0, pv0, q.head, q.tail, NoAlarm, s)
  BY <1>2
<1> HIDE DEF nx, pv, nx0, pv0, u
<1>10. DoublyLinked(nx, pv, o.head, o.tail, NoAlarm, u)
  <2> DEFINE first == q.head
             last == q.tail
             first2 == o.head
             last2 == o.tail
  <2>1. DoublyLinked(nx0, pv0, first, last, NoAlarm, s)
    BY <1>9
  <2>2. NoAlarm \notin Alarms /\ s \in Lines(Alarms) /\ k \in 1 .. Len(s)
    BY <1>2, <1>3
  <2>3. p = Beside(s, NoAlarm, k - 1) /\ n = Beside(s, NoAlarm, k + 1)
    BY <1>1
  <2>4. LinksOut(nx0, pv0, first, last, nx, pv, first2, last2, NoAlarm, s, k)
    BY <1>4, <1>8, <2>3 DEF LinksOut
  <2> HIDE DEF first, last, first2, last2
  <2>5. DoublyLinked(nx, pv, first2, last2, NoAlarm, RemoveAt(s, k))
    BY <2>1, <2>2, <2>4, LinkedRemove
  <2> QED
    BY <2>5 DEF u, first2, last2
<1>11. ASSUME NEW i \in 1 .. Len(u), NEW j \in 1 .. Len(u), i <= j
       PROVE  o.mem[u[i]].fire <= o.mem[u[j]].fire
  <2> DEFINE from(x) == IF x < k THEN x ELSE x + 1
  <2>1. i \in 1 .. Len(s) - 1 /\ j \in 1 .. Len(s) - 1 /\ k \in 1 .. Len(s)
    BY <1>6
  <2>2. from(i) \in 1 .. Len(s) /\ from(j) \in 1 .. Len(s) /\ from(i) <= from(j) /\ from(i) # k /\ from(j) # k
    BY <1>1, <1>11, <2>1
  <2>3. u[i] = s[from(i)] /\ u[j] = s[from(j)]
    BY <1>6, <2>1
  <2> HIDE DEF from
  <2>4. \A x, y \in 1 .. Len(s) : s[x] = s[y] => x = y
    BY <1>2, <1>3, BesideIs
  <2>5. u[i] \in Alarms \ {s[k]} /\ u[j] \in Alarms \ {s[k]}
    BY <1>1, <2>1, <2>2, <2>3, <2>4
  <2>6. o.mem[u[i]].fire = q.mem[u[i]].fire /\ o.mem[u[j]].fire = q.mem[u[j]].fire
    BY <1>4, <2>5 DEF SameAlarms
  <2> QED
    BY <1>2, <2>2, <2>3, <2>6
<1>12. Holds(o, u)
  BY <1>4, <1>5, <1>10, <1>11 DEF Holds, nx, pv
<1> QED
  BY <1>1, <1>5, <1>12 DEF u

-----------------------------------------------------------------------------
(* The same on the line of AlarmClock. *)

LEMMA LineTyped ==
  ASSUME NEW q, NEW s, Holds(q, s)
  PROVE  /\ LineOf(q.mem, s) \in Seq(LineRecords) /\ Len(LineOf(q.mem, s)) = Len(s)
         /\ DOMAIN LineOf(q.mem, s) = 1 .. Len(s)
         /\ \A i \in 1 .. Len(s) : LineOf(q.mem, s)[i] = RecordOf(q.mem, s[i])
<1> DEFINE l == LineOf(q.mem, s)
<1>1. Len(s) \in Nat /\ \A i \in 1 .. Len(s) : s[i] \in Alarms
  BY HeldPlaces
<1>2. q.mem \in [Alarms -> AlarmRecords]
  BY DEF Holds
<1>3. \A i \in 1 .. Len(s) : RecordOf(q.mem, s[i]) \in LineRecords
  BY <1>1, <1>2 DEF RecordOf, AlarmRecords, LineRecords
<1>4. l = [i \in 1 .. Len(s) |-> RecordOf(q.mem, s[i])]
  BY DEF LineOf
<1> HIDE DEF l
<1>5. l \in [1 .. Len(s) -> LineRecords]
  BY <1>3, <1>4
<1>6. l \in Seq(LineRecords) /\ Len(l) = Len(s)
  BY <1>1, <1>5, MakeSeq
<1> QED
  BY <1>4, <1>6 DEF l

\* Alarms that are the same have the same records.
LEMMA SameRecords ==
  ASSUME NEW mem, NEW mem2, NEW S, SameAlarms(mem, mem2, S)
  PROVE  \A a \in S : RecordOf(mem2, a) = RecordOf(mem, a)
BY DEF SameAlarms, RecordOf

LEMMA PlacedIs ==
  ASSUME NEW q, NEW s, Holds(q, s), NEW o, NEW alarm \in Alarms, alarm \notin ToSet(s), NEW fire \in Int,
         NEW c, Splits(q, s, fire, c), Entered(q, o, s, alarm, fire, c)
  PROVE  /\ LineOf(o.mem, InsertAt(s, c + 1, alarm)) = Clock!Placed(LineOf(q.mem, s), RecordOf(o.mem, alarm))
         /\ c + 1 \in DOMAIN LineOf(o.mem, InsertAt(s, c + 1, alarm))
         /\ LineOf(o.mem, InsertAt(s, c + 1, alarm))[c + 1] = RecordOf(o.mem, alarm)
<1> DEFINE k == c + 1
           l == LineOf(q.mem, s)
           r == RecordOf(o.mem, alarm)
           u == InsertAt(s, k, alarm)
           v == LineOf(o.mem, u)
           due == {i \in DOMAIN l : l[i].due <= r.due}
<1>1. /\ Len(s) \in Nat /\ c \in 0 .. Len(s) /\ k \in 1 .. Len(s) + 1
      /\ \A i \in 1 .. Len(s) : s[i] \in ToSet(s) /\ s[i] \in Alarms /\ (q.mem[s[i]].fire <= fire <=> i < k)
  BY HeldPlaces DEF Splits
<1>2. /\ l \in Seq(LineRecords) /\ Len(l) = Len(s) /\ DOMAIN l = 1 .. Len(s)
      /\ \A i \in 1 .. Len(s) : l[i] = RecordOf(q.mem, s[i])
  BY LineTyped
<1>3. /\ Holds(o, u) /\ SameAlarms(q.mem, o.mem, Alarms \ {alarm}) /\ o.mem[alarm].fire = fire
  BY DEF Entered
<1>4. /\ v \in Seq(LineRecords) /\ Len(v) = Len(u) /\ DOMAIN v = 1 .. Len(u)
      /\ \A i \in 1 .. Len(u) : v[i] = RecordOf(o.mem, u[i])
  BY <1>3, LineTyped
<1>5. r.due = fire /\ \A i \in 1 .. Len(s) : l[i].due = q.mem[s[i]].fire
  <2>1. \A mem, a : RecordOf(mem, a).due = mem[a].fire
    BY DEF RecordOf
  <2> HIDE DEF l
  <2> QED
    BY <1>2, <1>3, <2>1
<1>6. Cardinality(due) = c
  <2>1. due = 1 .. c
    <3> HIDE DEF l, r
    <3>1. due = {i \in 1 .. Len(s) : i < k}
      BY <1>1, <1>2, <1>5
    <3> QED
      BY <1>1, <3>1
  <2>2. c \in Int /\ 1 \in Int /\ (IF 1 > c THEN 0 ELSE c - 1 + 1) = c
    BY <1>1
  <2> HIDE DEF due
  <2>3. Cardinality(1 .. c) = IF 1 > c THEN 0 ELSE c - 1 + 1
    BY <2>2, FS_Interval
  <2> QED
    BY <2>1, <2>2, <2>3
<1>7. Clock!Placed(l, r) = InsertAt(l, k, r)
  <2>1. Clock!Placed(l, r) = Clock!InsertAt(l, 1 + Cardinality(due), r)
    <3> HIDE DEF l, r
    <3> QED
      BY DEF Clock!Placed, Clock!Cardinality, Cardinality
  <2>2. 1 + Cardinality(due) = k
    BY <1>1, <1>6
  <2> HIDE DEF l, r, due, k
  <2> QED
    BY <2>1, <2>2 DEF Clock!InsertAt, InsertAt
<1>8. s \in Seq(Alarms) /\ s \in Lines(Alarms)
  BY DEF Holds, Lines
<1>9. u = [i \in 1 .. Len(s) + 1 |-> IF i < k THEN s[i] ELSE IF i = k THEN alarm ELSE s[i - 1]]
  <2> HIDE DEF k
  <2> QED
    BY <1>1, <1>8, InsertAtIs
<1>10. Len(u) = Len(s) + 1
  <2>1. u \in Seq(Alarms)
    BY <1>3 DEF Holds, Lines
  <2> HIDE DEF u
  <2>2. Len(u) \in Nat /\ DOMAIN u = 1 .. Len(u)
    BY <2>1, SeqFacts
  <2> QED
    BY <1>1, <1>9, <2>2
<1>11. r \in LineRecords /\ r = RecordOf(o.mem, u[k]) /\ u[k] = alarm
  <2>1. u[k] = alarm /\ k \in 1 .. Len(u)
    BY <1>1, <1>9, <1>10
  <2>2. v[k] \in LineRecords
    <3> HIDE DEF v, u, k
    <3>1. v \in [1 .. Len(u) -> LineRecords]
      BY <1>4, SeqFacts
    <3> QED
      BY <2>1, <3>1
  <2>3. v[k] = RecordOf(o.mem, u[k])
    BY <1>4, <2>1
  <2> QED
    BY <2>1, <2>2, <2>3
<1> HIDE DEF l, v, r
<1>12. InsertAt(l, k, r) = [i \in 1 .. Len(s) + 1 |-> IF i < k THEN l[i] ELSE IF i = k THEN r ELSE l[i - 1]]
  <2>1. k \in 1 .. Len(l) + 1
    BY <1>1, <1>2
  <2> HIDE DEF k
  <2>2. InsertAt(l, k, r) = [i \in 1 .. Len(l) + 1 |-> IF i < k THEN l[i] ELSE IF i = k THEN r ELSE l[i - 1]]
    BY <1>2, <1>11, <2>1, InsertAtIs
  <2> QED
    BY <1>2, <2>2
<1>13. \A a \in Alarms \ {alarm} : RecordOf(o.mem, a) = RecordOf(q.mem, a)
  BY <1>3, SameRecords
<1>14. ASSUME NEW i \in 1 .. Len(s) + 1
       PROVE  v[i] = IF i < k THEN l[i] ELSE IF i = k THEN r ELSE l[i - 1]
  <2>0. v[i] = RecordOf(o.mem, u[i])
    BY <1>4, <1>10
  <2>1. CASE i < k
    <3>1. i \in 1 .. Len(s) /\ u[i] = s[i]
      BY <1>1, <1>9, <2>1
    <3>2. s[i] \in Alarms \ {alarm}
      BY <1>1, <3>1
    <3> QED
      BY <1>2, <1>13, <2>0, <2>1, <3>1, <3>2
  <2>2. CASE i = k
    BY <1>1, <1>11, <2>0, <2>2
  <2>3. CASE i > k
    <3>1. i - 1 \in 1 .. Len(s) /\ u[i] = s[i - 1] /\ ~(i < k) /\ i # k
      BY <1>1, <1>9, <2>3
    <3>2. s[i - 1] \in Alarms \ {alarm}
      BY <1>1, <3>1
    <3> QED
      BY <1>2, <1>13, <2>0, <3>1, <3>2
  <2> QED
    BY <1>1, <2>1, <2>2, <2>3
<1>15. v = InsertAt(l, k, r)
  <2>1. v = [i \in 1 .. Len(s) + 1 |-> v[i]]
    <3>1. v = [i \in DOMAIN v |-> v[i]]
      BY <1>4, SeqFacts
    <3> QED
      BY <1>4, <1>10, <3>1
  <2> QED
    BY <1>12, <1>14, <2>1
<1>16. k \in DOMAIN v /\ v[k] = r
  BY <1>1, <1>4, <1>10, <1>11
<1> QED
  BY <1>7, <1>15, <1>16 DEF v, l, r, u, k

LEMMA RemovedIs ==
  ASSUME NEW q, NEW s, Holds(q, s), NEW k \in 1 .. Len(s), NEW o, Leaves(q, o, s, k)
  PROVE  LineOf(o.mem, RemoveAt(s, k)) = RemoveAt(LineOf(q.mem, s), k)
<1> DEFINE l == LineOf(q.mem, s)
           u == RemoveAt(s, k)
           v == LineOf(o.mem, u)
<1>1. Len(s) \in Nat /\ \A i \in 1 .. Len(s) : s[i] \in Alarms
  BY HeldPlaces
<1>2. /\ l \in Seq(LineRecords) /\ Len(l) = Len(s)
      /\ \A i \in 1 .. Len(s) : l[i] = RecordOf(q.mem, s[i])
  BY LineTyped
<1>3. Holds(o, u)
  BY LeaveIs
<1>4. /\ v \in Seq(LineRecords) /\ Len(v) = Len(u) /\ DOMAIN v = 1 .. Len(u)
      /\ \A i \in 1 .. Len(u) : v[i] = RecordOf(o.mem, u[i])
  BY <1>3, LineTyped
<1>5. s \in Seq(Alarms) /\ s \in Lines(Alarms)
  BY DEF Holds, Lines
<1>6. u = [i \in 1 .. Len(s) - 1 |-> IF i < k THEN s[i] ELSE s[i + 1]]
  BY <1>5, RemoveAtIs
<1>7. Len(u) = Len(s) - 1
  <2>1. u \in Seq(Alarms)
    BY <1>3 DEF Holds, Lines
  <2> HIDE DEF u
  <2>2. Len(u) \in Nat /\ DOMAIN u = 1 .. Len(u) /\ k \in 1 .. Len(s)
    BY <2>1, SeqFacts
  <2> QED
    BY <1>1, <1>6, <2>2
<1> HIDE DEF l, v
<1>8. RemoveAt(l, k) = [i \in 1 .. Len(s) - 1 |-> IF i < k THEN l[i] ELSE l[i + 1]]
  <2>1. k \in 1 .. Len(l)
    BY <1>2
  <2>2. RemoveAt(l, k) = [i \in 1 .. Len(l) - 1 |-> IF i < k THEN l[i] ELSE l[i + 1]]
    BY <1>2, <2>1, RemoveAtIs
  <2> QED
    BY <1>2, <2>2
<1>9. \A a \in Alarms \ {s[k]} : RecordOf(o.mem, a) = RecordOf(q.mem, a)
  BY SameRecords DEF Leaves
<1>10. \A i, j \in 1 .. Len(s) : s[i] = s[j] => i = j
  BY <1>5, AlarmAssumption, BesideIs
<1>11. ASSUME NEW i \in 1 .. Len(s) - 1 PROVE v[i] = IF i < k THEN l[i] ELSE l[i + 1]
  <2>0. v[i] = RecordOf(o.mem, u[i]) /\ k \in 1 .. Len(s)
    BY <1>4, <1>7
  <2>1. CASE i < k
    <3>1. i \in 1 .. Len(s) /\ u[i] = s[i] /\ i # k
      BY <1>1, <1>6, <2>1
    <3>2. s[i] \in Alarms \ {s[k]}
      BY <1>1, <1>10, <2>0, <3>1
    <3> QED
      BY <1>2, <1>9, <2>0, <2>1, <3>1, <3>2
  <2>2. CASE ~(i < k)
    <3>1. i + 1 \in 1 .. Len(s) /\ u[i] = s[i + 1] /\ i + 1 # k
      BY <1>1, <1>6, <2>0, <2>2
    <3>2. s[i + 1] \in Alarms \ {s[k]}
      BY <1>1, <1>10, <2>0, <3>1
    <3> QED
      BY <1>2, <1>9, <2>0, <2>2, <3>1, <3>2
  <2> QED
    BY <2>1, <2>2
<1>12. v = RemoveAt(l, k)
  <2>1. v = [i \in 1 .. Len(s) - 1 |-> v[i]]
    <3>1. v = [i \in DOMAIN v |-> v[i]]
      BY <1>4, SeqFacts
    <3> QED
      BY <1>4, <1>7, <3>1
  <2> QED
    BY <1>8, <1>11, <2>1
<1> QED
  BY <1>12 DEF v, l

-----------------------------------------------------------------------------
(* The beats of a period. *)

\* Products grow with their factors.
LEMMA Multiples ==
  ASSUME NEW t \in Nat, NEW i \in Nat, NEW j \in Nat
  PROVE  /\ t * i \in Nat /\ t * (i + 1) = t * i + t
         /\ i <= j => t * i <= t * j
<1>1. t * i \in Nat /\ t * (i + 1) = t * i + t
  OBVIOUS
<1>2. ASSUME i <= j PROVE t * i <= t * j
  <2> DEFINE k == j - i
  <2>1. k \in Nat /\ j = i + k
    BY <1>2
  <2> HIDE DEF k
  <2>2. t * k \in Nat /\ t * (i + k) = t * i + t * k
    BY <2>1
  <2> QED
    BY <1>1, <2>1, <2>2
<1> QED
  BY <1>1, <1>2

\* Quotient and remainder.
LEMMA Quotients ==
  ASSUME NEW t \in Nat, t > 0, NEW d \in Nat
  PROVE  /\ d \div t \in Nat /\ d = t * (d \div t) + (d % t) /\ (d % t) \in 0 .. t - 1
         /\ \A i \in Nat : (t * i) % t = 0
<1>1. d \div t \in Nat /\ d = t * (d \div t) + (d % t) /\ (d % t) \in 0 .. t - 1
  OBVIOUS
<1>2. ASSUME NEW i \in Nat PROVE (t * i) % t = 0
  OBVIOUS
<1> QED
  BY <1>1, <1>2

\* The alarm is due at the next beat that AlarmClock names.
LEMMA BeatIs ==
  ASSUME systemTime \in Nat, NEW b \in Int, NEW t \in Int, t > 0
  PROVE  PeriodicFire(b, t, systemTime) = Clock!NextBeat(b, t)
<1> DEFINE now == systemTime
           top == Max({b, now}) + t
           beat(x) == (x - b) % t = 0 /\ (x > now \/ (x = b /\ b = now))
           beats == {x \in b .. top : beat(x)}
           f == PeriodicFire(b, t, now)
<1>1. now \in Nat /\ b \in Int /\ t \in Nat /\ t > 0
  OBVIOUS
<1>2. Clock!NextBeat(b, t) = Min(beats)
  BY DEF Clock!NextBeat, Clock!Min, Clock!Max, Min, Max
<1> HIDE DEF now
<1>3. Max({b, now}) = IF b < now THEN now ELSE b
  <2>1. CASE b < now
    <3>1. \A y \in {b, now} : y <= now
      BY <1>1, <2>1
    <3> QED
      BY <1>1, <2>1, <3>1, MaxEqual
  <2>2. CASE ~(b < now)
    <3>1. \A y \in {b, now} : y <= b
      BY <1>1, <2>2
    <3> QED
      BY <1>1, <2>2, <3>1, MaxEqual
  <2> QED
    BY <2>1, <2>2
<1>4. top \in Int /\ top = (IF b < now THEN now ELSE b) + t
  BY <1>1, <1>3
<1> HIDE DEF top, f
<1>5. f \in beats /\ \A y \in beats : f <= y
  <2>1. CASE b < now
    <3> DEFINE d == now - b
               k == d \div t
    <3>1. d \in Nat
      BY <1>1, <2>1
    <3>2. f = b + t * (k + 1)
      BY <2>1 DEF f, PeriodicFire
    <3> HIDE DEF d
    <3>3. k \in Nat /\ d = t * k + (d % t) /\ (d % t) \in 0 .. t - 1
      BY <1>1, <3>1, Quotients
    <3> HIDE DEF k
    <3>4. t * k \in Nat /\ t * (k + 1) = t * k + t
      BY <1>1, <3>3, Multiples
    <3> DEFINE g == t * (k + 1)
    <3>5. g \in Nat /\ g > d /\ g <= d + t /\ f = b + g
      BY <1>1, <3>1, <3>2, <3>3, <3>4
    <3>6. g % t = 0
      <4>1. k + 1 \in Nat
        BY <3>3
      <4> QED
        BY <1>1, <3>1, <4>1, Quotients
    <3>7. f \in b .. top /\ f > now /\ (f - b) = g
      <4> HIDE DEF g
      <4> QED
        BY <1>1, <1>4, <2>1, <3>1, <3>5 DEF d
    <3>8. f \in beats
      BY <3>6, <3>7
    <3>9. ASSUME NEW y \in beats PROVE f <= y
      <4> DEFINE e == y - b
                 j == e \div t
      <4>1. y \in b .. top /\ e % t = 0 /\ (y > now \/ (y = b /\ b = now))
        OBVIOUS
      <4>2. y \in Int /\ e \in Nat /\ e > d
        BY <1>1, <1>4, <2>1, <4>1 DEF d
      <4> HIDE DEF e
      <4>3. j \in Nat /\ e = t * j + (e % t)
        BY <1>1, <4>2, Quotients
      <4> HIDE DEF j
      <4>4. e = t * j
        <5>1. t * j \in Nat
          BY <1>1, <4>3, Multiples
        <5> QED
          BY <4>1, <4>3, <5>1
      <4>5. ~(j <= k)
        <5> SUFFICES ASSUME j <= k PROVE FALSE
          OBVIOUS
        <5>1. t * j <= t * k /\ t * j \in Nat
          BY <1>1, <3>3, <4>3, Multiples
        <5> QED
          BY <3>1, <3>3, <3>4, <4>2, <4>4, <5>1
      <4>6. k + 1 <= j /\ k + 1 \in Nat
        BY <3>3, <4>3, <4>5
      <4>7. g <= t * j
        BY <1>1, <4>3, <4>6, Multiples
      <4> HIDE DEF g
      <4>8. g <= e
        BY <4>4, <4>7
      <4> QED
        BY <1>1, <3>5, <4>2, <4>8 DEF e
    <3> QED
      BY <3>8, <3>9
  <2>2. CASE ~(b < now)
    <3>1. f = b
      BY <2>2 DEF f, PeriodicFire
    <3>2. b \in b .. top /\ (b - b) % t = 0 /\ (b > now \/ b = now)
      BY <1>1, <1>4, <2>2
    <3>3. f \in beats
      BY <3>1, <3>2
    <3>4. \A y \in beats : f <= y
      BY <1>1, <1>4, <3>1
    <3> QED
      BY <3>3, <3>4
  <2> QED
    BY <2>1, <2>2
<1>6. Min(beats) = f
  <2>1. \A y \in beats : y \in Int
    BY <1>1, <1>4
  <2>2. f \in Int
    BY <1>5, <2>1
  <2> HIDE DEF beats
  <2>3. \A x \in beats : (\A y \in beats : x <= y) => x = f
    BY <1>5, <2>1
  <2>4. Min(beats) = CHOOSE x \in beats : \A y \in beats : x <= y
    BY DEF Min
  <2> QED
    BY <1>5, <2>3, <2>4
<1> QED
  BY <1>2, <1>6 DEF f, now

-----------------------------------------------------------------------------
(* The steps. *)

\* The queue is only its head, its tail and the memory.
LEMMA HoldsSame ==
  ASSUME NEW q, NEW o, NEW s, Holds(q, s), o.mem = q.mem, o.head = q.head, o.tail = q.tail
  PROVE  Holds(o, s)
BY DEF Holds

\* What AlarmClock sees before and after a step.
LEMMA SeenIs ==
  ASSUME NEW s, Holds(Queue, s), NEW u, Holds(Queue', u)
  PROVE  AlarmsOf(Queue) = LineOf(alarms, s) /\ AlarmsOf(Queue)' = LineOf(alarms', u)
<1>1. Queue.mem = alarms /\ AlarmsOf(Queue) = LineOf(Queue.mem, s)
  BY AlarmsOfIs DEF Queue
<1>2. AlarmsOf(Queue)' = AlarmsOf(Queue')
  BY DEF AlarmsOf, Queue
<1>3. Queue'.mem = alarms'
  BY DEF Queue
<1>4. AlarmsOf(Queue') = LineOf(Queue'.mem, u)
  BY AlarmsOfIs
<1> QED
  BY <1>1, <1>2, <1>3, <1>4

\* An alarm is set.
LEMMA ClockSets ==
  ASSUME NEW l, AlarmsOf(Queue) = l, NEW m, AlarmsOf(Queue)' = m, NEW k \in DOMAIN m, NEW r, m[k] = r,
         \A i \in DOMAIN l : l[i].alarm # r.alarm,
         r.period > 0 => r.due = Clock!NextBeat(r.start, r.period),
         m = Clock!Placed(l, r), systemTime' = systemTime
  PROVE  Clock!Next
<1>1. Clock!Set(r)
  BY DEF Clock!Set, Clock!InLine
<1>2. \E i \in DOMAIN AlarmsOf(Queue)' : Clock!Set(AlarmsOf(Queue)'[i])
  BY <1>1
<1> QED
  BY <1>2 DEF Clock!Next

\* Exactly the alarms of the line are set.
AreSet(s, made, mem) ==
  \A a \in Alarms : a \in ToSet(s) <=> (a \in made /\ mem[a].handler)

\* Setting an alarm that is not set, whatever its record held.
LEMMA SetKeeps ==
  ASSUME systemTime \in Nat, created \subseteq Alarms,
         NEW s, Holds(Queue, s), AreSet(s, created, alarms),
         NEW alarm \in Alarms, Idle(alarm),
         NEW q, q.mem \in [Alarms -> AlarmRecords], q.head = queueHead, q.tail = queueTail,
         \A a \in Alarms \ {alarm} : q.mem[a] = alarms[a],
         NEW given \in Int, Becomes(InsertAlarm(q, alarm, given)),
         UNCHANGED <<systemTime, created>>
  PROVE  AlarmIInv' /\ Clock!Next
<1> DEFINE o == InsertAlarm(q, alarm, given)
           fire == DueOf(q.mem[alarm], given)
<1>1. s \in Lines(Alarms) /\ s \in Seq(Alarms) /\ Len(s) \in Nat /\ ToSet(s) \subseteq Alarms
  BY SeqFacts DEF Holds, Lines
<1>2. alarm \notin ToSet(s)
  BY DEF Idle, AreSet
<1>3. \A i \in 1 .. Len(s) : s[i] \in ToSet(s) /\ s[i] \in Alarms \ {alarm}
  BY <1>2, HeldPlaces
<1>4. \A i \in 1 .. Len(s) : q.mem[s[i]] = alarms[s[i]]
  BY <1>3
<1>5. Holds(q, s)
  <2>1. \A a \in ToSet(s) : /\ NextAlarm(q.mem)[a] = NextAlarm(alarms)[a]
                            /\ PrevAlarm(q.mem)[a] = PrevAlarm(alarms)[a]
    BY <1>1, <1>2 DEF NextAlarm, PrevAlarm
  <2>2. DoublyLinked(NextAlarm(alarms), PrevAlarm(alarms), queueHead, queueTail, NoAlarm, s)
    BY DEF Holds, Queue
  <2>3. DoublyLinked(NextAlarm(q.mem), PrevAlarm(q.mem), q.head, q.tail, NoAlarm, s)
    BY <1>3, <2>1, <2>2 DEF DoublyLinked
  <2>4. \A i, j \in 1 .. Len(s) : i <= j => alarms[s[i]].fire <= alarms[s[j]].fire
    BY DEF Holds, Queue
  <2> QED
    BY <1>1, <1>4, <2>3, <2>4 DEF Holds
<1>6. fire \in Int
  BY DueTyped
<1>7. PICK c : Splits(q, s, fire, c)
  BY <1>5, <1>6, SplitExists
<1> DEFINE k == c + 1
           u == InsertAt(s, k, alarm)
           l == LineOf(alarms, s)
           m == LineOf(o.mem, u)
           r == RecordOf(o.mem, alarm)
<1>8. Entered(q, o, s, alarm, fire, c)
  <2> HIDE DEF fire
  <2> DEFINE f == fire
  <2>1. f = DueOf(q.mem[alarm], given)
    BY DEF fire
  <2> HIDE DEF f
  <2>2. Splits(q, s, f, c) /\ f \in Int
    BY <1>6, <1>7 DEF f
  <2>3. Entered(q, InsertAlarm(q, alarm, given), s, alarm, f, c)
    BY <1>2, <1>5, <2>1, <2>2, InsertIs
  <2> QED
    BY <2>3 DEF f
<1> HIDE DEF o, fire
<1>9. /\ Holds(o, u) /\ ToSet(u) = ToSet(s) \cup {alarm}
      /\ SameAlarms(q.mem, o.mem, Alarms \ {alarm})
      /\ o.mem[alarm].handler = TRUE /\ o.mem[alarm].fire = fire
      /\ o.mem[alarm].start = q.mem[alarm].start /\ o.mem[alarm].period = q.mem[alarm].period
  BY <1>8 DEF Entered
<1>10. queueHead' = o.head /\ queueTail' = o.tail /\ alarms' = o.mem
  BY DEF Becomes, o
<1>11. Holds(Queue', u)
  <2>1. Queue'.head = queueHead' /\ Queue'.tail = queueTail' /\ Queue'.mem = alarms'
    BY DEF Queue
  <2> HIDE DEF u
  <2> QED
    BY <1>9, <1>10, <2>1, HoldsSame
<1>12. AreSet(u, created', alarms')
  <2> SUFFICES ASSUME NEW a \in Alarms PROVE a \in ToSet(u) <=> (a \in created' /\ alarms'[a].handler)
    BY DEF AreSet
  <2> HIDE DEF u
  <2>1. CASE a = alarm
    BY <1>9, <1>10, <2>1 DEF Idle
  <2>2. CASE a # alarm
    <3>1. alarms'[a].handler = alarms[a].handler
      BY <1>9, <1>10, <2>2 DEF SameAlarms
    <3>2. a \in ToSet(u) <=> a \in ToSet(s)
      BY <1>9, <2>2
    <3> QED
      BY <3>1, <3>2 DEF AreSet
  <2> QED
    BY <2>1, <2>2
<1>13. AlarmIInv'
  <2>1. u \in Lines(Alarms)
    BY <1>11 DEF Holds
  <2> HIDE DEF u
  <2> QED
    BY <1>11, <1>12, <2>1 DEF AlarmIInv, AreSet, Holds, DoublyLinked, NextAlarm, PrevAlarm, Queue
<1>14. LineOf(q.mem, s) = l
  BY <1>4 DEF LineOf, RecordOf
<1>15. AlarmsOf(Queue) = l /\ AlarmsOf(Queue)' = m
  <2> HIDE DEF u
  <2> QED
    BY <1>10, <1>11, SeenIs
<1>16. m = Clock!Placed(LineOf(q.mem, s), r) /\ k \in DOMAIN m /\ m[k] = r
  BY <1>2, <1>5, <1>6, <1>7, <1>8, PlacedIs
<1>17. \A i \in DOMAIN l : l[i].alarm # r.alarm
  <2>1. DOMAIN l = 1 .. Len(s) /\ \A i \in 1 .. Len(s) : l[i].alarm = s[i]
    BY DEF LineOf, RecordOf
  <2>2. r.alarm = alarm
    BY DEF RecordOf
  <2> QED
    BY <1>3, <2>1, <2>2
<1>18. r.period > 0 => r.due = Clock!NextBeat(r.start, r.period)
  <2>1. /\ r.period = q.mem[alarm].period /\ r.start = q.mem[alarm].start /\ r.due = fire
    BY <1>9 DEF RecordOf
  <2>2. q.mem[alarm].period \in Int /\ q.mem[alarm].start \in Int
    BY DEF AlarmRecords
  <2>3. q.mem[alarm].period > 0 => fire = PeriodicFire(q.mem[alarm].start, q.mem[alarm].period, systemTime)
    BY DEF fire, DueOf
  <2> HIDE DEF r
  <2> QED
    BY <2>1, <2>2, <2>3, BeatIs
<1>19. Clock!Next
  <2>1. m = Clock!Placed(l, r)
    BY <1>14, <1>16
  <2>2. systemTime' = systemTime
    OBVIOUS
  <2>3. k \in DOMAIN m /\ m[k] = r
    BY <1>16
  <2> HIDE DEF l, m, r, k
  <2> QED
    BY <1>15, <1>17, <1>18, <2>1, <2>2, <2>3, ClockSets
<1> QED
  BY <1>13, <1>19

LEMMA OSSetAlarmKeeps ==
  ASSUME AlarmIInv, NEW alarm \in Alarms, NEW tick \in Ticks, OSSetAlarm(alarm, tick)
  PROVE  AlarmIInv' /\ Clock!Next
<1> DEFINE q == [Queue EXCEPT !.mem[alarm].period = 0]
<1>1. PICK s \in Lines(Alarms) : Holds(Queue, s) /\ AreSet(s, created, alarms)
  BY DEF AlarmIInv, AreSet
<1>2. alarms \in [Alarms -> AlarmRecords]
  BY <1>1 DEF Holds, Queue
<1>3. q.mem = [alarms EXCEPT ![alarm].period = 0] /\ q.head = queueHead /\ q.tail = queueTail
  BY DEF Queue
<1>4. q.mem \in [Alarms -> AlarmRecords] /\ \A a \in Alarms \ {alarm} : q.mem[a] = alarms[a]
  <2> HIDE DEF q
  <2> QED
    BY <1>2, <1>3 DEF AlarmRecords
<1>5. /\ Idle(alarm) /\ Becomes(InsertAlarm(q, alarm, systemTime + tick)) /\ UNCHANGED <<systemTime, created>>
  BY DEF OSSetAlarm
<1>6. systemTime \in Nat /\ created \subseteq Alarms /\ systemTime + tick \in Int
  BY AlarmAssumption DEF AlarmIInv
<1> DEFINE given == systemTime + tick
<1> HIDE DEF q, given
<1>7. given \in Int /\ Becomes(InsertAlarm(q, alarm, given))
  BY <1>5, <1>6 DEF given
<1> QED
  BY <1>1, <1>3, <1>4, <1>5, <1>6, <1>7, SetKeeps

LEMMA OSSetPeriodicAlarmKeeps ==
  ASSUME AlarmIInv, NEW alarm \in Alarms, NEW start \in Int, NEW period \in Periods,
         OSSetPeriodicAlarm(alarm, start, period)
  PROVE  AlarmIInv' /\ Clock!Next
<1> DEFINE q == [Queue EXCEPT !.mem[alarm].period = period, !.mem[alarm].start = start]
<1>1. PICK s \in Lines(Alarms) : Holds(Queue, s) /\ AreSet(s, created, alarms)
  BY DEF AlarmIInv, AreSet
<1>2. alarms \in [Alarms -> AlarmRecords]
  BY <1>1 DEF Holds, Queue
<1>3. /\ q.mem = [[alarms EXCEPT ![alarm].period = period] EXCEPT ![alarm].start = start]
      /\ q.head = queueHead /\ q.tail = queueTail
  BY DEF Queue
<1>4. q.mem \in [Alarms -> AlarmRecords] /\ \A a \in Alarms \ {alarm} : q.mem[a] = alarms[a]
  <2> DEFINE half == [alarms EXCEPT ![alarm].period = period]
  <2>1. half \in [Alarms -> AlarmRecords] /\ \A a \in Alarms \ {alarm} : half[a] = alarms[a]
    BY <1>2, AlarmAssumption DEF AlarmRecords
  <2> HIDE DEF q, half
  <2>2. q.mem = [half EXCEPT ![alarm].start = start]
    BY <1>3 DEF half
  <2> QED
    BY <2>1, <2>2 DEF AlarmRecords
<1>5. /\ Idle(alarm) /\ Becomes(InsertAlarm(q, alarm, 0)) /\ UNCHANGED <<systemTime, created>>
  BY DEF OSSetPeriodicAlarm
<1>6. systemTime \in Nat /\ created \subseteq Alarms /\ 0 \in Int
  BY DEF AlarmIInv
<1> HIDE DEF q
<1> QED
  BY <1>1, <1>3, <1>4, <1>5, <1>6, SetKeeps

LEMMA OSCancelAlarmKeeps ==
  ASSUME AlarmIInv, NEW alarm \in Alarms, OSCancelAlarm(alarm)
  PROVE  AlarmIInv' /\ Clock!Next
<1>1. PICK s \in Lines(Alarms) : Holds(Queue, s) /\ AreSet(s, created, alarms)
  BY DEF AlarmIInv, AreSet
<1>2. alarms \in [Alarms -> AlarmRecords] /\ systemTime \in Nat /\ created \subseteq Alarms
  BY <1>1 DEF Holds, Queue, AlarmIInv
<1>3. alarm \in ToSet(s)
  BY <1>1 DEF OSCancelAlarm, AreSet
<1>4. NoAlarm \notin Alarms
  BY AlarmAssumption
<1>5. PICK k \in 1 .. Len(s) : alarm = s[k]
  BY <1>3, <1>4, BesideIs
<1> DEFINE n == alarms[alarm].next
           p == alarms[alarm].prev
           u == RemoveAt(s, k)
           l == LineOf(alarms, s)
           m == LineOf(alarms', u)
<1>6. n \in Alarms \cup {NoAlarm} /\ p \in Alarms \cup {NoAlarm}
  BY <1>2 DEF AlarmRecords
<1>7. /\ \A i \in Int : Beside(s, NoAlarm, i) = NoAlarm <=> i \notin 1 .. Len(s)
      /\ \A i \in 1 .. Len(s) : Beside(s, NoAlarm, i) = s[i]
      /\ n = Beside(s, NoAlarm, k + 1) /\ p = Beside(s, NoAlarm, k - 1)
      /\ Len(s) \in Nat
  BY <1>1, <1>5, HeldPlaces DEF Queue
<1>8. n # alarm /\ p # alarm /\ (n = p => n = NoAlarm)
  <2>1. \A i, j \in 1 .. Len(s) : s[i] = s[j] => i = j
    BY <1>4, BesideIs
  <2> HIDE DEF n, p
  <2>2. \A i \in 1 .. Len(s) : s[i] \in Alarms
    BY <1>4, BesideIs
  <2>3. n # alarm
    <3>1. CASE k + 1 \in 1 .. Len(s)
      BY <1>5, <1>7, <2>1, <3>1
    <3>2. CASE k + 1 \notin 1 .. Len(s)
      BY <1>4, <1>7, <3>2
    <3> QED
      BY <3>1, <3>2
  <2>4. p # alarm
    <3>1. CASE k - 1 \in 1 .. Len(s)
      BY <1>5, <1>7, <2>1, <3>1
    <3>2. CASE k - 1 \notin 1 .. Len(s)
      BY <1>4, <1>7, <3>2
    <3> QED
      BY <3>1, <3>2
  <2>5. ASSUME n = p PROVE n = NoAlarm
    <3>1. CASE k + 1 \in 1 .. Len(s) /\ k - 1 \in 1 .. Len(s)
      BY <1>5, <1>7, <2>1, <2>5, <3>1
    <3>2. CASE ~(k + 1 \in 1 .. Len(s) /\ k - 1 \in 1 .. Len(s))
      BY <1>7, <2>5, <3>2
    <3> QED
      BY <3>1, <3>2
  <2> QED
    BY <2>3, <2>4, <2>5
<1>9. /\ queueTail' = (IF n = NoAlarm THEN p ELSE queueTail)
      /\ queueHead' = (IF p = NoAlarm THEN n ELSE queueHead)
      /\ alarms' = [a \in Alarms |->
          IF a = alarm THEN [alarms[a] EXCEPT !.handler = FALSE]
          ELSE IF a = n THEN [alarms[a] EXCEPT !.prev = p]
          ELSE IF a = p THEN [alarms[a] EXCEPT !.next = n]
          ELSE alarms[a]]
      /\ systemTime' = systemTime /\ created' = created
  BY DEF OSCancelAlarm
<1>10. Queue'.head = queueHead' /\ Queue'.tail = queueTail' /\ Queue'.mem = alarms' /\ Queue.mem = alarms
       /\ Queue.head = queueHead /\ Queue.tail = queueTail
  BY DEF Queue
<1> HIDE DEF n, p
<1>11. alarms' \in [Alarms -> AlarmRecords]
  <2>1. \A a \in Alarms : /\ [alarms[a] EXCEPT !.handler = FALSE] \in AlarmRecords
                          /\ [alarms[a] EXCEPT !.prev = p] \in AlarmRecords
                          /\ [alarms[a] EXCEPT !.next = n] \in AlarmRecords
                          /\ alarms[a] \in AlarmRecords
    BY <1>2, <1>6 DEF AlarmRecords
  <2> QED
    BY <1>9, <2>1
<1>12. /\ alarms'[alarm].handler = FALSE
       /\ \A a \in Alarms \ {alarm} :
            /\ alarms'[a].fire = alarms[a].fire /\ alarms'[a].start = alarms[a].start
            /\ alarms'[a].period = alarms[a].period /\ alarms'[a].handler = alarms[a].handler
            /\ alarms'[a].next = (IF a = p THEN n ELSE alarms[a].next)
            /\ alarms'[a].prev = (IF a = n THEN p ELSE alarms[a].prev)
  <2>1. \A a \in Alarms : alarms[a] \in AlarmRecords
    BY <1>2
  <2>2. alarms'[alarm].handler = FALSE
    <3>1. alarms'[alarm] = [alarms[alarm] EXCEPT !.handler = FALSE]
      BY <1>9
    <3> QED
      BY <2>1, <3>1 DEF AlarmRecords
  <2>3. ASSUME NEW a \in Alarms \ {alarm}
        PROVE  /\ alarms'[a].fire = alarms[a].fire /\ alarms'[a].start = alarms[a].start
               /\ alarms'[a].period = alarms[a].period /\ alarms'[a].handler = alarms[a].handler
               /\ alarms'[a].next = (IF a = p THEN n ELSE alarms[a].next)
               /\ alarms'[a].prev = (IF a = n THEN p ELSE alarms[a].prev)
    <3>1. a # NoAlarm /\ alarms[a] \in AlarmRecords
      BY <1>4, <2>1
    <3>2. CASE a = n
      <4>1. alarms'[a] = [alarms[a] EXCEPT !.prev = p]
        BY <1>9, <3>2
      <4>2. a # p
        BY <1>8, <3>1, <3>2
      <4> QED
        BY <3>1, <3>2, <4>1, <4>2 DEF AlarmRecords
    <3>3. CASE a # n /\ a = p
      <4>1. alarms'[a] = [alarms[a] EXCEPT !.next = n]
        BY <1>9, <3>3
      <4> QED
        BY <3>1, <3>3, <4>1 DEF AlarmRecords
    <3>4. CASE a # n /\ a # p
      <4>1. alarms'[a] = alarms[a]
        BY <1>9, <3>4
      <4> QED
        BY <3>4, <4>1
    <3> QED
      BY <3>2, <3>3, <3>4
  <2> HIDE DEF p, n
  <2> QED
    BY <2>2, <2>3
<1>13. Leaves(Queue, Queue', s, k)
  <2> DEFINE q == Queue
             x == Queue'
             mem == alarms'
  <2>1. /\ q.mem = alarms /\ q.head = queueHead /\ q.tail = queueTail
        /\ x.mem = mem /\ x.head = queueHead' /\ x.tail = queueTail'
    BY <1>10
  <2>2. q.mem[s[k]].next = n /\ q.mem[s[k]].prev = p
    BY <1>5, <2>1 DEF n, p
  <2>3. mem \in [Alarms -> AlarmRecords]
    BY <1>11
  <2>4. \A a \in Alarms \ {s[k]} :
          /\ mem[a].fire = alarms[a].fire /\ mem[a].start = alarms[a].start
          /\ mem[a].period = alarms[a].period /\ mem[a].handler = alarms[a].handler
          /\ mem[a].next = (IF a = p THEN n ELSE alarms[a].next)
          /\ mem[a].prev = (IF a = n THEN p ELSE alarms[a].prev)
    BY <1>5, <1>12
  <2>5. queueTail' = (IF n = NoAlarm THEN p ELSE queueTail) /\ queueHead' = (IF p = NoAlarm THEN n ELSE queueHead)
    BY <1>9
  <2> HIDE DEF q, x, mem
  <2>6. SameAlarms(q.mem, x.mem, Alarms \ {s[k]})
    BY <2>1, <2>4 DEF SameAlarms
  <2>7. Leaves(q, x, s, k)
    BY <2>1, <2>2, <2>3, <2>4, <2>5, <2>6 DEF Leaves
  <2> QED
    BY <2>7 DEF q, x
<1>14. Holds(Queue', u) /\ ToSet(u) = ToSet(s) \ {alarm} /\ u \in Lines(Alarms)
  <2>1. Holds(Queue', RemoveAt(s, k)) /\ ToSet(RemoveAt(s, k)) = ToSet(s) \ {s[k]}
    BY <1>1, <1>13, LeaveIs
  <2> QED
    BY <1>5, <2>1 DEF Holds
<1>15. AreSet(u, created', alarms')
  BY <1>1, <1>9, <1>12, <1>14 DEF AreSet
<1>16. AlarmIInv'
  <2> HIDE DEF u
  <2> QED
    BY <1>2, <1>9, <1>14, <1>15 DEF AlarmIInv, AreSet, Holds, DoublyLinked, NextAlarm, PrevAlarm, Queue
<1>17. AlarmsOf(Queue) = l /\ AlarmsOf(Queue)' = m
  <2> HIDE DEF u
  <2> QED
    BY <1>1, <1>14, SeenIs
<1>18. m = RemoveAt(l, k)
  <2>1. LineOf(Queue'.mem, RemoveAt(s, k)) = RemoveAt(LineOf(Queue.mem, s), k)
    BY <1>1, <1>13, RemovedIs
  <2> QED
    BY <1>10, <2>1
<1>19. k \in DOMAIN l
  BY DEF LineOf
<1>20. Clock!Cancel(k)
  <2> HIDE DEF l, m
  <2> QED
    BY <1>9, <1>17, <1>18 DEF Clock!Cancel, Clock!RemoveAt, RemoveAt
<1>21. Clock!Next
  <2> HIDE DEF l
  <2> QED
    BY <1>17, <1>19, <1>20 DEF Clock!Next
<1> QED
  BY <1>16, <1>21

\* The head goes: what is left is the rest of the line.
FireStep(r, rest) ==
  IF r.period > 0 THEN Clock!Placed(rest, [r EXCEPT !.due = Clock!NextBeat(r.start, r.period)]) ELSE rest

LEMMA ClockFires ==
  ASSUME NEW l, AlarmsOf(Queue) = l, NEW m, AlarmsOf(Queue)' = m, l # <<>>, NEW r, Head(l) = r,
         NEW rest, Tail(l) = rest, r.due <= systemTime,
         m = FireStep(r, rest), systemTime' = systemTime
  PROVE  Clock!Next
<1>1. Clock!Fire
  BY DEF Clock!Fire, FireStep
<1> QED
  BY <1>1 DEF Clock!Next

\* What follows the first is the line without it.
LEMMA TailIs ==
  ASSUME NEW S, NEW ts \in Seq(S), ts # <<>>
  PROVE  /\ Tail(ts) = RemoveAt(ts, 1) /\ Tail(ts) \in Seq(S) /\ Head(ts) = ts[1]
         /\ 1 \in 1 .. Len(ts) /\ Len(ts) \in Nat
<1>1. Len(ts) \in Nat /\ 1 \in 1 .. Len(ts)
  BY SeqFacts
<1>2. RemoveAt(ts, 1) = [i \in 1 .. Len(ts) - 1 |-> IF i < 1 THEN ts[i] ELSE ts[i + 1]]
  BY <1>1, RemoveAtIs
<1>3. RemoveAt(ts, 1) = [i \in 1 .. Len(ts) - 1 |-> ts[i + 1]]
  <2> DEFINE n == Len(ts) - 1
  <2>1. \A i \in 1 .. n : ~(i < 1)
    BY <1>1
  <2> HIDE DEF n
  <2>2. [i \in 1 .. n |-> IF i < 1 THEN ts[i] ELSE ts[i + 1]] = [i \in 1 .. n |-> ts[i + 1]]
    BY <2>1
  <2> QED
    BY <1>2, <2>2 DEF n
<1>4. Tail(ts) \in Seq(S) /\ Len(Tail(ts)) = Len(ts) - 1 /\ \A i \in 1 .. Len(ts) - 1 : Tail(ts)[i] = ts[i + 1]
  BY <1>1
<1>5. Tail(ts) \in [1 .. Len(Tail(ts)) -> S]
  BY <1>4, SeqFacts
<1>6. Tail(ts) = [i \in 1 .. Len(ts) - 1 |-> ts[i + 1]]
  <2> DEFINE n == Len(ts) - 1
             tl == Tail(ts)
  <2>1. tl \in [1 .. n -> S] /\ \A i \in 1 .. n : tl[i] = ts[i + 1]
    BY <1>4, <1>5
  <2> HIDE DEF n, tl
  <2>2. tl = [i \in 1 .. n |-> ts[i + 1]]
    BY <2>1
  <2> QED
    BY <2>2 DEF n, tl
<1> QED
  BY <1>1, <1>3, <1>4, <1>6

\* The handler of the first alarm.
LEMMA OSAlarmFireHeadKeeps ==
  ASSUME AlarmIInv, OSAlarmFireHead
  PROVE  AlarmIInv' /\ Clock!Next
<1>1. PICK s \in Lines(Alarms) : Holds(Queue, s) /\ AreSet(s, created, alarms)
  BY DEF AlarmIInv, AreSet
<1>2. /\ alarms \in [Alarms -> AlarmRecords] /\ systemTime \in Nat /\ created \subseteq Alarms
      /\ s \in Seq(Alarms)
  BY <1>1 DEF Holds, Queue, AlarmIInv, Lines
<1>3. NoAlarm \notin Alarms
  BY AlarmAssumption
<1> DEFINE h == queueHead
           n == alarms[h].next
           mem == [a \in Alarms |->
                     IF a = h THEN [alarms[a] EXCEPT !.handler = FALSE]
                     ELSE IF a = n THEN [alarms[a] EXCEPT !.prev = NoAlarm]
                     ELSE alarms[a]]
           after == [head |-> n, tail |-> IF n = NoAlarm THEN NoAlarm ELSE queueTail, mem |-> mem]
           o == IF alarms[h].period > 0 THEN InsertAlarm(after, h, 0) ELSE after
           rest == RemoveAt(s, 1)
           l == LineOf(alarms, s)
<1>4. /\ h # NoAlarm /\ alarms[h].fire <= systemTime /\ Becomes(o)
      /\ systemTime' = systemTime /\ created' = created
  BY DEF OSAlarmFireHead
<1>5. /\ \A i \in Int : Beside(s, NoAlarm, i) = NoAlarm <=> i \notin 1 .. Len(s)
      /\ \A i \in 1 .. Len(s) : Beside(s, NoAlarm, i) = s[i] /\ s[i] \in ToSet(s) /\ s[i] \in Alarms
      /\ h = Beside(s, NoAlarm, 1)
      /\ \A i \in 1 .. Len(s) : /\ alarms[s[i]].next = Beside(s, NoAlarm, i + 1)
                                /\ alarms[s[i]].prev = Beside(s, NoAlarm, i - 1)
      /\ Len(s) \in Nat
  <2> DEFINE q == Queue
  <2>1. Holds(q, s) /\ q.mem = alarms /\ q.head = h
    BY <1>1 DEF Queue
  <2> HIDE DEF q
  <2>2. /\ \A j \in 1 .. Len(s) : Beside(s, NoAlarm, j) = s[j] /\ s[j] \in Alarms /\ s[j] \in ToSet(s)
        /\ \A j \in Int : Beside(s, NoAlarm, j) = NoAlarm <=> j \notin 1 .. Len(s)
        /\ q.head = Beside(s, NoAlarm, 1) /\ Len(s) \in Nat
    BY <2>1, HeldPlaces
  <2>3. \A j \in 1 .. Len(s) : /\ q.mem[s[j]].next = Beside(s, NoAlarm, j + 1)
                               /\ q.mem[s[j]].prev = Beside(s, NoAlarm, j - 1)
    BY <2>1, HeldPlaces
  <2> QED
    BY <2>1, <2>2, <2>3
<1>6. 1 \in 1 .. Len(s) /\ h = s[1] /\ h \in Alarms /\ h \in ToSet(s)
  BY <1>4, <1>5
<1>7. alarms[h].prev = NoAlarm /\ n = Beside(s, NoAlarm, 2) /\ n # h /\ n \in Alarms \cup {NoAlarm}
  <2>1. alarms[h].prev = Beside(s, NoAlarm, 0) /\ n = Beside(s, NoAlarm, 2)
    BY <1>5, <1>6
  <2> HIDE DEF n
  <2>2. n # h
    <3>1. CASE 2 \in 1 .. Len(s)
      <4>1. n = s[2]
        BY <1>5, <2>1, <3>1
      <4>2. \A i, j \in 1 .. Len(s) : s[i] = s[j] => i = j
        BY <1>3, BesideIs
      <4> QED
        BY <1>6, <3>1, <4>1, <4>2
    <3>2. CASE 2 \notin 1 .. Len(s)
      BY <1>3, <1>5, <1>6, <2>1, <3>2
    <3> QED
      BY <3>1, <3>2
  <2>3. n \in Alarms \cup {NoAlarm}
    BY <1>2, <1>6 DEF n, AlarmRecords
  <2> QED
    BY <1>5, <2>1, <2>2, <2>3
<1>8. Queue.head = h /\ Queue.tail = queueTail /\ Queue.mem = alarms
  BY DEF Queue
<1>9. after.mem = mem /\ after.head = n /\ after.tail = IF n = NoAlarm THEN NoAlarm ELSE queueTail
  OBVIOUS
<1>10. alarms[h] \in AlarmRecords /\ alarms[h].period \in Int /\ alarms[h].start \in Int
  BY <1>2, <1>6 DEF AlarmRecords
<1> HIDE DEF n, after
<1>11. /\ mem \in [Alarms -> AlarmRecords]
       /\ mem[h].handler = FALSE /\ mem[h].fire = alarms[h].fire /\ mem[h].start = alarms[h].start
       /\ mem[h].period = alarms[h].period
       /\ \A a \in Alarms \ {h} :
            /\ mem[a].fire = alarms[a].fire /\ mem[a].start = alarms[a].start
            /\ mem[a].period = alarms[a].period /\ mem[a].handler = alarms[a].handler
            /\ mem[a].next = alarms[a].next
            /\ mem[a].prev = (IF a = n THEN NoAlarm ELSE alarms[a].prev)
  <2>1. \A a \in Alarms : /\ alarms[a] \in AlarmRecords
                          /\ [alarms[a] EXCEPT !.handler = FALSE] \in AlarmRecords
                          /\ [alarms[a] EXCEPT !.prev = NoAlarm] \in AlarmRecords
    BY <1>2 DEF AlarmRecords
  <2>2. mem \in [Alarms -> AlarmRecords]
    BY <2>1
  <2>3. mem[h] = [alarms[h] EXCEPT !.handler = FALSE]
    BY <1>6
  <2>4. \A a \in Alarms \ {h} : mem[a] = IF a = n THEN [alarms[a] EXCEPT !.prev = NoAlarm] ELSE alarms[a]
    OBVIOUS
  <2> HIDE DEF mem
  <2>5. /\ mem[h].handler = FALSE /\ mem[h].fire = alarms[h].fire /\ mem[h].start = alarms[h].start
        /\ mem[h].period = alarms[h].period
    BY <1>10, <2>3 DEF AlarmRecords
  <2>6. ASSUME NEW a \in Alarms \ {h}
        PROVE  /\ mem[a].fire = alarms[a].fire /\ mem[a].start = alarms[a].start
               /\ mem[a].period = alarms[a].period /\ mem[a].handler = alarms[a].handler
               /\ mem[a].next = alarms[a].next
               /\ mem[a].prev = (IF a = n THEN NoAlarm ELSE alarms[a].prev)
    <3>1. alarms[a] \in AlarmRecords
      BY <2>1
    <3>2. CASE a = n
      <4>1. mem[a] = [alarms[a] EXCEPT !.prev = NoAlarm]
        BY <2>4, <3>2
      <4> QED
        BY <3>1, <3>2, <4>1 DEF AlarmRecords
    <3>3. CASE a # n
      <4>1. mem[a] = alarms[a]
        BY <2>4, <3>3
      <4> QED
        BY <3>3, <4>1
    <3> QED
      BY <3>2, <3>3
  <2> QED
    BY <2>2, <2>5, <2>6
<1> HIDE DEF mem
<1>12. Leaves(Queue, after, s, 1)
  <2>1. \A a \in Alarms : a # NoAlarm
    BY <1>3
  <2> QED
    BY <1>6, <1>7, <1>8, <1>9, <1>11, <2>1 DEF Leaves, SameAlarms, n
<1>13. Holds(after, rest) /\ ToSet(rest) = ToSet(s) \ {h} /\ rest \in Lines(Alarms)
  <2>1. Holds(after, RemoveAt(s, 1)) /\ ToSet(RemoveAt(s, 1)) = ToSet(s) \ {s[1]}
    BY <1>1, <1>6, <1>12, LeaveIs
  <2> QED
    BY <1>6, <2>1 DEF Holds
<1>14. LineOf(after.mem, rest) = RemoveAt(l, 1)
  <2>1. LineOf(after.mem, RemoveAt(s, 1)) = RemoveAt(LineOf(Queue.mem, s), 1)
    BY <1>1, <1>6, <1>12, RemovedIs
  <2> QED
    BY <1>8, <2>1
<1>15. l \in Seq(LineRecords) /\ Len(l) = Len(s) /\ l[1] = RecordOf(alarms, h)
  <2>1. /\ LineOf(Queue.mem, s) \in Seq(LineRecords) /\ Len(LineOf(Queue.mem, s)) = Len(s)
        /\ \A i \in 1 .. Len(s) : LineOf(Queue.mem, s)[i] = RecordOf(Queue.mem, s[i])
    BY <1>1, LineTyped
  <2> HIDE DEF l
  <2> QED
    BY <1>6, <1>8, <2>1 DEF l
<1> DEFINE head == RecordOf(alarms, h)
           others == LineOf(after.mem, rest)
<1>16. l # <<>> /\ Head(l) = head /\ Tail(l) = others
  <2> HIDE DEF l
  <2>1. l # <<>>
    BY <1>6, <1>15, SeqFacts
  <2> QED
    BY <1>14, <1>15, <2>1, TailIs
<1>17. /\ head.due = alarms[h].fire /\ head.period = alarms[h].period /\ head.start = alarms[h].start
       /\ head.alarm = h
  BY DEF RecordOf
<1>18. \E u \in Lines(Alarms) :
          /\ Holds(o, u) /\ AreSet(u, created, o.mem) /\ LineOf(o.mem, u) = FireStep(head, others)
  <2>1. CASE alarms[h].period > 0
    <3> DEFINE fire == DueOf(after.mem[h], 0)
               x == InsertAlarm(after, h, 0)
    <3>1. after.mem[h] \in AlarmRecords /\ fire \in Int
      <4>1. after.mem[h] \in AlarmRecords /\ 0 \in Int
        BY <1>6, <1>9, <1>11
      <4> QED
        BY <1>2, <4>1, DueTyped
    <3>2. fire = PeriodicFire(alarms[h].start, alarms[h].period, systemTime)
      BY <1>9, <1>11, <2>1 DEF DueOf
    <3>3. fire = Clock!NextBeat(alarms[h].start, alarms[h].period)
      <4> DEFINE b == alarms[h].start
                 t == alarms[h].period
      <4>1. b \in Int /\ t \in Int /\ t > 0 /\ fire = PeriodicFire(b, t, systemTime)
        BY <1>10, <2>1, <3>2
      <4> HIDE DEF b, t, fire
      <4>2. fire = Clock!NextBeat(b, t)
        BY <1>2, <4>1, BeatIs
      <4> QED
        BY <4>2 DEF b, t
    <3> DEFINE f == fire
    <3>4. f = DueOf(after.mem[h], 0)
      OBVIOUS
    <3> HIDE DEF fire, f
    <3>5. f \in Int /\ f = Clock!NextBeat(alarms[h].start, alarms[h].period)
      BY <3>1, <3>3 DEF f
    <3>6. PICK c : Splits(after, rest, f, c)
      BY <1>13, <3>5, SplitExists
    <3> DEFINE k == c + 1
               u == InsertAt(rest, k, h)
               r == RecordOf(x.mem, h)
    <3>7. h \notin ToSet(rest)
      BY <1>13
    <3>8. Entered(after, InsertAlarm(after, h, 0), rest, h, f, c)
      BY <1>6, <1>13, <3>4, <3>5, <3>6, <3>7, InsertIs
    <3> HIDE DEF x
    <3>9. Entered(after, x, rest, h, f, c)
      BY <3>8 DEF x
    <3>10. LineOf(x.mem, u) = Clock!Placed(others, r)
      BY <1>6, <1>13, <3>5, <3>6, <3>7, <3>9, PlacedIs
    <3>11. /\ Holds(x, u) /\ ToSet(u) = ToSet(rest) \cup {h}
           /\ SameAlarms(after.mem, x.mem, Alarms \ {h})
           /\ x.mem[h].handler = TRUE /\ x.mem[h].fire = f
           /\ x.mem[h].start = after.mem[h].start /\ x.mem[h].period = after.mem[h].period
      BY <3>9 DEF Entered
    <3>12. r = [head EXCEPT !.due = Clock!NextBeat(head.start, head.period)]
      <4> DEFINE beat == Clock!NextBeat(head.start, head.period)
      <4>1. x.mem[h].fire = beat /\ x.mem[h].start = alarms[h].start /\ x.mem[h].period = alarms[h].period
        BY <1>9, <1>11, <1>17, <3>5, <3>11
      <4> HIDE DEF beat
      <4>2. r = [head EXCEPT !.due = beat]
        BY <4>1 DEF RecordOf
      <4> HIDE DEF head, r
      <4> QED
        BY <4>2 DEF beat
    <3>13. FireStep(head, others) = Clock!Placed(others, r)
      <4> HIDE DEF head, others, r
      <4> QED
        BY <1>17, <2>1, <3>12 DEF FireStep
    <3>14. AreSet(u, created, x.mem)
      <4> SUFFICES ASSUME NEW a \in Alarms PROVE a \in ToSet(u) <=> (a \in created /\ x.mem[a].handler)
        BY DEF AreSet
      <4> HIDE DEF u
      <4>1. CASE a = h
        BY <1>1, <1>6, <3>11, <4>1 DEF AreSet
      <4>2. CASE a # h
        <5>1. x.mem[a].handler = alarms[a].handler
          BY <1>9, <1>11, <3>11, <4>2 DEF SameAlarms
        <5>2. a \in ToSet(u) <=> a \in ToSet(s)
          BY <1>13, <3>11, <4>2
        <5> QED
          BY <1>1, <5>1, <5>2 DEF AreSet
      <4> QED
        BY <4>1, <4>2
    <3>15. o = x /\ u \in Lines(Alarms)
      BY <2>1, <3>11 DEF x, Holds
    <3> HIDE DEF o, u, head, others
    <3> QED
      BY <3>10, <3>11, <3>13, <3>14, <3>15
  <2>2. CASE ~(alarms[h].period > 0)
    <3>1. o = after
      BY <2>2
    <3>2. FireStep(head, others) = others
      <4> HIDE DEF head, others
      <4> QED
        BY <1>17, <2>2 DEF FireStep
    <3>3. AreSet(rest, created, after.mem)
      BY <1>1, <1>6, <1>9, <1>11, <1>13 DEF AreSet
    <3> HIDE DEF o, head
    <3> QED
      BY <1>13, <3>1, <3>2, <3>3
  <2> QED
    BY <2>1, <2>2
<1> HIDE DEF o, head, others, l
<1>19. PICK u \in Lines(Alarms) :
          /\ Holds(o, u) /\ AreSet(u, created, o.mem) /\ LineOf(o.mem, u) = FireStep(head, others)
  BY <1>18
<1>20. Queue'.head = o.head /\ Queue'.tail = o.tail /\ Queue'.mem = o.mem /\ alarms' = o.mem
  BY <1>4 DEF Becomes, Queue
<1>21. Holds(Queue', u)
  BY <1>19, <1>20, HoldsSame
<1>22. AlarmIInv'
  <2>1. AreSet(u, created', alarms')
    BY <1>4, <1>19, <1>20
  <2> QED
    BY <1>2, <1>4, <1>21, <2>1 DEF AlarmIInv, AreSet, Holds, DoublyLinked, NextAlarm, PrevAlarm, Queue
<1>23. AlarmsOf(Queue) = l /\ AlarmsOf(Queue)' = FireStep(head, others)
  BY <1>1, <1>19, <1>20, <1>21, SeenIs DEF l
<1>24. head.due <= systemTime
  BY <1>4, <1>17
<1>25. Clock!Next
  BY <1>4, <1>16, <1>23, <1>24, ClockFires
<1> QED
  BY <1>22, <1>25

LEMMA AlarmInitially == AlarmInit => AlarmIInv /\ Clock!Init
<1> SUFFICES ASSUME AlarmInit PROVE AlarmIInv /\ Clock!Init
  OBVIOUS
<1> DEFINE s == <<>>
<1>1. /\ queueHead = NoAlarm /\ queueTail = NoAlarm /\ systemTime = 0 /\ created = {}
      /\ alarms \in [Alarms -> [handler : BOOLEAN, fire : {0}, prev : {NoAlarm}, next : {NoAlarm},
                                period : {0}, start : {0}]]
  BY DEF AlarmInit
<1>2. alarms \in [Alarms -> AlarmRecords]
  BY <1>1 DEF AlarmRecords
<1>3. s \in Lines(Alarms) /\ ToSet(s) = {} /\ Len(s) = 0
  BY DEF Lines, IsInjective, ToSet
<1>4. Queue.mem = alarms /\ Queue.head = NoAlarm /\ Queue.tail = NoAlarm
  BY <1>1 DEF Queue
<1>5. \A i \in Int : Beside(s, NoAlarm, i) = NoAlarm
  BY <1>3 DEF Beside
<1> HIDE DEF s
<1>6. DoublyLinked(NextAlarm(alarms), PrevAlarm(alarms), NoAlarm, NoAlarm, NoAlarm, s)
  BY <1>3, <1>5 DEF DoublyLinked
<1>7. Holds(Queue, s)
  BY <1>2, <1>3, <1>4, <1>6 DEF Holds
<1>8. AlarmIInv
  BY <1>1, <1>3, <1>7 DEF AlarmIInv
<1>9. AlarmsOf(Queue) = <<>>
  <2>1. AlarmsOf(Queue) = LineOf(alarms, s)
    BY <1>4, <1>7, AlarmsOfIs
  <2>2. LineOf(Queue.mem, s) \in Seq(LineRecords) /\ Len(LineOf(Queue.mem, s)) = 0
    BY <1>3, <1>7, LineTyped
  <2> QED
    BY <1>4, <2>1, <2>2
<1>10. Clock!Init
  BY <1>1, <1>9 DEF Clock!Init
<1> QED
  BY <1>8, <1>10

\* Steps that leave what AlarmClock sees.
LEMMA SameQueue ==
  ASSUME NEW s, Holds(Queue, s), Holds(Queue', s), LineOf(alarms', s) = LineOf(alarms, s)
  PROVE  AlarmsOf(Queue)' = AlarmsOf(Queue)
BY SeenIs

LEMMA OSCreateAlarmKeeps ==
  ASSUME AlarmIInv, NEW alarm \in Alarms, OSCreateAlarm(alarm)
  PROVE  AlarmIInv' /\ UNCHANGED <<systemTime, AlarmsOf(Queue)>>
<1>1. PICK s \in Lines(Alarms) : Holds(Queue, s) /\ AreSet(s, created, alarms)
  BY DEF AlarmIInv, AreSet
<1>2. alarms \in [Alarms -> AlarmRecords] /\ systemTime \in Nat /\ created \subseteq Alarms
  BY <1>1 DEF Holds, Queue, AlarmIInv
<1>3. /\ alarm \notin created /\ alarms' = [alarms EXCEPT ![alarm].handler = FALSE]
      /\ created' = created \cup {alarm} /\ queueHead' = queueHead /\ queueTail' = queueTail
      /\ systemTime' = systemTime
  BY DEF OSCreateAlarm
<1>4. alarm \notin ToSet(s)
  BY <1>1, <1>3 DEF AreSet
<1>5. /\ alarms' \in [Alarms -> AlarmRecords] /\ alarms'[alarm].handler = FALSE
      /\ \A a \in Alarms \ {alarm} : alarms'[a] = alarms[a]
  BY <1>2, <1>3 DEF AlarmRecords
<1>6. \A i \in 1 .. Len(s) : s[i] \in Alarms \ {alarm}
  <2>1. \A i \in 1 .. Len(s) : s[i] \in Alarms /\ s[i] \in ToSet(s)
    BY <1>1, HeldPlaces
  <2> QED
    BY <1>4, <2>1
<1>7. \A a \in ToSet(s) : a \in Alarms \ {alarm}
  BY <1>4, SeqFacts DEF Lines
<1>8. Holds(Queue', s)
  <2>1. \A a \in ToSet(s) : /\ NextAlarm(alarms')[a] = NextAlarm(alarms)[a]
                            /\ PrevAlarm(alarms')[a] = PrevAlarm(alarms)[a]
    BY <1>5, <1>7 DEF NextAlarm, PrevAlarm
  <2>2. DoublyLinked(NextAlarm(alarms), PrevAlarm(alarms), queueHead, queueTail, NoAlarm, s)
    BY <1>1 DEF Holds, Queue
  <2>3. \A i \in 1 .. Len(s) : s[i] \in ToSet(s)
    BY <1>1, HeldPlaces
  <2>4. DoublyLinked(NextAlarm(alarms'), PrevAlarm(alarms'), queueHead', queueTail', NoAlarm, s)
    BY <1>3, <2>1, <2>2, <2>3 DEF DoublyLinked
  <2>5. \A i, j \in 1 .. Len(s) : i <= j => alarms[s[i]].fire <= alarms[s[j]].fire
    BY <1>1 DEF Holds, Queue
  <2>6. \A i, j \in 1 .. Len(s) : i <= j => alarms'[s[i]].fire <= alarms'[s[j]].fire
    BY <1>5, <1>6, <2>5
  <2>7. Queue'.head = queueHead' /\ Queue'.tail = queueTail' /\ Queue'.mem = alarms'
    BY DEF Queue
  <2> QED
    BY <1>5, <2>4, <2>6, <2>7 DEF Holds
<1>9. AreSet(s, created', alarms')
  <2> SUFFICES ASSUME NEW a \in Alarms PROVE a \in ToSet(s) <=> (a \in created' /\ alarms'[a].handler)
    BY DEF AreSet
  <2>1. CASE a = alarm
    BY <1>4, <1>5, <2>1
  <2>2. CASE a # alarm
    BY <1>1, <1>3, <1>5, <2>2 DEF AreSet
  <2> QED
    BY <2>1, <2>2
<1>10. AlarmIInv'
  BY <1>2, <1>3, <1>8, <1>9 DEF AlarmIInv, AreSet, Holds, DoublyLinked, NextAlarm, PrevAlarm, Queue
<1>11. LineOf(alarms', s) = LineOf(alarms, s)
  BY <1>5, <1>6 DEF LineOf, RecordOf
<1>12. AlarmsOf(Queue)' = AlarmsOf(Queue)
  BY <1>1, <1>8, <1>11, SameQueue
<1> QED
  BY <1>3, <1>10, <1>12

LEMMA AlarmSteps ==
  ASSUME AlarmIInv, [AlarmNext]_alarmVars
  PROVE  AlarmIInv' /\ [Clock!Next]_<<systemTime, AlarmsOf(Queue)>>
<1>1. ASSUME NEW a \in Alarms, OSCreateAlarm(a)
      PROVE  AlarmIInv' /\ [Clock!Next]_<<systemTime, AlarmsOf(Queue)>>
  BY <1>1, OSCreateAlarmKeeps
<1>2. ASSUME NEW a \in Alarms, OSCancelAlarm(a)
      PROVE  AlarmIInv' /\ [Clock!Next]_<<systemTime, AlarmsOf(Queue)>>
  BY <1>2, OSCancelAlarmKeeps
<1>3. ASSUME NEW a \in Alarms, NEW tick \in Ticks, OSSetAlarm(a, tick)
      PROVE  AlarmIInv' /\ [Clock!Next]_<<systemTime, AlarmsOf(Queue)>>
  BY <1>3, OSSetAlarmKeeps
<1>4. ASSUME NEW a \in Alarms, NEW start \in Ticks, NEW period \in Periods,
             OSSetPeriodicAlarm(a, systemTime + start, period)
      PROVE  AlarmIInv' /\ [Clock!Next]_<<systemTime, AlarmsOf(Queue)>>
  <2> DEFINE at == systemTime + start
  <2>1. at \in Int
    BY AlarmAssumption DEF AlarmIInv
  <2>2. OSSetPeriodicAlarm(a, at, period)
    BY <1>4
  <2> HIDE DEF at
  <2> QED
    BY <2>1, <2>2, OSSetPeriodicAlarmKeeps
<1>5. ASSUME OSAlarmFireHead
      PROVE  AlarmIInv' /\ [Clock!Next]_<<systemTime, AlarmsOf(Queue)>>
  BY <1>5, OSAlarmFireHeadKeeps
<1>6. ASSUME PassTime
      PROVE  AlarmIInv' /\ [Clock!Next]_<<systemTime, AlarmsOf(Queue)>>
  <2>1. /\ systemTime' \in systemTime + 1 .. MaxTime /\ systemTime \in Nat
        /\ queueHead' = queueHead /\ queueTail' = queueTail /\ alarms' = alarms /\ created' = created
    BY <1>6 DEF PassTime, AlarmIInv
  <2>2. systemTime' \in Nat /\ systemTime' > systemTime
    BY <2>1, AlarmAssumption
  <2>3. AlarmIInv'
    BY <2>1, <2>2 DEF AlarmIInv, Holds, DoublyLinked, NextAlarm, PrevAlarm, Queue
  <2>4. AlarmsOf(Queue)' = AlarmsOf(Queue)
    BY <2>1 DEF AlarmsOf, Queue
  <2>5. Clock!Wait
    BY <2>2, <2>4 DEF Clock!Wait
  <2> QED
    BY <2>3, <2>5 DEF Clock!Next
<1>7. ASSUME UNCHANGED alarmVars
      PROVE  AlarmIInv' /\ [Clock!Next]_<<systemTime, AlarmsOf(Queue)>>
  <2>1. /\ queueHead' = queueHead /\ queueTail' = queueTail /\ alarms' = alarms
        /\ systemTime' = systemTime /\ created' = created
    BY <1>7 DEF alarmVars
  <2>2. AlarmIInv'
    BY <2>1 DEF AlarmIInv, Holds, DoublyLinked, NextAlarm, PrevAlarm, Queue
  <2>3. AlarmsOf(Queue)' = AlarmsOf(Queue)
    BY <2>1 DEF AlarmsOf, Queue
  <2> QED
    BY <2>1, <2>2, <2>3
<1> QED
  BY <1>1, <1>2, <1>3, <1>4, <1>5, <1>6, <1>7 DEF AlarmNext

\* The links of both directions, head and tail spell one line of the alarms that are set, with
\* none before one that fires earlier, whatever was set, cancelled or fired late.
THEOREM AlarmsHeld == AlarmSpec => []AlarmIInv
<1>1. AlarmInit => AlarmIInv
  BY AlarmInitially
<1>2. AlarmIInv /\ [AlarmNext]_alarmVars => AlarmIInv'
  BY AlarmSteps
<1> QED
  BY <1>1, <1>2, PTL DEF AlarmSpec

\* The linked list of OSAlarm.c implements the line of AlarmClock: every insertion, removal
\* and late firing maps to a step of that line or leaves it, and periodic alarms keep their beats.
THEOREM ImplementsAlarmClockAlways == AlarmSpec => ImplementsAlarmClock
<1>1. AlarmInit => Clock!Init
  BY AlarmInitially
<1>2. AlarmIInv /\ [AlarmNext]_alarmVars => [Clock!Next]_<<systemTime, AlarmsOf(Queue)>>
  BY AlarmSteps
<1> QED
  BY <1>1, <1>2, AlarmsHeld, PTL DEF AlarmSpec, ImplementsAlarmClock, Clock!Spec
=============================================================================
