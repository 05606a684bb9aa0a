------------------------------ MODULE CardFat ------------------------------
(***************************************************************************)
(* Files on a memory card: the block table of card/card_fat.c, and looking *)
(* up and seeking a file, card/card_dir.c.  What writes the directory is   *)
(* not in src/: the program creates a file by allocating its blocks and    *)
(* filling an entry, deletes it by freeing them, and opens it at offset 0. *)
(* It seeks to offsets from 0 on, and in files that exist.                 *)
(***************************************************************************)
EXTENDS Integers, Sequences, FiniteSets, SequencesExt, CardResults

CONSTANTS
  cBlock,      \* blocks of the card; the first five are the system's
  SectorSize,  \* bytes of a block, a power of 2
  Slots,       \* entries of the directory, 1 .. PORT_CARD_MAX_FILE
  Games,       \* what an entry's gameName and company may be
  Game,        \* the game that runs
  Names,       \* file names, as sequences of characters
  NameMax,     \* PORT_CARD_FILENAME_MAX
  FileSizes,   \* blocks of new files
  Word         \* 2^16

System == 5
Avail == 0
End == Word - 1

\* A game's name does not begin with 255, and a string holds no zero before its end.
ASSUME FatAssumption ==
  /\ Word \in Nat /\ cBlock \in System + 1 .. End - 1 /\ SectorSize \in Nat \ {0}
  /\ Slots \subseteq Nat \ {0} /\ FileSizes \subseteq Nat /\ NameMax \in Nat
  /\ Game \in Games /\ 255 \notin Games /\ Names \subseteq Seq(Nat \ {0})

VARIABLES
  fat,     \* the table: checksums, update counter, free count, last slot, links
  dir,     \* the directory: an entry for each slot
  info,    \* the program's open file, a port_CARDFileInfo
  result   \* what the last call returned

fatVars == <<fat, dir, info, result>>

Data == System .. cBlock - 1
NoEntry == [game |-> 255, name |-> <<>>, public |-> FALSE, start |-> End, length |-> 0]
Closed == [slot |-> 0, offset |-> 0, block |-> 0]

-----------------------------------------------------------------------------
(* The table.                                                               *)

Total(head, next) == FoldFunctionOnSet(+, head, next, Data)
Words == cBlock - System + 3
Folded(n) == IF n % Word = Word - 1 THEN 0 ELSE n % Word

port_CARDCheckSum(f) ==
  LET total == Total(f.code + f.free + f.last, f.next)
  IN <<Folded(total), Folded(Words * (Word - 1) - total)>>

Updated(f) ==
  LET counted == [f EXCEPT !.code = (@ + 1) % Word]
  IN [counted EXCEPT !.sums = port_CARDCheckSum(counted)]

FreeBlocks(f) == Cardinality({b \in Data : f.next[b] = Avail})

\* VerifyFAT of a copy, when a card is mounted.
Sound(f) == f.sums = port_CARDCheckSum(f) /\ f.free = FreeBlocks(f)

\* A search looks at the blocks in a circle, from the one behind the last slot.
CircleFrom(last) ==
  [i \in 1 .. cBlock - System |-> IF last + i \in Data THEN last + i ELSE last + i - cBlock + System]

\* The first n free blocks that it meets.
Found(next, circle, n) ==
  LET after[k \in Nat] ==
        IF k = 0 THEN <<>>
        ELSE LET got == after[k - 1]
             IN IF Len(got) < n /\ next[circle[k]] = Avail THEN Append(got, circle[k]) ELSE got
  IN after[cBlock - System]

\* Blocks in a chain, closed by End.
Linked(next, chain) ==
  [b \in Data |->
     IF b \notin ToSet(chain) THEN next[b]
     ELSE LET i == CHOOSE i \in DOMAIN chain : chain[i] = b
          IN IF i < Len(chain) THEN chain[i + 1] ELSE End]

\* port_CARDAllocBlock: the free count is lowered first.  A search that comes round
\* without enough blocks leaves it so, with the blocks that it found linked.
Allocated(f, n) ==
  LET got == Found(f.next, CircleFrom(f.last), n)
      taken == [f EXCEPT !.free = (@ - n) % Word, !.next = Linked(@, got)]
  IN CASE f.free < n -> [fat |-> f, start |-> End, result |-> INSSPACE]
       [] f.free >= n /\ Len(got) < n -> [fat |-> taken, start |-> End, result |-> BROKEN]
       [] OTHER -> [fat |-> Updated(IF n = 0 THEN taken ELSE [taken EXCEPT !.last = Last(got)]),
                    start |-> IF n = 0 THEN End ELSE got[1], result |-> READY]

\* port_CARDFreeBlock: it frees block by block, and ends with End or a bad link.
Freed(f, block) ==
  LET walk[k \in Nat] ==
        IF k = 0 THEN [fat |-> f, at |-> block]
        ELSE LET s == walk[k - 1]
             IN IF s.at \notin Data THEN s
                ELSE [fat |-> [s.fat EXCEPT !.next[s.at] = Avail, !.free = (@ + 1) % Word],
                      at |-> s.fat.next[s.at]]
      end == walk[2 * cBlock]
  IN IF end.at = End THEN [fat |-> Updated(end.fat), result |-> READY]
     ELSE [fat |-> end.fat, result |-> BROKEN]

-----------------------------------------------------------------------------
(* The directory.                                                           *)

\* Characters of the field fileName and of a string, with the zeros behind them.
FieldChar(name, i) == IF i <= Len(name) THEN name[i] ELSE 0

\* The comparison ends with the first difference, with the zero that ends both, or after
\* NameMax characters, where the string must end too.
port_CARDCompareFileName(field, string) ==
  /\ \A i \in 1 .. NameMax :
       (\A j \in 1 .. i - 1 : FieldChar(string, j) # 0) => FieldChar(field, i) = FieldChar(string, i)
  /\ Len(string) <= NameMax

port_CARDAccess(entry, diskNone) ==
  CASE entry.game = 255 -> NOFILE
    [] entry.game # 255 /\ (diskNone \/ entry.game = Game) -> READY
    [] OTHER -> NOPERM

port_CARDIsPublic(entry) ==
  IF entry.game = 255 THEN NOFILE ELSE IF entry.public THEN READY ELSE NOPERM

\* The first entry that the game may use with that name, or NOFILE.
port_CARDGetFileNo(d, name, diskNone) ==
  LET found == {s \in Slots : /\ port_CARDAccess(d[s], diskNone) = READY
                              /\ port_CARDCompareFileName(d[s].name, name)}
  IN IF found = {} THEN NOFILE ELSE CHOOSE s \in found : \A t \in found : s <= t

\* Mutant: the walk goes on until it reaches the offset itself.
SeekTargetExact(offset) == offset

\* TRUNC: the start of the block that holds an offset.
SeekTarget(offset) == offset - (offset % SectorSize)

port_CARDSeek(file, length, offset) ==
  LET entry == dir[file.slot]
      back == IF offset < file.offset THEN [file EXCEPT !.offset = 0, !.block = entry.start] ELSE file
      walk[k \in Nat] ==
        IF k = 0 THEN back
        ELSE LET s == walk[k - 1]
             IN IF s.offset >= SeekTarget(offset) \/ s.block \notin Data THEN s
                ELSE [s EXCEPT !.offset = @ + SectorSize, !.block = fat.next[s.block]]
      end == walk[cBlock]
      size == entry.length * SectorSize
  IN CASE file.block \notin Data \/ cBlock * SectorSize <= file.offset -> [file |-> file, result |-> FATAL]
       [] file.block \in Data /\ (size <= offset \/ size < offset + length) ->
            [file |-> file, result |-> LIMIT]
       [] OTHER -> IF end.block \notin Data THEN [file |-> end, result |-> BROKEN]
                   ELSE [file |-> [end EXCEPT !.offset = offset], result |-> READY]

-----------------------------------------------------------------------------
FatInit ==
  /\ fat = Updated([code |-> 0, free |-> cBlock - System, last |-> System - 1, sums |-> <<0, 0>>,
                    next |-> [b \in Data |-> Avail]])
  /\ dir = [s \in Slots |-> NoEntry] /\ info = Closed /\ result = READY

CreateFile(slot, game, name, public, n) ==
  LET a == Allocated(fat, n)
  IN /\ dir[slot] = NoEntry /\ Len(name) <= NameMax
     /\ \A s \in Slots : dir[s].game # game \/ dir[s].name # name
     /\ fat' = a.fat /\ result' = a.result
     /\ dir' = IF a.result # READY THEN dir
               ELSE [dir EXCEPT ![slot] = [game |-> game, name |-> name, public |-> public,
                                           start |-> a.start, length |-> n]]
     /\ UNCHANGED info

DeleteFile(slot) ==
  LET f == Freed(fat, dir[slot].start)
  IN /\ dir[slot] # NoEntry /\ slot # info.slot
     /\ fat' = f.fat /\ result' = f.result
     /\ dir' = [dir EXCEPT ![slot] = NoEntry]
     /\ UNCHANGED info

OpenFile(name, diskNone) ==
  LET slot == port_CARDGetFileNo(dir, name, diskNone)
  IN /\ slot # NOFILE
     /\ info' = [slot |-> slot, offset |-> 0, block |-> dir[slot].start]
     /\ result' = READY /\ UNCHANGED <<fat, dir>>

CloseFile == info # Closed /\ info' = Closed /\ UNCHANGED <<fat, dir, result>>

SeekFile(length, offset) ==
  LET s == port_CARDSeek(info, length, offset)
  IN /\ info # Closed
     /\ info' = s.file /\ result' = s.result
     /\ UNCHANGED <<fat, dir>>

FatNext ==
  \/ \E slot \in Slots, game \in Games, name \in Names, n \in FileSizes :
       CreateFile(slot, game, name, game = Game, n)
  \/ \E slot \in Slots : DeleteFile(slot)
  \/ \E name \in Names, diskNone \in BOOLEAN : OpenFile(name, diskNone)
  \/ CloseFile
  \/ \E length \in 0 .. 1, offset \in 0 .. (cBlock - System) * SectorSize : SeekFile(length, offset)

FatSpec == FatInit /\ [][FatNext]_fatVars

-----------------------------------------------------------------------------
\* The blocks of a file, as its links give them.
ChainFrom(next, start) ==
  LET walk[k \in Nat] ==
        IF k = 0 THEN <<>>
        ELSE LET s == walk[k - 1]
                 b == IF s = <<>> THEN start ELSE next[Last(s)]
             IN IF b \in Data THEN Append(s, b) ELSE s
  IN walk[cBlock]

ChainOf(start) == ChainFrom(fat.next, start)

Files == {s \in Slots : dir[s] # NoEntry}

\* Through all allocations and releases, of nothing, of the whole card or of too much,
\* each file keeps a chain of as many blocks as it asked for, with no block in two
\* chains or twice in one, and the others are free; the table would pass VerifyFAT, and
\* so no call finds it BROKEN.  An open file stands in the block of its offset however
\* it was moved there, and a look-up finds exactly the file of that game and name.
FilesKeepBlocks ==
  /\ result # BROKEN /\ Sound(fat)
  /\ \A s \in Files : LET c == ChainOf(dir[s].start)
                      IN Len(c) = dir[s].length /\ IsInjective(c) /\ (c # <<>> => fat.next[Last(c)] = End)
  /\ \A s, t \in Files : s # t =>
       ToSet(ChainOf(dir[s].start)) \cap ToSet(ChainOf(dir[t].start)) = {}
  /\ {b \in Data : fat.next[b] # Avail} = UNION {ToSet(ChainOf(dir[s].start)) : s \in Files}
  /\ info # Closed /\ dir[info.slot].length > 0 =>
       info.block = ChainOf(dir[info.slot].start)[info.offset \div SectorSize + 1]
  /\ \A name \in Names :
       LET s == port_CARDGetFileNo(dir, name, FALSE)
       IN IF s = NOFILE THEN \A t \in Files : dir[t].game # Game \/ dir[t].name # name
          ELSE dir[s].game = Game /\ dir[s].name = name /\ port_CARDIsPublic(dir[s]) = READY
=============================================================================
