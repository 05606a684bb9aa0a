------------------------------- MODULE DVDFs -------------------------------
(***************************************************************************)
(* Files and directories of src/sdk_port/dvd/DVD.c: the walk of the disc's *)
(* file table (FST) from a path to an entry and back, the current          *)
(* directory, and opening and reading files.                               *)
(*                                                                         *)
(* A path is a sequence of names, dots and slashes.  The driver is given a *)
(* disc with a table or, without one, a list of paths; the bytes that are  *)
(* read come from a table of test files by entry number in both cases.     *)
(* Calls run to their end; DVDReadAsync calls back before it returns, so   *)
(* a command block is idle between calls, and DVDCancel, which leaves an   *)
(* idle block alone, is no step.                                           *)
(***************************************************************************)
EXTENDS Integers, Sequences, SequencesExt

CONSTANTS
  Names,       \* names of files and directories, as they are spelt
  Lower,       \* a name in small letters
  Unshort,     \* the names that break the 8.3 rule
  NameLength,  \* the number of a name's characters
  Tables,      \* the file tables of discs
  NoTable,     \* no disc: FSTLocation is 0
  PathLists,   \* the lists that may stand in for a table
  MaxFiles,    \* the length of g_dvd_test_files
  FileSizes, ReadArgs,   \* sizes of test files; lengths and offsets of reads
  U32          \* 2^32: the first value a u32 does not hold

ASSUME DiscAssumption ==
  /\ Lower \in [Names -> Names] /\ Unshort \subseteq Names
  /\ NameLength \in [Names -> Nat \ {0}]
  /\ MaxFiles \in Nat /\ U32 \in Nat \ {0} /\ FileSizes \subseteq 0 .. U32 - 1
  /\ ReadArgs \subseteq -(U32 \div 2) .. U32 \div 2 - 1
  /\ \A t \in Tables : t[0].second \in Nat

VARIABLES
  disc,       \* the table behind FSTLocation
  loaded,     \* g_fst_max_entry_num is not 0
  cwd,        \* g_current_directory
  testPaths,  \* g_dvd_test_paths
  testFiles,  \* the sizes in g_dvd_test_files, 0 for none
  info,       \* the program's DVDFileInfo
  read        \* history: the last read: what was asked, returned, and called back

fsVars == <<disc, loaded, cwd, testPaths, testFiles, info, read>>

NoInfo == [entry |-> -1, start |-> 0, length |-> 0]
NoRead == [offset |-> 0, len |-> 0, size |-> 0, n |-> 0, callback |-> 0, result |-> 1]

FsInit ==
  /\ disc \in Tables \cup {NoTable} /\ loaded = FALSE /\ cwd = 0
  /\ testPaths \in PathLists
  /\ testFiles = [i \in 0 .. MaxFiles - 1 |-> 0]
  /\ info = NoInfo /\ read = NoRead

-----------------------------------------------------------------------------
(* The table.  An entry has two numbers: a directory its parent and the     *)
(* entry behind its last one, a file its place on the disc and its length.  *)

MaxEntry(t) == t[0].second
ParentDir(t, e) == t[e].first
NextDir(t, e) == t[e].second
SameName(p, n) == Lower[p] = Lower[n]

\* Mutant: the search enters the directories on its way.
EntryAfterDeep(t, i) == i + 1

\* The entry that the search looks at after entry i.
EntryAfter(t, i) == IF t[i].dir THEN NextDir(t, i) ELSE i + 1

\* The first entry of directory d called n, a directory if it must be one, or -1.
Find(t, d, n, isDir) ==
  LET look[i \in Nat] ==
        IF i >= NextDir(t, d) THEN -1
        ELSE IF (t[i].dir \/ ~isDir) /\ SameName(n, t[i].name) THEN i
        ELSE look[EntryAfter(t, i)]
  IN look[d + 1]

\* DVDConvertPathToEntrynum with a table, from directory d.
Walk(t, d, path) ==
  LET from[k \in Nat, e \in Nat] ==
        LET isDir == k < Len(path)
            found == Find(t, e, path[k], isDir)
        IN IF k > Len(path) THEN e
           ELSE IF path[k] = "/" THEN from[k + 1, 0]
           ELSE IF path[k] = ".." THEN from[k + 2, ParentDir(t, e)]
           ELSE IF path[k] = "." THEN from[k + 2, e]
           ELSE IF path[k] \in Unshort \/ found = -1 THEN -1
           ELSE IF isDir THEN from[k + 2, found]
           ELSE found
  IN from[1, d]

\* Without a table the path's place in the list.
Listed(path) ==
  LET places == SelectInSeq(testPaths, LAMBDA p : p = path) IN places - 1

DVDConvertPathToEntrynum(path) ==
  IF disc # NoTable THEN Walk(disc, IF loaded THEN cwd ELSE 0, path) ELSE Listed(path)

\* The conversions read the table first if it was not read yet.
Load == loaded' = (disc # NoTable) /\ UNCHANGED <<disc, testPaths, testFiles>>

DVDFSInit == Load /\ cwd' = 0 /\ UNCHANGED <<info, read>>

DVDChangeDir(path) ==
  LET e == DVDConvertPathToEntrynum(path)
  IN /\ Load
     /\ cwd' = IF e >= 0 /\ disc # NoTable /\ disc[e].dir THEN e ELSE cwd
     /\ UNCHANGED <<info, read>>

\* DVDConvertEntrynumToPath of directory e: whether its path, the slash behind it
\* and the final zero fit in maxlen bytes.  A name that does not fit is cut.
PathFits(t, e, maxlen) ==
  LET upTo[x \in Nat] ==
        IF x = 0 THEN 0
        ELSE LET loc == upTo[ParentDir(t, x)]
                 end == loc + 1 + NameLength[t[x].name]
             IN IF loc = maxlen \/ end > maxlen THEN maxlen ELSE end
  IN upTo[e] # maxlen /\ upTo[e] # maxlen - 1

\* The path that entryToPathRec writes, as names and slashes.
PathOf(t, e) ==
  LET upTo[x \in Nat] == IF x = 0 THEN <<>> ELSE upTo[ParentDir(t, x)] \o <<"/", t[x].name>>
  IN upTo[e] \o <<"/">>

-----------------------------------------------------------------------------
(* Files. *)

gc_dvd_test_set_file(e, size) ==
  /\ testFiles' = [testFiles EXCEPT ![e] = size]
  /\ UNCHANGED <<disc, loaded, cwd, testPaths, info, read>>

gc_dvd_test_set_paths(list) ==
  /\ testPaths' = list
  /\ UNCHANGED <<disc, loaded, cwd, testFiles, info, read>>

\* What DVDFastOpen fills in for entry e, or NoInfo when it returns 0.
Opened(e, ready) ==
  IF ready
  THEN IF e \in 0 .. MaxEntry(disc) - 1 /\ ~disc[e].dir
       THEN [entry |-> e, start |-> disc[e].first, length |-> disc[e].second] ELSE NoInfo
  ELSE IF e \in 0 .. MaxFiles - 1 /\ testFiles[e] # 0
       THEN [entry |-> e, start |-> e, length |-> testFiles[e]] ELSE NoInfo

DVDFastOpen(e) ==
  /\ Opened(e, loaded) # NoInfo /\ info' = Opened(e, loaded)
  /\ UNCHANGED <<disc, loaded, cwd, testPaths, testFiles, read>>

DVDOpen(path) ==
  LET opened == Opened(DVDConvertPathToEntrynum(path), disc # NoTable)
  IN /\ Load
     /\ info' = IF opened # NoInfo THEN opened ELSE info
     /\ UNCHANGED <<cwd, read>>

\* Mutant: the room behind the offset is the whole file.
ReadResultWhole(size, offset, len) ==
  IF size = 0 \/ offset < 0 \/ len < 0 \/ offset > size THEN -1
  ELSE IF len > size THEN size ELSE len

\* What DVDRead returns for a test file of this size.
ReadResult(size, offset, len) ==
  LET end == (offset + len) % U32
  IN IF size = 0 \/ offset < 0 \/ len < 0 \/ offset > size THEN -1
     ELSE IF end > size THEN size - offset ELSE len

\* The program reads from its file; the callback comes in the call.
DVDReadAsync(len, offset) ==
  LET size == IF info.entry < MaxFiles THEN testFiles[info.entry] ELSE 0
      n == ReadResult(size, offset, len)
  IN /\ info # NoInfo
     /\ read' = [offset |-> offset, len |-> len, size |-> size, n |-> n,
                 callback |-> IF n < 0 THEN -1 ELSE n, result |-> IF n < 0 THEN 0 ELSE 1]
     /\ UNCHANGED <<disc, loaded, cwd, testPaths, testFiles, info>>

\* What programs do with these paths and entries.
FsNext(paths, entries) ==
  \/ DVDFSInit
  \/ \E path \in paths : DVDOpen(path) \/ DVDChangeDir(path)
  \/ \E e \in entries : DVDFastOpen(e)
  \/ \E e \in 0 .. MaxFiles - 1, n \in FileSizes : gc_dvd_test_set_file(e, n)
  \/ \E list \in PathLists : gc_dvd_test_set_paths(list)
  \/ \E len, offset \in ReadArgs : DVDReadAsync(len, offset)

FsSpec(paths, entries) == FsInit /\ [][FsNext(paths, entries)]_fsVars
=============================================================================
