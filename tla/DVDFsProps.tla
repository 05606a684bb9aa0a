----------------------------- MODULE DVDFsProps -----------------------------
(* What the paths, entries and reads of DVDFs mean. *)
EXTENDS DVDFs, FiniteSets, FiniteSetsExt

CONSTANT Paths   \* the paths that the properties speak of

\* The names on the way from the root to entry e, by what the directories of the
\* table span, not by their parents.
Lineage(t, e) ==
  LET over == {d \in DOMAIN t : d # 0 /\ (d = e \/ (t[d].dir /\ d < e /\ e < NextDir(t, d)))}
  IN [i \in 1 .. Cardinality(over) |->
        Lower[t[CHOOSE d \in over : Cardinality({x \in over : x < d}) = i - 1].name]]

\* The names that are left of a path, from a directory with these names, when its
\* dots are resolved.  A slash where a name should begin leads to the root.
Resolved(names, path) ==
  LET after(s, k) ==
        CASE path[k] = "/" /\ (k = 1 \/ path[k - 1] = "/") -> <<>>
          [] path[k] = ".." -> IF s = <<>> THEN s ELSE Front(s)
          [] path[k] \in Names -> Append(s, Lower[path[k]])
          [] OTHER -> s
  IN FoldLeft(after, names, [k \in DOMAIN path |-> k])

\* Without dots, names that break the 8.3 rule, or slashes in the middle that lead
\* back to the root.
Plain(path) ==
  /\ ToSet(path) \subseteq (Names \ Unshort) \cup {"/"}
  /\ \A k \in 2 .. Len(path) : path[k - 1] = "/" => path[k] # "/"

\* A path leads to the entry whose lineage it spells, in capitals or not, past any
\* directories that lie in between; and it leads to no entry only if it breaks the
\* 8.3 rule, if no entry has that lineage, or if it ends in a slash and the entry is
\* a file.
FindsWhatItNames ==
  disc # NoTable =>
    \A path \in Paths :
      LET e == DVDConvertPathToEntrynum(path)
          names == Resolved(Lineage(disc, cwd), path)
          named == {x \in DOMAIN disc : /\ Lineage(disc, x) = names
                                        /\ Last(path) = "/" => disc[x].dir}
      IN /\ e # -1 => named = {e}
         /\ e = -1 /\ Plain(path) => named = {}

\* The path of the current directory comes back whole or not at all, with the room
\* its names, slashes and final zero take; and it leads back there.
CurrentDirReturns ==
  loaded =>
    LET path == PathOf(disc, cwd)
        characters == Len(path) + FoldLeft(LAMBDA n, x : n + IF x = "/" THEN 0 ELSE NameLength[x] - 1,
                                           0, path)
    IN /\ \A maxlen \in 1 .. characters + 2 :
            PathFits(disc, cwd, maxlen) <=> characters + 1 <= maxlen
       /\ ToSet(path) \cap Unshort = {} =>
            \A d \in DOMAIN disc : disc[d].dir => Walk(disc, d, path) = cwd

PathsMeanEntries == FindsWhatItNames /\ CurrentDirReturns

\* A read stays inside the file whatever its length and offset are, and returns what
\* lies between the offset and the end: also when the file was replaced by a shorter
\* one after it was opened, or the disc's table gives another length.  The caller
\* and its callback are told the same.
ReadsInside ==
  LET r == read
  IN /\ r.n >= 0 => /\ r.offset >= 0 /\ r.len >= r.n
                    /\ r.n = 0 \/ r.offset + r.n <= r.size
                    /\ r.n = r.len \/ r.offset + r.n = r.size
     /\ r.result = IF r.n < 0 THEN 0 ELSE 1
     /\ r.callback = IF r.n < 0 THEN -1 ELSE r.n
=============================================================================
