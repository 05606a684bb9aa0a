------------------------------- MODULE MCDisc -------------------------------
(***************************************************************************)
(* The command queues, the file table and file reads of the DVD driver.    *)
(* They share no state, so a behaviour exercises one of them: the command  *)
(* queues, the paths of a table, or the files of a disc.                   *)
(***************************************************************************)
EXTENDS DVDQueue, DVDFsProps

VARIABLE part

vars == <<next, prev, popped, disc, loaded, cwd, testPaths, testFiles, info, read, part>>

MCNames == {"root", "a", "A", "b", "long"}
MCLower == [n \in MCNames |-> IF n = "A" THEN "a" ELSE n]
MCLength == [n \in MCNames |-> IF n = "long" THEN 3 ELSE 1]

\* All tables of three entries below the root, and some of four: the entries in the
\* order of a walk through the tree, with distinct names in a directory.
Below(par, e) ==
  LET up[x \in Nat] == x # 0 /\ (par[x] = e \/ up[par[x]]) IN {x \in DOMAIN par : up[x]}

Table(par, dirs, names) ==
  [e \in {0} \cup DOMAIN par |->
     CASE e = 0 -> [dir |-> TRUE, name |-> "root", first |-> 0, second |-> Len(par) + 1]
       [] e \in dirs -> [dir |-> TRUE, name |-> names[e], first |-> par[e],
                         second |-> Max({e} \cup Below(par, e)) + 1]
       [] OTHER -> [dir |-> FALSE, name |-> names[e], first |-> e, second |-> e % 3]]

TreesOf(n) ==
  {par \in [1 .. n -> 0 .. n - 1] :
     /\ \A x \in 1 .. n : par[x] < x
     /\ \A e, x, y \in 1 .. n : x \in Below(par, e) /\ e < y /\ y < x => y \in Below(par, e)}

TablesOf(n, spelt) ==
  UNION {{Table(par, dirs, names) :
            names \in {f \in [1 .. n -> spelt] :
              \A x, y \in 1 .. n : x < y /\ par[x] = par[y] => MCLower[f[x]] # MCLower[f[y]]},
            dirs \in {ds \in SUBSET (1 .. n) : \A x \in 1 .. n : par[x] \in ds \cup {0}}}
         : par \in TreesOf(n)}

MCTables == TablesOf(3, {"A", "b", "long"}) \cup TablesOf(4, {"A", "b"})

Pieces == {"/", ".", "..", "a", "b", "long"}
MCPaths ==
  {p \in UNION {[1 .. n -> Pieces] : n \in 1 .. 4} :
     \A k \in 1 .. Len(p) - 1 : p[k] = "/" \/ p[k + 1] = "/"}
  \cup {<<x, "/", y, "/", z>> : x, y \in {"a", "b", ".."}, z \in {"a", "b"}}
MCReadArgs == {-1, 0, 1, 3}
MCPathLists == {<<>>, <<<<"a">>, <<"/", "b">>>>}

SomeTable == CHOOSE t \in TablesOf(3, {"A", "b"}) : t[1].dir /\ ~t[2].dir /\ t[2].first = 2

Init ==
  /\ part \in {"queue", "paths", "files"}
  /\ QueueInit /\ FsInit
  /\ part = "queue" => disc = NoTable /\ testPaths = <<>>
  /\ part = "paths" => disc # NoTable /\ testPaths = <<>>
  /\ part = "files" => disc \in {NoTable, SomeTable}

Next ==
  \/ /\ part = "queue" /\ QueueNext /\ UNCHANGED <<fsVars, part>>
  \/ /\ part = "paths" /\ UNCHANGED <<queueVars, part>>
     /\ \/ \E path \in {<<"a">>, <<"b">>, <<"..">>} : DVDChangeDir(path)
        \/ DVDFSInit
  \/ /\ part = "files" /\ UNCHANGED <<queueVars, part>>
     /\ FsNext({<<"a", "/", "b">>, <<"/", "b">>, <<"b">>, <<"a">>, <<"/">>}, 0 .. 3)

Spec == Init /\ [][Next]_vars
=============================================================================
