--------------------------- MODULE PriorityLines ---------------------------
(***************************************************************************)
(* What the waiting queues of the DVD driver promise: a line per priority, *)
(* from which the first of the best line is served, and which a command    *)
(* may leave at any place.                                                 *)
(***************************************************************************)
EXTENDS Naturals, Sequences, SequencesExt

CONSTANTS Blocks, Lines, Nobody

VARIABLES
  line,    \* the commands that wait, by priority; 0 is the best
  served   \* the command served last

Init == line = [i \in Lines |-> <<>>] /\ served = Nobody

Waiting == UNION {ToSet(line[i]) : i \in Lines}

Push(i, b) ==
  /\ b \notin Waiting
  /\ line' = [line EXCEPT ![i] = Append(@, b)]
  /\ UNCHANGED served

Pop(i) ==
  /\ line[i] # <<>> /\ \A j \in Lines : line[j] # <<>> => i <= j
  /\ served' = Head(line[i])
  /\ line' = [line EXCEPT ![i] = Tail(@)]

\* Nobody waits and nobody is served.
PopNothing == Waiting = {} /\ served' = Nobody /\ UNCHANGED line

Leave(b) ==
  /\ b \in Waiting
  /\ line' = [i \in Lines |-> RemoveFirst(line[i], b)]
  /\ UNCHANGED served

Next ==
  \/ \E i \in Lines, b \in Blocks : Push(i, b)
  \/ \E i \in Lines : Pop(i)
  \/ PopNothing
  \/ \E b \in Blocks : Leave(b)

Spec == Init /\ [][Next]_<<line, served>>
=============================================================================
