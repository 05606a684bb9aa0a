----------------------------- MODULE ARQService -----------------------------
(***************************************************************************)
(* What the ARAM request queue promises its clients, without DMA engine,   *)
(* chunks or pointers: two lines of requests, one per priority.  A posted  *)
(* request joins the end of its line; the bytes at the head of a line move *)
(* in slices; a request leaves its line once, from the head, when its last *)
(* bytes have moved.  ARQ.tla is shown to implement this.                  *)
(***************************************************************************)
EXTENDS Integers, Sequences, SequencesExt

CONSTANTS Requests, MaxLength

Lines == {"hi", "lo"}

VARIABLES
  line,  \* the outstanding requests of each priority, in the order posted
  left   \* the bytes each outstanding request has still to move

vars == <<line, left>>

Outstanding(r) == \E p \in Lines : r \in ToSet(line[p])

Init ==
  /\ line = [p \in Lines |-> <<>>]
  /\ left = [r \in Requests |-> 0]

Post(r, p, n) ==
  /\ ~Outstanding(r)
  /\ line' = [line EXCEPT ![p] = Append(@, r)]
  /\ left' = [left EXCEPT ![r] = n]

\* A part of the first request of line p has moved, and more is to come.
Slice(p, n) ==
  /\ line[p] # <<>>
  /\ n < left[Head(line[p])]
  /\ left' = [left EXCEPT ![Head(line[p])] = @ - n]
  /\ UNCHANGED line

\* The rest of the first request of line p has moved; its owner is told.
Finish(p) ==
  /\ line[p] # <<>>
  /\ left' = [left EXCEPT ![Head(line[p])] = 0]
  /\ line' = [line EXCEPT ![p] = Tail(@)]

Next ==
  \/ \E r \in Requests, p \in Lines, n \in 0 .. MaxLength : Post(r, p, n)
  \/ \E p \in Lines, n \in 1 .. MaxLength : Slice(p, n)
  \/ \E p \in Lines : Finish(p)

Spec == Init /\ [][Next]_vars
=============================================================================
