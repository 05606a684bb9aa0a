------------------------------ MODULE DVDQueue ------------------------------
(***************************************************************************)
(* The waiting queues of src/sdk_port/dvd/dvdqueue.c: one circular, doubly *)
(* linked list per priority, closed by a sentinel.  The links are kept as  *)
(* the code keeps them, in the sentinels and in the command blocks, where  *)
(* those of a block that was dequeued stay as they were.                   *)
(***************************************************************************)
EXTENDS Integers, Sequences, SequencesExt, FiniteSets

CONSTANTS
  Blocks,   \* the command blocks
  Queues,   \* the sentinels, PORT_DVD_MAX_QUEUES of them, by priority
  Null

ASSUME QueueAssumption ==
  /\ Queues \subseteq Nat /\ IsFiniteSet(Blocks)
  /\ Queues \cap Blocks = {} /\ Null \notin Queues \cup Blocks

VARIABLES
  next, prev,   \* the links of sentinels and blocks
  popped        \* what __DVDPopWaitingQueue returned last

queueVars == <<next, prev, popped>>

Nodes == Queues \cup Blocks

\* The links that __DVDClearWaitingQueue stores; those of a new block are NULL.
Cleared == [x \in Nodes |-> IF x \in Queues THEN x ELSE Null]

QueueInit == next = Cleared /\ prev = Cleared /\ popped = Null

\* The blocks that a walk from sentinel q along the links meets.
RingWalk(links, q) ==
  LET walk[n \in Nat] ==
        IF n = 0 THEN <<q>>
        ELSE LET s == walk[n - 1]
             IN IF links[Last(s)] = q THEN s ELSE Append(s, links[Last(s)])
  IN Tail(walk[Cardinality(Blocks) + 1])

BlocksOf(q) == RingWalk(next, q)

DVDIsBlockInWaitingQueue(b) == \E q \in Queues : b \in ToSet(BlocksOf(q))
DVDCheckWaitingQueue == \E q \in Queues : next[q] # q

-----------------------------------------------------------------------------
\* The driver queues a block that does not wait already.
DVDPushWaitingQueue(q, b) ==
  /\ ~DVDIsBlockInWaitingQueue(b)
  /\ next' = [next EXCEPT ![prev[q]] = b, ![b] = q]
  /\ prev' = [prev EXCEPT ![b] = prev[q], ![q] = b]
  /\ UNCHANGED popped

\* Mutant: the new first block keeps its link to the one that was taken.
PopOneWay(q) ==
  LET b == next[q]
  IN /\ next' = [next EXCEPT ![q] = next[b], ![b] = Null]
     /\ prev' = [prev EXCEPT ![b] = Null]
     /\ popped' = b

PopWaitingQueuePrio(q) ==
  LET b == next[q]
  IN /\ next' = [next EXCEPT ![q] = next[b], ![b] = Null]
     /\ prev' = [prev EXCEPT ![next[b]] = q, ![b] = Null]
     /\ popped' = b

DVDPopWaitingQueue ==
  \/ /\ ~DVDCheckWaitingQueue
     /\ popped' = Null /\ UNCHANGED <<next, prev>>
  \/ \E q \in Queues :
       /\ next[q] # q /\ \A p \in Queues : next[p] # p => q <= p
       /\ PopWaitingQueuePrio(q)

\* The driver takes a waiting block out.  The block's own links stay; the call
\* returns 0 and changes nothing for a block without links.
DVDDequeueWaitingQueue(b) ==
  /\ DVDIsBlockInWaitingQueue(b)
  /\ prev[b] # Null /\ next[b] # Null
  /\ next' = [next EXCEPT ![prev[b]] = next[b]]
  /\ prev' = [prev EXCEPT ![next[b]] = prev[b]]
  /\ UNCHANGED popped

QueueNext ==
  \/ \E q \in Queues, b \in Blocks : DVDPushWaitingQueue(q, b)
  \/ DVDPopWaitingQueue
  \/ \E b \in Blocks : DVDDequeueWaitingQueue(b)

QueueSpec == QueueInit /\ [][QueueNext]_queueVars

-----------------------------------------------------------------------------
Waiting == INSTANCE PriorityLines
  WITH Lines <- Queues, Nobody <- Null, line <- [q \in Queues |-> BlocksOf(q)], served <- popped

\* The links implement a line per priority: whatever blocks were dequeued from the
\* middle, with their links left over, and were queued again, a walk meets exactly
\* the blocks that wait, in the order they came, and the best first one is served.
QueuesAreLines == Waiting!Spec
=============================================================================
