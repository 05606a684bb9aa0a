----------------------------- MODULE MCOSMessage -----------------------------
(***************************************************************************)
(* Threads without mutexes for TLC.  Programs that suspend, sleep, join    *)
(* and disable the scheduler, and programs that send messages through a    *)
(* queue of two slots, are checked one after the other: "part" says which. *)
(***************************************************************************)
EXTENDS OSMessageProps, OSThreadProps

CONSTANTS k1, senders, receivers

VARIABLE part

MCCapacity == [k \in MsgQueues |-> 2]
MCSendQueue == [k \in MsgQueues |-> senders]
MCReceiveQueue == [k \in MsgQueues |-> receivers]

MCInit == MessageInit /\ part \in {"threads", "messages"}

\* With messages nobody is to be joined, sleeps on another queue, is suspended twice, or
\* disables the scheduler.
MCNext ==
  \/ part = "threads" /\ ThreadCall /\ UNCHANGED <<msgVars, part>>
  \/ /\ part = "messages" /\ MessageNext /\ UNCHANGED part
     /\ active' \subseteq detached' /\ sched'.disabled = 0
     /\ \A t \in Threads : sched'.suspend[t] <= 1 /\ sched'.queue[t] \notin WaitQueues

MCSpec == MCInit /\ [][MCNext]_<<vars, msgVars, part>>

\* Created threads differ in nothing but their name.
MCSymmetry == Permutations(Threads \ {Default})
=============================================================================
