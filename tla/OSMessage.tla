------------------------------ MODULE OSMessage ------------------------------
(***************************************************************************)
(* The message queues of src/sdk_port/os/osthread.c: a circular buffer per *)
(* queue, and two queues of threads, those that found it full and those    *)
(* that found it empty.  A call that blocks sleeps and returns 0: it does  *)
(* not come back to the buffer, its caller has to call again once woken.   *)
(* Calls with OS_MESSAGE_NOBLOCK that find the queue full or empty change  *)
(* nothing and are not steps.                                              *)
(***************************************************************************)
EXTENDS OSThread

CONSTANTS
  MsgQueues,
  Messages,
  Capacity,     \* msgCount of each queue
  NoMessage,    \* the zero that an unused slot holds
  SendQueue, ReceiveQueue   \* queueSend and queueReceive of each queue

ASSUME MessageAssumption ==
  /\ Capacity \in [MsgQueues -> 0 .. 16]
  /\ NoMessage \notin Messages
  /\ SendQueue \in [MsgQueues -> SleepQueues] /\ ReceiveQueue \in [MsgQueues -> SleepQueues]
  /\ \A k, l \in MsgQueues : SendQueue[k] # ReceiveQueue[l]
  /\ \A k \in MsgQueues :
       {SendQueue[k], ReceiveQueue[k]} \cap (WaitQueues \cup Mutexes \cup Conds) = {}
  /\ IsInjective(SendQueue) /\ IsInjective(ReceiveQueue)

VARIABLES
  mq,        \* first, used and slot of each message queue
  received   \* the message the latest OSReceiveMessage stored through its pointer

msgVars == <<mq, received>>

InitMessageQueue(k) ==
  [first |-> 0, used |-> 0, slot |-> [i \in 0 .. Capacity[k] - 1 |-> NoMessage]]

MessageInit ==
  /\ Init
  /\ mq = [k \in MsgQueues |-> InitMessageQueue(k)]
  /\ received = NoMessage

-----------------------------------------------------------------------------
Full(k) == Capacity[k] <= mq[k].used
Empty(k) == mq[k].used = 0

\* Mutant: the index ignores where the first message is.
IndexFromZero(k, n) == n % Capacity[k]

\* The index n places after the first message of queue k.
Index(k, n) == (mq[k].first + n) % Capacity[k]

\* Thread t sleeps on queue w; the buffers are as they were.
Block(t, w) ==
  /\ Program(t) /\ MayBlock
  /\ sched' = SleepThread(sched, w)
  /\ UNCHANGED msgVars

OSSendMessage(t, k, msg) ==
  /\ \/ /\ Settled /\ ~Full(k)
        /\ mq' = [mq EXCEPT ![k].slot[Index(k, mq[k].used)] = msg, ![k].used = @ + 1]
        /\ sched' = WakeupThread(sched, ReceiveQueue[k])
        /\ UNCHANGED received
     \/ Full(k) /\ Block(t, SendQueue[k])
  /\ UNCHANGED <<detached, active, mutexVars, val>>

OSJamMessage(t, k, msg) ==
  /\ \/ LET i == Index(k, Capacity[k] - 1)
        IN /\ Settled /\ ~Full(k)
           /\ mq' = [mq EXCEPT ![k].slot[i] = msg, ![k].first = i, ![k].used = @ + 1]
           /\ sched' = WakeupThread(sched, ReceiveQueue[k])
           /\ UNCHANGED received
     \/ Full(k) /\ Block(t, SendQueue[k])
  /\ UNCHANGED <<detached, active, mutexVars, val>>

OSReceiveMessage(t, k) ==
  /\ \/ /\ Settled /\ ~Empty(k)
        /\ received' = mq[k].slot[mq[k].first]
        /\ mq' = [mq EXCEPT ![k].first = Index(k, 1), ![k].used = @ - 1]
        /\ sched' = WakeupThread(sched, SendQueue[k])
     \/ Empty(k) /\ Block(t, ReceiveQueue[k])
  /\ UNCHANGED <<detached, active, mutexVars, val>>

MessageCall ==
  \/ \E t \in Threads, k \in MsgQueues, msg \in Messages : OSSendMessage(t, k, msg)
  \/ \E t \in Threads, k \in MsgQueues, msg \in Messages : OSJamMessage(t, k, msg)
  \/ \E t \in Threads, k \in MsgQueues : OSReceiveMessage(t, k)

MessageNext == \/ ThreadCall /\ UNCHANGED msgVars
               \/ MessageCall

MessageSpec == MessageInit /\ [][MessageNext]_<<vars, msgVars>>
=============================================================================
