--------------------------- MODULE OSMessageProps ---------------------------
(***************************************************************************)
(* What makes the message queues correct.                                  *)
(***************************************************************************)
EXTENDS OSMessage

\* The indices stay inside the buffer, and the slots hold messages.
Buffer(k) ==
  [first : {0} \cup 0 .. Capacity[k] - 1, used : 0 .. Capacity[k],
   slot : [0 .. Capacity[k] - 1 -> Messages \cup {NoMessage}]]
MessageTypeOK ==
  /\ mq \in [MsgQueues -> UNION {Buffer(k) : k \in MsgQueues}]
  /\ \A k \in MsgQueues : mq[k] \in Buffer(k)
  /\ received \in Messages \cup {NoMessage}

\* No thread sleeps for a message while one is there, and none sleeps for room
\* while there is room: every send, jam and receive wakes whoever it could
\* serve, also sleepers that are suspended, and cancelling or suspending a
\* sleeper leaves no one behind on the queue.
NobodySleepsInVain ==
  \A k \in MsgQueues :
    /\ sched.q[ReceiveQueue[k]] # <<>> => mq[k].used = 0
    /\ sched.q[SendQueue[k]] # <<>> => mq[k].used = Capacity[k]

\* The circular buffer is the bounded mailbox its users see: nothing is lost,
\* overwritten or handed out twice, whatever mixture of sends, jams and
\* receives wraps the first index around either end.
box == [k \in MsgQueues |->
          [i \in 1 .. mq[k].used |-> mq[k].slot[(mq[k].first + i - 1) % Capacity[k]]]]
MailboxSpec == INSTANCE Mailbox
ImplementsMailbox == MailboxSpec!Spec
=============================================================================
