------------------------------ MODULE ARQProps ------------------------------
(***************************************************************************)
(* What makes the ARAM request queue correct.                              *)
(***************************************************************************)
EXTENDS ARQ

\* Every field has the type the code gives it, u32 values within their word.
TypeOK ==
  /\ arq \in [queueHi : Seq(Requests), queueLo : Seq(Requests),
              pendingHi : Requests \cup {None}, pendingLo : Requests \cup {None},
              hasCallbackHi : BOOLEAN, hasCallbackLo : BOOLEAN,
              req : [Requests -> Request], dma : Seq(Transfer)]
  /\ job \in [Requests -> Request]
  /\ moved \in [Requests -> U32]

\* The engine is never handed a transfer while it still has one, whoever posts
\* and whenever it interrupts: it is busy exactly while a request is pending.
OneTransfer ==
  /\ Len(arq.dma) <= 1
  /\ arq.dma # <<>> <=> arq.pendingHi # None \/ arq.pendingLo # None

\* The queue never stalls: whatever waits, waits for a transfer in flight.  A
\* post that found the queue busy relies on the interrupt to serve it.
NeverStalls == (\E r \in Requests : Outstanding(r)) => arq.dma # <<>>

\* Nobody is called back for someone else's transfer: when the interrupt comes,
\* at most one callback flag is set, the flag of the request it belongs to, and
\* it is set exactly when the transfer in flight is the request's last.
CallbackOfServed ==
  /\ ~(arq.hasCallbackHi /\ arq.hasCallbackLo)
  /\ arq.dma # <<>> =>
       (CalledBack = Served <=> moved[Served] + Head(arq.dma).length = job[Served].length)

\* The transfer in flight moves, in the direction the client asked for, the
\* bytes of the request that follow those already moved, also after high
\* requests came between two chunks of a low one.
NextPart ==
  arq.dma # <<>> =>
    LET q == job[Served]
        done == moved[Served]
        tr == Head(arq.dma)
        toARAM == q.type = "MRAM_TO_ARAM"
    IN /\ tr.type = q.type
       /\ tr.mainmem = (IF toARAM THEN q.source ELSE q.dest) + done
       /\ tr.aram = (IF toARAM THEN q.dest ELSE q.source) + done
       /\ done + tr.length <= q.length

\* A high request waits for no more than the transfer in flight and the high
\* requests before it: no low chunk starts while one is queued, even in the
\* middle of a low request ("Hi preempts", arq_property_test.c L1).
HighPreempts ==
  [][arq.queueHi # <<>> /\ arq'.dma # arq.dma => arq'.pendingHi = Head(arq.queueHi)]_vars

-----------------------------------------------------------------------------
(* The queue implements the service its clients rely on: each request is    *)
(* called back once, after all its bytes moved, in order within a priority. *)

Line(pending, queue) == (IF pending = None THEN <<>> ELSE <<pending>>) \o queue

line == [p \in Priorities |-> IF p = "hi" THEN Line(arq.pendingHi, arq.queueHi)
                                          ELSE Line(arq.pendingLo, arq.queueLo)]
left == [r \in Requests |-> job[r].length - moved[r]]

Service == INSTANCE ARQService WITH MaxLength <- Word

\* Every step of the queue is a step the service allows.
ImplementsService == Service!Spec

-----------------------------------------------------------------------------
High(r) == arq.pendingHi = r \/ r \in ToSet(arq.queueHi)
Low(r) == arq.pendingLo = r \/ r \in ToSet(arq.queueLo)
NoHigh == arq.pendingHi = None

\* Every high request completes, however many others clients post.
HighServed == \A r \in Requests : High(r) ~> ~High(r)

\* Every low request completes, unless clients keep the high line busy for ever.
LowServed == []<>NoHigh => \A r \in Requests : Low(r) ~> ~Low(r)
=============================================================================
