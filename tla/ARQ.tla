-------------------------------- MODULE ARQ --------------------------------
(***************************************************************************)
(* The ARAM request queue of src/sdk_port/ar/arq.c.  Clients post transfer *)
(* requests of two priorities.  One DMA engine serves them: a high request *)
(* moves in one transfer, a low one in chunks, and every completed         *)
(* transfer runs the interrupt service routine, which calls the owner of a *)
(* finished request back and starts the next transfer, high ones first.    *)
(*                                                                         *)
(* The state of the queue is the record `arq`, the fields of port_ARQState *)
(* and of the requests in gc_mem.  The NEXT pointers of a queue are a      *)
(* sequence.  A helper of the C code is an operator from record to record. *)
(***************************************************************************)
EXTENDS Integers, Sequences, SequencesExt

CONSTANTS
  Requests,   \* the request structures of the clients
  None,       \* the NULL request
  Sources, Dests, Lengths,  \* what clients ask for
  Chunk,      \* chunkSize
  Word        \* 2^32: the first value a u32 does not hold

ASSUME ARQAssumption ==
  /\ None \notin Requests
  /\ Chunk \in Nat \ {0} /\ Word \in Nat /\ Chunk < Word
  /\ Sources \subseteq 0 .. Word - 1
  /\ Dests \subseteq 0 .. Word - 1
  /\ Lengths \subseteq 0 .. Word - 1

Priorities == {"hi", "lo"}
Types == {"MRAM_TO_ARAM", "ARAM_TO_MRAM"}

VARIABLES
  arq,    \* the state of the queue and the request structures
  job,    \* history: each request as its client posted it
  moved   \* history: how many of its bytes completed transfers have moved

vars == <<arq, job, moved>>

U32 == 0 .. Word - 1
Request == [type : Types, source : U32, dest : U32, length : U32]
Transfer == [type : Types, mainmem : U32, aram : U32, length : U32]

\* The requests that clients post.
Jobs == [type : Types, source : Sources, dest : Dests, length : Lengths]

\* A blank request: the zeroes that fill a client's structure at first.
Blank == [type |-> "MRAM_TO_ARAM", source |-> 0, dest |-> 0, length |-> 0]

Init ==
  /\ arq = [queueHi |-> <<>>, queueLo |-> <<>>, pendingHi |-> None, pendingLo |-> None,
            hasCallbackHi |-> FALSE, hasCallbackLo |-> FALSE,
            req |-> [r \in Requests |-> Blank], dma |-> <<>>]
  /\ job = [r \in Requests |-> Blank]
  /\ moved = [r \in Requests |-> 0]

-----------------------------------------------------------------------------
(* The helpers. *)

\* The sum of two u32 values, or a difference with n < 0, as a u32.
Wrap(n) == IF n < 0 THEN n + Word ELSE IF n >= Word THEN n - Word ELSE n

\* Hand the engine a transfer of n bytes.  `dma` holds the transfers started
\* and not completed; the engine has registers for one.
StartDMA(a, r, n) ==
  LET q == a.req[r]
      toARAM == q.type = "MRAM_TO_ARAM"
  IN [a EXCEPT !.dma = Append(@,
       [type |-> q.type,
        mainmem |-> IF toARAM THEN q.source ELSE q.dest,
        aram |-> IF toARAM THEN q.dest ELSE q.source,
        length |-> n])]

PopTaskQueueHi(a) ==
  LET r == Head(a.queueHi)
  IN IF a.queueHi = <<>> THEN a
     ELSE [StartDMA(a, r, a.req[r].length) EXCEPT
             !.hasCallbackHi = TRUE, !.pendingHi = r, !.queueHi = Tail(@)]

\* Mutant: the last chunk is subtracted in unbounded integers.
AdvanceUnwrapped(q) ==
  [q EXCEPT !.length = @ - Chunk, !.source = @ + Chunk, !.dest = @ + Chunk]

\* Mutant: a long request writes each chunk over the first one.
AdvanceSourceOnly(q) == [q EXCEPT !.length = Wrap(@ - Chunk), !.source = Wrap(@ + Chunk)]

Advance(q) ==
  [type |-> q.type, source |-> Wrap(q.source + Chunk), dest |-> Wrap(q.dest + Chunk),
   length |-> Wrap(q.length - Chunk)]

\* Mutant: a request of exactly one chunk is taken for a longer one.
ServiceLoStrict(a, r) ==
  LET n == a.req[r].length
      last == n < Chunk
  IN [StartDMA(a, r, IF last THEN n ELSE Chunk) EXCEPT
        !.hasCallbackLo = @ \/ last, !.req[r] = Advance(@)]

\* Move the next chunk of low request r, or what is left of it.
ServiceLo(a, r) ==
  LET n == a.req[r].length
      last == n <= Chunk
  IN [StartDMA(a, r, IF last THEN n ELSE Chunk) EXCEPT
        !.hasCallbackLo = @ \/ last, !.req[r] = Advance(@)]

\* Mutant: only a low request already in progress is served.
ResumeQueueLo(a) == IF a.pendingLo # None THEN ServiceLo(a, a.pendingLo) ELSE a

\* Resume the low request in progress, or begin the next.
ServiceQueueLo(a) ==
  CASE a.pendingLo # None -> ServiceLo(a, a.pendingLo)
    [] a.pendingLo = None /\ a.queueLo # <<>> ->
         ServiceLo([a EXCEPT !.pendingLo = Head(a.queueLo), !.queueLo = Tail(@)],
                   Head(a.queueLo))
    [] OTHER -> a

\* Mutant: high requests wait until the low line is empty.
ServeLowFirst(a) ==
  LET b == ServiceQueueLo(a)
  IN IF b.pendingLo = None THEN PopTaskQueueHi(b) ELSE b

\* Start the next transfer, a high request if there is one.
Serve(a) ==
  LET b == PopTaskQueueHi(a)
  IN IF b.pendingHi = None THEN ServiceQueueLo(b) ELSE b

-----------------------------------------------------------------------------
(* The operations. *)

Outstanding(r) ==
  r \in {arq.pendingHi, arq.pendingLo} \cup ToSet(arq.queueHi) \cup ToSet(arq.queueLo)

\* Mutant: the link from the tail of the high queue is forgotten.
EnqueueUnlinked(a, r, p, q) ==
  LET b == [a EXCEPT !.req[r] = q]
  IN IF p = "hi" THEN [b EXCEPT !.queueHi = <<r>>]
     ELSE [b EXCEPT !.queueLo = Append(@, r)]

Enqueue(a, r, p, q) ==
  LET b == [a EXCEPT !.req[r] = q]
  IN IF p = "hi" THEN [b EXCEPT !.queueHi = Append(@, r)]
     ELSE [b EXCEPT !.queueLo = Append(@, r)]

\* Mutant: a post looks at the high request in flight only.
IdleButForLow(a) == a.pendingHi = None

Idle(a) == a.pendingHi = None /\ a.pendingLo = None

\* A client posts a request of its own that is not outstanding already.
ARQPostRequest(r, p, q) ==
  /\ ~Outstanding(r)
  /\ q.source + q.length <= Word /\ q.dest + q.length <= Word
  /\ LET a == Enqueue(arq, r, p, q)
     IN arq' = IF Idle(arq) THEN Serve(a) ELSE a
  /\ job' = [job EXCEPT ![r] = q]
  /\ moved' = [moved EXCEPT ![r] = 0]

\* The request whose transfer is in flight.
Served == IF arq.pendingHi # None THEN arq.pendingHi ELSE arq.pendingLo

\* The request whose owner the interrupt calls back, or None.
CalledBack ==
  CASE arq.hasCallbackHi -> arq.pendingHi
    [] ~arq.hasCallbackHi /\ arq.hasCallbackLo -> arq.pendingLo
    [] OTHER -> None

Callback(a) ==
  IF a.hasCallbackHi THEN [a EXCEPT !.pendingHi = None, !.hasCallbackHi = FALSE]
  ELSE IF a.hasCallbackLo THEN [a EXCEPT !.pendingLo = None, !.hasCallbackLo = FALSE]
  ELSE a

\* The engine has completed its transfer and interrupts.
ARQInterruptServiceRoutine ==
  /\ arq.dma # <<>>
  /\ moved' = [moved EXCEPT ![Served] = @ + Head(arq.dma).length]
  /\ arq' = Serve(Callback([arq EXCEPT !.dma = Tail(@)]))
  /\ UNCHANGED job

Next ==
  \/ \E r \in Requests, p \in Priorities, q \in Jobs : ARQPostRequest(r, p, q)
  \/ ARQInterruptServiceRoutine

Spec == Init /\ [][Next]_vars

\* The engine completes every transfer it was handed.
FairSpec == Spec /\ WF_vars(ARQInterruptServiceRoutine)
=============================================================================
