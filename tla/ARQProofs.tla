----------------------------- MODULE ARQProofs -----------------------------
(***************************************************************************)
(* Proofs about the ARAM request queue, for every set of requests, every   *)
(* chunk size and every word size.                                         *)
(*                                                                         *)
(* The inductive invariant IInv says, for the request in every place it    *)
(* can be, how its structure relates to what its client posted.  Serve,    *)
(* which starts a transfer, is common to both operations: it takes a queue *)
(* that is between two transfers (Between) to one that satisfies IInv.     *)
(* Both are stated of any record a, so that one lemma about Serve does for *)
(* both operations.                                                        *)
(***************************************************************************)
EXTENDS ARQProps, SequenceTheorems, TLAPS

QueueState ==
  [queueHi : Seq(Requests), queueLo : Seq(Requests),
   pendingHi : Requests \cup {None}, pendingLo : Requests \cup {None},
   hasCallbackHi : BOOLEAN, hasCallbackLo : BOOLEAN,
   req : [Requests -> Request], dma : Seq(Transfer)]

Typed(a, jb, mv) ==
  /\ a \in QueueState
  /\ jb \in [Requests -> Request]
  /\ mv \in [Requests -> U32]

\* No request is in two places.
Distinct(a) ==
  /\ IsInjective(a.queueHi) /\ IsInjective(a.queueLo)
  /\ ToSet(a.queueHi) \cap ToSet(a.queueLo) = {}
  /\ a.pendingHi \notin ToSet(a.queueHi) \cup ToSet(a.queueLo)
  /\ a.pendingLo \notin ToSet(a.queueHi) \cup ToSet(a.queueLo)
  /\ a.pendingHi = a.pendingLo => a.pendingHi = None

\* What is left of request q after n bytes, and its transfer of k bytes there.
Ahead(q, n) ==
  [type |-> q.type, source |-> q.source + n, dest |-> q.dest + n, length |-> q.length - n]
Part(q, n, k) ==
  [type |-> q.type,
   mainmem |-> (IF q.type = "MRAM_TO_ARAM" THEN q.source ELSE q.dest) + n,
   aram |-> (IF q.type = "MRAM_TO_ARAM" THEN q.dest ELSE q.source) + n,
   length |-> k]

\* The structure of r is n bytes into the job jb[r].
OnTrack(a, jb, r, n) ==
  /\ jb[r].source + jb[r].length <= Word /\ jb[r].dest + jb[r].length <= Word
  /\ n \in Nat /\ (n = 0 \/ n < jb[r].length)
  /\ a.req[r] = Ahead(jb[r], n)

\* Whatever is queued has not begun.
QueuedFresh(a, jb, mv) ==
  \A r \in ToSet(a.queueHi) \cup ToSet(a.queueLo) : mv[r] = 0 /\ OnTrack(a, jb, r, 0)

\* The high request r is in flight, whole.
InFlightHi(a, jb, mv, r) ==
  /\ mv[r] = 0
  /\ OnTrack(a, jb, r, 0)
  /\ a.dma = <<Part(jb[r], 0, jb[r].length)>>

\* The last part, or a chunk before it, of the low request r is in flight.
InFlightLo(a, jb, mv, r) ==
  \E n \in 0 .. jb[r].length :
    /\ jb[r].source + jb[r].length <= Word /\ jb[r].dest + jb[r].length <= Word
    /\ a.dma = <<Part(jb[r], mv[r], n)>>
    /\ \/ a.hasCallbackLo /\ mv[r] + n = jb[r].length
       \/ /\ ~a.hasCallbackLo /\ n = Chunk /\ mv[r] + n < jb[r].length
          /\ OnTrack(a, jb, r, mv[r] + n)

\* A transfer has completed or none was in flight, and none has started.
Between(a, jb, mv) ==
  /\ Typed(a, jb, mv)
  /\ Distinct(a)
  /\ QueuedFresh(a, jb, mv)
  /\ a.dma = <<>> /\ a.pendingHi = None /\ ~a.hasCallbackHi /\ ~a.hasCallbackLo
  /\ a.pendingLo # None => OnTrack(a, jb, a.pendingLo, mv[a.pendingLo])

Inv(a, jb, mv) ==
  /\ Typed(a, jb, mv)
  /\ Distinct(a)
  /\ QueuedFresh(a, jb, mv)
  /\ a.hasCallbackHi <=> a.pendingHi # None
  /\ a.hasCallbackLo => a.pendingLo # None /\ a.pendingHi = None
  /\ a.pendingHi # None => InFlightHi(a, jb, mv, a.pendingHi)
  /\ a.pendingHi # None /\ a.pendingLo # None => OnTrack(a, jb, a.pendingLo, mv[a.pendingLo])
  /\ a.pendingHi = None /\ a.pendingLo # None => InFlightLo(a, jb, mv, a.pendingLo)
  /\ a.pendingHi = None /\ a.pendingLo = None =>
       a.dma = <<>> /\ a.queueHi = <<>> /\ a.queueLo = <<>>

IInv == Inv(arq, job, moved)

-----------------------------------------------------------------------------
(* Sequences without repetition. *)

\* Appending a request to a queue adds it to the queue's members.
LEMMA ToSetAppend ==
  ASSUME NEW S, NEW s \in Seq(S), NEW e \in S
  PROVE  ToSet(Append(s, e)) = ToSet(s) \cup {e}
<1>1. ASSUME NEW x \in ToSet(Append(s, e)) PROVE x \in ToSet(s) \cup {e}
  BY DEF ToSet
<1>2. ASSUME NEW i \in DOMAIN s PROVE s[i] \in ToSet(Append(s, e))
  BY DEF ToSet
<1>3. e \in ToSet(Append(s, e))
  BY DEF ToSet
<1> QED BY <1>1, <1>2, <1>3 DEF ToSet

\* A request appended to a queue it is not in leaves the queue without repetition.
LEMMA InjectiveAppend ==
  ASSUME NEW S, NEW s \in Seq(S), NEW e \in S, IsInjective(s), e \notin ToSet(s)
  PROVE  IsInjective(Append(s, e))
BY DEF IsInjective, ToSet

\* Taking the head off a queue without repetition leaves the other members.
LEMMA HeadAndTail ==
  ASSUME NEW S, NEW s \in Seq(S), s # <<>>
  PROVE  /\ Head(s) \in S /\ Tail(s) \in Seq(S)
         /\ ToSet(s) = {Head(s)} \cup ToSet(Tail(s))
         /\ IsInjective(s) => Head(s) \notin ToSet(Tail(s)) /\ IsInjective(Tail(s))
<1> DEFINE u == Tail(s)
<1>1. /\ Len(s) \in Nat \ {0} /\ Len(u) = Len(s) - 1
      /\ u \in Seq(S) /\ Head(s) \in S /\ Head(s) = s[1]
      /\ \A i \in 1 .. Len(u) : u[i] = s[i + 1]
  BY HeadTailProperties, EmptySeq
<1>2. DOMAIN s = 1 .. Len(s) /\ DOMAIN u = 1 .. Len(u)
  BY <1>1, LenProperties
<1>3. ASSUME NEW i \in DOMAIN s PROVE s[i] \in {Head(s)} \cup ToSet(u)
  <2>1. CASE i = 1
    BY <2>1, <1>1
  <2>2. CASE i # 1
    <3>1. i - 1 \in DOMAIN u /\ u[i - 1] = s[i]
      BY <2>2, <1>1, <1>2
    <3> QED BY <3>1 DEF ToSet
  <2> QED BY <2>1, <2>2
<1>4. ASSUME NEW i \in DOMAIN u PROVE u[i] = s[i + 1] /\ i + 1 \in DOMAIN s /\ i + 1 # 1
  BY <1>1, <1>2
<1>5. 1 \in DOMAIN s
  BY <1>1, <1>2
<1>6. ToSet(s) = {Head(s)} \cup ToSet(u)
  BY <1>1, <1>3, <1>4, <1>5 DEF ToSet
<1>7. ASSUME IsInjective(s) PROVE Head(s) \notin ToSet(u) /\ IsInjective(u)
  <2>1. Head(s) \notin ToSet(u)
    BY <1>7, <1>1, <1>4, <1>5 DEF ToSet, IsInjective
  <2>2. ASSUME NEW i \in DOMAIN u, NEW j \in DOMAIN u, u[i] = u[j] PROVE i = j
    <3>1. i + 1 = j + 1
      BY <2>2, <1>7, <1>4 DEF IsInjective
    <3>2. i \in Int /\ j \in Int
      BY <1>2
    <3> QED BY <3>1, <3>2
  <2> QED BY <2>1, <2>2 DEF IsInjective
<1> QED BY <1>1, <1>6, <1>7
-----------------------------------------------------------------------------
(* Starting a transfer. *)

\* The fields of a request are naturals below the word.
LEMMA TypesOfValues ==
  ASSUME NEW q \in Request
  PROVE  /\ q.type \in Types /\ q.source \in Nat /\ q.dest \in Nat /\ q.length \in Nat
         /\ q.source < Word /\ q.dest < Word /\ q.length < Word
         /\ q = Ahead(q, 0)
BY ARQAssumption DEF Request, U32, Ahead

\* A transfer of part of a job that fits in memory has a type.
LEMMA PartTyped ==
  ASSUME NEW q \in Request, NEW n \in Nat, NEW k \in Nat, n + k <= q.length,
         q.source + q.length <= Word, q.dest + q.length <= Word, n < q.length \/ n = 0
  PROVE  Part(q, n, k) \in Transfer
<1>1. /\ q.source + n \in U32 /\ q.dest + n \in U32 /\ k \in U32
  BY TypesOfValues, ARQAssumption DEF U32
<1>2. q.type \in Types
  BY TypesOfValues
<1> QED BY <1>1, <1>2 DEF Part, Transfer

\* port_ARQPopTaskQueueHi with a high request queued: the whole request is in
\* flight afterwards and the invariant holds.
LEMMA PopHiInv ==
  ASSUME NEW a, NEW jb, NEW mv, Between(a, jb, mv), a.queueHi # <<>>
  PROVE  /\ Inv(PopTaskQueueHi(a), jb, mv)
         /\ PopTaskQueueHi(a).pendingHi = Head(a.queueHi)
         /\ PopTaskQueueHi(a).queueHi = Tail(a.queueHi)
         /\ PopTaskQueueHi(a).pendingLo = a.pendingLo
         /\ PopTaskQueueHi(a).queueLo = a.queueLo
<1> DEFINE r == Head(a.queueHi)
           rest == Tail(a.queueHi)
           tr == Part(jb[r], 0, jb[r].length)
           b == PopTaskQueueHi(a)
<1>1. a \in QueueState /\ jb \in [Requests -> Request] /\ mv \in [Requests -> U32]
  BY DEF Between, Typed
<1>2. a.queueHi \in Seq(Requests) /\ a.queueLo \in Seq(Requests) /\ a.dma = <<>>
  BY <1>1 DEF Between, QueueState
<1>3. /\ r \in Requests /\ rest \in Seq(Requests)
      /\ ToSet(a.queueHi) = {r} \cup ToSet(rest)
      /\ r \notin ToSet(rest) /\ IsInjective(rest)
  BY <1>2, HeadAndTail DEF Between, Distinct
<1>4. mv[r] = 0 /\ OnTrack(a, jb, r, 0)
  BY <1>3 DEF Between, QueuedFresh
<1>5. a.req[r].length = jb[r].length /\ jb[r].length \in Nat
  BY <1>1, <1>3, <1>4, TypesOfValues DEF OnTrack, Ahead
<1>6. tr \in Transfer
  BY <1>1, <1>3, <1>4, <1>5, PartTyped DEF OnTrack
<1>7. StartDMA(a, r, a.req[r].length) = [a EXCEPT !.dma = <<tr>>]
  <2>1. StartDMA(a, r, jb[r].length) = [a EXCEPT !.dma = <<Part(jb[r], 0, jb[r].length)>>]
    <3> HIDE DEF r
    <3>1. /\ a.req[r].type = jb[r].type
          /\ a.req[r].source = jb[r].source + 0 /\ a.req[r].dest = jb[r].dest + 0
      BY <1>4 DEF OnTrack, Ahead
    <3> QED BY <3>1, <1>2 DEF StartDMA, Part
  <2> QED BY <2>1, <1>5
<1>8. b = [a EXCEPT !.dma = <<tr>>, !.hasCallbackHi = TRUE, !.pendingHi = r, !.queueHi = rest]
  BY <1>7, <1>1, <1>3 DEF PopTaskQueueHi, QueueState
<1>9. /\ b.dma = <<tr>> /\ b.hasCallbackHi = TRUE /\ b.pendingHi = r /\ b.queueHi = rest
      /\ b.queueLo = a.queueLo /\ b.pendingLo = a.pendingLo
      /\ b.hasCallbackLo = a.hasCallbackLo /\ b.req = a.req
  BY <1>8, <1>1 DEF QueueState
<1>10. Typed(b, jb, mv)
  <2>1. <<tr>> \in Seq(Transfer)
    BY <1>6
  <2>2. b \in QueueState
    <3> HIDE DEF r, rest, tr, b
    <3> QED BY <2>1, <1>1, <1>3, <1>8 DEF QueueState
  <2> HIDE DEF b
  <2> QED BY <2>2, <1>1 DEF Typed
<1>11. Distinct(b)
  <2> HIDE DEF r, rest, b
  <2> QED BY <1>3, <1>9 DEF Between, Distinct
<1>12. QueuedFresh(b, jb, mv)
  BY <1>3, <1>9 DEF Between, QueuedFresh, OnTrack
<1>13. InFlightHi(b, jb, mv, r)
  BY <1>4, <1>9 DEF InFlightHi, OnTrack
<1>14. b.pendingLo # None => OnTrack(b, jb, b.pendingLo, mv[b.pendingLo])
  BY <1>9 DEF Between, OnTrack
<1>15. r # None /\ ~b.hasCallbackLo
  BY <1>3, <1>9, ARQAssumption DEF Between
<1>16. Inv(b, jb, mv)
  BY <1>9, <1>10, <1>11, <1>12, <1>13, <1>14, <1>15 DEF Inv
<1> QED BY <1>9, <1>16
-----------------------------------------------------------------------------
\* Advancing past a chunk that is not the last wraps nothing around; past the
\* last it leaves some values of the type, which nobody reads.
LEMMA AdvanceTyped ==
  ASSUME NEW q \in Request
  PROVE  Advance(q) \in Request
<1>1. q.source \in U32 /\ q.dest \in U32 /\ q.length \in U32
  BY DEF Request
<1>2. \A v \in U32 : Wrap(v - Chunk) \in U32 /\ Wrap(v + Chunk) \in U32
  BY ARQAssumption DEF U32, Wrap
<1> QED BY <1>1, <1>2 DEF Advance, Request

\* After a chunk that is not the last, the request's fields are one chunk
\* further into its job.
LEMMA AdvanceAhead ==
  ASSUME NEW q \in Request, NEW n \in Nat, n + Chunk < q.length,
         q.source + q.length <= Word, q.dest + q.length <= Word
  PROVE  Advance(Ahead(q, n)) = Ahead(q, n + Chunk)
<1>1. /\ q.source \in Nat /\ q.dest \in Nat /\ q.length \in Nat /\ q.length < Word
      /\ Chunk \in Nat /\ Word \in Nat
  BY TypesOfValues, ARQAssumption
<1>2. Wrap(q.length - n - Chunk) = q.length - (n + Chunk)
  BY <1>1 DEF Wrap
<1>3. Wrap(q.source + n + Chunk) = q.source + (n + Chunk)
  BY <1>1 DEF Wrap
<1>4. Wrap(q.dest + n + Chunk) = q.dest + (n + Chunk)
  BY <1>1 DEF Wrap
<1> DEFINE h == Ahead(q, n)
<1>5. /\ h.type = q.type /\ h.source = q.source + n /\ h.dest = q.dest + n
      /\ h.length = q.length - n
  BY DEF Ahead
<1> HIDE DEF h
<1>6. Advance(h) = Ahead(q, n + Chunk)
  BY <1>2, <1>3, <1>4, <1>5 DEF Advance, Ahead
<1> QED BY <1>6 DEF h

\* The fields that port_ARQServiceQueueLo assigns keep the record's type.
LEMMA ServiceLoTyped ==
  ASSUME NEW a \in QueueState, NEW dma \in Seq(Transfer),
         NEW req \in [Requests -> Request], NEW last \in BOOLEAN
  PROVE  [a EXCEPT !.dma = dma, !.hasCallbackLo = last, !.req = req] \in QueueState
BY DEF QueueState

\* port_ARQServiceQueueLo with a low request in progress: its next chunk is in
\* flight afterwards and the invariant holds.
LEMMA ServiceLoInv ==
  ASSUME NEW a, NEW jb, NEW mv, Between(a, jb, mv), a.pendingLo # None,
         a.queueHi = <<>>
  PROVE  /\ Inv(ServiceLo(a, a.pendingLo), jb, mv)
         /\ ServiceLo(a, a.pendingLo).pendingHi = None
         /\ ServiceLo(a, a.pendingLo).queueHi = <<>>
         /\ ServiceLo(a, a.pendingLo).pendingLo = a.pendingLo
         /\ ServiceLo(a, a.pendingLo).queueLo = a.queueLo
<1> DEFINE r == a.pendingLo
           q == jb[r]
           m == mv[r]
           n == a.req[r].length
           k == IF n <= Chunk THEN n ELSE Chunk
           tr == Part(q, m, k)
           b == ServiceLo(a, r)
<1>1. /\ a \in QueueState /\ jb \in [Requests -> Request] /\ mv \in [Requests -> U32]
      /\ a.dma = <<>> /\ a.pendingHi = None /\ a.hasCallbackLo = FALSE
      /\ OnTrack(a, jb, r, m)
  BY DEF Between, Typed, QueueState
<1>2. r \in Requests /\ q \in Request /\ m \in Nat /\ a.req \in [Requests -> Request]
  BY <1>1, ARQAssumption DEF QueueState, U32
<1>3. /\ q.source + q.length <= Word /\ q.dest + q.length <= Word
      /\ m = 0 \/ m < q.length
      /\ a.req[r] = Ahead(q, m)
  BY <1>1 DEF OnTrack
<1>4. /\ n = q.length - m /\ n \in Nat /\ Chunk \in Nat \ {0} /\ Word \in Nat
      /\ q.length \in Nat /\ q.source \in Nat /\ q.dest \in Nat /\ q.length < Word
      /\ q.source < Word /\ q.dest < Word
  BY <1>2, <1>3, TypesOfValues, ARQAssumption DEF Ahead
<1>5. StartDMA(a, r, k) = [a EXCEPT !.dma = <<tr>>]
  <2>1. /\ a.req[r].type = q.type
        /\ a.req[r].source = q.source + m /\ a.req[r].dest = q.dest + m
    BY <1>3 DEF Ahead
  <2> HIDE DEF r, m, k
  <2> QED BY <2>1, <1>1 DEF StartDMA, Part
<1>6. b = [a EXCEPT !.dma = <<tr>>, !.hasCallbackLo = (n <= Chunk),
                    !.req = [a.req EXCEPT ![r] = Advance(a.req[r])]]
  <2> DEFINE c == StartDMA(a, r, k)
             last == n <= Chunk
  <2>1. b = [c EXCEPT !.hasCallbackLo = c.hasCallbackLo \/ last,
                      !.req = [c.req EXCEPT ![r] = Advance(c.req[r])]]
    BY DEF ServiceLo
  <2>2. c.hasCallbackLo = FALSE /\ c.req = a.req
    BY <1>1, <1>5 DEF QueueState
  <2>3. c.hasCallbackLo \/ last <=> last
    BY <2>2
  <2>4. (c.hasCallbackLo \/ last) = last
    BY <2>3
  <2> HIDE DEF c, last
  <2>5. b = [c EXCEPT !.hasCallbackLo = last,
                      !.req = [a.req EXCEPT ![r] = Advance(a.req[r])]]
    BY <2>1, <2>2, <2>4
  <2> QED BY <2>5, <1>5, <1>1 DEF QueueState, c, last
<1>7. /\ b.dma = <<tr>> /\ b.hasCallbackLo = (n <= Chunk)
      /\ b.req = [a.req EXCEPT ![r] = Advance(a.req[r])]
      /\ b.queueHi = a.queueHi /\ b.queueLo = a.queueLo
      /\ b.pendingHi = None /\ b.pendingLo = r /\ b.hasCallbackHi = a.hasCallbackHi
  BY <1>6, <1>1 DEF QueueState
<1>8. Advance(a.req[r]) \in Request
  BY <1>2, AdvanceTyped
<1> HIDE DEF b
<1>9. tr \in Transfer
  <2>1. k \in Nat /\ m + k <= q.length
    BY <1>2, <1>3, <1>4
  <2> QED BY <2>1, <1>2, <1>3, PartTyped
<1>10. Typed(b, jb, mv)
  <2>1. <<tr>> \in Seq(Transfer)
    BY <1>9
  <2>2. [a.req EXCEPT ![r] = Advance(a.req[r])] \in [Requests -> Request]
    BY <1>2, <1>8
  <2>3. b \in QueueState
    <3> DEFINE last == n <= Chunk
    <3>1. last \in BOOLEAN
      OBVIOUS
    <3>2. b = [a EXCEPT !.dma = <<tr>>, !.hasCallbackLo = last,
                        !.req = [a.req EXCEPT ![r] = Advance(a.req[r])]]
      BY <1>6
    <3> HIDE DEF last, r, tr
    <3> QED BY <3>1, <3>2, <2>1, <2>2, <1>1, ServiceLoTyped
  <2> QED BY <2>3, <1>1 DEF Typed
<1>11. Distinct(b)
  BY <1>1, <1>7 DEF Between, Distinct
<1>12. QueuedFresh(b, jb, mv)
  <2>1. ASSUME NEW x \in ToSet(a.queueHi) \cup ToSet(a.queueLo) PROVE b.req[x] = a.req[x]
    BY <1>2, <1>7 DEF Between, Distinct
  <2> QED BY <2>1, <1>7 DEF Between, QueuedFresh, OnTrack
<1>13. InFlightLo(b, jb, mv, r)
  <2>1. k \in 0 .. q.length
    BY <1>2, <1>3, <1>4
  <2>2. CASE n <= Chunk
    <3> k = n /\ m + n = q.length
      BY <2>2, <1>2, <1>4
    <3>1. b.hasCallbackLo /\ m + k = q.length
      BY <2>2, <1>7
    <3> QED BY <2>1, <3>1, <1>3, <1>7 DEF InFlightLo
  <2>3. CASE ~(n <= Chunk)
    <3> k = Chunk /\ m + Chunk < q.length
      BY <2>3, <1>2, <1>4
    <3>1. ~b.hasCallbackLo /\ k = Chunk /\ m + Chunk < q.length
      BY <2>3, <1>7
    <3>2. b.req[r] = Ahead(q, m + Chunk)
      BY <3>1, <1>2, <1>3, <1>7, AdvanceAhead
    <3>3. OnTrack(b, jb, r, m + Chunk)
      BY <3>1, <3>2, <1>2, <1>3, <1>4 DEF OnTrack
    <3> QED BY <2>1, <3>1, <3>3, <1>3, <1>7 DEF InFlightLo
  <2> QED BY <2>2, <2>3
<1>14. Inv(b, jb, mv)
  BY <1>7, <1>10, <1>11, <1>12, <1>13 DEF Between, Inv
<1> QED BY <1>7, <1>14 DEF b

\* Beginning a low request: the queue is still between two transfers.
LEMMA BeginLo ==
  ASSUME NEW a, NEW jb, NEW mv, Between(a, jb, mv), a.pendingLo = None, a.queueLo # <<>>
  PROVE  Between([a EXCEPT !.pendingLo = Head(a.queueLo), !.queueLo = Tail(@)], jb, mv)
<1> DEFINE r == Head(a.queueLo)
           rest == Tail(a.queueLo)
           b == [a EXCEPT !.pendingLo = r, !.queueLo = rest]
<1>1. a \in QueueState /\ a.queueLo \in Seq(Requests)
  BY DEF Between, Typed, QueueState
<1>2. /\ r \in Requests /\ rest \in Seq(Requests)
      /\ ToSet(a.queueLo) = {r} \cup ToSet(rest)
      /\ r \notin ToSet(rest) /\ IsInjective(rest)
  BY <1>1, HeadAndTail DEF Between, Distinct
<1>3. /\ b.queueHi = a.queueHi /\ b.queueLo = rest /\ b.pendingHi = a.pendingHi
      /\ b.pendingLo = r /\ b.hasCallbackHi = a.hasCallbackHi
      /\ b.hasCallbackLo = a.hasCallbackLo /\ b.req = a.req /\ b.dma = a.dma
  BY <1>1 DEF QueueState
<1>4. b \in QueueState
  BY <1>1, <1>2 DEF QueueState
<1>5. r # None
  BY <1>2, ARQAssumption
<1> HIDE DEF r, rest, b
<1>6. Distinct(b)
  BY <1>2, <1>3, <1>5 DEF Between, Distinct
<1>7. QueuedFresh(b, jb, mv) /\ OnTrack(b, jb, r, mv[r])
  BY <1>2, <1>3 DEF Between, QueuedFresh, OnTrack
<1>8. Between(b, jb, mv)
  BY <1>3, <1>4, <1>6, <1>7 DEF Between, Typed
<1> QED BY <1>8 DEF b, r, rest

\* Moving the head of a queue to its pending request keeps the line.
LEMMA LineOfHead ==
  ASSUME NEW s \in Seq(Requests), s # <<>>
  PROVE  Line(Head(s), Tail(s)) = Line(None, s)
<1>1. Head(s) # None /\ Head(s) \in Requests /\ Tail(s) \in Seq(Requests)
  BY HeadTailProperties, ARQAssumption
<1>2. <<Head(s)>> \o Tail(s) = s
  <2> DEFINE u == <<Head(s)>> \o Tail(s)
  <2>1. <<Head(s)>> \in Seq(Requests) /\ Len(<<Head(s)>>) = 1 /\ <<Head(s)>>[1] = Head(s)
    BY <1>1
  <2>2. /\ Len(s) \in Nat \ {0} /\ Len(Tail(s)) = Len(s) - 1 /\ Head(s) = s[1]
        /\ \A i \in 1 .. Len(Tail(s)) : Tail(s)[i] = s[i + 1]
    BY HeadTailProperties, EmptySeq
  <2>3. /\ u \in Seq(Requests) /\ Len(u) = Len(s)
        /\ \A i \in 1 .. Len(s) : u[i] = IF i <= 1 THEN <<Head(s)>>[i] ELSE Tail(s)[i - 1]
    BY <1>1, <2>1, <2>2, ConcatProperties
  <2>4. ASSUME NEW i \in 1 .. Len(s) PROVE u[i] = s[i]
    <3>1. CASE i = 1
      BY <3>1, <2>1, <2>2, <2>3
    <3>2. CASE i # 1
      <4>1. i - 1 \in 1 .. Len(Tail(s)) /\ ~(i <= 1) /\ (i - 1) + 1 = i
        BY <3>2, <2>2
      <4> QED BY <4>1, <2>2, <2>3
    <3> QED BY <3>1, <3>2
  <2> QED BY <2>3, <2>4, SeqEqual
<1>3. <<>> \o s = s
  BY ConcatEmptySeq
<1> QED BY <1>1, <1>2, <1>3 DEF Line

\* Serve starts the next transfer, if any, and keeps both lines as they are.
LEMMA ServeInv ==
  ASSUME NEW a, NEW jb, NEW mv, Between(a, jb, mv)
  PROVE  /\ Inv(Serve(a), jb, mv)
         /\ Line(Serve(a).pendingHi, Serve(a).queueHi) = Line(a.pendingHi, a.queueHi)
         /\ Line(Serve(a).pendingLo, Serve(a).queueLo) = Line(a.pendingLo, a.queueLo)
         /\ a.queueHi # <<>> => Serve(a).pendingHi = Head(a.queueHi)
<1>1. /\ a \in QueueState /\ a.pendingHi = None
      /\ a.queueHi \in Seq(Requests) /\ a.queueLo \in Seq(Requests)
  BY DEF Between, Typed, QueueState
<1>2. CASE a.queueHi # <<>>
  <2> DEFINE b == PopTaskQueueHi(a)
  <2>1. /\ Inv(b, jb, mv) /\ b.pendingHi = Head(a.queueHi) /\ b.queueHi = Tail(a.queueHi)
        /\ b.pendingLo = a.pendingLo /\ b.queueLo = a.queueLo
    BY <1>2, PopHiInv
  <2>2. b.pendingHi # None
    BY <2>1, <1>1, <1>2, HeadTailProperties, ARQAssumption
  <2> HIDE DEF b
  <2>3. Serve(a) = b
    BY <2>2 DEF Serve, b
  <2> QED BY <2>1, <2>3, <1>1, <1>2, LineOfHead
<1>3. CASE a.queueHi = <<>>
  <2>1. Serve(a) = ServiceQueueLo(a)
    BY <1>1, <1>3 DEF Serve, PopTaskQueueHi
  <2>2. CASE a.pendingLo # None
    <3>1. Serve(a) = ServiceLo(a, a.pendingLo)
      BY <2>1, <2>2 DEF ServiceQueueLo
    <3> QED BY <3>1, <2>2, <1>1, <1>3, ServiceLoInv
  <2>3. CASE a.pendingLo = None /\ a.queueLo # <<>>
    <3> DEFINE b == [a EXCEPT !.pendingLo = Head(a.queueLo), !.queueLo = Tail(@)]
    <3>1. Between(b, jb, mv)
      BY <2>3, BeginLo
    <3>2. /\ b.pendingLo = Head(a.queueLo) /\ b.queueLo = Tail(a.queueLo)
          /\ b.queueHi = <<>> /\ b.pendingHi = None
      BY <1>1, <1>3 DEF QueueState
    <3>3. b.pendingLo # None
      BY <3>2, <1>1, <2>3, HeadTailProperties, ARQAssumption
    <3>4. Serve(a) = ServiceLo(b, b.pendingLo)
      BY <2>1, <2>3, <3>2 DEF ServiceQueueLo
    <3> HIDE DEF b
    <3>5. /\ Inv(Serve(a), jb, mv) /\ Serve(a).pendingHi = None /\ Serve(a).queueHi = <<>>
          /\ Serve(a).pendingLo = b.pendingLo /\ Serve(a).queueLo = b.queueLo
      BY <3>1, <3>2, <3>3, <3>4, ServiceLoInv
    <3> QED BY <3>2, <3>5, <1>1, <1>3, <2>3, LineOfHead
  <2>4. CASE a.pendingLo = None /\ a.queueLo = <<>>
    <3>1. Serve(a) = a
      BY <2>1, <2>4 DEF ServiceQueueLo
    <3>2. Inv(a, jb, mv)
      BY <2>4, <1>3 DEF Between, Inv
    <3> QED BY <3>1, <3>2, <1>3
  <2> QED BY <2>2, <2>3, <2>4
<1> QED BY <1>2, <1>3

-----------------------------------------------------------------------------
(* The two operations. *)

\* Putting a request that is not outstanding at the end of its line.
LEMMA EnqueueDistinct ==
  ASSUME NEW a \in QueueState, NEW r \in Requests, NEW p \in Priorities, NEW q \in Request,
         Distinct(a),
         r \notin {a.pendingHi, a.pendingLo} \cup ToSet(a.queueHi) \cup ToSet(a.queueLo)
  PROVE  /\ Enqueue(a, r, p, q) \in QueueState
         /\ Distinct(Enqueue(a, r, p, q))
         /\ ToSet(Enqueue(a, r, p, q).queueHi) \cup ToSet(Enqueue(a, r, p, q).queueLo)
              = ToSet(a.queueHi) \cup ToSet(a.queueLo) \cup {r}
<1> DEFINE b == Enqueue(a, r, p, q)
           hi == IF p = "hi" THEN Append(a.queueHi, r) ELSE a.queueHi
           lo == IF p = "hi" THEN a.queueLo ELSE Append(a.queueLo, r)
<1>1. /\ a.queueHi \in Seq(Requests) /\ a.queueLo \in Seq(Requests)
      /\ a.req \in [Requests -> Request]
  BY DEF QueueState
<1>2. b = [a EXCEPT !.req = [a.req EXCEPT ![r] = q], !.queueHi = hi, !.queueLo = lo]
  BY DEF Enqueue, QueueState
<1>3. /\ b.queueHi = hi /\ b.queueLo = lo
      /\ b.pendingHi = a.pendingHi /\ b.pendingLo = a.pendingLo
  BY <1>2 DEF QueueState
<1>4. hi \in Seq(Requests) /\ lo \in Seq(Requests)
  BY <1>1
<1>5. b \in QueueState
  <2> HIDE DEF hi, lo
  <2>1. [a.req EXCEPT ![r] = q] \in [Requests -> Request]
    BY <1>1
  <2> QED BY <2>1, <1>2, <1>4 DEF QueueState
<1>6. IsInjective(hi) /\ IsInjective(lo)
  BY <1>1, InjectiveAppend DEF Distinct
<1>7. /\ p = "hi" => ToSet(hi) = ToSet(a.queueHi) \cup {r} /\ ToSet(lo) = ToSet(a.queueLo)
      /\ p # "hi" => ToSet(lo) = ToSet(a.queueLo) \cup {r} /\ ToSet(hi) = ToSet(a.queueHi)
  BY <1>1, ToSetAppend
<1> HIDE DEF b, hi, lo
<1>8. Distinct(b)
  BY <1>3, <1>6, <1>7 DEF Distinct
<1>9. ToSet(b.queueHi) \cup ToSet(b.queueLo) = ToSet(a.queueHi) \cup ToSet(a.queueLo) \cup {r}
  BY <1>3, <1>7
<1> QED BY <1>5, <1>8, <1>9 DEF b

\* port_ARQInit establishes the invariant.
LEMMA InitInv == Init => IInv
<1> SUFFICES ASSUME Init PROVE IInv
  OBVIOUS
<1>1. Blank \in Request
  BY ARQAssumption DEF Blank, Request, Types, U32
<1>2. Typed(arq, job, moved)
  BY <1>1, ARQAssumption DEF Init, Typed, QueueState, U32
<1>3. ToSet(arq.queueHi) = {} /\ ToSet(arq.queueLo) = {}
  BY DEF Init, ToSet
<1>4. IsInjective(arq.queueHi) /\ IsInjective(arq.queueLo)
  BY DEF Init, IsInjective
<1>5. Distinct(arq) /\ QueuedFresh(arq, job, moved)
  BY <1>3, <1>4 DEF Init, Distinct, QueuedFresh
<1> QED BY <1>2, <1>5 DEF Init, IInv, Inv

\* What a post enqueues: an idle queue is then between two transfers, a busy
\* one keeps its invariant.
LEMMA PostEnqueued ==
  ASSUME NEW r \in Requests, NEW p \in Priorities, NEW q \in Request,
         IInv, ARQPostRequest(r, p, q)
  PROVE  /\ Idle(arq) => Between(Enqueue(arq, r, p, q), job', moved')
         /\ ~Idle(arq) => Inv(Enqueue(arq, r, p, q), job', moved')
<1> DEFINE a == Enqueue(arq, r, p, q)
           outstanding == ToSet(arq.queueHi) \cup ToSet(arq.queueLo)
<1>1. /\ arq \in QueueState /\ job \in [Requests -> Request] /\ moved \in [Requests -> U32]
      /\ Distinct(arq) /\ QueuedFresh(arq, job, moved)
  BY DEF IInv, Inv, Typed
<1>2. r \notin {arq.pendingHi, arq.pendingLo} /\ r \notin outstanding
  BY DEF ARQPostRequest, Outstanding
<1>3. /\ a \in QueueState /\ Distinct(a)
      /\ ToSet(a.queueHi) \cup ToSet(a.queueLo) = outstanding \cup {r}
  BY <1>1, <1>2, EnqueueDistinct
<1>4. /\ a.req = [arq.req EXCEPT ![r] = q] /\ a.dma = arq.dma
      /\ a.pendingHi = arq.pendingHi /\ a.pendingLo = arq.pendingLo
      /\ a.hasCallbackHi = arq.hasCallbackHi /\ a.hasCallbackLo = arq.hasCallbackLo
  BY <1>1 DEF Enqueue, QueueState
<1>5. /\ job' = [job EXCEPT ![r] = q] /\ moved' = [moved EXCEPT ![r] = 0]
      /\ q.source + q.length <= Word /\ q.dest + q.length <= Word
  BY DEF ARQPostRequest
<1> HIDE DEF a
<1>6. Typed(a, job', moved')
  BY <1>1, <1>3, <1>5, ARQAssumption DEF Typed, U32
<1>7. /\ job'[r] = q /\ moved'[r] = 0 /\ a.req[r] = q
      /\ \A x \in Requests \ {r} : job'[x] = job[x] /\ moved'[x] = moved[x] /\ a.req[x] = arq.req[x]
  BY <1>1, <1>4, <1>5 DEF QueueState
<1>8. OnTrack(a, job', r, 0)
  BY <1>5, <1>7, TypesOfValues DEF OnTrack
<1>9. ASSUME NEW x \in Requests, x # r, NEW n, OnTrack(arq, job, x, n)
      PROVE  OnTrack(a, job', x, n)
  BY <1>7, <1>9 DEF OnTrack
<1>10. outstanding \subseteq Requests
  BY <1>1 DEF QueueState, ToSet
<1>11. QueuedFresh(a, job', moved')
  BY <1>1, <1>2, <1>3, <1>7, <1>8, <1>9, <1>10 DEF QueuedFresh
<1>12. arq.pendingHi \in Requests \cup {None} /\ arq.pendingLo \in Requests \cup {None}
  BY <1>1 DEF QueueState
<1>13. CASE Idle(arq)
  <2>1. arq.dma = <<>> /\ ~arq.hasCallbackHi /\ ~arq.hasCallbackLo
    BY <1>13 DEF Idle, IInv, Inv
  <2>2. a.dma = <<>> /\ ~a.hasCallbackHi /\ ~a.hasCallbackLo
    BY <2>1, <1>4
  <2>3. a.pendingHi = None /\ a.pendingLo = None
    BY <1>4, <1>13 DEF Idle
  <2>4. Between(a, job', moved')
    BY <2>2, <2>3, <1>3, <1>6, <1>11 DEF Between
  <2> QED BY <2>4, <1>13 DEF a
<1>14. CASE ~Idle(arq)
  <2>1. /\ arq.hasCallbackHi <=> arq.pendingHi # None
        /\ arq.hasCallbackLo => arq.pendingLo # None /\ arq.pendingHi = None
    BY DEF IInv, Inv
  <2>2. a.pendingHi # None => InFlightHi(a, job', moved', a.pendingHi)
    <3>1. SUFFICES ASSUME a.pendingHi # None PROVE InFlightHi(a, job', moved', a.pendingHi)
      OBVIOUS
    <3>2. InFlightHi(arq, job, moved, arq.pendingHi)
      BY <3>1, <1>4 DEF IInv, Inv
    <3>3. arq.pendingHi \in Requests \ {r}
      BY <3>1, <1>2, <1>4, <1>12
    <3> QED BY <3>2, <3>3, <1>4, <1>7, <1>9 DEF InFlightHi
  <2>3. a.pendingHi # None /\ a.pendingLo # None => OnTrack(a, job', a.pendingLo, moved'[a.pendingLo])
    BY <1>2, <1>4, <1>7, <1>9, <1>12 DEF IInv, Inv
  <2>4. a.pendingHi = None /\ a.pendingLo # None => InFlightLo(a, job', moved', a.pendingLo)
    <3>1. SUFFICES ASSUME a.pendingHi = None, a.pendingLo # None
                   PROVE  InFlightLo(a, job', moved', a.pendingLo)
      OBVIOUS
    <3>2. InFlightLo(arq, job, moved, arq.pendingLo)
      BY <3>1, <1>4 DEF IInv, Inv
    <3>3. arq.pendingLo \in Requests \ {r}
      BY <3>1, <1>2, <1>4, <1>12
    <3> QED BY <3>2, <3>3, <1>4, <1>7, <1>9 DEF InFlightLo
  <2>5. /\ a.hasCallbackHi <=> a.pendingHi # None
        /\ a.hasCallbackLo => a.pendingLo # None /\ a.pendingHi = None
    BY <2>1, <1>4
  <2>6. ~(a.pendingHi = None /\ a.pendingLo = None)
    BY <1>4, <1>14 DEF Idle
  <2>7. Inv(a, job', moved')
    BY <2>2, <2>3, <2>4, <2>5, <2>6, <1>3, <1>6, <1>11 DEF Inv
  <2> QED BY <2>7, <1>14 DEF a
<1> QED BY <1>13, <1>14

\* port_ARQPostRequest preserves the invariant.
LEMMA PostInv ==
  ASSUME NEW r \in Requests, NEW p \in Priorities, NEW q \in Request,
         IInv, ARQPostRequest(r, p, q)
  PROVE  IInv'
<1> DEFINE a == Enqueue(arq, r, p, q)
<1>1. arq' = IF Idle(arq) THEN Serve(a) ELSE a
  BY DEF ARQPostRequest
<1>2. CASE Idle(arq)
  BY <1>1, <1>2, PostEnqueued, ServeInv DEF IInv
<1>3. CASE ~Idle(arq)
  BY <1>1, <1>3, PostEnqueued DEF IInv
<1> QED BY <1>2, <1>3

\* What completed, and what the interrupt makes of it: the queue is between two
\* transfers, and one request has moved on, to its end if it is called back.
Completed(a) ==
  /\ arq.pendingHi # None =>
       /\ a.pendingHi = None /\ a.pendingLo = arq.pendingLo
       /\ moved' = [moved EXCEPT ![arq.pendingHi] = job[arq.pendingHi].length]
  /\ arq.pendingHi = None /\ arq.hasCallbackLo =>
       /\ a.pendingLo = None
       /\ moved' = [moved EXCEPT ![arq.pendingLo] = job[arq.pendingLo].length]
  /\ arq.pendingHi = None /\ ~arq.hasCallbackLo =>
       /\ a.pendingLo = arq.pendingLo
       /\ moved' = [moved EXCEPT ![arq.pendingLo] = @ + Chunk]
       /\ moved'[arq.pendingLo] < job[arq.pendingLo].length

\* When a transfer has completed and its callback has run, the queue is between
\* two transfers.
LEMMA InterruptBetween ==
  ASSUME IInv, ARQInterruptServiceRoutine,
         NEW a, a = Callback([arq EXCEPT !.dma = Tail(@)])
  PROVE  /\ Between(a, job, moved')
         /\ a.queueHi = arq.queueHi /\ a.queueLo = arq.queueLo
         /\ arq.pendingHi = None => a.pendingHi = None /\ arq.pendingLo # None
         /\ Completed(a)
<1>1. /\ arq \in QueueState /\ job \in [Requests -> Request] /\ moved \in [Requests -> U32]
      /\ Distinct(arq) /\ QueuedFresh(arq, job, moved)
      /\ arq.hasCallbackHi <=> arq.pendingHi # None
      /\ arq.hasCallbackLo => arq.pendingLo # None /\ arq.pendingHi = None
  BY DEF IInv, Inv, Typed
<1>2. /\ arq.dma # <<>> /\ arq.dma \in Seq(Transfer)
      /\ moved' = [moved EXCEPT ![Served] = @ + Head(arq.dma).length]
  BY <1>1 DEF ARQInterruptServiceRoutine, QueueState
<1>3. arq.pendingHi # None \/ arq.pendingLo # None
  BY <1>2 DEF IInv, Inv
<1>4. /\ arq.pendingHi \in Requests \cup {None} /\ arq.pendingLo \in Requests \cup {None}
      /\ arq.req \in [Requests -> Request]
      /\ arq.hasCallbackHi \in BOOLEAN /\ arq.hasCallbackLo \in BOOLEAN
      /\ arq.queueHi \in Seq(Requests) /\ arq.queueLo \in Seq(Requests)
  BY <1>1 DEF QueueState
<1>5. Served \in Requests
  BY <1>3, <1>4 DEF Served
<1>6. ASSUME NEW x \in ToSet(arq.queueHi) \cup ToSet(arq.queueLo)
      PROVE  x \in Requests /\ x # Served
  BY <1>1, <1>4 DEF Distinct, Served, ToSet
<1>7. ASSUME NEW x \in Requests, x # Served PROVE moved'[x] = moved[x]
  BY <1>1, <1>2, <1>7
\* The record after the callback, in the three cases.
<1>8. ASSUME a.req = arq.req, a.queueHi = arq.queueHi, a.queueLo = arq.queueLo
      PROVE  QueuedFresh(a, job, moved')
  BY <1>1, <1>6, <1>7, <1>8 DEF QueuedFresh, OnTrack
<1>9. CASE arq.pendingHi # None
  <2> DEFINE r == arq.pendingHi
  <2>1. /\ moved[r] = 0 /\ OnTrack(arq, job, r, 0)
        /\ arq.dma = <<Part(job[r], 0, job[r].length)>>
        /\ Served = r /\ r \in Requests
    BY <1>4, <1>9 DEF IInv, Inv, InFlightHi, Served
  <2>2. Head(arq.dma).length = job[r].length /\ Tail(arq.dma) = <<>>
    BY <2>1 DEF Part
  <2>3. job[r].length \in U32 /\ job[r].length \in Nat
    BY <1>1, <2>1, TypesOfValues DEF Request
  <2>4. moved' = [moved EXCEPT ![r] = job[r].length]
    <3>1. moved' = [moved EXCEPT ![r] = 0 + job[r].length]
      BY <1>1, <1>2, <2>1, <2>2
    <3>2. 0 + job[r].length = job[r].length
      BY <2>3
    <3> QED BY <3>1, <3>2
  <2>5. a = [arq EXCEPT !.dma = <<>>, !.pendingHi = None, !.hasCallbackHi = FALSE]
    BY <1>1, <1>9, <2>2 DEF Callback, QueueState
  <2>6. /\ a.dma = <<>> /\ a.pendingHi = None /\ a.hasCallbackHi = FALSE
        /\ a.hasCallbackLo = arq.hasCallbackLo /\ a.pendingLo = arq.pendingLo
        /\ a.req = arq.req /\ a.queueHi = arq.queueHi /\ a.queueLo = arq.queueLo
    BY <1>1, <2>5 DEF QueueState
  <2>7. Typed(a, job, moved')
    <3>1. <<>> \in Seq(Transfer)
      OBVIOUS
    <3>2. a \in QueueState
      BY <3>1, <1>1, <2>5 DEF QueueState
    <3> QED BY <3>2, <1>1, <2>3, <2>4 DEF Typed
  <2>8. Distinct(a)
    <3>1. None \notin ToSet(arq.queueHi) \cup ToSet(arq.queueLo)
      BY <1>6, ARQAssumption
    <3> QED BY <3>1, <1>1, <2>6 DEF Distinct
  <2>9. a.pendingLo # None => OnTrack(a, job, a.pendingLo, moved'[a.pendingLo])
    <3>1. SUFFICES ASSUME a.pendingLo # None
                   PROVE  OnTrack(a, job, a.pendingLo, moved'[a.pendingLo])
      OBVIOUS
    <3>2. a.pendingLo \in Requests /\ a.pendingLo # Served
      BY <3>1, <1>1, <1>4, <2>1, <2>6 DEF Distinct
    <3>3. OnTrack(arq, job, arq.pendingLo, moved[arq.pendingLo])
      BY <3>1, <1>9, <2>6 DEF IInv, Inv
    <3> QED BY <3>2, <3>3, <1>7, <2>6 DEF OnTrack
  <2>10. Between(a, job, moved')
    BY <1>1, <1>8, <1>9, <2>6, <2>7, <2>8, <2>9 DEF Between
  <2> QED BY <1>9, <2>4, <2>6, <2>10 DEF Completed
<1>10. CASE arq.pendingHi = None
  <2> DEFINE r == arq.pendingLo
  <2>1. r # None /\ r \in Requests /\ Served = r /\ InFlightLo(arq, job, moved, r)
    BY <1>3, <1>4, <1>10 DEF IInv, Inv, Served
  <2>2. PICK n \in 0 .. job[r].length :
          /\ job[r].source + job[r].length <= Word /\ job[r].dest + job[r].length <= Word
          /\ arq.dma = <<Part(job[r], moved[r], n)>>
          /\ \/ arq.hasCallbackLo /\ moved[r] + n = job[r].length
             \/ /\ ~arq.hasCallbackLo /\ n = Chunk /\ moved[r] + n < job[r].length
                /\ OnTrack(arq, job, r, moved[r] + n)
    BY <2>1 DEF InFlightLo
  <2>3. Head(arq.dma).length = n /\ Tail(arq.dma) = <<>>
    BY <2>2 DEF Part
  <2>4. /\ job[r].length \in U32 /\ job[r].length \in Nat /\ moved[r] \in Nat
    BY <1>1, <2>1, TypesOfValues, ARQAssumption DEF Request, U32
  <2>5. moved' = [moved EXCEPT ![r] = moved[r] + n] /\ moved'[r] = moved[r] + n
    BY <1>1, <1>2, <2>1, <2>3
  <2>6. moved' \in [Requests -> U32]
    <3>1. moved[r] + n \in U32
      BY <2>2, <2>4, ARQAssumption DEF U32
    <3> QED BY <3>1, <1>1, <2>5
  <2>7. None \notin ToSet(arq.queueHi) \cup ToSet(arq.queueLo)
    BY <1>6, ARQAssumption
  <2>8. CASE arq.hasCallbackLo
    <3>1. a = [arq EXCEPT !.dma = <<>>, !.pendingLo = None, !.hasCallbackLo = FALSE]
      BY <1>1, <1>10, <2>3, <2>8 DEF Callback, QueueState
    <3>2. /\ a.dma = <<>> /\ a.pendingHi = None /\ a.hasCallbackHi = arq.hasCallbackHi
          /\ a.hasCallbackLo = FALSE /\ a.pendingLo = None
          /\ a.req = arq.req /\ a.queueHi = arq.queueHi /\ a.queueLo = arq.queueLo
      BY <1>1, <1>10, <3>1 DEF QueueState
    <3>3. Distinct(a)
      BY <1>1, <2>7, <3>2 DEF Distinct
    <3>4. Between(a, job, moved')
      <4>1. <<>> \in Seq(Transfer)
        OBVIOUS
      <4>2. a \in QueueState
        BY <4>1, <1>1, <3>1 DEF QueueState
      <4> QED BY <4>2, <1>1, <1>8, <1>10, <2>6, <3>2, <3>3 DEF Between, Typed
    <3>5. moved' = [moved EXCEPT ![r] = job[r].length]
      BY <2>2, <2>5, <2>8
    <3> QED BY <1>10, <2>1, <2>8, <3>2, <3>4, <3>5 DEF Completed
  <2>9. CASE ~arq.hasCallbackLo
    <3>1. a = [arq EXCEPT !.dma = <<>>]
      BY <1>1, <1>10, <2>3, <2>9 DEF Callback, QueueState
    <3>2. /\ a.dma = <<>> /\ a.pendingHi = None /\ a.hasCallbackHi = arq.hasCallbackHi
          /\ a.hasCallbackLo = arq.hasCallbackLo /\ a.pendingLo = r
          /\ a.req = arq.req /\ a.queueHi = arq.queueHi /\ a.queueLo = arq.queueLo
      BY <1>1, <1>10, <3>1 DEF QueueState
    <3>3. Distinct(a)
      BY <1>1, <1>10, <3>2 DEF Distinct
    <3>4. OnTrack(a, job, r, moved'[r])
      BY <2>2, <2>5, <2>9, <3>2 DEF OnTrack
    <3>5. Between(a, job, moved')
      <4>1. <<>> \in Seq(Transfer)
        OBVIOUS
      <4>2. a \in QueueState
        BY <4>1, <1>1, <3>1 DEF QueueState
      <4> QED BY <4>2, <1>1, <1>8, <1>10, <2>6, <2>9, <3>2, <3>3, <3>4 DEF Between, Typed
    <3>6. n = Chunk /\ moved'[r] < job[r].length
      BY <2>2, <2>5, <2>9
    <3> QED BY <1>10, <2>1, <2>5, <2>9, <3>2, <3>5, <3>6 DEF Completed
  <2> QED BY <2>8, <2>9
<1> QED BY <1>9, <1>10

\* port_ARQInterruptServiceRoutine preserves the invariant.
LEMMA InterruptInv == IInv /\ ARQInterruptServiceRoutine => IInv'
<1> SUFFICES ASSUME IInv, ARQInterruptServiceRoutine PROVE IInv'
  OBVIOUS
<1> DEFINE a == Callback([arq EXCEPT !.dma = Tail(@)])
<1>1. Between(a, job, moved')
  BY InterruptBetween
<1>2. arq' = Serve(a) /\ job' = job
  BY DEF ARQInterruptServiceRoutine
<1> QED BY <1>1, <1>2, ServeInv DEF IInv

\* The invariant is inductive.
LEMMA NextInv == IInv /\ [Next]_vars => IInv'
<1> SUFFICES ASSUME IInv, [Next]_vars PROVE IInv'
  OBVIOUS
<1>1. ASSUME NEW r \in Requests, NEW p \in Priorities, NEW q \in Jobs, ARQPostRequest(r, p, q)
      PROVE  IInv'
  <2>1. q \in Request
    BY ARQAssumption DEF Jobs, Request, U32
  <2> QED BY <1>1, <2>1, PostInv
<1>2. CASE ARQInterruptServiceRoutine
  BY <1>2, InterruptInv
<1>3. CASE UNCHANGED vars
  BY <1>3 DEF vars, IInv
<1> QED BY <1>1, <1>2, <1>3 DEF Next

\* The inductive invariant holds in every state: each request's fields, in any
\* place it can be, stand where its client's job and the bytes moved put them.
THEOREM Invariance == Spec => []IInv
BY InitInv, NextInv, PTL DEF Spec
-----------------------------------------------------------------------------
(* What the invariant says of the transfer in flight. *)

\* A pending request has one transfer in flight, the part of it that follows
\* the bytes moved, and is to be called back exactly when that part is its last.
LEMMA InFlight ==
  ASSUME IInv, arq.pendingHi # None \/ arq.pendingLo # None
  PROVE  /\ Served \in Requests
         /\ \E n \in 0 .. job[Served].length :
              /\ arq.dma = <<Part(job[Served], moved[Served], n)>>
              /\ moved[Served] + n <= job[Served].length
              /\ CalledBack = Served <=> moved[Served] + n = job[Served].length
<1>1. /\ arq \in QueueState /\ job \in [Requests -> Request] /\ moved \in [Requests -> U32]
      /\ arq.hasCallbackHi <=> arq.pendingHi # None
      /\ arq.hasCallbackLo => arq.pendingLo # None /\ arq.pendingHi = None
  BY DEF IInv, Inv, Typed
<1>2. Served \in Requests /\ Served # None
  BY <1>1, ARQAssumption DEF QueueState, Served
<1>3. /\ job[Served].length \in Nat /\ moved[Served] \in Nat
  BY <1>1, <1>2, TypesOfValues, ARQAssumption DEF U32
<1>4. CASE arq.pendingHi # None
  <2>1. /\ Served = arq.pendingHi /\ CalledBack = Served /\ moved[Served] = 0
        /\ arq.dma = <<Part(job[Served], 0, job[Served].length)>>
    BY <1>1, <1>4 DEF Served, CalledBack, IInv, Inv, InFlightHi
  <2>2. 0 + job[Served].length = job[Served].length
    BY <1>3
  <2> QED BY <1>2, <1>3, <2>1, <2>2
<1>5. CASE arq.pendingHi = None
  <2>1. Served = arq.pendingLo /\ InFlightLo(arq, job, moved, Served)
    BY <1>5 DEF Served, IInv, Inv
  <2>2. PICK n \in 0 .. job[Served].length :
          /\ arq.dma = <<Part(job[Served], moved[Served], n)>>
          /\ \/ arq.hasCallbackLo /\ moved[Served] + n = job[Served].length
             \/ ~arq.hasCallbackLo /\ moved[Served] + n < job[Served].length
    BY <2>1 DEF InFlightLo
  <2>3. CalledBack = Served <=> arq.hasCallbackLo
    BY <1>1, <1>2, <1>5, <2>1 DEF CalledBack
  <2>4. /\ moved[Served] + n <= job[Served].length
        /\ arq.hasCallbackLo <=> moved[Served] + n = job[Served].length
    BY <1>3, <2>2
  <2> QED BY <1>2, <2>2, <2>3, <2>4
<1> QED BY <1>4, <1>5

\* Under the invariant the engine is busy exactly while a request is pending.
LEMMA EngineBusy ==
  ASSUME IInv
  PROVE  arq.dma # <<>> <=> arq.pendingHi # None \/ arq.pendingLo # None
<1>1. CASE arq.pendingHi # None \/ arq.pendingLo # None
  <2>1. PICK n \in 0 .. job[Served].length :
          arq.dma = <<Part(job[Served], moved[Served], n)>>
    BY <1>1, InFlight
  <2>2. arq.dma # <<>>
    BY <2>1
  <2> QED BY <1>1, <2>2
<1>2. CASE arq.pendingHi = None /\ arq.pendingLo = None
  BY <1>2 DEF IInv, Inv
<1> QED BY <1>1, <1>2

\* The fields of the queue and of every request keep their types; in particular
\* no u32 leaves its word, also when the last chunk wraps a length around.
THEOREM TypeCorrect == Spec => []TypeOK
<1>1. IInv => TypeOK
  BY DEF IInv, Inv, Typed, QueueState, TypeOK
<1> QED BY <1>1, Invariance, PTL

\* The engine never has two transfers, and has one exactly while a request is
\* pending, whatever the chunk size and however posts and interrupts interleave.
THEOREM OneTransferAlways == Spec => []OneTransfer
<1>1. ASSUME IInv PROVE OneTransfer
  <2>1. CASE arq.dma = <<>>
    BY <1>1, <2>1, EngineBusy DEF OneTransfer
  <2>2. CASE arq.dma # <<>>
    <3>1. PICK n \in 0 .. job[Served].length :
            arq.dma = <<Part(job[Served], moved[Served], n)>>
      BY <1>1, <2>2, EngineBusy, InFlight
    <3>2. Len(arq.dma) = 1
      BY <3>1
    <3> QED BY <1>1, <3>2, EngineBusy DEF OneTransfer
  <2> QED BY <2>1, <2>2
<1> QED BY <1>1, Invariance, PTL

\* No request waits while the engine is idle: the interrupt of the transfer in
\* flight will serve it.
THEOREM NeverStallsAlways == Spec => []NeverStalls
<1>1. ASSUME IInv PROVE NeverStalls
  <2>1. SUFFICES ASSUME NEW r \in Requests, Outstanding(r), arq.dma = <<>> PROVE FALSE
    BY DEF NeverStalls
  <2>2. arq.pendingHi = None /\ arq.pendingLo = None
    BY <1>1, <2>1, EngineBusy
  <2>3. arq.queueHi = <<>> /\ arq.queueLo = <<>>
    BY <1>1, <2>2 DEF IInv, Inv
  <2>4. ToSet(arq.queueHi) = {} /\ ToSet(arq.queueLo) = {}
    BY <2>3 DEF ToSet
  <2> QED BY <2>1, <2>2, <2>4, ARQAssumption DEF Outstanding
<1> QED BY <1>1, Invariance, PTL

\* An interrupt calls back the owner of the transfer that completed, and does
\* exactly when that was the last of the request.
THEOREM CallbackAlways == Spec => []CallbackOfServed
<1>1. ASSUME IInv PROVE CallbackOfServed
  <2>1. ~(arq.hasCallbackHi /\ arq.hasCallbackLo)
    BY <1>1 DEF IInv, Inv
  <2>2. ASSUME arq.dma # <<>>
        PROVE  CalledBack = Served <=>
                 moved[Served] + Head(arq.dma).length = job[Served].length
    <3>1. PICK n \in 0 .. job[Served].length :
            /\ arq.dma = <<Part(job[Served], moved[Served], n)>>
            /\ CalledBack = Served <=> moved[Served] + n = job[Served].length
      BY <1>1, <2>2, EngineBusy, InFlight
    <3>2. Head(arq.dma).length = n
      BY <3>1 DEF Part
    <3> QED BY <3>1, <3>2
  <2> QED BY <2>1, <2>2 DEF CallbackOfServed
<1> QED BY <1>1, Invariance, PTL

\* Every transfer moves the part of its request that comes next, in the right
\* direction and within the request's bounds.
THEOREM NextPartAlways == Spec => []NextPart
<1>1. ASSUME IInv, arq.dma # <<>>
      PROVE  LET q == job[Served]
                 done == moved[Served]
                 tr == Head(arq.dma)
                 toARAM == q.type = "MRAM_TO_ARAM"
             IN /\ tr.type = q.type
                /\ tr.mainmem = (IF toARAM THEN q.source ELSE q.dest) + done
                /\ tr.aram = (IF toARAM THEN q.dest ELSE q.source) + done
                /\ done + tr.length <= q.length
  <2>1. PICK n \in 0 .. job[Served].length :
          /\ arq.dma = <<Part(job[Served], moved[Served], n)>>
          /\ moved[Served] + n <= job[Served].length
    BY <1>1, EngineBusy, InFlight
  <2>2. Head(arq.dma) = Part(job[Served], moved[Served], n)
    BY <2>1
  <2> QED BY <2>1, <2>2 DEF Part
<1>2. IInv => NextPart
  BY <1>1 DEF NextPart
<1> QED BY <1>2, Invariance, PTL

\* While a high request is queued no other transfer than the next high one is
\* started, for any chunk size: a low request in progress waits.
THEOREM HighPreemptsAlways == Spec => HighPreempts
<1>1. ASSUME IInv, [Next]_vars, arq.queueHi # <<>>, arq'.dma # arq.dma
      PROVE  arq'.pendingHi = Head(arq.queueHi)
  <2>1. ASSUME NEW r \in Requests, NEW p \in Priorities, NEW q, ARQPostRequest(r, p, q)
        PROVE  FALSE
    <3>1. ~Idle(arq)
      BY <1>1 DEF Idle, IInv, Inv
    <3>2. arq' = Enqueue(arq, r, p, q)
      BY <2>1, <3>1 DEF ARQPostRequest
    <3>3. arq \in QueueState
      BY <1>1 DEF IInv, Inv, Typed
    <3>4. arq'.dma = arq.dma
      BY <3>2, <3>3 DEF Enqueue, QueueState
    <3> QED BY <1>1, <3>4
  <2>2. CASE ARQInterruptServiceRoutine
    <3> DEFINE a == Callback([arq EXCEPT !.dma = Tail(@)])
    <3>1. Between(a, job, moved') /\ a.queueHi = arq.queueHi
      BY <1>1, <2>2, InterruptBetween
    <3>2. arq' = Serve(a)
      BY <2>2 DEF ARQInterruptServiceRoutine
    <3> HIDE DEF a
    <3> QED BY <1>1, <3>1, <3>2, ServeInv
  <2>3. CASE UNCHANGED vars
    BY <1>1, <2>3 DEF vars
  <2> QED BY <1>1, <2>1, <2>2, <2>3 DEF Next
<1>2. IInv /\ [Next]_vars =>
        [arq.queueHi # <<>> /\ arq'.dma # arq.dma => arq'.pendingHi = Head(arq.queueHi)]_vars
  BY <1>1
<1> QED BY <1>2, Invariance, PTL DEF Spec, HighPreempts

-----------------------------------------------------------------------------
(* The queue implements the service. *)

\* The line of a pending request begins with it, and the queue is the rest.
LEMMA LineOfPending ==
  ASSUME NEW x \in Requests, NEW s \in Seq(Requests)
  PROVE  /\ Line(x, s) # <<>> /\ Head(Line(x, s)) = x /\ Tail(Line(x, s)) = s
         /\ Line(None, s) = s
<1> DEFINE u == <<x>> \o s
<1>1. Line(x, s) = u /\ Line(None, s) = s
  BY ARQAssumption, ConcatEmptySeq DEF Line
<1>2. <<x>> \in Seq(Requests) /\ Len(<<x>>) = 1 /\ <<x>>[1] = x
  OBVIOUS
<1>3. /\ u \in Seq(Requests) /\ Len(u) = 1 + Len(s)
      /\ \A i \in 1 .. 1 + Len(s) : u[i] = IF i <= 1 THEN <<x>>[i] ELSE s[i - 1]
  BY <1>2, ConcatProperties
<1>4. Len(s) \in Nat
  BY LenProperties
<1>5. u # <<>> /\ Head(u) = x
  <2>1. u[1] = x
    BY <1>2, <1>3, <1>4
  <2>2. Len(u) # 0
    BY <1>3, <1>4
  <2>3. u # <<>>
    BY <1>3, <2>2, EmptySeq
  <2> HIDE DEF u
  <2> QED BY <1>3, <2>1, <2>3, HeadTailProperties
<1>6. Tail(u) = s
  <2> HIDE DEF u
  <2>1. /\ Tail(u) \in Seq(Requests) /\ Len(Tail(u)) = Len(u) - 1
        /\ \A i \in 1 .. Len(Tail(u)) : Tail(u)[i] = u[i + 1]
    BY <1>3, <1>5, HeadTailProperties
  <2>2. ASSUME NEW i \in 1 .. Len(s) PROVE Tail(u)[i] = s[i]
    <3>1. i \in 1 .. Len(Tail(u)) /\ i + 1 \in 1 .. 1 + Len(s) /\ ~(i + 1 <= 1) /\ (i + 1) - 1 = i
      BY <1>3, <1>4, <2>1
    <3> QED BY <1>3, <2>1, <3>1
  <2>3. Len(Tail(u)) = Len(s)
    BY <1>3, <1>4, <2>1
  <2> QED BY <2>1, <2>2, <2>3, SeqEqual
<1> QED BY <1>1, <1>5, <1>6

\* A request appended to a queue is appended to the line.
LEMMA LineAppend ==
  ASSUME NEW x \in Requests \cup {None}, NEW s \in Seq(Requests), NEW e \in Requests
  PROVE  Line(x, Append(s, e)) = Append(Line(x, s), e)
<1>1. CASE x = None
  BY <1>1, LineOfPending, ConcatEmptySeq DEF Line
<1>2. CASE x # None
  <2> DEFINE h == <<x>>
             u == h \o Append(s, e)
             v == Append(h \o s, e)
  <2>1. h \in Seq(Requests) /\ Append(s, e) \in Seq(Requests)
    BY <1>2
  <2>2. Append(s, e) = s \o <<e>> /\ <<e>> \in Seq(Requests)
    BY AppendIsConcat
  <2>3. v = (h \o s) \o <<e>>
    BY <2>1, AppendIsConcat, ConcatProperties
  <2>4. (h \o s) \o <<e>> = h \o (s \o <<e>>)
    BY <2>1, <2>2, ConcatAssociative
  <2> QED BY <1>2, <2>2, <2>3, <2>4 DEF Line
<1> QED BY <1>1, <1>2

\* A request that is neither pending nor queued is not in the line.
LEMMA LineMembers ==
  ASSUME NEW x \in Requests \cup {None}, NEW s \in Seq(Requests), NEW r \in Requests,
         r # x, r \notin ToSet(s)
  PROVE  r \notin ToSet(Line(x, s))
<1>1. CASE x = None
  <2>1. Line(x, s) = s
    BY <1>1, ConcatEmptySeq DEF Line
  <2> QED BY <2>1
<1>2. CASE x # None
  <2>1. x \in Requests /\ Line(x, s) = <<x>> \o s
    BY <1>2 DEF Line
  <2>2. <<x>> \in Seq(Requests) /\ Len(<<x>>) = 1 /\ <<x>>[1] = x /\ Len(s) \in Nat
    BY <2>1, LenProperties
  <2> DEFINE u == <<x>> \o s
  <2>3. /\ u \in Seq(Requests) /\ Len(u) = 1 + Len(s)
        /\ \A i \in 1 .. 1 + Len(s) : u[i] = IF i <= 1 THEN <<x>>[i] ELSE s[i - 1]
    BY <2>2, ConcatProperties
  <2>4. DOMAIN u = 1 .. 1 + Len(s) /\ DOMAIN s = 1 .. Len(s)
    BY <2>3, LenProperties
  <2>5. ASSUME NEW i \in DOMAIN u PROVE u[i] # r
    <3>1. CASE i = 1
      BY <2>2, <2>3, <2>4, <3>1
    <3>2. CASE i # 1
      <4>1. i - 1 \in DOMAIN s /\ u[i] = s[i - 1]
        BY <2>2, <2>3, <2>4, <3>2
      <4> QED BY <4>1 DEF ToSet
    <3> QED BY <3>1, <3>2
  <2> QED BY <2>1, <2>5 DEF ToSet
<1> QED BY <1>1, <1>2
\* The empty queue of port_ARQInit is the service's initial state.
LEMMA ServiceInit == Init => Service!Init
<1> SUFFICES ASSUME Init PROVE Service!Init
  OBVIOUS
<1>1. Line(None, <<>>) = <<>>
  <2>1. <<>> \in Seq(Requests)
    OBVIOUS
  <2> QED BY <2>1, ConcatEmptySeq DEF Line
<1>2. line = [p \in Service!Lines |-> <<>>]
  BY <1>1 DEF Init, line, Priorities, Service!Lines
<1>3. left = [r \in Requests |-> 0]
  BY DEF Init, left, Blank
<1> QED BY <1>2, <1>3 DEF Service!Init

\* port_ARQPostRequest is the service's Post, whether or not it starts a transfer.
LEMMA ServicePost ==
  ASSUME IInv, NEW r \in Requests, NEW p \in Priorities, NEW q \in Request,
         ARQPostRequest(r, p, q)
  PROVE  Service!Post(r, p, q.length)
<1> DEFINE a == Enqueue(arq, r, p, q)
<1>1. /\ arq \in QueueState /\ job \in [Requests -> Request] /\ moved \in [Requests -> U32]
      /\ arq.queueHi \in Seq(Requests) /\ arq.queueLo \in Seq(Requests)
      /\ arq.pendingHi \in Requests \cup {None} /\ arq.pendingLo \in Requests \cup {None}
  BY DEF IInv, Inv, Typed, QueueState
<1>2. /\ r # arq.pendingHi /\ r \notin ToSet(arq.queueHi)
      /\ r # arq.pendingLo /\ r \notin ToSet(arq.queueLo)
  BY DEF ARQPostRequest, Outstanding
<1>3. ~Service!Outstanding(r)
  <2>1. /\ r \notin ToSet(Line(arq.pendingHi, arq.queueHi))
        /\ r \notin ToSet(Line(arq.pendingLo, arq.queueLo))
    BY <1>1, <1>2, LineMembers
  <2>2. /\ line["hi"] = Line(arq.pendingHi, arq.queueHi)
        /\ line["lo"] = Line(arq.pendingLo, arq.queueLo)
    BY DEF line, Priorities
  <2>3. \A s : Service!ToSet(s) = ToSet(s)
    BY DEF Service!ToSet, ToSet
  <2> QED BY <2>1, <2>2, <2>3 DEF Service!Outstanding, Service!Lines
<1>4. /\ a.pendingHi = arq.pendingHi /\ a.pendingLo = arq.pendingLo
      /\ p = "hi" => a.queueHi = Append(arq.queueHi, r) /\ a.queueLo = arq.queueLo
      /\ p # "hi" => a.queueHi = arq.queueHi /\ a.queueLo = Append(arq.queueLo, r)
  BY <1>1 DEF Enqueue, QueueState
<1>5. /\ Line(arq'.pendingHi, arq'.queueHi) = Line(a.pendingHi, a.queueHi)
      /\ Line(arq'.pendingLo, arq'.queueLo) = Line(a.pendingLo, a.queueLo)
  <2>1. arq' = IF Idle(arq) THEN Serve(a) ELSE a
    BY DEF ARQPostRequest
  <2>2. CASE Idle(arq)
    <3>1. Between(a, job', moved') /\ arq' = Serve(a)
      BY <2>1, <2>2, PostEnqueued
    <3> HIDE DEF a
    <3> QED BY <3>1, ServeInv
  <2>3. CASE ~Idle(arq)
    <3>1. arq' = a
      BY <2>1, <2>3
    <3> QED BY <3>1
  <2> QED BY <2>2, <2>3
<1> HIDE DEF a
<1>6. line' = [line EXCEPT ![p] = Append(@, r)]
  <2>1. CASE p = "hi"
    <3>1. /\ Line(arq'.pendingHi, arq'.queueHi) = Append(Line(arq.pendingHi, arq.queueHi), r)
          /\ Line(arq'.pendingLo, arq'.queueLo) = Line(arq.pendingLo, arq.queueLo)
      BY <2>1, <1>1, <1>4, <1>5, LineAppend
    <3> QED BY <2>1, <3>1 DEF line, Priorities
  <2>2. CASE p = "lo"
    <3>1. /\ Line(arq'.pendingLo, arq'.queueLo) = Append(Line(arq.pendingLo, arq.queueLo), r)
          /\ Line(arq'.pendingHi, arq'.queueHi) = Line(arq.pendingHi, arq.queueHi)
      BY <2>2, <1>1, <1>4, <1>5, LineAppend
    <3> QED BY <2>2, <3>1 DEF line, Priorities
  <2> QED BY <2>1, <2>2 DEF Priorities
<1>7. left' = [left EXCEPT ![r] = q.length]
  <2>1. /\ job' = [job EXCEPT ![r] = q] /\ moved' = [moved EXCEPT ![r] = 0]
    BY DEF ARQPostRequest
  <2>2. q.length - 0 = q.length
    BY TypesOfValues
  <2>3. job'[r].length - moved'[r] = q.length
    BY <1>1, <2>1, <2>2
  <2>4. \A x \in Requests \ {r} : job'[x] = job[x] /\ moved'[x] = moved[x]
    BY <1>1, <2>1
  <2> QED BY <2>3, <2>4 DEF left
<1> QED BY <1>3, <1>6, <1>7 DEF Service!Post

\* The interrupt that completes a request, and the one that completes a chunk.
LEMMA ServiceInterrupt ==
  ASSUME IInv, ARQInterruptServiceRoutine
  PROVE  Service!Next
<1> DEFINE a == Callback([arq EXCEPT !.dma = Tail(@)])
<1>1. /\ arq \in QueueState /\ job \in [Requests -> Request] /\ moved \in [Requests -> U32]
      /\ arq.queueHi \in Seq(Requests) /\ arq.queueLo \in Seq(Requests)
      /\ arq.pendingHi \in Requests \cup {None} /\ arq.pendingLo \in Requests \cup {None}
  BY DEF IInv, Inv, Typed, QueueState
<1>2. /\ Between(a, job, moved') /\ Completed(a)
      /\ a.queueHi = arq.queueHi /\ a.queueLo = arq.queueLo
      /\ arq.pendingHi = None => a.pendingHi = None /\ arq.pendingLo # None
  BY InterruptBetween
<1>3. arq' = Serve(a) /\ job' = job
  BY DEF ARQInterruptServiceRoutine
<1> HIDE DEF a
<1>4. /\ Line(arq'.pendingHi, arq'.queueHi) = Line(a.pendingHi, arq.queueHi)
      /\ Line(arq'.pendingLo, arq'.queueLo) = Line(a.pendingLo, arq.queueLo)
  BY <1>2, <1>3, ServeInv
<1>5. \A x \in Requests : job[x].length \in Nat /\ moved[x] \in Nat
  BY <1>1, TypesOfValues, ARQAssumption DEF U32
<1>6. ASSUME NEW r \in Requests, moved' = [moved EXCEPT ![r] = job[r].length]
      PROVE  left' = [left EXCEPT ![r] = 0]
  <2>1. job[r].length - moved'[r] = 0
    BY <1>1, <1>5, <1>6
  <2>2. \A x \in Requests \ {r} : moved'[x] = moved[x]
    BY <1>1, <1>6
  <2> QED BY <1>3, <2>1, <2>2 DEF left
<1>7. CASE arq.pendingHi # None
  <2> DEFINE r == arq.pendingHi
  <2>1. r \in Requests
    BY <1>1, <1>7
  <2>2. /\ line["hi"] = Line(r, arq.queueHi)
        /\ line["hi"] # <<>> /\ Head(line["hi"]) = r /\ Tail(line["hi"]) = arq.queueHi
    BY <1>1, <2>1, LineOfPending DEF line, Priorities
  <2>3. a.pendingHi = None /\ a.pendingLo = arq.pendingLo
    BY <1>2, <1>7 DEF Completed
  <2>4. Line(arq'.pendingHi, arq'.queueHi) = arq.queueHi
    BY <1>1, <1>4, <2>1, <2>3, LineOfPending
  <2>5. line' = [line EXCEPT !["hi"] = Tail(@)]
    BY <1>4, <2>2, <2>3, <2>4 DEF line, Priorities
  <2>6. left' = [left EXCEPT ![r] = 0]
    BY <1>2, <1>6, <1>7, <2>1 DEF Completed
  <2>7. Service!Finish("hi")
    BY <2>2, <2>5, <2>6 DEF Service!Finish
  <2> QED BY <2>7 DEF Service!Next, Service!Lines
<1>8. CASE arq.pendingHi = None
  <2> DEFINE r == arq.pendingLo
  <2>1. r \in Requests
    BY <1>1, <1>2, <1>8
  <2>2. /\ line["lo"] = Line(r, arq.queueLo)
        /\ line["lo"] # <<>> /\ Head(line["lo"]) = r /\ Tail(line["lo"]) = arq.queueLo
    BY <1>1, <2>1, LineOfPending DEF line, Priorities
  <2>3. Line(arq'.pendingHi, arq'.queueHi) = Line(arq.pendingHi, arq.queueHi)
    BY <1>2, <1>4, <1>8
  <2>4. CASE arq.hasCallbackLo
    <3>1. a.pendingLo = None /\ moved' = [moved EXCEPT ![r] = job[r].length]
      BY <1>2, <1>8, <2>4 DEF Completed
    <3>2. Line(arq'.pendingLo, arq'.queueLo) = arq.queueLo
      BY <1>1, <1>4, <2>1, <3>1, LineOfPending
    <3>3. line' = [line EXCEPT !["lo"] = Tail(@)]
      BY <2>2, <2>3, <3>2 DEF line, Priorities
    <3>4. Service!Finish("lo")
      BY <1>6, <2>1, <2>2, <3>1, <3>3 DEF Service!Finish
    <3> QED BY <3>4 DEF Service!Next, Service!Lines
  <2>5. CASE ~arq.hasCallbackLo
    <3>1. /\ a.pendingLo = r /\ moved' = [moved EXCEPT ![r] = moved[r] + Chunk]
          /\ moved'[r] < job[r].length
      BY <1>2, <1>8, <2>5 DEF Completed
    <3>2. UNCHANGED line
      BY <1>4, <2>3, <3>1 DEF line
    <3>3. moved'[r] = moved[r] + Chunk
      BY <1>1, <2>1, <3>1
    <3>4. /\ left[r] = job[r].length - moved[r] /\ Chunk < left[r]
          /\ job[r].length - moved'[r] = left[r] - Chunk
      BY <1>5, <2>1, <3>1, <3>3, ARQAssumption DEF left
    <3>5. \A x \in Requests \ {r} : moved'[x] = moved[x]
      BY <1>1, <3>1
    <3>6. left' = [left EXCEPT ![r] = left[r] - Chunk]
      BY <1>3, <3>4, <3>5 DEF left
    <3>7. Service!Slice("lo", Chunk)
      BY <2>2, <3>2, <3>4, <3>6 DEF Service!Slice
    <3>8. Chunk \in 1 .. Word
      BY ARQAssumption
    <3> QED BY <3>7, <3>8 DEF Service!Next, Service!Lines
  <2> QED BY <2>4, <2>5
<1> QED BY <1>7, <1>8

\* The queue implements the service: each request leaves its line once, from
\* the head, after all its bytes moved in order, for every number of requests,
\* chunk size and word size.
THEOREM Implementation == Spec => ImplementsService
<1>1. Init => Service!Init
  BY ServiceInit
<1>2. IInv /\ [Next]_vars => [Service!Next]_(Service!vars)
  <2> SUFFICES ASSUME IInv, [Next]_vars PROVE [Service!Next]_(Service!vars)
    OBVIOUS
  <2>1. ASSUME NEW r \in Requests, NEW p \in Priorities, NEW q \in Jobs, ARQPostRequest(r, p, q)
        PROVE  Service!Next
    <3>1. q \in Request
      BY ARQAssumption DEF Jobs, Request, U32
    <3>2. q.length \in U32
      BY <3>1 DEF Request
    <3>3. q.length \in 0 .. Word
      BY <3>2, ARQAssumption DEF U32
    <3>4. Service!Post(r, p, q.length)
      BY <2>1, <3>1, ServicePost
    <3> QED BY <3>3, <3>4 DEF Service!Next, Service!Lines, Priorities
  <2>2. CASE ARQInterruptServiceRoutine
    BY <2>2, ServiceInterrupt
  <2>3. CASE UNCHANGED vars
    BY <2>3 DEF vars, Service!vars, line, left
  <2> QED BY <2>1, <2>2, <2>3 DEF Next
<1> QED BY <1>1, <1>2, Invariance, PTL DEF Spec, ImplementsService, Service!Spec
=============================================================================
