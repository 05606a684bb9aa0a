--------------------------- MODULE PriorityProofs ---------------------------
(***************************************************************************)
(* Priority inheritance (PriorityIsEffective of OSThreadProps), for any    *)
(* number of threads and mutexes, through any chain or cycle of owners.    *)
(*                                                                         *)
(* What a thread has a right to depends on its situation c: its base       *)
(* priority, its heirs (the sleepers of its mutexes), whether it counts    *)
(* (it lives and is not suspended) and whether it is loose (it may have    *)
(* more than that, because some program waits on conditions).  None of     *)
(* that changes while priorities are passed on, so a walk along a chain of *)
(* owners is a sequence of functions prio, one point of which changes at a *)
(* time.                                                                   *)
(*                                                                         *)
(* From the same facts follow NoMissedPreemption, which needs what is      *)
(* known of priorities only for the unlock of a mutex, which may lower the *)
(* priority of its caller, and NoNullDereference: the way of a walk is a   *)
(* path of threads each of which waits for the next.                       *)
(***************************************************************************)
EXTENDS OSThreadProofs

Ranks == [Threads -> Int]

\* t has no less than it has a right to.
Enough(c, prio, t) ==
  prio[t] <= c.base[t] /\ \A u \in c.heirs[t] : prio[t] <= prio[u]

\* What t has, it has from somebody.
Reason(c, prio, t) ==
  prio[t] = c.base[t] \/ t \in c.loose \/ \E u \in c.heirs[t] : prio[u] = prio[t]

Right(c, prio, t) == Enough(c, prio, t) /\ Reason(c, prio, t)

AllRight(c, prio) == \A t \in c.counted : Right(c, prio, t)
AllRightBut(c, prio, t) == \A u \in c.counted \ {t} : Right(c, prio, u)

\* e is what t has a right to.
Best(c, prio, t, e) ==
  /\ e <= c.base[t] /\ \A u \in c.heirs[t] : e <= prio[u]
  /\ e = c.base[t] \/ \E u \in c.heirs[t] : e = prio[u]

\* t may have e: what it has a right to, or better if it is loose.
Due(c, prio, t, e) ==
  /\ e <= c.base[t] /\ \A u \in c.heirs[t] : e <= prio[u]
  /\ e = c.base[t] \/ t \in c.loose \/ \E u \in c.heirs[t] : e = prio[u]

\* t takes e.
Takes(prio, t, e, r) == r[t] = e /\ \A u \in Threads \ {t} : r[u] = prio[u]

\* A walk goes from an heir to the one it is an heir of, and from whoever waits
\* to a loose thread if there are loose threads at all.
Links(c, next) ==
  /\ c.base \in Ranks /\ c.counted \subseteq Threads /\ c.loose \subseteq Threads
  /\ next \in [Threads -> Threads \cup {NoThread}]
  /\ \A t \in Threads : c.heirs[t] \subseteq Threads /\ t \notin c.heirs[t] /\ next[t] # t
  /\ \A t \in Threads : \A u \in c.heirs[t] : next[u] = t
  /\ c.loose = {} \/ \A t \in Threads : next[t] \in c.loose \cup {NoThread}

\* After priority b was passed on, the walk is at t, which may have to take it.
Rising(c, prio, t, b) ==
  /\ AllRightBut(c, prio, t)
  /\ t \in c.counted =>
       /\ prio[t] <= c.base[t]
       /\ \A u \in c.heirs[t] : b <= prio[u] \/ prio[t] <= prio[u]
       /\ prio[t] <= b => Reason(c, prio, t)
       /\ b < prio[t] => t \in c.loose \/ \E u \in c.heirs[t] : prio[u] = b

\* It has it from one of them.
Inherits(c, prio, t, b) == t \in c.counted => \E u \in c.heirs[t] : prio[u] = b

\* After priority a was given up, the walk is at t, which may have it from nobody.
Falling(c, prio, t, a) ==
  /\ AllRightBut(c, prio, t)
  /\ t \in c.counted => Enough(c, prio, t) /\ (prio[t] = a \/ Reason(c, prio, t))

-----------------------------------------------------------------------------
(* One step of a walk. *)

\* A thread that takes what it has a right to is right, and nobody is disturbed but
\* the one it is an heir of.
LEMMA TakeOne ==
  ASSUME NEW c, NEW next, Links(c, next), NEW prio \in Ranks, NEW t \in Threads, NEW e \in Int,
         AllRightBut(c, prio, t), Due(c, prio, t, e), NEW r \in Ranks, Takes(prio, t, e, r)
  PROVE  /\ Right(c, r, t)
         /\ AllRightBut(c, r, next[t])
         /\ next[t] \notin c.counted \/ t \notin c.heirs[next[t]] => AllRight(c, r)
<1>1. r[t] = e /\ \A u \in Threads \ {t} : r[u] = prio[u]
  BY DEF Takes
<1>2. \A w \in Threads : c.heirs[w] \subseteq Threads /\ w \notin c.heirs[w]
  BY DEF Links
<1>3. \A u \in c.heirs[t] : r[u] = prio[u]
  BY <1>1, <1>2
<1>4. Right(c, r, t)
  <2>1. Enough(c, r, t)
    BY <1>1, <1>3 DEF Due, Enough
  <2>2. Reason(c, r, t)
    BY <1>1, <1>3 DEF Due, Reason
  <2> QED
    BY <2>1, <2>2 DEF Right
<1>5. ASSUME NEW w \in c.counted, w # t, t \notin c.heirs[w] PROVE Right(c, r, w)
  <2>1. w \in Threads /\ r[w] = prio[w] /\ \A u \in c.heirs[w] : r[u] = prio[u]
    BY <1>1, <1>2, <1>5 DEF Links
  <2>2. Right(c, prio, w)
    BY <1>5 DEF AllRightBut
  <2>3. Enough(c, r, w)
    BY <2>1, <2>2 DEF Right, Enough
  <2>4. Reason(c, r, w)
    BY <2>1, <2>2 DEF Right, Reason
  <2> QED
    BY <2>3, <2>4 DEF Right
<1>6. \A w \in c.counted : t \in c.heirs[w] => next[t] = w
  BY DEF Links
<1>7. \A w \in c.counted : next[t] # w \/ t \notin c.heirs[w] => Right(c, r, w)
  BY <1>4, <1>5, <1>6
<1> QED
  BY <1>1, <1>4, <1>7 DEF AllRight, AllRightBut

\* A thread that takes a better priority passes it on.
LEMMA RaiseOne ==
  ASSUME NEW c, NEW next, Links(c, next), NEW prio \in Ranks, NEW t \in Threads, NEW e \in Int,
         AllRightBut(c, prio, t), Due(c, prio, t, e), e < prio[t],
         NEW r \in Ranks, Takes(prio, t, e, r)
  PROVE  \/ AllRight(c, r)
         \/ next[t] \in Threads /\ Rising(c, r, next[t], e) /\ Inherits(c, r, next[t], e)
<1> DEFINE v == next[t]
<1>1. /\ r[t] = e /\ (\A u \in Threads \ {t} : r[u] = prio[u]) /\ AllRightBut(c, r, v)
      /\ v \notin c.counted \/ t \notin c.heirs[v] => AllRight(c, r)
  BY TakeOne DEF Takes
<1>2. CASE v \in c.counted /\ t \in c.heirs[v]
  <2>1. v \in Threads /\ v # t /\ c.heirs[v] \subseteq Threads /\ r[v] = prio[v]
    BY <1>1, <1>2 DEF Links
  <2>2. Right(c, prio, v)
    BY <1>2, <2>1 DEF AllRightBut
  <2>3. \A u \in c.heirs[v] : u = t \/ r[u] = prio[u]
    BY <1>1, <2>1
  <2>4. prio[v] \in Int /\ prio[t] \in Int /\ prio[v] <= prio[t] /\ prio[v] <= c.base[v]
    BY <1>2, <2>1, <2>2 DEF Right, Enough, Ranks
  <2>5. ASSUME NEW u \in c.heirs[v] PROVE e <= r[u] \/ r[v] <= r[u]
    <3>1. r[u] \in Int /\ prio[u] \in Int
      BY <2>1 DEF Ranks
    <3>2. prio[v] <= prio[u]
      BY <2>2 DEF Right, Enough
    <3> QED
      BY <1>1, <2>1, <2>3, <3>1, <3>2
  <2>6. ASSUME r[v] <= e PROVE Reason(c, r, v)
    <3>1. prio[v] # prio[t]
      BY <2>1, <2>4, <2>6
    <3>2. Reason(c, prio, v)
      BY <2>2 DEF Right
    <3> QED
      BY <2>1, <2>3, <3>1, <3>2 DEF Reason
  <2>7. \E u \in c.heirs[v] : r[u] = e
    BY <1>1, <1>2
  <2>8. Rising(c, r, v, e)
    BY <1>1, <2>1, <2>4, <2>5, <2>6, <2>7 DEF Rising
  <2> QED
    BY <2>1, <2>7, <2>8 DEF Inherits
<1> QED
  BY <1>1, <1>2

\* A thread that takes a worse priority leaves it to those it passed it on to.
LEMMA LowerOne ==
  ASSUME NEW c, NEW next, Links(c, next), NEW prio \in Ranks, NEW t \in Threads, NEW e \in Int,
         AllRightBut(c, prio, t), Best(c, prio, t, e), prio[t] < e,
         NEW r \in Ranks, Takes(prio, t, e, r)
  PROVE  AllRight(c, r) \/ (next[t] \in Threads /\ Falling(c, r, next[t], prio[t]))
<1> DEFINE v == next[t]
<1>1. /\ r[t] = e /\ (\A u \in Threads \ {t} : r[u] = prio[u]) /\ AllRightBut(c, r, v)
      /\ v \notin c.counted \/ t \notin c.heirs[v] => AllRight(c, r)
  <2>1. Due(c, prio, t, e)
    BY DEF Best, Due
  <2> QED
    BY <2>1, TakeOne DEF Takes
<1>2. CASE v \in c.counted /\ t \in c.heirs[v]
  <2>1. v \in Threads /\ v # t /\ c.heirs[v] \subseteq Threads /\ r[v] = prio[v]
    BY <1>1, <1>2 DEF Links
  <2>2. Right(c, prio, v)
    BY <1>2, <2>1 DEF AllRightBut
  <2>3. \A u \in c.heirs[v] : u = t \/ r[u] = prio[u]
    BY <1>1, <2>1
  <2>4. ASSUME NEW u \in c.heirs[v] PROVE r[v] <= r[u]
    <3>1. r[u] \in Int /\ prio[u] \in Int /\ prio[v] \in Int /\ prio[t] \in Int
      BY <2>1 DEF Ranks
    <3>2. prio[v] <= prio[u]
      BY <2>2 DEF Right, Enough
    <3> QED
      BY <1>1, <2>1, <2>3, <3>1, <3>2
  <2>5. r[v] = prio[t] \/ Reason(c, r, v)
    <3>1. Reason(c, prio, v)
      BY <2>2 DEF Right
    <3> QED
      BY <2>1, <2>3, <3>1 DEF Reason
  <2>6. Enough(c, r, v)
    BY <2>1, <2>2, <2>4 DEF Right, Enough
  <2>7. Falling(c, r, v, prio[t])
    BY <1>1, <2>5, <2>6 DEF Falling
  <2> QED
    BY <2>1, <2>7
<1> QED
  BY <1>1, <1>2
\* What holds of everybody but a thread that does not count, holds of everybody.
LEMMA ButNobody ==
  ASSUME NEW c, NEW prio, NEW t, AllRightBut(c, prio, t), t \notin c.counted \/ Right(c, prio, t)
  PROVE  AllRight(c, prio)
BY DEF AllRight, AllRightBut

\* If all are right, all but t are.
LEMMA EverybodyBut == ASSUME NEW c, NEW prio, NEW t, AllRight(c, prio) PROVE AllRightBut(c, prio, t)
BY DEF AllRight, AllRightBut

\* Who has the best it may have is right.
LEMMA BestIsRight ==
  ASSUME NEW c, NEW prio, NEW t, NEW e, Best(c, prio, t, e), prio[t] = e
  PROVE  Right(c, prio, t)
<1>1. Enough(c, prio, t)
  BY DEF Best, Enough
<1>2. Reason(c, prio, t)
  BY DEF Best, Reason
<1> QED
  BY <1>1, <1>2 DEF Right

-----------------------------------------------------------------------------
(* An update: each thread takes what it has a right to.  The threads that  *)
(* have worse than what is passed on, or what was given up, get fewer with *)
(* every turn, so that the walk ends before its bound.                     *)

Above(prio, b) == {u \in Threads : b < prio[u]}
At(prio, a) == {u \in Threads : prio[u] = a}

UpdateTurn(c, next, prio, t, r, v) ==
  \/ t = NoThread /\ r = prio /\ v = t
  \/ (t \notin c.counted \/ Best(c, prio, t, prio[t])) /\ r = prio /\ v = NoThread
  \/ /\ t \in c.counted /\ v = next[t]
     /\ \E e \in Int : Best(c, prio, t, e) /\ e # prio[t] /\ Takes(prio, t, e, r)

\* Turn i of an update: everybody is right, or what is wrong is at t.
Settling(c, prio, t, i) ==
  \/ AllRight(c, prio)
  \/ i = 0 /\ AllRightBut(c, prio, t)
  \/ \E b \in Int : /\ Rising(c, prio, t, b) /\ Inherits(c, prio, t, b)
                   /\ Cardinality(Above(prio, b)) + i <= Cardinality(Threads)
  \/ \E a \in Int : /\ Falling(c, prio, t, a)
                   /\ Cardinality(At(prio, a)) + i <= Cardinality(Threads)

\* A set that loses an element gets smaller.
LEMMA Fewer ==
  ASSUME NEW A \in SUBSET Threads, NEW B \in SUBSET Threads, NEW t \in B, A \subseteq B \ {t}
  PROVE  Cardinality(A) \in Nat /\ Cardinality(B) \in Nat /\ Cardinality(A) + 1 <= Cardinality(B)
<1>1. IsFiniteSet(B)
  BY FiniteAssumption, FS_Subset
<1>2. IsFiniteSet(B \ {t}) /\ Cardinality(B \ {t}) = Cardinality(B) - 1
  BY <1>1, FS_RemoveElement
<1>3. IsFiniteSet(A) /\ Cardinality(A) <= Cardinality(B \ {t})
  BY <1>2, FS_Subset
<1>4. Cardinality(A) \in Nat /\ Cardinality(B) \in Nat
  BY <1>1, <1>3, FS_CardinalityType
<1> QED
  BY <1>2, <1>3, <1>4

\* While an update settles, only the thread it has come to may be wrong.
LEMMA SettlingBut ==
  ASSUME NEW c, NEW prio, NEW t, NEW i, Settling(c, prio, t, i) PROVE AllRightBut(c, prio, t)
BY EverybodyBut DEF Settling, Rising, Falling

\* Where nobody is loose, nothing is left to do once everybody is right; where some
\* are, a loose thread may still give up what it has from nobody.
LEMMA LooseOne ==
  ASSUME NEW c, NEW next, Links(c, next), NEW prio \in Ranks, NEW t \in c.counted, NEW e \in Int,
         AllRight(c, prio), Best(c, prio, t, e), e # prio[t],
         NEW r \in Ranks, Takes(prio, t, e, r)
  PROVE  AllRight(c, r)
<1>1. t \in Threads /\ prio[t] \in Int /\ c.base[t] \in Int
  BY DEF Links, Ranks
<1>2. Enough(c, prio, t) /\ Reason(c, prio, t) /\ AllRightBut(c, prio, t)
  BY EverybodyBut DEF AllRight, Right
<1>3. prio[t] < e
  BY <1>1, <1>2 DEF Best, Enough
<1>4. t \in c.loose
  BY <1>1, <1>2, <1>3 DEF Best, Reason
<1>5. AllRight(c, r) \/ (next[t] \in Threads /\ Falling(c, r, next[t], prio[t]))
  BY <1>1, <1>2, <1>3, LowerOne
<1>6. ASSUME next[t] \in Threads, Falling(c, r, next[t], prio[t]) PROVE AllRight(c, r)
  <2>1. next[t] \in c.loose
    BY <1>1, <1>4, <1>6, NullAssumption DEF Links
  <2>2. next[t] \in c.counted => Right(c, r, next[t])
    BY <1>6, <2>1 DEF Falling, Right, Reason
  <2> QED
    BY <1>6, <2>2, ButNobody DEF Falling
<1> QED
  BY <1>5, <1>6

\* One turn keeps what is wrong in one place.
LEMMA TurnSettles ==
  ASSUME NEW c, NEW next, Links(c, next), NEW prio \in Ranks, NEW t \in Threads \cup {NoThread},
         NEW i \in Nat, NEW j, j = i + 1, Settling(c, prio, t, i), NEW r \in Ranks, NEW v,
         UpdateTurn(c, next, prio, t, r, v)
  PROVE  Settling(c, r, v, j) /\ v \in Threads \cup {NoThread}
<1>1. AllRightBut(c, prio, t) /\ c.counted \subseteq Threads
  BY SettlingBut DEF Links
<1>2. CASE t = NoThread /\ r = prio /\ v = t
  BY <1>1, <1>2, ButNobody, NullAssumption DEF Settling
<1>3. CASE (t \notin c.counted \/ Best(c, prio, t, prio[t])) /\ r = prio /\ v = NoThread
  <2>1. t \notin c.counted \/ Right(c, prio, t)
    BY <1>3, BestIsRight
  <2> QED
    BY <1>1, <1>3, <2>1, ButNobody DEF Settling
<1>4. ASSUME t \in c.counted, v = next[t], NEW e \in Int,
             Best(c, prio, t, e), e # prio[t], Takes(prio, t, e, r)
      PROVE  Settling(c, r, v, j) /\ v \in Threads \cup {NoThread}
  <2>1. /\ t \in Threads /\ v \in Threads \cup {NoThread} /\ prio[t] \in Int /\ c.base[t] \in Int
        /\ r[t] = e /\ \A u \in Threads \ {t} : r[u] = prio[u]
    BY <1>1, <1>4 DEF Links, Ranks, Takes
  <2>2. Due(c, prio, t, e)
    BY <1>4 DEF Best, Due
  <2>3. ASSUME AllRight(c, prio) PROVE Settling(c, r, v, j)
    BY <1>4, <2>3, LooseOne DEF Settling
  <2>4. ASSUME Right(c, prio, t) PROVE Settling(c, r, v, j)
    BY <1>1, <2>3, <2>4, ButNobody
  <2>5. ASSUME NEW B \in SUBSET Threads, t \in B, Cardinality(B) + i <= Cardinality(Threads),
               e < prio[t], Above(r, e) \subseteq B \ {t}
        PROVE  Settling(c, r, v, j)
    <3>1. Above(r, e) \subseteq Threads
      BY DEF Above
    <3>2. /\ Cardinality(Above(r, e)) \in Nat /\ Cardinality(B) \in Nat
          /\ Cardinality(Above(r, e)) + 1 <= Cardinality(B)
      BY <2>5, <3>1, Fewer
    <3>3. Cardinality(Threads) \in Nat
      BY FiniteAssumption, FS_CardinalityType
    <3>4. Cardinality(Above(r, e)) + j <= Cardinality(Threads)
      BY <2>5, <3>2, <3>3
    <3>5. AllRight(c, r) \/ (Rising(c, r, v, e) /\ Inherits(c, r, v, e))
      BY <1>1, <1>4, <2>1, <2>2, <2>5, RaiseOne
    <3> QED
      BY <3>4, <3>5 DEF Settling
  <2>6. ASSUME NEW B \in SUBSET Threads, t \in B, Cardinality(B) + i <= Cardinality(Threads),
               prio[t] < e, At(r, prio[t]) \subseteq B \ {t}
        PROVE  Settling(c, r, v, j)
    <3> DEFINE a == prio[t]
    <3>1. At(r, a) \subseteq Threads
      BY DEF At
    <3>2. /\ Cardinality(At(r, a)) \in Nat /\ Cardinality(B) \in Nat
          /\ Cardinality(At(r, a)) + 1 <= Cardinality(B)
      BY <2>6, <3>1, Fewer
    <3>3. Cardinality(Threads) \in Nat
      BY FiniteAssumption, FS_CardinalityType
    <3>4. Cardinality(At(r, a)) + j <= Cardinality(Threads)
      BY <2>6, <3>2, <3>3
    <3>5. AllRight(c, r) \/ Falling(c, r, v, a)
      BY <1>1, <1>4, <2>1, <2>6, LowerOne
    <3> QED
      BY <2>1, <3>4, <3>5 DEF Settling
  <2>7. CASE i = 0
    <3>1. Cardinality(Threads) + i <= Cardinality(Threads)
      BY <2>7, FiniteAssumption, FS_CardinalityType
    <3>2. CASE e < prio[t]
      <4>1. Above(r, e) \subseteq Threads \ {t}
        BY <1>4, <2>1 DEF Above
      <4> QED
        BY <2>1, <2>5, <3>1, <3>2, <4>1
    <3>3. CASE prio[t] < e
      <4>1. At(r, prio[t]) \subseteq Threads \ {t}
        BY <1>4, <2>1 DEF At
      <4> QED
        BY <2>1, <2>6, <3>1, <3>3, <4>1
    <3> QED
      BY <1>4, <2>1, <3>2, <3>3
  <2>8. ASSUME NEW b \in Int, Rising(c, prio, t, b), Inherits(c, prio, t, b),
               Cardinality(Above(prio, b)) + i <= Cardinality(Threads)
        PROVE  Settling(c, r, v, j)
    <3>1. \A u \in c.heirs[t] : prio[u] \in Int
      BY <2>1 DEF Links, Ranks
    <3>2. CASE prio[t] <= b
      <4>1. Enough(c, prio, t)
        BY <1>4, <2>1, <2>8, <3>1, <3>2 DEF Rising, Enough
      <4>2. Reason(c, prio, t)
        BY <1>4, <2>8, <3>2 DEF Rising
      <4> QED
        BY <2>4, <4>1, <4>2 DEF Right
    <3>3. CASE b < prio[t]
      <4>1. PICK u \in c.heirs[t] : prio[u] = b
        BY <1>4, <2>8 DEF Inherits
      <4>2. e <= b
        BY <1>4, <4>1 DEF Best
      <4>3. prio[t] <= c.base[t] /\ \A w \in c.heirs[t] : b <= prio[w]
        BY <1>4, <2>1, <2>8, <3>1, <3>3 DEF Rising
      <4>4. e = b
        <5>1. e = c.base[t] \/ \E w \in c.heirs[t] : e = prio[w]
          BY <1>4 DEF Best
        <5> QED
          BY <2>1, <3>1, <3>3, <4>2, <4>3, <5>1
      <4>5. Above(r, e) \subseteq Above(prio, b) \ {t} /\ t \in Above(prio, b)
        BY <2>1, <3>3, <4>4 DEF Above
      <4>6. Above(prio, b) \subseteq Threads
        BY DEF Above
      <4> QED
        BY <2>5, <2>8, <3>3, <4>4, <4>5, <4>6
    <3> QED
      BY <2>1, <3>2, <3>3
  <2>9. ASSUME NEW a \in Int, Falling(c, prio, t, a),
               Cardinality(At(prio, a)) + i <= Cardinality(Threads)
        PROVE  Settling(c, r, v, j)
    <3>1. Enough(c, prio, t) /\ (prio[t] = a \/ Reason(c, prio, t))
      BY <1>4, <2>9 DEF Falling
    <3>2. CASE Reason(c, prio, t)
      BY <2>4, <3>1, <3>2 DEF Right
    <3>3. CASE prio[t] = a
      <4>1. \A u \in c.heirs[t] : prio[u] \in Int
        BY <2>1 DEF Links, Ranks
      <4>2. prio[t] <= e
        BY <1>4, <3>1, <4>1 DEF Best, Enough
      <4>3. prio[t] < e
        BY <1>4, <2>1, <4>2
      <4>4. At(r, prio[t]) \subseteq At(prio, a) \ {t} /\ t \in At(prio, a)
        BY <1>4, <2>1, <3>3 DEF At
      <4>5. At(prio, a) \subseteq Threads
        BY DEF At
      <4> QED
        BY <2>6, <2>9, <3>3, <4>3, <4>4, <4>5
    <3> QED
      BY <3>1, <3>2, <3>3
  <2> QED
    BY <2>1, <2>3, <2>7, <2>8, <2>9 DEF Settling
<1> QED
  BY <1>2, <1>3, <1>4 DEF UpdateTurn

\* At the end of an update that starts from the one thread that may not be right,
\* everybody is.
LEMMA UpdateRight ==
  ASSUME NEW c, NEW next, Links(c, next), NEW p, NEW t,
         \A i \in 0 .. ChainBound : p[i] \in Ranks,
         t[0] \in Threads \cup {NoThread}, AllRightBut(c, p[0], t[0]),
         \A i \in 0 .. ChainBound - 1 : UpdateTurn(c, next, p[i], t[i], p[i + 1], t[i + 1])
  PROVE  AllRight(c, p[ChainBound])
<1> DEFINE N == ChainBound
           T == {i \in 0 .. N : Settling(c, p[i], t[i], i) /\ t[i] \in Threads \cup {NoThread}}
<1>1. N \in Nat /\ N = 2 * Cardinality(Threads) /\ Cardinality(Threads) \in Nat
  BY ChainBoundNat, FiniteAssumption, FS_CardinalityType DEF ChainBound
<1>2. 0 \in T
  BY <1>1 DEF Settling
<1>3. ASSUME NEW i \in 0 .. N - 1, i \in T PROVE i + 1 \in T
  <2>1. i \in Nat /\ i \in 0 .. N /\ i + 1 \in 0 .. N
    BY <1>1
  <2>2. Settling(c, p[i], t[i], i) /\ t[i] \in Threads \cup {NoThread}
    BY <1>3
  <2>3. p[i] \in Ranks /\ p[i + 1] \in Ranks
    BY <2>1
  <2>4. UpdateTurn(c, next, p[i], t[i], p[i + 1], t[i + 1])
    OBVIOUS
  <2>5. Settling(c, p[i + 1], t[i + 1], i + 1) /\ t[i + 1] \in Threads \cup {NoThread}
    <3> DEFINE a == p[i]
               r == p[i + 1]
               u == t[i]
               v == t[i + 1]
               j == i + 1
    <3>1. /\ i \in Nat /\ j = i + 1 /\ a \in Ranks /\ r \in Ranks
          /\ Settling(c, a, u, i) /\ u \in Threads \cup {NoThread} /\ UpdateTurn(c, next, a, u, r, v)
      BY <2>1, <2>2, <2>3, <2>4
    <3> HIDE DEF T, N, a, r, u, v, j
    <3>2. Settling(c, r, v, j) /\ v \in Threads \cup {NoThread}
      BY <3>1, TurnSettles
    <3> QED
      BY <3>2 DEF r, v, j
  <2> QED
    BY <2>1, <2>5
<1>4. N \in T
  <2> HIDE DEF T, N
  <2>1. 0 .. N \subseteq T
    BY <1>1, <1>2, <1>3, BoundedInduction
  <2> QED
    BY <1>1, <2>1
<1>5. Settling(c, p[N], t[N], N)
  BY <1>4
<1>6. Cardinality(Threads) # 0
  BY ThreadsAssumption, FiniteAssumption, FS_EmptySet
<1>7. \A b \in Int : Cardinality(Above(p[N], b)) \in Nat /\ Cardinality(At(p[N], b)) \in Nat
  BY FiniteAssumption, FS_Subset, FS_CardinalityType DEF Above, At
<1> HIDE DEF N, T
<1> QED
  BY <1>1, <1>5, <1>6, <1>7 DEF Settling, N

-----------------------------------------------------------------------------
(* A promotion: each thread that has worse than p takes p.                 *)

\* A promotion goes where inheritance goes.
Straight(c, next) ==
  \A t \in Threads : next[t] \in c.loose \cup {NoThread} \/ t \in c.heirs[next[t]]

PromoteTurn(c, next, p, prio, t, r, v) ==
  \/ t = NoThread /\ r = prio /\ v = t
  \/ (t \notin c.counted \/ prio[t] <= p) /\ r = prio /\ v = NoThread
  \/ t \in c.counted /\ p < prio[t] /\ Takes(prio, t, p, r) /\ v = next[t]

Passing(c, p, prio, t, i) ==
  \/ AllRight(c, prio) /\ t = NoThread
  \/ Rising(c, prio, t, p) /\ Cardinality(Above(prio, p)) + i <= Cardinality(Threads)

\* Once everybody is right, the thread after one that has p has no reason not to take it.
LEMMA StillRising ==
  ASSUME NEW c, NEW prio, NEW t, NEW v, NEW p, AllRight(c, prio), prio[t] = p,
         v \in c.loose \cup {NoThread} \/ t \in c.heirs[v], NoThread \notin c.counted
  PROVE  Rising(c, prio, v, p)
<1>1. v \in c.counted => Enough(c, prio, v) /\ Reason(c, prio, v)
  BY DEF AllRight, Right
<1>2. v \in c.counted => v \in c.loose \/ \E u \in c.heirs[v] : prio[u] = p
  OBVIOUS
<1> QED
  BY <1>1, <1>2, EverybodyBut DEF Rising, Enough

\* A turn of a promotion leads on, with one more chance used.
LEMMA TurnPasses ==
  ASSUME NEW c, NEW next, Links(c, next), Straight(c, next), NEW p \in Int, NEW prio \in Ranks,
         NEW t \in Threads \cup {NoThread}, NEW i \in Nat, NEW j, j = i + 1,
         Passing(c, p, prio, t, i), NEW r \in Ranks, NEW v, PromoteTurn(c, next, p, prio, t, r, v)
  PROVE  Passing(c, p, r, v, j) /\ v \in Threads \cup {NoThread}
<1>1. c.counted \subseteq Threads /\ NoThread \notin c.counted
  BY NullAssumption DEF Links
<1>2. CASE t \notin c.counted
  <2>1. AllRight(c, prio)
    BY <1>2, ButNobody DEF Passing, Rising
  <2> QED
    BY <1>2, <2>1 DEF PromoteTurn, Passing
<1>3. CASE t \in c.counted
  <2>1. t \in Threads /\ t # NoThread /\ prio[t] \in Int /\ c.base[t] \in Int
    BY <1>1, <1>3 DEF Links, Ranks
  <2>2. Rising(c, prio, t, p) /\ Cardinality(Above(prio, p)) + i <= Cardinality(Threads)
    BY <2>1 DEF Passing
  <2>3. \A u \in c.heirs[t] : prio[u] \in Int
    BY <2>1 DEF Links, Ranks
  <2>4. CASE prio[t] <= p /\ r = prio /\ v = NoThread
    <3>1. Enough(c, prio, t)
      BY <1>3, <2>1, <2>2, <2>3, <2>4 DEF Rising, Enough
    <3>2. Reason(c, prio, t)
      BY <1>3, <2>2, <2>4 DEF Rising
    <3>3. AllRight(c, prio)
      BY <2>2, <3>1, <3>2, ButNobody DEF Rising, Right
    <3> QED
      BY <2>4, <3>3 DEF Passing
  <2>5. CASE p < prio[t] /\ Takes(prio, t, p, r) /\ v = next[t]
    <3>1. v \in Threads \cup {NoThread} /\ r[t] = p /\ \A u \in Threads \ {t} : r[u] = prio[u]
      BY <2>1, <2>5 DEF Links, Takes
    <3>2. Due(c, prio, t, p)
      BY <1>3, <2>1, <2>2, <2>3, <2>5 DEF Due, Rising
    <3>3. AllRightBut(c, prio, t)
      BY <2>2 DEF Rising
    <3>4. AllRight(c, r) \/ Rising(c, r, v, p)
      BY <2>1, <2>5, <3>2, <3>3, RaiseOne
    <3>5. v \in c.loose \cup {NoThread} \/ t \in c.heirs[v]
      BY <2>1, <2>5 DEF Straight
    <3>6. Rising(c, r, v, p)
      BY <1>1, <3>1, <3>4, <3>5, StillRising
    <3>7. /\ Above(r, p) \in SUBSET Threads /\ Above(prio, p) \in SUBSET Threads
          /\ t \in Above(prio, p) /\ Above(r, p) \subseteq Above(prio, p) \ {t}
      BY <2>1, <2>5, <3>1 DEF Above
    <3>8. /\ Cardinality(Above(r, p)) \in Nat /\ Cardinality(Above(prio, p)) \in Nat
          /\ Cardinality(Above(r, p)) + 1 <= Cardinality(Above(prio, p))
      BY <3>7, Fewer
    <3>9. Cardinality(Threads) \in Nat
      BY FiniteAssumption, FS_CardinalityType
    <3>10. Cardinality(Above(r, p)) + j <= Cardinality(Threads)
      BY <2>2, <3>8, <3>9
    <3> QED
      BY <3>1, <3>6, <3>10 DEF Passing
  <2> QED
    BY <1>3, <2>1, <2>4, <2>5 DEF PromoteTurn
<1> QED
  BY <1>2, <1>3

\* At the end of a promotion everybody is right.
LEMMA PromoteRight ==
  ASSUME NEW c, NEW next, Links(c, next), Straight(c, next), NEW b \in Int, NEW p, NEW t,
         \A i \in 0 .. ChainBound : p[i] \in Ranks,
         t[0] \in Threads \cup {NoThread}, Rising(c, p[0], t[0], b),
         \A i \in 0 .. ChainBound - 1 : PromoteTurn(c, next, b, p[i], t[i], p[i + 1], t[i + 1])
  PROVE  AllRight(c, p[ChainBound])
<1> DEFINE N == ChainBound
           T == {i \in 0 .. N : Passing(c, b, p[i], t[i], i) /\ t[i] \in Threads \cup {NoThread}}
<1>1. N \in Nat /\ N = 2 * Cardinality(Threads) /\ Cardinality(Threads) \in Nat
  BY ChainBoundNat, FiniteAssumption, FS_CardinalityType DEF ChainBound
<1>2. \A q : Cardinality(Above(q, b)) \in Nat /\ Cardinality(Above(q, b)) <= Cardinality(Threads)
  BY FiniteAssumption, FS_Subset, FS_CardinalityType DEF Above
<1>3. 0 \in T
  <2>1. Cardinality(Above(p[0], b)) + 0 <= Cardinality(Threads)
    BY <1>1, <1>2
  <2> QED
    BY <1>1, <2>1 DEF Passing
<1>4. ASSUME NEW i \in 0 .. N - 1, i \in T PROVE i + 1 \in T
  <2>1. i \in Nat /\ i \in 0 .. N /\ i + 1 \in 0 .. N
    BY <1>1
  <2>2. Passing(c, b, p[i], t[i], i) /\ t[i] \in Threads \cup {NoThread}
    BY <1>4
  <2>3. p[i] \in Ranks /\ p[i + 1] \in Ranks
    BY <2>1
  <2>4. PromoteTurn(c, next, b, p[i], t[i], p[i + 1], t[i + 1])
    OBVIOUS
  <2>5. Passing(c, b, p[i + 1], t[i + 1], i + 1) /\ t[i + 1] \in Threads \cup {NoThread}
    <3> DEFINE a == p[i]
               r == p[i + 1]
               u == t[i]
               v == t[i + 1]
               j == i + 1
    <3>1. /\ i \in Nat /\ j = i + 1 /\ a \in Ranks /\ r \in Ranks
          /\ Passing(c, b, a, u, i) /\ u \in Threads \cup {NoThread}
          /\ PromoteTurn(c, next, b, a, u, r, v)
      BY <2>1, <2>2, <2>3, <2>4
    <3> HIDE DEF T, N, a, r, u, v, j
    <3>2. Passing(c, b, r, v, j) /\ v \in Threads \cup {NoThread}
      BY <3>1, TurnPasses
    <3> QED
      BY <3>2 DEF r, v, j
  <2> QED
    BY <2>1, <2>5
<1>5. N \in T
  <2> HIDE DEF T, N
  <2>1. 0 .. N \subseteq T
    BY <1>1, <1>3, <1>4, BoundedInduction
  <2> QED
    BY <1>1, <2>1
<1>6. Passing(c, b, p[N], t[N], N)
  BY <1>5
<1>7. Cardinality(Threads) # 0
  BY ThreadsAssumption, FiniteAssumption, FS_EmptySet
<1> HIDE DEF N, T
<1> QED
  BY <1>1, <1>2, <1>6, <1>7 DEF Passing, N

-----------------------------------------------------------------------------
(* The situation of the threads.                                           *)

\* The sleepers of the mutexes that t owns.
Heirs(s, own, t) == {u \in Threads : \E m \in ToSet(own[t]) : u \in ToSet(s.q[m])}

Counted(s) == {t \in Threads : s.state[t] \in Live /\ s.suspend[t] = 0}

Situation(s, own) ==
  [base |-> s.base, heirs |-> [t \in Threads |-> Heirs(s, own, t)], counted |-> Counted(s),
   loose |-> IF Conds = {} THEN {} ELSE {t \in Threads : own[t] # <<>>}]

\* Everybody has what it has a right to, unless the process has died.
Fair(s, own) == s.fault \/ AllRight(Situation(s, own), s.prio)

\* Who sleeps for a mutex says so, and who sleeps for neither a mutex nor a condition wants
\* none; a suspended sleeper has the lowest priority; and where nobody waits on a condition,
\* who wants a mutex sleeps for it.
SleepersKnown(s, want) ==
  \A w \in SleepQueues : \A t \in ToSet(s.q[w]) :
    /\ w \in Mutexes => want[t] = w
    /\ s.suspend[t] # 0 => s.prio[t] = Suspended
    /\ w \notin Mutexes \cup Conds => want[t] = NoMutex
    /\ Conds = {} /\ want[t] # NoMutex => w = want[t]

PriorityInv == ThreadInv /\ WantsAnothers /\ SleepersKnown(sched, waiting) /\ Fair(sched, owned)

\* The fields of a situation.
LEMMA SituationIs ==
  ASSUME NEW s, NEW own
  PROVE  LET c == Situation(s, own)
         IN /\ c.base = s.base /\ c.counted = Counted(s)
            /\ c.loose = IF Conds = {} THEN {} ELSE {t \in Threads : own[t] # <<>>}
            /\ \A t \in Threads : c.heirs[t] = Heirs(s, own, t)
BY DEF Situation

\* What the situation is about.
LEMMA SituationSame ==
  ASSUME NEW s, NEW r, NEW own, r.base = s.base, Counted(r) = Counted(s),
         \A t \in Threads : Heirs(r, own, t) = Heirs(s, own, t)
  PROVE  Situation(r, own) = Situation(s, own)
<1>1. [t \in Threads |-> Heirs(r, own, t)] = [t \in Threads |-> Heirs(s, own, t)]
  OBVIOUS
<1> QED
  BY <1>1 DEF Situation

\* Heirs depend on who sleeps, and not in which order.
LEMMA HeirsSame ==
  ASSUME NEW s, NEW r, NEW own, NEW t \in Threads,
         \A m \in ToSet(own[t]) : ToSet(r.q[m]) = ToSet(s.q[m])
  PROVE  Heirs(r, own, t) = Heirs(s, own, t)
BY DEF Heirs

\* Priorities are ranks.
LEMMA RanksOf == ASSUME NEW s \in SchedulerState PROVE s.prio \in Ranks /\ s.base \in Ranks
<1>1. Priorities \subseteq Int /\ Suspended \in Int
  BY Kinds
<1> QED
  BY <1>1, Fields DEF Ranks

\* port_OSGetEffectivePriority computes what a thread has a right to.
LEMMA EffectiveIsBest ==
  ASSUME NEW s, NEW off, Exact(s, off), NEW t \in Threads, NEW own,
         ToSet(own[t]) \subseteq SleepQueues
  PROVE  Best(Situation(s, own), s.prio, t, EffectivePriority(s, own, t))
<1> DEFINE M == {n \in ToSet(own[t]) : s.q[n] # <<>>}
           P == {s.base[t]} \cup {s.prio[Head(s.q[m])] : m \in M}
           e == EffectivePriority(s, own, t)
<1>1. s \in SchedulerState
  BY DEF Exact
<1>2. ASSUME NEW m \in M PROVE s.q[m] \in Lines(Threads) /\ s.q[m] # <<>> /\ Head(s.q[m]) \in ToSet(s.q[m])
  BY Kinds, HeadTailLine DEF Exact, ListsExact
<1>3. ASSUME NEW m \in M PROVE Head(s.q[m]) \in Threads
  BY <1>2, SeqFacts DEF Lines
<1>4. P \in SUBSET Nat /\ P # {}
  <2>1. \A u \in Threads : s.prio[u] \in Nat /\ s.base[u] \in Nat
    <3>1. s.prio \in [Threads -> Priorities \cup {Suspended}] /\ s.base \in [Threads -> Priorities]
      BY <1>1, Fields
    <3>2. Priorities \subseteq Nat /\ Suspended \in Nat
      BY Kinds
    <3> QED
      BY <3>1, <3>2
  <2> HIDE DEF M
  <2> QED
    BY <1>3, <2>1
<1>5. e \in P /\ \A y \in P : e <= y
  <2> HIDE DEF P
  <2>1. Min(P) \in P /\ \A y \in P : Min(P) <= y
    BY <1>4, MinIsLeast
  <2> QED
    BY <2>1 DEF EffectivePriority, P
<1>6. ASSUME NEW u \in Heirs(s, own, t) PROVE e <= s.prio[u]
  <2>1. PICK m \in ToSet(own[t]) : u \in ToSet(s.q[m])
    BY DEF Heirs
  <2>2. m \in SleepQueues /\ s.q[m] \in Lines(Threads)
    BY Kinds DEF Exact, ListsExact
  <2>3. m \in M
    BY <2>1, <2>2, SeqFacts DEF Lines
  <2>4. PICK j \in DOMAIN s.q[m] : s.q[m][j] = u
    BY <2>1 DEF ToSet
  <2>5. DOMAIN s.q[m] = 1 .. Len(s.q[m]) /\ Len(s.q[m]) \in Nat /\ Head(s.q[m]) = s.q[m][1]
    BY <2>2, <2>3, SeqFacts, HeadTailLine DEF Lines
  <2>6. s.prio[Head(s.q[m])] <= s.prio[u]
    <3>1. Head(s.q[m]) \in Threads /\ s.prio[Head(s.q[m])] \in Int
      BY <1>1, <1>3, <2>3, RanksOf DEF Ranks
    <3>2. CASE j = 1
      BY <2>4, <2>5, <3>1, <3>2
    <3>3. CASE j # 1
      <4>1. 1 \in DOMAIN s.q[m] /\ 1 < j
        BY <2>4, <2>5, <3>3
      <4> QED
        BY <2>2, <2>4, <2>5, <4>1 DEF Exact, SleepersInOrder, Sorted
    <3> QED
      BY <3>2, <3>3
  <2>7. s.prio[Head(s.q[m])] \in P
    BY <2>3
  <2>8. e <= s.prio[Head(s.q[m])]
    BY <1>5, <2>7
  <2>9. e \in Int /\ s.prio[Head(s.q[m])] \in Int /\ s.prio[u] \in Int
    BY <1>1, <1>3, <1>4, <1>5, <2>3, RanksOf DEF Ranks, Heirs
  <2> QED
    BY <2>6, <2>8, <2>9
<1>7. e <= s.base[t]
  BY <1>5
<1>8. e = s.base[t] \/ \E u \in Heirs(s, own, t) : e = s.prio[u]
  <2>1. CASE e = s.base[t]
    BY <2>1
  <2>2. ASSUME NEW m \in M, e = s.prio[Head(s.q[m])]
        PROVE  \E u \in Heirs(s, own, t) : e = s.prio[u]
    <3>1. Head(s.q[m]) \in Heirs(s, own, t)
      BY <1>2, <1>3, <2>2 DEF Heirs
    <3> QED
      BY <2>2, <3>1
  <2> HIDE DEF M
  <2> QED
    BY <1>5, <2>1, <2>2
<1> HIDE DEF e, P, M
<1>9. Situation(s, own).base = s.base /\ Situation(s, own).heirs[t] = Heirs(s, own, t)
  BY SituationIs
<1> QED
  BY <1>6, <1>7, <1>8, <1>9 DEF Best, e

-----------------------------------------------------------------------------
(* Walks.                                                                  *)

\* The heirs of t sleep for its mutexes, and for nobody else's.
LEMMA HeirOf ==
  ASSUME TypeOK, OwnersListed, NEW s, NEW off, Exact(s, off), SleepersKnown(s, waiting),
         NEW t \in Threads, NEW u \in Heirs(s, owned, t)
  PROVE  /\ u \in Threads /\ s.state[u] = "WAITING" /\ waiting[u] # NoMutex /\ owner[waiting[u]] = t
         /\ s.queue[u] = waiting[u]
<1>1. PICK m \in ToSet(owned[t]) : u \in ToSet(s.q[m])
  BY DEF Heirs
<1>2. m \in Mutexes /\ m \in SleepQueues
  BY MutexRelationsOK, SeqFacts DEF TypeOK
<1>3. u \in Threads /\ s.state[u] = "WAITING" /\ s.queue[u] = m
  BY <1>1, <1>2, QueueOf
<1>4. waiting[u] = m
  BY <1>1, <1>2 DEF SleepersKnown
<1>5. owner[m] = t
  BY <1>1, <1>2 DEF OwnersListed
<1> QED
  BY <1>2, <1>3, <1>4, <1>5, Nulls

Chain(s) == [t \in Threads |-> Blocker(s, MutexRelations, t)]

\* The thread a sleeper waits for.
LEMMA ChainIs ==
  ASSUME NEW s, NEW t \in Threads
  PROVE  Chain(s)[t] = IF s.state[t] = "WAITING" /\ waiting[t] # NoMutex THEN owner[waiting[t]] ELSE NoThread
BY DEF Chain, Blocker, MutexRelations, NoMutex

\* The walks of the program go where inheritance goes.
LEMMA LinksOf ==
  ASSUME TypeOK, OwnersListed, WantsAnothers, NEW s, NEW off, Exact(s, off),
         SleepersKnown(s, waiting)
  PROVE  Links(Situation(s, owned), Chain(s))
<1> DEFINE c == Situation(s, owned)
           next == Chain(s)
<1>1. /\ c.base = s.base /\ c.counted = Counted(s)
      /\ c.loose = IF Conds = {} THEN {} ELSE {t \in Threads : owned[t] # <<>>}
      /\ \A t \in Threads : c.heirs[t] = Heirs(s, owned, t)
  BY SituationIs
<1> HIDE DEF c
<1>2. c.base \in Ranks /\ c.counted \subseteq Threads /\ c.loose \subseteq Threads
  BY <1>1, RanksOf DEF Exact, Counted
<1>3. ASSUME NEW t \in Threads PROVE next[t] \in Threads \cup {NoThread} /\ next[t] # t
  BY <1>3, ChainIs, Nulls DEF TypeOK, WantsAnothers
<1>4. next \in [Threads -> Threads \cup {NoThread}]
  <2>1. next = [t \in Threads |-> next[t]]
    BY DEF Chain
  <2> HIDE DEF next
  <2> QED
    BY <1>3, <2>1
<1>5. ASSUME NEW t \in Threads, NEW u \in c.heirs[t] PROVE u \in Threads /\ next[u] = t
  <2>1. u \in Threads /\ s.state[u] = "WAITING" /\ waiting[u] # NoMutex /\ owner[waiting[u]] = t
    BY <1>1, <1>5, HeirOf
  <2> QED
    BY <2>1, ChainIs
<1>6. \A t \in Threads : c.heirs[t] \subseteq Threads /\ t \notin c.heirs[t] /\ next[t] # t
  BY <1>3, <1>5
<1>7. ASSUME c.loose # {}, NEW t \in Threads PROVE next[t] \in c.loose \cup {NoThread}
  <2>1. CASE next[t] = NoThread
    BY <2>1
  <2>2. CASE next[t] # NoThread
    <3>1. waiting[t] \in Mutexes /\ next[t] = owner[waiting[t]] /\ next[t] \in Threads
      BY <1>3, <1>7, <2>2, ChainIs DEF TypeOK
    <3>2. waiting[t] \in ToSet(owned[next[t]])
      BY <3>1 DEF OwnersListed
    <3>3. owned[next[t]] # <<>>
      BY <3>2, EmptyLine
    <3> QED
      BY <1>1, <1>7, <3>1, <3>3
  <2> QED
    BY <2>1, <2>2
<1> HIDE DEF next
<1> QED
  BY <1>2, <1>4, <1>5, <1>6, <1>7 DEF Links, c, next

\* A chain of owners leads from a sleeper to who inherits from it.
LEMMA StraightOf ==
  ASSUME TypeOK, OwnersListed, WantsAnothers, NEW s, Exact(s, {}), SleepersKnown(s, waiting)
  PROVE  Straight(Situation(s, owned), Chain(s))
<1> DEFINE c == Situation(s, owned)
           next == Chain(s)
<1>1. /\ c.loose = IF Conds = {} THEN {} ELSE {t \in Threads : owned[t] # <<>>}
      /\ \A t \in Threads : c.heirs[t] = Heirs(s, owned, t)
  BY SituationIs
<1> HIDE DEF c
<1>2. ASSUME NEW t \in Threads, next[t] # NoThread
      PROVE  next[t] \in c.loose \/ t \in c.heirs[next[t]]
  <2>1. /\ s.state[t] = "WAITING" /\ waiting[t] \in Mutexes /\ next[t] = owner[waiting[t]]
        /\ next[t] \in Threads
    BY <1>2, ChainIs DEF TypeOK
  <2>2. waiting[t] \in ToSet(owned[next[t]])
    BY <2>1 DEF OwnersListed
  <2>3. CASE Conds # {}
    <3>1. owned[next[t]] # <<>>
      BY <2>2, EmptyLine
    <3> QED
      BY <1>1, <2>1, <2>3, <3>1
  <2>4. CASE Conds = {}
    <3>1. s.queue[t] \in SleepQueues
      BY <2>1 DEF Exact, QueueFields
    <3>2. s.queue[t] \in Queues
      BY <3>1, Kinds
    <3>3. t \in ToSet(s.q[s.queue[t]])
      BY <2>1, <3>2 DEF Exact, ListsExact, OnQueue
    <3>4. s.queue[t] = waiting[t]
      BY <2>1, <2>4, <3>1, <3>3, Nulls DEF SleepersKnown
    <3>5. t \in Heirs(s, owned, next[t])
      BY <2>2, <3>3, <3>4 DEF Heirs
    <3> QED
      BY <1>1, <2>1, <3>5
  <2> QED
    BY <2>3, <2>4
<1> QED
  BY <1>2 DEF Straight, c

\* A process that has died stays dead.
LEMMA DeadBefore ==
  ASSUME NEW n \in Nat, NEW f, \A i \in 0 .. n - 1 : f[i] => f[i + 1], ~f[n]
  PROVE  \A i \in 0 .. n : ~f[i]
<1> DEFINE T == {k \in 0 .. n : ~f[n - k]}
<1>1. 0 \in T
  OBVIOUS
<1>2. ASSUME NEW k \in 0 .. n - 1, k \in T PROVE k + 1 \in T
  <2>1. ~f[n - k]
    BY <1>2
  <2>2. n - (k + 1) \in 0 .. n - 1 /\ (n - (k + 1)) + 1 = n - k
    OBVIOUS
  <2> QED
    BY <2>1, <2>2
<1>3. 0 .. n \subseteq T
  <2> HIDE DEF T
  <2> QED
    BY <1>1, <1>2, BoundedInduction
<1>4. ASSUME NEW i \in 0 .. n PROVE ~f[i]
  <2>1. n - i \in 0 .. n /\ n - (n - i) = i
    OBVIOUS
  <2> QED
    BY <1>3, <2>1
<1> QED
  BY <1>4

\* Every state on a walk is like the first.
LEMMA WalkStates ==
  ASSUME NEW s, NEW off, Exact(s, off), Lost(s, off), NEW t \in Threads,
         NEW mutexes, Relations(mutexes), NEW n \in Nat, NEW g,
         g[0] = [s |-> s, t |-> t],
         \A i \in 0 .. n - 1 : WalkStep(g[i], g[i + 1], mutexes, off), NEW i \in 0 .. n
  PROVE  /\ Exact(g[i].s, off) /\ SameThreads(s, g[i].s)
         /\ g[i].t \in Threads \cup {NoThread}
         /\ g[i].s \in SchedulerState /\ g[i].s.prio \in Ranks /\ g[i].s.fault \in BOOLEAN
<1>1. i \in Nat /\ \A j \in 0 .. i - 1 : j \in 0 .. n - 1
  OBVIOUS
<1>2. \A j \in 0 .. i - 1 : WalkStep(g[j], g[j + 1], mutexes, off)
  BY <1>1
<1>3. Exact(g[i].s, off) /\ SameThreads(s, g[i].s) /\ g[i].t \in Threads \cup {NoThread}
  BY <1>1, <1>2, WalkExact
<1> QED
  BY <1>3, RanksOf, Fields DEF Exact

\* A walk along a chain leaves the situation as it is.
LEMMA SameSituation ==
  ASSUME NEW s, NEW r, SameThreads(s, r), NEW own, \A t \in Threads : ToSet(own[t]) \subseteq SleepQueues
  PROVE  Situation(r, own) = Situation(s, own) /\ Counted(r) = Counted(s)
<1>1. Counted(r) = Counted(s) /\ r.base = s.base
  BY DEF SamePlaces, SameThreads, Counted
<1>2. ASSUME NEW t \in Threads PROVE Heirs(r, own, t) = Heirs(s, own, t)
  BY HeirsSame DEF SamePlaces, SameThreads
<1> QED
  BY <1>1, <1>2, SituationSame

\* Mutexes are queues of sleepers.
LEMMA OwnedQueues == ASSUME TypeOK PROVE \A t \in Threads : ToSet(owned[t]) \subseteq SleepQueues
BY MutexRelationsOK, SeqFacts DEF TypeOK

\* One turn of port_UpdatePriority is a turn of an update.
LEMMA UpdateLinkTurn ==
  ASSUME TypeOK, NEW s, NEW l, NEW off, Exact(l.s, off), SameThreads(s, l.s),
         l.t \in Threads \cup {NoThread}, NEW k, k = UpdateLink(l, MutexRelations), ~l.s.fault
  PROVE  /\ k.s.fault \/ UpdateTurn(Situation(s, owned), Chain(s), l.s.prio, l.t, k.s.prio, k.t)
<1> DEFINE a == l.s
           u == l.t
           c == Situation(s, owned)
           e == EffectivePriority(a, owned, u)
<1>1. k = IF u = NoThread THEN l
          ELSE IF a.fault \/ a.suspend[u] > 0 \/ e = a.prio[u]
          THEN [s |-> a, t |-> NoThread]
          ELSE [s |-> SetEffectivePriority(a, u, e), t |-> Blocker(a, MutexRelations, u)]
  BY DEF UpdateLink, MutexRelations
<1>2. c = Situation(a, owned) /\ c.counted = Counted(a) /\ NoThread \notin c.counted
  <2>1. SameThreads(s, a) /\ \A t \in Threads : ToSet(owned[t]) \subseteq SleepQueues
    BY OwnedQueues
  <2> HIDE DEF a, u, e
  <2>2. c = Situation(a, owned) /\ Counted(a) = Counted(s)
    BY <2>1, SameSituation
  <2>3. c.counted = Counted(s)
    BY SituationIs
  <2> QED
    BY <2>2, <2>3, Nulls DEF Counted
<1>3. u \in Threads => Best(c, a.prio, u, e) /\ e \in Int
  <2>1. u \in Threads => Best(c, a.prio, u, e)
    BY <1>2, OwnedQueues, EffectiveIsBest
  <2>2. u \in Threads => e \in Priorities
    BY OwnedQueues, EffectiveIsReal
  <2>3. Priorities \subseteq Int
    BY Kinds
  <2> QED
    BY <2>1, <2>2, <2>3
<1>4. a \in SchedulerState /\ (u \in Threads => a.suspend[u] \in Nat)
  BY Fields DEF Exact
<1> HIDE DEF e, c
<1>5. CASE u = NoThread
  BY <1>1, <1>5 DEF UpdateTurn, c
<1>6. CASE u \in Threads /\ (a.suspend[u] > 0 \/ e = a.prio[u])
  <2>1. k.s = a /\ k.t = NoThread
    BY <1>1, <1>6, Nulls
  <2>2. u \notin c.counted \/ Best(c, a.prio, u, a.prio[u])
    BY <1>2, <1>3, <1>6 DEF Counted
  <2> QED
    BY <2>1, <2>2 DEF UpdateTurn, c
<1>7. CASE u \in Threads /\ ~(a.suspend[u] > 0) /\ e # a.prio[u]
  <2>1. k.s = SetEffectivePriority(a, u, e) /\ k.t = Blocker(a, MutexRelations, u)
    BY <1>1, <1>7, Nulls
  <2>2. a.suspend[u] = 0 /\ a.state = s.state
    BY <1>4, <1>7 DEF SamePlaces, SameThreads
  <2>3. k.t = Chain(s)[u]
    BY <1>7, <2>1, <2>2, ChainIs DEF Blocker, MutexRelations, NoMutex
  <2>4. CASE a.state[u] \in Live
    <3>1. k.s.fault \/ Takes(a.prio, u, e, k.s.prio)
      BY <1>4, <1>7, <2>1, <2>4, SetEffectivePrio DEF Takes
    <3>2. u \in c.counted
      BY <1>2, <1>7, <2>2, <2>4 DEF Counted
    <3> QED
      BY <1>3, <1>7, <2>3, <3>1, <3>2 DEF UpdateTurn, c
  <2>5. CASE a.state[u] \notin Live
    <3>1. k.s = a
      BY <1>4, <1>7, <2>1, <2>5, SetEffectivePrio
    <3>2. u \notin c.counted
      BY <1>2, <2>5 DEF Counted
    <3>3. k.t = NoThread
      BY <1>7, <2>1, <2>5 DEF Blocker, Live
    <3> QED
      BY <3>1, <3>2, <3>3 DEF UpdateTurn, c
  <2> QED
    BY <2>4, <2>5
<1> QED
  BY <1>5, <1>6, <1>7

\* Updating a thread makes everybody right, if only that thread may not be.
LEMMA UpdateFair ==
  ASSUME TypeOK, OwnersListed, WantsAnothers, NEW s, NEW off, Exact(s, off), Lost(s, off),
         SleepersKnown(s, waiting), NEW t \in Threads \cup {NoThread},
         AllRightBut(Situation(s, owned), s.prio, t)
  PROVE  Fair(UpdatePriority(s, MutexRelations, t), owned)
<1> DEFINE N == ChainBound
           r == UpdatePriority(s, MutexRelations, t)
           c == Situation(s, owned)
<1>1. CASE t = NoThread
  <2>1. r.fault = TRUE
    BY <1>1, Fields DEF UpdatePriority, Exact, SchedulerState
  <2> QED
    BY <2>1 DEF Fair
<1>2. CASE t # NoThread
  <2>1. PICK g : /\ g[0] = [s |-> s, t |-> t] /\ r = g[N].s
                 /\ \A i \in 0 .. N - 1 : g[i + 1] = UpdateLink(g[i], MutexRelations)
    BY <1>2, UpdateWalk
  <2>2. N \in Nat /\ Relations(MutexRelations) /\ t \in Threads
    BY <1>2, ChainBoundNat, MutexRelationsOK
  <2> DEFINE p == [i \in 0 .. N |-> g[i].s.prio]
             at == [i \in 0 .. N |-> g[i].t]
             f == [i \in 0 .. N |-> g[i].s.fault]
  <2> HIDE DEF N, r, c
  <2>3. \A i \in 0 .. N - 1 : WalkStep(g[i], g[i + 1], MutexRelations, off)
    BY <2>1, <2>2, UpdateStep
  <2>4. ASSUME NEW i \in 0 .. N
        PROVE  /\ Exact(g[i].s, off) /\ SameThreads(s, g[i].s)
               /\ g[i].t \in Threads \cup {NoThread}
               /\ g[i].s \in SchedulerState /\ g[i].s.prio \in Ranks /\ g[i].s.fault \in BOOLEAN
    BY <2>1, <2>2, <2>3, WalkStates
  <2>5. CASE r.fault
    BY <2>5 DEF Fair, r
  <2>6. CASE ~r.fault
    <3>1. \A i \in 0 .. N - 1 : i \in 0 .. N /\ i + 1 \in 0 .. N
      BY <2>2
    <3>2. ASSUME NEW i \in 0 .. N - 1 PROVE g[i].s.fault => g[i + 1].s.fault
      <4>1. i \in 0 .. N /\ g[i + 1] = UpdateLink(g[i], MutexRelations)
        BY <2>1, <3>1
      <4>2. g[i].s.fault => g[i + 1].s = g[i].s
        BY <4>1 DEF UpdateLink
      <4> QED
        BY <4>2
    <3>3. ASSUME NEW i \in 0 .. N PROVE ~g[i].s.fault
      <4>1. \A j \in 0 .. N - 1 : f[j] => f[j + 1]
        BY <3>1, <3>2
      <4>2. ~f[N]
        BY <2>1, <2>2, <2>6
      <4>3. f[i] = g[i].s.fault
        OBVIOUS
      <4> HIDE DEF f
      <4> QED
        BY <2>2, <4>1, <4>2, <4>3, DeadBefore
    <3>4. ASSUME NEW i \in 0 .. N - 1
          PROVE  UpdateTurn(c, Chain(s), p[i], at[i], p[i + 1], at[i + 1])
      <4> DEFINE l == g[i]
                 k == g[i + 1]
      <4>1. i \in 0 .. N /\ i + 1 \in 0 .. N /\ k = UpdateLink(l, MutexRelations)
        BY <2>1, <3>1
      <4>2. /\ Exact(l.s, off) /\ SameThreads(s, l.s) /\ l.t \in Threads \cup {NoThread}
            /\ ~l.s.fault /\ ~k.s.fault
        BY <2>4, <3>3, <4>1
      <4>3. p[i] = l.s.prio /\ p[i + 1] = k.s.prio /\ at[i] = l.t /\ at[i + 1] = k.t
        BY <4>1
      <4> HIDE DEF l, k, p, at
      <4>4. UpdateTurn(c, Chain(s), l.s.prio, l.t, k.s.prio, k.t)
        BY <4>1, <4>2, UpdateLinkTurn DEF c
      <4> QED
        BY <4>3, <4>4
    <3>5. \A i \in 0 .. N : p[i] \in Ranks
      BY <2>4
    <3>6. p[0] = s.prio /\ at[0] = t /\ p[N] = r.prio
      BY <2>1, <2>2
    <3>7. Links(c, Chain(s))
      BY LinksOf DEF c
    <3>8. AllRight(c, r.prio)
      <4>1. AllRightBut(c, p[0], at[0]) /\ at[0] \in Threads \cup {NoThread}
        BY <2>2, <3>6 DEF c
      <4> HIDE DEF p, at
      <4>2. AllRight(c, p[N])
        BY <3>4, <3>5, <3>7, <4>1, UpdateRight DEF N
      <4> QED
        BY <3>6, <4>2
    <3>9. SameThreads(s, r)
      BY <2>1, <2>2, <2>4
    <3>10. Situation(r, owned) = c
      BY <3>9, OwnedQueues, SameSituation DEF c
    <3> QED
      BY <3>8, <3>10 DEF Fair, r
  <2> QED
    BY <2>5, <2>6
<1> QED
  BY <1>1, <1>2

\* The owner a sleeper depends on is told, and everybody is right.
LEMMA NotifyFair ==
  ASSUME TypeOK, OwnersListed, WantsAnothers, NEW s, NEW off, Exact(s, off), Lost(s, off),
         SleepersKnown(s, waiting), NEW t \in Threads,
         NEW u, u = IF waiting[t] = NoMutex THEN NoThread ELSE owner[waiting[t]],
         AllRightBut(Situation(s, owned), s.prio, u)
  PROVE  Fair(NotifyOwner(s, t), owned)
<1>1. CASE waiting[t] = NoMutex
  <2>1. u \notin Situation(s, owned).counted
    <3>1. Situation(s, owned).counted = Counted(s)
      BY SituationIs
    <3>2. u \notin Counted(s)
      BY <1>1, Nulls DEF Counted
    <3> QED
      BY <3>1, <3>2
  <2>2. AllRight(Situation(s, owned), s.prio)
    BY <2>1, ButNobody
  <2> QED
    BY <1>1, <2>2 DEF NotifyOwner, Fair
<1>2. CASE waiting[t] # NoMutex
  <2>1. u = owner[waiting[t]] /\ u \in Threads \cup {NoThread}
    BY <1>2 DEF TypeOK
  <2>2. NotifyOwner(s, t) = UpdatePriority(s, MutexRelations, u)
    BY <1>2, <2>1 DEF NotifyOwner
  <2> QED
    BY <2>1, <2>2, UpdateFair
<1> QED
  BY <1>1, <1>2

\* next is what the walk follows, but for x.
Follows(next, s, mutexes, x) == \A u \in Threads \ {x} : next[u] = Blocker(s, mutexes, u)

\* A walk that started in s to pass on x's priority p is at l.
Carries(s, l, p, mutexes, x, c, next) ==
  /\ Exact(l.s, {}) /\ SameThreads(s, l.s) /\ l.t \in Threads \cup {NoThread}
  /\ p \in Priorities /\ x \in Threads /\ l.s.prio[x] = p
  /\ c.counted = Counted(s) /\ Follows(next, s, mutexes, x)

\* One turn of port_PromoteThread, on behalf of thread x of priority p, is a turn of a
\* promotion.
LEMMA PromoteLinkTurn ==
  ASSUME NEW s, NEW l, NEW p, NEW mutexes, NEW x, NEW c, NEW next,
         Carries(s, l, p, mutexes, x, c, next), NEW k, k = PromoteLink(l, mutexes, p)
  PROVE  /\ k.s.prio[x] = p /\ (l.s.fault => k.s.fault)
         /\ l.s.fault \/ k.s.fault \/ PromoteTurn(c, next, p, l.s.prio, l.t, k.s.prio, k.t)
<1> DEFINE a == l.s
           u == l.t
           W == IF a.prio[u] <= p THEN a.prio[u] ELSE p
<1> USE DEF Carries
<1>1. k = IF u = NoThread THEN l
          ELSE IF a.fault \/ a.suspend[u] > 0 \/ W = a.prio[u]
          THEN [s |-> a, t |-> NoThread]
          ELSE [s |-> SetEffectivePriority(a, u, W), t |-> Blocker(a, mutexes, u)]
  BY DEF PromoteLink
<1>2. a \in SchedulerState /\ a.state = s.state /\ Counted(s) = Counted(a)
  BY DEF Exact, SamePlaces, SameThreads, Counted
<1>3. u \in Threads => a.suspend[u] \in Nat /\ a.prio[u] \in Int /\ p \in Int
  BY <1>2, RanksOf, Fields, Kinds DEF Ranks
<1>4. CASE u = NoThread
  BY <1>1, <1>4 DEF PromoteTurn
<1>5. CASE u \in Threads /\ (a.fault \/ a.suspend[u] > 0 \/ W = a.prio[u])
  <2>1. k.s = a /\ k.t = NoThread
    BY <1>1, <1>5, Nulls
  <2>2. a.fault \/ u \notin c.counted \/ a.prio[u] <= p
    BY <1>2, <1>3, <1>5 DEF Counted
  <2> QED
    BY <2>1, <2>2 DEF PromoteTurn
<1>6. CASE u \in Threads /\ ~a.fault /\ ~(a.suspend[u] > 0) /\ W # a.prio[u]
  <2>1. W = p /\ p < a.prio[u] /\ u # x /\ a.suspend[u] = 0
    BY <1>3, <1>6
  <2>2. k.s = SetEffectivePriority(a, u, p) /\ k.t = Blocker(a, mutexes, u)
    BY <1>1, <1>6, <2>1, Nulls
  <2>3. k.t = next[u]
    BY <1>2, <1>6, <2>1, <2>2 DEF Blocker, Follows
  <2>4. k.s.prio[x] = p
    BY <1>2, <1>6, <2>1, <2>2, SetEffectivePrio
  <2>5. CASE a.state[u] \in Live
    <3>1. k.s.fault \/ Takes(a.prio, u, p, k.s.prio)
      BY <1>2, <1>6, <2>2, <2>5, SetEffectivePrio DEF Takes
    <3>2. u \in c.counted
      BY <1>2, <1>6, <2>1, <2>5 DEF Counted
    <3> QED
      BY <1>6, <2>1, <2>3, <2>4, <3>1, <3>2 DEF PromoteTurn
  <2>6. CASE a.state[u] \notin Live
    <3>1. k.s = a
      BY <1>2, <1>6, <2>2, <2>6, SetEffectivePrio
    <3>2. u \notin c.counted
      BY <1>2, <2>6 DEF Counted
    <3>3. k.t = NoThread
      BY <1>6, <2>2, <2>6 DEF Blocker, Live
    <3> QED
      BY <1>6, <2>4, <3>1, <3>2, <3>3 DEF PromoteTurn
  <2> QED
    BY <2>5, <2>6
<1> QED
  BY <1>4, <1>5, <1>6

\* A promotion on behalf of x makes everybody right who is so but for x.
LEMMA PromoteFair ==
  ASSUME NEW s, Exact(s, {}), NEW t \in Threads, NEW x \in Threads, NEW p \in Priorities,
         s.prio[x] = p, NEW mutexes, Relations(mutexes),
         NEW c, c.counted = Counted(s), NEW next, Links(c, next), Straight(c, next),
         Follows(next, s, mutexes, x), Rising(c, s.prio, t, p),
         NEW r, r = PromoteThread(s, mutexes, t, p)
  PROVE  r.fault \/ AllRight(c, r.prio)
<1> DEFINE N == ChainBound
<1>0. PromoteWalks(s, mutexes, t, p)
  BY PromoteWalk
<1>1. PICK g : /\ g[0] = [s |-> s, t |-> t] /\ r = g[N].s
               /\ \A i \in 0 .. N - 1 : g[i + 1] = PromoteLink(g[i], mutexes, p)
  BY <1>0 DEF PromoteWalks
<1>2. N \in Nat /\ p \in Int
  BY ChainBoundNat, Kinds
<1> DEFINE q == [i \in 0 .. N |-> g[i].s.prio]
           at == [i \in 0 .. N |-> g[i].t]
           f == [i \in 0 .. N |-> g[i].s.fault]
           T == {i \in 0 .. N : g[i].s.prio[x] = p}
<1> HIDE DEF N
<1>3. \A i \in 0 .. N - 1 : WalkStep(g[i], g[i + 1], mutexes, {})
  BY <1>1, PromoteStep
<1>4. ASSUME NEW i \in 0 .. N
      PROVE  /\ Exact(g[i].s, {}) /\ SameThreads(s, g[i].s)
             /\ g[i].t \in Threads \cup {NoThread}
             /\ g[i].s \in SchedulerState /\ g[i].s.prio \in Ranks /\ g[i].s.fault \in BOOLEAN
  BY <1>1, <1>2, <1>3, NothingLost, WalkStates
<1>5. \A i \in 0 .. N - 1 : i \in 0 .. N /\ i + 1 \in 0 .. N
  BY <1>2
<1>6. ASSUME NEW i \in 0 .. N - 1, g[i].s.prio[x] = p
      PROVE  /\ g[i + 1].s.prio[x] = p /\ (g[i].s.fault => g[i + 1].s.fault)
             /\ \/ g[i].s.fault \/ g[i + 1].s.fault
                \/ PromoteTurn(c, next, p, g[i].s.prio, g[i].t, g[i + 1].s.prio, g[i + 1].t)
  <2> DEFINE l == g[i]
             k == g[i + 1]
  <2>1. k = PromoteLink(l, mutexes, p) /\ l.s.prio[x] = p
    BY <1>1, <1>6
  <2>2. Exact(l.s, {}) /\ SameThreads(s, l.s) /\ l.t \in Threads \cup {NoThread}
    BY <1>4, <1>5
  <2> HIDE DEF l, k
  <2>3. Carries(s, l, p, mutexes, x, c, next)
    BY <2>1, <2>2 DEF Carries
  <2>4. /\ k.s.prio[x] = p /\ (l.s.fault => k.s.fault)
        /\ l.s.fault \/ k.s.fault \/ PromoteTurn(c, next, p, l.s.prio, l.t, k.s.prio, k.t)
    BY <2>1, <2>3, PromoteLinkTurn
  <2> QED
    BY <2>4 DEF l, k
<1>7. 0 .. N \subseteq T
  <2>1. 0 \in T
    BY <1>1, <1>2
  <2>2. \A i \in 0 .. N - 1 : i \in T => i + 1 \in T
    BY <1>5, <1>6
  <2> HIDE DEF T
  <2> QED
    BY <1>2, <2>1, <2>2, BoundedInduction
<1>8. SUFFICES ASSUME ~r.fault PROVE AllRight(c, r.prio)
  OBVIOUS
<1>9. ASSUME NEW i \in 0 .. N PROVE ~g[i].s.fault
  <2>1. \A j \in 0 .. N - 1 : f[j] => f[j + 1]
    BY <1>5, <1>6, <1>7
  <2>2. ~f[N]
    BY <1>1, <1>2, <1>8
  <2>3. f[i] = g[i].s.fault
    OBVIOUS
  <2> HIDE DEF f
  <2> QED
    BY <1>2, <2>1, <2>2, <2>3, DeadBefore
<1>10. ASSUME NEW i \in 0 .. N - 1
       PROVE  PromoteTurn(c, next, p, q[i], at[i], q[i + 1], at[i + 1])
  <2>1. i \in 0 .. N /\ i + 1 \in 0 .. N
    BY <1>5
  <2>2. q[i] = g[i].s.prio /\ q[i + 1] = g[i + 1].s.prio /\ at[i] = g[i].t /\ at[i + 1] = g[i + 1].t
    BY <2>1
  <2>3. g[i].s.prio[x] = p /\ ~g[i].s.fault /\ ~g[i + 1].s.fault
    BY <1>7, <1>9, <2>1
  <2> HIDE DEF q, at
  <2> QED
    BY <1>6, <2>2, <2>3
<1>11. \A i \in 0 .. N : q[i] \in Ranks
  BY <1>4
<1>12. q[0] = s.prio /\ at[0] = t /\ q[N] = r.prio
  BY <1>1, <1>2
<1> HIDE DEF q, at
<1>13. Rising(c, q[0], at[0], p) /\ at[0] \in Threads \cup {NoThread}
  BY <1>12
<1>14. AllRight(c, q[N])
  BY <1>2, <1>10, <1>11, <1>13, PromoteRight DEF N
<1> QED
  BY <1>12, <1>14

-----------------------------------------------------------------------------
(* Steps.  What they leave alone stays right.                              *)

\* For thread u, nothing it has a right to differs between s and r.
Alike(s, own, r, has, u) ==
  /\ u \in Counted(s) /\ r.base[u] = s.base[u] /\ r.prio[u] = s.prio[u]
  /\ Heirs(r, has, u) = Heirs(s, own, u) /\ \A v \in Heirs(s, own, u) : r.prio[v] = s.prio[v]
  /\ own[u] # <<>> => has[u] # <<>>

\* Who is right stays right where nothing about it changes for the worse.
LEMMA AlikeRight ==
  ASSUME NEW s, NEW own, NEW r, NEW has, NEW u \in Threads, Alike(s, own, r, has, u),
         Right(Situation(s, own), s.prio, u)
  PROVE  Right(Situation(r, has), r.prio, u)
<1> DEFINE c == Situation(s, own)
           d == Situation(r, has)
<1>1. c.base = s.base /\ c.heirs[u] = Heirs(s, own, u) /\ d.base = r.base /\ d.heirs[u] = Heirs(r, has, u)
  BY SituationIs
<1>2. u \in c.loose => u \in d.loose
  <2>1. c.loose = (IF Conds = {} THEN {} ELSE {t \in Threads : own[t] # <<>>})
    BY SituationIs
  <2>2. d.loose = (IF Conds = {} THEN {} ELSE {t \in Threads : has[t] # <<>>})
    BY SituationIs
  <2> HIDE DEF c, d
  <2> QED
    BY <2>1, <2>2 DEF Alike
<1> HIDE DEF c, d
<1>3. Enough(c, s.prio, u) /\ Reason(c, s.prio, u)
  BY DEF Right, c
<1>4. Enough(d, r.prio, u)
  BY <1>1, <1>3 DEF Enough, Alike
<1>5. Reason(d, r.prio, u)
  BY <1>1, <1>2, <1>3 DEF Reason, Alike
<1> QED
  BY <1>4, <1>5 DEF Right, d

\* Everybody but y is right, if each of them was and nothing of it differs, or is right anew.
LEMMA AlikeBut ==
  ASSUME NEW s, NEW own, NEW x, AllRightBut(Situation(s, own), s.prio, x), NEW r, NEW has, NEW y,
         \A u \in Counted(r) \ {y} :
           (u # x /\ Alike(s, own, r, has, u)) \/ Right(Situation(r, has), r.prio, u)
  PROVE  AllRightBut(Situation(r, has), r.prio, y)
<1>1. Situation(s, own).counted = Counted(s)
  BY SituationIs
<1>2. Situation(r, has).counted = Counted(r)
  BY SituationIs
<1>3. ASSUME NEW u \in Counted(r) \ {y} PROVE Right(Situation(r, has), r.prio, u)
  <2>1. CASE u # x /\ Alike(s, own, r, has, u)
    <3>1. u \in Threads /\ u \in Counted(s)
      BY <2>1 DEF Alike, Counted
    <3>2. Right(Situation(s, own), s.prio, u)
      BY <1>1, <2>1, <3>1 DEF AllRightBut
    <3> QED
      BY <2>1, <3>1, <3>2, AlikeRight
  <2> QED
    BY <1>3, <2>1
<1> QED
  BY <1>2, <1>3 DEF AllRightBut

\* The same of all who count.
LEMMA AlikeFair ==
  ASSUME NEW s, NEW own, Fair(s, own), NEW r, NEW has, s.fault => r.fault,
         \A u \in Counted(r) : Alike(s, own, r, has, u)
  PROVE  Fair(r, has)
<1>1. CASE s.fault
  BY <1>1 DEF Fair
<1>2. CASE ~s.fault
  <2>1. AllRightBut(Situation(s, own), s.prio, NoThread)
    BY <1>2, EverybodyBut DEF Fair
  <2>2. \A u \in Counted(r) \ {NoThread} : u # NoThread /\ Alike(s, own, r, has, u)
    OBVIOUS
  <2>3. AllRightBut(Situation(r, has), r.prio, NoThread)
    BY <2>1, <2>2, AlikeBut
  <2>4. NoThread \notin Situation(r, has).counted
    <3>1. Situation(r, has).counted = Counted(r)
      BY SituationIs
    <3> QED
      BY <3>1, Nulls DEF Counted
  <2> QED
    BY <2>3, <2>4, ButNobody DEF Fair
<1> QED
  BY <1>1, <1>2

\* So does what moves only runnable threads, or wakes the sleepers of a queue nobody owns.
LEMMA SteadyFair ==
  ASSUME NEW s, NEW own, Fair(s, own), NEW r, SameRanks(s, r),
         \A u \in Threads : r.state[u] \in Live => s.state[u] \in Live,
         \A u \in Threads : \A m \in ToSet(own[u]) : ToSet(r.q[m]) = ToSet(s.q[m])
  PROVE  Fair(r, own)
<1>1. ASSUME NEW u \in Counted(r) PROVE Alike(s, own, r, own, u)
  <2>1. u \in Threads /\ u \in Counted(s)
    BY DEF Counted, SameRanks
  <2>2. Heirs(r, own, u) = Heirs(s, own, u)
    BY <2>1, HeirsSame
  <2> QED
    BY <2>1, <2>2 DEF Alike, SameRanks
<1> QED
  BY <1>1, AlikeFair DEF SameRanks

\* Sleepers that stay asleep, with the priority they had if they are suspended.
LEMMA SleepersStay ==
  ASSUME NEW s, NEW want, SleepersKnown(s, want), NEW r, r.suspend = s.suspend, SuspendedKeep(s, r),
         s \in SchedulerState,
         \A w \in SleepQueues : ToSet(r.q[w]) \subseteq ToSet(s.q[w])
  PROVE  SleepersKnown(r, want)
<1> SUFFICES ASSUME NEW w \in SleepQueues, NEW t \in ToSet(r.q[w])
             PROVE  /\ w \in Mutexes => want[t] = w
                    /\ r.suspend[t] # 0 => r.prio[t] = Suspended
                    /\ w \notin Mutexes \cup Conds => want[t] = NoMutex
                    /\ Conds = {} /\ want[t] # NoMutex => w = want[t]
  BY DEF SleepersKnown
<1>1. t \in ToSet(s.q[w])
  OBVIOUS
<1>2. t \in Threads
  <2>1. s.q[w] \in Seq(Threads)
    BY Kinds, Fields
  <2> QED
    BY <1>1, <2>1, SeqFacts
<1> QED
  BY <1>1, <1>2 DEF SleepersKnown, SuspendedKeep

Good(s, own, want) == SleepersKnown(s, want) /\ Fair(s, own)

\* A dispatch keeps priorities good.
LEMMA SteadyGood ==
  ASSUME NEW s \in SchedulerState, NEW own, NEW want, Good(s, own, want), NEW r, Keeps(s, r), Steady(s, r),
         \A t \in Threads : ToSet(own[t]) \subseteq SleepQueues
  PROVE  Good(r, own, want)
<1>1. /\ SameRanks(s, r) /\ r.suspend = s.suspend /\ SuspendedKeep(s, r)
      /\ \A w \in SleepQueues : ToSet(r.q[w]) = ToSet(s.q[w])
  BY DEF Steady, SameRanks, SuspendedKeep
<1>2. SleepersKnown(r, want)
  BY <1>1, SleepersStay DEF Good
<1>3. Fair(r, own)
  BY <1>1, SteadyFair DEF Keeps, Good
<1> QED
  BY <1>2, <1>3 DEF Good

\* Who a sleeper's priority is passed on to.
Told(t) == IF waiting[t] = NoMutex THEN NoThread ELSE owner[waiting[t]]

\* The parts of the invariant that the lemmas on lists and walks ask for.
LEMMA InvParts ==
  ASSUME PriorityInv
  PROVE  /\ Exact(sched, {}) /\ sched \in SchedulerState /\ TypeOK /\ OwnersListed /\ WantsAnothers
         /\ SleepersKnown(sched, waiting) /\ Fair(sched, owned)
         /\ \A t \in Threads : ToSet(owned[t]) \subseteq SleepQueues
BY OwnedQueues DEF PriorityInv, ThreadInv, ListsInv, Exact

\* t is an heir of nobody but the one that is told.
LEMMA HeirToldOf ==
  ASSUME PriorityInv, NEW u \in Threads, NEW t \in Heirs(sched, owned, u)
  PROVE  t \in Threads /\ u = Told(t) /\ u # t /\ sched.state[t] = "WAITING"
<1>1. /\ t \in Threads /\ sched.state[t] = "WAITING" /\ waiting[t] # NoMutex /\ owner[waiting[t]] = u
  BY InvParts, HeirOf
<1> QED
  BY <1>1, InvParts DEF Told, WantsAnothers

\* A thread gets another suspend count and priority: what it has is right, or nobody asks.
LEMMA RecastRight ==
  ASSUME PriorityInv, ~sched.fault, NEW t \in Threads, NEW n, NEW p,
         NEW b, Exact(b, {}), Recast(sched, b, t, n, p), NEW told \in BOOLEAN,
         n = 0 => \/ sched.suspend[t] = 0 /\ p = sched.prio[t]
                  \/ p = EffectivePriority(sched, owned, t),
         ~told => p = sched.prio[t] \/ sched.state[t] # "WAITING"
  PROVE  AllRightBut(Situation(b, owned), b.prio, IF told THEN Told(t) ELSE NoThread)
<1> DEFINE x == IF told THEN Told(t) ELSE NoThread
<1>1. AllRightBut(Situation(sched, owned), sched.prio, NoThread)
  BY InvParts, EverybodyBut DEF Fair
<1>2. ASSUME NEW u \in Threads PROVE Heirs(b, owned, u) = Heirs(sched, owned, u)
  <2>1. \A m \in ToSet(owned[u]) : ToSet(b.q[m]) = ToSet(sched.q[m])
    BY InvParts DEF Recast
  <2> QED
    BY <2>1, HeirsSame
<1>3. ASSUME NEW u \in Threads, u # x PROVE \A v \in Heirs(sched, owned, u) : b.prio[v] = sched.prio[v]
  <2> SUFFICES ASSUME NEW v \in Heirs(sched, owned, u) PROVE b.prio[v] = sched.prio[v]
    OBVIOUS
  <2>1. v \in Threads /\ u = Told(v) /\ sched.state[v] = "WAITING"
    BY HeirToldOf
  <2> QED
    BY <1>3, <2>1 DEF Recast
<1>4. ASSUME NEW u \in Counted(b) \ {x}, u # t \/ (sched.suspend[t] = 0 /\ p = sched.prio[t])
      PROVE  Alike(sched, owned, b, owned, u)
  <2>1. u \in Threads /\ u \in Counted(sched) /\ b.prio[u] = sched.prio[u]
    BY <1>4 DEF Recast, Counted
  <2> QED
    BY <1>2, <1>3, <1>4, <2>1 DEF Alike, Recast
<1>5. ASSUME t \in Counted(b) \ {x}, p = EffectivePriority(sched, owned, t)
      PROVE  Right(Situation(b, owned), b.prio, t)
  <2>1. Best(Situation(sched, owned), sched.prio, t, p)
    BY <1>5, InvParts, EffectiveIsBest
  <2>2. Situation(sched, owned).base = sched.base /\ Situation(sched, owned).heirs[t] = Heirs(sched, owned, t)
    BY SituationIs
  <2>3. Situation(b, owned).base = b.base /\ Situation(b, owned).heirs[t] = Heirs(b, owned, t)
    BY SituationIs
  <2>4. Best(Situation(b, owned), b.prio, t, p)
    BY <1>2, <1>3, <1>5, <2>1, <2>2, <2>3 DEF Best, Recast
  <2>5. b.prio[t] = p
    BY DEF Recast
  <2> QED
    BY <2>4, <2>5, BestIsRight
<1>6. t \in Counted(b) => n = 0
  BY DEF Counted, Recast
<1>7. \A u \in Counted(b) \ {x} :
        (u # NoThread /\ Alike(sched, owned, b, owned, u)) \/ Right(Situation(b, owned), b.prio, u)
  BY <1>4, <1>5, <1>6, Nulls DEF Counted
<1> QED
  BY <1>1, <1>7, AlikeBut

\* OSResumeThread and OSSuspendThread.
LEMMA RecastGood ==
  ASSUME PriorityInv, ~sched.fault, NEW t \in Threads, NEW n, NEW p, NEW told \in BOOLEAN,
         Recasts(t, n, p, told),
         n = 0 => \/ sched.suspend[t] = 0 /\ p = sched.prio[t]
                  \/ p = EffectivePriority(sched, owned, t),
         n # 0 /\ sched.state[t] = "WAITING" => p = Suspended,
         ~told => p = sched.prio[t] \/ sched.state[t] # "WAITING"
  PROVE  Good(sched', owned, waiting)
<1> DEFINE x == IF told THEN Told(t) ELSE NoThread
<1>1. PICK b : /\ Exact(b, {}) /\ Recast(sched, b, t, n, p)
               /\ LET r == IF told THEN NotifyOwner(b, t) ELSE b IN Keeps(r, sched') /\ Steady(r, sched')
  BY DEF Recasts
<1> DEFINE r == IF told THEN NotifyOwner(b, t) ELSE b
<1>2. AllRightBut(Situation(b, owned), b.prio, x)
  BY <1>1, RecastRight
<1>3. SleepersKnown(b, waiting)
  <2> SUFFICES ASSUME NEW w \in SleepQueues, NEW u \in ToSet(b.q[w])
               PROVE  /\ w \in Mutexes => waiting[u] = w
                      /\ b.suspend[u] # 0 => b.prio[u] = Suspended
                      /\ w \notin Mutexes \cup Conds => waiting[u] = NoMutex
                      /\ Conds = {} /\ waiting[u] # NoMutex => w = waiting[u]
    BY DEF SleepersKnown
  <2>1. u \in ToSet(sched.q[w])
    BY <1>1 DEF Recast
  <2>2. u \in Threads /\ sched.state[u] = "WAITING"
    BY <2>1, InvParts, QueueOf
  <2>3. sched.suspend[u] # 0 => sched.prio[u] = Suspended
    BY <2>1, InvParts DEF SleepersKnown
  <2>4. b.suspend[u] # 0 => b.prio[u] = Suspended
    BY <1>1, <2>2, <2>3 DEF Recast
  <2> QED
    BY <2>1, <2>4, InvParts DEF SleepersKnown
<1>4. Good(r, owned, waiting) /\ r \in SchedulerState
  <2>1. CASE told
    <3>1. Exact(r, {}) /\ SameThreads(b, r) /\ SuspendedKeep(b, r)
      BY <1>1, <2>1, InvParts, NothingLost, NotifyExact
    <3>2. Fair(r, owned)
      <4>1. AllRightBut(Situation(b, owned), b.prio, Told(t)) /\ r = NotifyOwner(b, t)
        BY <1>2, <2>1
      <4> HIDE DEF r
      <4> QED
        BY <1>1, <1>3, <4>1, InvParts, NothingLost, NotifyFair DEF Told
    <3>3. SleepersKnown(r, waiting)
      <4>1. b \in SchedulerState /\ r.suspend = b.suspend
            /\ \A w \in SleepQueues : ToSet(r.q[w]) \subseteq ToSet(b.q[w])
        BY <1>1, <3>1 DEF Exact, SamePlaces, SameThreads
      <4> HIDE DEF r
      <4> QED
        BY <1>3, <3>1, <4>1, SleepersStay
    <3> QED
      BY <3>1, <3>2, <3>3 DEF Good, Exact
  <2>2. CASE ~told
    <3>1. NoThread \notin Situation(b, owned).counted
      <4>1. Situation(b, owned).counted = Counted(b)
        BY SituationIs
      <4> QED
        BY <4>1, Nulls DEF Counted
    <3>2. AllRight(Situation(b, owned), b.prio)
      BY <1>2, <2>2, <3>1, ButNobody
    <3> QED
      BY <1>1, <1>3, <2>2, <3>2 DEF Good, Fair, Exact
  <2> QED
    BY <2>1, <2>2
<1>5. Keeps(r, sched') /\ Steady(r, sched')
  BY <1>1
<1> HIDE DEF r
<1> QED
  BY <1>4, <1>5, InvParts, SteadyGood

\* A sleeper is in its queue.
LEMMA SleeperOf ==
  ASSUME PriorityInv, NEW t \in Threads, sched.state[t] = "WAITING"
  PROVE  /\ sched.queue[t] \in SleepQueues /\ t \in ToSet(sched.q[sched.queue[t]])
         /\ sched.suspend[t] # 0 => sched.prio[t] = Suspended
<1>1. sched.queue[t] \in SleepQueues /\ OnQueue(sched, t)
  BY InvParts DEF Exact, QueueFields, OnQueue
<1>2. t \in ToSet(sched.q[sched.queue[t]])
  BY <1>1, Kinds, InvParts DEF Exact, ListsExact
<1> QED
  BY <1>1, <1>2, InvParts DEF SleepersKnown

\* OSResumeThread keeps priorities good.
LEMMA ResumeGood ==
  ASSUME PriorityInv, NEW t \in Threads, OSResumeThread(t)
  PROVE  Good(sched', owned, waiting)
<1> DEFINE told == sched.suspend[t] = 1 /\ sched.state[t] = "WAITING"
           n == Lower(sched.suspend[t])
           p == IF sched.suspend[t] = 1 THEN EffectivePriority(sched, owned, t) ELSE sched.prio[t]
<1>1. ~sched.fault /\ ThreadInv /\ sched.suspend[t] \in Nat
  BY InvParts, Fields DEF OSResumeThread, Settled, PriorityInv
<1>2. Recasts(t, n, p, told) /\ told \in BOOLEAN
  BY <1>1, ResumeLists
<1>3. n = 0 => \/ sched.suspend[t] = 0 /\ p = sched.prio[t]
               \/ p = EffectivePriority(sched, owned, t)
  BY <1>1 DEF Lower
<1>4. n # 0 /\ sched.state[t] = "WAITING" => p = Suspended
  <2>1. n # 0 => sched.suspend[t] # 0 /\ sched.suspend[t] # 1
    BY <1>1 DEF Lower
  <2> QED
    BY <2>1, SleeperOf
<1>5. ~told => p = sched.prio[t] \/ sched.state[t] # "WAITING"
  OBVIOUS
<1> HIDE DEF n, p, told
<1> QED
  BY <1>1, <1>2, <1>3, <1>4, <1>5, RecastGood

\* OSSuspendThread keeps priorities good.
LEMMA SuspendGood ==
  ASSUME PriorityInv, NEW t \in Threads, OSSuspendThread(t)
  PROVE  Good(sched', owned, waiting)
<1> DEFINE told == sched.suspend[t] = 0 /\ sched.state[t] = "WAITING"
           n == sched.suspend[t] + 1
           p == IF told THEN Suspended ELSE sched.prio[t]
<1>1. ~sched.fault /\ ThreadInv /\ sched.suspend[t] \in Nat
  BY InvParts, Fields DEF OSSuspendThread, Settled, PriorityInv
<1>2. Recasts(t, n, p, told) /\ told \in BOOLEAN
  BY <1>1, SuspendLists
<1>3. n # 0
  BY <1>1
<1>4. sched.state[t] = "WAITING" => p = Suspended
  BY SleeperOf
<1>5. ~told => p = sched.prio[t]
  OBVIOUS
<1> HIDE DEF n, p, told
<1> QED
  BY <1>1, <1>2, <1>3, <1>4, <1>5, RecastGood

\* Queues that are no mutexes, and the mutexes of different threads.
LEMMA OwnedMutexes ==
  ASSUME PriorityInv
  PROVE  /\ \A t \in Threads : ToSet(owned[t]) \subseteq Mutexes
         /\ \A t, u \in Threads : t # u => ToSet(owned[t]) \cap ToSet(owned[u]) = {}
<1>1. \A t \in Threads : ToSet(owned[t]) \subseteq Mutexes
  BY InvParts, SeqFacts DEF TypeOK
<1> QED
  BY <1>1, InvParts DEF OwnersListed

\* OSYieldThread keeps priorities good.
LEMMA YieldGood ==
  ASSUME PriorityInv, NEW t \in Threads, OSYieldThread(t)
  PROVE  Good(sched', owned, waiting)
<1>1. Keeps(sched, sched') /\ Steady(sched, sched')
  BY InvParts, SelectExact DEF OSYieldThread
<1> QED
  BY <1>1, InvParts, SteadyGood DEF Good

\* OSJoinThread keeps priorities good.
LEMMA JoinGood ==
  ASSUME PriorityInv, NEW t \in Threads, OSJoinThread(t)
  PROVE  Good(sched', owned, waiting)
<1>1. sched' = [sched EXCEPT !.state[t] = "INACTIVE"] /\ sched.state[t] \notin Live
  BY DEF OSJoinThread, Live
<1>2. /\ sched'.q = sched.q /\ sched'.prio = sched.prio /\ sched'.base = sched.base
      /\ sched'.suspend = sched.suspend /\ sched'.fault = sched.fault
      /\ sched'.state = [sched.state EXCEPT ![t] = "INACTIVE"]
  BY <1>1, InvParts, Fields DEF SchedulerState
<1>3. \A u \in Threads : sched'.state[u] \in Live <=> sched.state[u] \in Live
  BY <1>1, <1>2, InvParts, Fields DEF Live
<1>4. Keeps(sched, sched') /\ Steady(sched, sched')
  BY <1>2, <1>3 DEF Keeps, Steady, SameRanks
<1> QED
  BY <1>4, InvParts, SteadyGood DEF Good

\* The depth of disabling says nothing of priorities.
LEMMA CountGood ==
  ASSUME PriorityInv, OSDisableScheduler \/ OSEnableScheduler
  PROVE  Good(sched', owned, waiting)
<1>1. \E n : sched' = [sched EXCEPT !.disabled = n]
  BY DEF OSDisableScheduler, OSEnableScheduler
<1>2. /\ sched'.q = sched.q /\ sched'.prio = sched.prio /\ sched'.base = sched.base
      /\ sched'.suspend = sched.suspend /\ sched'.fault = sched.fault /\ sched'.state = sched.state
  BY <1>1, InvParts, Fields DEF SchedulerState
<1>3. Keeps(sched, sched') /\ Steady(sched, sched')
  BY <1>2 DEF Keeps, Steady, SameRanks
<1> QED
  BY <1>3, InvParts, SteadyGood DEF Good

\* OSWakeupThread keeps priorities good: nobody inherits from its sleepers.
LEMMA WakeupGood ==
  ASSUME PriorityInv, NEW w \in WaitQueues \cup Conds, OSWakeupThread(w)
  PROVE  Good(sched', owned, waiting)
<1>1. w \in SleepQueues /\ w \notin Mutexes
  BY ThreadsAssumption
<1>2. /\ Keeps(sched, sched') /\ SameRanks(sched, sched')
      /\ \A v \in SleepQueues \ {w} : sched'.q[v] = sched.q[v]
  BY <1>1, InvParts, WakeupExact DEF OSWakeupThread
<1>3. SleepersKnown(sched', waiting)
  <2>1. sched'.suspend = sched.suspend /\ SuspendedKeep(sched, sched')
    BY <1>2 DEF SameRanks, SuspendedKeep
  <2> QED
    BY <1>2, <2>1, InvParts, SleepersStay DEF Keeps
<1>4. Fair(sched', owned)
  <2>1. \A u \in Threads : \A m \in ToSet(owned[u]) : ToSet(sched'.q[m]) = ToSet(sched.q[m])
    BY <1>1, <1>2, InvParts, OwnedMutexes
  <2> QED
    BY <1>2, <2>1, InvParts, SteadyFair DEF Keeps
<1> QED
  BY <1>3, <1>4 DEF Good

\* A thread goes to sleep on a queue nobody owns.
LEMMA SleepGood ==
  ASSUME NEW own, \A u \in Threads : ToSet(own[u]) \subseteq Mutexes,
         NEW s, Good(s, own, waiting), Exact(s, {}), NEW t \in Threads, s.cur = t,
         s.state[t] = "RUNNING", NEW w \in SleepQueues \ Mutexes, NEW want,
         want[t] = NoMutex \/ w \in Conds, \A u \in Threads \ {t} : want[u] = waiting[u]
  PROVE  Good(SleepThread(s, w), own, want)
<1> DEFINE r == SleepThread(s, w)
<1>1. /\ Exact(r, {}) /\ \A u \in Threads : r.state[u] \in Live <=> s.state[u] \in Live
      /\ SameRanks(s, r) /\ \A v \in SleepQueues \ {w} : r.q[v] = s.q[v]
      /\ ToSet(r.q[w]) = ToSet(s.q[w]) \cup {t}
  BY SleepExact
<1> HIDE DEF r
<1>2. s.suspend[t] = 0
  BY DEF Exact, OnlyCurrentRuns
<1>3. SleepersKnown(r, want)
  <2> SUFFICES ASSUME NEW v \in SleepQueues, NEW u \in ToSet(r.q[v])
               PROVE  /\ v \in Mutexes => want[u] = v
                      /\ r.suspend[u] # 0 => r.prio[u] = Suspended
                      /\ v \notin Mutexes \cup Conds => want[u] = NoMutex
                      /\ Conds = {} /\ want[u] # NoMutex => v = want[u]
    BY DEF SleepersKnown
  <2>1. CASE u \in ToSet(s.q[v])
    <3>1. u \in Threads /\ s.state[u] = "WAITING"
      BY <2>1, QueueOf
    <3>2. want[u] = waiting[u]
      BY <3>1
    <3> QED
      BY <1>1, <2>1, <3>2 DEF SleepersKnown, SameRanks, Good
  <2>2. CASE u \notin ToSet(s.q[v])
    <3>1. v = w /\ u = t
      BY <1>1, <2>2
    <3> QED
      BY <1>1, <1>2, <3>1 DEF SameRanks
  <2> QED
    BY <2>1, <2>2
<1>4. Fair(r, own)
  <2>1. \A u \in Threads : \A m \in ToSet(own[u]) : ToSet(r.q[m]) = ToSet(s.q[m])
    BY <1>1, ThreadsAssumption
  <2> QED
    BY <1>1, <2>1, SteadyFair DEF Good
<1> QED
  BY <1>3, <1>4 DEF Good, r

\* OSSleepThread keeps priorities good: nobody will inherit from the sleeper.
LEMMA SleepOnGood ==
  ASSUME PriorityInv, NEW t \in Threads, NEW w \in WaitQueues, OSSleepThread(t, w)
  PROVE  Good(sched', owned, waiting)
<1>1. /\ sched.cur = t /\ sched.state[t] = "RUNNING" /\ waiting[t] = NoMutex
      /\ sched' = SleepThread(sched, w)
  BY DEF OSSleepThread, Program, Running, Settled, PendingLock
<1>2. w \in SleepQueues \ Mutexes
  BY ThreadsAssumption
<1> QED
  BY <1>1, <1>2, InvParts, OwnedMutexes, SleepGood DEF Good

\* A new thread is suspended, and nobody has heard of it.
LEMMA CreateGood ==
  ASSUME PriorityInv, NEW t \in Threads, NEW p \in Priorities, NEW d, OSCreateThread(t, p, d)
  PROVE  Good(sched', owned', waiting')
<1>1. /\ sched.state[t] = "INACTIVE"
      /\ sched' = [sched EXCEPT !.state[t] = "READY", !.base[t] = p, !.prio[t] = p,
                                !.suspend[t] = 1, !.queue[t] = NoQueue]
      /\ owned' = [owned EXCEPT ![t] = <<>>] /\ waiting' = [waiting EXCEPT ![t] = NoMutex]
  BY DEF OSCreateThread
<1>2. /\ sched'.q = sched.q /\ sched'.fault = sched.fault
      /\ sched'.state = [sched.state EXCEPT ![t] = "READY"] /\ sched'.base = [sched.base EXCEPT ![t] = p]
      /\ sched'.prio = [sched.prio EXCEPT ![t] = p] /\ sched'.suspend = [sched.suspend EXCEPT ![t] = 1]
  BY <1>1, InvParts, Fields DEF SchedulerState
<1>3. /\ sched'.suspend[t] = 1
      /\ \A u \in Threads \ {t} :
           /\ sched'.state[u] = sched.state[u] /\ sched'.base[u] = sched.base[u]
           /\ sched'.prio[u] = sched.prio[u] /\ sched'.suspend[u] = sched.suspend[u]
           /\ owned'[u] = owned[u] /\ waiting'[u] = waiting[u]
  BY <1>1, <1>2, InvParts, Fields DEF TypeOK
<1>4. \A w \in SleepQueues : \A u \in ToSet(sched.q[w]) : u \in Threads \ {t}
  BY <1>1, InvParts, QueueOf
<1>5. SleepersKnown(sched', waiting')
  <2> SUFFICES ASSUME NEW w \in SleepQueues, NEW u \in ToSet(sched'.q[w])
               PROVE  /\ w \in Mutexes => waiting'[u] = w
                      /\ sched'.suspend[u] # 0 => sched'.prio[u] = Suspended
                      /\ w \notin Mutexes \cup Conds => waiting'[u] = NoMutex
                      /\ Conds = {} /\ waiting'[u] # NoMutex => w = waiting'[u]
    BY DEF SleepersKnown
  <2>1. u \in ToSet(sched.q[w]) /\ u \in Threads \ {t}
    BY <1>2, <1>4
  <2> QED
    BY <1>3, <2>1, InvParts DEF SleepersKnown
<1>6. ASSUME NEW u \in Counted(sched') PROVE Alike(sched, owned, sched', owned', u)
  <2>1. u \in Threads \ {t} /\ u \in Counted(sched)
    BY <1>3 DEF Counted
  <2>2. Heirs(sched', owned', u) = Heirs(sched, owned, u)
    BY <1>2, <1>3, <2>1 DEF Heirs
  <2>3. \A v \in Heirs(sched, owned, u) : v \in Threads \ {t}
    BY <1>4, <2>1, InvParts DEF Heirs
  <2> QED
    BY <1>3, <2>1, <2>2, <2>3 DEF Alike
<1>7. Fair(sched', owned')
  BY <1>2, <1>6, InvParts, AlikeFair
<1> QED
  BY <1>5, <1>7 DEF Good

-----------------------------------------------------------------------------
(* The NULL thread: a walk dies in a thread that is in no queue, and nowhere else. *)

\* The ways to it that the code leaves open.
Excused == Deadlocked \/ CondSleeperOfFreeMutex

\* Each thread of S but the last waits for another of S.
Leads(s, mutexes, S, t, last) ==
  t \in S /\ last \in S /\ \A u \in S \ {last} : Blocker(s, mutexes, u) \in S

\* Only a sleeper in no queue dies of a new priority.
LEMMA SetEffectiveFault ==
  ASSUME NEW s, NEW off, Exact(s, off), ~s.fault, NEW t \in Threads, NEW p,
         SetEffectivePriority(s, t, p).fault
  PROVE  t \in off
<1> DEFINE r == SetEffectivePriority(s, t, p)
<1>1. s \in SchedulerState
  BY DEF Exact
<1>2. s.state[t] = "READY" => r.fault = s.fault
  BY <1>1, Fields DEF SetEffectivePriority, SetRun, UnsetRun, SchedulerState
<1>3. s.state[t] = "RUNNING" => r.fault = s.fault
  BY <1>1, Fields DEF SetEffectivePriority, SchedulerState
<1>4. s.state[t] \notin {"READY", "WAITING", "RUNNING"} => r = s
  BY DEF SetEffectivePriority
<1>5. s.state[t] = "WAITING" /\ s.queue[t] # NoQueue => r.fault = s.fault
  BY <1>1, Fields DEF SetEffectivePriority, Reorder, SchedulerState
<1> HIDE DEF r
<1>6. s.state[t] = "WAITING" /\ s.queue[t] = NoQueue
  BY <1>2, <1>3, <1>4, <1>5 DEF r
<1> QED
  BY <1>6, Kinds DEF Exact, QueueFields

\* A walk from t that has not died: where it stands, each thread on the way waited for the next.
OnWay(s, mutexes, t, l) ==
  /\ ~l.s.fault
  /\ l.t = NoThread \/ \E S \in SUBSET Threads : Leads(s, mutexes, S, t, l.t)

Lured(s, mutexes, t, off) == \E x \in off : \E S \in SUBSET Threads : Leads(s, mutexes, S, t, x)

\* A turn of the walk goes on, or dies in a thread of which the same is true.
LEMMA TurnOnWay ==
  ASSUME NEW s, NEW off, NEW mutexes, NEW t \in Threads, NEW l, NEW k,
         WalkStep(l, k, mutexes, off), Exact(l.s, off), SameThreads(s, l.s),
         l.t \in Threads \cup {NoThread}, k.t \in Threads \cup {NoThread}, OnWay(s, mutexes, t, l)
  PROVE  OnWay(s, mutexes, t, k) \/ Lured(s, mutexes, t, off)
<1>1. CASE k.s = l.s /\ k.t \in {l.t, NoThread}
  BY <1>1 DEF OnWay
<1>2. CASE ~(k.s = l.s /\ k.t \in {l.t, NoThread})
  <2>1. PICK x : k = [s |-> SetEffectivePriority(l.s, l.t, x), t |-> Blocker(l.s, mutexes, l.t)]
    BY <1>2 DEF WalkStep
  <2>2. l.t \in Threads
    BY <1>2 DEF WalkStep
  <2>3. k.s = SetEffectivePriority(l.s, l.t, x) /\ k.t = Blocker(l.s, mutexes, l.t)
    BY <2>1
  <2>4. PICK S \in SUBSET Threads : Leads(s, mutexes, S, t, l.t)
    BY <2>2, Nulls DEF OnWay
  <2>5. k.t = Blocker(s, mutexes, l.t)
    BY <2>3 DEF Blocker, SameThreads, SamePlaces
  <2>6. CASE k.s.fault
    <3>1. l.t \in off
      BY <2>2, <2>3, <2>6, SetEffectiveFault DEF OnWay
    <3> QED
      BY <2>4, <3>1 DEF Lured
  <2>7. CASE ~k.s.fault
    <3>1. CASE k.t = NoThread
      BY <2>7, <3>1 DEF OnWay
    <3>2. CASE k.t # NoThread
      <4>1. S \cup {k.t} \in SUBSET Threads
        BY <3>2
      <4>2. Leads(s, mutexes, S \cup {k.t}, t, k.t)
        BY <2>4, <2>5 DEF Leads
      <4> QED
        BY <2>7, <4>1, <4>2 DEF OnWay
    <3> QED
      BY <3>1, <3>2
  <2> QED
    BY <2>6, <2>7
<1> QED
  BY <1>1, <1>2

\* So a walk that dies was led to a thread in no queue.
LEMMA WalkFault ==
  ASSUME NEW s, NEW off, Exact(s, off), Lost(s, off), ~s.fault, NEW t \in Threads,
         NEW mutexes, Relations(mutexes), NEW n \in Nat, NEW g,
         g[0] = [s |-> s, t |-> t],
         \A i \in 0 .. n - 1 : WalkStep(g[i], g[i + 1], mutexes, off), g[n].s.fault
  PROVE  Lured(s, mutexes, t, off)
<1> SUFFICES ASSUME ~Lured(s, mutexes, t, off) PROVE FALSE
  OBVIOUS
<1> DEFINE T == {i \in 0 .. n : OnWay(s, mutexes, t, g[i])}
<1>1. ASSUME NEW i \in 0 .. n
      PROVE  Exact(g[i].s, off) /\ SameThreads(s, g[i].s) /\ g[i].t \in Threads \cup {NoThread}
  BY WalkStates, SMTT(30)
<1>2. 0 \in T
  <2>1. Leads(s, mutexes, {t}, t, t) /\ {t} \in SUBSET Threads
    BY DEF Leads
  <2>2. g[0].s = s /\ g[0].t = t
    OBVIOUS
  <2> QED
    BY <2>1, <2>2 DEF OnWay
<1>3. ASSUME NEW i \in 0 .. n - 1, i \in T PROVE i + 1 \in T
  <2>1. i \in 0 .. n /\ i + 1 \in 0 .. n
    OBVIOUS
  <2> QED
    BY <1>1, <1>3, <2>1, TurnOnWay
<1>4. n \in T
  <2> HIDE DEF T
  <2>1. 0 .. n \subseteq T
    BY <1>2, <1>3, BoundedInduction
  <2> QED
    BY <2>1
<1> QED
  BY <1>4 DEF OnWay

\* port_UpdatePriority, of a thread.
LEMMA UpdateFault ==
  ASSUME TypeOK, NEW s, NEW off, Exact(s, off), Lost(s, off), ~s.fault, NEW t \in Threads,
         UpdatePriority(s, MutexRelations, t).fault
  PROVE  Lured(s, MutexRelations, t, off)
<1> DEFINE N == ChainBound
<1>1. PICK g : /\ g[0] = [s |-> s, t |-> t] /\ UpdatePriority(s, MutexRelations, t) = g[N].s
               /\ \A i \in 0 .. N - 1 : g[i + 1] = UpdateLink(g[i], MutexRelations)
  BY UpdateWalk, Nulls
<1>2. N \in Nat /\ Relations(MutexRelations)
  BY ChainBoundNat, MutexRelationsOK
<1> HIDE DEF N
<1>3. \A i \in 0 .. N - 1 : WalkStep(g[i], g[i + 1], MutexRelations, off)
  BY <1>1, <1>2, UpdateStep
<1> QED
  BY <1>1, <1>2, <1>3, WalkFault

\* port_OSPromoteThread meets threads that are where they belong.
LEMMA PromoteFault ==
  ASSUME NEW s, Exact(s, {}), ~s.fault, NEW t \in Threads, NEW mutexes, Relations(mutexes),
         NEW p \in Priorities
  PROVE  ~PromoteThread(s, mutexes, t, p).fault
<1> DEFINE N == ChainBound
<1>0. PromoteWalks(s, mutexes, t, p)
  BY PromoteWalk
<1>1. PICK g : /\ g[0] = [s |-> s, t |-> t] /\ PromoteThread(s, mutexes, t, p) = g[N].s
               /\ \A i \in 0 .. N - 1 : g[i + 1] = PromoteLink(g[i], mutexes, p)
  BY <1>0 DEF PromoteWalks
<1>2. N \in Nat /\ Lost(s, {})
  BY ChainBoundNat, NothingLost
<1> HIDE DEF N
<1>3. \A i \in 0 .. N - 1 : WalkStep(g[i], g[i + 1], mutexes, {})
  BY <1>1, PromoteStep
<1>4. ~Lured(s, mutexes, t, {})
  BY DEF Lured
<1>5. ~g[N].s.fault
  BY <1>1, <1>2, <1>3, <1>4, WalkFault
<1> QED
  BY <1>1, <1>5

\* Who sleeps and wants a free mutex sleeps on a condition: nobody sleeps for a free mutex,
\* and who sleeps elsewhere wants none.
LEMMA FreeSleeper ==
  ASSUME PriorityInv, NEW t \in Threads, sched.state[t] = "WAITING", waiting[t] # NoMutex,
         owner[waiting[t]] = NoThread
  PROVE  CondSleeperOfFreeMutex
<1> DEFINE w == sched.queue[t]
<1>1. w \in SleepQueues /\ t \in ToSet(sched.q[w])
  BY SleeperOf
<1> HIDE DEF w
<1>2. w \in Mutexes => waiting[t] = w
  BY <1>1, InvParts DEF SleepersKnown
<1>3. w \in Mutexes \cup Conds
  BY <1>1, InvParts DEF SleepersKnown
<1>4. sched.q[w] # <<>>
  BY <1>1, EmptyLine
<1>5. w \notin Mutexes
  BY <1>2, <1>4 DEF PriorityInv, ThreadInv, NoLostWakeup
<1> QED
  BY <1>3, <1>5 DEF CondSleeperOfFreeMutex, w

\* Telling the owner that a sleeper waits for: there may be none, or the way may lead back
\* to the sleeper, which was taken out of its queue.
LEMMA NotifyFault ==
  ASSUME PriorityInv, NEW t \in Threads, sched.state[t] = "WAITING", NEW s, NEW off,
         off = {} \/ (off = {t} /\ s.state = sched.state),
         Exact(s, off), Lost(s, off), ~s.fault, NotifyOwner(s, t).fault
  PROVE  Excused
<1> DEFINE u == owner[waiting[t]]
<1>1. waiting[t] # NoMutex /\ UpdatePriority(s, MutexRelations, u).fault
  BY DEF NotifyOwner
<1>2. u \in Threads \cup {NoThread} /\ TypeOK
  BY <1>1, InvParts DEF TypeOK
<1>3. CASE u = NoThread
  BY <1>1, <1>3, FreeSleeper DEF Excused
<1>4. CASE u # NoThread
  <2> HIDE DEF u
  <2>1. Lured(s, MutexRelations, u, off)
    BY <1>1, <1>2, <1>4, UpdateFault
  <2>2. PICK S \in SUBSET Threads : Leads(s, MutexRelations, S, u, t)
    BY <2>1 DEF Lured
  <2>3. s.state = sched.state
    BY <2>1 DEF Lured
  <2>4. ASSUME NEW v \in S PROVE \E z \in S : WaitsFor(v, z)
    <3>1. CASE v = t
      BY <1>1, <2>2, <3>1 DEF Leads, WaitsFor, u
    <3>2. CASE v # t
      <4>1. Blocker(s, MutexRelations, v) \in S
        BY <2>2, <3>2 DEF Leads
      <4>2. Blocker(s, MutexRelations, v) # NoThread
        BY <4>1, Nulls
      <4>3. WaitsFor(v, Blocker(s, MutexRelations, v))
        BY <2>3, <4>2 DEF Blocker, MutexRelations, WaitsFor, NoMutex
      <4> QED
        BY <4>1, <4>3
    <3> QED
      BY <3>1, <3>2
  <2>5. S # {}
    BY <2>2 DEF Leads
  <2> QED
    BY <2>4, <2>5 DEF Deadlocked, Excused
<1> QED
  BY <1>2, <1>3, <1>4

-----------------------------------------------------------------------------
(* The end of a thread: those who slept for its mutexes are nobody's heirs. *)

\* The mutexes of a dead thread are left to nobody, and nobody inherits from it.
LEMMA BuryGood ==
  ASSUME PriorityInv, NEW s, NEW off, NEW t \in Threads, Exact(s, off), off \subseteq {t},
         t \in off \/ ~OnQueue(s, t), Good(s, owned, waiting), UnlockAllMutex(t)
  PROVE  Good(Bury(s, t), owned', waiting)
<1> DEFINE r == Bury(s, t)
<1>1. /\ Exact(r, {}) /\ Ended(s, r, t) /\ r.state[t] \notin Live /\ SameRanks(s, r)
      /\ \A w \in SleepQueues \ ToSet(owned[t]) : r.q[w] = s.q[w]
  BY InvParts, BuryExact
<1> HIDE DEF r
<1>2. \A u \in Threads \ {t} : owned'[u] = owned[u]
  BY InvParts DEF UnlockAllMutex, TypeOK
<1>3. SleepersKnown(r, waiting)
  <2>1. /\ r.suspend = s.suspend /\ SuspendedKeep(s, r) /\ s \in SchedulerState
        /\ \A w \in SleepQueues : ToSet(r.q[w]) \subseteq ToSet(s.q[w])
    BY <1>1 DEF SameRanks, SuspendedKeep, Exact, Ended
  <2> QED
    BY <2>1, SleepersStay DEF Good
<1>4. ASSUME NEW u \in Counted(r) PROVE Alike(s, owned, r, owned', u)
  <2>1. u \in Threads \ {t} /\ u \in Counted(s)
    BY <1>1 DEF Counted, Ended, SameRanks
  <2>2. \A m \in ToSet(owned[u]) : m \in SleepQueues \ ToSet(owned[t])
    BY <2>1, InvParts, OwnedMutexes
  <2>3. Heirs(r, owned', u) = Heirs(s, owned, u)
    BY <1>1, <1>2, <2>1, <2>2 DEF Heirs
  <2> QED
    BY <1>1, <1>2, <2>1, <2>3 DEF Alike, SameRanks
<1>5. Fair(r, owned')
  BY <1>1, <1>4, AlikeFair DEF Good, SameRanks
<1> QED
  BY <1>3, <1>5 DEF Good, r

\* OSExitThread keeps priorities good.
LEMMA ExitGood ==
  ASSUME PriorityInv, NEW t \in Threads, NEW v, OSExitThread(t, v)
  PROVE  Good(sched', owned', waiting)
<1> DEFINE a == Bury(sched, t)
           b == [a EXCEPT !.hint = TRUE]
<1>1. /\ sched.state[t] = "RUNNING" /\ sched' = SelectThread(b, FALSE) /\ UnlockAllMutex(t)
  BY DEF OSExitThread, Program, Running
<1>2. ~OnQueue(sched, t)
  BY <1>1 DEF OnQueue
<1>3. Good(a, owned', waiting)
  BY <1>1, <1>2, InvParts, BuryGood DEF Good
<1>4. Exact(a, {}) /\ a \in SchedulerState
  <2>1. Exact(a, {})
    BY <1>1, <1>2, InvParts, BuryExact
  <2> QED
    BY <2>1 DEF Exact
<1> HIDE DEF a
<1>5. /\ b \in SchedulerState /\ b.cur = a.cur /\ b.bits = a.bits /\ b.q = a.q
      /\ b.state = a.state /\ b.prio = a.prio /\ b.suspend = a.suspend
      /\ b.queue = a.queue /\ b.base = a.base /\ b.fault = a.fault
  BY <1>4, Fields DEF SchedulerState
<1> HIDE DEF b
<1>6. Exact(b, {}) /\ Keeps(a, b) /\ Steady(a, b)
  BY <1>4, <1>5, FlagsExact DEF Keeps, Steady, SameRanks
<1>7. Keeps(b, sched') /\ Steady(b, sched')
  BY <1>1, <1>6, SelectExact
<1>8. \A u \in Threads : ToSet(owned'[u]) \subseteq SleepQueues
  BY <1>1, InvParts, EmptyLine DEF UnlockAllMutex, TypeOK
<1>9. Good(b, owned', waiting)
  BY <1>3, <1>4, <1>6, <1>8, SteadyGood
<1> QED
  BY <1>5, <1>7, <1>8, <1>9, SteadyGood

Unlinked(s, t) == [s EXCEPT !.q[s.queue[t]] = RemoveFirst(@, t), !.queue[t] = NoQueue]

\* OSCancelThread takes a sleeper out of its queue.  The one it slept for may have had its
\* priority from it, unless it was suspended and had none to pass on.
LEMMA AsleepGood ==
  ASSUME PriorityInv, ~sched.fault, NEW t \in Threads, sched.state[t] = "WAITING",
         NEW a, a = Unlinked(sched, t)
  PROVE  /\ Exact(a, {t}) /\ Lost(a, {t}) /\ SleepersKnown(a, waiting)
         /\ AllRightBut(Situation(a, owned), a.prio, Told(t))
         /\ sched.suspend[t] # 0 => Fair(a, owned)
         /\ a.state = sched.state /\ a.fault = sched.fault
<1>1. /\ Exact(a, {t}) /\ Lost(a, {t}) /\ Keeps(sched, a) /\ a.state = sched.state
      /\ SameRanks(sched, a) /\ \A v \in SleepQueues \ {sched.queue[t]} : a.q[v] = sched.q[v]
      /\ ToSet(a.q[sched.queue[t]]) = ToSet(sched.q[sched.queue[t]]) \ {t}
  <2> DEFINE r == [sched EXCEPT !.q[sched.queue[t]] = RemoveFirst(@, t), !.queue[t] = NoQueue]
  <2>1. a = r
    BY DEF Unlinked
  <2>2. Exact(sched, {})
    BY InvParts, SMTT(30)
  <2>3. /\ Exact(r, {t}) /\ Lost(r, {t}) /\ Keeps(sched, r) /\ (Hinted(sched) => Hinted(r)) /\ r.state = sched.state
        /\ SameRanks(sched, r) /\ \A v \in SleepQueues \ {sched.queue[t]} : r.q[v] = sched.q[v]
        /\ ToSet(r.q[sched.queue[t]]) = ToSet(sched.q[sched.queue[t]]) \ {t}
    BY <2>2, UnlinkExact
  <2> HIDE DEF r
  <2> QED
    BY <2>1, <2>3
<1>2. SleepersKnown(a, waiting)
  <2>1. a.suspend = sched.suspend /\ SuspendedKeep(sched, a)
    BY <1>1 DEF SameRanks, SuspendedKeep
  <2> QED
    BY <1>1, <2>1, InvParts, SleepersStay DEF Keeps
<1>3. AllRightBut(Situation(sched, owned), sched.prio, NoThread)
  BY InvParts, EverybodyBut DEF Fair
<1>4. ASSUME NEW u \in Threads, t \notin Heirs(sched, owned, u)
      PROVE  Heirs(a, owned, u) = Heirs(sched, owned, u)
  <2>1. \A m \in ToSet(owned[u]) : m \in SleepQueues /\ t \notin ToSet(sched.q[m])
    BY <1>4, InvParts DEF Heirs
  <2>2. \A m \in ToSet(owned[u]) : ToSet(a.q[m]) = ToSet(sched.q[m])
    BY <1>1, <2>1
  <2> QED
    BY <2>2, HeirsSame
<1>5. ASSUME NEW u \in Counted(a), t \notin Heirs(sched, owned, u)
      PROVE  Alike(sched, owned, a, owned, u)
  <2>1. u \in Threads /\ u \in Counted(sched)
    BY <1>1 DEF Counted, SameRanks
  <2> QED
    BY <1>1, <1>4, <1>5, <2>1 DEF Alike, SameRanks
<1>6. AllRightBut(Situation(a, owned), a.prio, Told(t))
  <2>1. \A u \in Counted(a) \ {Told(t)} : u # NoThread /\ Alike(sched, owned, a, owned, u)
    BY <1>5, HeirToldOf, Nulls DEF Counted
  <2> QED
    BY <1>3, <2>1, AlikeBut
<1>7. ASSUME sched.suspend[t] # 0 PROVE Fair(a, owned)
  <2>1. sched.prio[t] = Suspended
    BY <1>7, SleeperOf
  <2>2. ASSUME NEW u \in Counted(a), t \in Heirs(sched, owned, u)
        PROVE  Right(Situation(a, owned), a.prio, u)
    <3> DEFINE c == Situation(sched, owned)
               d == Situation(a, owned)
    <3>1. u \in Threads /\ u \in Counted(sched)
      BY <1>1 DEF Counted, SameRanks
    <3>2. c.base = sched.base /\ c.heirs[u] = Heirs(sched, owned, u) /\ d.base = a.base /\ d.heirs[u] = Heirs(a, owned, u)
      BY <3>1, SituationIs
    <3>3. c.loose = d.loose
      <4>1. c.loose = (IF Conds = {} THEN {} ELSE {v \in Threads : owned[v] # <<>>})
        BY SituationIs
      <4>2. d.loose = (IF Conds = {} THEN {} ELSE {v \in Threads : owned[v] # <<>>})
        BY SituationIs
      <4> HIDE DEF c, d
      <4> QED
        BY <4>1, <4>2
    <3>4. Right(c, sched.prio, u)
      <4>1. c.counted = Counted(sched)
        BY SituationIs
      <4> QED
        BY <1>3, <3>1, <4>1, Nulls DEF AllRightBut
    <3>5. \A v \in Threads : v # t => (v \in Heirs(a, owned, u) <=> v \in Heirs(sched, owned, u))
      BY <1>1, <3>1, InvParts DEF Heirs
    <3>6. t \notin Heirs(a, owned, u)
      <4>1. \A m \in SleepQueues : t \notin ToSet(a.q[m])
        BY <1>1, QueueOf
      <4> QED
        BY <3>1, <4>1, InvParts DEF Heirs
    <3>7. sched.base[u] \in Priorities /\ Priorities \subseteq 0 .. 31 /\ Suspended = 32
      BY <3>1, InvParts, Fields, Kinds
    <3>8. sched.prio[u] \in Int
      BY <3>1, InvParts, RanksOf DEF Ranks
    <3> HIDE DEF c, d
    <3>9. sched.prio[u] # Suspended
      <4>1. sched.prio[u] <= sched.base[u]
        BY <3>2, <3>4 DEF Right, Enough
      <4>2. sched.base[u] \in 0 .. 31
        BY <3>7
      <4> QED
        BY <3>7, <3>8, <4>1, <4>2
    <3>10. \A v \in Heirs(sched, owned, u) : v \in Threads
      BY DEF Heirs
    <3>11. \A v \in Heirs(a, owned, u) : v \in Threads
      BY DEF Heirs
    <3>12. Enough(d, a.prio, u)
      BY <1>1, <3>2, <3>4, <3>5, <3>6, <3>11 DEF Right, Enough, SameRanks
    <3>13. Reason(d, a.prio, u)
      BY <1>1, <2>1, <3>2, <3>3, <3>4, <3>5, <3>9, <3>10 DEF Right, Reason, SameRanks
    <3> QED
      BY <3>12, <3>13 DEF Right, d
  <2>3. \A u \in Counted(a) \ {NoThread} :
          (u # NoThread /\ Alike(sched, owned, a, owned, u)) \/ Right(Situation(a, owned), a.prio, u)
    BY <1>5, <2>2
  <2>4. AllRightBut(Situation(a, owned), a.prio, NoThread)
    BY <1>3, <2>3, AlikeBut
  <2>5. NoThread \notin Situation(a, owned).counted
    <3>1. Situation(a, owned).counted = Counted(a)
      BY SituationIs
    <3> QED
      BY <3>1, Nulls DEF Counted
  <2> QED
    BY <2>4, <2>5, ButNobody DEF Fair
<1> QED
  BY <1>1, <1>2, <1>6, <1>7 DEF SameRanks

\* OSCancelThread takes the thread out of its lists, and where it slept the one it slept for is
\* told, before its end.
LEMMA CancelLeaves ==
  ASSUME PriorityInv, NEW t \in Threads, OSCancelThread(t)
  PROVE  \E x : \E off \in SUBSET {t} :
           /\ sched' = Bury(x, t) /\ UnlockAllMutex(t)
           /\ Exact(x, off) /\ (t \in off \/ ~OnQueue(x, t)) /\ Good(x, owned, waiting)
           /\ x.fault => Excused
<1> DEFINE asleep == [sched EXCEPT !.q[sched.queue[t]] = RemoveFirst(@, t), !.queue[t] = NoQueue]
           suspended == sched.suspend[t] > 0
           x == CASE sched.state[t] = "READY"   -> IF suspended THEN sched ELSE UnsetRun(sched, t)
                  [] sched.state[t] = "RUNNING" -> [sched EXCEPT !.hint = TRUE]
                  [] sched.state[t] = "WAITING" -> IF suspended THEN asleep ELSE NotifyOwner(asleep, t)
<1>1. /\ sched.state[t] \in Live /\ sched.suspend[t] \in Nat /\ ~sched.fault
      /\ sched' = Bury(x, t) /\ UnlockAllMutex(t)
  BY InvParts, Fields DEF OSCancelThread, Settled
<1>2. \E off \in SUBSET {t} :
        /\ Exact(x, off) /\ (t \in off \/ ~OnQueue(x, t)) /\ Good(x, owned, waiting)
        /\ x.fault => Excused
  <2>1. CASE sched.state[t] = "READY" /\ suspended
    <3>1. x = sched
      BY <2>1
    <3>2. ~OnQueue(sched, t)
      BY <1>1, <2>1 DEF OnQueue
    <3> HIDE DEF x
    <3>3. {} \in SUBSET {t} /\ Good(sched, owned, waiting)
      BY InvParts DEF Good
    <3> QED
      BY <1>1, <3>1, <3>2, <3>3, InvParts
  <2>2. CASE sched.state[t] = "READY" /\ ~suspended
    <3>1. x = UnsetRun(sched, t) /\ sched.suspend[t] = 0
      BY <1>1, <2>2
    <3> HIDE DEF x
    <3>2. Exact(x, {} \cup {t}) /\ SameThreads(sched, x) /\ x.prio = sched.prio
      BY <2>2, <3>1, InvParts, UnsetRunExact
    <3>3. {} \cup {t} = {t}
      OBVIOUS
    <3>4. x.fault = sched.fault
      BY <3>1, InvParts, Fields DEF UnsetRun, SchedulerState
    <3>5. SleepersKnown(x, waiting)
      <4>1. /\ x.suspend = sched.suspend /\ SuspendedKeep(sched, x)
            /\ \A w \in SleepQueues : ToSet(x.q[w]) \subseteq ToSet(sched.q[w])
        BY <3>2 DEF SamePlaces, SameThreads, SuspendedKeep
      <4> QED
        BY <4>1, InvParts, SleepersStay
    <3>6. Fair(x, owned)
      <4>1. /\ SameRanks(sched, x) /\ \A u \in Threads : x.state[u] \in Live => sched.state[u] \in Live
            /\ \A u \in Threads : \A m \in ToSet(owned[u]) : ToSet(x.q[m]) = ToSet(sched.q[m])
        BY <3>2, <3>4, InvParts DEF SamePlaces, SameThreads, SameRanks
      <4> QED
        BY <4>1, InvParts, SteadyFair
    <3> QED
      BY <1>1, <3>2, <3>3, <3>4, <3>5, <3>6 DEF Good
  <2>3. CASE sched.state[t] = "RUNNING"
    <3>1. x = [sched EXCEPT !.hint = TRUE]
      BY <2>3
    <3> HIDE DEF asleep, x
    <3>2. /\ x \in SchedulerState /\ x.cur = sched.cur /\ x.bits = sched.bits /\ x.q = sched.q
          /\ x.state = sched.state /\ x.prio = sched.prio /\ x.suspend = sched.suspend
          /\ x.queue = sched.queue /\ x.base = sched.base /\ x.fault = sched.fault
      BY <3>1, InvParts, Fields DEF SchedulerState
    <3>3. Exact(x, {}) /\ ~OnQueue(x, t)
      BY <2>3, <3>2, InvParts, FlagsExact DEF OnQueue
    <3>4. Keeps(sched, x) /\ Steady(sched, x)
      BY <3>2 DEF Keeps, Steady, SameRanks
    <3>5. Good(x, owned, waiting)
      BY <3>4, InvParts, SteadyGood DEF Good
    <3>6. {} \in SUBSET {t}
      OBVIOUS
    <3> QED
      BY <1>1, <3>2, <3>3, <3>5, <3>6
  <2>4. CASE sched.state[t] = "WAITING"
    <3>1. x = IF suspended THEN asleep ELSE NotifyOwner(asleep, t)
      BY <2>4
    <3>2. /\ Exact(asleep, {t}) /\ Lost(asleep, {t}) /\ SleepersKnown(asleep, waiting)
          /\ AllRightBut(Situation(asleep, owned), asleep.prio, Told(t))
          /\ sched.suspend[t] # 0 => Fair(asleep, owned)
          /\ asleep.state = sched.state /\ asleep.fault = sched.fault
      <4> HIDE DEF x, suspended
      <4> DEFINE a == asleep
      <4>1. a = Unlinked(sched, t)
        BY DEF Unlinked
      <4> HIDE DEF asleep
      <4> HIDE DEF a
      <4>2. /\ Exact(a, {t}) /\ Lost(a, {t}) /\ SleepersKnown(a, waiting)
            /\ AllRightBut(Situation(a, owned), a.prio, Told(t))
            /\ sched.suspend[t] # 0 => Fair(a, owned)
            /\ a.state = sched.state /\ a.fault = sched.fault
        BY <1>1, <2>4, <4>1, AsleepGood
      <4> QED
        BY <4>2 DEF a
    <3> HIDE DEF asleep, x
    <3>3. CASE suspended
      <4>1. x = asleep /\ sched.suspend[t] # 0 /\ {t} \in SUBSET {t} /\ t \in {t}
        BY <1>1, <3>1, <3>3
      <4> QED
        BY <1>1, <3>2, <4>1 DEF Good
    <3>4. CASE ~suspended
      <4>1. x = NotifyOwner(asleep, t) /\ {t} \in SUBSET {t} /\ t \in {t}
        BY <3>1, <3>4
      <4>2. Exact(x, {t}) /\ SameThreads(asleep, x) /\ SuspendedKeep(asleep, x)
        BY <3>2, <4>1, InvParts, NotifyExact
      <4>3. Fair(x, owned)
        BY <3>2, <4>1, InvParts, NotifyFair DEF Told
      <4>4. SleepersKnown(x, waiting)
        <5>1. /\ x.suspend = asleep.suspend /\ asleep \in SchedulerState
              /\ \A w \in SleepQueues : ToSet(x.q[w]) \subseteq ToSet(asleep.q[w])
          BY <3>2, <4>2 DEF SamePlaces, SameThreads, Exact
        <5> QED
          BY <3>2, <4>2, <5>1, SleepersStay
      <4>5. x.fault => Excused
        BY <1>1, <2>4, <3>2, <4>1, NotifyFault
      <4> QED
        BY <4>1, <4>2, <4>3, <4>4, <4>5 DEF Good
    <3> QED
      BY <3>3, <3>4
  <2> HIDE DEF x, asleep, suspended
  <2> QED
    BY <1>1, <2>1, <2>2, <2>3, <2>4 DEF Live
<1> HIDE DEF x, asleep, suspended
<1> QED
  BY <1>1, <1>2

\* OSCancelThread keeps priorities good.
LEMMA CancelGood ==
  ASSUME PriorityInv, NEW t \in Threads, OSCancelThread(t)
  PROVE  Good(sched', owned', waiting)
BY CancelLeaves, BuryGood

-----------------------------------------------------------------------------
(* Mutexes. *)

\* A mutex that is taken has no sleepers, or was its owner's before.
LEMMA AcquireGood ==
  ASSUME PriorityInv, NEW t \in Threads, NEW m \in Mutexes, NEW n \in Int, Running(t), Lockable(t, m),
         Acquire(t, m, n), \A u \in Threads \ {t} : waiting'[u] = waiting[u]
  PROVE  Good(sched', owned', waiting')
<1>1. sched' = sched /\ sched.state[t] = "RUNNING"
  BY DEF Acquire, Running
<1>2. \A u \in Threads \ {t} : owned'[u] = owned[u]
  BY InvParts DEF Acquire, TypeOK
<1>3. owned'[t] = owned[t] \/ (owner[m] = NoThread /\ owned'[t] = Append(owned[t], m))
  BY InvParts DEF Acquire, TypeOK, Lockable
<1>4. owner[m] = NoThread => sched.q[m] = <<>>
  BY DEF PriorityInv, ThreadInv, NoLostWakeup
<1>5. \A w \in SleepQueues : \A u \in ToSet(sched.q[w]) : u \in Threads \ {t}
  BY <1>1, InvParts, QueueOf
<1>6. SleepersKnown(sched', waiting')
  BY <1>1, <1>5, InvParts DEF SleepersKnown
<1>7. ASSUME NEW u \in Counted(sched') PROVE Alike(sched, owned, sched', owned', u)
  <2>1. u \in Threads /\ u \in Counted(sched)
    BY <1>1 DEF Counted
  <2>2. CASE owned'[u] = owned[u]
    <3>1. Heirs(sched', owned', u) = Heirs(sched, owned, u)
      BY <1>1, <2>2 DEF Heirs
    <3> QED
      BY <1>1, <2>1, <2>2, <3>1 DEF Alike
  <2>3. CASE owned'[u] # owned[u]
    <3>1. /\ u = t /\ sched.q[m] = <<>> /\ owned'[t] = Append(owned[t], m)
          /\ owned[t] \in Lines(Mutexes) /\ m \notin ToSet(owned[t])
      BY <1>2, <1>3, <1>4, <2>1, <2>3, InvParts, Nulls DEF TypeOK, OwnersListed, Lines
    <3>2. ToSet(owned'[u]) = ToSet(owned[u]) \cup {m} /\ owned'[u] # <<>>
      <4>1. m \in ToSet(owned'[u]) /\ ToSet(owned'[u]) = ToSet(owned[u]) \cup {m}
        BY <3>1, AppendLine
      <4> QED
        BY <4>1, EmptyLine
    <3>3. ToSet(sched.q[m]) = {}
      BY <3>1, EmptyLine
    <3>4. Heirs(sched', owned', u) = Heirs(sched, owned, u)
      BY <1>1, <3>2, <3>3 DEF Heirs
    <3> QED
      BY <1>1, <2>1, <3>2, <3>4 DEF Alike
  <2> QED
    BY <2>2, <2>3
<1>8. Fair(sched', owned')
  BY <1>1, <1>7, InvParts, AlikeFair
<1> QED
  BY <1>6, <1>8 DEF Good

\* The running thread gives a mutex up, and what it had inherited with it.
LEMMA DropGood ==
  ASSUME PriorityInv, ~sched.fault, NEW t \in Threads, NEW m \in Mutexes, sched.state[t] = "RUNNING",
         owner[m] = t, Release(t, m), NEW a, a = DropInherited(sched, t, owned')
  PROVE  Good(a, owned', waiting)
<1>1. /\ \A u \in Threads \ {t} : owned'[u] = owned[u]
      /\ ToSet(owned'[t]) \subseteq ToSet(owned[t]) /\ ToSet(owned'[t]) \subseteq SleepQueues
  <2>1. \A u \in Threads \ {t} : owned'[u] = owned[u]
    BY InvParts DEF Release, TypeOK
  <2>2. owned'[t] = RemoveFirst(owned[t], m)
    BY InvParts DEF Release, TypeOK
  <2>3. owned[t] \in Lines(Mutexes) /\ m \in ToSet(owned[t])
    BY InvParts DEF TypeOK, OwnersListed, Lines
  <2>4. ToSet(owned'[t]) = ToSet(owned[t]) \ {m}
    BY <2>2, <2>3, RemoveFirstLine
  <2> QED
    BY <2>1, <2>4, InvParts
<1>2. Exact(a, {}) /\ SamePlaces(sched, a)
  BY <1>1, InvParts, DropExact
<1> DEFINE e == EffectivePriority(sched, owned', t)
<1>3. /\ a.fault = sched.fault /\ \A u \in Threads \ {t} : a.prio[u] = sched.prio[u]
      /\ a.prio[t] = IF sched.prio[t] < sched.base[t] THEN e ELSE sched.prio[t]
  BY InvParts, Fields DEF DropInherited, SchedulerState
<1>4. sched.suspend[t] = 0
  BY InvParts DEF Exact, OnlyCurrentRuns
<1>5. \A w \in SleepQueues : \A u \in ToSet(sched.q[w]) : u \in Threads \ {t}
  BY InvParts, QueueOf
<1>6. SleepersKnown(a, waiting)
  <2>1. /\ a.suspend = sched.suspend /\ SuspendedKeep(sched, a)
        /\ \A w \in SleepQueues : ToSet(a.q[w]) \subseteq ToSet(sched.q[w])
    BY <1>2, <1>3, <1>4 DEF SamePlaces, SameThreads, SuspendedKeep
  <2> QED
    BY <2>1, InvParts, SleepersStay
<1> HIDE DEF e
<1>7. \A u \in Threads : Heirs(a, owned', u) = Heirs(sched, owned', u)
  <2>1. \A u \in Threads : \A k \in ToSet(owned'[u]) : k \in SleepQueues
    BY <1>1, InvParts
  <2>2. \A k \in SleepQueues : ToSet(a.q[k]) = ToSet(sched.q[k])
    BY <1>2 DEF SamePlaces, SameThreads
  <2> QED
    BY <2>1, <2>2, HeirsSame
<1>8. AllRightBut(Situation(sched, owned), sched.prio, NoThread)
  BY InvParts, EverybodyBut DEF Fair
<1>9. ASSUME NEW u \in Counted(a) \ {t} PROVE Alike(sched, owned, a, owned', u)
  <2>1. u \in Threads \ {t} /\ u \in Counted(sched)
    BY <1>2 DEF Counted, SamePlaces, SameThreads
  <2>2. Heirs(a, owned', u) = Heirs(sched, owned, u)
    BY <1>1, <1>7, <2>1 DEF Heirs
  <2>3. \A v \in Heirs(sched, owned, u) : v \in Threads \ {t}
    BY <1>5, <2>1, InvParts DEF Heirs
  <2> QED
    BY <1>1, <1>2, <1>3, <2>1, <2>2, <2>3 DEF Alike, SamePlaces, SameThreads
<1>10. Right(Situation(a, owned'), a.prio, t)
  <2> DEFINE c == Situation(sched, owned')
             d == Situation(a, owned')
             o == Situation(sched, owned)
  <2>1. c.base = sched.base /\ c.heirs[t] = Heirs(sched, owned', t) /\ d.base = a.base /\ d.heirs[t] = Heirs(a, owned', t)
    BY SituationIs
  <2>2. o.base = sched.base /\ o.heirs[t] = Heirs(sched, owned, t)
    BY SituationIs
  <2>3. t \in o.counted
    <3>1. o.counted = Counted(sched)
      BY SituationIs
    <3> QED
      BY <1>4, <3>1 DEF Counted, Live
  <2>4. \A v \in Heirs(sched, owned', t) : v \in Threads \ {t} /\ v \in Heirs(sched, owned, t)
    BY <1>1, <1>5 DEF Heirs
  <2>5. Best(c, sched.prio, t, e)
    BY <1>1, InvParts, EffectiveIsBest DEF e
  <2>6. Right(o, sched.prio, t)
    BY <1>8, <2>3, Nulls DEF AllRightBut
  <2>7. sched.prio[t] \in Int /\ sched.base[t] \in Int
    BY InvParts, RanksOf DEF Ranks
  <2> HIDE DEF c, d, o
  <2>8. CASE sched.prio[t] < sched.base[t]
    <3>1. Best(d, a.prio, t, e)
      BY <1>2, <1>3, <1>7, <2>1, <2>4, <2>5 DEF Best, SamePlaces, SameThreads
    <3> QED
      BY <1>3, <2>8, <3>1, BestIsRight DEF d
  <2>9. CASE ~(sched.prio[t] < sched.base[t])
    <3>1. a.prio[t] = sched.prio[t] /\ sched.prio[t] = sched.base[t]
      BY <1>3, <2>2, <2>6, <2>7, <2>9 DEF Right, Enough
    <3>2. Enough(d, a.prio, t)
      BY <1>2, <1>3, <1>7, <2>1, <2>2, <2>4, <2>6, <3>1 DEF Right, Enough, SamePlaces, SameThreads
    <3>3. Reason(d, a.prio, t)
      BY <1>2, <2>1, <3>1 DEF Reason, SamePlaces, SameThreads
    <3> QED
      BY <3>2, <3>3 DEF Right, d
  <2> QED
    BY <2>8, <2>9
<1>11. AllRightBut(Situation(a, owned'), a.prio, NoThread)
  <2>1. \A u \in Counted(a) \ {NoThread} :
          (u # NoThread /\ Alike(sched, owned, a, owned', u)) \/ Right(Situation(a, owned'), a.prio, u)
    BY <1>9, <1>10
  <2> QED
    BY <1>8, <2>1, AlikeBut
<1>12. NoThread \notin Situation(a, owned').counted
  <2>1. Situation(a, owned').counted = Counted(a)
    BY SituationIs
  <2> QED
    BY <2>1, Nulls DEF Counted
<1>13. Fair(a, owned')
  BY <1>11, <1>12, ButNobody DEF Fair
<1> QED
  BY <1>6, <1>13 DEF Good

\* What was released is nobody's.
LEMMA ReleasedMutex ==
  ASSUME PriorityInv, NEW t \in Threads, NEW m \in Mutexes, owner[m] = t, Release(t, m)
  PROVE  /\ \A u \in Threads : ToSet(owned'[u]) \subseteq Mutexes /\ m \notin ToSet(owned'[u])
         /\ ToSet(owned'[t]) \subseteq SleepQueues
<1>1. /\ owned' \in [Threads -> Seq(Mutexes)] /\ OwnersListed' /\ owner'[m] = NoThread
      /\ ToSet(owned'[t]) \subseteq SleepQueues
  BY InvParts, ReleaseRelations
<1>2. \A u \in Threads : ToSet(owned'[u]) \subseteq Mutexes
  BY <1>1, SeqFacts
<1> QED
  BY <1>1, <1>2, Nulls DEF OwnersListed

\* OSUnlockMutex keeps priorities good.
LEMMA UnlockGood ==
  ASSUME PriorityInv, NEW t \in Threads, NEW m \in Mutexes, OSUnlockMutex(t, m)
  PROVE  Good(sched', owned', waiting')
<1>1. /\ sched.state[t] = "RUNNING" /\ ~sched.fault /\ owner[m] = t /\ waiting' = waiting
  BY DEF OSUnlockMutex, Program, Running, Settled
<1>2. CASE count[m] = 1
  <2> DEFINE a == DropInherited(sched, t, owned')
  <2>1. Release(t, m) /\ sched' = WakeupThread(a, m)
    BY <1>2 DEF OSUnlockMutex
  <2>2. Good(a, owned', waiting)
    BY <1>1, <2>1, DropGood
  <2>3. /\ m \in SleepQueues /\ ToSet(owned'[t]) \subseteq SleepQueues
        /\ \A u \in Threads : ToSet(owned'[u]) \subseteq Mutexes /\ m \notin ToSet(owned'[u])
    BY <1>1, <2>1, ReleasedMutex, ThreadsAssumption
  <2>4. Exact(a, {})
    BY <1>1, <2>3, InvParts, DropExact
  <2> HIDE DEF a
  <2>5. /\ Keeps(a, sched') /\ SameRanks(a, sched')
        /\ \A v \in SleepQueues \ {m} : sched'.q[v] = a.q[v]
    BY <2>1, <2>3, <2>4, WakeupExact
  <2>6. SleepersKnown(sched', waiting)
    <3>1. a \in SchedulerState /\ sched'.suspend = a.suspend /\ SuspendedKeep(a, sched')
      BY <2>4, <2>5 DEF SameRanks, SuspendedKeep, Exact
    <3> QED
      BY <2>2, <2>5, <3>1, SleepersStay DEF Keeps, Good
  <2>7. Fair(sched', owned')
    <3>1. \A u \in Threads : \A k \in ToSet(owned'[u]) : ToSet(sched'.q[k]) = ToSet(a.q[k])
      BY <2>3, <2>5, ThreadsAssumption
    <3> QED
      BY <2>2, <2>5, <3>1, SteadyFair DEF Keeps, Good
  <2> QED
    BY <1>1, <2>6, <2>7 DEF Good
<1>3. CASE count[m] # 1
  <2>1. sched' = sched /\ owned' = owned
    BY <1>3 DEF OSUnlockMutex
  <2> QED
    BY <1>1, <2>1, InvParts DEF Good
<1> QED
  BY <1>2, <1>3

\* OSWaitCond keeps priorities good.
LEMMA WaitCondGood ==
  ASSUME PriorityInv, NEW t \in Threads, NEW c \in Conds, NEW m \in Mutexes, OSWaitCond(t, c, m)
  PROVE  Good(sched', owned', waiting')
<1> DEFINE a == DropInherited(sched, t, owned')
           b == WakeSleepers(a, m)
<1>1. /\ sched.cur = t /\ sched.state[t] = "RUNNING" /\ ~sched.fault /\ owner[m] = t /\ Release(t, m)
      /\ sched' = SleepThread(b, c) /\ waiting' = [waiting EXCEPT ![t] = m]
  BY DEF OSWaitCond, Program, Running, Settled
<1>2. Good(a, owned', waiting)
  BY <1>1, DropGood
<1>3. /\ m \in SleepQueues /\ ToSet(owned'[t]) \subseteq SleepQueues
      /\ \A u \in Threads : ToSet(owned'[u]) \subseteq Mutexes /\ m \notin ToSet(owned'[u])
  BY <1>1, ReleasedMutex, ThreadsAssumption
<1>4. Exact(a, {}) /\ SamePlaces(sched, a)
  BY <1>1, <1>3, InvParts, DropExact
<1> HIDE DEF a
<1>5. Exact(b, {}) /\ Woken(a, b) /\ \A v \in SleepQueues \ {m} : b.q[v] = a.q[v]
  BY <1>3, <1>4, WakeSleepersExact
<1> HIDE DEF b
<1>6. SleepersKnown(b, waiting)
  <2>1. a \in SchedulerState /\ b.suspend = a.suspend /\ SuspendedKeep(a, b)
    BY <1>4, <1>5 DEF Woken, SameRanks, SuspendedKeep, Exact
  <2> QED
    BY <1>2, <1>5, <2>1, SleepersStay DEF Woken, Keeps, Good
<1>7. Fair(b, owned')
  <2>1. \A u \in Threads : \A k \in ToSet(owned'[u]) : ToSet(b.q[k]) = ToSet(a.q[k])
    BY <1>3, <1>5, ThreadsAssumption
  <2> QED
    BY <1>2, <1>5, <2>1, SteadyFair DEF Woken, Keeps, Good
<1>8. b.cur = t /\ b.state[t] = "RUNNING"
  BY <1>1, <1>4, <1>5 DEF SamePlaces, SameThreads, Woken
<1>9. c \in SleepQueues \ Mutexes /\ \A u \in Threads \ {t} : waiting'[u] = waiting[u]
  BY <1>1, InvParts, ThreadsAssumption DEF TypeOK
<1>10. Good(b, owned', waiting) /\ (waiting'[t] = NoMutex \/ c \in Conds)
  BY <1>6, <1>7 DEF Good
<1> QED
  BY <1>1, <1>3, <1>5, <1>8, <1>9, <1>10, SleepGood

\* x joins the heirs of v.
Joined(c, v, x) ==
  [base |-> c.base, counted |-> c.counted, loose |-> c.loose,
   heirs |-> [u \in Threads |-> IF u = v THEN c.heirs[u] \cup {x} ELSE c.heirs[u]]]

Joins(c, v, x, d) ==
  /\ d.base = c.base /\ d.counted = c.counted /\ d.loose = c.loose
  /\ d.heirs[v] = c.heirs[v] \cup {x} /\ \A u \in Threads \ {v} : d.heirs[u] = c.heirs[u]

\* The situation once x sleeps for a mutex of v.
LEMMA JoinedIs == ASSUME NEW c, NEW v \in Threads, NEW x PROVE Joins(c, v, x, Joined(c, v, x))
BY DEF Joined, Joins

\* A promotion may start at the owner of the mutex that x is about to sleep for.
LEMMA JoinedLinks ==
  ASSUME NEW c, NEW next, Links(c, next), Straight(c, next), NEW x \in Threads, NEW v \in Threads, v # x,
         \A u \in Threads : x \notin c.heirs[u], c.loose # {} => v \in c.loose,
         NEW d, Joins(c, v, x, d), NEW to, Takes(next, x, v, to),
         to \in [Threads -> Threads \cup {NoThread}]
  PROVE  Links(d, to) /\ Straight(d, to)
<1>1. /\ d.base = c.base /\ d.counted = c.counted /\ d.loose = c.loose
      /\ d.heirs[v] = c.heirs[v] \cup {x} /\ \A u \in Threads \ {v} : d.heirs[u] = c.heirs[u]
  BY DEF Joins
<1>2. /\ to \in [Threads -> Threads \cup {NoThread}] /\ to[x] = v
      /\ \A u \in Threads \ {x} : to[u] = next[u]
  BY DEF Takes
<1>3. ASSUME NEW u \in Threads PROVE d.heirs[u] \subseteq Threads /\ u \notin d.heirs[u] /\ to[u] # u
  BY <1>1, <1>2 DEF Links
<1>4. ASSUME NEW u \in Threads, NEW y \in d.heirs[u] PROVE to[y] = u
  <2>1. CASE y = x
    BY <1>1, <1>2, <1>4, <2>1
  <2>2. CASE y # x
    <3>1. y \in c.heirs[u]
      BY <1>1, <1>4, <2>2
    <3> QED
      BY <1>2, <2>2, <3>1 DEF Links
  <2> QED
    BY <2>1, <2>2
<1>5. d.loose = {} \/ \A u \in Threads : to[u] \in d.loose \cup {NoThread}
  BY <1>1, <1>2 DEF Links
<1>6. Links(d, to)
  BY <1>1, <1>2, <1>3, <1>4, <1>5 DEF Links
<1>7. ASSUME NEW u \in Threads PROVE to[u] \in d.loose \cup {NoThread} \/ u \in d.heirs[to[u]]
  <2>1. CASE u = x
    BY <1>1, <1>2, <2>1
  <2>2. CASE u # x
    <3>1. to[u] = next[u] /\ (next[u] \in c.loose \cup {NoThread} \/ u \in c.heirs[next[u]])
      BY <1>2, <1>7, <2>2 DEF Straight
    <3>2. next[u] \in Threads \cup {NoThread}
      BY <1>7 DEF Links
    <3> QED
      BY <1>1, <3>1, <3>2
  <2> QED
    BY <2>1, <2>2
<1> QED
  BY <1>6, <1>7 DEF Straight

\* There, everybody is right but the one that x's priority is passed on to.
LEMMA JoinedRises ==
  ASSUME NEW c, c.base \in Ranks, NEW prio \in Ranks, AllRight(c, prio), NEW x \in Threads, NEW v \in Threads,
         \A u \in Threads : c.heirs[u] \subseteq Threads, c.counted \subseteq Threads,
         NEW d, Joins(c, v, x, d)
  PROVE  Rising(d, prio, v, prio[x])
<1>1. /\ d.base = c.base /\ d.counted = c.counted /\ d.loose = c.loose
      /\ d.heirs[v] = c.heirs[v] \cup {x} /\ \A u \in Threads \ {v} : d.heirs[u] = c.heirs[u]
  BY DEF Joins
<1>2. AllRightBut(d, prio, v)
  <2>1. ASSUME NEW u \in d.counted \ {v} PROVE Right(d, prio, u)
    <3>1. u \in Threads /\ Right(c, prio, u) /\ d.heirs[u] = c.heirs[u]
      BY <1>1 DEF AllRight
    <3>2. Enough(d, prio, u)
      BY <1>1, <3>1 DEF Right, Enough
    <3>3. Reason(d, prio, u)
      BY <1>1, <3>1 DEF Right, Reason
    <3> QED
      BY <3>2, <3>3 DEF Right
  <2> QED
    BY <2>1 DEF AllRightBut
<1>3. CASE v \in d.counted
  <2>1. Enough(c, prio, v) /\ Reason(c, prio, v) /\ d.heirs[v] = c.heirs[v] \cup {x}
    BY <1>1, <1>3 DEF AllRight, Right
  <2>2. prio[v] <= d.base[v]
    BY <1>1, <2>1 DEF Enough
  <2>3. prio[x] \in Int /\ prio[v] \in Int
    BY DEF Ranks
  <2>4. \A u \in d.heirs[v] : prio[x] <= prio[u] \/ prio[v] <= prio[u]
    BY <2>1, <2>3 DEF Enough
  <2>5. Reason(d, prio, v)
    BY <1>1, <2>1 DEF Reason
  <2>6. \E u \in d.heirs[v] : prio[u] = prio[x]
    BY <2>1
  <2> QED
    BY <1>2, <2>2, <2>4, <2>5, <2>6 DEF Rising
<1>4. CASE v \notin d.counted
  BY <1>2, <1>4 DEF Rising
<1> QED
  BY <1>3, <1>4

\* What is right depends only on the situation of those who count.
LEMMA RightSame ==
  ASSUME NEW c, NEW prio, AllRight(c, prio), NEW d, d.base = c.base, d.counted = c.counted,
         c.counted \subseteq Threads, d.loose = c.loose, \A u \in Threads : d.heirs[u] = c.heirs[u]
  PROVE  AllRight(d, prio)
<1> SUFFICES ASSUME NEW u \in d.counted PROVE Right(d, prio, u)
  BY DEF AllRight
<1>1. u \in Threads /\ Right(c, prio, u)
  BY DEF AllRight
<1>2. Enough(d, prio, u)
  BY <1>1 DEF Right, Enough
<1>3. Reason(d, prio, u)
  BY <1>1 DEF Right, Reason
<1> QED
  BY <1>2, <1>3 DEF Right

\* A thread that goes to sleep for a mutex passes its priority on.
LEMMA ContendGood ==
  ASSUME PriorityInv, ~sched.fault, NEW t \in Threads, NEW m \in Mutexes, Running(t), ~Lockable(t, m),
         Contend(t, m)
  PROVE  Good(sched', owned', waiting')
<1> DEFINE wants == [waiting EXCEPT ![t] = m]
           relations == [MutexRelations EXCEPT !.waiting = wants]
           v == owner[m]
           p == sched.prio[t]
           a == PromoteThread(sched, relations, v, p)
           c == Situation(sched, owned)
           d == Joined(c, v, t)
           to == [Chain(sched) EXCEPT ![t] = v]
<1>1. /\ sched.cur = t /\ sched.state[t] = "RUNNING" /\ sched' = SleepThread(a, m)
      /\ waiting' = wants /\ owned' = owned
  BY DEF Running, Contend
<1>2. relations.owned = owned /\ relations.owner = owner /\ relations.waiting = wants
  BY DEF MutexRelations
<1>3. /\ wants \in [Threads -> Mutexes \cup {NoMutex}] /\ wants[t] = m
      /\ \A u \in Threads \ {t} : wants[u] = waiting[u]
  BY InvParts DEF TypeOK
<1>4. v \in Threads /\ v # t /\ m \in ToSet(owned[v])
  BY InvParts DEF Lockable, TypeOK, OwnersListed
<1>5. p \in Priorities /\ sched.suspend[t] = 0 /\ m \in SleepQueues
  BY <1>1, InvParts, ThreadsAssumption DEF Exact, OnlyCurrentRuns, RealPriorities, Live
<1> HIDE DEF wants, relations
<1>6. Relations(relations)
  BY <1>2, <1>3, InvParts DEF Relations, TypeOK, NoMutex
<1>7. Exact(a, {}) /\ SameThreads(sched, a) /\ SuspendedKeep(sched, a)
  BY <1>4, <1>5, <1>6, InvParts, NothingLost, PromoteExact
<1>8. /\ c.base = sched.base /\ c.counted = Counted(sched)
      /\ c.loose = IF Conds = {} THEN {} ELSE {u \in Threads : owned[u] # <<>>}
      /\ \A u \in Threads : c.heirs[u] = Heirs(sched, owned, u)
  BY SituationIs
<1>9. \A w \in SleepQueues : \A u \in ToSet(sched.q[w]) : u \in Threads \ {t}
  BY <1>1, InvParts, QueueOf
<1>10. \A u \in Threads : c.heirs[u] \subseteq Threads /\ t \notin c.heirs[u]
  BY <1>8, <1>9, InvParts DEF Heirs
<1>11. c.loose # {} => v \in c.loose
  <2>1. owned[v] # <<>>
    BY <1>4, EmptyLine
  <2> HIDE DEF c
  <2> QED
    BY <1>4, <1>8, <2>1
<1>12. Links(c, Chain(sched)) /\ Straight(c, Chain(sched))
  BY InvParts, LinksOf, StraightOf
<1>0. Joins(c, v, t, d)
  <2> HIDE DEF c, v
  <2> QED
    BY <1>4, JoinedIs
<1>13. a.fault \/ AllRight(d, a.prio)
  <2>1. d.counted = Counted(sched)
    BY <1>0, <1>8 DEF Joins
  <2>2. Links(d, to) /\ Straight(d, to)
    <3>1. Chain(sched) \in [Threads -> Threads \cup {NoThread}]
      BY <1>12 DEF Links
    <3>2. Takes(Chain(sched), t, v, to) /\ to \in [Threads -> Threads \cup {NoThread}]
      <4> HIDE DEF v
      <4> QED
        BY <1>4, <3>1 DEF Takes
    <3> HIDE DEF c, d, to, v
    <3> QED
      BY <1>0, <1>4, <1>10, <1>11, <1>12, <3>2, JoinedLinks
  <2>3. Follows(to, sched, relations, t)
    <3> SUFFICES ASSUME NEW u \in Threads \ {t} PROVE to[u] = Blocker(sched, relations, u)
      BY DEF Follows
    <3>1. to[u] = Chain(sched)[u]
      BY DEF Chain
    <3> QED
      BY <1>2, <1>3, <3>1, ChainIs DEF Blocker, NoMutex
  <2>4. Rising(d, sched.prio, v, p)
    <3>1. AllRight(c, sched.prio)
      BY InvParts DEF Fair
    <3>2. sched.prio \in Ranks /\ c.base \in Ranks /\ c.counted \subseteq Threads
      BY <1>8, InvParts, RanksOf DEF Counted
    <3> HIDE DEF c, d, v
    <3> QED
      BY <1>0, <1>4, <1>10, <3>1, <3>2, JoinedRises
  <2> HIDE DEF c, d, to, a, p, v
  <2>5. v \in Threads /\ p \in Priorities /\ sched.prio[t] = p /\ a = PromoteThread(sched, relations, v, p)
    BY <1>4, <1>5 DEF a, p
  <2> QED
    BY <1>6, <2>1, <2>2, <2>3, <2>4, <2>5, InvParts, PromoteFair
<1> HIDE DEF a
<1>14. SleepersKnown(a, waiting)
  <2>1. a.suspend = sched.suspend /\ \A w \in SleepQueues : ToSet(a.q[w]) \subseteq ToSet(sched.q[w])
    BY <1>7 DEF SamePlaces, SameThreads
  <2> QED
    BY <1>7, <2>1, InvParts, SleepersStay
<1>15. /\ \A u \in Threads : sched'.state[u] \in Live <=> a.state[u] \in Live
       /\ SameRanks(a, sched') /\ \A k \in SleepQueues \ {m} : sched'.q[k] = a.q[k]
       /\ ToSet(sched'.q[m]) = ToSet(a.q[m]) \cup {t}
  <2>1. a.cur = t /\ a.cur \in Threads /\ a.state[a.cur] = "RUNNING" /\ m \in SleepQueues
    BY <1>1, <1>5, <1>7 DEF SamePlaces, SameThreads
  <2>2. Exact(a, {}) /\ sched' = SleepThread(a, m)
    BY <1>1, <1>7
  <2> HIDE DEF v, p, c, d, to
  <2> QED
    BY <2>1, <2>2, SleepExact
<1>16. SleepersKnown(sched', waiting')
  <2> SUFFICES ASSUME NEW w \in SleepQueues, NEW u \in ToSet(sched'.q[w])
               PROVE  /\ w \in Mutexes => waiting'[u] = w
                      /\ sched'.suspend[u] # 0 => sched'.prio[u] = Suspended
                      /\ w \notin Mutexes \cup Conds => waiting'[u] = NoMutex
                      /\ Conds = {} /\ waiting'[u] # NoMutex => w = waiting'[u]
    BY DEF SleepersKnown
  <2>1. CASE u \in ToSet(a.q[w])
    <3>1. u \in Threads \ {t}
      BY <1>7, <1>9, <2>1 DEF SamePlaces, SameThreads
    <3>2. waiting'[u] = waiting[u]
      BY <1>1, <1>3, <3>1
    <3> QED
      BY <1>14, <1>15, <2>1, <3>2 DEF SleepersKnown, SameRanks
  <2>2. CASE u \notin ToSet(a.q[w])
    <3>1. w = m /\ u = t
      BY <1>15, <2>2
    <3>2. sched'.suspend[t] = 0 /\ waiting'[t] = m
      BY <1>1, <1>3, <1>5, <1>7, <1>15 DEF SameRanks, SamePlaces, SameThreads
    <3> QED
      BY <3>1, <3>2
  <2> QED
    BY <2>1, <2>2
<1>17. ASSUME NEW u \in Threads PROVE Heirs(sched', owned, u) = d.heirs[u]
  <2>1. d.heirs[u] = IF u = v THEN Heirs(sched, owned, u) \cup {t} ELSE Heirs(sched, owned, u)
    BY <1>0, <1>8 DEF Joins
  <2>2. \A k \in SleepQueues : ToSet(sched'.q[k]) = IF k = m THEN ToSet(sched.q[k]) \cup {t} ELSE ToSet(sched.q[k])
    BY <1>5, <1>7, <1>15 DEF SamePlaces, SameThreads
  <2>3. m \in ToSet(owned[u]) <=> u = v
    BY InvParts DEF OwnersListed
  <2>4. \A k \in ToSet(owned[u]) : k \in SleepQueues
    BY InvParts
  <2> HIDE DEF d, v
  <2> QED
    BY <2>1, <2>2, <2>3, <2>4 DEF Heirs
<1>18. Fair(sched', owned)
  <2> DEFINE e == Situation(sched', owned)
  <2>1. CASE a.fault
    BY <1>15, <2>1 DEF Fair, SameRanks
  <2>2. CASE ~a.fault
    <3>1. /\ e.base = sched'.base /\ e.counted = Counted(sched')
          /\ e.loose = IF Conds = {} THEN {} ELSE {u \in Threads : owned[u] # <<>>}
          /\ \A u \in Threads : e.heirs[u] = Heirs(sched', owned, u)
      BY SituationIs
    <3>2. d.base = sched.base /\ d.counted = Counted(sched) /\ d.loose = c.loose
      BY <1>0, <1>8 DEF Joins
    <3>3. Counted(sched') = Counted(sched) /\ sched'.base = sched.base /\ sched'.prio = a.prio
      BY <1>7, <1>15 DEF Counted, SamePlaces, SameThreads, SameRanks
    <3> HIDE DEF e, d, c
    <3>4. e.base = d.base /\ e.counted = d.counted /\ e.loose = d.loose /\ d.counted \subseteq Threads
      BY <1>8, <3>1, <3>2, <3>3 DEF Counted
    <3>5. AllRight(d, a.prio)
      BY <1>13, <2>2
    <3>6. AllRight(e, a.prio)
      BY <1>17, <3>1, <3>4, <3>5, RightSame
    <3> QED
      BY <3>3, <3>6 DEF Fair, e
  <2> QED
    BY <2>1, <2>2
<1> QED
  BY <1>1, <1>16, <1>18 DEF Good

\* One turn of the loop that finishes locks: the lock is taken, or contended for again.
LEMMA PendingGood ==
  ASSUME PriorityInv, NEW t \in Threads, ProcessPendingLocks(t)
  PROVE  Good(sched', owned', waiting')
<1> DEFINE m == waiting[t]
           n == IF Restores(t, m) THEN val[t] ELSE count[m] + 1
<1>1. ~sched.fault /\ Running(t) /\ m \in Mutexes
  BY InvParts DEF ProcessPendingLocks, PendingLock, TypeOK
<1>2. n \in Int
  BY <1>1, InvParts DEF TypeOK
<1>3. CASE Lockable(t, m)
  <2>1. Acquire(t, m, n) /\ waiting' = [waiting EXCEPT ![t] = NoMutex]
    BY <1>3 DEF ProcessPendingLocks
  <2>2. \A u \in Threads \ {t} : waiting'[u] = waiting[u]
    BY <2>1, InvParts DEF TypeOK
  <2> HIDE DEF m, n
  <2> QED
    BY <1>1, <1>2, <1>3, <2>1, <2>2, AcquireGood
<1>4. CASE ~Lockable(t, m)
  <2>1. Contend(t, m)
    BY <1>4 DEF ProcessPendingLocks
  <2> HIDE DEF m, n
  <2> QED
    BY <1>1, <1>4, <2>1, ContendGood
<1> QED
  BY <1>3, <1>4

\* OSLockMutex and OSTryLockMutex keep priorities good.
LEMMA LockGood ==
  ASSUME PriorityInv, NEW t \in Threads, NEW m \in Mutexes, OSLockMutex(t, m) \/ OSTryLockMutex(t, m)
  PROVE  Good(sched', owned', waiting')
<1>1. ~sched.fault /\ Running(t) /\ count[m] + 1 \in Int
  BY InvParts DEF OSLockMutex, OSTryLockMutex, Program, Settled, TypeOK
<1>2. CASE Lockable(t, m)
  <2>1. Acquire(t, m, count[m] + 1) /\ waiting' = waiting
    BY <1>2 DEF OSLockMutex, OSTryLockMutex
  <2> QED
    BY <1>1, <1>2, <2>1, AcquireGood
<1>3. CASE ~Lockable(t, m)
  <2>1. Contend(t, m)
    BY <1>3 DEF OSLockMutex, OSTryLockMutex
  <2> QED
    BY <1>1, <1>3, <2>1, ContendGood
<1> QED
  BY <1>2, <1>3

-----------------------------------------------------------------------------
(* The invariant. *)

Inherited == Good(sched, owned, waiting)

\* At the start nobody owns or sleeps.
LEMMA InitGood == ASSUME Init PROVE Inherited
<1>1. /\ sched.q = [w \in Queues |-> <<>>] /\ sched.prio = [t \in Threads |-> DefaultPriority]
      /\ sched.base = [t \in Threads |-> DefaultPriority] /\ owned = [t \in Threads |-> <<>>]
  BY DEF Init
<1>2. \A w \in SleepQueues : ToSet(sched.q[w]) = {}
  BY <1>1, Kinds, EmptyLine
<1>3. SleepersKnown(sched, waiting)
  BY <1>2 DEF SleepersKnown
<1>4. ASSUME NEW t \in Threads PROVE Right(Situation(sched, owned), sched.prio, t)
  <2> DEFINE c == Situation(sched, owned)
  <2>1. c.base = sched.base /\ c.heirs[t] = Heirs(sched, owned, t)
    BY SituationIs
  <2>2. Heirs(sched, owned, t) = {}
    BY <1>1, EmptyLine DEF Heirs
  <2>3. sched.prio[t] = sched.base[t] /\ sched.base[t] \in Int
    BY <1>1, ThreadsAssumption, Kinds
  <2> HIDE DEF c
  <2>4. Enough(c, sched.prio, t) /\ Reason(c, sched.prio, t)
    BY <2>1, <2>2, <2>3 DEF Enough, Reason
  <2> QED
    BY <2>4 DEF Right, c
<1>5. Situation(sched, owned).counted = Counted(sched)
  BY SituationIs
<1>6. AllRight(Situation(sched, owned), sched.prio)
  BY <1>4, <1>5 DEF AllRight, Counted
<1> QED
  BY <1>3, <1>6 DEF Inherited, Good, Fair

\* A call about threads keeps priorities good.
LEMMA ThreadCallGood ==
  ASSUME PriorityInv, ThreadCall
  PROVE  Inherited'
<1>1. ASSUME NEW t \in Threads \ {Default}, NEW p \in Priorities, NEW d \in Attributes,
             OSCreateThread(t, p, d)
      PROVE  Inherited'
  BY <1>1, CreateGood DEF Inherited
<1>2. ASSUME NEW t \in Threads, OSResumeThread(t) \/ OSSuspendThread(t) \/ OSYieldThread(t) \/ OSJoinThread(t)
      PROVE  Inherited'
  <2>1. owned' = owned /\ waiting' = waiting
    BY <1>2 DEF OSResumeThread, OSSuspendThread, OSYieldThread, OSJoinThread, mutexVars
  <2> QED
    BY <1>2, <2>1, ResumeGood, SuspendGood, YieldGood, JoinGood DEF Inherited
<1>3. ASSUME NEW t \in Threads, NEW w \in WaitQueues, OSSleepThread(t, w) PROVE Inherited'
  <2>1. owned' = owned /\ waiting' = waiting
    BY <1>3 DEF OSSleepThread, mutexVars
  <2> QED
    BY <1>3, <2>1, SleepOnGood DEF Inherited
<1>4. ASSUME NEW w \in WaitQueues, OSWakeupThread(w) PROVE Inherited'
  <2>1. owned' = owned /\ waiting' = waiting
    BY <1>4 DEF OSWakeupThread, mutexVars
  <2> QED
    BY <1>4, <2>1, WakeupGood DEF Inherited
<1>5. ASSUME NEW t \in Threads \ {Default}, OSCancelThread(t) PROVE Inherited'
  <2>1. waiting' = waiting
    BY <1>5 DEF OSCancelThread
  <2> QED
    BY <1>5, <2>1, CancelGood DEF Inherited
<1>6. ASSUME NEW t \in Threads \ {Default}, NEW v \in ExitValues, OSExitThread(t, v) PROVE Inherited'
  <2>1. waiting' = waiting
    BY <1>6 DEF OSExitThread
  <2> QED
    BY <1>6, <2>1, ExitGood DEF Inherited
<1>7. ASSUME OSDisableScheduler \/ OSEnableScheduler PROVE Inherited'
  <2>1. owned' = owned /\ waiting' = waiting
    BY <1>7 DEF OSDisableScheduler, OSEnableScheduler, mutexVars
  <2> QED
    BY <1>7, <2>1, CountGood DEF Inherited
<1> QED
  BY <1>1, <1>2, <1>3, <1>4, <1>5, <1>6, <1>7 DEF ThreadCall

\* A call about mutexes or conditions keeps priorities good.
LEMMA MutexCallGood ==
  ASSUME PriorityInv, MutexCall \/ \E t \in Threads : ProcessPendingLocks(t)
  PROVE  Inherited'
<1>1. ASSUME NEW t \in Threads, NEW m \in Mutexes, OSLockMutex(t, m) \/ OSTryLockMutex(t, m)
      PROVE  Inherited'
  BY <1>1, LockGood DEF Inherited
<1>2. ASSUME NEW t \in Threads, NEW m \in Mutexes, OSUnlockMutex(t, m) PROVE Inherited'
  BY <1>2, UnlockGood DEF Inherited
<1>3. ASSUME NEW t \in Threads, NEW c \in Conds, NEW m \in Mutexes, OSWaitCond(t, c, m)
      PROVE  Inherited'
  BY <1>3, WaitCondGood DEF Inherited
<1>4. ASSUME NEW c \in Conds, OSSignalCond(c) PROVE Inherited'
  <2>1. OSWakeupThread(c) /\ owned' = owned /\ waiting' = waiting
    BY <1>4 DEF OSSignalCond, OSWakeupThread, mutexVars
  <2> QED
    BY <2>1, WakeupGood DEF Inherited
<1>5. ASSUME NEW t \in Threads, ProcessPendingLocks(t) PROVE Inherited'
  BY <1>5, PendingGood DEF Inherited
<1> QED
  BY <1>1, <1>2, <1>3, <1>4, <1>5 DEF MutexCall

\* The invariant holds in every state.
LEMMA PriorityInvariance == Spec => []PriorityInv
<1>1. Init => Inherited
  BY InitGood
<1>2. ThreadInv /\ IInv /\ Inherited /\ [Next]_vars => Inherited'
  <2> SUFFICES ASSUME ThreadInv, IInv, Inherited, [Next]_vars PROVE Inherited'
    OBVIOUS
  <2>1. PriorityInv
    BY DEF PriorityInv, IInv, Inherited, Good
  <2>2. CASE ThreadCall
    BY <2>1, <2>2, ThreadCallGood
  <2>3. CASE MutexCall \/ \E t \in Threads : ProcessPendingLocks(t)
    BY <2>1, <2>3, MutexCallGood
  <2>4. CASE UNCHANGED vars
    <3>1. sched' = sched /\ owned' = owned /\ waiting' = waiting
      BY <2>4 DEF vars, mutexVars
    <3> QED
      BY <3>1 DEF Inherited
  <2> QED
    BY <2>2, <2>3, <2>4 DEF Next
<1>3. ThreadInv /\ IInv /\ Inherited => PriorityInv
  BY DEF PriorityInv, IInv, Inherited, Good
<1> QED
  BY <1>1, <1>2, <1>3, Invariance, ThreadInvariance, PTL DEF Spec

\* PriorityIsEffective: in every state of the program that has not died, each live thread
\* that is not suspended has no less than the better of its base priority and that of the
\* best sleeper of its mutexes, through chains and even cycles of owners; its base
\* priority when it owns nothing; and, where no program waits on conditions, exactly
\* what port_OSGetEffectivePriority computes.
THEOREM PriorityAlways == Spec => []PriorityIsEffective
<1>1. PriorityInv => PriorityIsEffective
  <2> SUFFICES ASSUME PriorityInv, NEW t \in Threads, sched.state[t] \in Live, sched.suspend[t] = 0,
                      ~sched.fault, NEW e, e = EffectivePriority(sched, owned, t)
               PROVE  /\ sched.prio[t] <= e
                      /\ owned[t] = <<>> => sched.prio[t] = sched.base[t]
                      /\ Conds = {} => sched.prio[t] = e
    BY DEF PriorityIsEffective
  <2> DEFINE c == Situation(sched, owned)
             prio == sched.prio
  <2>1. /\ c.base = sched.base /\ c.counted = Counted(sched)
        /\ c.loose = IF Conds = {} THEN {} ELSE {u \in Threads : owned[u] # <<>>}
        /\ c.heirs[t] = Heirs(sched, owned, t)
    BY SituationIs
  <2>2. Best(c, prio, t, e)
    BY InvParts, EffectiveIsBest
  <2>3. AllRight(c, prio)
    BY InvParts DEF Fair
  <2> HIDE DEF c
  <2>4. Enough(c, prio, t) /\ Reason(c, prio, t)
    BY <2>1, <2>3 DEF AllRight, Right, Counted
  <2>5. prio[t] <= e
    BY <2>2, <2>4 DEF Best, Enough
  <2>6. owned[t] = <<>> => prio[t] = sched.base[t]
    <3>1. owned[t] = <<>> => Heirs(sched, owned, t) = {} /\ t \notin c.loose
      BY <2>1, EmptyLine DEF Heirs
    <3> QED
      BY <2>1, <2>4, <3>1 DEF Reason
  <2>7. Conds = {} => prio[t] = e
    <3>1. e \in Priorities /\ Priorities \subseteq Int
      BY InvParts, EffectiveIsReal, Kinds
    <3>2. prio[t] \in Int
      BY InvParts, RanksOf DEF Ranks
    <3>3. Conds = {} => e <= prio[t]
      BY <2>1, <2>2, <2>4 DEF Best, Reason
    <3> QED
      BY <2>5, <3>1, <3>2, <3>3
  <2> QED
    BY <2>5, <2>6, <2>7
<1> QED
  BY <1>1, PriorityInvariance, PTL

-----------------------------------------------------------------------------
(* Preemption.  A call that moves threads sets the hint, or dispatches;    *)
(* the one that lowers the running thread's priority without doing so is   *)
(* the unlock.  It lowers it only because the mutex had an heir, and then  *)
(* wakes that heir, unless the priority came from nobody.                  *)

\* What the dispatcher compares.
LEMMA MissedIs ==
  ASSUME NEW s \in SchedulerState
  PROVE  Missed(s) <=> /\ s.bits # {}
                       /\ \/ s.cur = NoThread
                          \/ s.state[s.cur] # "RUNNING"
                          \/ BestReady(s) < s.prio[s.cur]
<1>1. CASE s.bits = {} \/ s.cur = NoThread
  BY <1>1 DEF Missed
<1>2. CASE s.bits # {} /\ s.cur # NoThread
  <2>1. /\ BestReady(s) \in s.bits /\ \A p \in s.bits : ~(p < BestReady(s))
        /\ \A p \in s.bits : p \in Nat
    BY <1>2, BestIsLeast
  <2>2. s.prio[s.cur] \in Int
    BY <1>2, RanksOf, Fields DEF Ranks
  <2>3. ASSUME NEW p \in s.bits, p < s.prio[s.cur] PROVE BestReady(s) < s.prio[s.cur]
    <3>1. p \in Nat /\ BestReady(s) \in Nat /\ ~(p < BestReady(s))
      BY <2>1
    <3> QED
      BY <2>2, <2>3, <3>1
  <2> QED
    BY <1>2, <2>1, <2>3 DEF Missed
<1> QED
  BY <1>1, <1>2

\* When the priority that the unlocking thread falls back to is worse than the one it
\* has, and that was no better than its due, it came from a sleeper of the mutex, which
\* is not suspended.
LEMMA DropAttends ==
  ASSUME PriorityInv, NEW t \in Threads, NEW m \in Mutexes, Running(t), owner[m] = t,
         Release(t, m), ~Overrated(t)
  PROVE  \/ Heeds(sched, DropInherited(sched, t, owned'))
         \/ \E u \in ToSet(sched.q[m]) : sched.suspend[u] = 0
<1> DEFINE a == DropInherited(sched, t, owned')
           e == EffectivePriority(sched, owned, t)
           f == EffectivePriority(sched, owned', t)
<1>1. /\ sched.cur = t /\ sched.state[t] = "RUNNING" /\ ~(sched.prio[t] < e)
      /\ sched \in SchedulerState /\ m \in SleepQueues
  BY InvParts, ThreadsAssumption DEF Running, Overrated
<1>2. owned[t] \in Lines(Mutexes) /\ m \in ToSet(owned[t]) /\ owned'[t] = RemoveFirst(owned[t], m)
  BY InvParts DEF TypeOK, OwnersListed, Lines, Release
<1>3. ToSet(owned'[t]) = ToSet(owned[t]) \ {m} /\ ToSet(owned'[t]) \subseteq SleepQueues
  BY <1>2, InvParts, RemoveFirstLine
<1> DEFINE c == Situation(sched, owned)
           d == Situation(sched, owned')
<1>4. /\ c.base = sched.base /\ c.heirs[t] = Heirs(sched, owned, t)
      /\ d.base = sched.base /\ d.heirs[t] = Heirs(sched, owned', t)
  <2>1. c.base = sched.base /\ c.heirs[t] = Heirs(sched, owned, t)
    BY DEF Situation
  <2>2. d.base = sched.base /\ d.heirs[t] = Heirs(sched, owned', t)
    BY DEF Situation
  <2> QED
    BY <2>1, <2>2
<1>5. Best(c, sched.prio, t, e) /\ Best(d, sched.prio, t, f)
  BY <1>3, InvParts, EffectiveIsBest
<1>6. e \in Priorities /\ f \in Priorities /\ sched.base[t] \in Priorities
  BY <1>1, <1>3, InvParts, EffectiveIsReal, Fields
<1>7. e \in 0 .. 31 /\ f \in 0 .. 31 /\ sched.base[t] \in 0 .. 31 /\ sched.prio[t] \in Int
  BY <1>1, <1>6, Kinds, RanksOf DEF Ranks
<1>8. a = IF sched.prio[t] < sched.base[t] THEN [sched EXCEPT !.prio[t] = f] ELSE sched
  BY DEF DropInherited
<1> HIDE DEF a, c, d, e, f
<1>9. CASE ~(sched.prio[t] < sched.base[t])
  BY <1>8, <1>9 DEF Heeds, a
<1>10. CASE sched.prio[t] < sched.base[t] /\ f <= sched.prio[t]
  <2>1. /\ a.cur = t /\ a.bits = sched.bits /\ a.state = sched.state /\ a.hint = sched.hint /\ a.prio[t] = f
    BY <1>1, <1>8, <1>10, Fields DEF SchedulerState
  <2>2. \A p \in sched.bits : p \in Int
    BY <1>1, BestIsLeast
  <2>3. ASSUME NEW p \in sched.bits, p < f PROVE p < sched.prio[t]
    BY <1>7, <1>10, <2>2, <2>3
  <2>4. Missed(a) => Missed(sched)
    BY <1>1, <2>1, <2>3 DEF Missed
  <2> QED
    BY <2>1, <2>4 DEF Heeds, Alert, a
<1>11. CASE sched.prio[t] < sched.base[t] /\ ~(f <= sched.prio[t])
  <2>1. e < sched.base[t] /\ e < f
    BY <1>1, <1>7, <1>11
  <2>2. PICK u \in Heirs(sched, owned, t) : e = sched.prio[u]
    BY <1>4, <1>5, <1>7, <2>1 DEF Best
  <2>3. u \notin Heirs(sched, owned', t)
    <3> SUFFICES ASSUME u \in Heirs(sched, owned', t) PROVE FALSE
      OBVIOUS
    <3>1. f <= e
      BY <1>4, <1>5, <2>2 DEF Best
    <3> QED
      BY <1>7, <2>1, <3>1
  <2>4. u \in ToSet(sched.q[m])
    BY <1>3, <2>2, <2>3 DEF Heirs
  <2>5. sched.prio[u] # Suspended
    BY <1>7, <2>2, Kinds
  <2> QED
    BY <1>1, <2>4, <2>5, InvParts DEF SleepersKnown
<1> QED
  BY <1>9, <1>10, <1>11

\* Every call attends to whom it makes runnable, but the unlock of an overrated thread.
LEMMA NextAttends ==
  ASSUME PriorityInv, Next
  PROVE  Attends \/ (sched.cur # NoThread /\ Overrated(sched.cur))
<1>1. ThreadInv
  BY DEF PriorityInv
<1>2. CASE ThreadCall
  BY <1>1, <1>2, CreateLists, ResumeLists, SuspendLists, SleepLists, WakeupLists, YieldLists,
     CancelLists, ExitLists, JoinLists, CountLists DEF ThreadCall
<1>3. ASSUME NEW t \in Threads, NEW m \in Mutexes,
             OSLockMutex(t, m) \/ OSTryLockMutex(t, m)
      PROVE  Attends
  <2>1. CASE sched' = sched
    BY <2>1 DEF Attends
  <2>2. CASE ~Lockable(t, m) /\ Contend(t, m) /\ Running(t)
    BY <1>1, <2>2, ContendLists
  <2> QED
    BY <1>3, <2>1, <2>2 DEF OSLockMutex, OSTryLockMutex, Acquire, Program
<1>4. ASSUME NEW t \in Threads, NEW m \in Mutexes, OSUnlockMutex(t, m)
      PROVE  Attends \/ (sched.cur # NoThread /\ Overrated(sched.cur))
  <2>1. Running(t) /\ owner[m] = t /\ sched.cur = t /\ sched.cur # NoThread
    BY <1>4, Nulls DEF OSUnlockMutex, Program, Running
  <2>2. CASE sched' = sched
    BY <2>2 DEF Attends
  <2>3. CASE Release(t, m) /\ sched' = WakeupThread(DropInherited(sched, t, owned'), m)
    BY <1>1, <2>1, <2>3, DropAttends, UnlockLists
  <2> QED
    BY <1>4, <2>2, <2>3 DEF OSUnlockMutex
<1>5. ASSUME NEW t \in Threads, NEW c \in Conds, NEW m \in Mutexes, OSWaitCond(t, c, m)
      PROVE  Attends
  BY <1>1, <1>5, WaitCondLists
<1>6. ASSUME NEW c \in Conds, OSSignalCond(c) PROVE Attends
  BY <1>1, <1>6, WakeupLists DEF OSSignalCond
<1>7. ASSUME NEW t \in Threads, ProcessPendingLocks(t) PROVE Attends
  <2>1. waiting[t] \in Mutexes /\ Running(t)
    BY <1>7, InvParts DEF ProcessPendingLocks, PendingLock, TypeOK
  <2>2. CASE sched' = sched
    BY <2>2 DEF Attends
  <2>3. CASE ~Lockable(t, waiting[t]) /\ Contend(t, waiting[t])
    BY <1>1, <2>1, <2>3, ContendLists
  <2> QED
    BY <1>7, <2>2, <2>3 DEF ProcessPendingLocks, Acquire
<1> QED
  BY <1>2, <1>3, <1>4, <1>5, <1>6, <1>7 DEF Next, MutexCall

\* NoMissedPreemption: no call of the thread API, of mutexes or of conditions that leaves
\* the scheduler enabled leaves a thread waiting that is better than the running one (or
\* anybody at all while the processor idles), when none was waiting before; but for the
\* unlock by a thread whose priority nobody passed on to it.
THEOREM PreemptionAlways == Spec => NoMissedPreemption
<1> DEFINE A == ~Outranked /\ sched'.disabled = 0 =>
                  ~Outranked' \/ (sched.cur # NoThread /\ Overrated(sched.cur))
<1>1. PriorityInv /\ PriorityInv' /\ [Next]_vars => A \/ UNCHANGED vars
  <2> SUFFICES ASSUME PriorityInv, PriorityInv', Next PROVE A
    OBVIOUS
  <2>1. sched \in SchedulerState /\ sched' \in SchedulerState
    BY DEF PriorityInv, ThreadInv, ListsInv, Exact
  <2>2. (Outranked <=> Missed(sched)) /\ (Outranked' <=> Missed(sched'))
    BY <2>1, MissedIs DEF Outranked
  <2>3. Attends \/ (sched.cur # NoThread /\ Overrated(sched.cur))
    BY NextAttends
  <2> QED
    BY <2>2, <2>3 DEF Attends
<1> QED
  BY <1>1, PriorityInvariance, PTL DEF Spec, NoMissedPreemption

-----------------------------------------------------------------------------
(* The process dies only in the situations of NoNullDereference. *)

\* OSResumeThread and OSSuspendThread: the owner that a sleeper waits for is told.
LEMMA RecastFault ==
  ASSUME PriorityInv, ~sched.fault, NEW t \in Threads, NEW n, NEW p, NEW told \in BOOLEAN,
         Recasts(t, n, p, told), told => sched.state[t] = "WAITING", sched'.fault
  PROVE  Excused
<1>1. PICK b : /\ Exact(b, {}) /\ Recast(sched, b, t, n, p)
               /\ LET r == IF told THEN NotifyOwner(b, t) ELSE b IN Keeps(r, sched') /\ Steady(r, sched')
  BY DEF Recasts
<1>2. ~b.fault
  BY <1>1 DEF Recast
<1>3. told /\ NotifyOwner(b, t).fault
  BY <1>1, <1>2 DEF Steady, SameRanks
<1> QED
  BY <1>1, <1>2, <1>3, NothingLost, NotifyFault

\* Who contends for a mutex passes its priority on to threads that are where they belong.
LEMMA ContendFault ==
  ASSUME PriorityInv, ~sched.fault, NEW t \in Threads, NEW m \in Mutexes, Running(t), ~Lockable(t, m),
         Contend(t, m)
  PROVE  ~sched'.fault
<1> DEFINE wants == [waiting EXCEPT ![t] = m]
           relations == [MutexRelations EXCEPT !.waiting = wants]
           v == owner[m]
           p == sched.prio[t]
           a == PromoteThread(sched, relations, v, p)
<1>1. sched.cur = t /\ sched.state[t] = "RUNNING" /\ sched' = SleepThread(a, m)
  BY DEF Running, Contend
<1>2. v \in Threads /\ m \in SleepQueues
  BY InvParts, ThreadsAssumption DEF Lockable, TypeOK
<1>3. p \in Priorities
  BY <1>1, InvParts DEF Exact, OnlyCurrentRuns, RealPriorities, Live
<1>4. Relations(relations)
  <2>1. relations.owned = owned /\ relations.owner = owner /\ relations.waiting = wants
    BY DEF MutexRelations
  <2>2. wants \in [Threads -> Mutexes \cup {NoMutex}]
    BY InvParts DEF TypeOK
  <2> HIDE DEF wants, relations
  <2> QED
    BY <2>1, <2>2, InvParts DEF Relations, TypeOK, NoMutex
<1> HIDE DEF relations, v, p
<1>5. ~a.fault /\ Exact(a, {}) /\ SameThreads(sched, a)
  BY <1>2, <1>3, <1>4, InvParts, NothingLost, PromoteExact, PromoteFault
<1> HIDE DEF a
<1>6. a.cur = t /\ a.state[t] = "RUNNING"
  BY <1>1, <1>5 DEF SamePlaces, SameThreads
<1>7. SameRanks(a, sched')
  BY <1>1, <1>2, <1>5, <1>6, SleepExact
<1> QED
  BY <1>5, <1>7 DEF SameRanks

\* What an owner loses with a mutex it loses without a walk.
LEMMA DropFault ==
  ASSUME PriorityInv, NEW t \in Threads, NEW m \in Mutexes, sched.state[t] = "RUNNING",
         owner[m] = t, Release(t, m), NEW a, a = DropInherited(sched, t, owned')
  PROVE  Exact(a, {}) /\ SamePlaces(sched, a) /\ a.fault = sched.fault /\ m \in SleepQueues
<1>1. ToSet(owned'[t]) \subseteq SleepQueues
  BY ReleasedMutex
<1>2. Exact(a, {}) /\ SamePlaces(sched, a)
  BY <1>1, InvParts, DropExact
<1>3. a.fault = sched.fault
  BY InvParts, Fields DEF DropInherited, SchedulerState
<1> QED
  BY <1>2, <1>3, ThreadsAssumption

\* A call about threads.
LEMMA ThreadCallFault ==
  ASSUME PriorityInv, ThreadCall, sched'.fault
  PROVE  Excused
<1>1. ~sched.fault /\ Exact(sched, {}) /\ ThreadInv
  BY CallsSettled, InvParts DEF Settled, PriorityInv
<1>2. ASSUME NEW t \in Threads, NEW p, NEW d, OSCreateThread(t, p, d) PROVE sched'.fault = sched.fault
  BY <1>2, InvParts, Fields DEF OSCreateThread, SchedulerState
<1>3. ASSUME NEW t \in Threads, OSResumeThread(t) PROVE Excused
  BY <1>1, <1>3, ResumeLists, RecastFault
<1>4. ASSUME NEW t \in Threads, OSSuspendThread(t) PROVE Excused
  BY <1>1, <1>4, SuspendLists, RecastFault
<1>5. ASSUME NEW t \in Threads, NEW w \in WaitQueues, OSSleepThread(t, w) PROVE sched'.fault = sched.fault
  <2>1. sched.cur = t /\ sched.state[t] = "RUNNING" /\ sched' = SleepThread(sched, w) /\ w \in SleepQueues
    BY <1>5, ThreadsAssumption DEF OSSleepThread, Program, Running
  <2>2. SameRanks(sched, sched')
    BY <1>1, <2>1, SleepExact
  <2> QED
    BY <2>2 DEF SameRanks
<1>6. ASSUME NEW w \in WaitQueues, OSWakeupThread(w) PROVE sched'.fault = sched.fault
  <2>1. SameRanks(sched, sched')
    BY <1>1, <1>6, ThreadsAssumption, WakeupExact DEF OSWakeupThread
  <2> QED
    BY <2>1 DEF SameRanks
<1>7. ASSUME NEW t \in Threads, OSYieldThread(t) PROVE sched'.fault = sched.fault
  BY <1>1, <1>7, SelectExact DEF OSYieldThread, Steady, SameRanks
<1>8. ASSUME NEW t \in Threads, OSCancelThread(t) PROVE Excused
  <2>1. PICK x : \E off \in SUBSET {t} :
                   /\ sched' = Bury(x, t) /\ Exact(x, off) /\ (t \in off \/ ~OnQueue(x, t))
                   /\ x.fault => Excused
    BY <1>8, CancelLeaves
  <2>2. SameRanks(x, sched')
    BY <2>1, InvParts, BuryExact
  <2> QED
    BY <2>1, <2>2 DEF SameRanks
<1>9. ASSUME NEW t \in Threads, NEW v, OSExitThread(t, v) PROVE sched'.fault = sched.fault
  <2> DEFINE a == Bury(sched, t)
             b == [a EXCEPT !.hint = TRUE]
  <2>1. sched' = SelectThread(b, FALSE) /\ ~OnQueue(sched, t)
    BY <1>9 DEF OSExitThread, Program, Running, OnQueue
  <2>2. Exact(a, {}) /\ a.fault = sched.fault
    BY <1>1, <2>1, InvParts, BuryExact DEF SameRanks
  <2> HIDE DEF a
  <2>3. /\ b \in SchedulerState /\ b.cur = a.cur /\ b.bits = a.bits /\ b.q = a.q
        /\ b.state = a.state /\ b.prio = a.prio /\ b.suspend = a.suspend
        /\ b.queue = a.queue /\ b.base = a.base /\ b.fault = a.fault
    BY <2>2, Fields DEF SchedulerState, Exact
  <2> HIDE DEF b
  <2>4. Exact(b, {})
    BY <2>2, <2>3, FlagsExact
  <2>5. Steady(b, sched')
    BY <2>1, <2>4, SelectExact
  <2> QED
    BY <2>2, <2>3, <2>5 DEF Steady, SameRanks
<1>10. ASSUME NEW t \in Threads, OSJoinThread(t) PROVE sched'.fault = sched.fault
  BY <1>10, InvParts, Fields DEF OSJoinThread, SchedulerState
<1>11. ASSUME OSDisableScheduler \/ OSEnableScheduler PROVE sched'.fault = sched.fault
  BY <1>11, InvParts, Fields DEF OSDisableScheduler, OSEnableScheduler, SchedulerState
<1>12. \/ \E t \in Threads : OSResumeThread(t) \/ OSSuspendThread(t) \/ OSCancelThread(t)
       \/ sched'.fault = sched.fault
  BY <1>2, <1>5, <1>6, <1>7, <1>9, <1>10, <1>11 DEF ThreadCall
<1> QED
  BY <1>1, <1>3, <1>4, <1>8, <1>12

\* A call about mutexes or conditions, and a turn of the loop that finishes locks.
LEMMA MutexCallFault ==
  ASSUME PriorityInv, MutexCall \/ \E t \in Threads : ProcessPendingLocks(t)
  PROVE  ~sched'.fault
<1>1. ~sched.fault /\ Exact(sched, {})
  BY CallsSettled, InvParts DEF Settled, ProcessPendingLocks
<1>2. ASSUME NEW t \in Threads, NEW m \in Mutexes, OSLockMutex(t, m) \/ OSTryLockMutex(t, m)
      PROVE  ~sched'.fault
  <2>1. Running(t) /\ (sched' = sched \/ (~Lockable(t, m) /\ Contend(t, m)))
    BY <1>2 DEF OSLockMutex, OSTryLockMutex, Program, Acquire
  <2> QED
    BY <1>1, <2>1, ContendFault
<1>3. ASSUME NEW t \in Threads, NEW m \in Mutexes, OSUnlockMutex(t, m) PROVE ~sched'.fault
  <2> DEFINE a == DropInherited(sched, t, owned')
  <2>1. /\ sched.state[t] = "RUNNING" /\ owner[m] = t
        /\ sched' = sched \/ (Release(t, m) /\ sched' = WakeupThread(a, m))
    BY <1>3 DEF OSUnlockMutex, Program, Running
  <2> HIDE DEF a
  <2>2. CASE Release(t, m) /\ sched' = WakeupThread(a, m)
    <3>1. Exact(a, {}) /\ a.fault = sched.fault /\ m \in SleepQueues
      BY <2>1, <2>2, DropFault DEF a
    <3>2. SameRanks(a, sched')
      BY <2>2, <3>1, WakeupExact
    <3> QED
      BY <1>1, <3>1, <3>2 DEF SameRanks
  <2> QED
    BY <1>1, <2>1, <2>2
<1>4. ASSUME NEW t \in Threads, NEW c \in Conds, NEW m \in Mutexes, OSWaitCond(t, c, m)
      PROVE  ~sched'.fault
  <2> DEFINE a == DropInherited(sched, t, owned')
             b == WakeSleepers(a, m)
  <2>1. /\ sched.cur = t /\ sched.state[t] = "RUNNING" /\ owner[m] = t /\ Release(t, m)
        /\ sched' = SleepThread(b, c)
    BY <1>4 DEF OSWaitCond, Program, Running
  <2>2. Exact(a, {}) /\ SamePlaces(sched, a) /\ a.fault = sched.fault /\ m \in SleepQueues
    BY <2>1, DropFault
  <2> HIDE DEF a
  <2>3. Exact(b, {}) /\ Woken(a, b)
    BY <2>2, WakeSleepersExact
  <2> HIDE DEF b
  <2>4. b.cur = t /\ b.state[t] = "RUNNING" /\ c \in SleepQueues
    BY <2>1, <2>2, <2>3, ThreadsAssumption DEF SamePlaces, Woken
  <2>5. SameRanks(b, sched')
    BY <2>1, <2>3, <2>4, SleepExact
  <2> QED
    BY <1>1, <2>2, <2>3, <2>5 DEF SameRanks, Woken
<1>5. ASSUME NEW c \in Conds, OSSignalCond(c) PROVE ~sched'.fault
  <2>1. SameRanks(sched, sched')
    BY <1>1, <1>5, ThreadsAssumption, WakeupExact DEF OSSignalCond, OSWakeupThread
  <2> QED
    BY <1>1, <2>1 DEF SameRanks
<1>6. ASSUME NEW t \in Threads, ProcessPendingLocks(t) PROVE ~sched'.fault
  <2>1. /\ Running(t) /\ waiting[t] \in Mutexes
        /\ sched' = sched \/ (~Lockable(t, waiting[t]) /\ Contend(t, waiting[t]))
    BY <1>6, InvParts DEF ProcessPendingLocks, PendingLock, Acquire, TypeOK
  <2> QED
    BY <1>1, <2>1, ContendFault
<1> QED
  BY <1>2, <1>3, <1>4, <1>5, <1>6 DEF MutexCall

\* NoNullDereference: for any number of threads, mutexes and conditions, the scheduler reads
\* through a NULL pointer only if a thread in a cycle of waits is cancelled, whose own wait is
\* still followed, or a sleeper of OSWaitCond is suspended, resumed or cancelled while
\* nobody owns its mutex.
THEOREM NoNullDereferenceAlways == Spec => NoNullDereference
<1>1. PriorityInv /\ [Next]_vars => [sched'.fault => Deadlocked \/ CondSleeperOfFreeMutex]_vars
  <2> SUFFICES ASSUME PriorityInv, Next, sched'.fault PROVE Excused
    BY DEF Excused
  <2> QED
    BY ThreadCallFault, MutexCallFault DEF Next
<1> QED
  BY <1>1, PriorityInvariance, PTL DEF Spec, NoNullDereference
=============================================================================
