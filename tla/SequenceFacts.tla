---------------------------- MODULE SequenceFacts ----------------------------
(***************************************************************************)
(* Induction, and what the operations on lists leave behind.               *)
(*                                                                         *)
(* The provers cannot instantiate an induction theorem, whose parameter is *)
(* an operator.  They can apply a theorem about sets, so induction over    *)
(* the naturals is stated here about a set of numbers (SetInduction); it   *)
(* rests on the library's fact that finite sets have no infinite           *)
(* descending chains.                                                      *)
(***************************************************************************)
EXTENDS Integers, SequencesExt, FiniteSetTheorems, SequenceTheorems, TLAPS

-----------------------------------------------------------------------------
(* Induction. *)

\* A set of natural numbers has a least element.
LEMMA Least ==
  ASSUME NEW T \in SUBSET Nat, T # {} PROVE \E x \in T : \A y \in T : x <= y
<1> DEFINE below == {1 .. n : n \in T}
           R == StrictSubsetOrdering(Nat)
           S == FiniteSubsetsOf(Nat)
<1>1. IsWellFoundedOn(R, S)
  BY FS_StrictSubsetOrderingWellFounded
<1>2. below \subseteq S
  <2>1. \A n \in T : 1 .. n \in SUBSET Nat /\ IsFiniteSet(1 .. n)
    BY FS_Interval
  <2> QED
    BY <2>1 DEF FiniteSubsetsOf
<1>3. below # {}
  OBVIOUS
<1> HIDE DEF below, R, S
<1>4. \E b \in below : \A c \in below : <<c, b>> \notin R
  BY <1>1, <1>2, <1>3, WFMin
<1>5. PICK x \in T : \A y \in T : <<1 .. y, 1 .. x>> \notin R
  BY <1>4 DEF below
<1>6. ASSUME NEW y \in T PROVE x <= y
  <2> SUFFICES ASSUME y < x PROVE FALSE
    OBVIOUS
  <2>1. 1 .. y \subseteq 1 .. x /\ x \in 1 .. x /\ x \notin 1 .. y
    OBVIOUS
  <2>2. <<1 .. y, 1 .. x>> \in R
    BY <2>1 DEF R, StrictSubsetOrdering
  <2> QED
    BY <1>5, <2>2
<1> QED
  BY <1>6

\* A set that holds zero and, with a number, the next one, holds all numbers.
LEMMA SetInduction ==
  ASSUME NEW T, 0 \in T, \A n \in Nat : n \in T => n + 1 \in T PROVE Nat \subseteq T
<1> SUFFICES ASSUME Nat \ T # {} PROVE FALSE
  OBVIOUS
<1>1. PICK x \in Nat \ T : \A y \in Nat \ T : x <= y
  BY Least
<1>2. x # 0 /\ x - 1 \in Nat /\ x - 1 \in T
  BY <1>1
<1> QED
  BY <1>1, <1>2

\* The same up to a bound.
LEMMA BoundedInduction ==
  ASSUME NEW n \in Nat, NEW T, 0 \in T, \A i \in 0 .. n - 1 : i \in T => i + 1 \in T
  PROVE  0 .. n \subseteq T
<1> DEFINE U == {i \in Nat : i <= n => i \in T}
<1>1. 0 \in U
  OBVIOUS
<1>2. \A i \in Nat : i \in U => i + 1 \in U
  OBVIOUS
<1> HIDE DEF U
<1>3. Nat \subseteq U
  BY <1>1, <1>2, SetInduction
<1> QED
  BY <1>3 DEF U

\* f lists the values that G leads to from a.
Iterated(f, G, a) == f[0] = a /\ \A n \in Nat : f[n + 1] = G[f[n]]

\* A function can be iterated from any value.
LEMMA Iterates ==
  ASSUME NEW S, NEW G \in [S -> S], NEW a \in S
  PROVE  \E f \in [Nat -> S] : Iterated(f, G, a)
<1> DEFINE Upto(g, k) == /\ g \in [0 .. k -> S] /\ g[0] = a
                         /\ \A i \in 0 .. k - 1 : g[i + 1] = G[g[i]]
           T == {k \in Nat : \E g : Upto(g, k)}
<1>1. 0 \in T
  <2>1. Upto([i \in 0 .. 0 |-> a], 0)
    OBVIOUS
  <2> QED
    BY <2>1
<1>2. ASSUME NEW k \in Nat, k \in T PROVE k + 1 \in T
  <2>1. PICK g : Upto(g, k)
    BY <1>2
  <2> DEFINE h == [i \in 0 .. k + 1 |-> IF i = k + 1 THEN G[g[k]] ELSE g[i]]
  <2>2. g[k] \in S /\ G[g[k]] \in S /\ \A i \in 0 .. k : g[i] \in S
    BY <2>1
  <2>3. h \in [0 .. k + 1 -> S] /\ h[0] = a
    BY <2>1, <2>2
  <2>4. ASSUME NEW i \in 0 .. (k + 1) - 1 PROVE h[i + 1] = G[h[i]]
    <3>1. CASE i = k
      BY <3>1
    <3>2. CASE i # k
      <4>1. i \in 0 .. k - 1 /\ i + 1 \in 0 .. k
        BY <3>2
      <4> QED
        BY <2>1, <4>1
    <3> QED
      BY <3>1, <3>2
  <2>5. Upto(h, k + 1)
    BY <2>3, <2>4
  <2> HIDE DEF Upto, h
  <2> QED
    BY <2>5
<1>3. Nat \subseteq T
  <2> HIDE DEF T
  <2> QED
    BY <1>1, <1>2, SetInduction
<1> DEFINE g == [k \in Nat |-> CHOOSE g : Upto(g, k)]
           f == [k \in Nat |-> g[k][k]]
<1>4. ASSUME NEW k \in Nat PROVE Upto(g[k], k)
  BY <1>3 DEF T
<1> HIDE DEF g
\* The functions agree as far as they go.
<1>5. ASSUME NEW k \in Nat PROVE \A i \in 0 .. k : g[k][i] = g[k + 1][i]
  <2> DEFINE U == {i \in 0 .. k : g[k][i] = g[k + 1][i]}
  <2>1. Upto(g[k], k) /\ Upto(g[k + 1], k + 1)
    BY <1>4
  <2>2. 0 \in U
    BY <2>1
  <2>3. \A i \in 0 .. k - 1 : i \in U => i + 1 \in U
    BY <2>1
  <2>4. 0 .. k \subseteq U
    <3> HIDE DEF U
    <3> QED
      BY <2>2, <2>3, BoundedInduction
  <2> QED
    BY <2>4
<1>6. f \in [Nat -> S]
  BY <1>4
<1>7. f[0] = a
  BY <1>4
<1>8. ASSUME NEW n \in Nat PROVE f[n + 1] = G[f[n]]
  <2>1. g[n + 1][n + 1] = G[g[n + 1][n]]
    BY <1>4
  <2>2. g[n][n] = g[n + 1][n]
    BY <1>5
  <2> QED
    BY <2>1, <2>2
<1> QED
  BY <1>6, <1>7, <1>8 DEF Iterated

-----------------------------------------------------------------------------
(* Minima. *)

\* Min is the least element of a set of natural numbers.
LEMMA MinIsLeast ==
  ASSUME NEW T \in SUBSET Nat, T # {}
  PROVE  Min(T) \in T /\ \A y \in T : Min(T) <= y
<1>1. \E x \in T : \A y \in T : x <= y
  BY Least
<1> QED
  BY <1>1 DEF Min

\* ... and is any element that is no greater than another.
LEMMA MinEqual ==
  ASSUME NEW T \in SUBSET Nat, NEW x \in T, \A y \in T : x <= y
  PROVE  Min(T) = x
<1>1. Min(T) \in T /\ Min(T) <= x
  BY MinIsLeast
<1>2. x <= Min(T) /\ x \in Nat /\ Min(T) \in Nat
  BY <1>1
<1> QED
  BY <1>1, <1>2

\* Max is the element that no other exceeds.
LEMMA MaxEqual ==
  ASSUME NEW T \in SUBSET Int, NEW x \in T, \A y \in T : y <= x
  PROVE  Max(T) = x
<1>1. \A y \in T : x >= y
  OBVIOUS
<1>2. Max(T) \in T /\ \A y \in T : Max(T) >= y
  BY <1>1 DEF Max
<1>3. Max(T) \in Int /\ x \in Int /\ Max(T) <= x /\ Max(T) >= x
  BY <1>2
<1> QED
  BY <1>3

-----------------------------------------------------------------------------
(* Lists without repetition. *)

\* A list of elements of S, none twice.
Lines(S) == {ts \in Seq(S) : IsInjective(ts)}

\* What a sequence is.
LEMMA SeqFacts ==
  ASSUME NEW S, NEW ts \in Seq(S)
  PROVE  /\ Len(ts) \in Nat /\ DOMAIN ts = 1 .. Len(ts)
         /\ ts \in [1 .. Len(ts) -> S]
         /\ ToSet(ts) \subseteq S
         /\ ts = <<>> <=> ToSet(ts) = {}
         /\ ts = <<>> <=> Len(ts) = 0
<1>1. Len(ts) \in Nat /\ DOMAIN ts = 1 .. Len(ts) /\ ts \in [1 .. Len(ts) -> S]
  BY LenProperties
<1>2. ts = <<>> <=> Len(ts) = 0
  BY EmptySeq
<1>3. ts = <<>> => ToSet(ts) = {}
  BY <1>1, <1>2 DEF ToSet
<1>4. ts # <<>> => ts[1] \in ToSet(ts)
  BY <1>1, <1>2 DEF ToSet
<1>5. ToSet(ts) \subseteq S
  BY <1>1 DEF ToSet
<1> QED
  BY <1>1, <1>2, <1>3, <1>4, <1>5

\* The empty queue.
LEMMA EmptyLine == ASSUME NEW S PROVE <<>> \in Lines(S) /\ ToSet(<<>>) = {}
<1>1. <<>> \in Seq(S) /\ ToSet(<<>>) = {}
  BY SeqFacts, EmptySeq
<1> QED
  BY <1>1 DEF Lines, IsInjective

\* A function on 1 .. n is a sequence.
LEMMA MakeSeq ==
  ASSUME NEW S, NEW n \in Nat, NEW f \in [1 .. n -> S]
  PROVE  f \in Seq(S) /\ Len(f) = n
OBVIOUS

\* Append puts an element that is not on the list at its end.
LEMMA AppendLine ==
  ASSUME NEW S, NEW ts \in Lines(S), NEW e \in S, e \notin ToSet(ts)
  PROVE  Append(ts, e) \in Lines(S) /\ ToSet(Append(ts, e)) = ToSet(ts) \cup {e}
<1> DEFINE n == Len(ts)
           us == Append(ts, e)
<1>1. ts \in Seq(S) /\ IsInjective(ts)
  BY DEF Lines
<1>2. n \in Nat /\ DOMAIN ts = 1 .. n
  BY <1>1, SeqFacts
<1>3. /\ us \in Seq(S) /\ DOMAIN us = 1 .. n + 1
      /\ \A i \in 1 .. n : us[i] = ts[i]
      /\ us[n + 1] = e
  BY <1>1, AppendProperties, SeqFacts
<1> HIDE DEF us, n
<1>4. \A i \in 1 .. n : ts[i] # e
  BY <1>2 DEF ToSet
<1>5. IsInjective(us)
  <2> SUFFICES ASSUME NEW i \in 1 .. n + 1, NEW j \in 1 .. n + 1, us[i] = us[j] PROVE i = j
    BY <1>3 DEF IsInjective
  <2>1. (i \in 1 .. n \/ i = n + 1) /\ (j \in 1 .. n \/ j = n + 1)
    BY <1>2
  <2> QED
    BY <1>1, <1>2, <1>3, <1>4, <2>1 DEF IsInjective
<1>6. ToSet(us) = ToSet(ts) \cup {e}
  <2>1. ASSUME NEW i \in 1 .. n + 1 PROVE us[i] \in ToSet(ts) \cup {e}
    <3>1. i \in 1 .. n \/ i = n + 1
      BY <1>2
    <3> QED
      BY <1>2, <1>3, <3>1 DEF ToSet
  <2>2. ASSUME NEW i \in 1 .. n PROVE ts[i] \in ToSet(us)
    BY <1>2, <1>3 DEF ToSet
  <2>3. n + 1 \in 1 .. n + 1
    BY <1>2
  <2> QED
    BY <1>2, <1>3, <2>1, <2>2, <2>3 DEF ToSet
<1> QED
  BY <1>3, <1>5, <1>6 DEF Lines, us

\* What ends in e and is ts before that is ts with e appended.
LEMMA AppendIs ==
  ASSUME NEW S, NEW ts \in Seq(S), NEW e \in S, NEW n, n = Len(ts) + 1, NEW us \in [1 .. n -> S],
         \A i \in 1 .. Len(ts) : us[i] = ts[i], us[n] = e
  PROVE  us = Append(ts, e)
<1>1. Len(ts) \in Nat /\ n \in Nat
  OBVIOUS
<1>2. us \in Seq(S) /\ Len(us) = n
  BY <1>1, MakeSeq
<1>3. Append(ts, e) \in Seq(S) /\ Len(Append(ts, e)) = n
  OBVIOUS
<1>4. \A i \in 1 .. n : us[i] = Append(ts, e)[i]
  <2> TAKE i \in 1 .. n
  <2>1. CASE i \in 1 .. Len(ts)
    BY <2>1
  <2>2. CASE i = n
    BY <2>2
  <2> QED
    BY <1>1, <2>1, <2>2
<1> QED
  BY <1>2, <1>3, <1>4

\* RemoveAt closes the gap that an element leaves.
LEMMA RemoveAtIs ==
  ASSUME NEW S, NEW ts \in Seq(S), NEW k \in 1 .. Len(ts)
  PROVE  RemoveAt(ts, k) = [i \in 1 .. Len(ts) - 1 |-> IF i < k THEN ts[i] ELSE ts[i + 1]]
<1> DEFINE n == Len(ts)
           a == SubSeq(ts, 1, k - 1)
           b == SubSeq(ts, k + 1, n)
<1>1. n \in Nat /\ DOMAIN ts = 1 .. n /\ ts \in [1 .. n -> S]
  BY SeqFacts
<1>4. RemoveAt(ts, k) = a \o b
  BY DEF RemoveAt
<1>5. k \in 1 .. n
  OBVIOUS
<1> HIDE DEF n
<1>6. a \in Seq(S) /\ Len(a) = k - 1 /\ \A i \in 1 .. k - 1 : a[i] = ts[i]
  <2>1. \A i \in 1 .. k - 1 : ts[i] \in S
    BY <1>1, <1>5
  <2> QED
    BY <1>1, <1>5, <2>1, SubSeqProperties
<1>7. b \in Seq(S) /\ Len(b) = n - k /\ \A i \in 1 .. n - k : b[i] = ts[k + i]
  <2>1. \A i \in k + 1 .. n : ts[i] \in S
    BY <1>1, <1>5
  <2>2. k + 1 \in Int /\ n \in Int
    BY <1>1, <1>5
  <2>3. /\ b \in Seq(S) /\ Len(b) = IF k + 1 <= n THEN n - (k + 1) + 1 ELSE 0
        /\ \A i \in 1 .. n - (k + 1) + 1 : b[i] = ts[k + 1 + i - 1]
    BY <2>1, <2>2, SubSeqProperties
  <2> QED
    BY <1>1, <1>5, <2>3
<1> HIDE DEF a, b
<1>8. /\ a \o b \in Seq(S) /\ Len(a \o b) = n - 1
      /\ \A i \in 1 .. n - 1 : (a \o b)[i] = IF i < k THEN ts[i] ELSE ts[i + 1]
  <2>1. /\ a \o b \in Seq(S) /\ Len(a \o b) = (k - 1) + (n - k)
        /\ \A i \in 1 .. (k - 1) + (n - k) :
             (a \o b)[i] = IF i <= k - 1 THEN a[i] ELSE b[i - (k - 1)]
    <3>1. /\ a \o b \in Seq(S) /\ Len(a \o b) = Len(a) + Len(b)
          /\ \A i \in 1 .. Len(a) + Len(b) :
               (a \o b)[i] = IF i <= Len(a) THEN a[i] ELSE b[i - Len(a)]
      BY <1>6, <1>7, ConcatProperties
    <3> QED
      BY <1>6, <1>7, <3>1
  <2>2. ASSUME NEW i \in 1 .. n - 1
        PROVE  (a \o b)[i] = IF i < k THEN ts[i] ELSE ts[i + 1]
    <3>1. CASE i < k
      BY <1>1, <1>5, <1>6, <2>1, <3>1
    <3>2. CASE ~(i < k)
      <4>1. i - (k - 1) \in 1 .. n - k /\ k + (i - (k - 1)) = i + 1
        BY <1>1, <1>5, <3>2
      <4> QED
        BY <1>1, <1>5, <1>7, <2>1, <3>2, <4>1
    <3> QED
      BY <3>1, <3>2
  <2> QED
    BY <1>1, <1>5, <2>1, <2>2
<1>9. a \o b = [i \in 1 .. n - 1 |-> IF i < k THEN ts[i] ELSE ts[i + 1]]
  <2>1. a \o b \in [1 .. n - 1 -> S]
    BY <1>8, SeqFacts
  <2> QED
    BY <1>8, <2>1
<1> QED
  BY <1>4, <1>9 DEF n

\* RemoveFirst does so where the element is.
LEMMA RemoveFirstIs ==
  ASSUME NEW S, NEW ts \in Seq(S), NEW e \in ToSet(ts)
  PROVE  \E k \in 1 .. Len(ts) :
           /\ ts[k] = e
           /\ RemoveFirst(ts, e) = [i \in 1 .. Len(ts) - 1 |-> IF i < k THEN ts[i] ELSE ts[i + 1]]
<1> DEFINE n == Len(ts)
           I == {i \in 1 .. n : ts[i] = e}
           k == Min(I)
<1>1. n \in Nat /\ DOMAIN ts = 1 .. n /\ ts \in [1 .. n -> S]
  BY SeqFacts
<1>2. I \in SUBSET Nat /\ I # {} /\ \E i \in 1 .. n : ts[i] = e
  BY <1>1 DEF ToSet
<1>3. k \in I
  BY <1>2, MinIsLeast
<1>4. RemoveFirst(ts, e) = RemoveAt(ts, k)
  <2>1. SelectInSeq(ts, LAMBDA v : v = e) = k
    BY <1>2 DEF SelectInSeq
  <2> QED
    BY <1>2, <2>1 DEF RemoveFirst
<1>5. k \in 1 .. Len(ts) /\ ts[k] = e
  BY <1>3
<1> HIDE DEF k, n, I
<1>6. RemoveAt(ts, k) = [i \in 1 .. Len(ts) - 1 |-> IF i < k THEN ts[i] ELSE ts[i + 1]]
  BY <1>5, RemoveAtIs
<1> QED
  BY <1>4, <1>5, <1>6

\* It keeps the rest, in its order.
LEMMA RemoveFirstLine ==
  ASSUME NEW S, NEW ts \in Lines(S), NEW e \in ToSet(ts)
  PROVE  /\ RemoveFirst(ts, e) \in Lines(S)
         /\ ToSet(RemoveFirst(ts, e)) = ToSet(ts) \ {e}
         /\ \A i, j \in DOMAIN RemoveFirst(ts, e) : i < j =>
              \E k, l \in DOMAIN ts :
                k < l /\ ts[k] = RemoveFirst(ts, e)[i] /\ ts[l] = RemoveFirst(ts, e)[j]
<1> DEFINE n == Len(ts)
           us == RemoveFirst(ts, e)
<1>1. ts \in Seq(S) /\ n \in Nat /\ DOMAIN ts = 1 .. n /\ ts \in [1 .. n -> S]
  BY SeqFacts DEF Lines
<1>2. PICK k \in 1 .. n : /\ ts[k] = e
                          /\ us = [i \in 1 .. n - 1 |-> IF i < k THEN ts[i] ELSE ts[i + 1]]
  BY <1>1, RemoveFirstIs
<1> HIDE DEF n, us
<1>3. n - 1 \in Nat
  BY <1>1
<1>4. us \in Seq(S) /\ DOMAIN us = 1 .. n - 1
  <2>1. us \in [1 .. n - 1 -> S]
    BY <1>1, <1>2
  <2> QED
    BY <1>3, <2>1, MakeSeq
<1> DEFINE from(i) == IF i < k THEN i ELSE i + 1
<1>5. \A i \in 1 .. n - 1 : from(i) \in 1 .. n /\ from(i) # k /\ us[i] = ts[from(i)]
  BY <1>1, <1>2
<1>6. \A i, j \in 1 .. n - 1 : (from(i) = from(j) => i = j) /\ (i < j => from(i) < from(j))
  BY <1>1
<1>7. \A l \in 1 .. n : l # k => \E i \in 1 .. n - 1 : from(i) = l
  <2> SUFFICES ASSUME NEW l \in 1 .. n, l # k PROVE \E i \in 1 .. n - 1 : from(i) = l
    OBVIOUS
  <2>1. CASE l < k
    BY <1>1, <2>1
  <2>2. CASE l > k
    <3>1. l - 1 \in 1 .. n - 1 /\ from(l - 1) = l
      BY <1>1, <2>2
    <3> QED
      BY <3>1
  <2> QED
    BY <1>1, <2>1, <2>2
<1> HIDE DEF from
<1>8. IsInjective(us)
  BY <1>1, <1>4, <1>5, <1>6 DEF Lines, IsInjective
<1>9. ToSet(us) = ToSet(ts) \ {e}
  <2>1. \A i \in 1 .. n - 1 : us[i] \in ToSet(ts) /\ us[i] # e
    BY <1>1, <1>2, <1>5 DEF Lines, IsInjective, ToSet
  <2>2. \A l \in 1 .. n : ts[l] # e => ts[l] \in ToSet(us)
    BY <1>1, <1>2, <1>4, <1>5, <1>7 DEF ToSet
  <2> QED
    BY <1>1, <1>4, <2>1, <2>2 DEF ToSet
<1>10. \A i, j \in 1 .. n - 1 : i < j =>
         from(i) \in 1 .. n /\ from(j) \in 1 .. n /\ from(i) < from(j)
         /\ ts[from(i)] = us[i] /\ ts[from(j)] = us[j]
  BY <1>5, <1>6
<1> QED
  BY <1>1, <1>4, <1>8, <1>9, <1>10 DEF Lines, us

\* On a line it makes no difference whether an element goes by its place or its name.
LEMMA RemoveAtLine ==
  ASSUME NEW S, NEW ts \in Lines(S), NEW k \in 1 .. Len(ts)
  PROVE  /\ RemoveAt(ts, k) = RemoveFirst(ts, ts[k])
         /\ RemoveAt(ts, k) \in Lines(S) /\ ToSet(RemoveAt(ts, k)) = ToSet(ts) \ {ts[k]}
<1>1. ts \in Seq(S) /\ DOMAIN ts = 1 .. Len(ts)
  BY SeqFacts DEF Lines
<1>2. ts[k] \in ToSet(ts)
  BY <1>1 DEF ToSet
<1>3. PICK j \in 1 .. Len(ts) :
        /\ ts[j] = ts[k]
        /\ RemoveFirst(ts, ts[k]) = [i \in 1 .. Len(ts) - 1 |-> IF i < j THEN ts[i] ELSE ts[i + 1]]
  BY <1>1, <1>2, RemoveFirstIs
<1>4. j = k
  BY <1>1, <1>3 DEF Lines, IsInjective
<1>5. RemoveAt(ts, k) = [i \in 1 .. Len(ts) - 1 |-> IF i < k THEN ts[i] ELSE ts[i + 1]]
  BY <1>1, RemoveAtIs
<1>6. RemoveAt(ts, k) = RemoveFirst(ts, ts[k])
  BY <1>3, <1>4, <1>5
<1> QED
  BY <1>2, <1>6, RemoveFirstLine

\* What is not there is not removed.
LEMMA RemoveFirstNone ==
  ASSUME NEW S, NEW ts \in Seq(S), NEW e, e \notin ToSet(ts) PROVE RemoveFirst(ts, e) = ts
<1>1. ~ \E i \in 1 .. Len(ts) : ts[i] = e
  BY SeqFacts DEF ToSet
<1> QED
  BY <1>1 DEF RemoveFirst

\* InsertAt makes room for an element.
LEMMA InsertAtIs ==
  ASSUME NEW S, NEW ts \in Seq(S), NEW e \in S, NEW k \in 1 .. Len(ts) + 1
  PROVE  InsertAt(ts, k, e) =
           [i \in 1 .. Len(ts) + 1 |-> IF i < k THEN ts[i] ELSE IF i = k THEN e ELSE ts[i - 1]]
<1> DEFINE n == Len(ts)
           a == SubSeq(ts, 1, k - 1)
           b == SubSeq(ts, k, n)
           ab == a \o <<e>>
           us == ab \o b
           vs == [i \in 1 .. n + 1 |-> IF i < k THEN ts[i] ELSE IF i = k THEN e ELSE ts[i - 1]]
<1>1. n \in Nat /\ ts \in [1 .. n -> S] /\ k \in 1 .. n + 1
  BY SeqFacts
<1>2. InsertAt(ts, k, e) = us
  BY DEF InsertAt
<1> HIDE DEF n
<1>3. a \in Seq(S) /\ Len(a) = k - 1 /\ \A i \in 1 .. k - 1 : a[i] = ts[i]
  <2>1. \A i \in 1 .. k - 1 : ts[i] \in S
    BY <1>1
  <2> QED
    BY <1>1, <2>1, SubSeqProperties
<1>4. b \in Seq(S) /\ Len(b) = n - k + 1 /\ \A i \in 1 .. n - k + 1 : b[i] = ts[k + i - 1]
  <2>1. \A i \in k .. n : ts[i] \in S
    BY <1>1
  <2> QED
    BY <1>1, <2>1, SubSeqProperties
<1> HIDE DEF a, b
<1>5. ab \in Seq(S) /\ Len(ab) = k /\ ab[k] = e /\ \A i \in 1 .. k - 1 : ab[i] = ts[i]
  <2>1. <<e>> \in Seq(S) /\ Len(<<e>>) = 1 /\ <<e>>[1] = e
    OBVIOUS
  <2>2. /\ ab \in Seq(S) /\ Len(ab) = Len(a) + Len(<<e>>)
        /\ \A i \in 1 .. Len(a) + Len(<<e>>) :
             ab[i] = IF i <= Len(a) THEN a[i] ELSE <<e>>[i - Len(a)]
    BY <1>3, <2>1, ConcatProperties
  <2> QED
    BY <1>1, <1>3, <2>1, <2>2
<1> HIDE DEF ab
<1>6. /\ us \in Seq(S) /\ Len(us) = Len(ab) + Len(b)
      /\ \A i \in 1 .. Len(ab) + Len(b) : us[i] = IF i <= Len(ab) THEN ab[i] ELSE b[i - Len(ab)]
  BY <1>4, <1>5, ConcatProperties
<1> HIDE DEF us
<1>7. us \in Seq(S) /\ Len(us) = n + 1
  BY <1>1, <1>4, <1>5, <1>6
<1>8. ASSUME NEW i \in 1 .. n + 1
      PROVE  us[i] = IF i < k THEN ts[i] ELSE IF i = k THEN e ELSE ts[i - 1]
  <2>1. CASE i < k
    BY <1>1, <1>4, <1>5, <1>6, <2>1
  <2>2. CASE i = k
    BY <1>1, <1>4, <1>5, <1>6, <2>2
  <2>3. CASE i > k
    <3>1. i - k \in 1 .. n - k + 1 /\ k + (i - k) - 1 = i - 1
      BY <1>1, <2>3
    <3>2. us[i] = b[i - k]
      BY <1>1, <1>4, <1>5, <1>6, <2>3
    <3> QED
      BY <1>4, <2>3, <3>1, <3>2
  <2> QED
    BY <1>1, <2>1, <2>2, <2>3
<1>9. us \in [1 .. n + 1 -> S]
  BY <1>7, SeqFacts
<1>10. us = vs
  BY <1>8, <1>9
<1> QED
  BY <1>2, <1>10 DEF n

\* An element that is not on the list is inserted among the others.
LEMMA InsertAtLine ==
  ASSUME NEW S, NEW ts \in Lines(S), NEW e \in S, e \notin ToSet(ts), NEW k \in 1 .. Len(ts) + 1
  PROVE  InsertAt(ts, k, e) \in Lines(S) /\ ToSet(InsertAt(ts, k, e)) = ToSet(ts) \cup {e}
<1> DEFINE n == Len(ts)
           us == InsertAt(ts, k, e)
<1>1. ts \in Seq(S) /\ n \in Nat /\ DOMAIN ts = 1 .. n /\ ts \in [1 .. n -> S] /\ k \in 1 .. n + 1
  BY SeqFacts DEF Lines
<1>2. us = [i \in 1 .. n + 1 |-> IF i < k THEN ts[i] ELSE IF i = k THEN e ELSE ts[i - 1]]
  BY <1>1, InsertAtIs
<1> HIDE DEF n, us
<1>3. us \in Seq(S) /\ DOMAIN us = 1 .. n + 1
  <2>1. us \in [1 .. n + 1 -> S]
    BY <1>1, <1>2
  <2> QED
    BY <1>1, <2>1, MakeSeq
<1> DEFINE from(i) == IF i < k THEN i ELSE i - 1
<1>4. \A i \in 1 .. n + 1 : i # k => from(i) \in 1 .. n /\ us[i] = ts[from(i)]
  BY <1>1, <1>2
<1>5. \A i, j \in 1 .. n + 1 : i # k /\ j # k /\ from(i) = from(j) => i = j
  BY <1>1
<1>6. \A l \in 1 .. n : \E i \in 1 .. n + 1 : i # k /\ from(i) = l
  <2> SUFFICES ASSUME NEW l \in 1 .. n PROVE \E i \in 1 .. n + 1 : i # k /\ from(i) = l
    OBVIOUS
  <2>1. CASE l < k
    BY <1>1, <2>1
  <2>2. CASE l >= k
    <3>1. l + 1 \in 1 .. n + 1 /\ l + 1 # k /\ from(l + 1) = l
      BY <1>1, <2>2
    <3> QED
      BY <3>1
  <2> QED
    BY <1>1, <2>1, <2>2
<1>7. k \in 1 .. n + 1 /\ us[k] = e
  BY <1>1, <1>2
<1> HIDE DEF from
<1>8. \A l \in 1 .. n : ts[l] # e
  BY <1>1 DEF ToSet
<1>9. IsInjective(us)
  <2> SUFFICES ASSUME NEW i \in 1 .. n + 1, NEW j \in 1 .. n + 1, us[i] = us[j] PROVE i = j
    BY <1>3 DEF IsInjective
  <2>1. CASE i # k /\ j # k
    BY <1>1, <1>4, <1>5, <2>1 DEF Lines, IsInjective
  <2>2. CASE i = k \/ j = k
    BY <1>4, <1>7, <1>8, <2>2
  <2> QED
    BY <2>1, <2>2
<1>10. ToSet(us) = ToSet(ts) \cup {e}
  <2>1. \A i \in 1 .. n + 1 : us[i] \in ToSet(ts) \cup {e}
    BY <1>1, <1>4, <1>7 DEF ToSet
  <2>2. \A l \in 1 .. n : ts[l] \in ToSet(us)
    BY <1>1, <1>3, <1>4, <1>6 DEF ToSet
  <2>3. e \in ToSet(us)
    BY <1>3, <1>7 DEF ToSet
  <2> QED
    BY <1>1, <1>3, <2>1, <2>2, <2>3 DEF ToSet
<1> QED
  BY <1>3, <1>9, <1>10 DEF Lines, us

\* Append is insertion behind the last.
LEMMA AppendInserts ==
  ASSUME NEW S, NEW ts \in Seq(S), NEW e \in S
  PROVE  InsertAt(ts, Len(ts) + 1, e) = Append(ts, e)
<1> DEFINE n == Len(ts) + 1
           us == InsertAt(ts, n, e)
<1>1. n \in 1 .. Len(ts) + 1 /\ Len(ts) \in Nat /\ ts \in [1 .. Len(ts) -> S]
  BY SeqFacts
<1>2. us = [i \in 1 .. Len(ts) + 1 |-> IF i < n THEN ts[i] ELSE IF i = n THEN e ELSE ts[i - 1]]
  BY <1>1, InsertAtIs
<1>3. n = Len(ts) + 1
  OBVIOUS
<1> HIDE DEF n, us
<1>4. us \in [1 .. n -> S] /\ us[n] = e /\ \A i \in 1 .. Len(ts) : us[i] = ts[i]
  BY <1>1, <1>2, <1>3
<1>5. us = Append(ts, e)
  BY <1>3, <1>4, AppendIs
<1> QED
  BY <1>3, <1>5 DEF us

\* Head and Tail part a line.
LEMMA HeadTailLine ==
  ASSUME NEW S, NEW ts \in Lines(S), ts # <<>>
  PROVE  /\ Head(ts) \in ToSet(ts) /\ Head(ts) = ts[1]
         /\ Tail(ts) \in Lines(S) /\ ToSet(Tail(ts)) = ToSet(ts) \ {Head(ts)}
         /\ Len(ts) = 1 <=> Tail(ts) = <<>>
<1> DEFINE n == Len(ts)
           us == Tail(ts)
<1>1. ts \in Seq(S) /\ n \in Nat /\ n # 0 /\ DOMAIN ts = 1 .. n /\ ts \in [1 .. n -> S]
  BY SeqFacts DEF Lines
<1>2. us \in Seq(S) /\ Len(us) = n - 1 /\ \A i \in 1 .. n - 1 : us[i] = ts[i + 1]
  BY <1>1, HeadTailProperties
<1>3. DOMAIN us = 1 .. n - 1 /\ (us = <<>> <=> n - 1 = 0)
  BY <1>2, SeqFacts
<1>4. Head(ts) = ts[1] /\ 1 \in 1 .. n
  BY <1>1
<1> HIDE DEF us, n
<1>5. IsInjective(us)
  BY <1>1, <1>2, <1>3 DEF Lines, IsInjective
<1>6. \A i \in 1 .. n - 1 : i + 1 \in 1 .. n /\ us[i] = ts[i + 1] /\ us[i] # ts[1]
  BY <1>1, <1>2, <1>4 DEF Lines, IsInjective
<1>7. \A l \in 1 .. n : l # 1 => l - 1 \in 1 .. n - 1 /\ us[l - 1] = ts[l]
  BY <1>1, <1>2
<1>8. ToSet(us) = ToSet(ts) \ {ts[1]}
  <2>1. \A i \in 1 .. n - 1 : us[i] \in ToSet(ts) \ {ts[1]}
    BY <1>1, <1>6 DEF ToSet
  <2>2. \A l \in 1 .. n : ts[l] # ts[1] => ts[l] \in ToSet(us)
    BY <1>1, <1>3, <1>7 DEF ToSet
  <2> QED
    BY <1>1, <1>3, <2>1, <2>2 DEF ToSet
<1>9. ts[1] \in ToSet(ts)
  BY <1>1, <1>4 DEF ToSet
<1>10. n = 1 <=> us = <<>>
  BY <1>1, <1>3
<1>11. us \in Lines(S)
  BY <1>2, <1>5 DEF Lines
<1> QED
  BY <1>4, <1>8, <1>9, <1>10, <1>11 DEF us, n

\* Removing the head leaves the tail.
LEMMA RemoveHead ==
  ASSUME NEW S, NEW ts \in Lines(S), ts # <<>> PROVE RemoveFirst(ts, Head(ts)) = Tail(ts)
<1> DEFINE n == Len(ts)
<1>1. ts \in Seq(S) /\ n \in Nat /\ n # 0 /\ DOMAIN ts = 1 .. n /\ Head(ts) = ts[1] /\ Head(ts) \in ToSet(ts)
  BY SeqFacts, HeadTailLine DEF Lines
<1>2. PICK k \in 1 .. n : /\ ts[k] = Head(ts)
                         /\ RemoveFirst(ts, Head(ts)) =
                              [i \in 1 .. n - 1 |-> IF i < k THEN ts[i] ELSE ts[i + 1]]
  BY <1>1, RemoveFirstIs
<1>3. k = 1
  BY <1>1, <1>2 DEF Lines, IsInjective
<1>4. RemoveFirst(ts, Head(ts)) = [i \in 1 .. n - 1 |-> ts[i + 1]]
  BY <1>1, <1>2, <1>3
<1>5. Tail(ts) \in Seq(S) /\ Len(Tail(ts)) = n - 1 /\ \A i \in 1 .. n - 1 : Tail(ts)[i] = ts[i + 1]
  BY <1>1, HeadTailProperties
<1>6. Tail(ts) = [i \in 1 .. n - 1 |-> ts[i + 1]]
  <2>1. DOMAIN Tail(ts) = 1 .. n - 1 /\ Tail(ts) \in [1 .. n - 1 -> S]
    BY <1>5, SeqFacts
  <2> HIDE DEF n
  <2> QED
    BY <1>5, <2>1
<1> QED
  BY <1>4, <1>6

-----------------------------------------------------------------------------
(* Lists that are linked both ways and end in a mark on either side. *)

\* The element at a place of the line, or the mark outside.
Beside(s, none, i) == IF i \in 1 .. Len(s) THEN s[i] ELSE none

\* The ends and the links of the elements are those of line s.
DoublyLinked(nx, pv, first, last, none, s) ==
  /\ first = Beside(s, none, 1) /\ last = Beside(s, none, Len(s))
  /\ \A i \in 1 .. Len(s) :
       nx[s[i]] = Beside(s, none, i + 1) /\ pv[s[i]] = Beside(s, none, i - 1)

\* The links around element e, new before place k, and around the element gone from there.
LinksIn(nx, pv, first, last, nx2, pv2, first2, last2, none, s, k, e) ==
  LET p == Beside(s, none, k - 1)
      n == Beside(s, none, k)
  IN /\ nx2[e] = n /\ pv2[e] = p
     /\ \A x \in ToSet(s) : /\ nx2[x] = (IF x = p THEN e ELSE nx[x])
                            /\ pv2[x] = (IF x = n THEN e ELSE pv[x])
     /\ first2 = (IF p = none THEN e ELSE first) /\ last2 = (IF n = none THEN e ELSE last)

LinksOut(nx, pv, first, last, nx2, pv2, first2, last2, none, s, k) ==
  LET p == Beside(s, none, k - 1)
      n == Beside(s, none, k + 1)
  IN /\ \A x \in ToSet(s) : x # s[k] => /\ nx2[x] = (IF x = p THEN n ELSE nx[x])
                                        /\ pv2[x] = (IF x = n THEN p ELSE pv[x])
     /\ first2 = (IF p = none THEN n ELSE first) /\ last2 = (IF n = none THEN p ELSE last)

\* What a line looks like from its places.
LEMMA BesideIs ==
  ASSUME NEW S, NEW none, none \notin S, NEW s \in Lines(S)
  PROVE  /\ Len(s) \in Nat
         /\ \A i \in 1 .. Len(s) : Beside(s, none, i) = s[i] /\ s[i] \in S /\ s[i] \in ToSet(s)
         /\ \A i \in Int : Beside(s, none, i) \in ToSet(s) \cup {none}
         /\ \A i \in Int : Beside(s, none, i) = none <=> i \notin 1 .. Len(s)
         /\ \A i, j \in 1 .. Len(s) : s[i] = s[j] => i = j
         /\ \A x \in ToSet(s) : \E i \in 1 .. Len(s) : x = s[i]
<1>1. s \in Seq(S) /\ Len(s) \in Nat /\ DOMAIN s = 1 .. Len(s) /\ s \in [1 .. Len(s) -> S]
  BY SeqFacts DEF Lines
<1>2. \A i \in 1 .. Len(s) : Beside(s, none, i) = s[i] /\ s[i] \in S /\ s[i] \in ToSet(s)
  BY <1>1 DEF Beside, ToSet
<1>3. \A i \in Int : Beside(s, none, i) = none <=> i \notin 1 .. Len(s)
  BY <1>1, <1>2 DEF Beside
<1>4. \A i, j \in 1 .. Len(s) : s[i] = s[j] => i = j
  BY <1>1 DEF Lines, IsInjective
<1>5. \A x \in ToSet(s) : \E i \in 1 .. Len(s) : x = s[i]
  BY <1>1 DEF ToSet
<1> QED
  BY <1>1, <1>2, <1>3, <1>4, <1>5

\* An element enters before place k.
LEMMA LinkedInsert ==
  ASSUME NEW S, NEW none, none \notin S, NEW s \in Lines(S), NEW e \in S, e \notin ToSet(s),
         NEW k \in 1 .. Len(s) + 1,
         NEW nx, NEW pv, NEW first, NEW last, DoublyLinked(nx, pv, first, last, none, s),
         NEW nx2, NEW pv2, NEW first2, NEW last2,
         LinksIn(nx, pv, first, last, nx2, pv2, first2, last2, none, s, k, e)
  PROVE  DoublyLinked(nx2, pv2, first2, last2, none, InsertAt(s, k, e))
<1> DEFINE p == Beside(s, none, k - 1)
           n == Beside(s, none, k)
<1>0. /\ p = Beside(s, none, k - 1) /\ n = Beside(s, none, k) /\ nx2[e] = n /\ pv2[e] = p
      /\ \A x \in ToSet(s) : nx2[x] = (IF x = p THEN e ELSE nx[x]) /\ pv2[x] = (IF x = n THEN e ELSE pv[x])
      /\ first2 = (IF p = none THEN e ELSE first) /\ last2 = (IF n = none THEN e ELSE last)
  BY DEF LinksIn
<1> HIDE DEF p, n
<1> USE <1>0
<1> DEFINE m == Len(s)
           u == InsertAt(s, k, e)
<1>1. /\ m \in Nat
      /\ \A i \in 1 .. m : Beside(s, none, i) = s[i] /\ s[i] \in S /\ s[i] \in ToSet(s)
      /\ \A i \in Int : Beside(s, none, i) = none <=> i \notin 1 .. m
      /\ \A i, j \in 1 .. m : s[i] = s[j] => i = j
      /\ s \in Seq(S)
  BY BesideIs DEF Lines
<1>2. u = [i \in 1 .. m + 1 |-> IF i < k THEN s[i] ELSE IF i = k THEN e ELSE s[i - 1]]
  BY <1>1, InsertAtIs
<1>3. Len(u) = m + 1
  <2>1. u \in Lines(S)
    BY InsertAtLine
  <2>2. Len(u) \in Nat /\ DOMAIN u = 1 .. Len(u)
    BY <2>1, SeqFacts DEF Lines
  <2> HIDE DEF u, m
  <2> QED
    BY <1>1, <1>2, <2>2
<1>4. k \in 1 .. m + 1 /\ k - 1 \in Int /\ k \in Int
  BY <1>1
<1> HIDE DEF m, u
<1>5. \A i \in Int : /\ i < k => Beside(u, none, i) = Beside(s, none, i)
                     /\ Beside(u, none, k) = e
                     /\ k < i => Beside(u, none, i) = Beside(s, none, i - 1)
  <2>1. \A i \in Int : i \notin 1 .. m + 1 => Beside(u, none, i) = none
    BY <1>3 DEF Beside
  <2>2. \A i \in 1 .. m + 1 : Beside(u, none, i) = IF i < k THEN s[i] ELSE IF i = k THEN e ELSE s[i - 1]
    BY <1>2, <1>3 DEF Beside
  <2> TAKE i \in Int
  <2>3. Beside(u, none, k) = e
    BY <1>4, <2>2
  <2>4. ASSUME i < k PROVE Beside(u, none, i) = Beside(s, none, i)
    <3>1. CASE i \in 1 .. m
      BY <1>1, <1>4, <2>2, <2>4, <3>1
    <3>2. CASE i \notin 1 .. m
      <4>1. i \notin 1 .. m + 1
        BY <1>1, <1>4, <2>4, <3>2
      <4> QED
        BY <1>1, <2>1, <3>2, <4>1
    <3> QED
      BY <3>1, <3>2
  <2>5. ASSUME k < i PROVE Beside(u, none, i) = Beside(s, none, i - 1)
    <3>1. CASE i \in 1 .. m + 1
      <4>1. i - 1 \in 1 .. m /\ ~(i < k) /\ i # k
        BY <1>1, <1>4, <2>5, <3>1
      <4> QED
        BY <1>1, <2>2, <3>1, <4>1
    <3>2. CASE i \notin 1 .. m + 1
      <4>1. i - 1 \notin 1 .. m /\ i - 1 \in Int
        BY <1>1, <1>4, <2>5, <3>2
      <4> QED
        BY <1>1, <2>1, <3>2, <4>1
    <3> QED
      BY <3>1, <3>2
  <2> QED
    BY <2>3, <2>4, <2>5
<1>6. /\ first = Beside(s, none, 1) /\ last = Beside(s, none, m)
      /\ \A i \in 1 .. m : nx[s[i]] = Beside(s, none, i + 1) /\ pv[s[i]] = Beside(s, none, i - 1)
  BY DEF DoublyLinked, m
<1>7. p = none <=> k = 1
  BY <1>1, <1>4
<1>8. n = none <=> k = m + 1
  BY <1>1, <1>4
<1>9. \A i \in 1 .. m : (s[i] = p <=> i = k - 1) /\ (s[i] = n <=> i = k)
  <2> TAKE i \in 1 .. m
  <2>1. p = s[i] <=> i = k - 1
    <3>1. CASE k - 1 \in 1 .. m
      BY <1>1, <3>1
    <3>2. CASE k - 1 \notin 1 .. m
      <4>1. p = none
        BY <1>1, <1>4, <3>2
      <4> QED
        BY <1>1, <3>2, <4>1
    <3> QED
      BY <3>1, <3>2
  <2>2. n = s[i] <=> i = k
    <3>1. CASE k \in 1 .. m
      BY <1>1, <3>1
    <3>2. CASE k \notin 1 .. m
      <4>1. n = none
        BY <1>1, <1>4, <3>2
      <4> QED
        BY <1>1, <3>2, <4>1
    <3> QED
      BY <3>1, <3>2
  <2> QED
    BY <2>1, <2>2
<1>10. ASSUME NEW i \in 1 .. m + 1
       PROVE  nx2[u[i]] = Beside(u, none, i + 1) /\ pv2[u[i]] = Beside(u, none, i - 1)
  <2>1. CASE i < k
    <3>1. i \in 1 .. m /\ u[i] = s[i] /\ s[i] \in ToSet(s) /\ s[i] # n /\ i - 1 \in Int /\ i - 1 < k
      BY <1>1, <1>2, <1>4, <1>9, <2>1
    <3>2. pv2[u[i]] = Beside(s, none, i - 1)
      BY <1>6, <3>1
    <3>3. pv2[u[i]] = Beside(u, none, i - 1)
      BY <1>5, <3>1, <3>2
    <3>4. CASE i = k - 1
      <4>1. nx2[u[i]] = e /\ i + 1 = k
        BY <1>4, <1>9, <3>1, <3>4
      <4> QED
        BY <1>5, <3>3, <4>1
    <3>5. CASE i # k - 1
      <4>1. nx2[u[i]] = Beside(s, none, i + 1) /\ i + 1 \in Int /\ i + 1 < k
        BY <1>4, <1>6, <1>9, <2>1, <3>1, <3>5
      <4> QED
        BY <1>5, <3>3, <4>1
    <3> QED
      BY <3>4, <3>5
  <2>2. CASE i = k
    <3>1. u[i] = e
      BY <1>2, <2>2
    <3>2. i + 1 \in Int /\ k < i + 1 /\ (i + 1) - 1 = k /\ i - 1 \in Int /\ i - 1 < k /\ i - 1 = k - 1
      BY <1>4, <2>2
    <3>3. Beside(u, none, i + 1) = Beside(s, none, k) /\ Beside(u, none, i - 1) = Beside(s, none, k - 1)
      BY <1>5, <3>2
    <3> QED
      BY <3>1, <3>3
  <2>3. CASE k < i
    <3>1. /\ i - 1 \in 1 .. m /\ u[i] = s[i - 1] /\ s[i - 1] \in ToSet(s) /\ s[i - 1] # p
          /\ i + 1 \in Int /\ k < i + 1 /\ (i + 1) - 1 = i /\ (i - 1) + 1 = i
      BY <1>1, <1>2, <1>4, <1>9, <2>3
    <3>2. nx2[u[i]] = Beside(s, none, i)
      BY <1>6, <3>1
    <3>3. nx2[u[i]] = Beside(u, none, i + 1)
      BY <1>5, <3>1, <3>2
    <3>4. CASE i = k + 1
      <4>1. pv2[u[i]] = e /\ i - 1 = k
        BY <1>4, <1>9, <3>1, <3>4
      <4> QED
        BY <1>4, <1>5, <3>3, <4>1
    <3>5. CASE i # k + 1
      <4>1. i - 1 # k /\ i - 1 \in Int /\ k < i - 1
        BY <1>4, <2>3, <3>5
      <4>2. pv2[u[i]] = Beside(s, none, (i - 1) - 1)
        BY <1>6, <1>9, <3>1, <4>1
      <4> QED
        BY <1>5, <3>3, <4>1, <4>2
    <3> QED
      BY <3>4, <3>5
  <2> QED
    BY <1>4, <2>1, <2>2, <2>3
<1>11. (IF p = none THEN e ELSE first) = Beside(u, none, 1)
  <2>1. CASE k = 1
    BY <1>4, <1>5, <1>7, <2>1
  <2>2. CASE k # 1
    <3>1. 1 \in Int /\ 1 < k
      BY <1>1, <1>4, <2>2
    <3> QED
      BY <1>5, <1>6, <1>7, <2>2, <3>1
  <2> QED
    BY <2>1, <2>2
<1>12. (IF n = none THEN e ELSE last) = Beside(u, none, m + 1)
  <2>1. CASE k = m + 1
    BY <1>4, <1>5, <1>8, <2>1
  <2>2. CASE k # m + 1
    <3>1. m + 1 \in Int /\ k < m + 1 /\ (m + 1) - 1 = m
      BY <1>1, <1>4, <2>2
    <3> QED
      BY <1>5, <1>6, <1>8, <2>2, <3>1
  <2> QED
    BY <2>1, <2>2
<1>13. DoublyLinked(nx2, pv2, first2, last2, none, u)
  BY <1>3, <1>10, <1>11, <1>12 DEF DoublyLinked
<1> QED
  BY <1>13 DEF u

\* The element at place k leaves.
LEMMA LinkedRemove ==
  ASSUME NEW S, NEW none, none \notin S, NEW s \in Lines(S), NEW k \in 1 .. Len(s),
         NEW nx, NEW pv, NEW first, NEW last, DoublyLinked(nx, pv, first, last, none, s),
         NEW nx2, NEW pv2, NEW first2, NEW last2,
         LinksOut(nx, pv, first, last, nx2, pv2, first2, last2, none, s, k)
  PROVE  DoublyLinked(nx2, pv2, first2, last2, none, RemoveAt(s, k))
<1> DEFINE p == Beside(s, none, k - 1)
           n == Beside(s, none, k + 1)
<1>0. /\ p = Beside(s, none, k - 1) /\ n = Beside(s, none, k + 1)
      /\ \A x \in ToSet(s) : x # s[k] => /\ nx2[x] = (IF x = p THEN n ELSE nx[x])
                                         /\ pv2[x] = (IF x = n THEN p ELSE pv[x])
      /\ first2 = (IF p = none THEN n ELSE first) /\ last2 = (IF n = none THEN p ELSE last)
  BY DEF LinksOut
<1> HIDE DEF p, n
<1> USE <1>0
<1> DEFINE m == Len(s)
           u == RemoveAt(s, k)
<1>1. /\ m \in Nat
      /\ \A i \in 1 .. m : Beside(s, none, i) = s[i] /\ s[i] \in S /\ s[i] \in ToSet(s)
      /\ \A i \in Int : Beside(s, none, i) = none <=> i \notin 1 .. m
      /\ \A i, j \in 1 .. m : s[i] = s[j] => i = j
      /\ s \in Seq(S)
  BY BesideIs DEF Lines
<1>2. u = [i \in 1 .. m - 1 |-> IF i < k THEN s[i] ELSE s[i + 1]]
  BY <1>1, RemoveAtIs
<1>3. Len(u) = m - 1
  <2>1. u \in Lines(S)
    BY RemoveAtLine
  <2>2. Len(u) \in Nat /\ DOMAIN u = 1 .. Len(u)
    BY <2>1, SeqFacts DEF Lines
  <2>3. k \in 1 .. m
    OBVIOUS
  <2> HIDE DEF u, m
  <2> QED
    BY <1>1, <1>2, <2>2, <2>3
<1>4. k \in 1 .. m /\ k - 1 \in Int /\ k + 1 \in Int
  BY <1>1
<1> HIDE DEF m, u
<1>5. \A i \in Int : /\ i < k => Beside(u, none, i) = Beside(s, none, i)
                     /\ ~(i < k) => Beside(u, none, i) = Beside(s, none, i + 1)
  <2>1. \A i \in Int : i \notin 1 .. m - 1 => Beside(u, none, i) = none
    BY <1>3 DEF Beside
  <2>2. \A i \in 1 .. m - 1 : Beside(u, none, i) = IF i < k THEN s[i] ELSE s[i + 1]
    BY <1>2, <1>3 DEF Beside
  <2> TAKE i \in Int
  <2>3. ASSUME i < k PROVE Beside(u, none, i) = Beside(s, none, i)
    <3>1. CASE i \in 1 .. m - 1
      <4>1. i \in 1 .. m
        BY <1>1, <3>1
      <4> QED
        BY <1>1, <2>2, <2>3, <3>1, <4>1
    <3>2. CASE i \notin 1 .. m - 1
      <4>1. i \notin 1 .. m
        BY <1>1, <1>4, <2>3, <3>2
      <4> QED
        BY <1>1, <2>1, <3>2, <4>1
    <3> QED
      BY <3>1, <3>2
  <2>4. ASSUME ~(i < k) PROVE Beside(u, none, i) = Beside(s, none, i + 1)
    <3>1. CASE i \in 1 .. m - 1
      <4>1. i + 1 \in 1 .. m
        BY <1>1, <3>1
      <4> QED
        BY <1>1, <2>2, <2>4, <3>1, <4>1
    <3>2. CASE i \notin 1 .. m - 1
      <4>1. i + 1 \notin 1 .. m /\ i + 1 \in Int
        BY <1>1, <1>4, <2>4, <3>2
      <4> QED
        BY <1>1, <2>1, <3>2, <4>1
    <3> QED
      BY <3>1, <3>2
  <2> QED
    BY <2>3, <2>4
<1>6. /\ first = Beside(s, none, 1) /\ last = Beside(s, none, m)
      /\ \A i \in 1 .. m : nx[s[i]] = Beside(s, none, i + 1) /\ pv[s[i]] = Beside(s, none, i - 1)
  BY DEF DoublyLinked, m
<1>7. p = none <=> k = 1
  BY <1>1, <1>4
<1>8. n = none <=> k = m
  BY <1>1, <1>4
<1>9. \A i \in 1 .. m : (s[i] = p <=> i = k - 1) /\ (s[i] = n <=> i = k + 1)
  <2> TAKE i \in 1 .. m
  <2>1. p = s[i] <=> i = k - 1
    <3>1. CASE k - 1 \in 1 .. m
      BY <1>1, <3>1
    <3>2. CASE k - 1 \notin 1 .. m
      <4>1. p = none
        BY <1>1, <1>4, <3>2
      <4> QED
        BY <1>1, <3>2, <4>1
    <3> QED
      BY <3>1, <3>2
  <2>2. n = s[i] <=> i = k + 1
    <3>1. CASE k + 1 \in 1 .. m
      BY <1>1, <3>1
    <3>2. CASE k + 1 \notin 1 .. m
      <4>1. n = none
        BY <1>1, <1>4, <3>2
      <4> QED
        BY <1>1, <3>2, <4>1
    <3> QED
      BY <3>1, <3>2
  <2> QED
    BY <2>1, <2>2
<1>10. ASSUME NEW i \in 1 .. m - 1
       PROVE  nx2[u[i]] = Beside(u, none, i + 1) /\ pv2[u[i]] = Beside(u, none, i - 1)
  <2>1. CASE i < k
    <3>1. /\ i \in 1 .. m /\ u[i] = s[i] /\ s[i] \in ToSet(s) /\ s[i] # s[k] /\ s[i] # n
          /\ i - 1 \in Int /\ i - 1 < k
      BY <1>1, <1>2, <1>4, <1>9, <2>1
    <3>2. pv2[u[i]] = Beside(s, none, i - 1)
      BY <1>6, <3>1
    <3>3. pv2[u[i]] = Beside(u, none, i - 1)
      BY <1>5, <3>1, <3>2
    <3>4. CASE i = k - 1
      <4>1. nx2[u[i]] = n /\ i + 1 = k /\ i + 1 \in Int /\ ~(i + 1 < k) /\ (i + 1) + 1 = k + 1
        BY <1>4, <1>9, <3>1, <3>4
      <4> QED
        BY <1>5, <3>3, <4>1
    <3>5. CASE i # k - 1
      <4>1. nx2[u[i]] = Beside(s, none, i + 1) /\ i + 1 \in Int /\ i + 1 < k
        BY <1>4, <1>6, <1>9, <2>1, <3>1, <3>5
      <4> QED
        BY <1>5, <3>3, <4>1
    <3> QED
      BY <3>4, <3>5
  <2>2. CASE ~(i < k)
    <3>1. /\ i + 1 \in 1 .. m /\ u[i] = s[i + 1] /\ s[i + 1] \in ToSet(s) /\ s[i + 1] # s[k]
          /\ s[i + 1] # p /\ i + 1 \in Int /\ ~(i + 1 < k)
      BY <1>1, <1>2, <1>4, <1>9, <2>2
    <3>2. nx2[u[i]] = Beside(s, none, (i + 1) + 1)
      BY <1>6, <3>1
    <3>3. nx2[u[i]] = Beside(u, none, i + 1)
      BY <1>5, <3>1, <3>2
    <3>4. CASE i = k
      <4>1. pv2[u[i]] = p /\ i - 1 \in Int /\ i - 1 < k /\ i - 1 = k - 1
        BY <1>4, <1>9, <3>1, <3>4
      <4> QED
        BY <1>5, <3>3, <4>1
    <3>5. CASE i # k
      <4>1. i - 1 \in Int /\ ~(i - 1 < k) /\ (i - 1) + 1 = i /\ (i + 1) - 1 = i
        BY <1>4, <2>2, <3>5
      <4>2. pv2[u[i]] = Beside(s, none, i)
        <5>1. i + 1 # k + 1
          BY <1>4, <3>1, <3>5
        <5>2. s[i + 1] # n
          BY <1>9, <3>1, <5>1
        <5>3. pv2[s[i + 1]] = pv[s[i + 1]]
          BY <3>1, <5>2
        <5>4. pv[s[i + 1]] = Beside(s, none, (i + 1) - 1)
          BY <1>6, <3>1
        <5> QED
          BY <3>1, <4>1, <5>3, <5>4
      <4> QED
        BY <1>5, <3>3, <4>1, <4>2
    <3> QED
      BY <3>4, <3>5
  <2> QED
    BY <2>1, <2>2
<1>11. (IF p = none THEN n ELSE first) = Beside(u, none, 1)
  <2>1. CASE k = 1
    <3>1. 1 \in Int /\ ~(1 < k) /\ 1 + 1 = k + 1
      BY <2>1
    <3> QED
      BY <1>5, <1>7, <2>1, <3>1
  <2>2. CASE k # 1
    <3>1. 1 \in Int /\ 1 < k
      BY <1>1, <1>4, <2>2
    <3> QED
      BY <1>5, <1>6, <1>7, <2>2, <3>1
  <2> QED
    BY <2>1, <2>2
<1>12. (IF n = none THEN p ELSE last) = Beside(u, none, m - 1)
  <2>1. CASE k = m
    <3>1. m - 1 \in Int /\ m - 1 < k /\ m - 1 = k - 1
      BY <1>1, <1>4, <2>1
    <3> QED
      BY <1>5, <1>8, <2>1, <3>1
  <2>2. CASE k # m
    <3>1. m - 1 \in Int /\ ~(m - 1 < k) /\ (m - 1) + 1 = m
      BY <1>1, <1>4, <2>2
    <3> QED
      BY <1>5, <1>6, <1>8, <2>2, <3>1
  <2> QED
    BY <2>1, <2>2
<1>13. DoublyLinked(nx2, pv2, first2, last2, none, u)
  BY <1>3, <1>10, <1>11, <1>12 DEF DoublyLinked
<1> QED
  BY <1>13 DEF u

-----------------------------------------------------------------------------
(* Counting, and recursion with a step of its own for each number. *)

\* A list without repetition is as long as its set is large.
LEMMA LineCount ==
  ASSUME NEW S, NEW ts \in Lines(S)
  PROVE  /\ Len(ts) \in Nat /\ IsFiniteSet(ToSet(ts)) /\ Cardinality(ToSet(ts)) = Len(ts)
         /\ IsFiniteSet(S) => Cardinality(S) \in Nat /\ Len(ts) <= Cardinality(S)
<1> DEFINE n == Len(ts)
           I == 1 .. n
<1>1. ts \in Seq(S) /\ n \in Nat /\ DOMAIN ts = I /\ ts \in [I -> S] /\ ToSet(ts) \subseteq S
  BY SeqFacts DEF Lines
<1>2. ts \in Bijection(I, ToSet(ts))
  <2>1. ts \in [I -> ToSet(ts)] /\ \A y \in ToSet(ts) : \E i \in I : ts[i] = y
    BY <1>1 DEF ToSet
  <2>2. \A i, j \in I : ts[i] = ts[j] => i = j
    BY <1>1 DEF Lines, IsInjective
  <2> HIDE DEF I
  <2> QED
    BY <2>1, <2>2 DEF Bijection, Injection, Surjection, IsInjective
<1>3. IsFiniteSet(I) /\ Cardinality(I) = n
  <2>1. n \in Int /\ n >= 0
    BY <1>1
  <2> HIDE DEF n
  <2> QED
    BY <2>1, FS_Interval
<1> HIDE DEF I, n
<1>4. ExistsBijection(I, ToSet(ts))
  BY <1>2 DEF ExistsBijection
<1>5. IsFiniteSet(ToSet(ts)) /\ Cardinality(ToSet(ts)) = n
  BY <1>3, <1>4, FS_Bijection
<1>6. IsFiniteSet(S) => Cardinality(S) \in Nat /\ n <= Cardinality(S)
  BY <1>1, <1>5, FS_Subset, FS_CardinalityType
<1> QED
  BY <1>1, <1>5, <1>6 DEF n

\* f takes a step of its own for each number.
Stepped(f, G, a) == f[0] = a /\ \A n \in Nat : f[n + 1] = G[<<n, f[n]>>]

LEMMA Recurs ==
  ASSUME NEW S, NEW G \in [Nat \X S -> S], NEW a \in S
  PROVE  \E f \in [Nat -> S] : Stepped(f, G, a)
<1> DEFINE P == Nat \X S
           H == [p \in P |-> <<p[1] + 1, G[p]>>]
           first == <<0, a>>
<1>1. first \in P /\ H \in [P -> P]
  <2>1. ASSUME NEW p \in P PROVE <<p[1] + 1, G[p]>> \in P
    <3>1. p[1] \in Nat /\ G[p] \in S
      OBVIOUS
    <3>2. p[1] + 1 \in Nat
      BY <3>1
    <3> QED
      BY <3>1, <3>2
  <2> QED
    BY <2>1
<1>2. \A p \in P : H[p] = <<p[1] + 1, G[p]>>
  OBVIOUS
<1> HIDE DEF H, first
<1>3. PICK g \in [Nat -> P] : Iterated(g, H, first)
  <2> HIDE DEF P
  <2> QED
    BY <1>1, Iterates
<1>4. g[0] = <<0, a>> /\ \A n \in Nat : g[n + 1] = H[g[n]] /\ g[n] \in P
  BY <1>3 DEF Iterated, first
<1> DEFINE T == {n \in Nat : g[n][1] = n}
<1>5. 0 \in T
  BY <1>4
<1>6. ASSUME NEW n \in Nat, n \in T PROVE n + 1 \in T
  <2>1. g[n + 1] = <<g[n][1] + 1, G[g[n]]>>
    BY <1>2, <1>4
  <2> QED
    BY <1>6, <2>1
<1>7. \A n \in Nat : g[n][1] = n
  <2>1. Nat \subseteq T
    <3> HIDE DEF T
    <3> QED
      BY <1>5, <1>6, SetInduction
  <2> QED
    BY <2>1
<1> DEFINE f == [n \in Nat |-> g[n][2]]
<1>8. f \in [Nat -> S] /\ f[0] = a
  BY <1>4
<1>9. ASSUME NEW n \in Nat PROVE f[n + 1] = G[<<n, f[n]>>]
  <2>1. g[n] = <<n, f[n]>>
    BY <1>4, <1>7
  <2>2. n + 1 \in Nat
    OBVIOUS
  <2>3. g[n + 1] = <<g[n][1] + 1, G[g[n]]>>
    BY <1>2, <1>4
  <2>4. f[n + 1] = g[n + 1][2]
    BY <2>2
  <2> HIDE DEF f
  <2> QED
    BY <2>1, <2>3, <2>4
<1> HIDE DEF f
<1> QED
  BY <1>8, <1>9 DEF Stepped
=============================================================================
