---------------------------- MODULE OSHeapProofs ----------------------------
(***************************************************************************)
(* Proofs about the heaps, for any arena, areas and number of heaps, and   *)
(* for any sizes but those that OSAllocFromHeap rounds up to 2^31 or more: *)
(* it takes them for negative, and SizesFit rules them out.                *)
(*                                                                         *)
(* A list of cells is described without its places: by the set S of its    *)
(* cells and a rank r of each, so that next and prev lead to the cell of   *)
(* S with the next higher and lower rank (Chain).  The rank of a free cell *)
(* is its address; that of an allocated one says how late it was added.    *)
(***************************************************************************)
EXTENDS OSHeapProps, SequenceFacts

-----------------------------------------------------------------------------
(* Lists in memory. *)

Mem == [Addresses -> [prev : Int, next : Int, size : Int, hd : Int]]
Ranks == [Addresses -> Int]
ByAddress == [y \in Addresses |-> y]

LEMMA AddressIs == ASSUME NEW x \in Addresses PROVE x \in Int /\ x > 0 /\ x # Null
BY HeapAssumption DEF Addresses, Null

LEMMA LoadIs == ASSUME NEW c, NEW x \in Addresses PROVE Load(c, x) = c[x]
BY DEF Load

\* Cell y comes right after cell x.
Follows(S, r, x, y) ==
  x \in S /\ y \in S /\ r[x] < r[y] /\ \A z \in S : ~(r[x] < r[z] /\ r[z] < r[y])

Chain(c, head, S, r) ==
  /\ \A x, y \in S : r[x] = r[y] => x = y
  /\ \A x \in S : c[x].next = Null => \A z \in S : r[z] <= r[x]
  /\ \A x \in S : c[x].next # Null => Follows(S, r, x, c[x].next)
  /\ \A x \in S : c[x].prev = Null => \A z \in S : r[x] <= r[z]
  /\ \A x \in S : c[x].prev # Null => Follows(S, r, c[x].prev, x)
  /\ head = Null => S = {}
  /\ head # Null => head \in S /\ \A z \in S : r[head] <= r[z]

\* The links of y without x between its neighbours.
Bypass(c, d, x, S) ==
  \A y \in S \ {x} :
    /\ d[y].next = IF y = c[x].prev THEN c[x].next ELSE c[y].next
    /\ d[y].prev = IF y = c[x].next THEN c[x].prev ELSE c[y].prev

\* Cell x is put between prev and next, which are neighbours or ends.
Enter(c, d, x, prev, next, S) ==
  /\ d[x].next = next /\ d[x].prev = prev
  /\ \A y \in S : /\ d[y].next = IF y = prev THEN x ELSE c[y].next
                  /\ d[y].prev = IF y = next THEN x ELSE c[y].prev

\* Where x belongs by its rank.
Place(S, r, x, prev, next) ==
  /\ prev = Null => \A z \in S : r[x] < r[z]
  /\ prev # Null => prev \in S /\ r[prev] < r[x] /\ \A z \in S : r[z] <= r[prev] \/ r[x] < r[z]
  /\ next = Null => \A z \in S : r[z] < r[x]
  /\ next # Null => next \in S /\ r[x] < r[next] /\ \A z \in S : r[z] < r[x] \/ r[next] <= r[z]

LEMMA ChainRemove ==
  ASSUME NEW S \in SUBSET Addresses, NEW r \in Ranks, NEW c, NEW d, NEW head, NEW x \in S,
         Chain(c, head, S, r), Bypass(c, d, x, S)
  PROVE  Chain(d, IF c[x].prev = Null THEN c[x].next ELSE head, S \ {x}, r)
<1> DEFINE T == S \ {x}
           p == c[x].prev
           n == c[x].next
           h == IF p = Null THEN n ELSE head
<1>0. \A y \in S : r[y] \in Int
  BY DEF Ranks
<1>8. \A y \in T : r[y] < r[x] \/ r[x] < r[y]
  BY <1>0 DEF Chain
<1>1. \A y, z \in T : r[y] = r[z] => y = z
  BY DEF Chain
<1>2. ASSUME NEW y \in T, d[y].next = Null PROVE \A z \in T : r[z] <= r[y]
  <2>1. CASE y = p /\ n = Null
    <3>1. Follows(S, r, y, x) /\ \A z \in S : r[z] <= r[x]
      BY <2>1, AddressIs DEF Chain
    <3> QED
      BY <1>0, <1>8, <3>1 DEF Follows
  <2>2. CASE c[y].next = Null
    BY <1>2, <2>2 DEF Chain
  <2> QED
    BY <1>2, <2>1, <2>2 DEF Bypass
<1>3. ASSUME NEW y \in T, d[y].next # Null PROVE Follows(T, r, y, d[y].next)
  <2>1. CASE y = p
    <3>1. n # Null /\ d[y].next = n
      BY <1>3, <2>1 DEF Bypass
    <3>2. Follows(S, r, x, n) /\ (p # Null => Follows(S, r, p, x))
      BY <3>1 DEF Chain
    <3>3. p # Null
      <4> SUFFICES ASSUME p = Null PROVE FALSE
        OBVIOUS
      <4>1. y = Null
        BY <2>1
      <4> QED
        BY <4>1, AddressIs
    <3> QED
      BY <1>0, <1>8, <2>1, <3>1, <3>2, <3>3 DEF Follows
  <2>2. CASE y # p
    <3>1. d[y].next = c[y].next /\ Follows(S, r, y, c[y].next)
      BY <1>3, <2>2 DEF Chain, Bypass
    <3>2. c[y].next # x
      <4> SUFFICES ASSUME c[y].next = x PROVE FALSE
        OBVIOUS
      <4>1. Follows(S, r, y, x)
        BY <3>1
      <4>2. p # Null /\ Follows(S, r, p, x)
        BY <1>0, <4>1 DEF Chain, Follows
      <4>3. r[p] = r[y]
        BY <1>0, <4>1, <4>2 DEF Follows
      <4> QED
        BY <2>2, <4>2, <4>3 DEF Chain, Follows
    <3> QED
      BY <3>1, <3>2 DEF Follows
  <2> QED
    BY <2>1, <2>2
<1>4. ASSUME NEW y \in T, d[y].prev = Null PROVE \A z \in T : r[y] <= r[z]
  <2>1. CASE y = n /\ p = Null
    <3>1. \A z \in S : r[x] <= r[z]
      BY <2>1 DEF Chain
    <3>2. Follows(S, r, x, y)
      <4>1. n # Null
        BY <2>1, AddressIs
      <4> QED
        BY <2>1, <4>1 DEF Chain
    <3> QED
      BY <1>0, <1>8, <3>1, <3>2 DEF Follows
  <2>2. CASE c[y].prev = Null
    BY <1>4, <2>2 DEF Chain
  <2> QED
    BY <1>4, <2>1, <2>2 DEF Bypass
<1>5. ASSUME NEW y \in T, d[y].prev # Null PROVE Follows(T, r, d[y].prev, y)
  <2>1. CASE y = n
    <3>1. p # Null /\ d[y].prev = p
      BY <1>5, <2>1 DEF Bypass
    <3>2. Follows(S, r, p, x) /\ (n # Null => Follows(S, r, x, n))
      BY <3>1 DEF Chain
    <3>3. n # Null
      BY <2>1, AddressIs
    <3> QED
      BY <1>0, <1>8, <2>1, <3>1, <3>2, <3>3 DEF Follows
  <2>2. CASE y # n
    <3>1. d[y].prev = c[y].prev /\ Follows(S, r, c[y].prev, y)
      BY <1>5, <2>2 DEF Chain, Bypass
    <3>2. c[y].prev # x
      <4> SUFFICES ASSUME c[y].prev = x PROVE FALSE
        OBVIOUS
      <4>1. Follows(S, r, x, y)
        BY <3>1
      <4>2. n # Null /\ Follows(S, r, x, n)
        BY <1>0, <4>1 DEF Chain, Follows
      <4>3. r[n] = r[y]
        BY <1>0, <4>1, <4>2 DEF Follows
      <4> QED
        BY <2>2, <4>2, <4>3 DEF Chain, Follows
    <3> QED
      BY <3>1, <3>2 DEF Follows
  <2> QED
    BY <2>1, <2>2
<1>6. h = Null => T = {}
  BY <1>0 DEF Chain, Follows
<1>7. h # Null => h \in T /\ \A z \in T : r[h] <= r[z]
  BY <1>0 DEF Chain, Follows
<1> HIDE DEF T, h
<1>9. Chain(d, h, T, r)
  BY <1>1, <1>2, <1>3, <1>4, <1>5, <1>6, <1>7 DEF Chain
<1> QED
  BY <1>9 DEF h, T

LEMMA ChainAdd ==
  ASSUME NEW S \in SUBSET Addresses, NEW r \in Ranks, NEW c, NEW d, NEW head,
         NEW x \in Addresses, x \notin S, NEW prev, NEW next,
         Chain(c, head, S, r), Place(S, r, x, prev, next), Enter(c, d, x, prev, next, S)
  PROVE  Chain(d, IF prev = Null THEN x ELSE head, S \cup {x}, r)
<1> DEFINE T == S \cup {x}
           h == IF prev = Null THEN x ELSE head
<1>0. (\A y \in T : r[y] \in Int) /\ x # Null /\ \A y \in S : y # Null
  BY AddressIs DEF Ranks
<1>1. \A y, z \in T : r[y] = r[z] => y = z
  <2>1. \A z \in S : r[x] # r[z]
    BY <1>0 DEF Place
  <2> QED
    BY <2>1 DEF Chain
<1>2. ASSUME NEW y \in T, d[y].next = Null PROVE \A z \in T : r[z] <= r[y]
  <2>1. CASE y = x
    BY <1>0, <1>2, <2>1 DEF Enter, Place
  <2>2. CASE y \in S
    <3>1. y # prev /\ c[y].next = Null
      BY <1>0, <1>2, <2>2 DEF Enter
    <3>2. r[x] <= r[y]
      BY <1>0, <2>2, <3>1 DEF Chain, Place
    <3> QED
      BY <1>0, <2>2, <3>1, <3>2 DEF Chain
  <2> QED
    BY <2>1, <2>2
<1>3. ASSUME NEW y \in T, d[y].next # Null PROVE Follows(T, r, y, d[y].next)
  <2>1. CASE y = x
    <3>1. d[y].next = next /\ next # Null
      BY <1>3, <2>1 DEF Enter
    <3> QED
      BY <1>0, <2>1, <3>1 DEF Place, Follows
  <2>2. CASE y \in S /\ y = prev
    <3>1. d[y].next = x
      BY <2>2 DEF Enter
    <3> QED
      BY <1>0, <2>2, <3>1 DEF Place, Follows
  <2>3. CASE y \in S /\ y # prev
    <3>1. d[y].next = c[y].next /\ Follows(S, r, y, c[y].next)
      BY <1>3, <2>3 DEF Enter, Chain
    <3>2. ~(r[y] < r[x] /\ r[x] < r[c[y].next])
      <4> SUFFICES ASSUME r[y] < r[x], r[x] < r[c[y].next] PROVE FALSE
        OBVIOUS
      <4>1. prev # Null /\ prev \in S /\ r[prev] < r[x] /\ r[y] <= r[prev]
        BY <1>0, <2>3 DEF Place
      <4>2. r[y] # r[prev]
        BY <2>3, <4>1 DEF Chain
      <4>3. r[y] < r[prev] /\ r[prev] < r[c[y].next]
        BY <1>0, <2>3, <3>1, <4>1, <4>2 DEF Follows
      <4> QED
        BY <3>1, <4>1, <4>3 DEF Follows
    <3> QED
      BY <3>1, <3>2 DEF Follows
  <2> QED
    BY <2>1, <2>2, <2>3
<1>4. ASSUME NEW y \in T, d[y].prev = Null PROVE \A z \in T : r[y] <= r[z]
  <2>1. CASE y = x
    BY <1>0, <1>4, <2>1 DEF Enter, Place
  <2>2. CASE y \in S
    <3>1. y # next /\ c[y].prev = Null
      BY <1>0, <1>4, <2>2 DEF Enter
    <3>2. r[y] <= r[x]
      BY <1>0, <2>2, <3>1 DEF Chain, Place
    <3> QED
      BY <1>0, <2>2, <3>1, <3>2 DEF Chain
  <2> QED
    BY <2>1, <2>2
<1>5. ASSUME NEW y \in T, d[y].prev # Null PROVE Follows(T, r, d[y].prev, y)
  <2>1. CASE y = x
    <3>1. d[y].prev = prev /\ prev # Null
      BY <1>5, <2>1 DEF Enter
    <3> QED
      BY <1>0, <2>1, <3>1 DEF Place, Follows
  <2>2. CASE y \in S /\ y = next
    <3>1. d[y].prev = x
      BY <2>2 DEF Enter
    <3> QED
      BY <1>0, <2>2, <3>1 DEF Place, Follows
  <2>3. CASE y \in S /\ y # next
    <3>1. d[y].prev = c[y].prev /\ Follows(S, r, c[y].prev, y)
      BY <1>5, <2>3 DEF Enter, Chain
    <3>2. ~(r[c[y].prev] < r[x] /\ r[x] < r[y])
      <4> SUFFICES ASSUME r[c[y].prev] < r[x], r[x] < r[y] PROVE FALSE
        OBVIOUS
      <4>1. next # Null /\ next \in S /\ r[x] < r[next] /\ r[next] <= r[y]
        BY <1>0, <2>3 DEF Place
      <4>2. r[y] # r[next]
        BY <2>3, <4>1 DEF Chain
      <4>3. r[next] < r[y] /\ r[c[y].prev] < r[next]
        BY <1>0, <2>3, <3>1, <4>1, <4>2 DEF Follows
      <4> QED
        BY <3>1, <4>1, <4>3 DEF Follows
    <3> QED
      BY <3>1, <3>2 DEF Follows
  <2> QED
    BY <2>1, <2>2, <2>3
<1>6. h = Null => T = {}
  BY <1>0 DEF Chain, Place
<1>7. h # Null => h \in T /\ \A z \in T : r[h] <= r[z]
  BY <1>0 DEF Chain, Place
<1> HIDE DEF T, h
<1>8. Chain(d, h, T, r)
  BY <1>1, <1>2, <1>3, <1>4, <1>5, <1>6, <1>7 DEF Chain
<1> QED
  BY <1>8 DEF h, T

\* A list is about its own cells.
LEMMA ChainSame ==
  ASSUME NEW S, NEW r, NEW c, NEW d, NEW head, Chain(c, head, S, r),
         \A y \in S : d[y].next = c[y].next /\ d[y].prev = c[y].prev
  PROVE  Chain(d, head, S, r)
BY DEF Chain

-----------------------------------------------------------------------------
(* Walks. *)

LEMMA TopNat == Top \in Nat /\ \A n \in {DefaultHi} \cup BootHis : n <= Top
<1> DEFINE B == {DefaultHi} \cup BootHis
           T == {n \in Nat : \A S \in SUBSET Nat : IsFiniteSet(S) /\ Cardinality(S) = n /\ S # {} =>
                               \E x \in S : \A y \in S : y <= x}
<1>1. 0 \in T
  BY FS_EmptySet
<1>2. ASSUME NEW n \in Nat, n \in T PROVE n + 1 \in T
  <2> SUFFICES ASSUME NEW S \in SUBSET Nat, IsFiniteSet(S), Cardinality(S) = n + 1
               PROVE  S # {} => \E x \in S : \A y \in S : y <= x
    BY <1>2
  <2> SUFFICES ASSUME NEW a \in S PROVE \E x \in S : \A y \in S : y <= x
    OBVIOUS
  <2>1. IsFiniteSet(S \ {a}) /\ Cardinality(S \ {a}) = n
    BY FS_RemoveElement
  <2>2. CASE S \ {a} = {}
    BY <2>2
  <2>3. CASE S \ {a} # {}
    <3>1. PICK x \in S \ {a} : \A y \in S \ {a} : y <= x
      BY <1>2, <2>1, <2>3
    <3>2. CASE a <= x
      BY <3>1, <3>2
    <3>3. CASE ~(a <= x)
      <4>1. \A y \in S : y <= a
        BY <3>1, <3>3
      <4> QED
        BY <4>1
    <3> QED
      BY <3>2, <3>3
  <2> QED
    BY <2>2, <2>3
<1>3. B \in SUBSET Nat /\ IsFiniteSet(B) /\ B # {}
  <2>1. IsFiniteSet({DefaultHi})
    BY FS_Singleton
  <2> QED
    BY <2>1, HeapAssumption, FS_Union
<1>4. Cardinality(B) \in Nat
  BY <1>3, FS_CardinalityType
<1>5. Cardinality(B) \in T
  <2> HIDE DEF T
  <2> QED
    BY <1>1, <1>2, <1>4, SetInduction
<1>6. PICK x \in B : \A y \in B : y <= x
  BY <1>3, <1>5
<1>7. x \in Nat
  BY <1>3
<1>8. B \in SUBSET Int
  BY <1>3
<1>9. Max(B) = x
  <2> HIDE DEF B
  <2> QED
    BY <1>6, <1>8, MaxEqual
<1> QED
  BY <1>6, <1>7, <1>9 DEF Top

LEMMA AddressesFinite == IsFiniteSet(Addresses) /\ Cardinality(Addresses) \in Nat
<1>1. IsFiniteSet(MemBase .. Top)
  BY TopNat, HeapAssumption, FS_Interval
<1>2. Addresses \subseteq MemBase .. Top
  BY DEF Addresses
<1> QED
  BY <1>1, <1>2, FS_Subset, FS_CardinalityType

\* One more cell of a walk.
Grow(c, s) ==
  IF Load(c, s[Len(s)]).next = Null THEN s ELSE Append(s, Load(c, s[Len(s)]).next)

\* A walk that has come to s: it has met its cells in their order, and no other but
\* those that come later.
Walked(S, r, s) ==
  /\ s \in Seq(S) /\ s # <<>>
  /\ \A i, j \in 1 .. Len(s) : i < j => r[s[i]] < r[s[j]]
  /\ \A z \in S : z \in ToSet(s) \/ r[s[Len(s)]] < r[z]

LEMMA GrowIs ==
  ASSUME NEW c, NEW S \in SUBSET Addresses, NEW r, NEW s, Walked(S, r, s)
  PROVE  Grow(c, s) = IF c[s[Len(s)]].next = Null THEN s ELSE Append(s, c[s[Len(s)]].next)
<1>1. s \in Seq(S) /\ Len(s) \in Nat /\ Len(s) # 0 /\ s \in [1 .. Len(s) -> S]
  BY SeqFacts DEF Walked
<1>2. Load(c, s[Len(s)]) = c[s[Len(s)]]
  BY <1>1, LoadIs
<1> QED
  BY <1>2 DEF Grow

LEMMA GrowWalked ==
  ASSUME NEW c, NEW S \in SUBSET Addresses, NEW r \in Ranks, NEW head, Chain(c, head, S, r),
         NEW s, Walked(S, r, s)
  PROVE  /\ Walked(S, r, Grow(c, s))
         /\ c[s[Len(s)]].next # Null => Len(Grow(c, s)) = Len(s) + 1
<1> DEFINE n == Len(s)
           y == c[s[n]].next
           t == Append(s, y)
<1>1. s \in Seq(S) /\ n \in Nat /\ n # 0 /\ DOMAIN s = 1 .. n /\ s \in [1 .. n -> S]
  BY SeqFacts DEF Walked
<1>0. Grow(c, s) = IF y = Null THEN s ELSE t
  BY GrowIs
<1>2. CASE y = Null
  BY <1>0, <1>2
<1>3. CASE y # Null
  <2>1. s[n] \in S /\ Follows(S, r, s[n], y)
    BY <1>1, <1>3 DEF Chain
  <2>2. y \in S /\ \A z \in S : r[z] \in Int
    BY <2>1 DEF Follows, Ranks
  <2>3. t \in Seq(S) /\ Len(t) = n + 1 /\ t # <<>> /\ t[n + 1] = y /\ \A i \in 1 .. n : t[i] = s[i]
    BY <1>1, <2>2, AppendProperties
  <2>4. DOMAIN t = 1 .. n + 1
    BY <2>3, SeqFacts
  <2> HIDE DEF t
  <2>5. ASSUME NEW i \in 1 .. n + 1, NEW j \in 1 .. n + 1, i < j PROVE r[t[i]] < r[t[j]]
    <3>1. CASE j \in 1 .. n
      BY <1>1, <2>3, <2>5, <3>1 DEF Walked
    <3>2. CASE j = n + 1
      <4>1. i \in 1 .. n /\ r[s[i]] <= r[s[n]]
        <5>1. i \in 1 .. n /\ n \in 1 .. n
          BY <1>1, <2>5, <3>2
        <5>2. s[i] \in S /\ s[n] \in S
          BY <1>1, <5>1
        <5>3. i = n \/ i < n
          BY <5>1
        <5> QED
          BY <2>2, <5>1, <5>2, <5>3, SMTT(30) DEF Walked
      <4>2. s[i] \in S
        BY <1>1, <4>1
      <4> QED
        BY <2>1, <2>2, <2>3, <3>2, <4>1, <4>2 DEF Follows
    <3> QED
      BY <1>1, <3>1, <3>2
  <2>6. ASSUME NEW z \in S, z \notin ToSet(t) PROVE r[y] < r[z]
    <3>1. n + 1 \in DOMAIN t /\ \A i \in 1 .. n : i \in DOMAIN t
      BY <1>1, <2>4
    <3>2. z # y /\ z \notin ToSet(s)
      BY <1>1, <2>3, <2>6, <3>1 DEF ToSet
    <3>3. r[s[n]] < r[z]
      BY <3>2 DEF Walked
    <3>4. r[z] # r[y]
      BY <2>2, <3>2 DEF Chain
    <3> QED
      BY <2>1, <2>2, <3>3, <3>4 DEF Follows
  <2>7. Walked(S, r, t)
    BY <2>3, <2>5, <2>6 DEF Walked
  <2> QED
    BY <1>0, <1>3, <2>3, <2>7 DEF t
<1> QED
  BY <1>2, <1>3

LEMMA WalkStarts ==
  ASSUME NEW c, NEW S \in SUBSET Addresses, NEW r \in Ranks, NEW head, Chain(c, head, S, r), head # Null
  PROVE  Walked(S, r, <<head>>)
<1>1. head \in S /\ \A z \in S : r[head] <= r[z] /\ r[z] \in Int /\ (r[z] = r[head] => z = head)
  BY DEF Chain, Ranks
<1>2. <<head>> \in Seq(S) /\ Len(<<head>>) = 1 /\ <<head>> # <<>> /\ <<head>>[1] = head
  BY <1>1
<1>3. head \in ToSet(<<head>>)
  BY DEF ToSet
<1>4. \A z \in S : z # head => r[head] < r[z]
  BY <1>1
<1> QED
  BY <1>2, <1>3, <1>4 DEF Walked

\* A walk as long as memory is over.
LEMMA WalkEnds ==
  ASSUME NEW S \in SUBSET Addresses, NEW r \in Ranks, NEW s, Walked(S, r, s)
  PROVE  Len(s) \in Nat /\ Len(s) <= Cardinality(Addresses)
<1> DEFINE n == Len(s)
           I == 1 .. n
<1>1. n \in Nat /\ s \in [I -> S]
  BY SeqFacts DEF Walked
<1>2. s \in [I -> Addresses]
  BY <1>1
<1>3. ASSUME NEW i \in I, NEW j \in I, i # j PROVE s[i] # s[j]
  <2>1. s[i] \in S /\ s[j] \in S /\ r[s[i]] \in Int /\ r[s[j]] \in Int
    BY <1>1 DEF Ranks
  <2>2. i < j \/ j < i
    BY <1>3
  <2>3. r[s[i]] # r[s[j]]
    BY <2>1, <2>2 DEF Walked
  <2> QED
    BY <2>3
<1>4. IsFiniteSet(I) /\ Cardinality(I) = n
  <2>1. n \in Int /\ n >= 0
    BY <1>1
  <2> HIDE DEF n
  <2> QED
    BY <2>1, FS_Interval
<1> HIDE DEF I, n
<1>5. ~(Cardinality(Addresses) < Cardinality(I))
  BY <1>2, <1>3, <1>4, AddressesFinite, FS_PigeonHole
<1> QED
  BY <1>1, <1>4, <1>5, AddressesFinite DEF n

\* A walk from the head meets the cells of the list, each once and in their order.
LEMMA WalkIs ==
  ASSUME NEW c, NEW S \in SUBSET Addresses, NEW r \in Ranks, NEW head, Chain(c, head, S, r)
  PROVE  LET s == CellsFrom(c, head)
         IN /\ s \in Seq(S) /\ ToSet(s) = S /\ (s = <<>> <=> head = Null)
            /\ \A i, j \in 1 .. Len(s) : i < j => r[s[i]] < r[s[j]]
<1> DEFINE N == Cardinality(Addresses)
           D == {s \in Seq(S) : Walked(S, r, s)}
           G == [s \in D |-> Grow(c, s)]
           W(w) == w = [n \in Nat |-> IF n = 0 THEN <<head>> ELSE Grow(c, w[n - 1])]
           walk == CHOOSE w : W(w)
<1>1. CASE head = Null
  <2>1. CellsFrom(c, head) = <<>>
    BY <1>1 DEF CellsFrom
  <2>2. S = {} /\ <<>> \in Seq(S) /\ ToSet(<<>>) = {} /\ Len(<<>>) = 0
    BY <1>1, EmptyLine DEF Chain, Lines
  <2> QED
    BY <1>1, <2>1, <2>2
<1>2. CASE head # Null
  <2>1. CellsFrom(c, head) = walk[N]
    BY <1>2 DEF CellsFrom, Grow
  <2>2. G \in [D -> D] /\ <<head>> \in D
    BY <1>2, GrowWalked, WalkStarts DEF Walked
  <2>3. PICK f \in [Nat -> D] : Iterated(f, G, <<head>>)
    <3> DEFINE start == <<head>>
    <3>1. start \in D
      BY <2>2
    <3> HIDE DEF D, G, start
    <3>2. \E f \in [Nat -> D] : Iterated(f, G, start)
      BY <2>2, <3>1, Iterates
    <3> QED
      BY <3>2 DEF start
  <2>4. W(f)
    <3>1. ASSUME NEW n \in Nat PROVE f[n] = IF n = 0 THEN <<head>> ELSE Grow(c, f[n - 1])
      <4>1. CASE n # 0
        <5>1. n - 1 \in Nat /\ (n - 1) + 1 = n
          BY <4>1
        <5>2. f[n] = G[f[n - 1]] /\ f[n - 1] \in D
          BY <2>3, <5>1 DEF Iterated
        <5> QED
          BY <4>1, <5>2
      <4> QED
        BY <2>3, <4>1 DEF Iterated
    <3>2. f = [n \in Nat |-> f[n]]
      BY <2>3
    <3> HIDE DEF D, G
    <3> QED
      BY <3>1, <3>2
  <2>5. W(walk)
    <3> HIDE DEF W
    <3> QED
      BY <2>4
  <2> HIDE DEF walk
  <2>6. walk[0] = <<head>> /\ \A n \in Nat : walk[n + 1] = Grow(c, walk[n])
    <3>1. walk[0] = <<head>>
      BY <2>5
    <3>2. ASSUME NEW n \in Nat PROVE walk[n + 1] = Grow(c, walk[n])
      <4>1. n + 1 \in Nat /\ n + 1 # 0 /\ (n + 1) - 1 = n
        OBVIOUS
      <4> QED
        BY <2>5, <4>1
    <3> QED
      BY <3>1, <3>2
  <2> HIDE DEF D, G, W
  <2> DEFINE AtEnd(n) == c[walk[n][Len(walk[n])]].next = Null
             T == {n \in Nat : Walked(S, r, walk[n]) /\ (Len(walk[n]) = n + 1 \/ AtEnd(n))}
  <2>7. 0 \in T
    <3>1. Walked(S, r, walk[0]) /\ Len(walk[0]) = 0 + 1
      BY <1>2, <2>6, WalkStarts
    <3> QED
      BY <3>1
  <2>8. ASSUME NEW n \in Nat, n \in T PROVE n + 1 \in T
    <3>1. Walked(S, r, walk[n]) /\ walk[n + 1] = Grow(c, walk[n]) /\ n + 1 \in Nat
      BY <2>6, <2>8
    <3>2. CASE AtEnd(n)
      <4>1. walk[n + 1] = walk[n]
        BY <3>1, <3>2, GrowIs
      <4>2. AtEnd(n + 1)
        BY <3>2, <4>1
      <4> QED
        BY <3>1, <4>1, <4>2
    <3>3. CASE ~AtEnd(n)
      <4>1. Walked(S, r, walk[n + 1]) /\ Len(walk[n + 1]) = Len(walk[n]) + 1
        BY <3>1, <3>3, GrowWalked
      <4>2. Len(walk[n]) = n + 1
        BY <2>8, <3>3
      <4> QED
        BY <3>1, <4>1, <4>2
    <3> QED
      BY <3>2, <3>3
  <2>9. N \in T
    <3> HIDE DEF T
    <3> QED
      BY <2>7, <2>8, SetInduction, AddressesFinite
  <2> DEFINE s == walk[N]
  <2>10. Walked(S, r, s) /\ (Len(s) = N + 1 \/ c[s[Len(s)]].next = Null)
    BY <2>9
  <2> HIDE DEF s, T
  <2>11. c[s[Len(s)]].next = Null
    <3>1. Len(s) \in Nat /\ Len(s) <= N /\ N \in Nat
      BY <2>10, WalkEnds, AddressesFinite
    <3> QED
      BY <2>10, <3>1
  <2>12. s \in Seq(S) /\ Len(s) \in Nat /\ DOMAIN s = 1 .. Len(s) /\ s # <<>> /\ s[Len(s)] \in S /\ ToSet(s) \subseteq S
    BY <2>10, SeqFacts DEF Walked
  <2>13. \A z \in S : ~(r[s[Len(s)]] < r[z])
    <3> TAKE z \in S
    <3>1. r[z] <= r[s[Len(s)]] /\ r[z] \in Int /\ r[s[Len(s)]] \in Int
      BY <2>11, <2>12 DEF Chain, Ranks
    <3> QED
      BY <3>1
  <2>14. ToSet(s) = S
    BY <2>10, <2>12, <2>13 DEF Walked
  <2> QED
    BY <1>2, <2>1, <2>10, <2>12, <2>14 DEF Walked, s
<1> QED
  BY <1>1, <1>2

-----------------------------------------------------------------------------
(* What the helpers do to a list. *)

SameBut(c, d, S) == \A y \in Addresses \ S : d[y] = c[y]
SameSizes(c, d) == \A y \in Addresses : d[y].size = c[y].size

\* d is c with one link stored.
PrevStored(c, d, x, v) ==
  \A y \in Addresses : d[y].next = c[y].next /\ d[y].prev = IF y = x THEN v ELSE c[y].prev
NextStored(c, d, x, v) ==
  \A y \in Addresses : d[y].prev = c[y].prev /\ d[y].next = IF y = x THEN v ELSE c[y].next

LEMMA StorePrevIs ==
  ASSUME NEW c \in Mem, NEW x \in Addresses \cup {Null}, NEW v \in Int
  PROVE  LET d == StorePrev(c, x, v)
         IN d \in Mem /\ SameBut(c, d, {x}) /\ SameSizes(c, d) /\ PrevStored(c, d, x, v)
BY AddressIs DEF StorePrev, PrevStored, Mem, SameBut, SameSizes

LEMMA StoreNextIs ==
  ASSUME NEW c \in Mem, NEW x \in Addresses \cup {Null}, NEW v \in Int
  PROVE  LET d == StoreNext(c, x, v)
         IN d \in Mem /\ SameBut(c, d, {x}) /\ SameSizes(c, d) /\ NextStored(c, d, x, v)
BY AddressIs DEF StoreNext, NextStored, Mem, SameBut, SameSizes

LEMMA StoreSizeIs ==
  ASSUME NEW c \in Mem, NEW x \in Addresses, NEW v \in Int
  PROVE  LET d == StoreSize(c, x, v)
         IN /\ d \in Mem /\ SameBut(c, d, {x})
            /\ d[x].size = v /\ d[x].next = c[x].next /\ d[x].prev = c[x].prev
BY DEF StoreSize, Mem, SameBut

LEMMA StoreHdIs ==
  ASSUME NEW c \in Mem, NEW x \in Addresses, NEW v \in Int
  PROVE  LET d == StoreHd(c, x, v)
         IN /\ d \in Mem /\ SameBut(c, d, {x}) /\ SameSizes(c, d)
            /\ \A y \in Addresses : d[y].next = c[y].next /\ d[y].prev = c[y].prev
BY DEF StoreHd, Mem, SameBut, SameSizes

LEMMA MemIs ==
  ASSUME NEW c \in Mem, NEW x \in Addresses
  PROVE  c[x].prev \in Int /\ c[x].next \in Int /\ c[x].size \in Int /\ x \in Int /\ x # Null
BY AddressIs DEF Mem

\* The neighbours of a cell.
LEMMA LinksAre ==
  ASSUME NEW c, NEW S \in SUBSET Addresses, NEW r \in Ranks, NEW head, NEW x \in S, Chain(c, head, S, r)
  PROVE  /\ c[x].next \in S \cup {Null} /\ c[x].next # x
         /\ c[x].prev \in S \cup {Null} /\ c[x].prev # x
<1>1. r[x] \in Int /\ ~(r[x] < r[x])
  BY DEF Ranks
<1>2. c[x].next # Null => Follows(S, r, x, c[x].next)
  BY DEF Chain
<1>3. c[x].prev # Null => Follows(S, r, c[x].prev, x)
  BY DEF Chain
<1>4. x # Null
  BY AddressIs
<1>5. c[x].next \in S \cup {Null} /\ c[x].next # x
  BY <1>1, <1>2, <1>4 DEF Follows
<1>6. c[x].prev \in S \cup {Null} /\ c[x].prev # x
  BY <1>1, <1>3, <1>4 DEF Follows
<1> QED
  BY <1>5, <1>6

\* The previous cell is the one whose next cell this is.
LEMMA LinksMatch ==
  ASSUME NEW c, NEW S \in SUBSET Addresses, NEW r \in Ranks, NEW head, NEW x \in S, NEW y \in S,
         Chain(c, head, S, r), c[x].next = y
  PROVE  c[y].prev = x
<1>1. y # Null /\ \A z \in S : r[z] \in Int
  BY AddressIs DEF Ranks
<1>2. Follows(S, r, x, y)
  BY <1>1 DEF Chain
<1>3. c[y].prev # Null /\ Follows(S, r, c[y].prev, y)
  BY <1>1, <1>2 DEF Chain, Follows
<1>4. r[c[y].prev] = r[x]
  BY <1>1, <1>2, <1>3 DEF Follows
<1> QED
  BY <1>2, <1>3, <1>4 DEF Chain, Follows

\* What DLExtract does to the list of the cells S.
Extracted(c, e, head, S, x, r) ==
  /\ e.cells \in Mem /\ Chain(e.cells, e.head, S \ {x}, r)
  /\ SameSizes(c, e.cells) /\ SameBut(c, e.cells, S \ {x})
  /\ Bypass(c, e.cells, x, S)
  /\ e.head = IF c[x].prev = Null THEN c[x].next ELSE head

LEMMA DLExtractIs ==
  ASSUME NEW c \in Mem, NEW S \in SUBSET Addresses, NEW r \in Ranks, NEW head, NEW x \in S,
         Chain(c, head, S, r)
  PROVE  Extracted(c, DLExtract(c, head, x), head, S, x, r)
<1> DEFINE p == c[x].prev
           n == c[x].next
           d == StorePrev(c, n, p)
           f == StoreNext(d, p, n)
           e == DLExtract(c, head, x)
<1>1. p \in Int /\ n \in Int /\ x # Null
  BY MemIs
<1>2. p \in S \cup {Null} /\ n \in S \cup {Null} /\ p # x /\ n # x
  BY LinksAre
<1>3. e.cells = f /\ e.head = IF p = Null THEN n ELSE head
  <2>1. Load(c, x) = c[x]
    BY LoadIs
  <2> QED
    BY <2>1 DEF DLExtract
<1> HIDE DEF p, n, d, f
<1>4. d \in Mem /\ SameBut(c, d, {n}) /\ SameSizes(c, d) /\ PrevStored(c, d, n, p)
  BY <1>1, <1>2, StorePrevIs DEF d
<1>5. f \in Mem /\ SameBut(d, f, {p}) /\ SameSizes(d, f) /\ NextStored(d, f, p, n)
  BY <1>1, <1>2, <1>4, StoreNextIs DEF f
<1>6. SameSizes(c, f) /\ SameBut(c, f, S \ {x})
  <2>1. ASSUME NEW y \in Addresses PROVE f[y].size = c[y].size
    BY <1>4, <1>5 DEF SameSizes
  <2>2. ASSUME NEW y \in Addresses \ (S \ {x}) PROVE f[y] = c[y]
    <3>1. y # Null
      BY AddressIs
    <3>2. y # n /\ y # p
      BY <1>2, <3>1
    <3> QED
      BY <1>4, <1>5, <3>2 DEF SameBut
  <2> QED
    BY <2>1, <2>2 DEF SameSizes, SameBut
<1>7. Bypass(c, f, x, S)
  BY <1>4, <1>5 DEF Bypass, PrevStored, NextStored, p, n
<1>8. Chain(f, IF p = Null THEN n ELSE head, S \ {x}, r)
  BY <1>7, ChainRemove DEF p, n
<1> QED
  BY <1>3, <1>5, <1>6, <1>7, <1>8 DEF p, n, Extracted

\* Cell x gets its links and its neighbours theirs.
LEMMA LinkIs ==
  ASSUME NEW c \in Mem, NEW S \in SUBSET Addresses, NEW r \in Ranks, NEW head,
         NEW x \in Addresses \ S, NEW prev, NEW next,
         Chain(c, head, S, r), Place(S, r, x, prev, next)
  PROVE  LET d == Link(c, x, prev, next)
         IN /\ d \in Mem /\ Chain(d, IF prev = Null THEN x ELSE head, S \cup {x}, r)
            /\ SameSizes(c, d) /\ SameBut(c, d, S \cup {x})
<1> DEFINE a == StorePrev(StoreNext(c, x, next), x, prev)
           b == StorePrev(a, next, x)
           d == StoreNext(b, prev, x)
<1>1. prev \in S \cup {Null} /\ next \in S \cup {Null} /\ prev \in Int /\ next \in Int
  <2>1. prev \in S \cup {Null} /\ next \in S \cup {Null}
    BY DEF Place
  <2>2. Null \in Int
    BY DEF Null
  <2> QED
    BY <2>1, <2>2, AddressIs
<1>2. /\ a \in Mem /\ SameBut(c, a, {x}) /\ SameSizes(c, a) /\ a[x].next = next /\ a[x].prev = prev
  <2> DEFINE e == StoreNext(c, x, next)
  <2>1. e \in Mem /\ SameBut(c, e, {x}) /\ SameSizes(c, e) /\ NextStored(c, e, x, next)
    BY <1>1, StoreNextIs
  <2> HIDE DEF e
  <2>2. a \in Mem /\ SameBut(e, a, {x}) /\ SameSizes(e, a) /\ PrevStored(e, a, x, prev)
    BY <1>1, <2>1, StorePrevIs DEF e
  <2> QED
    BY <2>1, <2>2 DEF SameBut, SameSizes, NextStored, PrevStored
<1>3. Link(c, x, prev, next) = d
  BY DEF Link
<1>4. x \in Int /\ x # Null
  BY MemIs
<1> HIDE DEF a, b, d
<1>5. b \in Mem /\ SameBut(a, b, {next}) /\ SameSizes(a, b) /\ PrevStored(a, b, next, x)
  BY <1>1, <1>2, <1>4, StorePrevIs DEF b
<1>6. d \in Mem /\ SameBut(b, d, {prev}) /\ SameSizes(b, d) /\ NextStored(b, d, prev, x)
  BY <1>1, <1>4, <1>5, StoreNextIs DEF d
<1>7. SameSizes(c, d) /\ SameBut(c, d, S \cup {x})
  <2>1. ASSUME NEW y \in Addresses PROVE d[y].size = c[y].size
    BY <1>2, <1>5, <1>6 DEF SameSizes
  <2>2. ASSUME NEW y \in Addresses \ (S \cup {x}) PROVE d[y] = c[y]
    <3>1. y # Null
      BY AddressIs
    <3>2. y # next /\ y # prev /\ y # x
      BY <1>1, <3>1
    <3> QED
      BY <1>2, <1>5, <1>6, <3>2 DEF SameBut
  <2> QED
    BY <2>1, <2>2 DEF SameSizes, SameBut
<1>8. Enter(c, d, x, prev, next, S)
  <2>1. \A y \in S : y \in Addresses /\ y # x /\ a[y] = c[y]
    BY <1>2 DEF SameBut
  <2> QED
    BY <1>1, <1>2, <1>4, <1>5, <1>6, <2>1 DEF Enter, PrevStored, NextStored
<1>9. Chain(d, IF prev = Null THEN x ELSE head, S \cup {x}, r)
  BY <1>8, ChainAdd
<1> QED
  BY <1>3, <1>6, <1>7, <1>9

\* The search finds where the cell belongs by its address.
LEMMA NeighboursFound ==
  ASSUME NEW c, NEW S \in SUBSET Addresses, NEW head, NEW x \in Addresses \ S,
         Chain(c, head, S, ByAddress)
  PROVE  Place(S, ByAddress, x, PrevInList(c, head, x), NextInList(c, head, x))
<1> DEFINE s == CellsFrom(c, head)
           I == {i \in 1 .. Len(s) : x <= s[i]}
           i == IF I # {} THEN Min(I) ELSE 0
           prev == IF s = <<>> \/ i = 1 THEN Null ELSE IF i = 0 THEN Last(s) ELSE s[i - 1]
           next == IF i = 0 THEN Null ELSE s[i]
<1>0. ByAddress \in Ranks /\ \A y \in Addresses : ByAddress[y] = y /\ y \in Int /\ y # Null
  BY AddressIs DEF ByAddress, Ranks
<1>1. /\ s \in Seq(S) /\ ToSet(s) = S /\ (s = <<>> <=> head = Null)
      /\ \A j, k \in 1 .. Len(s) : j < k => ByAddress[s[j]] < ByAddress[s[k]]
  BY <1>0, WalkIs
<1>2. SelectInSeq(s, LAMBDA p : x <= p) = i
  BY DEF SelectInSeq
<1>3. PrevInList(c, head, x) = prev /\ NextInList(c, head, x) = next
  BY <1>2 DEF PrevInList, NextInList
<1> HIDE DEF s
<1>4. /\ Len(s) \in Nat /\ DOMAIN s = 1 .. Len(s) /\ (s = <<>> <=> Len(s) = 0)
      /\ \A j \in 1 .. Len(s) : s[j] \in S /\ s[j] \in Addresses /\ s[j] # x
  BY <1>1, SeqFacts
<1>5. \A z \in S : \E j \in 1 .. Len(s) : s[j] = z
  BY <1>1, <1>4 DEF ToSet
<1>6. \A j, k \in 1 .. Len(s) : j < k => s[j] < s[k]
  BY <1>0, <1>1, <1>4
<1>7. I \in SUBSET Nat
  OBVIOUS
<1>8. I # {} => i \in I /\ \A j \in I : i <= j
  <2> HIDE DEF I
  <2> QED
    BY <1>7, MinIsLeast
<1>9. CASE I = {}
  <2>1. i = 0 /\ next = Null
    BY <1>9
  <2>2. \A z \in S : z < x
    <3> TAKE z \in S
    <3>1. PICK j \in 1 .. Len(s) : s[j] = z
      BY <1>5
    <3> QED
      BY <1>0, <1>4, <1>9, <3>1
  <2>3. CASE s = <<>>
    <3>1. S = {} /\ prev = Null
      BY <1>4, <1>5, <2>3
    <3> QED
      BY <1>3, <2>1, <3>1 DEF Place
  <2>4. CASE s # <<>>
    <3>1. Len(s) \in 1 .. Len(s) /\ prev = s[Len(s)]
      BY <1>4, <2>1, <2>4 DEF Last
    <3>2. \A z \in S : z <= prev
      <4> TAKE z \in S
      <4>1. PICK j \in 1 .. Len(s) : s[j] = z
        BY <1>5
      <4> HIDE DEF prev, next, i, I
      <4> DEFINE n == Len(s)
      <4>2. j = Len(s) \/ j < Len(s)
        <5>1. n \in Nat /\ j \in 1 .. n
          BY <1>4
        <5> HIDE DEF n
        <5>2. j = n \/ j < n
          BY <5>1
        <5> QED
          BY <5>2 DEF n
      <4>3. s[j] \in Int /\ s[Len(s)] \in Int
        BY <1>0, <1>4, <3>1
      <4>4. j < Len(s) => s[j] < s[Len(s)]
        BY <1>6, <3>1
      <4> QED
        BY <3>1, <4>1, <4>2, <4>3, <4>4
    <3>3. prev \in S /\ prev # Null /\ prev < x
      BY <1>0, <1>4, <2>2, <3>1
    <3> HIDE DEF prev, next, i, I
    <3> QED
      BY <1>0, <1>3, <2>1, <2>2, <3>2, <3>3 DEF Place
  <2> QED
    BY <2>3, <2>4
<1>10. CASE I # {}
  <2>1. i \in 1 .. Len(s) /\ x < s[i] /\ i # 0 /\ s # <<>>
    BY <1>0, <1>4, <1>8, <1>10
  <2>2. next = s[i] /\ next # Null /\ next \in S
    BY <1>0, <1>4, <2>1
  <2>3. \A j \in 1 .. Len(s) : j < i => s[j] < x
    <3> TAKE j \in 1 .. Len(s)
    <3>1. j < i => j \notin I
      BY <1>8, <1>10, <2>1
    <3> QED
      BY <1>0, <1>4, <3>1
  <2>4. \A z \in S : z < x \/ next <= z
    <3> TAKE z \in S
    <3>1. PICK j \in 1 .. Len(s) : s[j] = z
      BY <1>5
    <3> HIDE DEF prev, next, i, I
    <3>2. j < i \/ j = i \/ i < j
      BY <1>4, <2>1
    <3>3. s[j] \in Int /\ s[i] \in Int
      BY <1>0, <1>4, <2>1
    <3>4. (j < i => s[j] < x) /\ (i < j => s[i] < s[j])
      BY <1>6, <2>1, <2>3
    <3> QED
      BY <2>2, <3>1, <3>2, <3>3, <3>4
  <2>5. CASE i = 1
    <3>1. prev = Null
      BY <2>5
    <3>2. \A z \in S : x < z
      <4> TAKE z \in S
      <4>1. PICK j \in 1 .. Len(s) : s[j] = z
        BY <1>5
      <4>2. ~(j < i)
        BY <2>5, <4>1
      <4> HIDE DEF prev, next, i, I
      <4>3. j = i \/ i < j
        BY <1>4, <2>1, <4>2
      <4>4. s[j] \in Int /\ s[i] \in Int /\ x \in Int
        BY <1>0, <1>4, <2>1
      <4>5. i < j => s[i] < s[j]
        BY <1>6, <2>1
      <4> QED
        BY <2>1, <4>1, <4>3, <4>4, <4>5
    <3> HIDE DEF prev, next, i, I
    <3> QED
      BY <1>0, <1>3, <2>1, <2>2, <2>4, <3>1, <3>2 DEF Place
  <2>6. CASE i # 1
    <3>0. Len(s) \in Nat
      BY <1>4
    <3>1. i - 1 \in 1 .. Len(s) /\ prev = s[i - 1] /\ i - 1 < i
      <4>1. prev = s[i - 1]
        BY <2>1, <2>6
      <4> HIDE DEF prev, next, i, I
      <4> QED
        BY <2>1, <2>6, <3>0, <4>1
    <3>2. prev \in S /\ prev # Null /\ prev < x
      BY <1>0, <1>4, <2>3, <3>1
    <3>3. \A z \in S : z <= prev \/ x < z
      <4> TAKE z \in S
      <4>1. PICK j \in 1 .. Len(s) : s[j] = z
        BY <1>5
      <4> HIDE DEF prev, next, i, I
      <4>2. j < i - 1 \/ j = i - 1 \/ j = i \/ i < j
        BY <1>4, <2>1
      <4>3. s[j] \in Int /\ s[i] \in Int /\ s[i - 1] \in Int /\ x \in Int
        BY <1>0, <1>4, <2>1, <3>1
      <4>4. (j < i - 1 => s[j] < s[i - 1]) /\ (i < j => s[i] < s[j])
        BY <1>6, <2>1, <3>1
      <4> QED
        BY <2>1, <3>1, <4>1, <4>2, <4>3, <4>4, SMTT(40)
    <3> HIDE DEF prev, next, i, I
    <3> QED
      BY <1>0, <1>3, <2>1, <2>2, <2>4, <3>2, <3>3 DEF Place
  <2> QED
    BY <2>5, <2>6
<1> QED
  BY <1>9, <1>10

-----------------------------------------------------------------------------
(* Cells and memory. *)

\* The cells S, by their sizes in c, divide the memory R among themselves.
Tiles(c, S, R) ==
  /\ \A x \in S : c[x].size >= Align /\ x + c[x].size - Align \in R
  /\ \A x \in S, y \in Addresses : x <= y /\ y < x + c[x].size => y \in R
  /\ \A y \in R : \E x \in S : x <= y /\ y < x + c[x].size
  /\ \A x, y \in S : x < y => x + c[x].size <= y

\* No cell of S begins where another ends.
Apart(c, S) == \A x \in S : x + c[x].size \notin S

LEMMA TilesSame ==
  ASSUME NEW S, NEW R, NEW c, NEW d, Tiles(c, S, R), \A x \in S : d[x].size = c[x].size
  PROVE  Tiles(d, S, R)
BY DEF Tiles

LEMMA AlignIs == Align \in Int /\ Align > 0 /\ 2 * Align \in Int /\ 2 * Align > Align
BY HeapAssumption

\* Sums below the last unit of a word are what they seem.
LEMMA U32Is == ASSUME NEW v \in Nat, v < 2 * Half PROVE U32(v) = v
<1> DEFINE w == 2 * Half
<1>1. w \in Nat /\ v < w
  BY HeapAssumption
<1> HIDE DEF w
<1>2. v % w = v
  BY <1>1
<1> QED
  BY <1>2 DEF U32, w

\* A cell is smaller than half of what a word addresses, and so is what ends where it does.
LEMMA CellFits ==
  ASSUME NEW c \in Mem, NEW S \in SUBSET Addresses, NEW R \in SUBSET Addresses, Tiles(c, S, R), NEW x \in S
  PROVE  /\ x \in Nat /\ c[x].size \in Nat /\ c[x].size >= Align /\ c[x].size < Half
         /\ x + c[x].size \in Nat /\ x + c[x].size < 2 * Half
<1>1. x \in Int /\ x >= MemBase /\ c[x].size \in Int
  <2>1. x \in Addresses
    OBVIOUS
  <2>2. x >= MemBase
    BY <2>1, TopNat, HeapAssumption DEF Addresses
  <2> QED
    BY <2>1, <2>2, MemIs, AddressIs
<1>2. c[x].size >= Align /\ x + c[x].size - Align <= Top
  <2>1. c[x].size >= Align /\ x + c[x].size - Align \in Addresses
    BY DEF Tiles
  <2>2. \A y \in Addresses : y <= Top
    BY TopNat, HeapAssumption DEF Addresses
  <2> QED
    BY <2>1, <2>2
<1>3. Top \in Int /\ MemBase \in Int /\ Half \in Int /\ Align \in Int /\ Align > 0
  BY TopNat, HeapAssumption
<1> DEFINE size == c[x].size
<1> HIDE DEF size
<1>4. size \in Int /\ size >= Align /\ x + size - Align <= Top
  BY <1>1, <1>2 DEF size
<1>5. MemBase >= 0 /\ Top - MemBase + Align < Half /\ Top + Align < 2 * Half
  BY HeapAssumption, MemoryAssumption
<1>6. size >= 0 /\ x + size >= 0 /\ x + size < 2 * Half /\ size < Half
  <2> DEFINE top == Top
  <2>1. top \in Int /\ x + size - Align <= top /\ top - MemBase + Align < Half /\ top + Align < 2 * Half
    BY <1>3, <1>4, <1>5
  <2> HIDE DEF top
  <2> QED
    BY <1>1, <1>3, <1>4, <1>5, <2>1
<1>7. x \in Nat /\ size \in Nat /\ x + size \in Nat
  BY <1>1, <1>3, <1>4, <1>5, <1>6
<1> QED
  BY <1>4, <1>6, <1>7 DEF size

\* Two cells that adjoin become one.
LEMMA TilesMerge ==
  ASSUME NEW S \in SUBSET Addresses, NEW R \in SUBSET Addresses, NEW c \in Mem, NEW d \in Mem,
         Tiles(c, S, R), NEW x \in S, NEW n \in S, n = x + c[x].size,
         d[x].size = c[x].size + c[n].size, \A y \in S \ {x} : d[y].size = c[y].size
  PROVE  Tiles(d, S \ {n}, R)
<1>0. \A y \in Addresses : y \in Int /\ c[y].size \in Int /\ d[y].size \in Int
  BY MemIs
<1>1. c[x].size >= Align /\ c[n].size >= Align /\ n # x /\ \A y \in S : c[y].size >= Align
  BY <1>0, AlignIs DEF Tiles
<1>2. ASSUME NEW y \in S \ {n}
      PROVE d[y].size >= Align /\ y + d[y].size - Align \in R
  <2>1. CASE y = x
    <3>1. x + d[x].size - Align = n + c[n].size - Align
      BY <1>0, AlignIs
    <3> QED
      BY <1>0, <1>1, <2>1, <3>1, AlignIs DEF Tiles
  <2>2. CASE y # x
    BY <1>2, <2>2 DEF Tiles
  <2> QED
    BY <2>1, <2>2
<1>3. ASSUME NEW y \in S \ {n}, NEW z \in Addresses, y <= z, z < y + d[y].size
      PROVE  z \in R
  <2>1. CASE y = x /\ z < n
    BY <1>0, <1>3, <2>1 DEF Tiles
  <2>2. CASE y = x /\ n <= z
    <3>1. z < n + c[n].size
      BY <1>0, <1>3, <2>2
    <3> QED
      BY <2>2, <3>1 DEF Tiles
  <2>3. CASE y # x
    BY <1>3, <2>3 DEF Tiles
  <2> QED
    BY <1>0, <2>1, <2>2, <2>3
<1>4. ASSUME NEW z \in R PROVE \E y \in S \ {n} : y <= z /\ z < y + d[y].size
  <2>1. PICK y \in S : y <= z /\ z < y + c[y].size
    BY DEF Tiles
  <2>2. CASE y = n \/ y = x
    <3>1. x <= z /\ z < x + d[x].size
      BY <1>0, <1>1, <2>1, <2>2, AlignIs
    <3> QED
      BY <1>1, <3>1
  <2>3. CASE y # n /\ y # x
    BY <2>1, <2>3
  <2> QED
    BY <2>2, <2>3
<1>5. ASSUME NEW y \in S \ {n}, NEW z \in S \ {n}, y < z PROVE y + d[y].size <= z
  <2>1. CASE y = x
    <3>1. x + c[x].size <= z
      BY <1>5, <2>1 DEF Tiles
    <3>2. n < z
      BY <1>0, <3>1
    <3>3. n + c[n].size <= z
      BY <3>2 DEF Tiles
    <3> QED
      BY <1>0, <2>1, <3>3
  <2>2. CASE y # x
    BY <1>5, <2>2 DEF Tiles
  <2> QED
    BY <2>1, <2>2
<1> QED
  BY <1>2, <1>3, <1>4, <1>5 DEF Tiles

\* One cell becomes two.
LEMMA TilesSplit ==
  ASSUME NEW S \in SUBSET Addresses, NEW R \in SUBSET Addresses, NEW c \in Mem, NEW d \in Mem,
         Tiles(c, S, R), NEW x \in S, NEW n \in Addresses,
         x + Align <= n, n + Align <= x + c[x].size,
         d[x].size = n - x, d[n].size = x + c[x].size - n, n - Align \in R,
         \A y \in S \ {x} : d[y].size = c[y].size
  PROVE  n \notin S /\ Tiles(d, S \cup {n}, R)
<1>0. \A y \in Addresses : y \in Int /\ c[y].size \in Int /\ d[y].size \in Int
  BY MemIs
<1>1. n \notin S /\ n # x /\ x < n /\ n < x + c[x].size
  BY <1>0, AlignIs DEF Tiles
<1>2. ASSUME NEW y \in S \cup {n}
      PROVE d[y].size >= Align /\ y + d[y].size - Align \in R
  <2>1. CASE y = x
    <3>1. x + d[x].size - Align = n - Align
      BY <1>0, AlignIs
    <3> QED
      BY <1>0, <2>1, <3>1, AlignIs
  <2>2. CASE y = n
    <3>1. n + d[n].size - Align = x + c[x].size - Align
      BY <1>0, AlignIs
    <3>2. x + c[x].size - Align \in R
      BY DEF Tiles
    <3> QED
      BY <1>0, <2>2, <3>1, <3>2, AlignIs
  <2>3. CASE y \in S \ {x}
    BY <2>3 DEF Tiles
  <2> QED
    BY <2>1, <2>2, <2>3
<1>3. ASSUME NEW y \in S \cup {n}, NEW z \in Addresses, y <= z, z < y + d[y].size
      PROVE  z \in R
  <2>1. CASE y = x \/ y = n
    <3>1. x <= z /\ z < x + c[x].size
      BY <1>0, <1>1, <1>3, <2>1
    <3> QED
      BY <3>1 DEF Tiles
  <2>2. CASE y \in S \ {x}
    BY <1>3, <2>2 DEF Tiles
  <2> QED
    BY <2>1, <2>2
<1>4. ASSUME NEW z \in R PROVE \E y \in S \cup {n} : y <= z /\ z < y + d[y].size
  <2>1. PICK y \in S : y <= z /\ z < y + c[y].size
    BY DEF Tiles
  <2>2. CASE y = x
    <3>1. (x <= z /\ z < x + d[x].size) \/ (n <= z /\ z < n + d[n].size)
      BY <1>0, <2>1, <2>2
    <3> QED
      BY <3>1
  <2>3. CASE y # x
    BY <2>1, <2>3
  <2> QED
    BY <2>2, <2>3
<1>5. ASSUME NEW y \in S \cup {n}, NEW z \in S \cup {n}, y < z PROVE y + d[y].size <= z
  <2>1. CASE y = n
    <3>1. z \in S /\ x < z
      BY <1>0, <1>1, <1>5, <2>1
    <3>2. x + c[x].size <= z
      BY <3>1 DEF Tiles
    <3> QED
      BY <1>0, <2>1, <3>2
  <2>2. CASE y = x
    <3>1. z = n \/ x + c[x].size <= z
      BY <1>5, <2>2 DEF Tiles
    <3> QED
      BY <1>0, <1>1, <2>2, <3>1
  <2>3. CASE y \in S \ {x} /\ z \in S
    BY <1>5, <2>3 DEF Tiles
  <2>4. CASE y \in S \ {x} /\ z = n
    <3>1. y < x
      <4>1. x < y => x + c[x].size <= y
        BY <2>4 DEF Tiles
      <4>2. y < n /\ y # x /\ y \in Int /\ x \in Int /\ n \in Int /\ c[x].size \in Int
        BY <1>0, <1>5, <2>4
      <4> QED
        BY <1>1, <4>1, <4>2
    <3>2. y + c[y].size <= x
      BY <2>4, <3>1 DEF Tiles
    <3> QED
      BY <1>0, <1>1, <2>4, <3>2
  <2> QED
    BY <2>1, <2>2, <2>3, <2>4
<1> QED
  BY <1>1, <1>2, <1>3, <1>4, <1>5 DEF Tiles

\* Memory of its own is one more cell.
LEMMA TilesAdd ==
  ASSUME NEW S \in SUBSET Addresses, NEW R \in SUBSET Addresses, NEW c \in Mem, NEW d \in Mem,
         Tiles(c, S, R), NEW x \in Addresses, NEW U \in SUBSET Addresses, U \cap R = {},
         \A y \in Addresses : y \in U <=> x <= y /\ y < x + d[x].size,
         d[x].size >= Align, x + d[x].size - Align \in U,
         \A y \in S : d[y].size = c[y].size
  PROVE  x \notin S /\ Tiles(d, S \cup {x}, R \cup U)
<1>0. \A y \in Addresses : y \in Int /\ c[y].size \in Int /\ d[y].size \in Int
  BY MemIs
<1>1. \A y \in S : y \in R
  BY <1>0, AlignIs DEF Tiles
<1>2. x \in U /\ x \notin S
  BY <1>0, <1>1, AlignIs
<1>3. ASSUME NEW y \in S PROVE y < x => y + c[y].size <= x
  BY <1>0, <1>2 DEF Tiles
<1>4. ASSUME NEW y \in S PROVE x < y => x + d[x].size <= y
  BY <1>0, <1>1
<1>5. \A y \in S \cup {x} : d[y].size >= Align /\ y + d[y].size - Align \in R \cup U
  BY DEF Tiles
<1>6. \A y \in S \cup {x}, z \in Addresses : y <= z /\ z < y + d[y].size => z \in R \cup U
  BY DEF Tiles
<1>7. \A z \in R \cup U : \E y \in S \cup {x} : y <= z /\ z < y + d[y].size
  BY DEF Tiles
<1>8. \A y, z \in S \cup {x} : y < z => y + d[y].size <= z
  BY <1>0, <1>3, <1>4 DEF Tiles
<1> QED
  BY <1>2, <1>5, <1>6, <1>7, <1>8 DEF Tiles

\* What Absorb does to the free cells S of a heap; H are its other cells.
Absorbed(c, d, head, S, T, x, H, R) ==
  /\ T \in SUBSET S /\ x \in T /\ \A y \in S : y < x => y \in T
  /\ d \in Mem /\ Chain(d, head, T, ByAddress) /\ Tiles(d, T \cup H, R) /\ SameBut(c, d, S)
  /\ \A y \in T \ {x} : d[y].size = c[y].size
  /\ LET n == x + c[x].size
     IN (n \in S => n + c[n].size \notin S) => x + d[x].size \notin T

LEMMA ByAddressIs == ByAddress \in Ranks /\ \A y \in Addresses : ByAddress[y] = y
BY AddressIs DEF ByAddress, Ranks

\* The cell that begins where another of its list ends is the next one.
LEMMA Adjoins ==
  ASSUME NEW c \in Mem, NEW S \in SUBSET Addresses, NEW head, NEW x \in S,
         Chain(c, head, S, ByAddress),
         NEW H, NEW R, Tiles(c, S \cup H, R), x + c[x].size \in S
  PROVE  c[x].next = x + c[x].size
<1> DEFINE n == c[x].next
           z == x + c[x].size
<1>1. /\ x \in Int /\ z \in Int /\ c[x].size \in Int /\ c[x].size >= Align /\ x < z
      /\ \A y \in S : y \in Int /\ ByAddress[y] = y
  <2>1. x \in Int /\ c[x].size \in Int /\ c[x].size >= Align
    BY MemIs DEF Tiles
  <2> QED
    BY <2>1, AlignIs, AddressIs, ByAddressIs
<1>2. n # Null
  <2> SUFFICES ASSUME n = Null PROVE FALSE
    OBVIOUS
  <2>1. ByAddress[z] <= ByAddress[x]
    BY DEF Chain
  <2> QED
    BY <1>1, <2>1
<1>3. Follows(S, ByAddress, x, n)
  BY <1>2 DEF Chain
<1>4. n \in S /\ x < n /\ ~(n > z)
  BY <1>1, <1>3 DEF Follows
<1>5. z <= n /\ n \in Int
  BY <1>1, <1>4 DEF Tiles
<1>6. n = z
  <2> HIDE DEF n, z
  <2> QED
    BY <1>1, <1>4, <1>5
<1> QED
  BY <1>6

LEMMA AbsorbIs ==
  ASSUME NEW c \in Mem, NEW S \in SUBSET Addresses, NEW head, NEW x \in S,
         Chain(c, head, S, ByAddress),
         NEW H \in SUBSET Addresses, S \cap H = {}, NEW R \in SUBSET Addresses, Tiles(c, S \cup H, R)
  PROVE  \E T : Absorbed(c, Absorb(c, x), head, S, T, x, H, R)
<1> DEFINE n == c[x].next
           m == c[n].next
           size == c[x].size + c[n].size
           b == StoreSize(c, x, size)
           a == StoreNext(b, x, m)
           d == StorePrev(a, m, x)
           T == S \ {n}
<1>0. x \in Addresses /\ x \in Int /\ c[x].size \in Int /\ x # Null /\ c[x].size >= Align
  BY MemIs DEF Tiles
<1>3. S \cup H \in SUBSET Addresses /\ x \in S \cup H /\ Load(c, x) = c[x]
  BY LoadIs
<1>4. U32(x + c[x].size) = x + c[x].size
  <2> DEFINE Q == S \cup H
  <2>1. Tiles(c, Q, R) /\ Q \in SUBSET Addresses /\ x \in Q
    BY <1>3
  <2> HIDE DEF Q
  <2>2. x + c[x].size \in Nat /\ x + c[x].size < 2 * Half
    BY <2>1, CellFits
  <2> QED
    BY <2>2, U32Is
<1>1. CASE x + c[x].size # n
  <2>1. Absorb(c, x) = c
    BY <1>1, <1>3, <1>4 DEF Absorb
  <2>2. x + c[x].size \notin S
    BY <1>1, Adjoins
  <2>3. Absorbed(c, c, head, S, S, x, H, R)
    BY <2>2 DEF Absorbed, SameBut
  <2> QED
    BY <2>1, <2>3
<1>2. CASE x + c[x].size = n
  <2>2. n \in S /\ n # x /\ x < n
    <3>0. ByAddress \in Ranks
      BY ByAddressIs
    <3>1. n \in S \cup {Null} /\ n # x
      <4> HIDE DEF a, b, d, m, T, size
      <4>1. x \in S /\ S \in SUBSET Addresses
        OBVIOUS
      <4> QED
        BY <3>0, <4>1, LinksAre
    <3>2. n > 0
      BY <1>0, <1>2, AlignIs, AddressIs
    <3> QED
      BY <1>0, <1>2, <3>1, <3>2, AlignIs DEF Null
  <2>3. m \in S \cup {Null} /\ m # n /\ m # x /\ c[n].prev = x
    <3>1. m \in S \cup {Null} /\ m # n
      BY <2>2, ByAddressIs, LinksAre
    <3>2. c[n].prev = x
      BY <2>2, ByAddressIs, LinksMatch
    <3>3. m # x
      <4> SUFFICES ASSUME m = x PROVE FALSE
        OBVIOUS
      <4>1. Follows(S, ByAddress, n, m)
        <5>1. m # Null
          BY <1>0
        <5> QED
          BY <2>2, <5>1 DEF Chain
      <4>2. n < x /\ n \in Int
        BY <1>0, <2>2, <4>1, ByAddressIs, AddressIs DEF Follows
      <4> QED
        BY <1>0, <2>2, <4>2
    <3> QED
      BY <3>1, <3>2, <3>3
  <2>4. size \in Int /\ m \in Int /\ m \in Addresses \cup {Null}
    <3>1. n \in Addresses
      BY <2>2
    <3> QED
      BY <1>0, <2>3, <3>1, MemIs
  <2>1. Absorb(c, x) = d
    <3> DEFINE Q == S \cup H
    <3>1. Tiles(c, Q, R) /\ Q \in SUBSET Addresses /\ n \in Q /\ n # Null
      BY <1>3, <2>2, AddressIs
    <3> HIDE DEF Q
    <3>2. c[n].size \in Nat /\ n + c[n].size < 2 * Half /\ n \in Nat
      <4> HIDE DEF n
      <4> QED
        BY <3>1, CellFits
    <3>3. size \in Nat /\ size < 2 * Half
      BY <1>0, <1>2, <3>2, AddressIs, AlignIs, HeapAssumption
    <3>4. U32(size) = size
      <4> HIDE DEF size
      <4> QED
        BY <3>3, U32Is
    <3>5. Load(c, n) = c[n]
      BY <2>2, LoadIs
    <3> QED
      BY <1>2, <1>3, <1>4, <3>1, <3>4, <3>5 DEF Absorb
  <2>5. /\ a \in Mem /\ a[x].size = size /\ a[x].next = m /\ a[x].prev = c[x].prev
        /\ \A y \in Addresses \ {x} : a[y] = c[y]
    <3> HIDE DEF a, b, d, size, n, m
    <3>1. b \in Mem /\ SameBut(c, b, {x}) /\ b[x].size = size /\ b[x].prev = c[x].prev
      BY <1>0, <2>4, StoreSizeIs DEF b
    <3>2. a \in Mem /\ SameBut(b, a, {x}) /\ SameSizes(b, a) /\ NextStored(b, a, x, m)
      BY <1>0, <2>4, <3>1, StoreNextIs DEF a
    <3> QED
      BY <1>0, <3>1, <3>2 DEF SameBut, SameSizes, NextStored
  <2> HIDE DEF a, b, d, size, n, m
  <2>6. d \in Mem /\ SameBut(a, d, {m}) /\ SameSizes(a, d) /\ PrevStored(a, d, m, x)
    BY <1>0, <2>4, <2>5, StorePrevIs DEF d
  <2>7. Bypass(c, d, n, S)
    <3>1. \A y \in S : y \in Addresses
      OBVIOUS
    <3>2. ASSUME NEW y \in S \ {n} PROVE d[y].next = IF y = c[n].prev THEN c[n].next ELSE c[y].next
      <4>1. d[y].next = a[y].next
        BY <2>6, <3>1 DEF PrevStored
      <4> QED
        BY <2>3, <2>5, <3>1, <4>1 DEF m
    <3>3. ASSUME NEW y \in S \ {n} PROVE d[y].prev = IF y = c[n].next THEN c[n].prev ELSE c[y].prev
      <4>1. d[y].prev = IF y = m THEN x ELSE a[y].prev
        BY <2>6, <3>1 DEF PrevStored
      <4> QED
        BY <2>3, <2>5, <3>1, <4>1 DEF m
    <3> QED
      BY <3>2, <3>3 DEF Bypass
  <2>8. Chain(d, head, T, ByAddress)
    <3>1. Chain(d, IF c[n].prev = Null THEN c[n].next ELSE head, S \ {n}, ByAddress)
      BY <2>2, <2>7, ByAddressIs, ChainRemove
    <3> QED
      BY <1>0, <2>3, <3>1
  <2>9. Tiles(d, T \cup H, R)
    <3>1. d[x].size = c[x].size + c[n].size /\ \A y \in (S \cup H) \ {x} : d[y].size = c[y].size
      BY <1>0, <2>5, <2>6 DEF SameSizes, size
    <3>2. n \in S \cup H /\ x \in S \cup H
      BY <2>2
    <3>3. Tiles(d, (S \cup H) \ {n}, R)
      BY <1>2, <2>6, <3>1, <3>2, TilesMerge DEF n
    <3>4. (S \cup H) \ {n} = T \cup H
      BY <2>2
    <3> QED
      BY <3>3, <3>4
  <2>10. SameBut(c, d, S)
    <3>1. ASSUME NEW y \in Addresses \ S PROVE d[y] = c[y]
      <4>1. y # m /\ y # x
        BY <2>3, AddressIs
      <4> QED
        BY <2>5, <2>6, <4>1 DEF SameBut
    <3> QED
      BY <3>1 DEF SameBut
  <2>11. \A y \in S : y < x => y \in T
    <3> TAKE y \in S
    <3>1. y \in Int /\ n \in Int
      BY <2>2, AddressIs
    <3> QED
      BY <1>0, <2>2, <3>1
  <2>12. \A y \in T \ {x} : d[y].size = c[y].size
    BY <2>5, <2>6 DEF SameSizes
  <2>13. x + d[x].size = n + c[n].size
    <3>1. d[x].size = c[x].size + c[n].size /\ n \in Addresses
      BY <1>0, <2>2, <2>5, <2>6 DEF SameSizes, size
    <3>2. c[n].size \in Int
      BY <3>1, MemIs
    <3> QED
      BY <1>0, <1>2, <3>1, <3>2
  <2>14. Absorbed(c, d, head, S, T, x, H, R)
    BY <1>2, <2>2, <2>6, <2>8, <2>9, <2>10, <2>11, <2>12, <2>13 DEF Absorbed
  <2> QED
    BY <2>1, <2>14
<1> QED
  BY <1>1, <1>2

\* What the calls do to the memory R of a heap of which H are cells that stay held:
\* they write there only, but not into the blocks of H, and leave their sizes.
Kept(c, d, H, R) ==
  /\ SameBut(c, d, R)
  /\ \A z \in H : d[z].size = c[z].size
  /\ \A z \in H, y \in Addresses : z < y /\ y < z + c[z].size => d[y] = c[y]

\* A heap whose free list begins at free and whose allocated list, at allocated, has
\* the cells H.
Laid(c, free, allocated, H, R) ==
  \E F \in SUBSET Addresses, r \in Ranks :
    /\ F \cap H = {} /\ Chain(c, free, F, ByAddress) /\ Chain(c, allocated, H, r)
    /\ Tiles(c, F \cup H, R) /\ Apart(c, F)

\* What DLInsert does to the free cells S of a heap when x joins them.
Inserted(c, l, S, T, x, H, R) ==
  /\ T \in SUBSET (S \cup {x})
  /\ l.cells \in Mem /\ Chain(l.cells, l.head, T, ByAddress) /\ Tiles(l.cells, T \cup H, R)
  /\ SameBut(c, l.cells, S \cup {x}) /\ Apart(l.cells, T)

LEMMA DLInsertIs ==
  ASSUME NEW c \in Mem, NEW S \in SUBSET Addresses, NEW head, NEW x \in Addresses \ S,
         Chain(c, head, S, ByAddress),
         NEW H \in SUBSET Addresses, S \cap H = {}, x \notin H, NEW R \in SUBSET Addresses,
         Tiles(c, S \cup {x} \cup H, R), Apart(c, S)
  PROVE  \E T : Inserted(c, DLInsert(c, head, x), S, T, x, H, R)
<1> DEFINE prev == PrevInList(c, head, x)
           next == NextInList(c, head, x)
           a == Link(c, x, prev, next)
           first == IF prev = Null THEN x ELSE head
           U == S \cup {x}
           b == Absorb(a, x)
           d == Absorb(b, prev)
           l == DLInsert(c, head, x)
<1>1. l.cells = (IF prev = Null THEN b ELSE d) /\ l.head = first
  BY DEF DLInsert
<1>2. Place(S, ByAddress, x, prev, next)
  BY NeighboursFound
<1> HIDE DEF prev, next
<1>3. a \in Mem /\ Chain(a, first, U, ByAddress) /\ SameSizes(c, a) /\ SameBut(c, a, U)
  BY <1>2, ByAddressIs, LinkIs
<1>4. U \in SUBSET Addresses /\ x \in U /\ U \cap H = {} /\ U \cup H = S \cup {x} \cup H
  OBVIOUS
<1> HIDE DEF a, first, l
<1>5. Tiles(a, U \cup H, R)
  BY <1>3, <1>4, TilesSame DEF SameSizes
<1> HIDE DEF U
<1>6. PICK T : Absorbed(a, b, first, U, T, x, H, R)
  BY <1>3, <1>4, <1>5, AbsorbIs
<1> HIDE DEF b
<1>7. SameBut(c, b, U) /\ T \in SUBSET Addresses /\ T \cap H = {}
  BY <1>3, <1>4, <1>6 DEF SameBut, Absorbed
<1>10. /\ T \subseteq U /\ x \in T /\ \A y \in T \ {x} : b[y].size = c[y].size /\ y \in S /\ y \in Addresses
  BY <1>3, <1>4, <1>6 DEF Absorbed, SameSizes, U
<1>11. /\ \A y \in U : y \in Int /\ c[y].size \in Int /\ c[y].size >= Align
       /\ \A y \in S : y < x => y + c[y].size <= x
       /\ a[x].size = c[x].size
  <2>1. \A y \in U : y \in Addresses /\ y \in S \cup {x} \cup H
    BY <1>4
  <2>2. \A y \in U : c[y].size >= Align
    BY <2>1 DEF Tiles
  <2>3. \A y \in S : y < x => y + c[y].size <= x
    BY DEF Tiles
  <2> QED
    BY <1>3, <2>1, <2>2, <2>3, MemIs DEF SameSizes
\* The cell behind x does not adjoin one.
<1>12. x + b[x].size \notin T
  <2> DEFINE n == x + a[x].size
  <2>1. n \in U => n + a[n].size \notin U
    <3> SUFFICES ASSUME n \in U PROVE n + a[n].size \notin U
      OBVIOUS
    <3>1. n # x /\ n \in S /\ n \in Int /\ x \in Int /\ x < n
      BY <1>4, <1>11, AlignIs DEF U
    <3>2. n + c[n].size \notin S
      BY <3>1 DEF Apart
    <3>3. n + c[n].size # x
      BY <1>11, <3>1, AlignIs DEF U
    <3>4. a[n].size = c[n].size
      BY <1>3, <3>1 DEF SameSizes
    <3> QED
      BY <3>2, <3>3, <3>4 DEF U
  <2> QED
    BY <1>6, <2>1 DEF Absorbed
<1>8. CASE prev = Null
  <2>1. Apart(b, T)
    <3> SUFFICES ASSUME NEW y \in T \ {x}, y + b[y].size \in T PROVE FALSE
      BY <1>12 DEF Apart
    <3>1. y \in S /\ y + c[y].size \notin S /\ b[y].size = c[y].size
      BY <1>10 DEF Apart
    <3>2. y + c[y].size = x
      BY <1>10, <3>1 DEF U
    <3>3. x < y
      BY <1>2, <1>8, <3>1, ByAddressIs DEF Place
    <3> QED
      BY <1>11, <3>1, <3>2, <3>3, AlignIs DEF U
  <2>2. Inserted(c, l, S, T, x, H, R)
    BY <1>1, <1>6, <1>7, <1>8, <2>1 DEF Inserted, Absorbed, U
  <2> QED
    BY <2>2 DEF l
<1>9. CASE prev # Null
  <2>1. prev \in T
    <3>1. prev \in S /\ prev < x
      BY <1>2, <1>9, ByAddressIs DEF Place
    <3> QED
      BY <1>6, <3>1 DEF Absorbed, U
  <2>2. PICK V : Absorbed(b, d, first, T, V, prev, H, R)
    <3>1. b \in Mem /\ Chain(b, first, T, ByAddress) /\ Tiles(b, T \cup H, R)
      BY <1>6 DEF Absorbed
    <3> QED
      BY <1>7, <2>1, <3>1, AbsorbIs
  <2> HIDE DEF d
  <2>3. SameBut(c, d, U)
    BY <1>6, <1>7, <2>2 DEF SameBut, Absorbed
  <2>4. prev \in S /\ prev < x /\ prev # x /\ prev \in Int /\ \A z \in S : z <= prev \/ x < z
    <3>1. prev \in S /\ prev < x /\ \A z \in S : z <= prev \/ x < z
      BY <1>2, <1>9, ByAddressIs DEF Place
    <3> QED
      BY <1>11, <3>1 DEF U
  <2>5. V \subseteq T /\ \A y \in V \ {prev} : d[y].size = b[y].size
    BY <2>2 DEF Absorbed
  <2>6. prev + d[prev].size \notin V
    <3> DEFINE n == prev + b[prev].size
    <3>1. n \in T => n + b[n].size \notin T
      <4> SUFFICES ASSUME n \in T, n # x PROVE FALSE
        BY <1>12
      <4>1. b[prev].size = c[prev].size /\ n \in S
        BY <1>10, <2>1, <2>4
      <4> QED
        BY <2>4, <4>1 DEF Apart
    <3> QED
      BY <2>2, <3>1 DEF Absorbed
  <2>7. ASSUME NEW y \in V \ {prev} PROVE y + d[y].size \notin V
    <3>1. CASE y = x
      BY <1>12, <2>4, <2>5, <3>1
    <3>2. CASE y # x
      <4>1. y \in S /\ d[y].size = c[y].size /\ y + c[y].size \notin S
        BY <1>10, <2>5, <3>2 DEF Apart
      <4>2. y + c[y].size # x
        <5> SUFFICES ASSUME y + c[y].size = x PROVE FALSE
          OBVIOUS
        <5>1. y < x /\ y \in Int /\ c[y].size \in Int
          BY <1>11, <4>1, AlignIs DEF U
        <5>2. y < prev
          BY <2>4, <4>1, <5>1
        <5>3. y + c[y].size <= prev
          <6>1. y \in S \cup {x} \cup H /\ prev \in S \cup {x} \cup H
            BY <2>4, <4>1
          <6> QED
            BY <5>2, <6>1 DEF Tiles
        <5> QED
          BY <2>4, <5>1, <5>3
      <4> QED
        BY <1>10, <2>5, <4>1, <4>2
    <3> QED
      BY <3>1, <3>2
  <2>8. Apart(d, V)
    BY <2>6, <2>7 DEF Apart
  <2>9. Inserted(c, l, S, V, x, H, R)
    BY <1>1, <1>6, <1>9, <2>2, <2>3, <2>8 DEF Inserted, Absorbed, U
  <2> QED
    BY <2>9 DEF l
<1> QED
  BY <1>8, <1>9

\* A new cell at the front of the allocated list is the one added last.
LEMMA DLAddFrontIs ==
  ASSUME NEW c \in Mem, NEW H \in SUBSET Addresses, NEW r \in Ranks, NEW list,
         NEW x \in Addresses \ H, Chain(c, list, H, r)
  PROVE  LET d == DLAddFront(c, list, x)
         IN /\ d \in Mem /\ SameSizes(c, d) /\ SameBut(c, d, H \cup {x})
            /\ \E q \in Ranks : Chain(d, x, H \cup {x}, q)
<1> DEFINE a == StorePrev(StoreNext(c, x, list), x, Null)
           d == DLAddFront(c, list, x)
           m == IF list = Null THEN 0 ELSE r[list] - 1
           q == [r EXCEPT ![x] = m]
<1>1. list \in H \cup {Null} /\ list \in Int /\ x # Null /\ list # x
  BY AddressIs DEF Chain, Null
<1>3. d = StorePrev(a, list, x) /\ x \in Int /\ Null \in Int
  BY AddressIs DEF DLAddFront, Null
<1> HIDE DEF d, q, m
<1>2. a \in Mem /\ SameBut(c, a, {x}) /\ SameSizes(c, a) /\ a[x].next = list /\ a[x].prev = Null
  <2> DEFINE e == StoreNext(c, x, list)
  <2>1. e \in Mem /\ SameBut(c, e, {x}) /\ SameSizes(c, e) /\ NextStored(c, e, x, list)
    BY <1>1, StoreNextIs
  <2> HIDE DEF e
  <2>2. a \in Mem /\ SameBut(e, a, {x}) /\ SameSizes(e, a) /\ PrevStored(e, a, x, Null)
    BY <1>3, <2>1, StorePrevIs DEF e
  <2> QED
    BY <2>1, <2>2 DEF SameBut, SameSizes, NextStored, PrevStored
<1> HIDE DEF a
<1>4. d \in Mem /\ SameBut(a, d, {list}) /\ SameSizes(a, d) /\ PrevStored(a, d, list, x)
  BY <1>1, <1>2, <1>3, StorePrevIs
<1>5. /\ q \in Ranks /\ q[x] = m /\ \A y \in H : q[y] = r[y] /\ q[y] \in Int
      /\ \A y \in H : m < r[y]
  <2> USE DEF q, m
  <2>1. \A y \in H : y \in Addresses /\ y # x /\ r[y] \in Int
    BY DEF Ranks
  <2>2. m \in Int /\ \A y \in H : m < r[y]
    <3>1. CASE list = Null
      BY <3>1 DEF Chain
    <3>2. CASE list # Null
      BY <1>1, <2>1, <3>2 DEF Chain
    <3> QED
      BY <3>1, <3>2
  <2> HIDE DEF m
  <2> QED
    BY <2>1, <2>2 DEF Ranks
<1> HIDE DEF q, m
<1>6. Chain(c, list, H, q)
  BY <1>5 DEF Chain, Follows
<1>7. Place(H, q, x, Null, list)
  BY <1>1, <1>5, <1>6 DEF Place, Chain
<1>8. Enter(c, d, x, Null, list, H)
  <2>1. \A y \in H : y \in Addresses /\ y # x /\ a[y] = c[y] /\ y # Null
    BY <1>2, AddressIs DEF SameBut
  <2> QED
    BY <1>1, <1>2, <1>4, <2>1 DEF Enter, PrevStored
<1>9. Chain(d, x, H \cup {x}, q)
  <2>1. Chain(d, IF Null = Null THEN x ELSE list, H \cup {x}, q)
    BY <1>5, <1>6, <1>7, <1>8, ChainAdd
  <2> QED
    BY <2>1
<1>10. SameSizes(c, d) /\ SameBut(c, d, H \cup {x})
  <2>1. ASSUME NEW y \in Addresses PROVE d[y].size = c[y].size
    BY <1>2, <1>4 DEF SameSizes
  <2>2. ASSUME NEW y \in Addresses \ (H \cup {x}) PROVE d[y] = c[y]
    <3>1. y # list /\ y # x
      BY <1>1, AddressIs
    <3> QED
      BY <1>2, <1>4, <3>1 DEF SameBut
  <2> QED
    BY <2>1, <2>2 DEF SameSizes, SameBut
<1> QED
  BY <1>4, <1>5, <1>9, <1>10 DEF d

-----------------------------------------------------------------------------
(* What the operations do to the memory of one heap. *)

\* Headers are not within a held block.
LEMMA KeptIs ==
  ASSUME NEW c \in Mem, NEW d \in Mem, NEW S \in SUBSET Addresses, NEW T \in SUBSET Addresses,
         NEW R \in SUBSET Addresses, NEW H, H \subseteq S, H \subseteq T,
         Tiles(c, S, R), Tiles(d, T, R), SameBut(c, d, S \cup T), \A z \in H : d[z].size = c[z].size
  PROVE  Kept(c, d, H, R)
<1>0. \A y \in Addresses : y \in Int /\ c[y].size \in Int /\ d[y].size \in Int
  BY MemIs
<1>1. S \cup T \subseteq R
  <2>1. \A y \in S : y \in R
    BY <1>0, AlignIs DEF Tiles
  <2>2. \A y \in T : y \in R
    BY <1>0, AlignIs DEF Tiles
  <2> QED
    BY <2>1, <2>2
<1>2. SameBut(c, d, R)
  BY <1>1 DEF SameBut
<1>3. ASSUME NEW z \in H, NEW y \in Addresses, z < y, y < z + c[z].size PROVE d[y] = c[y]
  <2>1. z \in Addresses
    OBVIOUS
  <2>2. y \notin S
    BY <1>0, <1>3, <2>1 DEF Tiles
  <2>3. y \notin T
    <3> SUFFICES ASSUME y \in T PROVE FALSE
      OBVIOUS
    <3>1. z + d[z].size <= y
      BY <1>3 DEF Tiles
    <3> QED
      BY <1>0, <1>3, <2>1, <3>1
  <2> QED
    BY <2>2, <2>3 DEF SameBut
<1> QED
  BY <1>2, <1>3 DEF Kept

LEMMA KeptTwice ==
  ASSUME NEW c, NEW d, NEW e, NEW H, NEW R, Kept(c, d, H, R), Kept(d, e, H, R)
  PROVE  Kept(c, e, H, R)
BY DEF Kept, SameBut

\* What the program writes into a block of its own.
LEMMA FillKept ==
  ASSUME NEW c \in Mem, NEW S \in SUBSET Addresses, NEW R \in SUBSET Addresses, Tiles(c, S, R),
         NEW x \in S
  PROVE  LET d == Fill(c, x + Align, x + c[x].size)
         IN /\ d \in Mem /\ Kept(c, d, S \ {x}, R)
            /\ \A y \in S : d[y] = c[y]
<1> DEFINE d == Fill(c, x + Align, x + c[x].size)
<1>0. \A y \in Addresses : y \in Int /\ c[y].size \in Int
  BY MemIs
<1>1. d \in Mem
  <2>1. Data \in [prev : Int, next : Int, size : Int, hd : Int]
    BY AlignIs DEF Data, NoHeap
  <2>2. \A y \in Addresses : c[y] \in [prev : Int, next : Int, size : Int, hd : Int]
    BY DEF Mem
  <2> HIDE DEF Data
  <2> QED
    BY <2>1, <2>2 DEF Mem, Fill
<1>2. \A y \in Addresses : d[y] # c[y] => x < y /\ y < x + c[x].size
  <2>1. ASSUME NEW y \in Addresses, ~(x + Align <= y /\ y < x + c[x].size) PROVE d[y] = c[y]
    BY <2>1 DEF Fill
  <2> QED
    BY <1>0, <2>1, AlignIs
<1> HIDE DEF d
<1>3. \A y \in S : d[y] = c[y]
  <2> TAKE y \in S
  <2>1. x < y => x + c[x].size <= y
    BY DEF Tiles
  <2>2. x \in Int /\ y \in Int /\ c[x].size \in Int
    BY <1>0
  <2> QED
    BY <1>2, <2>1, <2>2
<1>4. SameBut(c, d, R)
  BY <1>0, <1>2 DEF SameBut, Tiles
<1>5. ASSUME NEW z \in S \ {x}, NEW y \in Addresses, z < y, y < z + c[z].size PROVE d[y] = c[y]
  <2>1. (x < z => x + c[x].size <= z) /\ (z < x => z + c[z].size <= x)
    BY DEF Tiles
  <2>2. x \in Int /\ y \in Int /\ z \in Int /\ z # x /\ c[x].size \in Int /\ c[z].size \in Int
    BY <1>0
  <2> QED
    BY <1>2, <1>5, <2>1, <2>2
<1>6. Kept(c, d, S \ {x}, R)
  BY <1>3, <1>4, <1>5 DEF Kept
<1> QED
  BY <1>1, <1>3, <1>6 DEF d

\* A cell of size old is taken whole, or r bytes of it and the rest is a cell.
Shares(old, new, r) == new = old \/ (new = r /\ Splits(old - r))

\* Cell x is taken from the free list, with r bytes and less than a small cell more;
\* G stays free.
Taken(c, l, G, x, H, R, r) ==
  /\ G \in SUBSET Addresses /\ x \notin G /\ G \cap H = {}
  /\ l.cells \in Mem /\ Chain(l.cells, l.head, G, ByAddress) /\ Tiles(l.cells, {x} \cup G \cup H, R)
  /\ Kept(c, l.cells, H, R) /\ \A z \in H : l.cells[z] = c[z]
  /\ l.cells[x].size - r \in 0 .. 2 * Align - 1 /\ Apart(l.cells, G)
  /\ Shares(c[x].size, l.cells[x].size, r)

LEMMA MultipleIs ==
  ASSUME NEW m \in Int, NEW n \in Int, m % Align = 0, n % Align = 0
  PROVE  (m + n) % Align = 0 /\ (m - n) % Align = 0
<1>1. Align \in Nat \ {0}
  BY HeapAssumption
<1>2. m = (m \div Align) * Align /\ n = (n \div Align) * Align
  BY <1>1
<1>3. PICK k \in Int, l \in Int : m = k * Align /\ n = l * Align
  BY <1>1, <1>2
<1>4. m + n = (k + l) * Align /\ m - n = (k - l) * Align
  BY <1>1, <1>3
<1>5. ASSUME NEW i \in Int PROVE (i * Align) % Align = 0
  BY <1>1
<1> QED
  BY <1>3, <1>4, <1>5, SMTT(30)

LEMMA DivIs ==
  ASSUME NEW m \in Nat
  PROVE  /\ (m \div Align) * Align \in Nat /\ ((m \div Align) * Align) % Align = 0
         /\ (m \div Align) * Align <= m /\ m < (m \div Align) * Align + Align
<1>1. Align \in Nat \ {0}
  BY HeapAssumption
<1>2. m \div Align \in Nat /\ m % Align \in 0 .. Align - 1
  BY <1>1
<1>3. m = (m \div Align) * Align + (m % Align)
  BY <1>1
<1>4. PICK k \in Nat : k = m \div Align
  BY <1>2
<1>5. k * Align \in Nat /\ (k * Align) % Align = 0
  BY <1>1
<1> QED
  BY <1>1, <1>2, <1>3, <1>4, <1>5

LEMMA RoundUpIs ==
  ASSUME NEW n \in Nat
  PROVE  /\ OSRoundUp32B(n) \in Nat /\ OSRoundUp32B(n) % Align = 0
         /\ n <= OSRoundUp32B(n) /\ OSRoundUp32B(n) < n + Align
<1>1. n + Align - 1 \in Nat
  BY HeapAssumption
<1> QED
  BY <1>1, DivIs, AlignIs DEF OSRoundUp32B

LEMMA RoundDownIs ==
  ASSUME NEW n \in Nat
  PROVE  /\ OSRoundDown32B(n) \in Nat /\ OSRoundDown32B(n) % Align = 0 /\ OSRoundDown32B(n) <= n
BY DivIs DEF OSRoundDown32B

\* Required bytes are whole units, and hold the header and what was asked for.
LEMMA RequiredIs ==
  ASSUME NEW n \in Nat
  PROVE  Required(n) \in Int /\ Required(n) % Align = 0 /\ Required(n) >= n + Align
BY RoundUpIs, HeapAssumption DEF Required

LEMMA SplitAtTaken ==
  ASSUME cells \in Mem, NEW h, NEW F \in SUBSET Addresses, Chain(cells, heaps[h].free, F, ByAddress),
         NEW H \in SUBSET Addresses, F \cap H = {}, NEW R \in SUBSET Addresses,
         Tiles(cells, F \cup H, R), Apart(cells, F),
         NEW x \in F, NEW r \in Int, r % Align = 0, r >= Align, Splits(cells[x].size - r)
  PROVE  \E G : Taken(cells, SplitAt(h, x, r), G, x, H, R, r)
<1> DEFINE head == heaps[h].free
           p == cells[x].prev
           n == cells[x].next
           y == x + r
           new == [prev |-> p, next |-> n, size |-> cells[x].size - r, hd |-> NoHeap]
           a == Store(StoreSize(cells, x, r), y, new)
           b == StorePrev(a, n, y)
           d == StoreNext(b, p, y)
           l == SplitAt(h, x, r)
           e == DLExtract(cells, head, x)
           Q == F \ {x}
           G == Q \cup {y}
<1>0. /\ ByAddress \in Ranks
      /\ \A z \in Addresses : z \in Int /\ z > 0 /\ z # Null /\ cells[z].size \in Int /\ ByAddress[z] = z
  BY ByAddressIs, MemIs, AddressIs
<1>2. /\ p \in Q \cup {Null} /\ n \in Q \cup {Null} /\ p \in Int /\ n \in Int
  <2>1. x \in F /\ F \in SUBSET Addresses
    OBVIOUS
  <2>2. n \in F \cup {Null} /\ n # x /\ p \in F \cup {Null} /\ p # x
    <3>1. ByAddress \in Ranks /\ Chain(cells, head, F, ByAddress)
      BY <1>0
    <3> HIDE DEF y, new, a, b, d, l, e, Q, G, head
    <3> QED
      BY <2>1, <3>1, LinksAre
  <2>3. p \in Int /\ n \in Int
    BY <2>1, MemIs
  <2> QED
    BY <2>2, <2>3
<1>3. /\ x \in Addresses /\ cells[x].size \in Int /\ cells[x].size - r >= 2 * Align
      /\ x + cells[x].size - Align \in R /\ x + cells[x].size - Align \in Addresses
      /\ (x \div Align) \in Int
  BY <1>0, HeapAssumption DEF Tiles, Splits
<1>4. y \in Addresses /\ x + Align <= y /\ y + Align <= x + cells[x].size
  <2>1. x \in Int /\ x % Align = 0 /\ 1 <= x /\ Top \in Int
    BY <1>3, <1>0, TopNat DEF Addresses
  <2>4. MemBase <= x /\ MemBase \in Int
    BY <1>3, HeapAssumption DEF Addresses
  <2>2. (x + r) % Align = 0
    BY <2>1, MultipleIs
  <2>3. x + cells[x].size - Align <= Top
    BY <1>3 DEF Addresses
  <2> QED
    BY <1>3, <2>1, <2>2, <2>3, <2>4, AlignIs DEF Addresses
<1>5. y \in R /\ y - Align \in R
  <2>1. y \in R
    <3>1. x <= y /\ y < x + cells[x].size
      BY <1>0, <1>3, <1>4, AlignIs
    <3> QED
      BY <1>4, <3>1 DEF Tiles
  <2>2. y - Align \in Addresses
    <3>1. y \in Int /\ y % Align = 0 /\ Align % Align = 0 /\ y <= Top /\ Top \in Int
      BY <1>4, HeapAssumption, TopNat DEF Addresses
    <3>2. (y - Align) % Align = 0
      BY <3>1, MultipleIs, AlignIs
    <3>4. x \in Int /\ MemBase <= x /\ MemBase \in Int
      BY <1>0, <1>3, HeapAssumption DEF Addresses
    <3>3. MemBase <= y - Align /\ y - Align <= Top
      BY <1>4, <3>1, <3>4, AlignIs
    <3> QED
      BY <3>1, <3>2, <3>3, AlignIs DEF Addresses
  <2>3. x <= y - Align /\ y - Align < x + cells[x].size
    BY <1>0, <1>3, <1>4, AlignIs
  <2> QED
    BY <2>1, <2>2, <2>3 DEF Tiles
<1>6. y \in Int /\ y # x /\ y > 0 /\ y # Null
  BY <1>0, <1>3, <1>4, AlignIs
<1>1. l.cells = d /\ l.head = IF p = Null THEN y ELSE heaps[h].free
  <2>1. Load(cells, x) = cells[x]
    BY <1>3, LoadIs
  <2>2. cells[x].size \in Nat /\ cells[x].size < Half /\ x + cells[x].size < 2 * Half /\ x \in Nat
    <3> DEFINE S == F \cup H
    <3>1. Tiles(cells, S, R) /\ S \in SUBSET Addresses /\ x \in S
      OBVIOUS
    <3> HIDE DEF S
    <3> QED
      BY <3>1, CellFits
  <2>3. /\ cells[x].size - r \in Nat /\ cells[x].size - r < 2 * Half
        /\ x + r \in Nat /\ x + r < 2 * Half
    BY <1>3, <2>2, AlignIs, HeapAssumption
  <2>4. U32(x + r) = x + r /\ U32(cells[x].size - r) = cells[x].size - r
    BY <2>3, U32Is
  <2> QED
    BY <2>1, <2>4 DEF SplitAt, CutAt, Rest
<1>7. /\ a \in Mem /\ a[x].size = r /\ a[y] = new
      /\ \A z \in Addresses \ {x, y} : a[z] = cells[z]
      /\ a[x].prev = p /\ a[x].next = n
  <2>1. new \in [prev : Int, next : Int, size : Int, hd : Int]
    BY <1>2, <1>3 DEF NoHeap
  <2> DEFINE f == StoreSize(cells, x, r)
  <2>2. /\ f \in Mem /\ SameBut(cells, f, {x})
        /\ f[x].size = r /\ f[x].next = cells[x].next /\ f[x].prev = cells[x].prev
    BY <1>3, StoreSizeIs
  <2> HIDE DEF new, y, b, d, l, e, Q, G, f
  <2>3. a = [f EXCEPT ![y] = new]
    BY <1>4 DEF Store, f
  <2> QED
    BY <1>3, <1>4, <1>6, <2>1, <2>2, <2>3 DEF Mem, SameBut
<1>8. /\ new.prev = p /\ new.next = n /\ new.size = cells[x].size - r
  OBVIOUS
<1>9. /\ e.cells \in Mem /\ Chain(e.cells, e.head, Q, ByAddress)
      /\ Bypass(cells, e.cells, x, F) /\ e.head = IF p = Null THEN n ELSE head
  <2>1. x \in F /\ F \in SUBSET Addresses /\ ByAddress \in Ranks /\ Chain(cells, head, F, ByAddress)
    BY <1>0
  <2> HIDE DEF new, y, a, b, d, l, G, head
  <2>2. Extracted(cells, e, head, F, x, ByAddress)
    BY <2>1, DLExtractIs
  <2> QED
    BY <2>2 DEF Extracted
<1> HIDE DEF p, n, y, new, a, b, d, l, e
<1>10. b \in Mem /\ SameBut(a, b, {n}) /\ SameSizes(a, b) /\ PrevStored(a, b, n, y)
  BY <1>2, <1>6, <1>7, StorePrevIs DEF b
<1>11. d \in Mem /\ SameBut(b, d, {p}) /\ SameSizes(b, d) /\ NextStored(b, d, p, y)
  BY <1>2, <1>6, <1>10, StoreNextIs DEF d
<1>12. SameBut(cells, d, Q \cup {x, y})
  <2>1. ASSUME NEW z \in Addresses \ (Q \cup {x, y}) PROVE d[z] = cells[z]
    <3>1. z # n /\ z # p
      BY <1>0, <1>2, <2>1
    <3> QED
      BY <1>7, <1>10, <1>11, <3>1 DEF SameBut
  <2> QED
    BY <2>1 DEF SameBut
<1>13. d[x].size = r /\ d[y].size = cells[x].size - r /\ \A z \in Addresses \ {x, y} : d[z].size = cells[z].size
  BY <1>3, <1>4, <1>6, <1>7, <1>8, <1>10, <1>11 DEF SameSizes
<1>14. y \notin F \cup H /\ Tiles(d, (F \cup H) \cup {y}, R)
  <2>1. d[x].size = y - x /\ d[y].size = x + cells[x].size - y
    BY <1>0, <1>3, <1>13 DEF y
  <2>2. x \in F \cup H /\ F \cup H \in SUBSET Addresses
    OBVIOUS
  <2>3. \A z \in F \cup H : y = z => FALSE
    <3> TAKE z \in F \cup H
    <3>1. x < z => x + cells[x].size <= z
      BY DEF Tiles
    <3>2. z \in Int /\ z \in Addresses
      BY <1>0
    <3> QED
      BY <1>0, <1>3, <1>4, <1>6, <3>1, <3>2, AlignIs
  <2>4. \A z \in (F \cup H) \ {x} : d[z].size = cells[z].size
    BY <1>13, <2>3
  <2> DEFINE S == F \cup H
  <2> HIDE DEF S
  <2>5. Tiles(d, S \cup {y}, R)
    BY <1>4, <1>5, <1>11, <2>1, <2>2, <2>4, TilesSplit DEF S
  <2> QED
    BY <2>3, <2>5 DEF S
<1>15. Place(Q, ByAddress, y, p, n)
  <2>1. \A z \in Q : z \in Int /\ ByAddress[z] = z /\ z \in Addresses
    BY <1>0
  <2>2. \A z \in Q : (z < x => z < y) /\ (x < z => y < z)
    <3> TAKE z \in Q
    <3>1. x < z => x + cells[x].size <= z
      BY DEF Tiles
    <3> QED
      BY <1>0, <1>3, <1>4, <1>6, <2>1, <3>1, AlignIs
  <2>3. ByAddress[y] = y /\ ByAddress[x] = x /\ x \in Int
    BY <1>0, <1>3, <1>4
  <2>4. \A z \in Q : z < x \/ x < z
    BY <2>1, <2>3
  <2>5. p = Null => \A z \in Q : y < z
    BY <2>1, <2>2, <2>3 DEF Chain, p
  <2>6. p # Null => p \in Q /\ p < y /\ \A z \in Q : z <= p \/ y < z
    <3> SUFFICES ASSUME p # Null PROVE p \in Q /\ p < y /\ \A z \in Q : z <= p \/ y < z
      OBVIOUS
    <3>1. p \in Q
      BY <1>2
    <3>2. Follows(F, ByAddress, p, x)
      BY DEF Chain, p
    <3>3. p < x /\ \A z \in Q : ~(p < z /\ z < x)
      BY <2>1, <2>3, <3>1, <3>2 DEF Follows
    <3> QED
      BY <2>1, <2>2, <2>4, <3>1, <3>3
  <2>7. n = Null => \A z \in Q : z < y
    <3> SUFFICES ASSUME n = Null, NEW z \in Q PROVE z < y
      OBVIOUS
    <3>1. ByAddress[z] <= ByAddress[x]
      BY DEF Chain, n
    <3>2. z \in Int /\ x \in Int /\ z <= x
      BY <2>1, <2>3, <3>1
    <3>3. z < x
      BY <2>4, <3>2
    <3> QED
      BY <2>2, <3>3
  <2>8. n # Null => n \in Q /\ y < n /\ \A z \in Q : z < y \/ n <= z
    <3> SUFFICES ASSUME n # Null PROVE n \in Q /\ y < n /\ \A z \in Q : z < y \/ n <= z
      OBVIOUS
    <3>1. n \in Q
      BY <1>2
    <3>2. Follows(F, ByAddress, x, n)
      BY DEF Chain, n
    <3>3. x < n /\ \A z \in Q : ~(x < z /\ z < n)
      BY <2>1, <2>3, <3>1, <3>2 DEF Follows
    <3> QED
      BY <2>1, <2>2, <2>4, <3>1, <3>3
  <2> QED
    BY <2>1, <2>3, <2>5, <2>6, <2>7, <2>8 DEF Place
<1>16. Enter(e.cells, d, y, p, n, Q)
  <2>1. d[y].next = n /\ d[y].prev = p
    <3>1. y # n /\ y # p
      BY <1>2, <1>6, <1>14
    <3> QED
      BY <1>4, <1>7, <1>8, <1>10, <1>11, <3>1 DEF PrevStored, NextStored
  <2>2. ASSUME NEW z \in Q PROVE /\ d[z].next = IF z = p THEN y ELSE e.cells[z].next
                                 /\ d[z].prev = IF z = n THEN y ELSE e.cells[z].prev
    <3>1. z \in Addresses /\ z # x /\ z # y /\ a[z] = cells[z]
      BY <1>7, <1>14
    <3>2. /\ e.cells[z].next = IF z = p THEN n ELSE cells[z].next
          /\ e.cells[z].prev = IF z = n THEN p ELSE cells[z].prev
      BY <1>9 DEF Bypass, p, n
    <3>3. d[z].next = IF z = p THEN y ELSE cells[z].next
      BY <1>10, <1>11, <3>1 DEF PrevStored, NextStored
    <3>4. d[z].prev = IF z = n THEN y ELSE cells[z].prev
      BY <1>10, <1>11, <3>1 DEF PrevStored, NextStored
    <3> QED
      BY <3>2, <3>3, <3>4
  <2> QED
    BY <2>1, <2>2 DEF Enter
<1>17. Chain(d, l.head, G, ByAddress)
  <2>1. y \notin Q /\ Q \in SUBSET Addresses
    BY <1>14
  <2>2. Chain(d, IF p = Null THEN y ELSE e.head, Q \cup {y}, ByAddress)
    <3> HIDE DEF Q
    <3> QED
      BY <1>0, <1>4, <1>9, <1>15, <1>16, <2>1, ChainAdd
  <2>3. l.head = IF p = Null THEN y ELSE e.head
    BY <1>1, <1>9
  <2> QED
    BY <2>2, <2>3
<1>18. x \notin G /\ G \cap H = {} /\ {x} \cup G \cup H = (F \cup H) \cup {y} /\ G \in SUBSET Addresses
  BY <1>4, <1>6, <1>14
<1>19. \A z \in H : d[z] = cells[z]
  BY <1>12, <1>18 DEF SameBut
<1>20. Kept(cells, d, H, R)
  <2>1. SameBut(cells, d, (F \cup H) \cup ((F \cup H) \cup {y}))
    BY <1>12 DEF SameBut
  <2>2. (F \cup H) \cup {y} \in SUBSET Addresses
    BY <1>4
  <2> QED
    BY <1>11, <1>14, <1>19, <2>1, <2>2, KeptIs
<1>21. d[x].size - r \in 0 .. 2 * Align - 1
  BY <1>13, AlignIs
<1>22. Apart(d, G)
  <2>1. ASSUME NEW z \in Q PROVE z + d[z].size \notin G
    <3>1. /\ d[z].size = cells[z].size /\ z \in Int /\ cells[z].size \in Int
          /\ z + cells[z].size \notin F
      BY <1>0, <1>13, <1>14 DEF Apart
    <3>2. z + cells[z].size # y
      <4>1. (z < x => z + cells[z].size <= x) /\ (x < z => x + cells[x].size <= z)
        BY DEF Tiles
      <4>2. cells[z].size >= Align
        BY DEF Tiles
      <4>3. z # x /\ x \in Int
        BY <1>0
      <4> QED
        BY <1>3, <1>4, <1>6, <3>1, <4>1, <4>2, <4>3, AlignIs
    <3> QED
      BY <3>1, <3>2
  <2>2. y + d[y].size \notin G
    <3>1. y + d[y].size = x + cells[x].size
      BY <1>0, <1>3, <1>13 DEF y
    <3>2. x + cells[x].size \notin F /\ x + cells[x].size # y
      BY <1>0, <1>3, <1>4, <1>6, AlignIs DEF Apart
    <3> QED
      BY <3>1, <3>2
  <2> QED
    BY <2>1, <2>2 DEF Apart
<1>23. Shares(cells[x].size, d[x].size, r)
  BY <1>13 DEF Shares
<1>24. Taken(cells, l, G, x, H, R, r)
  BY <1>1, <1>11, <1>14, <1>17, <1>18, <1>19, <1>20, <1>21, <1>22, <1>23 DEF Taken
<1> QED
  BY <1>24 DEF l

LEMMA DLExtractTaken ==
  ASSUME cells \in Mem, NEW h, NEW F \in SUBSET Addresses, Chain(cells, heaps[h].free, F, ByAddress),
         NEW H \in SUBSET Addresses, F \cap H = {}, NEW R \in SUBSET Addresses,
         Tiles(cells, F \cup H, R), Apart(cells, F),
         NEW x \in F, NEW r \in Int, r <= cells[x].size, ~Splits(cells[x].size - r)
  PROVE  Taken(cells, DLExtract(cells, heaps[h].free, x), F \ {x}, x, H, R, r)
<1> DEFINE head == heaps[h].free
           l == DLExtract(cells, head, x)
           G == F \ {x}
<1>1. Extracted(cells, l, head, F, x, ByAddress)
  <2>1. x \in F /\ F \in SUBSET Addresses /\ ByAddress \in Ranks /\ Chain(cells, head, F, ByAddress)
    BY ByAddressIs
  <2> HIDE DEF l, G, head
  <2> QED
    BY <2>1, DLExtractIs DEF l
<1> HIDE DEF head, l
<1>2. {x} \cup G \cup H = F \cup H /\ \A z \in H : z \notin G
  OBVIOUS
<1>3. Tiles(l.cells, F \cup H, R)
  BY <1>1, TilesSame DEF Extracted, SameSizes
<1>4. \A z \in H : l.cells[z] = cells[z]
  BY <1>1 DEF Extracted, SameBut
<1>5. Kept(cells, l.cells, H, R)
  <2>1. SameBut(cells, l.cells, (F \cup H) \cup (F \cup H)) /\ l.cells \in Mem
    BY <1>1 DEF Extracted, SameBut
  <2> QED
    BY <1>3, <1>4, <2>1, KeptIs
<1>6. l.cells[x].size - r \in 0 .. 2 * Align - 1
  <2>1. l.cells[x].size = cells[x].size /\ cells[x].size \in Int
    BY <1>1, MemIs DEF Extracted, SameSizes
  <2> QED
    BY <2>1, AlignIs DEF Splits
<1>7. Apart(l.cells, G)
  BY <1>1 DEF Apart, Extracted, SameSizes
<1>8. Shares(cells[x].size, l.cells[x].size, r)
  BY <1>1 DEF Extracted, SameSizes, Shares
<1>9. Taken(cells, l, G, x, H, R, r)
  BY <1>1, <1>2, <1>3, <1>4, <1>5, <1>6, <1>7, <1>8 DEF Taken, Extracted
<1> QED
  BY <1>9 DEF l, head

LEMMA FitIs ==
  ASSUME NEW h, NEW F \in SUBSET Addresses, Chain(cells, heaps[h].free, F, ByAddress),
         cells \in Mem, NEW S \in SUBSET Addresses, NEW R \in SUBSET Addresses, Tiles(cells, S, R), F \subseteq S,
         NEW r \in Int, r < Half, Fit(h, r) # Null
  PROVE  Fit(h, r) \in F /\ r <= cells[Fit(h, r)].size
<1> DEFINE head == heaps[h].free
           s == CellsFrom(cells, head)
           I == {i \in 1 .. Len(s) : S32(r) <= S32(Load(cells, s[i]).size)}
           i == IF I # {} THEN Min(I) ELSE 0
<1>1. s \in Seq(F) /\ ToSet(s) = F
  <2>1. ByAddress \in Ranks /\ Chain(cells, head, F, ByAddress)
    BY ByAddressIs
  <2> HIDE DEF head
  <2> QED
    BY <2>1, WalkIs
<1>2. SelectInSeq(s, LAMBDA x : S32(r) <= S32(Load(cells, x).size)) = i
  BY DEF SelectInSeq
<1>3. Fit(h, r) = IF i = 0 THEN Null ELSE s[i]
  BY <1>2 DEF Fit
<1> HIDE DEF s
<1>4. I # {} => i \in I
  <2>1. I \in SUBSET Nat
    OBVIOUS
  <2> HIDE DEF I
  <2> QED
    BY <2>1, MinIsLeast
<1>5. /\ I # {} /\ Fit(h, r) = s[i] /\ i \in 1 .. Len(s)
      /\ S32(r) <= S32(Load(cells, s[i]).size)
  BY <1>3, <1>4
<1> HIDE DEF i, I
<1>6. s[i] \in F
  BY <1>1, <1>5
<1> DEFINE x == s[i]
<1>7. x \in S /\ x \in Addresses
  BY <1>6
<1> HIDE DEF x
<1>8. cells[x].size < Half /\ Load(cells, x) = cells[x]
  BY <1>7, CellFits, LoadIs
<1> QED
  BY <1>5, <1>6, <1>8 DEF S32, x

\* What the program gets is cell x, at the front of the allocated list.
Given(l, h, x) ==
  Fill(StoreHd(DLAddFront(l.cells, heaps[h].allocated, x), x, h), x + Align, x + l.cells[x].size)

LEMMA GivenIs ==
  ASSUME cells \in Mem, NEW h \in Heaps, NEW H \in SUBSET Addresses, NEW R \in SUBSET Addresses,
         NEW q \in Ranks, Chain(cells, heaps[h].allocated, H, q),
         NEW l, NEW G, NEW x \in Addresses \ H, NEW r, Taken(cells, l, G, x, H, R, r)
  PROVE  /\ Given(l, h, x) \in Mem /\ Laid(Given(l, h, x), l.head, x, H \cup {x}, R)
         /\ Kept(cells, Given(l, h, x), H, R)
         /\ Given(l, h, x)[x].size - r \in 0 .. 2 * Align - 1
         /\ Shares(cells[x].size, Given(l, h, x)[x].size, r)
<1> DEFINE list == heaps[h].allocated
           c == l.cells
           a == DLAddFront(c, list, x)
           b == StoreHd(a, x, h)
           d == Fill(b, x + Align, x + b[x].size)
           S == {x} \cup G \cup H
<1>1. /\ G \in SUBSET Addresses /\ x \notin G /\ G \cap H = {} /\ c \in Mem /\ S \in SUBSET Addresses
      /\ Chain(c, l.head, G, ByAddress) /\ Tiles(c, S, R) /\ Kept(cells, c, H, R)
      /\ \A z \in H : c[z] = cells[z]
  BY DEF Taken
<1>2. c[x].size - r \in 0 .. 2 * Align - 1
  BY DEF Taken
<1>3. Chain(c, list, H, q)
  BY <1>1, ChainSame
<1>4. Given(l, h, x) = Fill(b, x + Align, x + c[x].size)
  BY DEF Given
<1> HIDE DEF a, c, list, d
<1>5. a \in Mem /\ SameSizes(c, a) /\ SameBut(c, a, H \cup {x}) /\ \E p \in Ranks : Chain(a, x, H \cup {x}, p)
  BY <1>1, <1>3, DLAddFrontIs DEF a
<1>6. PICK p \in Ranks : Chain(a, x, H \cup {x}, p)
  BY <1>5
<1>7. /\ b \in Mem
      /\ \A y \in Addresses : b[y].next = a[y].next /\ b[y].prev = a[y].prev /\ b[y].size = a[y].size
      /\ \A y \in Addresses \ {x} : b[y] = a[y]
  <2>1. h \in Int
    BY HeapAssumption DEF Heaps
  <2> QED
    BY <1>5, <2>1, StoreHdIs DEF SameBut, SameSizes
<1> HIDE DEF b
<1>8. Given(l, h, x) = d
  BY <1>4, <1>5, <1>7 DEF SameSizes, d
<1>9. Tiles(b, S, R)
  BY <1>1, <1>5, <1>7, TilesSame DEF SameSizes
<1>10. d \in Mem /\ Kept(b, d, S \ {x}, R) /\ \A y \in S : d[y] = b[y]
  <2>1. x \in S /\ S \in SUBSET Addresses
    BY <1>1
  <2> HIDE DEF S
  <2> QED
    BY <1>7, <1>9, <2>1, FillKept DEF d
<1>11. Chain(d, x, H \cup {x}, p)
  <2>1. \A y \in H \cup {x} : d[y].next = a[y].next /\ d[y].prev = a[y].prev
    BY <1>7, <1>10
  <2> QED
    BY <1>6, <2>1, ChainSame
<1>12. Chain(d, l.head, G, ByAddress)
  <2>1. ASSUME NEW y \in G PROVE d[y] = c[y]
    <3>1. y \in S /\ y # x /\ y \notin H \cup {x} /\ y \in Addresses
      BY <1>1
    <3> QED
      BY <1>5, <1>7, <1>10, <3>1 DEF SameBut
  <2> QED
    BY <1>1, <2>1, ChainSame
<1>13. Tiles(d, G \cup (H \cup {x}), R)
  <2>1. S = G \cup (H \cup {x})
    OBVIOUS
  <2> HIDE DEF S
  <2>2. Tiles(d, S, R)
    BY <1>9, <1>10, TilesSame
  <2> QED
    BY <2>1, <2>2
<1>14. Laid(d, l.head, x, H \cup {x}, R)
  <2>1. Apart(c, G)
    BY DEF Taken, c
  <2>2. \A y \in G : d[y].size = c[y].size
    <3>1. \A y \in G : y \in S /\ y \in Addresses
      BY <1>1
    <3> QED
      BY <1>5, <1>7, <1>10, <3>1 DEF SameSizes
  <2>3. Apart(d, G)
    BY <2>1, <2>2 DEF Apart
  <2> QED
    BY <1>1, <1>11, <1>12, <1>13, <2>3 DEF Laid
<1>15. Kept(cells, d, H, R)
  <2>1. \A z \in H : b[z].size = c[z].size
    BY <1>5, <1>7 DEF SameSizes
  <2>2. SameBut(c, b, S \cup S)
    BY <1>5, <1>7 DEF SameBut
  <2>3. Kept(c, b, H, R)
    BY <1>1, <1>7, <1>9, <2>1, <2>2, KeptIs
  <2>4. Kept(b, d, H, R)
    BY <1>10 DEF Kept
  <2> QED
    BY <1>1, <2>3, <2>4, KeptTwice
<1>16. d[x].size = c[x].size
  BY <1>5, <1>7, <1>10 DEF SameSizes
<1>17. d[x].size - r \in 0 .. 2 * Align - 1 /\ Shares(cells[x].size, d[x].size, r)
  <2>1. Shares(cells[x].size, c[x].size, r)
    BY DEF Taken, c
  <2> DEFINE size == d[x].size
  <2>2. size = c[x].size
    BY <1>16
  <2> HIDE DEF size
  <2>3. Shares(cells[x].size, size, r)
    BY <2>1, <2>2
  <2>4. size - r \in 0 .. 2 * Align - 1
    BY <1>2, <2>2
  <2> QED
    BY <2>3, <2>4 DEF size
<1> QED
  BY <1>8, <1>10, <1>14, <1>15, <1>17

\* Of a cell taken off the allocated list and put on the free one.
LEMMA FreedLaid ==
  ASSUME cells \in Mem, NEW h, NEW H \in SUBSET Addresses, NEW R \in SUBSET Addresses,
         Laid(cells, heaps[h].free, heaps[h].allocated, H, R), NEW x \in H
  PROVE  LET taken == DLExtract(cells, heaps[h].allocated, x)
             l == DLInsert(StoreHd(taken.cells, x, NoHeap), heaps[h].free, x)
         IN /\ l.cells \in Mem /\ Laid(l.cells, l.head, taken.head, H \ {x}, R)
            /\ Kept(cells, l.cells, H \ {x}, R)
<1> DEFINE free == heaps[h].free
           allocated == heaps[h].allocated
           taken == DLExtract(cells, allocated, x)
           a == taken.cells
           b == StoreHd(a, x, NoHeap)
           l == DLInsert(b, free, x)
           K == H \ {x}
<1>1. PICK F \in SUBSET Addresses, r \in Ranks :
        /\ F \cap H = {} /\ Chain(cells, free, F, ByAddress) /\ Chain(cells, allocated, H, r)
        /\ Tiles(cells, F \cup H, R) /\ Apart(cells, F)
  BY DEF Laid
<1>2. x \in Addresses /\ NoHeap \in Int
  BY DEF NoHeap
<1> HIDE DEF free, allocated, taken
<1>3. Extracted(cells, taken, allocated, H, x, r)
  <2>1. Chain(cells, allocated, H, r)
    BY <1>1
  <2> HIDE DEF a, b, l, K
  <2> QED
    BY <2>1, DLExtractIs DEF taken
<1>4. a \in Mem /\ Chain(a, taken.head, K, r) /\ SameSizes(cells, a) /\ SameBut(cells, a, K)
  BY <1>3 DEF Extracted
<1> HIDE DEF a
<1>5. /\ b \in Mem
      /\ \A y \in Addresses : b[y].next = a[y].next /\ b[y].prev = a[y].prev /\ b[y].size = a[y].size
      /\ \A y \in Addresses \ {x} : b[y] = a[y]
  BY <1>2, <1>4, StoreHdIs DEF SameBut, SameSizes
<1> HIDE DEF b, l
<1>6. SameSizes(cells, b) /\ SameBut(cells, b, H)
  <2>1. ASSUME NEW y \in Addresses PROVE b[y].size = cells[y].size
    BY <1>4, <1>5 DEF SameSizes
  <2>2. ASSUME NEW y \in Addresses \ H PROVE b[y] = cells[y]
    BY <1>4, <1>5 DEF SameBut
  <2> QED
    BY <2>1, <2>2 DEF SameSizes, SameBut
<1>7. Chain(b, free, F, ByAddress)
  <2>1. \A y \in F : b[y] = cells[y]
    BY <1>1, <1>6 DEF SameBut
  <2> QED
    BY <1>1, <2>1, ChainSame
<1>8. Tiles(b, F \cup {x} \cup K, R)
  <2>1. F \cup {x} \cup K = F \cup H
    OBVIOUS
  <2>2. Tiles(b, F \cup H, R)
    BY <1>1, <1>6, TilesSame DEF SameSizes
  <2> QED
    BY <2>1, <2>2
<1>9. x \in Addresses \ F /\ K \in SUBSET Addresses /\ F \cap K = {} /\ x \notin K
  BY <1>1
<1> HIDE DEF K
<1>10. PICK T : Inserted(b, l, F, T, x, K, R)
  <2>1. Apart(b, F)
    BY <1>1, <1>6 DEF Apart, SameSizes
  <2> QED
    BY <1>5, <1>7, <1>8, <1>9, <2>1, DLInsertIs DEF l
<1>11. /\ T \in SUBSET Addresses /\ T \cap K = {} /\ l.cells \in Mem
       /\ Chain(l.cells, l.head, T, ByAddress) /\ Tiles(l.cells, T \cup K, R)
       /\ SameBut(b, l.cells, F \cup {x}) /\ T \subseteq F \cup {x} /\ Apart(l.cells, T)
  BY <1>9, <1>10 DEF Inserted
<1>12. ASSUME NEW y \in K PROVE l.cells[y] = b[y]
  <2>1. y \in Addresses /\ y \notin F \cup {x}
    BY <1>9
  <2> QED
    BY <1>11, <2>1 DEF SameBut
<1>13. Chain(l.cells, taken.head, K, r)
  <2>1. \A y \in K : l.cells[y].next = a[y].next /\ l.cells[y].prev = a[y].prev
    BY <1>5, <1>9, <1>12
  <2> QED
    BY <1>4, <2>1, ChainSame
<1>14. Laid(l.cells, l.head, taken.head, K, R)
  BY <1>11, <1>13 DEF Laid
<1>15. Kept(cells, l.cells, K, R)
  <2>1. K \subseteq F \cup H /\ F \cup H \in SUBSET Addresses /\ T \cup K \in SUBSET Addresses
    BY <1>9, <1>11 DEF K
  <2>2. \A y \in K : l.cells[y].size = cells[y].size
    BY <1>6, <1>9, <1>12 DEF SameSizes
  <2>3. ASSUME NEW y \in Addresses \ ((F \cup H) \cup (T \cup K)) PROVE l.cells[y] = cells[y]
    <3>1. y \notin H /\ y \notin F \cup {x}
      BY <2>3
    <3> QED
      BY <1>6, <1>11, <3>1 DEF SameBut
  <2>4. SameBut(cells, l.cells, (F \cup H) \cup (T \cup K))
    BY <2>3 DEF SameBut
  <2> QED
    BY <1>1, <1>11, <2>1, <2>2, <2>4, KeptIs
<1> QED
  BY <1>11, <1>14, <1>15 DEF l, K, b, a, taken, free, allocated

\* The memory U of an area is one cell of this size.
OneCell(x, size, U) ==
  /\ x \in Addresses /\ size \in Int /\ U \in SUBSET Addresses
  /\ \A y \in Addresses : y \in U <=> x <= y /\ y < x + size
  /\ size >= Align /\ x + size - Align \in U

\* Of an area added to a heap.
LEMMA AddedLaid ==
  ASSUME cells \in Mem, NEW h, NEW H \in SUBSET Addresses, NEW R \in SUBSET Addresses,
         Laid(cells, heaps[h].free, heaps[h].allocated, H, R),
         NEW x, NEW size, NEW U, OneCell(x, size, U), U \cap R = {}
  PROVE  LET l == DLInsert(StoreHd(StoreSize(cells, x, size), x, NoHeap), heaps[h].free, x)
         IN /\ l.cells \in Mem /\ Laid(l.cells, l.head, heaps[h].allocated, H, R \cup U)
            /\ Kept(cells, l.cells, H, R \cup U)
<1> DEFINE free == heaps[h].free
           allocated == heaps[h].allocated
           b == StoreHd(StoreSize(cells, x, size), x, NoHeap)
           l == DLInsert(b, free, x)
           Q == R \cup U
<1>1. PICK F \in SUBSET Addresses, r \in Ranks :
        /\ F \cap H = {} /\ Chain(cells, free, F, ByAddress) /\ Chain(cells, allocated, H, r)
        /\ Tiles(cells, F \cup H, R) /\ Apart(cells, F)
  BY DEF Laid
<1>2. x \in Addresses /\ NoHeap \in Int /\ size \in Int /\ Q \in SUBSET Addresses
  BY DEF NoHeap, OneCell
<1> HIDE DEF free, allocated, l
<1>3. /\ b \in Mem /\ b[x].size = size /\ b[x].next = cells[x].next /\ b[x].prev = cells[x].prev
      /\ \A y \in Addresses \ {x} : b[y] = cells[y]
  <2> DEFINE a == StoreSize(cells, x, size)
  <2>1. /\ a \in Mem /\ SameBut(cells, a, {x})
        /\ a[x].size = size /\ a[x].next = cells[x].next /\ a[x].prev = cells[x].prev
    BY <1>2, StoreSizeIs
  <2> HIDE DEF a
  <2>2. /\ b \in Mem /\ SameBut(a, b, {x}) /\ SameSizes(a, b)
        /\ \A y \in Addresses : b[y].next = a[y].next /\ b[y].prev = a[y].prev
    BY <1>2, <2>1, StoreHdIs DEF a
  <2> QED
    BY <1>2, <2>1, <2>2 DEF SameBut, SameSizes
<1> HIDE DEF b
<1>4. x \notin F \cup H /\ Tiles(b, (F \cup H) \cup {x}, Q)
  <2> DEFINE S == F \cup H
  <2>1. S \in SUBSET Addresses /\ Tiles(cells, S, R)
    BY <1>1
  <2> HIDE DEF S
  <2>2. x \notin S
    <3> SUFFICES ASSUME x \in S PROVE FALSE
      OBVIOUS
    <3>1. x \in Int /\ cells[x].size \in Int
      BY <1>2, MemIs
    <3>2. x \in R /\ x \in U
      BY <1>2, <2>1, <3>1, AlignIs DEF Tiles, OneCell
    <3> QED
      BY <3>2
  <2>3. \A y \in S : b[y].size = cells[y].size
    BY <1>3, <2>1, <2>2
  <2>4. Tiles(b, S \cup {x}, Q)
    BY <1>2, <1>3, <2>1, <2>3, TilesAdd DEF OneCell
  <2> QED
    BY <2>2, <2>4 DEF S
<1>5. /\ \A y \in F : b[y] = cells[y]
      /\ \A y \in H : b[y] = cells[y]
  BY <1>3, <1>4
<1>6. Chain(b, free, F, ByAddress) /\ Chain(b, allocated, H, r)
  <2>1. Chain(b, free, F, ByAddress)
    BY <1>1, <1>5, ChainSame
  <2>2. Chain(b, allocated, H, r)
    BY <1>1, <1>5, ChainSame
  <2> QED
    BY <2>1, <2>2
<1>7. F \cup {x} \cup H = (F \cup H) \cup {x} /\ x \in Addresses \ F /\ F \cap H = {} /\ x \notin H
  BY <1>1, <1>2, <1>4
<1> HIDE DEF Q
<1>8. PICK T : Inserted(b, l, F, T, x, H, Q)
  <2>1. Tiles(b, F \cup {x} \cup H, Q)
    BY <1>4, <1>7
  <2>2. Apart(b, F)
    BY <1>1, <1>5 DEF Apart
  <2> QED
    BY <1>2, <1>3, <1>6, <1>7, <2>1, <2>2, DLInsertIs DEF l
<1>9. /\ T \in SUBSET Addresses /\ T \cap H = {} /\ l.cells \in Mem
      /\ Chain(l.cells, l.head, T, ByAddress) /\ Tiles(l.cells, T \cup H, Q)
      /\ SameBut(b, l.cells, F \cup {x}) /\ T \subseteq F \cup {x} /\ Apart(l.cells, T)
  BY <1>7, <1>8 DEF Inserted
<1>10. ASSUME NEW y \in H PROVE l.cells[y] = b[y]
  <2>1. y \in Addresses /\ y \notin F \cup {x}
    BY <1>7
  <2> QED
    BY <1>9, <2>1 DEF SameBut
<1>11. Chain(l.cells, allocated, H, r)
  BY <1>6, <1>10, ChainSame
<1>12. Laid(l.cells, l.head, allocated, H, Q)
  BY <1>9, <1>11 DEF Laid
<1> DEFINE V == (F \cup H) \cup {x}
<1>13. /\ V \in SUBSET Addresses /\ T \cup H \in SUBSET Addresses /\ H \subseteq V /\ Tiles(b, V, Q)
       /\ SameBut(b, l.cells, V \cup (T \cup H))
  BY <1>4, <1>7, <1>9 DEF SameBut
<1>14. Kept(b, l.cells, H, Q)
  <2>1. \A y \in H : l.cells[y].size = b[y].size
    BY <1>10
  <2> HIDE DEF V
  <2> QED
    BY <1>2, <1>3, <1>9, <1>13, <2>1, KeptIs
<1>15. Kept(cells, b, H, Q)
  <2>1. x \in Q
    <3>1. x \in U
      BY <1>2, AddressIs, AlignIs DEF OneCell
    <3> QED
      BY <3>1 DEF Q
  <2>2. SameBut(cells, b, Q)
    BY <1>3, <2>1 DEF SameBut
  <2>3. ASSUME NEW z \in H, NEW y \in Addresses, z < y, y < z + cells[z].size PROVE b[y] = cells[y]
    <3>1. y # x
      <4> SUFFICES ASSUME y = x PROVE FALSE
        OBVIOUS
      <4>1. z + b[z].size <= x
        BY <1>13, <2>3 DEF Tiles
      <4>2. z \in Addresses /\ z \in Int /\ cells[z].size \in Int /\ x \in Int
        BY <1>2, MemIs
      <4> QED
        BY <1>5, <2>3, <4>1, <4>2
    <3> QED
      BY <1>3, <3>1
  <2> QED
    BY <1>5, <2>2, <2>3 DEF Kept
<1>16. Kept(cells, l.cells, H, Q)
  BY <1>14, <1>15, KeptTwice
<1> QED
  BY <1>9, <1>12, <1>16 DEF l, b, Q, free, allocated

\* Of an area that a heap is made of.
LEMMA CreatedLaid ==
  ASSUME cells \in Mem, NEW x, NEW size, NEW U, OneCell(x, size, U)
  PROVE  LET d == [cells EXCEPT ![x] = [NoCell EXCEPT !.size = size]]
         IN d \in Mem /\ Laid(d, x, Null, {}, U) /\ SameBut(cells, d, U)
<1> DEFINE cell == [NoCell EXCEPT !.size = size]
           d == [cells EXCEPT ![x] = cell]
<1>1. x \in Addresses /\ size \in Int /\ x \in Int /\ x # Null /\ x > 0 /\ U \in SUBSET Addresses
  BY AddressIs DEF OneCell
<1>2. /\ cell \in [prev : Int, next : Int, size : Int, hd : Int]
      /\ cell.prev = Null /\ cell.next = Null /\ cell.size = size
  BY <1>1 DEF NoCell, Null, NoHeap
<1> HIDE DEF cell
<1>3. d \in Mem /\ d[x] = cell /\ \A y \in Addresses \ {x} : d[y] = cells[y]
  BY <1>1, <1>2 DEF Mem
<1> HIDE DEF d
<1>4. x \in U
  BY <1>1, AlignIs DEF OneCell
<1>5. Chain(d, x, {x}, ByAddress)
  BY <1>1, <1>2, <1>3, ByAddressIs DEF Chain
<1>6. Chain(d, Null, {}, ByAddress)
  BY DEF Chain
<1>7. Tiles(d, {x} \cup {}, U)
  BY <1>1, <1>2, <1>3 DEF Tiles, OneCell
<1>8. Laid(d, x, Null, {}, U)
  <2>2. Apart(d, {x})
    BY <1>1, <1>2, <1>3, AlignIs DEF Apart, OneCell
  <2>1. {x} \in SUBSET Addresses /\ {x} \cap {} = {}
    BY <1>1
  <2> QED
    BY <1>5, <1>6, <1>7, <2>1, <2>2, ByAddressIs DEF Laid
<1>9. SameBut(cells, d, U)
  BY <1>3, <1>4 DEF SameBut
<1> QED
  BY <1>3, <1>8, <1>9 DEF d, cell

-----------------------------------------------------------------------------
(* The inductive invariant. *)

HeapTypes ==
  /\ cells \in Mem
  /\ heaps \in [Heaps -> [size : Int, free : Int, allocated : Int]]
  /\ areas \in [Heaps -> SUBSET Areas]
  /\ blocks \in SUBSET [heap : Heaps, ptr : Int, size : Sizes]
  /\ arena \in [lo : Int, hi : Int, start : Int, end : Int]
  /\ arena.hi \in Nat /\ arena.hi <= Top
  /\ arena.lo # Unset => arena.lo > 0
  /\ arena.start # 0 => arena.lo # Unset

\* An area is in one live heap, and nothing is before OSInitAlloc.
AreasOwned ==
  /\ \A h \in Heaps : ~Live(h) => areas[h] = {}
  /\ \A h, k \in Heaps : h # k => areas[h] \cap areas[k] = {}
  /\ arena.start = 0 => blocks = {} /\ \A h \in Heaps : areas[h] = {}

\* A block is in a live heap and is known by where it is.
BlocksHeld ==
  /\ \A b \in blocks : Live(b.heap)
  /\ \A a, b \in blocks : a.heap = b.heap /\ a.ptr = b.ptr => a = b

BlockSizes ==
  \A b \in blocks : /\ b.ptr - Align \in Addresses
                    /\ cells[b.ptr - Align].size - Required(b.size) \in 0 .. 2 * Align - 1

\* The lists of each heap are lists, of cells that divide its memory.
AllLaid ==
  \A h \in Heaps : Live(h) =>
    Laid(cells, heaps[h].free, heaps[h].allocated, HeldCells(h), Room(h))

HeapIInv == HeapTypes /\ AreasOwned /\ BlocksHeld /\ BlockSizes /\ AllLaid

LEMMA RoomIs == \A h \in Heaps : Room(h) \in SUBSET Addresses
BY DEF Room, Units

LEMMA LaidIn ==
  ASSUME NEW c \in Mem, NEW free, NEW allocated, NEW H \in SUBSET Addresses,
         NEW R \in SUBSET Addresses, Laid(c, free, allocated, H, R)
  PROVE  /\ H \subseteq R /\ free \in Int /\ allocated \in Int
         /\ \A z \in H, y \in Addresses : z <= y /\ y < z + c[z].size => y \in R
<1>1. PICK F \in SUBSET Addresses, r \in Ranks :
        /\ F \cap H = {} /\ Chain(c, free, F, ByAddress) /\ Chain(c, allocated, H, r)
        /\ Tiles(c, F \cup H, R) /\ Apart(c, F)
  BY DEF Laid
<1>2. \A z \in H, y \in Addresses : z <= y /\ y < z + c[z].size => y \in R
  BY <1>1 DEF Tiles
<1>3. ASSUME NEW z \in H PROVE z \in R
  <2>1. z \in Int /\ c[z].size \in Int /\ c[z].size >= Align
    BY <1>1, MemIs DEF Tiles
  <2> QED
    BY <1>2, <2>1, AlignIs
<1>4. free \in F \cup {Null} /\ allocated \in H \cup {Null}
  BY <1>1 DEF Chain
<1> QED
  BY <1>2, <1>3, <1>4, AddressIs DEF Null

\* A heap is about its own memory.
LEMMA LaidSame ==
  ASSUME NEW c \in Mem, NEW d, NEW free, NEW allocated, NEW H \in SUBSET Addresses,
         NEW R \in SUBSET Addresses, Laid(c, free, allocated, H, R), \A y \in R : d[y] = c[y]
  PROVE  Laid(d, free, allocated, H, R)
<1>1. PICK F \in SUBSET Addresses, r \in Ranks :
        /\ F \cap H = {} /\ Chain(c, free, F, ByAddress) /\ Chain(c, allocated, H, r)
        /\ Tiles(c, F \cup H, R) /\ Apart(c, F)
  BY DEF Laid
<1>2. ASSUME NEW z \in F \cup H PROVE z \in R
  <2>1. z \in Int /\ c[z].size \in Int /\ c[z].size >= Align /\ z \in Addresses
    BY <1>1, MemIs DEF Tiles
  <2> QED
    BY <1>1, <2>1, AlignIs DEF Tiles
<1>3. \A z \in F \cup H : d[z] = c[z]
  BY <1>2
<1>4. Chain(d, free, F, ByAddress)
  BY <1>1, <1>3, ChainSame
<1>5. Chain(d, allocated, H, r)
  BY <1>1, <1>3, ChainSame
<1>6. Tiles(d, F \cup H, R)
  BY <1>1, <1>3, TilesSame
<1>7. Apart(d, F)
  BY <1>1, <1>3 DEF Apart
<1> QED
  BY <1>1, <1>4, <1>5, <1>6, <1>7 DEF Laid

LEMMA HeldIs ==
  ASSUME HeapIInv, NEW h \in Heaps
  PROVE  HeldCells(h) \in SUBSET Addresses
BY DEF HeapIInv, BlockSizes, HeldCells

\* Whole units that differ do so by a unit or more.
LEMMA MultipleStep ==
  ASSUME NEW m \in Int, NEW n \in Int, m % Align = 0, n % Align = 0, m < n PROVE m + Align <= n
<1>1. Align \in Nat \ {0}
  BY HeapAssumption
<1>2. m = (m \div Align) * Align /\ n = (n \div Align) * Align /\ m \div Align \in Int /\ n \div Align \in Int
  BY <1>1
<1>3. PICK k \in Int, l \in Int : m = k * Align /\ n = l * Align
  BY <1>2
<1>4. k < l
  <2>1. k >= l => k * Align >= l * Align
    BY <1>1
  <2> QED
    BY <1>1, <1>3, <2>1
<1>5. (k + 1) * Align <= l * Align
  BY <1>1, <1>4
<1> QED
  BY <1>1, <1>3, <1>5

\* A spare area is memory of its own.
LEMMA SpareIs ==
  ASSUME HeapIInv, NEW a \in Areas, Spare(a)
  PROVE  /\ OneCell(OSRoundUp32B(a.start), OSRoundDown32B(a.end) - OSRoundUp32B(a.start), Units(a))
         /\ \A h \in Heaps : Units(a) \cap Room(h) = {}
<1> DEFINE s == OSRoundUp32B(a.start)
           e == OSRoundDown32B(a.end)
<1>1. /\ a.start \in Nat /\ a.end \in Nat /\ arena.lo \in Int /\ arena.lo > 0 /\ arena.hi \in Nat
      /\ arena.hi <= Top /\ Top \in Nat /\ arena.lo <= a.start /\ a.end <= arena.hi
  BY HeapAssumption, TopNat DEF HeapIInv, HeapTypes, Spare
<1>2. /\ s \in Nat /\ s % Align = 0 /\ a.start <= s
      /\ e \in Nat /\ e % Align = 0 /\ e <= a.end /\ s < e
  BY <1>1, RoundUpIs, RoundDownIs, AreasAssumption
<1> HIDE DEF s, e
<1>3. s + Align <= e /\ Align % Align = 0
  BY <1>2, MultipleStep, HeapAssumption
<1>4. s \in Addresses /\ e - Align \in Addresses
  <2>0. MemBase <= a.start /\ MemBase \in Nat
    BY AreasAssumption, HeapAssumption
  <2>1. s \in MemBase .. Top
    BY <1>1, <1>2, <2>0
  <2>2. e - Align \in MemBase .. Top
    BY <1>1, <1>2, <1>3, <2>0, AlignIs
  <2>3. (e - Align) % Align = 0
    <3>1. e \in Int /\ Align \in Int /\ e % Align = 0 /\ Align % Align = 0
      BY <1>2, <1>3, AlignIs
    <3> QED
      BY <3>1, MultipleIs
  <2> QED
    BY <1>2, <2>1, <2>2, <2>3 DEF Addresses
<1>5. OneCell(s, e - s, Units(a))
  <2>1. Units(a) = {x \in Addresses : s <= x /\ x < e}
    BY DEF Units, s, e
  <2>2. s + (e - s) = e /\ s + (e - s) - Align = e - Align /\ e - s >= Align /\ e - s \in Int
    BY <1>2, <1>3, AlignIs
  <2>3. e - Align \in Units(a)
    BY <1>2, <1>3, <1>4, <2>1, AlignIs
  <2> QED
    BY <1>4, <2>1, <2>2, <2>3 DEF OneCell
<1>6. \A h \in Heaps : Units(a) \cap Room(h) = {}
  <2> TAKE h \in Heaps
  <2>1. \A b \in areas[h] : b \in Areas /\ b # a
    BY DEF HeapIInv, HeapTypes, Spare
  <2>2. \A b \in areas[h] : Units(a) \cap Units(b) = {}
    BY <2>1, AreasAssumption
  <2> QED
    BY <2>2 DEF Room
<1> QED
  BY <1>5, <1>6 DEF s, e

LEMMA RoomsApart ==
  ASSUME HeapIInv, NEW h \in Heaps, NEW k \in Heaps, h # k
  PROVE  Room(h) \cap Room(k) = {}
<1>1. \A a \in areas[h], b \in areas[k] : a \in Areas /\ b \in Areas /\ a # b
  BY DEF HeapIInv, HeapTypes, AreasOwned
<1>2. \A a \in areas[h], b \in areas[k] : Units(a) \cap Units(b) = {}
  BY <1>1, AreasAssumption
<1> QED
  BY <1>2 DEF Room

-----------------------------------------------------------------------------
(* The steps. *)

BlocksOf(h) == {b \in blocks : b.heap = h}

\* A step on heap h and the memory R, that keeps the blocks of K.
Confined(h, R, K) ==
  /\ arena' = arena /\ cells' \in Mem /\ Kept(cells, cells', {b.ptr - Align : b \in K}, R)
  /\ BlocksOf(h) \cap BlocksOf(h)' \subseteq K /\ K \subseteq BlocksOf(h)
  /\ \A k \in Heaps \ {h} :
       R \cap Room(k) = {} /\ heaps'[k] = heaps[k] /\ areas'[k] = areas[k] /\ BlocksOf(k)' = BlocksOf(k)

\* What a step leaves of a block that is held before and after it: its size and its bytes.
Untouched ==
  \A b \in blocks \cap blocks' :
    /\ cells'[b.ptr - Align].size = cells[b.ptr - Align].size
    /\ \A y \in Addresses : b.ptr <= y /\ y < b.ptr + b.size => cells'[y] = cells[y]

LEMMA BlockIs ==
  ASSUME HeapIInv, NEW b \in blocks
  PROVE  /\ b.heap \in Heaps /\ Live(b.heap) /\ b.ptr \in Int /\ b.size \in Nat
         /\ b.ptr - Align \in HeldCells(b.heap) /\ b.ptr - Align \in Addresses
         /\ cells[b.ptr - Align].size \in Int
         /\ cells[b.ptr - Align].size >= b.size + Align
<1>1. b.heap \in Heaps /\ Live(b.heap) /\ b.ptr \in Int /\ b.size \in Nat
  <2>1. \A n \in Sizes : n \in Nat
    BY HeapAssumption
  <2>2. b.heap \in Heaps /\ Live(b.heap) /\ b.ptr \in Int /\ b.size \in Sizes
    BY DEF HeapIInv, HeapTypes, BlocksHeld
  <2> QED
    BY <2>1, <2>2
<1>2. b.ptr - Align \in Addresses /\ cells \in Mem
  BY DEF HeapIInv, HeapTypes, BlockSizes
<1>3. cells[b.ptr - Align].size - Required(b.size) \in 0 .. 2 * Align - 1
  BY DEF HeapIInv, BlockSizes
<1>4. Required(b.size) \in Int /\ Required(b.size) >= b.size + Align /\ cells[b.ptr - Align].size \in Int
  BY <1>1, <1>2, RequiredIs, MemIs
<1>5. cells[b.ptr - Align].size >= b.size + Align
  BY <1>1, <1>3, <1>4, AlignIs
<1>6. b.ptr - Align \in HeldCells(b.heap)
  BY DEF HeldCells
<1> QED
  BY <1>1, <1>2, <1>4, <1>5, <1>6

LEMMA ConfinedIs ==
  ASSUME HeapIInv, NEW h \in Heaps, NEW R, NEW K, Confined(h, R, K)
  PROVE  /\ Untouched
         /\ \A k \in Heaps \ {h} : Live(k)' =>
              Laid(cells', heaps'[k].free, heaps'[k].allocated, HeldCells(k)', Room(k)')
         /\ \A b \in blocks \cap blocks' : cells'[b.ptr - Align].size = cells[b.ptr - Align].size
<1>1. ASSUME NEW k \in Heaps \ {h}, Live(k)
      PROVE  /\ Laid(cells, heaps[k].free, heaps[k].allocated, HeldCells(k), Room(k))
             /\ HeldCells(k) \in SUBSET Addresses /\ Room(k) \in SUBSET Addresses /\ cells \in Mem
             /\ \A y \in Room(k) : cells'[y] = cells[y]
  <2>1. SameBut(cells, cells', R) /\ R \cap Room(k) = {}
    BY DEF Confined, Kept
  <2>2. HeldCells(k) \in SUBSET Addresses /\ Room(k) \in SUBSET Addresses
    BY HeldIs, RoomIs
  <2>3. Laid(cells, heaps[k].free, heaps[k].allocated, HeldCells(k), Room(k)) /\ cells \in Mem
    BY <1>1 DEF HeapIInv, AllLaid, HeapTypes
  <2> QED
    BY <2>1, <2>2, <2>3 DEF SameBut
<1>2. ASSUME NEW k \in Heaps \ {h}, Live(k)'
      PROVE  Laid(cells', heaps'[k].free, heaps'[k].allocated, HeldCells(k)', Room(k)')
  <2>1. /\ heaps'[k] = heaps[k] /\ areas'[k] = areas[k] /\ BlocksOf(k)' = BlocksOf(k)
        /\ arena' = arena
    BY DEF Confined
  <2>2. Live(k) /\ Room(k)' = Room(k) /\ HeldCells(k)' = HeldCells(k)
    BY <1>2, <2>1 DEF Live, Room, HeldCells, BlocksOf
  <2>3. Laid(cells', heaps[k].free, heaps[k].allocated, HeldCells(k), Room(k))
    BY <1>1, <2>2, LaidSame
  <2> QED
    BY <2>1, <2>2, <2>3
<1>3. ASSUME NEW b \in blocks \cap blocks', b.heap = h PROVE b \in K
  BY <1>3 DEF Confined, BlocksOf
<1>4. ASSUME NEW b \in blocks \cap blocks', b.heap # h, NEW y \in Addresses,
             b.ptr - Align <= y, y < b.ptr - Align + cells[b.ptr - Align].size
      PROVE  cells'[y] = cells[y]
  <2> DEFINE k == b.heap
             x == b.ptr - Align
             free == heaps[k].free
             allocated == heaps[k].allocated
             H == HeldCells(k)
             Q == Room(k)
  <2>1. k \in Heaps \ {h} /\ Live(k) /\ x \in H
    BY <1>4, BlockIs
  <2>2. /\ Laid(cells, free, allocated, H, Q) /\ H \in SUBSET Addresses /\ Q \in SUBSET Addresses
        /\ cells \in Mem /\ \A z \in Q : cells'[z] = cells[z]
    BY <1>1, <2>1
  <2>3. x <= y /\ y < x + cells[x].size
    BY <1>4
  <2> HIDE DEF H, Q, x, free, allocated, k
  <2>4. y \in Q
    BY <2>1, <2>2, <2>3, LaidIn
  <2> QED
    BY <2>2, <2>4
<1>5. ASSUME NEW b \in blocks \cap blocks', NEW y \in Addresses, b.ptr <= y, y < b.ptr + b.size
      PROVE  cells'[y] = cells[y]
  <2> DEFINE x == b.ptr - Align
  <2>1. /\ x \in Addresses /\ x \in Int /\ y \in Int /\ x < y /\ y < x + cells[x].size /\ x <= y
    BY <1>5, BlockIs, AlignIs, AddressIs
  <2>2. CASE b.heap = h
    <3>1. x \in {a.ptr - Align : a \in K}
      BY <1>3, <2>2
    <3> HIDE DEF x
    <3> QED
      BY <2>1, <3>1 DEF Confined, Kept
  <2>3. CASE b.heap # h
    BY <1>4, <2>1, <2>3
  <2> QED
    BY <2>2, <2>3
<1>6. ASSUME NEW b \in blocks \cap blocks'
      PROVE  cells'[b.ptr - Align].size = cells[b.ptr - Align].size
  <2> DEFINE x == b.ptr - Align
  <2>1. x \in Addresses /\ x <= x /\ x < x + cells[x].size
    BY BlockIs, AlignIs, AddressIs
  <2>2. CASE b.heap = h
    <3>1. x \in {a.ptr - Align : a \in K}
      BY <1>3, <2>2
    <3> HIDE DEF x
    <3>2. cells'[x].size = cells[x].size
      BY <3>1 DEF Confined, Kept
    <3> QED
      BY <3>2 DEF x
  <2>3. CASE b.heap # h
    BY <1>4, <2>1, <2>3
  <2> QED
    BY <2>2, <2>3
<1> QED
  BY <1>2, <1>5, <1>6 DEF Untouched

LEMMA StepKeeps ==
  ASSUME HeapIInv, HeapTypes', AreasOwned', BlocksHeld', NEW h \in Heaps, NEW R, NEW K, Confined(h, R, K),
         Live(h)' => Laid(cells', heaps'[h].free, heaps'[h].allocated, HeldCells(h)', Room(h)'),
         \A b \in blocks' \ blocks :
           /\ b.ptr - Align \in Addresses
           /\ cells'[b.ptr - Align].size - Required(b.size) \in 0 .. 2 * Align - 1
  PROVE  HeapIInv' /\ Untouched
<1>1. AllLaid'
  BY ConfinedIs DEF AllLaid
<1>2. BlockSizes'
  <2> SUFFICES ASSUME NEW b \in blocks'
               PROVE  /\ b.ptr - Align \in Addresses
                      /\ cells'[b.ptr - Align].size - Required(b.size) \in 0 .. 2 * Align - 1
    BY DEF BlockSizes
  <2>1. CASE b \in blocks
    <3>1. cells'[b.ptr - Align].size = cells[b.ptr - Align].size
      BY <2>1, ConfinedIs
    <3> QED
      BY <2>1, <3>1 DEF HeapIInv, BlockSizes
  <2> QED
    BY <2>1
<1>3. Untouched
  BY ConfinedIs
<1> QED
  BY <1>1, <1>2, <1>3 DEF HeapIInv

\* The program gets n bytes of the free cell x of heap h.
Allocates(h, n, x, head) ==
  /\ h \in Heaps /\ Live(h) /\ x \in Addresses \ HeldCells(h)
  /\ x \in ToSet(CellsFrom(cells, heaps[h].free))
  /\ heaps' = [heaps EXCEPT ![h].free = head, ![h].allocated = x]
  /\ blocks' = blocks \cup {[heap |-> h, ptr |-> x + Align, size |-> n]}
  /\ arena' = arena /\ areas' = areas /\ cells' \in Mem
  /\ Laid(cells', head, x, HeldCells(h) \cup {x}, Room(h)) /\ Kept(cells, cells', HeldCells(h), Room(h))
  /\ cells'[x].size - Required(n) \in 0 .. 2 * Align - 1
  /\ Shares(cells[x].size, cells'[x].size, Required(n))

\* The sizes the program asks for are those that the code handles: refused, or still
\* less than Half when they are rounded up with a header.
SizesFit == \A n \in Sizes : n < Half => Required(n) < Half

LEMMA AllocIs ==
  ASSUME SizesFit, HeapIInv, NEW h, NEW n \in Sizes, OSAllocFromHeap(h, n)
  PROVE  \E x, head : Allocates(h, n, x, head)
<1> DEFINE r == Required(n)
           x == Fit(h, r)
           l == IF Splits(Rest(x, r)) THEN SplitAt(h, x, r)
                ELSE DLExtract(cells, heaps[h].free, x)
           H == HeldCells(h)
           R == Room(h)
<1>1. /\ h \in Heaps /\ Live(h) /\ x # Null /\ S32(n) > 0
      /\ cells' = Fill(StoreHd(DLAddFront(l.cells, heaps[h].allocated, x), x, h),
                       x + Align, x + Load(l.cells, x).size)
      /\ heaps' = [heaps EXCEPT ![h].free = l.head, ![h].allocated = x]
      /\ blocks' = blocks \cup {[heap |-> h, ptr |-> x + Align, size |-> n]} /\ arena' = arena /\ areas' = areas
  BY DEF OSAllocFromHeap, Live
<1>2. /\ cells \in Mem /\ H \in SUBSET Addresses /\ R \in SUBSET Addresses
      /\ Laid(cells, heaps[h].free, heaps[h].allocated, H, R)
  BY <1>1, HeldIs, RoomIs DEF HeapIInv, HeapTypes, AllLaid
<1>3. r \in Int /\ r % Align = 0 /\ r >= Align /\ r < Half
  <2>1. n \in Nat /\ n < 2 * Half /\ Half \in Nat
    BY HeapAssumption
  <2>2. n < Half
    BY <1>1, <2>1 DEF S32
  <2> QED
    BY <2>1, <2>2, RequiredIs, AlignIs DEF SizesFit
<1> HIDE DEF r
<1>4. PICK F \in SUBSET Addresses, q \in Ranks :
        /\ F \cap H = {} /\ Chain(cells, heaps[h].free, F, ByAddress)
        /\ Chain(cells, heaps[h].allocated, H, q) /\ Tiles(cells, F \cup H, R)
        /\ Apart(cells, F)
  BY <1>2 DEF Laid
<1>5. x \in F /\ r <= cells[x].size
  <2> DEFINE S == F \cup H
  <2>1. /\ Chain(cells, heaps[h].free, F, ByAddress) /\ cells \in Mem /\ R \in SUBSET Addresses
        /\ Tiles(cells, S, R) /\ S \in SUBSET Addresses /\ F \subseteq S
    BY <1>2, <1>4
  <2> HIDE DEF S, R
  <2> QED
    BY <1>1, <1>3, <2>1, FitIs
<1> HIDE DEF x, H, R
<1>11. Rest(x, r) = cells[x].size - r
  <2> DEFINE S == F \cup H
  <2>1. Tiles(cells, S, R) /\ S \in SUBSET Addresses /\ x \in S
    BY <1>2, <1>4, <1>5
  <2> HIDE DEF S
  <2>2. cells[x].size \in Nat /\ cells[x].size < Half /\ Load(cells, x) = cells[x]
    BY <1>2, <2>1, CellFits, LoadIs
  <2>3. cells[x].size - r \in Nat /\ cells[x].size - r < 2 * Half
    BY <1>3, <1>5, <2>2, AlignIs, HeapAssumption
  <2> QED
    BY <2>2, <2>3, U32Is DEF Rest
<1>6. PICK G : Taken(cells, l, G, x, H, R, r)
  <2>1. CASE Splits(cells[x].size - r)
    <3>1. \E G : Taken(cells, SplitAt(h, x, r), G, x, H, R, r)
      BY <1>2, <1>3, <1>4, <1>5, <2>1, SplitAtTaken
    <3> QED
      BY <1>11, <2>1, <3>1
  <2>2. CASE ~Splits(cells[x].size - r)
    <3>1. Taken(cells, DLExtract(cells, heaps[h].free, x), F \ {x}, x, H, R, r)
      BY <1>2, <1>3, <1>4, <1>5, <2>2, DLExtractTaken
    <3> QED
      BY <1>11, <2>2, <3>1
  <2> QED
    BY <2>1, <2>2
<1> HIDE DEF l
<1>7. x \in Addresses \ H /\ x \in Int
  BY <1>4, <1>5, AddressIs
<1>12. cells' = Given(l, h, x)
  <2>1. Load(l.cells, x) = l.cells[x]
    BY <1>7, LoadIs
  <2> QED
    BY <1>1, <2>1 DEF Given
<1>8. /\ cells' \in Mem /\ Laid(cells', l.head, x, H \cup {x}, R) /\ Kept(cells, cells', H, R)
      /\ cells'[x].size - r \in 0 .. 2 * Align - 1 /\ Shares(cells[x].size, cells'[x].size, r)
  BY <1>1, <1>2, <1>4, <1>6, <1>7, <1>12, GivenIs
<1>9. F = ToSet(CellsFrom(cells, heaps[h].free))
  <2> DEFINE free == heaps[h].free
  <2>1. Chain(cells, free, F, ByAddress)
    BY <1>4
  <2> HIDE DEF free
  <2>2. F = ToSet(CellsFrom(cells, free))
    BY <2>1, ByAddressIs, WalkIs
  <2> QED
    BY <2>2 DEF free
<1>10. Allocates(h, n, x, l.head)
  BY <1>1, <1>5, <1>7, <1>8, <1>9 DEF Allocates, r, H, R
<1> QED
  BY <1>10

LEMMA AllocKeeps ==
  ASSUME SizesFit, HeapIInv, NEW h, NEW n \in Sizes, OSAllocFromHeap(h, n)
  PROVE  HeapIInv' /\ Untouched
<1>0. PICK x, head : Allocates(h, n, x, head)
  BY AllocIs
<1> DEFINE r == Required(n)
           H == HeldCells(h)
           R == Room(h)
           new == [heap |-> h, ptr |-> x + Align, size |-> n]
           K == BlocksOf(h)
<1>1. /\ h \in Heaps /\ Live(h)
      /\ heaps' = [heaps EXCEPT ![h].free = head, ![h].allocated = x]
      /\ blocks' = blocks \cup {new} /\ arena' = arena /\ areas' = areas
  BY <1>0 DEF Allocates
<1>2. H \in SUBSET Addresses /\ R \in SUBSET Addresses
  BY <1>1, HeldIs, RoomIs
<1>3. x \in Addresses \ H /\ x \in Int
  BY <1>0, AddressIs DEF Allocates
<1>4. /\ cells' \in Mem /\ Laid(cells', head, x, H \cup {x}, R) /\ Kept(cells, cells', H, R)
      /\ cells'[x].size - r \in 0 .. 2 * Align - 1
  BY <1>0 DEF Allocates
<1> HIDE DEF r, H, R
<1>5. head \in Int /\ x \in R
  <2>1. H \cup {x} \in SUBSET Addresses
    BY <1>2, <1>3
  <2> DEFINE I == H \cup {x}
  <2> HIDE DEF I
  <2>2. I \subseteq R /\ head \in Int
    BY <1>2, <1>4, <2>1, LaidIn DEF I
  <2> QED
    BY <2>2 DEF I
<1>6. /\ heaps \in [Heaps -> [size : Int, free : Int, allocated : Int]]
      /\ blocks \in SUBSET [heap : Heaps, ptr : Int, size : Sizes]
  BY DEF HeapIInv, HeapTypes
<1>7. /\ heaps'[h].free = head /\ heaps'[h].allocated = x
      /\ \A k \in Heaps : heaps'[k].size = heaps[k].size
      /\ \A k \in Heaps \ {h} : heaps'[k] = heaps[k]
      /\ heaps' \in [Heaps -> [size : Int, free : Int, allocated : Int]]
  BY <1>1, <1>3, <1>5, <1>6
<1>8. \A k : Live(k)' = Live(k)
  BY <1>1, <1>7 DEF Live
<1>9. HeapTypes'
  <2>1. new \in [heap : Heaps, ptr : Int, size : Sizes]
    BY <1>1, <1>3, AlignIs
  <2>2. blocks' \in SUBSET [heap : Heaps, ptr : Int, size : Sizes]
    BY <1>1, <1>6, <2>1
  <2> QED
    BY <1>1, <1>4, <1>7, <2>2 DEF HeapIInv, HeapTypes
<1>10. AreasOwned'
  <2>1. arena.start # 0
    <3> SUFFICES ASSUME arena.start = 0 PROVE FALSE
      OBVIOUS
    <3>1. areas[h] = {}
      BY <1>1 DEF HeapIInv, AreasOwned
    <3> QED
      BY <1>5, <3>1 DEF Room, R
  <2> QED
    BY <1>1, <1>8, <2>1 DEF HeapIInv, AreasOwned
<1>11. new.heap = h /\ new.ptr = x + Align /\ new.size = n /\ new.ptr - Align = x
  BY <1>3, AlignIs
<1>12. \A b \in blocks : b.heap = h => b.ptr - Align \in H
  BY DEF HeldCells, H
<1>13. BlocksHeld'
  <2>1. \A b \in blocks' : Live(b.heap)'
    BY <1>1, <1>8, <1>11 DEF HeapIInv, BlocksHeld
  <2>2. ASSUME NEW a \in blocks', NEW b \in blocks', a.heap = b.heap, a.ptr = b.ptr PROVE a = b
    BY <1>1, <1>3, <1>11, <1>12, <2>2 DEF HeapIInv, BlocksHeld
  <2> QED
    BY <2>1, <2>2 DEF BlocksHeld
<1>14. HeldCells(h)' = H \cup {x} /\ Room(h)' = R
  BY <1>1, <1>11 DEF HeldCells, Room, H, R
<1>15. Confined(h, R, K)
  <2>1. {b.ptr - Align : b \in K} = H
    BY DEF BlocksOf, HeldCells, H
  <2>2. BlocksOf(h) \cap BlocksOf(h)' \subseteq K /\ K \subseteq BlocksOf(h)
    OBVIOUS
  <2>3. ASSUME NEW k \in Heaps \ {h}
        PROVE  R \cap Room(k) = {} /\ heaps'[k] = heaps[k] /\ areas'[k] = areas[k] /\ BlocksOf(k)' = BlocksOf(k)
    <3>1. R \cap Room(k) = {}
      BY <1>1, RoomsApart DEF R
    <3>2. BlocksOf(k)' = BlocksOf(k)
      BY <1>1, <1>11 DEF BlocksOf
    <3> QED
      BY <1>1, <1>7, <3>1, <3>2
  <2> HIDE DEF K
  <2> QED
    BY <1>1, <1>4, <2>1, <2>2, <2>3 DEF Confined
<1>16. Laid(cells', heaps'[h].free, heaps'[h].allocated, HeldCells(h)', Room(h)')
  BY <1>4, <1>7, <1>14
<1>17. \A b \in blocks' \ blocks :
         /\ b.ptr - Align \in Addresses
         /\ cells'[b.ptr - Align].size - Required(b.size) \in 0 .. 2 * Align - 1
  BY <1>1, <1>3, <1>4, <1>11 DEF r
<1> HIDE DEF K, new
<1> QED
  BY <1>1, <1>9, <1>10, <1>13, <1>15, <1>16, <1>17, StepKeeps

LEMMA FreeKeeps ==
  ASSUME HeapIInv, NEW b \in blocks, NEW h, OSFreeToHeap(h, b)
  PROVE  HeapIInv' /\ Untouched
<1> DEFINE x == b.ptr - Align
           taken == DLExtract(cells, heaps[h].allocated, x)
           l == DLInsert(StoreHd(taken.cells, x, NoHeap), heaps[h].free, x)
           H == HeldCells(h)
           R == Room(h)
           K == BlocksOf(h) \ {b}
<1>1. /\ h \in Heaps /\ Live(h) /\ b.heap = h /\ cells' = l.cells
      /\ heaps' = [heaps EXCEPT ![h].allocated = taken.head, ![h].free = l.head]
      /\ blocks' = blocks \ {b} /\ arena' = arena /\ areas' = areas
  BY DEF OSFreeToHeap, Live
<1>2. /\ cells \in Mem /\ H \in SUBSET Addresses /\ R \in SUBSET Addresses /\ x \in H
      /\ Laid(cells, heaps[h].free, heaps[h].allocated, H, R)
  BY <1>1, HeldIs, RoomIs, BlockIs DEF HeapIInv, HeapTypes, AllLaid
<1> HIDE DEF x, H, R
<1>3. l.cells \in Mem /\ Laid(l.cells, l.head, taken.head, H \ {x}, R) /\ Kept(cells, l.cells, H \ {x}, R)
  BY <1>2, FreedLaid
<1> HIDE DEF taken, l
<1>4. l.head \in Int /\ taken.head \in Int
  <2> DEFINE I == H \ {x}
  <2>1. I \in SUBSET Addresses
    BY <1>2
  <2> HIDE DEF I
  <2> QED
    BY <1>2, <1>3, <2>1, LaidIn DEF I
<1>5. /\ heaps \in [Heaps -> [size : Int, free : Int, allocated : Int]]
      /\ blocks \in SUBSET [heap : Heaps, ptr : Int, size : Sizes]
  BY DEF HeapIInv, HeapTypes
<1>6. /\ heaps'[h].free = l.head /\ heaps'[h].allocated = taken.head
      /\ \A k \in Heaps : heaps'[k].size = heaps[k].size
      /\ \A k \in Heaps \ {h} : heaps'[k] = heaps[k]
      /\ heaps' \in [Heaps -> [size : Int, free : Int, allocated : Int]]
  <2> DEFINE i == taken.head
             j == l.head
  <2>1. i \in Int /\ j \in Int
    BY <1>4
  <2>2. heaps' = [heaps EXCEPT ![h].allocated = i, ![h].free = j]
    BY <1>1
  <2> HIDE DEF i, j
  <2>3. heaps'[h].free = j /\ heaps'[h].allocated = i
    BY <1>1, <1>5, <2>2
  <2>4. \A k \in Heaps \ {h} : heaps'[k] = heaps[k]
    BY <1>5, <2>2
  <2>5. heaps'[h].size = heaps[h].size
    BY <1>1, <1>5, <2>2
  <2>6. heaps' \in [Heaps -> [size : Int, free : Int, allocated : Int]]
    <3>1. h \in Heaps /\ heaps \in [Heaps -> [size : Int, free : Int, allocated : Int]]
      BY <1>1, <1>5
    <3> QED
      BY <2>1, <2>2, <3>1
  <2> QED
    BY <2>3, <2>4, <2>5, <2>6 DEF i, j
<1>7. \A k : Live(k)' = Live(k)
  BY <1>1, <1>6 DEF Live
<1>8. HeapTypes'
  BY <1>1, <1>3, <1>5, <1>6 DEF HeapIInv, HeapTypes
<1>9. AreasOwned'
  BY <1>1, <1>7 DEF HeapIInv, AreasOwned
<1>10. BlocksHeld'
  BY <1>1, <1>7 DEF HeapIInv, BlocksHeld
<1>11. {a.ptr - Align : a \in K} = H \ {x}
  <2>1. \A a \in BlocksOf(h) : a \in blocks /\ a.heap = h /\ a.ptr \in Int
    BY <1>5 DEF BlocksOf
  <2>2. \A a \in BlocksOf(h) : a.ptr - Align = x => a = b
    <3> TAKE a \in BlocksOf(h)
    <3>1. b.ptr \in Int /\ a.ptr \in Int
      BY <2>1, BlockIs
    <3>2. a.ptr - Align = x => a.ptr = b.ptr
      BY <3>1, AlignIs DEF x
    <3> QED
      BY <1>1, <2>1, <3>2 DEF HeapIInv, BlocksHeld
  <2>3. H = {a.ptr - Align : a \in BlocksOf(h)}
    BY DEF H, HeldCells, BlocksOf
  <2> QED
    BY <2>2, <2>3 DEF x
<1>12. BlocksOf(h)' = K
  BY <1>1 DEF BlocksOf
<1>13. HeldCells(h)' = H \ {x} /\ Room(h)' = R
  <2>1. HeldCells(h)' = {a.ptr - Align : a \in BlocksOf(h)'}
    BY DEF HeldCells, BlocksOf
  <2> QED
    BY <1>1, <1>11, <1>12, <2>1 DEF Room, R
<1>14. Confined(h, R, K)
  <2>1. BlocksOf(h) \cap BlocksOf(h)' \subseteq K /\ K \subseteq BlocksOf(h)
    BY <1>12
  <2>2. ASSUME NEW k \in Heaps \ {h}
        PROVE  R \cap Room(k) = {} /\ heaps'[k] = heaps[k] /\ areas'[k] = areas[k] /\ BlocksOf(k)' = BlocksOf(k)
    <3>1. R \cap Room(k) = {}
      BY <1>1, RoomsApart DEF R
    <3>2. BlocksOf(k)' = BlocksOf(k)
      BY <1>1 DEF BlocksOf
    <3> QED
      BY <1>1, <1>6, <3>1, <3>2
  <2> HIDE DEF K
  <2> QED
    BY <1>1, <1>3, <1>11, <2>1, <2>2 DEF Confined
<1>15. Laid(cells', heaps'[h].free, heaps'[h].allocated, HeldCells(h)', Room(h)')
  BY <1>1, <1>3, <1>6, <1>13
<1>16. blocks' \ blocks = {}
  BY <1>1
<1> HIDE DEF K
<1> QED
  BY <1>1, <1>8, <1>9, <1>10, <1>14, <1>15, <1>16, StepKeeps

LEMMA CreateKeeps ==
  ASSUME HeapIInv, NEW a \in Areas, OSCreateHeap(a)
  PROVE  HeapIInv' /\ Untouched
<1> DEFINE s == OSRoundUp32B(a.start)
           size == OSRoundDown32B(a.end) - s
           U == Units(a)
<1>1. PICK h \in Heaps :
        /\ NewHeap(h) /\ heaps' = [heaps EXCEPT ![h] = [size |-> size, free |-> s, allocated |-> Null]]
        /\ cells' = [cells EXCEPT ![s] = [NoCell EXCEPT !.size = size]]
        /\ areas' = [areas EXCEPT ![h] = {a}]
  BY DEF OSCreateHeap
<1>2. Spare(a) /\ arena' = arena /\ blocks' = blocks
  BY DEF OSCreateHeap
<1>3. OneCell(s, size, U) /\ \A k \in Heaps : U \cap Room(k) = {}
  BY <1>2, SpareIs
<1> HIDE DEF s, size, U
<1>4. cells' \in Mem /\ Laid(cells', s, Null, {}, U) /\ SameBut(cells, cells', U)
  BY <1>1, <1>3, CreatedLaid DEF HeapIInv, HeapTypes
<1>5. /\ heaps \in [Heaps -> [size : Int, free : Int, allocated : Int]]
      /\ areas \in [Heaps -> SUBSET Areas]
      /\ size \in Int /\ size >= 0 /\ s \in Int /\ Null \in Int
  BY <1>3, AddressIs, AlignIs DEF HeapIInv, HeapTypes, OneCell, Null
<1>6. /\ heaps'[h].free = s /\ heaps'[h].allocated = Null /\ heaps'[h].size = size /\ areas'[h] = {a}
      /\ \A k \in Heaps \ {h} : heaps'[k] = heaps[k] /\ areas'[k] = areas[k]
      /\ heaps' \in [Heaps -> [size : Int, free : Int, allocated : Int]]
      /\ areas' \in [Heaps -> SUBSET Areas]
  BY <1>1, <1>5
<1>7. ~Live(h) /\ \A k : Live(k)' <=> k = h \/ Live(k)
  BY <1>1, <1>2, <1>5, <1>6 DEF Live, NewHeap, Spare
<1>8. HeapTypes'
  BY <1>2, <1>4, <1>6 DEF HeapIInv, HeapTypes
<1>9. AreasOwned'
  <2>1. arena.start # 0 /\ \A k \in Heaps : a \notin areas[k]
    BY <1>2 DEF Spare
  <2>2. \A k \in Heaps : ~Live(k)' => areas'[k] = {}
    BY <1>6, <1>7 DEF HeapIInv, AreasOwned
  <2>3. ASSUME NEW j \in Heaps, NEW k \in Heaps, j # k PROVE areas'[j] \cap areas'[k] = {}
    <3>1. CASE j = h
      BY <1>6, <2>1, <2>3, <3>1
    <3>2. CASE k = h
      BY <1>6, <2>1, <2>3, <3>2
    <3>3. CASE j # h /\ k # h
      BY <1>6, <2>3, <3>3 DEF HeapIInv, AreasOwned
    <3> QED
      BY <3>1, <3>2, <3>3
  <2> QED
    BY <1>2, <2>1, <2>2, <2>3 DEF AreasOwned
<1>10. BlocksHeld'
  BY <1>2, <1>7 DEF HeapIInv, BlocksHeld
<1>11. BlocksOf(h) = {} /\ BlocksOf(h)' = {}
  BY <1>2, <1>7 DEF HeapIInv, BlocksHeld, BlocksOf
<1>12. HeldCells(h)' = {} /\ Room(h)' = U
  BY <1>6, <1>11 DEF HeldCells, BlocksOf, Room, U
<1>13. Confined(h, U, {})
  <2>1. ASSUME NEW k \in Heaps \ {h}
        PROVE  U \cap Room(k) = {} /\ heaps'[k] = heaps[k] /\ areas'[k] = areas[k] /\ BlocksOf(k)' = BlocksOf(k)
    BY <1>2, <1>3, <1>6 DEF BlocksOf
  <2> QED
    BY <1>2, <1>4, <1>11, <2>1 DEF Confined, Kept
<1>14. Laid(cells', heaps'[h].free, heaps'[h].allocated, HeldCells(h)', Room(h)')
  BY <1>4, <1>6, <1>12
<1>15. blocks' \ blocks = {}
  BY <1>2
<1> QED
  BY <1>8, <1>9, <1>10, <1>13, <1>14, <1>15, StepKeeps

LEMMA AddKeeps ==
  ASSUME HeapIInv, NEW a \in Areas, NEW h, OSAddToHeap(h, a)
  PROVE  HeapIInv' /\ Untouched
<1> DEFINE s == OSRoundUp32B(a.start)
           size == OSRoundDown32B(a.end) - s
           U == Units(a)
           l == DLInsert(StoreHd(StoreSize(cells, s, size), s, NoHeap), heaps[h].free, s)
           H == HeldCells(h)
           R == Room(h)
           K == BlocksOf(h)
<1>1. /\ h \in Heaps /\ Live(h) /\ Spare(a) /\ cells' = l.cells
      /\ heaps' = [heaps EXCEPT ![h].size = @ + size, ![h].free = l.head]
      /\ areas' = [areas EXCEPT ![h] = @ \cup {a}] /\ arena' = arena /\ blocks' = blocks
  BY DEF OSAddToHeap, Live
<1>2. OneCell(s, size, U) /\ \A k \in Heaps : U \cap Room(k) = {}
  BY <1>1, SpareIs
<1>3. /\ cells \in Mem /\ H \in SUBSET Addresses /\ R \in SUBSET Addresses /\ U \cap R = {}
      /\ Laid(cells, heaps[h].free, heaps[h].allocated, H, R)
  BY <1>1, <1>2, HeldIs, RoomIs DEF HeapIInv, HeapTypes, AllLaid
<1> HIDE DEF s, size, U, H, R
<1>4. /\ l.cells \in Mem /\ Laid(l.cells, l.head, heaps[h].allocated, H, R \cup U)
      /\ Kept(cells, l.cells, H, R \cup U)
  BY <1>2, <1>3, AddedLaid
<1> HIDE DEF l
<1>5. l.head \in Int
  <2> DEFINE Q == R \cup U
  <2>1. Q \in SUBSET Addresses
    BY <1>2, <1>3 DEF OneCell
  <2> HIDE DEF Q
  <2> QED
    BY <1>3, <1>4, <2>1, LaidIn DEF Q
<1>6. /\ heaps \in [Heaps -> [size : Int, free : Int, allocated : Int]]
      /\ areas \in [Heaps -> SUBSET Areas]
      /\ size \in Int /\ size >= 0
  BY <1>2, AlignIs DEF HeapIInv, HeapTypes, OneCell
<1>7. /\ heaps'[h].free = l.head /\ heaps'[h].allocated = heaps[h].allocated
      /\ heaps'[h].size = heaps[h].size + size /\ areas'[h] = areas[h] \cup {a}
      /\ \A k \in Heaps \ {h} : heaps'[k] = heaps[k] /\ areas'[k] = areas[k]
      /\ heaps' \in [Heaps -> [size : Int, free : Int, allocated : Int]]
      /\ areas' \in [Heaps -> SUBSET Areas]
  <2>1. heaps[h].size + size \in Int
    BY <1>1, <1>6
  <2> QED
    BY <1>1, <1>5, <1>6, <2>1
<1>8. \A k : Live(k)' = Live(k)
  <2>1. heaps[h].size >= 0 /\ heaps[h].size \in Int
    BY <1>1, <1>6 DEF Live
  <2>2. heaps'[h].size >= 0
    BY <1>6, <1>7, <2>1
  <2> QED
    BY <1>1, <1>7, <2>1, <2>2 DEF Live
<1>9. HeapTypes'
  BY <1>1, <1>4, <1>7 DEF HeapIInv, HeapTypes
<1>10. AreasOwned'
  <2>1. arena.start # 0 /\ \A k \in Heaps : a \notin areas[k]
    BY <1>1 DEF Spare
  <2>2. \A k \in Heaps : ~Live(k)' => areas'[k] = {}
    BY <1>1, <1>7, <1>8 DEF HeapIInv, AreasOwned
  <2>3. ASSUME NEW j \in Heaps, NEW k \in Heaps, j # k PROVE areas'[j] \cap areas'[k] = {}
    <3>0. areas[j] \cap areas[k] = {}
      BY <2>3 DEF HeapIInv, AreasOwned
    <3>1. CASE j = h
      BY <1>7, <2>1, <2>3, <3>0, <3>1
    <3>2. CASE k = h
      BY <1>7, <2>1, <2>3, <3>0, <3>2
    <3>3. CASE j # h /\ k # h
      BY <1>7, <3>0, <3>3
    <3> QED
      BY <3>1, <3>2, <3>3
  <2> QED
    BY <1>1, <2>1, <2>2, <2>3 DEF AreasOwned
<1>11. BlocksHeld'
  BY <1>1, <1>8 DEF HeapIInv, BlocksHeld
<1>12. HeldCells(h)' = H /\ Room(h)' = R \cup U
  BY <1>1, <1>7 DEF HeldCells, Room, H, R, U
<1>13. Confined(h, R \cup U, K)
  <2>1. {b.ptr - Align : b \in K} = H
    BY DEF BlocksOf, HeldCells, H
  <2>2. BlocksOf(h) \cap BlocksOf(h)' \subseteq K /\ K \subseteq BlocksOf(h)
    OBVIOUS
  <2>3. ASSUME NEW k \in Heaps \ {h}
        PROVE  /\ (R \cup U) \cap Room(k) = {} /\ heaps'[k] = heaps[k] /\ areas'[k] = areas[k]
               /\ BlocksOf(k)' = BlocksOf(k)
    <3>1. R \cap Room(k) = {}
      BY <1>1, RoomsApart DEF R
    <3> QED
      BY <1>1, <1>2, <1>7, <3>1 DEF BlocksOf
  <2> HIDE DEF K
  <2> QED
    BY <1>1, <1>4, <2>1, <2>2, <2>3 DEF Confined
<1>14. Laid(cells', heaps'[h].free, heaps'[h].allocated, HeldCells(h)', Room(h)')
  BY <1>1, <1>4, <1>7, <1>12
<1>15. blocks' \ blocks = {}
  BY <1>1
<1> HIDE DEF K
<1> QED
  BY <1>1, <1>9, <1>10, <1>11, <1>13, <1>14, <1>15, StepKeeps

LEMMA DestroyKeeps ==
  ASSUME HeapIInv, NEW h, OSDestroyHeap(h)
  PROVE  HeapIInv' /\ Untouched
<1> DEFINE R == Room(h)
<1>1. /\ h \in Heaps /\ Live(h) /\ heaps' = [heaps EXCEPT ![h].size = -1]
      /\ areas' = [areas EXCEPT ![h] = {}] /\ blocks' = {b \in blocks : b.heap # h}
      /\ cells' = [y \in Addresses |-> IF \E a \in areas[h] : y \in Units(a) THEN Data ELSE cells[y]]
      /\ arena' = arena
  BY DEF OSDestroyHeap, Live
<1>2. cells' \in Mem /\ SameBut(cells, cells', R)
  <2>1. Data \in [prev : Int, next : Int, size : Int, hd : Int]
    BY AlignIs DEF Data, NoHeap
  <2>2. \A y \in Addresses : cells[y] \in [prev : Int, next : Int, size : Int, hd : Int]
    BY DEF HeapIInv, HeapTypes, Mem
  <2> HIDE DEF Data
  <2> QED
    BY <1>1, <2>1, <2>2 DEF Mem, SameBut, Room
<1>3. /\ heaps \in [Heaps -> [size : Int, free : Int, allocated : Int]]
      /\ areas \in [Heaps -> SUBSET Areas]
  BY DEF HeapIInv, HeapTypes
<1>4. /\ heaps'[h].size = -1 /\ areas'[h] = {}
      /\ \A k \in Heaps \ {h} : heaps'[k] = heaps[k] /\ areas'[k] = areas[k]
      /\ heaps' \in [Heaps -> [size : Int, free : Int, allocated : Int]]
      /\ areas' \in [Heaps -> SUBSET Areas]
  BY <1>1, <1>3
<1>5. \A k : Live(k)' <=> k # h /\ Live(k)
  BY <1>1, <1>4 DEF Live
<1>6. HeapTypes'
  BY <1>1, <1>2, <1>4 DEF HeapIInv, HeapTypes
<1>7. AreasOwned'
  BY <1>1, <1>4, <1>5 DEF HeapIInv, AreasOwned
<1>8. BlocksHeld'
  BY <1>1, <1>5 DEF HeapIInv, BlocksHeld
<1>9. Confined(h, R, {})
  <2>1. BlocksOf(h)' = {}
    BY <1>1 DEF BlocksOf
  <2>2. ASSUME NEW k \in Heaps \ {h}
        PROVE  R \cap Room(k) = {} /\ heaps'[k] = heaps[k] /\ areas'[k] = areas[k] /\ BlocksOf(k)' = BlocksOf(k)
    <3>1. BlocksOf(k)' = BlocksOf(k)
      BY <1>1 DEF BlocksOf
    <3> QED
      BY <1>1, <1>4, <3>1, RoomsApart
  <2> HIDE DEF R
  <2> QED
    BY <1>1, <1>2, <2>1, <2>2 DEF Confined, Kept
<1>10. blocks' \ blocks = {}
  BY <1>1
<1> HIDE DEF R
<1> QED
  BY <1>1, <1>5, <1>6, <1>7, <1>8, <1>9, <1>10, StepKeeps

\* Of steps that leave the heaps alone.
LEMMA ArenaKeeps ==
  ASSUME HeapIInv, cells' = cells, heaps' = heaps, areas' = areas, blocks' = blocks,
         arena' \in [lo : Int, hi : Int, start : Int, end : Int], arena'.start = arena.start,
         arena'.hi \in Nat, arena'.hi <= Top, arena'.lo # Unset => arena'.lo > 0,
         arena'.start # 0 => arena'.lo # Unset
  PROVE  HeapIInv' /\ Untouched
BY DEF HeapIInv, HeapTypes, AreasOwned, BlocksHeld, BlockSizes, AllLaid, Untouched, Live, HeldCells, Room

LEMMA OSInitKeeps ==
  ASSUME HeapIInv, NEW lo \in BootLos, NEW hi \in BootHis, OSInit(lo, hi)
  PROVE  HeapIInv' /\ Untouched
<1>1. /\ arena \in [lo : Int, hi : Int, start : Int, end : Int] /\ arena.lo = Unset
      /\ arena.start = 0
      /\ arena' = [arena EXCEPT !.lo = IF lo # 0 THEN lo ELSE DefaultLo,
                                !.hi = IF hi # 0 THEN hi ELSE DefaultHi]
      /\ cells' = cells /\ heaps' = heaps /\ areas' = areas /\ blocks' = blocks
  BY DEF HeapIInv, HeapTypes, OSInit
<1>2. lo \in Nat /\ hi \in Nat /\ DefaultLo \in Nat /\ DefaultHi \in Nat /\ DefaultLo > 0
  BY HeapAssumption
<1>3. hi <= Top /\ DefaultHi <= Top
  BY TopNat
<1> DEFINE newLo == IF lo # 0 THEN lo ELSE DefaultLo
           newHi == IF hi # 0 THEN hi ELSE DefaultHi
<1>4. newLo \in Nat /\ newLo > 0 /\ newHi \in Nat /\ newHi <= Top
  BY <1>2, <1>3
<1> HIDE DEF newLo, newHi
<1>5. /\ arena' \in [lo : Int, hi : Int, start : Int, end : Int]
      /\ arena'.lo = newLo /\ arena'.hi = newHi /\ arena'.start = arena.start
  <2>1. ASSUME NEW r \in [lo : Int, hi : Int, start : Int, end : Int], NEW i \in Int, NEW j \in Int
        PROVE  /\ [r EXCEPT !.lo = i, !.hi = j] \in [lo : Int, hi : Int, start : Int, end : Int]
               /\ [r EXCEPT !.lo = i, !.hi = j].lo = i /\ [r EXCEPT !.lo = i, !.hi = j].hi = j
               /\ [r EXCEPT !.lo = i, !.hi = j].start = r.start
    <3>1. [r EXCEPT !.lo = i, !.hi = j] \in [lo : Int, hi : Int, start : Int, end : Int]
      OBVIOUS
    <3>2. /\ [r EXCEPT !.lo = i, !.hi = j].lo = i /\ [r EXCEPT !.lo = i, !.hi = j].hi = j
          /\ [r EXCEPT !.lo = i, !.hi = j].start = r.start
      OBVIOUS
    <3> QED
      BY <3>1, <3>2
  <2>2. arena' = [arena EXCEPT !.lo = newLo, !.hi = newHi]
    BY <1>1 DEF newLo, newHi
  <2>3. newLo \in Int /\ newHi \in Int
    BY <1>4
  <2>4. arena \in [lo : Int, hi : Int, start : Int, end : Int]
    BY <1>1
  <2> DEFINE new == [arena EXCEPT !.lo = newLo, !.hi = newHi]
  <2>5. /\ new \in [lo : Int, hi : Int, start : Int, end : Int]
        /\ new.lo = newLo /\ new.hi = newHi /\ new.start = arena.start
    BY <2>1, <2>3, <2>4
  <2> HIDE DEF new
  <2>6. arena' = new
    BY <2>2 DEF new
  <2> QED
    BY <2>5, <2>6
<1>6. arena'.lo > 0 /\ arena'.lo # Unset
  BY <1>4, <1>5 DEF Unset
<1> QED
  BY <1>1, <1>4, <1>5, <1>6, ArenaKeeps

LEMMA OSInitAllocKeeps ==
  ASSUME HeapIInv, OSInitAlloc
  PROVE  HeapIInv' /\ Untouched
<1> DEFINE m == arena.lo + MaxHeaps * DescSize
           lo == OSRoundUp32B(m)
           end == OSRoundDown32B(arena.hi)
<1>1. /\ arena \in [lo : Int, hi : Int, start : Int, end : Int] /\ arena.lo > 0 /\ arena.hi \in Nat
      /\ arena.hi <= Top /\ blocks = {} /\ \A h \in Heaps : areas[h] = {}
  BY DEF HeapIInv, HeapTypes, AreasOwned, OSInitAlloc
<1>2. /\ arena' = [arena EXCEPT !.lo = lo, !.start = lo, !.end = end]
      /\ heaps' = [h \in Heaps |-> [size |-> -1, free |-> Null, allocated |-> Null]]
      /\ cells' = cells /\ areas' = areas /\ blocks' = blocks
  BY DEF OSInitAlloc
<1>3. m \in Nat /\ m > 0
  <2>1. MaxHeaps * DescSize \in Nat
    BY HeapAssumption
  <2> QED
    BY <1>1, <2>1
<1>4. lo \in Nat /\ lo > 0 /\ end \in Int
  BY <1>1, <1>3, RoundUpIs, RoundDownIs
<1> HIDE DEF m, lo, end
<1>5. /\ arena' \in [lo : Int, hi : Int, start : Int, end : Int]
      /\ arena'.lo = lo /\ arena'.start = lo /\ arena'.hi = arena.hi
  <2>1. ASSUME NEW r \in [lo : Int, hi : Int, start : Int, end : Int], NEW i \in Int, NEW j \in Int
        PROVE  /\ [r EXCEPT !.lo = i, !.start = i, !.end = j] \in [lo : Int, hi : Int, start : Int, end : Int]
               /\ [r EXCEPT !.lo = i, !.start = i, !.end = j].lo = i
               /\ [r EXCEPT !.lo = i, !.start = i, !.end = j].start = i
               /\ [r EXCEPT !.lo = i, !.start = i, !.end = j].hi = r.hi
    OBVIOUS
  <2>2. lo \in Int /\ end \in Int
    BY <1>4
  <2> QED
    BY <1>1, <1>2, <2>1, <2>2
<1>6. /\ heaps' \in [Heaps -> [size : Int, free : Int, allocated : Int]]
      /\ \A h : ~Live(h)'
  BY <1>2 DEF Live, Null
<1>7. lo # Unset /\ lo # 0
  BY <1>4 DEF Unset
<1>8. HeapTypes'
  BY <1>1, <1>2, <1>4, <1>5, <1>6, <1>7 DEF HeapIInv, HeapTypes
<1>9. AreasOwned' /\ BlocksHeld' /\ BlockSizes' /\ AllLaid'
  BY <1>1, <1>2, <1>6 DEF AreasOwned, BlocksHeld, BlockSizes, AllLaid
<1> QED
  BY <1>1, <1>8, <1>9 DEF HeapIInv, Untouched

LEMMA InitLaid == Init => HeapIInv
<1> SUFFICES ASSUME Init PROVE HeapIInv
  OBVIOUS
<1>1. HeapTypes
  <2>1. Data \in [prev : Int, next : Int, size : Int, hd : Int]
    BY AlignIs DEF Data, NoHeap
  <2>2. cells \in Mem
    BY <2>1 DEF Init, Mem
  <2> QED
    BY <2>2, TopNat DEF Init, HeapTypes, Unset, Null
<1>2. AreasOwned /\ BlocksHeld /\ BlockSizes
  BY DEF Init, AreasOwned, BlocksHeld, BlockSizes
<1>3. ASSUME NEW h \in Heaps
      PROVE  Laid(cells, heaps[h].free, heaps[h].allocated, HeldCells(h), Room(h))
  <2>1. heaps[h].free = Null /\ heaps[h].allocated = Null /\ HeldCells(h) = {} /\ Room(h) = {}
    BY DEF Init, HeldCells, Room
  <2>2. Chain(cells, Null, {}, ByAddress) /\ Tiles(cells, {} \cup {}, {}) /\ Apart(cells, {})
    BY DEF Chain, Tiles, Apart
  <2>3. Laid(cells, Null, Null, {}, {})
    BY <2>2, ByAddressIs DEF Laid
  <2> QED
    BY <2>1, <2>3
<1> QED
  BY <1>1, <1>2, <1>3 DEF HeapIInv, AllLaid

LEMMA StepLaid ==
  ASSUME SizesFit, HeapIInv, [Next]_vars PROVE HeapIInv' /\ Untouched
<1>1. CASE \E lo \in BootLos, hi \in BootHis : OSInit(lo, hi)
  BY <1>1, OSInitKeeps
<1>2. CASE OSInitAlloc
  BY <1>2, OSInitAllocKeeps
<1>3. CASE \E a \in Areas : OSCreateHeap(a) \/ \E h \in Heaps : OSAddToHeap(h, a)
  BY <1>3, CreateKeeps, AddKeeps
<1>4. CASE \E h \in Heaps : OSDestroyHeap(h)
  BY <1>4, DestroyKeeps
<1>5. CASE \E h \in Heaps : OSSetCurrentHeap(h)
  <2>1. cells' = cells /\ heaps' = heaps /\ areas' = areas /\ blocks' = blocks /\ arena' = arena
    BY <1>5 DEF OSSetCurrentHeap
  <2> QED
    BY <2>1, ArenaKeeps DEF HeapIInv, HeapTypes
<1>6. CASE \E n \in Sizes : OSAlloc(n) \/ \E h \in Heaps : OSAllocFromHeap(h, n)
  BY <1>6, AllocKeeps DEF OSAlloc
<1>7. CASE \E b \in blocks : OSFree(b) \/ OSFreeToHeap(b.heap, b)
  BY <1>7, FreeKeeps DEF OSFree
<1>8. CASE UNCHANGED vars
  <2>1. cells' = cells /\ heaps' = heaps /\ areas' = areas /\ blocks' = blocks /\ arena' = arena
    BY <1>8 DEF vars
  <2> QED
    BY <2>1, ArenaKeeps DEF HeapIInv, HeapTypes
<1> QED
  BY <1>1, <1>2, <1>3, <1>4, <1>5, <1>6, <1>7, <1>8 DEF Next

-----------------------------------------------------------------------------
(* The properties. *)

\* Whatever heaps a program makes, extends and destroys, and whatever it allocates and
\* frees, both lists of a heap are chained in order and tile the areas it was given,
\* provided that each size it asks for is still below 2^31 with a header and rounded up,
\* or is refused.  OSAllocFromHeap does not see to that.
THEOREM HeapsLaid ==
  ASSUME SizesFit PROVE Spec => []HeapIInv
<1>1. HeapIInv /\ [Next]_vars => HeapIInv'
  BY StepLaid
<1> QED
  BY InitLaid, <1>1, PTL DEF Spec

LEMMA CellsDisjoint ==
  ASSUME cells \in Mem, NEW S \in SUBSET Addresses, NEW R \in SUBSET Addresses, Tiles(cells, S, R),
         NEW x \in S, NEW y \in S, x # y
  PROVE  Extent(x) \cap Extent(y) = {}
<1> SUFFICES ASSUME NEW z \in Extent(x), z \in Extent(y) PROVE FALSE
  OBVIOUS
<1>1. (x < y => x + cells[x].size <= y) /\ (y < x => y + cells[y].size <= x)
  BY DEF Tiles
<1>2. /\ x \in Int /\ y \in Int /\ z \in Int /\ cells[x].size \in Int /\ cells[y].size \in Int
      /\ x <= z /\ z < x + cells[x].size /\ y <= z /\ z < y + cells[y].size
  BY MemIs, AddressIs DEF Extent
<1> QED
  BY <1>1, <1>2

\* A walk in the order of the ranks meets each cell once.
LEMMA WalkLength ==
  ASSUME NEW S \in SUBSET Addresses, NEW r \in Ranks, NEW s \in Seq(S), ToSet(s) = S,
         \A i, j \in 1 .. Len(s) : i < j => r[s[i]] < r[s[j]]
  PROVE  /\ Len(s) \in Nat /\ Len(s) = Cardinality(S)
         /\ \A i, j \in 1 .. Len(s) : s[i] \in S /\ (s[i] = s[j] => i = j)
         /\ \A x \in S : \E i \in 1 .. Len(s) : s[i] = x
<1> DEFINE I == 1 .. Len(s)
<1>1. Len(s) \in Nat /\ s \in [I -> S]
  BY SeqFacts
<1>2. ASSUME NEW i \in I, NEW j \in I, s[i] = s[j] PROVE i = j
  <2>1. r[s[i]] \in Int /\ i \in Int /\ j \in Int
    <3>1. s[i] \in Addresses /\ i \in Int /\ j \in Int
      BY <1>1
    <3> QED
      BY <3>1 DEF Ranks
  <2>2. ~(i < j) /\ ~(j < i)
    BY <1>2, <2>1
  <2> QED
    BY <2>1, <2>2
<1>3. \A z \in S : \E i \in I : s[i] = z
  BY <1>1 DEF ToSet
<1>4. IsFiniteSet(I) /\ Cardinality(I) = Len(s)
  <2> DEFINE n == Len(s)
  <2>1. n \in Nat
    BY <1>1
  <2> HIDE DEF n
  <2>2. IsFiniteSet(1 .. n) /\ Cardinality(1 .. n) = n
    BY <2>1, FS_Interval
  <2> QED
    BY <2>2 DEF n
<1> HIDE DEF I
<1>5. s \in Bijection(I, S)
  BY <1>1, <1>2, <1>3 DEF Bijection, Injection, Surjection, IsInjective
<1>6. ExistsBijection(I, S)
  BY <1>5 DEF ExistsBijection
<1>7. Len(s) = Cardinality(S)
  BY <1>4, <1>6, FS_Bijection
<1>8. \A i \in I : s[i] \in S
  BY <1>1
<1> QED
  BY <1>1, <1>2, <1>3, <1>7, <1>8 DEF I

LEMMA LaidPartitions == HeapIInv => Partitioned
<1> SUFFICES ASSUME HeapIInv, NEW h \in Heaps, Live(h)
             PROVE  LET free == ToSet(CellsFrom(cells, heaps[h].free))
                        all == free \cup HeldCells(h)
                    IN /\ Len(CellsFrom(cells, heaps[h].allocated)) = Cardinality(HeldCells(h))
                       /\ \A x \in HeldCells(h) : DLLookup(heaps[h].allocated, x) = x
                       /\ \A b \in blocks : b.heap = h =>
                            cells[b.ptr - Align].size - Required(b.size) \in 0 .. 2 * Align - 1
                       /\ UNION {Extent(x) : x \in all} = Room(h)
                       /\ \A x, y \in all : x # y => Extent(x) \cap Extent(y) = {}
  BY DEF Partitioned
<1> DEFINE free == heaps[h].free
           allocated == heaps[h].allocated
           H == HeldCells(h)
           R == Room(h)
           s == CellsFrom(cells, allocated)
           I == 1 .. Len(s)
<1>1. /\ cells \in Mem /\ H \in SUBSET Addresses /\ R \in SUBSET Addresses
      /\ Laid(cells, free, allocated, H, R)
  BY HeldIs, RoomIs DEF HeapIInv, HeapTypes, AllLaid
<1>2. PICK F \in SUBSET Addresses, r \in Ranks :
        /\ F \cap H = {} /\ Chain(cells, free, F, ByAddress) /\ Chain(cells, allocated, H, r)
        /\ Tiles(cells, F \cup H, R) /\ Apart(cells, F)
  BY <1>1 DEF Laid
<1> HIDE DEF free, allocated, H, R
<1>3. ToSet(CellsFrom(cells, free)) = F
  <2>1. Chain(cells, free, F, ByAddress)
    BY <1>2
  <2> QED
    BY <2>1, ByAddressIs, WalkIs
<1>4. s \in Seq(H) /\ ToSet(s) = H /\ \A i, j \in I : i < j => r[s[i]] < r[s[j]]
  <2>1. Chain(cells, allocated, H, r)
    BY <1>2
  <2> QED
    BY <1>1, <2>1, WalkIs
<1> HIDE DEF s
<1>5. Len(s) = Cardinality(H)
  BY <1>1, <1>4, WalkLength
<1>6. \A x \in H : DLLookup(allocated, x) = x
  BY <1>4 DEF DLLookup, s
<1>7. \A b \in blocks : cells[b.ptr - Align].size - Required(b.size) \in 0 .. 2 * Align - 1
  BY DEF HeapIInv, BlockSizes
<1>8. UNION {Extent(x) : x \in F \cup H} = R
  <2>1. \A x \in F \cup H, y \in Addresses : x <= y /\ y < x + cells[x].size => y \in R
    BY <1>2 DEF Tiles
  <2>2. \A y \in R : \E x \in F \cup H : x <= y /\ y < x + cells[x].size
    BY <1>2 DEF Tiles
  <2>3. \A x \in F \cup H : Extent(x) \subseteq R
    BY <2>1 DEF Extent
  <2>4. \A y \in R : \E x \in F \cup H : y \in Extent(x)
    BY <1>1, <2>2 DEF Extent
  <2> QED
    BY <2>3, <2>4
<1>9. \A x, y \in F \cup H : x # y => Extent(x) \cap Extent(y) = {}
  <2>1. F \cup H \in SUBSET Addresses /\ Tiles(cells, F \cup H, R)
    BY <1>1, <1>2
  <2> QED
    BY <1>1, <2>1, CellsDisjoint
<1> QED
  BY <1>3, <1>5, <1>6, <1>7, <1>8, <1>9 DEF free, allocated, H, R, s

\* The cells of a heap divide its memory among themselves, and the allocated list
\* holds the cells of the blocks that the program holds, whatever sequence of calls
\* of OSAllocFromHeap, OSFreeToHeap and OSAddToHeap split and merged them, for sizes
\* that stay below 2^31 when they are rounded up or are refused.
THEOREM PartitionedAlways ==
  ASSUME SizesFit PROVE Spec => []Partitioned
<1> QED
  BY HeapsLaid, LaidPartitions, PTL

\* No call writes into the bytes of a block that is held before and after it, for sizes
\* that stay below 2^31 when they are rounded up or are refused.
THEOREM BlocksUntouchedAlways ==
  ASSUME SizesFit PROVE Spec => BlocksUntouched
<1>1. HeapIInv /\ [Next]_vars =>
        [\A b \in blocks \cap blocks', y \in Addresses :
           b.ptr <= y /\ y < b.ptr + b.size => cells'[y] = cells[y]]_vars
  BY StepLaid DEF Untouched
<1> QED
  BY HeapsLaid, <1>1, PTL DEF Spec, BlocksUntouched

\* What lies between two held blocks is one free cell: none begins where another ends.
FreeCellsApart ==
  \A h \in Heaps : Live(h) =>
    LET free == ToSet(CellsFrom(cells, heaps[h].free))
    IN \A x, y \in free : x + cells[x].size # y

LEMMA LaidApart == HeapIInv => FreeCellsApart
<1> SUFFICES ASSUME HeapIInv, NEW h \in Heaps, Live(h)
             PROVE  LET free == ToSet(CellsFrom(cells, heaps[h].free))
                    IN \A x, y \in free : x + cells[x].size # y
  BY DEF FreeCellsApart
<1> DEFINE head == heaps[h].free
<1>1. Laid(cells, head, heaps[h].allocated, HeldCells(h), Room(h))
  BY DEF HeapIInv, AllLaid
<1>2. PICK F \in SUBSET Addresses : Chain(cells, head, F, ByAddress) /\ Apart(cells, F)
  BY <1>1 DEF Laid
<1> HIDE DEF head
<1>3. ToSet(CellsFrom(cells, head)) = F
  BY <1>2, ByAddressIs, WalkIs
<1> QED
  BY <1>2, <1>3 DEF Apart, head

\* OSFreeToHeap and OSAddToHeap merge a cell with both of its neighbours, and no
\* other call brings two free cells together, so a heap has no gap that is in parts,
\* for sizes that stay below 2^31 when they are rounded up or are refused.
THEOREM FreeCellsApartAlways ==
  ASSUME SizesFit PROVE Spec => []FreeCellsApart
<1> QED
  BY HeapsLaid, LaidApart, PTL

-----------------------------------------------------------------------------
(* Counting.  OSCheckHeap adds up the sizes of the cells it meets; the     *)
(* memory they take is counted in units of Align.                          *)

\* A cell has one unit for each Align bytes of its size.
LEMMA CellUnits ==
  ASSUME NEW x \in Addresses, NEW size \in Int, size >= Align, x + size - Align \in Addresses,
         NEW S, S = {y \in Addresses : x <= y /\ y < x + size}
  PROVE  IsFiniteSet(S) /\ Cardinality(S) \in Nat /\ Align * Cardinality(S) = size
<1>1. Align \in Nat \ {0} /\ x \in Int /\ x > 0 /\ Top \in Nat /\ MemBase \in Nat
  BY AddressIs, HeapAssumption, TopNat
<1>2. ASSUME NEW n \in Int, n % Align = 0 PROVE \E k \in Int : n = k * Align
  <2>1. n = (n \div Align) * Align /\ n \div Align \in Int
    BY <1>1, <1>2
  <2> QED
    BY <2>1
<1>3. \A y \in Addresses : y \in Int /\ MemBase <= y /\ y <= Top /\ y % Align = 0
  BY <1>1 DEF Addresses
<1>4. PICK m \in Int, l \in Int : x = m * Align /\ x + size - Align = l * Align
  BY <1>1, <1>2, <1>3
<1> DEFINE k == l - m + 1
           f == [i \in 1 .. k |-> x + (i - 1) * Align]
<1>5. k \in Int /\ size = k * Align
  <2>1. (l - m + 1) * Align = l * Align - m * Align + Align
    BY <1>1
  <2> QED
    BY <1>1, <1>4, <2>1
<1>6. k >= 1
  <2>1. k <= 0 => k * Align <= 0
    BY <1>1, <1>5
  <2> QED
    BY <1>1, <1>5, <2>1
<1>7. ASSUME NEW i \in 1 .. k
      PROVE  /\ f[i] = x + (i - 1) * Align /\ f[i] = (m + i - 1) * Align
             /\ (i - 1) * Align >= 0 /\ (i - 1) * Align <= size - Align
  <2>1. (m + i - 1) * Align = m * Align + (i - 1) * Align
    BY <1>1, <1>4
  <2>2. (k - 1) * Align = size - Align
    BY <1>1, <1>5
  <2>3. (i - 1) * Align <= (k - 1) * Align /\ (i - 1) * Align >= 0
    BY <1>1, <1>5
  <2> QED
    BY <1>4, <2>1, <2>2, <2>3
<1> HIDE DEF k, f
<1>8. ASSUME NEW i \in 1 .. k PROVE f[i] \in S
  <2>1. f[i] \in Int /\ f[i] >= x /\ f[i] <= x + size - Align
    BY <1>1, <1>5, <1>7
  <2>2. f[i] % Align = 0
    <3>1. m + i - 1 \in Int
      BY <1>4, <1>5
    <3>2. ASSUME NEW j \in Int PROVE (j * Align) % Align = 0
      BY <1>1
    <3> QED
      BY <1>7, <3>1, <3>2
  <2>3. f[i] <= Top /\ f[i] >= MemBase /\ f[i] < x + size
    BY <1>1, <1>3, <2>1
  <2> QED
    BY <2>1, <2>2, <2>3, <1>1 DEF Addresses
<1>9. ASSUME NEW i \in 1 .. k, NEW j \in 1 .. k, f[i] = f[j] PROVE i = j
  <2>1. i \in Int /\ j \in Int
    BY <1>5
  <2>2. (i - 1) * Align \in Int /\ (j - 1) * Align \in Int
    BY <1>1, <2>1
  <2>3. f[i] = x + (i - 1) * Align /\ f[j] = x + (j - 1) * Align
    BY <1>7
  <2>4. (i - 1) * Align = (j - 1) * Align
    <3> DEFINE p == (i - 1) * Align
               q == (j - 1) * Align
    <3>1. p \in Int /\ q \in Int /\ x + p = x + q
      BY <1>9, <2>2, <2>3
    <3> HIDE DEF p, q
    <3>2. p = q
      BY <1>1, <3>1
    <3> QED
      BY <3>2 DEF p, q
  <2>5. ASSUME NEW u \in Int, NEW v \in Int, u < v PROVE u * Align < v * Align
    <3>1. (v - u) * Align = v * Align - u * Align
      BY <1>1
    <3>2. ASSUME NEW w \in Int, w > 0 PROVE w * Align > 0
      BY <1>1, <3>2
    <3>3. v - u \in Int /\ v - u > 0
      BY <2>5
    <3>4. (v - u) * Align > 0 /\ u * Align \in Int /\ v * Align \in Int
      BY <1>1, <3>2, <3>3
    <3> QED
      BY <3>1, <3>4
  <2>6. ~(i - 1 < j - 1) /\ ~(j - 1 < i - 1)
    <3>1. i - 1 \in Int /\ j - 1 \in Int
      BY <2>1
    <3> QED
      BY <2>2, <2>4, <2>5, <3>1
  <2> QED
    BY <2>1, <2>6
<1>10. ASSUME NEW y \in S PROVE \E i \in 1 .. k : f[i] = y
  <2>1. y \in Int /\ y % Align = 0 /\ x <= y /\ y < x + size
    BY <1>3
  <2>2. PICK j \in Int : y = j * Align
    BY <1>2, <2>1
  <2> DEFINE i == j - m + 1
  <2>3. (i - 1) * Align = y - x
    <3>1. (j - m) * Align = j * Align - m * Align
      BY <1>1
    <3> QED
      BY <1>4, <2>2, <3>1
  <2>4. i \in Int /\ i - 1 >= 0 /\ i <= k
    <3>1. i \in Int
      BY <2>2
    <3> HIDE DEF i
    <3>2. i - 1 < 0 => (i - 1) * Align < 0
      BY <1>1, <3>1
    <3>3. i > k => (i - 1) * Align >= k * Align
      BY <1>1, <1>5, <3>1
    <3>4. k * Align \in Int /\ k * Align = size
      BY <1>5, <1>1
    <3> QED
      BY <1>1, <1>5, <2>1, <2>3, <3>1, <3>2, <3>3, <3>4
  <2>5. i \in 1 .. k
    BY <1>5, <2>4
  <2> HIDE DEF i
  <2>6. f[i] = y
    BY <1>1, <1>7, <2>1, <2>3, <2>5
  <2> QED
    BY <2>5, <2>6
<1>11. f \in Bijection(1 .. k, S)
  <2>1. f = [i \in 1 .. k |-> f[i]]
    BY DEF f
  <2>2. f \in [1 .. k -> S]
    BY <1>8, <2>1
  <2> QED
    BY <1>9, <1>10, <2>2 DEF Bijection, Injection, Surjection, IsInjective
<1>12. IsFiniteSet(1 .. k) /\ Cardinality(1 .. k) = k
  BY <1>5, <1>6, FS_Interval
<1>13. ExistsBijection(1 .. k, S)
  BY <1>11 DEF ExistsBijection
<1>14. IsFiniteSet(S) /\ Cardinality(S) = k
  BY <1>12, <1>13, FS_Bijection
<1> QED
  BY <1>1, <1>5, <1>6, <1>14

LEMMA TotalIs ==
  ASSUME cells \in Mem, NEW s \in Seq(Addresses)
  PROVE  /\ Total(s)[0] = 0
         /\ \A n \in Nat : n < Len(s) => Total(s)[n + 1] = Total(s)[n] + cells[s[n + 1]].size
<1> DEFINE N == Len(s)
           size == [n \in Nat |-> IF n \in 1 .. N THEN cells[s[n]].size ELSE 0]
           W(w) == w = [n \in 0 .. N |-> IF n = 0 THEN 0 ELSE w[n - 1] + cells[s[n]].size]
           total == CHOOSE w : W(w)
           G == [p \in Nat \X Int |-> p[2] + size[p[1] + 1]]
<1>1. Total(s) = total
  BY DEF Total
<1>2. N \in Nat /\ \A n \in 1 .. N : cells[s[n]].size \in Int
  BY MemIs
<1>3. /\ size \in [Nat -> Int]
      /\ \A n \in 1 .. N : size[n] = cells[s[n]].size
  <2>1. \A n \in 1 .. N : n \in Nat
    BY <1>2
  <2> QED
    BY <1>2, <2>1
<1> HIDE DEF N, size
<1>4. G \in [Nat \X Int -> Int] /\ \A n \in Nat, v \in Int : G[<<n, v>>] = v + size[n + 1]
  <2>1. ASSUME NEW p \in Nat \X Int PROVE p[2] + size[p[1] + 1] \in Int
    <3>1. p[1] + 1 \in Nat /\ p[2] \in Int
      OBVIOUS
    <3> QED
      BY <1>3, <3>1
  <2> QED
    BY <2>1
<1> HIDE DEF G
<1>5. PICK f \in [Nat -> Int] : Stepped(f, G, 0)
  <2> DEFINE I == Int
             zero == 0
  <2>1. zero \in I /\ G \in [Nat \X I -> I]
    BY <1>4
  <2> HIDE DEF I, zero
  <2>2. \E f \in [Nat -> I] : Stepped(f, G, zero)
    BY <2>1, Recurs
  <2> QED
    BY <2>2 DEF I, zero
<1> DEFINE g == [n \in 0 .. N |-> f[n]]
<1>6. W(g)
  <2>1. ASSUME NEW n \in 0 .. N PROVE g[n] = IF n = 0 THEN 0 ELSE g[n - 1] + cells[s[n]].size
    <3>1. CASE n = 0
      BY <1>2, <1>5, <3>1 DEF Stepped
    <3>2. CASE n # 0
      <4>1. n - 1 \in Nat /\ (n - 1) + 1 = n /\ n \in 1 .. N /\ n - 1 \in 0 .. N
        BY <1>2, <3>2
      <4>2. f[n] = G[<<n - 1, f[n - 1]>>] /\ f[n - 1] \in Int
        BY <1>5, <4>1 DEF Stepped
      <4>3. f[n] = f[n - 1] + cells[s[n]].size
        BY <1>3, <1>4, <4>1, <4>2
      <4> QED
        BY <3>2, <4>1, <4>3
    <3> QED
      BY <3>1, <3>2
  <2>2. g = [n \in 0 .. N |-> g[n]]
    OBVIOUS
  <2> HIDE DEF g
  <2> QED
    BY <2>1, <2>2
<1>7. W(total)
  <2> HIDE DEF W, g
  <2> QED
    BY <1>6
<1> HIDE DEF total
<1>8. total[0] = 0
  BY <1>2, <1>7
<1>9. ASSUME NEW n \in Nat, n < N PROVE total[n + 1] = total[n] + cells[s[n + 1]].size
  <2>1. n + 1 \in 0 .. N /\ n + 1 # 0 /\ (n + 1) - 1 = n
    BY <1>2, <1>9
  <2> QED
    BY <1>7, <2>1
<1> QED
  BY <1>1, <1>8, <1>9 DEF N

\* The memory of the first n cells.
Cover(s, n) == UNION {Extent(s[i]) : i \in 1 .. n}

\* The sizes of cells that share no memory add up to what they take together.
LEMMA SizeOfIs ==
  ASSUME cells \in Mem, NEW s \in Seq(Addresses),
         \A i \in 1 .. Len(s) : /\ IsFiniteSet(Extent(s[i]))
                                /\ Align * Cardinality(Extent(s[i])) = cells[s[i]].size,
         \A i, j \in 1 .. Len(s) : i < j => Extent(s[i]) \cap Extent(s[j]) = {}
  PROVE  LET U == UNION {Extent(x) : x \in ToSet(s)}
         IN IsFiniteSet(U) /\ SizeOf(s) = Align * Cardinality(U)
<1> DEFINE N == Len(s)
           total == Total(s)
           T == {n \in 0 .. N : IsFiniteSet(Cover(s, n)) /\ total[n] = Align * Cardinality(Cover(s, n))}
<1>1. N \in Nat /\ ToSet(s) = {s[i] : i \in 1 .. N} /\ Align \in Nat \ {0}
  BY HeapAssumption DEF ToSet
<1>2. total[0] = 0 /\ \A n \in Nat : n < N => total[n + 1] = total[n] + cells[s[n + 1]].size
  BY TotalIs
<1> HIDE DEF total, N
<1>3. 0 \in T
  <2>1. Cover(s, 0) = {}
    BY DEF Cover
  <2>2. IsFiniteSet(Cover(s, 0)) /\ Cardinality(Cover(s, 0)) = 0
    BY <2>1, FS_EmptySet
  <2> QED
    BY <1>1, <1>2, <2>2
<1>4. ASSUME NEW n \in 0 .. N - 1, n \in T PROVE n + 1 \in T
  <2> DEFINE A == Cover(s, n)
             B == Extent(s[n + 1])
             C == Cover(s, n + 1)
  <2>1. n \in Nat /\ n < N /\ n + 1 \in 1 .. N /\ n + 1 \in 0 .. N
    BY <1>1
  <2>2. C = A \cup B
    <3>1. 1 .. n + 1 = (1 .. n) \cup {n + 1}
      BY <2>1
    <3> QED
      BY <3>1 DEF Cover
  <2>3. A \cap B = {}
    <3>1. \A i \in 1 .. n : i \in 1 .. N /\ i < n + 1
      BY <1>1, <2>1
    <3>2. \A i \in 1 .. n : Extent(s[i]) \cap B = {}
      BY <2>1, <3>1 DEF N
    <3> QED
      BY <3>2 DEF Cover
  <2>4. IsFiniteSet(A) /\ total[n] = Align * Cardinality(A)
    BY <1>4
  <2>5. IsFiniteSet(B) /\ Align * Cardinality(B) = cells[s[n + 1]].size
    BY <2>1 DEF N
  <2>6. total[n + 1] = total[n] + cells[s[n + 1]].size
    BY <1>2, <2>1
  <2> HIDE DEF A, B, C
  <2>7. IsFiniteSet(C) /\ Cardinality(C) = Cardinality(A) + Cardinality(B)
    <3>1. IsFiniteSet(A \cup B) /\ Cardinality(A \cup B) = Cardinality(A) + Cardinality(B) - Cardinality(A \cap B)
      BY <2>4, <2>5, FS_Union
    <3>2. Cardinality(A \cap B) = 0
      BY <2>3, FS_EmptySet
    <3>3. Cardinality(A) \in Nat /\ Cardinality(B) \in Nat
      BY <2>4, <2>5, FS_CardinalityType
    <3> QED
      BY <2>2, <3>1, <3>2, <3>3
  <2>8. total[n + 1] = Align * Cardinality(C)
    <3> DEFINE i == Cardinality(A)
               j == Cardinality(B)
    <3>1. i \in Nat /\ j \in Nat /\ Cardinality(C) = i + j
      BY <2>4, <2>5, <2>7, FS_CardinalityType
    <3>2. total[n + 1] = Align * i + Align * j
      BY <2>4, <2>5, <2>6
    <3> HIDE DEF i, j
    <3>3. Align * (i + j) = Align * i + Align * j
      BY <1>1, <3>1
    <3> QED
      BY <3>1, <3>2, <3>3
  <2> QED
    BY <2>1, <2>7, <2>8 DEF C
<1>5. N \in T
  <2> HIDE DEF T
  <2>1. 0 .. N \subseteq T
    BY <1>1, <1>3, <1>4, BoundedInduction
  <2> QED
    BY <1>1, <2>1
<1>6. Cover(s, N) = UNION {Extent(x) : x \in ToSet(s)}
  BY <1>1 DEF Cover
<1> QED
  BY <1>5, <1>6 DEF SizeOf, total, N

-----------------------------------------------------------------------------
(* Gaps.  OSCheckHeap wants every cell to have two units.  A free cell is  *)
(* a gap between the held ones and an allocation leaves nothing or two     *)
(* units of it, so each unit of a gap has a neighbour in the gap: that is  *)
(* said of memory, whatever cells it is divided into.                      *)

Wide(S) == \A y \in S : y - Align \in S \/ y + Align \in S

\* The units of size bytes from x on, of cell x, and of the cells F.
UnitsFrom(x, size) == {y \in Addresses : x <= y /\ y < x + size}
Span(c, x) == UnitsFrom(x, c[x].size)
Memory(c, F) == {y \in Addresses : \E f \in F : f <= y /\ y < f + c[f].size}

LEMMA NextAddress ==
  ASSUME NEW y \in Addresses, NEW z \in Addresses
  PROVE  /\ y < z => y + Align \in Addresses /\ y + Align <= z /\ z - Align \in Addresses
         /\ y <= z => y < z + Align
<1>1. /\ y \in Int /\ z \in Int /\ MemBase <= y /\ MemBase <= z /\ y <= Top /\ z <= Top
      /\ Top \in Int /\ MemBase \in Int
      /\ y % Align = 0 /\ z % Align = 0 /\ Align % Align = 0 /\ Align \in Int /\ Align > 0
  BY TopNat, HeapAssumption DEF Addresses
<1>2. (y + Align) % Align = 0 /\ (z - Align) % Align = 0
  BY <1>1, MultipleIs
<1>3. y < z => y + Align <= z
  BY <1>1, MultipleStep
<1> QED
  BY <1>1, <1>2, <1>3 DEF Addresses

LEMMA WideBoth ==
  ASSUME NEW S, NEW T, Wide(S), Wide(T) PROVE Wide(S \cup T)
BY DEF Wide

\* A cell of two units or more is wide.
LEMMA WideCell ==
  ASSUME NEW x \in Addresses, NEW size \in Int, size >= 2 * Align, x + size - Align \in Addresses,
         NEW S, S = {y \in Addresses : x <= y /\ y < x + size}
  PROVE  Wide(S)
<1> SUFFICES ASSUME NEW y \in S PROVE y - Align \in S \/ y + Align \in S
  BY DEF Wide
<1> DEFINE z == x + size - Align
<1>1. /\ y \in Addresses /\ z \in Addresses /\ x \in Int /\ y \in Int /\ z \in Int
      /\ x <= y /\ y < x + size /\ z = x + size - Align
  BY AddressIs
<1> HIDE DEF z
<1>2. CASE x < y
  <2>1. y - Align \in Addresses /\ x + Align <= y
    BY <1>1, <1>2, NextAddress
  <2>2. x <= y - Align /\ y - Align < x + size
    BY <1>1, <2>1, AlignIs
  <2> QED
    BY <2>1, <2>2
<1>3. CASE x = y
  <2>1. y < z
    BY <1>1, <1>3, AlignIs
  <2>2. y + Align \in Addresses /\ y + Align <= z
    BY <1>1, <2>1, NextAddress
  <2>3. x <= y + Align /\ y + Align < x + size
    BY <1>1, <2>2, AlignIs
  <2> QED
    BY <2>2, <2>3
<1> QED
  BY <1>1, <1>2, <1>3

\* What an allocation takes from the free cell x, all of it or its front, leaves the
\* memory of the free cells wide.
LEMMA WideCut ==
  ASSUME NEW c \in Mem, NEW F \in SUBSET Addresses, NEW H, NEW R \in SUBSET Addresses,
         Tiles(c, F \cup H, R), Apart(c, F), NEW x \in F, NEW r \in Int, r % Align = 0, r >= Align,
         NEW new \in Int, Shares(c[x].size, new, r), Wide(Memory(c, F))
  PROVE  Wide(Memory(c, F) \ UnitsFrom(x, new))
<1> DEFINE S == Memory(c, F)
           E == UnitsFrom(x, new)
           old == c[x].size
           last == x + old - Align
<1>1. /\ x \in Addresses /\ x \in Int /\ old \in Int /\ old >= Align
      /\ last \in Addresses /\ last \in Int /\ last = x + old - Align
  BY MemIs, AddressIs DEF Tiles
<1>2. \A f \in F : /\ f \in Addresses /\ f \in Int /\ c[f].size \in Int /\ c[f].size >= Align
                   /\ f + c[f].size - Align \in Addresses
  BY MemIs, AddressIs DEF Tiles
<1>3. \A f \in F : (f < x => f + c[f].size <= x) /\ (x < f => x + old <= f)
  BY <1>1 DEF Tiles
<1>4. \A f \in F : f + c[f].size # x /\ x + old # f
  BY DEF Apart
<1> HIDE DEF old, last
<1>5. /\ Shares(old, new, r)
      /\ \A y \in Addresses : y \in S <=> \E f \in F : f <= y /\ y < f + c[f].size
      /\ \A y \in Addresses : y \in E <=> x <= y /\ y < x + new
      /\ S \subseteq Addresses /\ E \subseteq Addresses /\ Wide(S)
  BY DEF old, Memory, UnitsFrom
<1> HIDE DEF S, E
<1>6. new >= Align /\ new <= old /\ new % Align = 0
  <2>1. old % Align = 0
    <3>1. last % Align = 0 /\ x % Align = 0 /\ Align % Align = 0 /\ Align \in Int
      BY <1>1, HeapAssumption DEF Addresses
    <3>2. (last - x) % Align = 0 /\ last - x \in Int
      BY <1>1, <3>1, MultipleIs
    <3>3. ((last - x) + Align) % Align = 0
      BY <3>1, <3>2, MultipleIs
    <3>4. (last - x) + Align = old
      BY <1>1, AlignIs
    <3> QED
      BY <3>3, <3>4
  <2> QED
    BY <1>1, <1>5, <2>1, AlignIs DEF Shares, Splits
\* The unit in front of x is not free.
<1>7. ASSUME NEW y \in S, y < x, y + Align >= x PROVE FALSE
  <2>1. PICK f \in F : f <= y /\ y < f + c[f].size
    BY <1>5
  <2>2. f < x /\ y \in Int /\ f + c[f].size <= x
    BY <1>1, <1>2, <1>3, <1>5, <1>7, <2>1, AddressIs
  <2> DEFINE z == f + c[f].size - Align
  <2>3. z \in Addresses /\ z \in Int /\ z = f + c[f].size - Align /\ z < x
    BY <1>1, <1>2, <2>2, AlignIs
  <2> HIDE DEF z
  <2>4. z < x - Align
    <3> DEFINE e == f + c[f].size
    <3>0. f \in F /\ f \in Int /\ c[f].size \in Int
      BY <1>2, <2>1
    <3>1. e \in Int /\ e <= x
      BY <2>2, <3>0
    <3>2. e # x
      BY <1>4, <3>0
    <3>3. z = e - Align
      BY <2>3, <3>0, AlignIs
    <3> HIDE DEF e
    <3> QED
      BY <1>1, <3>1, <3>2, <3>3, AlignIs
  <2>5. y > z
    BY <1>1, <1>7, <2>2, <2>3, <2>4, AlignIs
  <2>6. z + Align <= y
    BY <1>5, <2>3, <2>5, NextAddress
  <2> QED
    BY <1>2, <2>1, <2>2, <2>3, <2>6, AlignIs
\* Nor the one behind the whole cell.
<1>8. x + old \notin S
  <2> SUFFICES ASSUME x + old \in S PROVE FALSE
    OBVIOUS
  <2>1. PICK f \in F : f <= x + old /\ x + old < f + c[f].size
    BY <1>5
  <2>2. f # x /\ ~(f < x)
    BY <1>1, <1>2, <1>3, <2>1, AlignIs DEF old
  <2>3. x + old = f
    <3>1. f \in Int /\ x < f
      BY <1>1, <1>2, <2>2
    <3>2. x + old <= f /\ f <= x + old
      BY <1>3, <2>1, <3>1
    <3> QED
      BY <1>1, <3>1, <3>2
  <2> QED
    BY <1>4, <2>3
<1>9. ASSUME NEW y \in S \ E PROVE y - Align \in S \ E \/ y + Align \in S \ E
  <2>1. y \in Addresses /\ y \in Int /\ y \in S
    BY <1>5, <1>9, AddressIs
  <2>2. y < x \/ x + new <= y
    BY <1>1, <1>5, <1>9, <2>1
  <2>3. y - Align \in S \/ y + Align \in S
    BY <1>5, <2>1 DEF Wide
  <2>4. CASE y < x
    <3>1. y + Align < x /\ y + Align \in Int /\ y - Align < x /\ y - Align \in Int
      BY <1>1, <1>7, <2>1, <2>4, AlignIs
    <3>2. y + Align \notin E /\ y - Align \notin E
      BY <1>1, <1>5, <3>1
    <3> QED
      BY <2>3, <3>2
  <2>5. CASE x + new < y
    <3>1. (x + new) % Align = 0 /\ y % Align = 0 /\ x + new \in Int
      BY <1>1, <1>6, <2>1, MultipleIs DEF Addresses
    <3>2. x + new + Align <= y
      BY <2>1, <2>5, <3>1, MultipleStep
    <3>3. x + new <= y - Align /\ x + new <= y + Align /\ y - Align \in Int /\ y + Align \in Int
      BY <1>1, <2>1, <3>1, <3>2, AlignIs
    <3>4. y + Align \notin E /\ y - Align \notin E
      BY <1>1, <1>5, <3>3
    <3> QED
      BY <2>3, <3>4
  <2>6. CASE x + new = y
    <3>1. new # old /\ new = r /\ old - new >= 2 * Align
      BY <1>5, <1>8, <2>1, <2>6 DEF Shares, Splits
    <3>2. y < last
      BY <1>1, <2>1, <2>6, <3>1, AlignIs
    <3>3. y + Align \in Addresses /\ y + Align <= last
      BY <1>1, <2>1, <3>2, NextAddress
    <3>4. x <= y + Align /\ y + Align < x + old /\ x + new <= y + Align
      BY <1>1, <1>6, <2>1, <2>6, <3>3, AlignIs
    <3>5. y + Align \in S
      BY <1>5, <3>3, <3>4 DEF old
    <3>6. y + Align \notin E
      BY <1>1, <1>5, <2>1, <3>3, <3>4, AlignIs
    <3> QED
      BY <3>5, <3>6
  <2> QED
    BY <1>1, <2>1, <2>2, <2>4, <2>5, <2>6
<1> QED
  BY <1>9 DEF Wide, S, E

\* The gaps of a heap are the memory of its free cells.
LEMMA UnheldIs ==
  ASSUME HeapIInv, NEW h \in Heaps, NEW F \in SUBSET Addresses, F \cap HeldCells(h) = {},
         Tiles(cells, F \cup HeldCells(h), Room(h))
  PROVE  Unheld(h) = Memory(cells, F)
<1> DEFINE H == HeldCells(h)
           R == Room(h)
<1>1. cells \in Mem /\ H \in SUBSET Addresses /\ R \in SUBSET Addresses
  BY HeldIs, RoomIs DEF HeapIInv, HeapTypes
<1>2. /\ F \cap H = {}
      /\ \A x \in F \cup H, y \in Addresses : x <= y /\ y < x + cells[x].size => y \in R
      /\ \A y \in R : \E x \in F \cup H : x <= y /\ y < x + cells[x].size
      /\ \A x, y \in F \cup H : x < y => x + cells[x].size <= y
  BY DEF Tiles
<1>3. \A y \in Addresses : y \in Unheld(h) <=> y \in R /\ \A x \in H : ~(x <= y /\ y < x + cells[x].size)
  BY DEF Unheld, Extent
<1>4. Unheld(h) \subseteq Addresses
  BY <1>1 DEF Unheld
<1> HIDE DEF H, R
<1>5. \A x \in F \cup H : x \in Int /\ cells[x].size \in Int
  BY <1>1, MemIs, AddressIs
<1>6. ASSUME NEW y \in Addresses, NEW f \in F, f <= y, y < f + cells[f].size,
             NEW x \in H, x <= y, y < x + cells[x].size
      PROVE  FALSE
  <2>1. /\ x # f /\ y \in Int /\ x \in Int /\ f \in Int
        /\ cells[x].size \in Int /\ cells[f].size \in Int
    BY <1>2, <1>5, AddressIs
  <2>2. x < f \/ f < x
    BY <2>1
  <2>3. (x < f => x + cells[x].size <= f) /\ (f < x => f + cells[f].size <= x)
    BY <1>2
  <2> QED
    BY <1>6, <2>1, <2>2, <2>3
<1>7. \A y \in Addresses : y \in Unheld(h) <=> \E f \in F : f <= y /\ y < f + cells[f].size
  BY <1>2, <1>3, <1>6
<1> QED
  BY <1>4, <1>7 DEF Memory

\* A block that a step leaves stays as large as it is.
LEMMA SpanSame ==
  ASSUME Untouched, NEW b \in blocks \cap blocks'
  PROVE  Span(cells', b.ptr - Align) = Span(cells, b.ptr - Align)
<1> DEFINE x == b.ptr - Align
<1>1. cells'[x].size = cells[x].size
  BY DEF Untouched
<1> HIDE DEF x
<1> QED
  BY <1>1 DEF Span, x

\* The memory of the blocks B.
Held(c, B) == UNION {Span(c, b.ptr - Align) : b \in B}

LEMMA HeldAre == ASSUME NEW c, NEW B, NEW y PROVE y \in Held(c, B) <=> \E b \in B : y \in Span(c, b.ptr - Align)
BY DEF Held

LEMMA HeldSame ==
  ASSUME NEW c, NEW d, NEW B, \A b \in B : Span(d, b.ptr - Align) = Span(c, b.ptr - Align)
  PROVE  Held(d, B) = Held(c, B)
<1>1. \A y : y \in Held(d, B) <=> y \in Held(c, B)
  BY HeldAre
<1> QED
  BY <1>1

LEMMA HeldMore ==
  ASSUME NEW c, NEW B, NEW new, NEW C, C = B \cup {new}
  PROVE  Held(c, C) = Held(c, B) \cup Span(c, new.ptr - Align)
<1>1. \A y : y \in Held(c, C) <=> y \in Held(c, B) \/ y \in Span(c, new.ptr - Align)
  BY HeldAre
<1> QED
  BY <1>1

LEMMA HeldUnits ==
  ASSUME NEW h
  PROVE  /\ Unheld(h) = Room(h) \ Held(cells, BlocksOf(h))
         /\ Unheld(h)' = Room(h)' \ Held(cells', BlocksOf(h)')
<1>1. UNION {Extent(x) : x \in HeldCells(h)} = Held(cells, BlocksOf(h))
  BY DEF Held, HeldCells, BlocksOf, Extent, Span, UnitsFrom
<1>2. /\ Unheld(h)' = Room(h)' \ UNION {Span(cells', x) : x \in HeldCells(h)'}
      /\ UNION {Span(cells', x) : x \in HeldCells(h)'} = Held(cells', BlocksOf(h)')
  BY DEF Held, Unheld, Extent, Span, UnitsFrom, HeldCells, BlocksOf
<1> QED
  BY <1>1, <1>2 DEF Unheld

\* The gaps of a heap that a step is not about.
LEMMA UnheldSame ==
  ASSUME Untouched, NEW k \in Heaps, BlocksOf(k)' = BlocksOf(k), Room(k)' = Room(k)
  PROVE  Unheld(k)' = Unheld(k)
<1>1. \A b \in BlocksOf(k) : b \in blocks \cap blocks'
  BY DEF BlocksOf
<1>2. \A b \in BlocksOf(k) : Span(cells', b.ptr - Align) = Span(cells, b.ptr - Align)
  BY <1>1, SpanSame
<1>3. Held(cells', BlocksOf(k)) = Held(cells, BlocksOf(k))
  BY <1>2, HeldSame
<1> QED
  BY <1>3, HeldUnits

GapsWide == \A h \in Heaps : Live(h) => Wide(Unheld(h))

\* OSCheckHeap knows no cell smaller than two units, and the program gives it none.
AreasWide == \A a \in Areas : OSRoundDown32B(a.end) - OSRoundUp32B(a.start) >= 2 * Align

LEMMA AllocWide ==
  ASSUME HeapIInv, HeapIInv', Untouched, NEW h, NEW n \in Sizes, NEW x, NEW head, Allocates(h, n, x, head),
         GapsWide
  PROVE  GapsWide'
<1> DEFINE r == Required(n)
           new == [heap |-> h, ptr |-> x + Align, size |-> n]
           E == Span(cells', x)
<1>1. /\ h \in Heaps /\ Live(h) /\ x \in Addresses \ HeldCells(h)
      /\ x \in ToSet(CellsFrom(cells, heaps[h].free))
      /\ blocks' = blocks \cup {new} /\ arena' = arena /\ areas' = areas /\ cells' \in Mem
      /\ heaps' = [heaps EXCEPT ![h].free = head, ![h].allocated = x]
      /\ Shares(cells[x].size, cells'[x].size, r)
  BY DEF Allocates
<1>2. new.heap = h /\ new.ptr - Align = x
  BY <1>1, AddressIs, AlignIs
<1>3. \A k \in Heaps : Live(k)' => Live(k)
  BY <1>1 DEF Live, HeapIInv, HeapTypes
<1>4. \A k : Room(k)' = Room(k)
  BY <1>1 DEF Room
<1>5. \A k \in Heaps \ {h} : BlocksOf(k)' = BlocksOf(k)
  BY <1>1, <1>2 DEF BlocksOf
<1>6. BlocksOf(h)' = BlocksOf(h) \cup {new}
  BY <1>1, <1>2 DEF BlocksOf
<1>7. Unheld(h)' = Unheld(h) \ E
  <2>1. \A b \in BlocksOf(h) : b \in blocks \cap blocks'
    BY <1>1 DEF BlocksOf
  <2>2. \A b \in BlocksOf(h) : Span(cells', b.ptr - Align) = Span(cells, b.ptr - Align)
    BY <2>1, SpanSame
  <2>3. Span(cells', new.ptr - Align) = E
    BY <1>2
  <2> HIDE DEF E, new
  <2>4. Held(cells', BlocksOf(h)) = Held(cells, BlocksOf(h))
    BY <2>2, HeldSame
  <2>5. Held(cells', BlocksOf(h)') = Held(cells', BlocksOf(h)) \cup E
    BY <1>6, <2>3, HeldMore
  <2>6. Room(h)' = Room(h)
    BY <1>1 DEF Room
  <2> QED
    BY <2>4, <2>5, <2>6, HeldUnits
<1>8. PICK F \in SUBSET Addresses, q \in Ranks :
        /\ F \cap HeldCells(h) = {} /\ Chain(cells, heaps[h].free, F, ByAddress)
        /\ Tiles(cells, F \cup HeldCells(h), Room(h)) /\ Apart(cells, F)
  BY <1>1 DEF HeapIInv, AllLaid, Laid
<1>9. x \in F
  <2> DEFINE free == heaps[h].free
  <2>1. Chain(cells, free, F, ByAddress) /\ x \in ToSet(CellsFrom(cells, free))
    BY <1>1, <1>8
  <2> HIDE DEF free
  <2> QED
    BY <2>1, ByAddressIs, WalkIs
<1>10. Unheld(h) = Memory(cells, F)
  BY <1>1, <1>8, UnheldIs
<1>11. r \in Int /\ r % Align = 0 /\ r >= Align
  <2>1. n \in Nat
    BY HeapAssumption
  <2> QED
    BY <2>1, RequiredIs, AlignIs
<1>12. Wide(Memory(cells, F) \ E)
  <2>1. cells \in Mem /\ cells'[x].size \in Int /\ Room(h) \in SUBSET Addresses
    BY <1>1, MemIs, RoomIs DEF HeapIInv, HeapTypes
  <2>2. Wide(Memory(cells, F))
    BY <1>1, <1>10 DEF GapsWide
  <2>3. E = UnitsFrom(x, cells'[x].size)
    BY DEF Span
  <2> DEFINE H == HeldCells(h)
             R == Room(h)
             size == cells'[x].size
  <2>4. Tiles(cells, F \cup H, R) /\ Apart(cells, F) /\ Shares(cells[x].size, size, r) /\ size \in Int
    BY <1>1, <1>8, <2>1
  <2>5. E = UnitsFrom(x, size) /\ R \in SUBSET Addresses
    BY <2>1, <2>3
  <2> HIDE DEF E, r, H, R, size
  <2> QED
    BY <1>9, <1>11, <2>1, <2>2, <2>4, <2>5, WideCut
<1> SUFFICES ASSUME NEW k \in Heaps, Live(k)' PROVE Wide(Unheld(k)')
  BY DEF GapsWide, Wide
<1>13. CASE k = h
  BY <1>7, <1>10, <1>12, <1>13
<1>14. CASE k # h
  <2>1. Unheld(k)' = Unheld(k)
    BY <1>4, <1>5, <1>14, UnheldSame
  <2> QED
    BY <1>3, <2>1 DEF GapsWide
<1> QED
  BY <1>13, <1>14

\* A block's cell has two units: its header and a byte or more.
LEMMA HeldLong ==
  ASSUME HeapIInv, NEW h \in Heaps, NEW z \in HeldCells(h) PROVE cells[z].size >= 2 * Align
<1>1. PICK b \in blocks : b.heap = h /\ z = b.ptr - Align
  BY DEF HeldCells
<1> DEFINE q == Required(b.size)
<1>2. z \in Addresses /\ cells \in Mem /\ b.size \in Nat /\ b.size > 0
  BY <1>1, BlockIs, HeapAssumption DEF HeapIInv, HeapTypes
<1>3. cells[z].size - q \in 0 .. 2 * Align - 1 /\ cells[z].size \in Int
  BY <1>1, <1>2, MemIs DEF HeapIInv, BlockSizes
<1>4. q \in Int /\ q % Align = 0 /\ Align < q /\ Align % Align = 0 /\ Align \in Int
  BY <1>2, RequiredIs, AlignIs, HeapAssumption
<1> HIDE DEF q
<1>5. Align + Align <= q
  BY <1>4, MultipleStep
<1> QED
  BY <1>3, <1>4, <1>5

LEMMA FreeWide ==
  ASSUME HeapIInv, HeapIInv', Untouched, NEW b \in blocks, NEW h, OSFreeToHeap(h, b), GapsWide
  PROVE  GapsWide'
<1> DEFINE x == b.ptr - Align
           B == BlocksOf(h)
           C == BlocksOf(h)'
           R == Room(h)
           E == Span(cells, x)
<1>1. /\ h \in Heaps /\ Live(h) /\ b.heap = h /\ blocks' = blocks \ {b} /\ arena' = arena /\ areas' = areas
      /\ \E i, j : heaps' = [heaps EXCEPT ![h].allocated = i, ![h].free = j]
  BY DEF OSFreeToHeap, Live
<1>2. \A k \in Heaps : Live(k)' => Live(k)
  BY <1>1 DEF Live, HeapIInv, HeapTypes
<1>3. \A k \in Heaps \ {h} : BlocksOf(k)' = BlocksOf(k) /\ Room(k)' = Room(k)
  BY <1>1 DEF BlocksOf, Room
<1>4. B = C \cup {b} /\ Room(h)' = R /\ \A a \in C : a \in blocks \cap blocks'
  BY <1>1 DEF BlocksOf, Room
<1>5. /\ x \in Addresses /\ x \in HeldCells(h) /\ cells \in Mem
      /\ cells[x].size \in Int /\ cells[x].size >= 2 * Align
  BY <1>1, BlockIs, MemIs, HeldLong DEF HeapIInv, HeapTypes
<1>6. PICK F \in SUBSET Addresses, q \in Ranks :
        /\ F \cap HeldCells(h) = {} /\ Chain(cells, heaps[h].free, F, ByAddress)
        /\ Tiles(cells, F \cup HeldCells(h), R) /\ Apart(cells, F)
  BY <1>1 DEF HeapIInv, AllLaid, Laid
<1>7. x + cells[x].size - Align \in Addresses /\ E \subseteq R
  <2>1. x + cells[x].size - Align \in R /\ \A y \in Addresses : x <= y /\ y < x + cells[x].size => y \in R
    BY <1>5, <1>6 DEF Tiles
  <2> QED
    BY <1>1, <2>1, RoomIs DEF Span, UnitsFrom
<1>8. Wide(E)
  BY <1>5, <1>7, WideCell DEF Span, UnitsFrom
<1>9. E \cap Held(cells, C) = {}
  <2> SUFFICES ASSUME NEW y \in E, NEW a \in C, y \in Span(cells, a.ptr - Align) PROVE FALSE
    BY HeldAre
  <2> DEFINE z == a.ptr - Align
  <2>1. a \in blocks /\ a.heap = h /\ a # b
    BY <1>1, <1>4 DEF BlocksOf
  <2>2. z \in HeldCells(h) /\ z \in Addresses /\ z # x
    <3>1. a.ptr \in Int /\ b.ptr \in Int /\ z \in HeldCells(h) /\ z \in Addresses
      BY <2>1, BlockIs
    <3>2. a.ptr # b.ptr
      BY <1>1, <2>1 DEF HeapIInv, BlocksHeld
    <3> QED
      BY <3>1, <3>2, AlignIs
  <2>3. (x < z => x + cells[x].size <= z) /\ (z < x => z + cells[z].size <= x)
    BY <1>5, <1>6, <2>2 DEF Tiles
  <2>4. x <= y /\ y < x + cells[x].size /\ z <= y /\ y < z + cells[z].size /\ y \in Addresses
    BY DEF Span, UnitsFrom
  <2> HIDE DEF x, z
  <2>5. x \in Int /\ y \in Int /\ z \in Int /\ cells[x].size \in Int /\ cells[z].size \in Int
    BY <1>5, <2>2, <2>4, AddressIs, MemIs
  <2> QED
    BY <2>2, <2>3, <2>4, <2>5
<1>10. Held(cells, B) = Held(cells, C) \cup E
  BY <1>4, HeldMore
<1>11. Held(cells', C) = Held(cells, C)
  <2>1. \A a \in C : Span(cells', a.ptr - Align) = Span(cells, a.ptr - Align)
    BY <1>4, SpanSame
  <2> HIDE DEF C
  <2> QED
    BY <2>1, HeldSame
<1>12. Unheld(h)' = Unheld(h) \cup E
  <2>1. Unheld(h) = R \ Held(cells, B) /\ Unheld(h)' = Room(h)' \ Held(cells', C)
    BY HeldUnits
  <2> HIDE DEF B, C, R, E
  <2> QED
    BY <1>4, <1>7, <1>9, <1>10, <1>11, <2>1
<1>13. Wide(Unheld(h) \cup E)
  BY <1>1, <1>8, WideBoth DEF GapsWide
<1> SUFFICES ASSUME NEW k \in Heaps, Live(k)' PROVE Wide(Unheld(k)')
  BY DEF GapsWide, Wide
<1>14. CASE k = h
  BY <1>12, <1>13, <1>14
<1>15. CASE k # h
  <2>1. Unheld(k)' = Unheld(k)
    BY <1>3, <1>15, UnheldSame
  <2> QED
    BY <1>2, <2>1 DEF GapsWide
<1> QED
  BY <1>14, <1>15

\* An area that is added to a heap, or makes one.
LEMMA AreaWide ==
  ASSUME AreasWide, HeapIInv, NEW a \in Areas, Spare(a)
  PROVE  Wide(Units(a))
<1> DEFINE s == OSRoundUp32B(a.start)
           size == OSRoundDown32B(a.end) - s
<1>1. OneCell(s, size, Units(a))
  BY SpareIs
<1>2. size >= 2 * Align
  BY DEF AreasWide
<1> HIDE DEF s, size
<1>3. /\ s \in Addresses /\ size \in Int /\ s + size - Align \in Addresses
      /\ Units(a) = {y \in Addresses : s <= y /\ y < s + size}
  BY <1>1 DEF OneCell
<1> QED
  BY <1>2, <1>3, WideCell

LEMMA AreaStepWide ==
  ASSUME HeapIInv, Untouched, NEW h \in Heaps, NEW a \in Areas, Wide(Units(a)),
         \A k \in Heaps : Units(a) \cap Room(k) = {},
         blocks' = blocks, areas' = [areas EXCEPT ![h] = areas[h] \cup {a}],
         \A k \in Heaps \ {h} : Live(k)' => Live(k), Live(h) \/ areas[h] = {}, GapsWide
  PROVE  GapsWide'
<1>1. \A k : BlocksOf(k)' = BlocksOf(k)
  BY DEF BlocksOf
<1>2. areas \in [Heaps -> SUBSET Areas]
  BY DEF HeapIInv, HeapTypes
<1>3. Room(h)' = Room(h) \cup Units(a) /\ \A k \in Heaps \ {h} : Room(k)' = Room(k)
  BY <1>2 DEF Room
<1>4. \A k : Held(cells', BlocksOf(k)) = Held(cells, BlocksOf(k))
  <2> TAKE k
  <2>1. \A b \in BlocksOf(k) : b \in blocks \cap blocks'
    BY DEF BlocksOf
  <2>2. \A b \in BlocksOf(k) : Span(cells', b.ptr - Align) = Span(cells, b.ptr - Align)
    BY <2>1, SpanSame
  <2> QED
    BY <2>2, HeldSame
<1>5. Held(cells, BlocksOf(h)) \cap Units(a) = {}
  <2> SUFFICES ASSUME NEW y \in Units(a), NEW b \in BlocksOf(h), y \in Span(cells, b.ptr - Align) PROVE FALSE
    BY HeldAre
  <2> DEFINE x == b.ptr - Align
  <2>1. b \in blocks /\ b.heap = h
    BY DEF BlocksOf
  <2>2. x \in HeldCells(h) /\ Live(h)
    BY <2>1, BlockIs
  <2>3. PICK F : Tiles(cells, F \cup HeldCells(h), Room(h))
    BY <2>2 DEF HeapIInv, AllLaid, Laid
  <2>4. y \in Room(h)
    BY <2>2, <2>3 DEF Tiles, Span, UnitsFrom
  <2> QED
    BY <2>4
<1>6. Unheld(h)' = Unheld(h) \cup Units(a)
  <2>1. Unheld(h) = Room(h) \ Held(cells, BlocksOf(h)) /\ Unheld(h)' = Room(h)' \ Held(cells', BlocksOf(h)')
    BY HeldUnits
  <2>2. Held(cells', BlocksOf(h)') = Held(cells, BlocksOf(h))
    BY <1>1, <1>4
  <2> QED
    BY <1>3, <1>5, <2>1, <2>2
<1>7. Wide(Unheld(h))
  <2>1. CASE Live(h)
    BY <2>1 DEF GapsWide
  <2>2. CASE areas[h] = {}
    BY <2>2 DEF Wide, Unheld, Room
  <2> QED
    BY <2>1, <2>2
<1> SUFFICES ASSUME NEW k \in Heaps, Live(k)' PROVE Wide(Unheld(k)')
  BY DEF GapsWide, Wide
<1>8. CASE k = h
  <2>1. Wide(Unheld(h) \cup Units(a))
    BY <1>7, WideBoth
  <2> QED
    BY <1>6, <1>8, <2>1
<1>9. CASE k # h
  <2>1. Unheld(k)' = Unheld(k)
    BY <1>1, <1>3, <1>9, UnheldSame
  <2> QED
    BY <1>9, <2>1 DEF GapsWide
<1> QED
  BY <1>8, <1>9

\* Steps that give no heap memory and take no block.
LEMMA OtherWide ==
  ASSUME HeapIInv, Untouched, blocks' \subseteq blocks, GapsWide,
         \A k \in Heaps : Live(k)' => Live(k) /\ BlocksOf(k)' = BlocksOf(k) /\ Room(k)' = Room(k)
  PROVE  GapsWide'
<1> SUFFICES ASSUME NEW k \in Heaps, Live(k)' PROVE Wide(Unheld(k)')
  BY DEF GapsWide, Wide
<1>1. Unheld(k)' = Unheld(k)
  BY UnheldSame
<1> QED
  BY <1>1 DEF GapsWide

LEMMA StepWide ==
  ASSUME SizesFit, AreasWide, HeapIInv, [Next]_vars, GapsWide PROVE GapsWide'
<1>0. HeapIInv' /\ Untouched
  BY StepLaid
<1>1. CASE \E lo \in BootLos, hi \in BootHis : OSInit(lo, hi)
  <2>1. arena.start = 0 /\ arena'.start = arena.start
    BY <1>1 DEF OSInit, HeapIInv, HeapTypes
  <2> QED
    BY <2>1 DEF GapsWide, Live
<1>2. CASE OSInitAlloc
  <2>1. \A h \in Heaps : ~Live(h)'
    BY <1>2 DEF OSInitAlloc, Live
  <2> QED
    BY <2>1 DEF GapsWide
<1>3. ASSUME NEW a \in Areas, OSCreateHeap(a) PROVE GapsWide'
  <2> DEFINE s == OSRoundUp32B(a.start)
             size == OSRoundDown32B(a.end) - s
  <2>1. PICK h \in Heaps :
          /\ NewHeap(h) /\ areas' = [areas EXCEPT ![h] = {a}]
          /\ heaps' = [heaps EXCEPT ![h] = [size |-> size, free |-> s, allocated |-> Null]]
    BY <1>3 DEF OSCreateHeap
  <2> HIDE DEF s, size
  <2>2. Spare(a) /\ arena' = arena /\ blocks' = blocks
    BY <1>3 DEF OSCreateHeap
  <2>3. heaps[h].size \in Int /\ ~(heaps[h].size >= 0) /\ heaps[h].size < 0
    BY <2>1 DEF HeapIInv, HeapTypes, NewHeap
  <2>4. areas[h] = {}
    BY <2>3 DEF HeapIInv, AreasOwned, Live
  <2>5. areas' = [areas EXCEPT ![h] = areas[h] \cup {a}]
    BY <2>1, <2>4
  <2>6. \A k \in Heaps \ {h} : Live(k)' => Live(k)
    BY <2>1, <2>2 DEF Live, HeapIInv, HeapTypes
  <2>7. Wide(Units(a)) /\ \A k \in Heaps : Units(a) \cap Room(k) = {}
    BY <2>2, AreaWide, SpareIs
  <2> QED
    BY <1>0, <2>2, <2>4, <2>5, <2>6, <2>7, AreaStepWide
<1>4. ASSUME NEW a \in Areas, NEW h \in Heaps, OSAddToHeap(h, a) PROVE GapsWide'
  <2>1. /\ Live(h) /\ Spare(a) /\ areas' = [areas EXCEPT ![h] = @ \cup {a}] /\ arena' = arena /\ blocks' = blocks
        /\ \E size, free : heaps' = [heaps EXCEPT ![h].size = @ + size, ![h].free = free]
    BY <1>4 DEF OSAddToHeap
  <2>2. \A k \in Heaps \ {h} : Live(k)' => Live(k)
    BY <2>1 DEF Live, HeapIInv, HeapTypes
  <2>3. Wide(Units(a)) /\ \A k \in Heaps : Units(a) \cap Room(k) = {}
    BY <2>1, AreaWide, SpareIs
  <2>4. areas' = [areas EXCEPT ![h] = areas[h] \cup {a}]
    BY <2>1
  <2> QED
    BY <1>0, <2>1, <2>2, <2>3, <2>4, AreaStepWide
<1>5. ASSUME NEW h \in Heaps, OSDestroyHeap(h) PROVE GapsWide'
  <2>1. /\ Live(h) /\ heaps' = [heaps EXCEPT ![h].size = -1]
        /\ areas' = [areas EXCEPT ![h] = {}] /\ blocks' = {b \in blocks : b.heap # h} /\ arena' = arena
    BY <1>5 DEF OSDestroyHeap
  <2>2. \A k \in Heaps : Live(k)' => k # h /\ Live(k)
    BY <2>1 DEF Live, HeapIInv, HeapTypes
  <2>3. \A k \in Heaps \ {h} : BlocksOf(k)' = BlocksOf(k) /\ Room(k)' = Room(k)
    BY <2>1 DEF BlocksOf, Room, HeapIInv, HeapTypes
  <2>4. blocks' \subseteq blocks
    BY <2>1
  <2> QED
    BY <1>0, <2>2, <2>3, <2>4, OtherWide
<1>6. CASE (\E h \in Heaps : OSSetCurrentHeap(h)) \/ UNCHANGED vars
  <2>1. cells' = cells /\ heaps' = heaps /\ areas' = areas /\ blocks' = blocks /\ arena' = arena
    BY <1>6 DEF OSSetCurrentHeap, vars
  <2>2. \A k \in Heaps : Live(k)' => Live(k) /\ BlocksOf(k)' = BlocksOf(k) /\ Room(k)' = Room(k)
    BY <2>1 DEF Live, BlocksOf, Room
  <2> QED
    BY <1>0, <2>1, <2>2, OtherWide
<1>7. ASSUME NEW n \in Sizes, NEW h, OSAllocFromHeap(h, n) PROVE GapsWide'
  <2>1. \E x, head : Allocates(h, n, x, head)
    BY <1>7, AllocIs
  <2> QED
    BY <1>0, <2>1, AllocWide
<1>8. ASSUME NEW b \in blocks, NEW h, OSFreeToHeap(h, b) PROVE GapsWide'
  BY <1>0, <1>8, FreeWide
<1> QED
  BY <1>1, <1>2, <1>3, <1>4, <1>5, <1>6, <1>7, <1>8 DEF Next, OSAlloc, OSFree

-----------------------------------------------------------------------------
(* What a descriptor says of its heap. *)

\* It counts the memory of the heap, all of which is in the arena.
Counted ==
  /\ \A h \in Heaps : Live(h) => heaps[h].size = Align * Cardinality(Room(h))
  /\ arena.start # 0 => arena.start = arena.lo /\ arena.end = OSRoundDown32B(arena.hi)
  /\ \A h \in Heaps : \A y \in Room(h) : arena.start <= y /\ y < arena.end

LEMMA AreaCounted ==
  ASSUME HeapIInv, Counted, NEW a \in Areas, Spare(a)
  PROVE  /\ IsFiniteSet(Units(a))
         /\ OSRoundDown32B(a.end) - OSRoundUp32B(a.start) = Align * Cardinality(Units(a))
         /\ \A y \in Units(a) : arena.start <= y /\ y < arena.end
<1> DEFINE s == OSRoundUp32B(a.start)
           e == OSRoundDown32B(a.end)
           top == OSRoundDown32B(arena.hi)
<1>1. OneCell(s, e - s, Units(a))
  BY SpareIs
<1>2. /\ arena.start # 0 /\ arena.start = arena.lo /\ arena.end = top /\ arena.lo <= a.start /\ a.end <= arena.hi
      /\ a.start \in Nat /\ a.end \in Nat /\ arena.lo \in Int /\ arena.hi \in Nat
  BY HeapAssumption DEF Counted, Spare, HeapIInv, HeapTypes
<1>3. /\ s \in Nat /\ a.start <= s /\ e \in Nat /\ e % Align = 0 /\ e <= a.end
      /\ top \in Nat /\ top % Align = 0 /\ arena.hi < top + Align
  BY <1>2, RoundUpIs, RoundDownIs, DivIs DEF OSRoundDown32B
<1>4. \A y \in Units(a) : y \in Int /\ s <= y /\ y < e
  BY AddressIs DEF Units
<1> HIDE DEF s, e, top
<1>5. e <= top
  <2> SUFFICES ASSUME top < e PROVE FALSE
    BY <1>3
  <2>1. top + Align <= e
    BY <1>3, MultipleStep
  <2> QED
    BY <1>2, <1>3, <2>1, AlignIs
<1>6. \A y \in Units(a) : arena.start <= y /\ y < arena.end
  BY <1>2, <1>3, <1>4, <1>5
<1>7. /\ s \in Addresses /\ e - s \in Int /\ e - s >= Align /\ s + (e - s) - Align \in Addresses
      /\ Units(a) = {y \in Addresses : s <= y /\ y < s + (e - s)}
  BY <1>1 DEF OneCell
<1>8. IsFiniteSet(Units(a)) /\ Align * Cardinality(Units(a)) = e - s
  <2> DEFINE size == e - s
  <2>1. /\ s \in Addresses /\ size \in Int /\ size >= Align /\ s + size - Align \in Addresses
        /\ Units(a) = {y \in Addresses : s <= y /\ y < s + size}
    BY <1>7
  <2> HIDE DEF size
  <2>2. IsFiniteSet(Units(a)) /\ Align * Cardinality(Units(a)) = size
    BY <2>1, CellUnits
  <2> QED
    BY <2>2 DEF size
<1> QED
  BY <1>6, <1>8 DEF s, e

LEMMA SumCounted ==
  ASSUME NEW R, NEW U, IsFiniteSet(R), IsFiniteSet(U), R \cap U = {}
  PROVE  Align * Cardinality(R \cup U) = Align * Cardinality(R) + Align * Cardinality(U)
<1> DEFINE i == Cardinality(R)
           j == Cardinality(U)
<1>1. i \in Nat /\ j \in Nat
  BY FS_CardinalityType
<1>2. Cardinality(R \cup U) = i + j - Cardinality(R \cap U)
  BY FS_Union
<1>3. Cardinality(R \cap U) = 0
  BY FS_EmptySet
<1> HIDE DEF i, j
<1>4. Cardinality(R \cup U) = i + j
  BY <1>1, <1>2, <1>3
<1>5. Align * (i + j) = Align * i + Align * j
  BY <1>1, HeapAssumption
<1> QED
  BY <1>4, <1>5 DEF i, j

LEMMA RoomFinite == ASSUME NEW h \in Heaps PROVE IsFiniteSet(Room(h))
BY RoomIs, AddressesFinite, FS_Subset

\* Steps that leave the areas, the sizes and the arena.
LEMMA OtherCounted ==
  ASSUME HeapIInv, Counted, areas' = areas, arena' = arena, \A k \in Heaps : heaps'[k].size = heaps[k].size
  PROVE  Counted'
<1>1. \A k \in Heaps : Room(k)' = Room(k) /\ (Live(k)' <=> Live(k))
  BY DEF Room, Live
<1>2. \A k \in Heaps : Live(k)' => heaps'[k].size = Align * Cardinality(Room(k)')
  BY <1>1 DEF Counted
<1>3. \A k \in Heaps : \A y \in Room(k)' : arena'.start <= y /\ y < arena'.end
  BY <1>1 DEF Counted
<1> QED
  BY <1>2, <1>3 DEF Counted

LEMMA StepCounted ==
  ASSUME SizesFit, HeapIInv, [Next]_vars, Counted PROVE Counted'
<1>0. /\ heaps \in [Heaps -> [size : Int, free : Int, allocated : Int]]
      /\ areas \in [Heaps -> SUBSET Areas] /\ arena \in [lo : Int, hi : Int, start : Int, end : Int]
  BY DEF HeapIInv, HeapTypes
<1>1. ASSUME NEW lo \in BootLos, NEW hi \in BootHis, OSInit(lo, hi) PROVE Counted'
  <2>1. arena.start = 0 /\ arena'.start = arena.start /\ areas' = areas
    BY <1>1 DEF OSInit, HeapIInv, HeapTypes
  <2>2. \A h \in Heaps : Room(h)' = {}
    BY <2>1 DEF Room, HeapIInv, AreasOwned
  <2> QED
    BY <2>1, <2>2 DEF Counted, Live
<1>2. CASE OSInitAlloc
  <2>1. \A h \in Heaps : ~Live(h)'
    BY <1>2 DEF OSInitAlloc, Live
  <2>2. \A h \in Heaps : Room(h)' = {}
    BY <1>2 DEF OSInitAlloc, Room, HeapIInv, AreasOwned
  <2>3. arena'.start = arena'.lo /\ arena'.end = OSRoundDown32B(arena'.hi)
    <3> DEFINE lo == OSRoundUp32B(arena.lo + MaxHeaps * DescSize)
               end == OSRoundDown32B(arena.hi)
    <3>1. arena' = [arena EXCEPT !.lo = lo, !.start = lo, !.end = end]
      BY <1>2 DEF OSInitAlloc
    <3> HIDE DEF lo, end
    <3>2. arena'.lo = lo /\ arena'.start = lo /\ arena'.end = end /\ arena'.hi = arena.hi
      BY <1>0, <3>1
    <3> QED
      BY <3>2 DEF end
  <2> QED
    BY <2>1, <2>2, <2>3 DEF Counted
<1>3. ASSUME NEW a \in Areas, OSCreateHeap(a) PROVE Counted'
  <2> DEFINE s == OSRoundUp32B(a.start)
             size == OSRoundDown32B(a.end) - s
             U == Units(a)
  <2>1. PICK h \in Heaps :
          /\ NewHeap(h) /\ areas' = [areas EXCEPT ![h] = {a}]
          /\ heaps' = [heaps EXCEPT ![h] = [size |-> size, free |-> s, allocated |-> Null]]
    BY <1>3 DEF OSCreateHeap
  <2>2. Spare(a) /\ arena' = arena
    BY <1>3 DEF OSCreateHeap
  <2>3. size = Align * Cardinality(U) /\ \A y \in U : arena.start <= y /\ y < arena.end
    BY <2>2, AreaCounted
  <2> HIDE DEF s, size, U
  <2>4. heaps'[h].size = size /\ \A k \in Heaps \ {h} : heaps'[k] = heaps[k]
    BY <1>0, <2>1
  <2>5. Room(h)' = U /\ \A k \in Heaps \ {h} : Room(k)' = Room(k) /\ (Live(k)' <=> Live(k))
    BY <1>0, <2>1, <2>2, <2>4 DEF Room, Live, U
  <2>6. \A k \in Heaps : Live(k)' => heaps'[k].size = Align * Cardinality(Room(k)')
    BY <2>3, <2>4, <2>5 DEF Counted
  <2>7. \A k \in Heaps : \A y \in Room(k)' : arena'.start <= y /\ y < arena'.end
    BY <2>2, <2>3, <2>5 DEF Counted
  <2> QED
    BY <2>2, <2>6, <2>7 DEF Counted
<1>4. ASSUME NEW a \in Areas, NEW h \in Heaps, OSAddToHeap(h, a) PROVE Counted'
  <2> DEFINE s == OSRoundUp32B(a.start)
             size == OSRoundDown32B(a.end) - s
             U == Units(a)
  <2>1. /\ Live(h) /\ Spare(a) /\ areas' = [areas EXCEPT ![h] = @ \cup {a}] /\ arena' = arena
        /\ \E free : heaps' = [heaps EXCEPT ![h].size = @ + size, ![h].free = free]
    BY <1>4 DEF OSAddToHeap
  <2>2. /\ size = Align * Cardinality(U) /\ \A y \in U : arena.start <= y /\ y < arena.end
        /\ IsFiniteSet(U) /\ U \cap Room(h) = {}
    BY <2>1, AreaCounted, SpareIs
  <2> HIDE DEF s, size, U
  <2>3. heaps'[h].size = heaps[h].size + size /\ \A k \in Heaps \ {h} : heaps'[k] = heaps[k]
    BY <1>0, <2>1
  <2>4. Room(h)' = Room(h) \cup U /\ \A k \in Heaps \ {h} : Room(k)' = Room(k) /\ (Live(k)' <=> Live(k))
    BY <1>0, <2>1, <2>3 DEF Room, Live, U
  <2>5. heaps'[h].size = Align * Cardinality(Room(h)')
    <3> DEFINE R == Room(h)
    <3>1. heaps[h].size = Align * Cardinality(R) /\ IsFiniteSet(R) /\ R \cap U = {}
      BY <2>1, <2>2, RoomFinite DEF Counted
    <3> HIDE DEF R
    <3>2. Align * Cardinality(R \cup U) = Align * Cardinality(R) + Align * Cardinality(U)
      BY <2>2, <3>1, SumCounted
    <3>3. Room(h)' = R \cup U
      BY <2>4 DEF R
    <3> QED
      BY <2>2, <2>3, <3>1, <3>2, <3>3
  <2>6. \A k \in Heaps : Live(k)' => heaps'[k].size = Align * Cardinality(Room(k)')
    BY <2>3, <2>4, <2>5 DEF Counted
  <2>7. \A k \in Heaps : \A y \in Room(k)' : arena'.start <= y /\ y < arena'.end
    BY <2>1, <2>2, <2>4 DEF Counted
  <2> QED
    BY <2>1, <2>6, <2>7 DEF Counted
<1>5. ASSUME NEW h \in Heaps, OSDestroyHeap(h) PROVE Counted'
  <2>1. heaps' = [heaps EXCEPT ![h].size = -1] /\ areas' = [areas EXCEPT ![h] = {}] /\ arena' = arena
    BY <1>5 DEF OSDestroyHeap
  <2>2. ~Live(h)' /\ Room(h)' = {}
    BY <1>0, <2>1 DEF Live, Room
  <2>3. \A k \in Heaps \ {h} : heaps'[k] = heaps[k] /\ Room(k)' = Room(k) /\ (Live(k)' <=> Live(k))
    BY <1>0, <2>1 DEF Live, Room
  <2>4. \A k \in Heaps : Live(k)' => heaps'[k].size = Align * Cardinality(Room(k)')
    BY <2>2, <2>3 DEF Counted
  <2>5. \A k \in Heaps : \A y \in Room(k)' : arena'.start <= y /\ y < arena'.end
    BY <2>1, <2>2, <2>3 DEF Counted
  <2> QED
    BY <2>1, <2>4, <2>5 DEF Counted
<1>6. CASE (\E h \in Heaps : OSSetCurrentHeap(h)) \/ UNCHANGED vars
  BY <1>6, OtherCounted DEF OSSetCurrentHeap, vars
<1>7. ASSUME NEW n \in Sizes, NEW h, OSAllocFromHeap(h, n) PROVE Counted'
  <2>1. PICK x, head : Allocates(h, n, x, head)
    BY <1>7, AllocIs
  <2>2. /\ heaps' = [heaps EXCEPT ![h].free = head, ![h].allocated = x]
        /\ areas' = areas /\ arena' = arena
    BY <2>1 DEF Allocates
  <2>3. \A k \in Heaps : heaps'[k].size = heaps[k].size
    BY <1>0, <2>2
  <2> QED
    BY <2>2, <2>3, OtherCounted
<1>8. ASSUME NEW b \in blocks, NEW h, OSFreeToHeap(h, b) PROVE Counted'
  <2>1. /\ \E i, j : heaps' = [heaps EXCEPT ![h].allocated = i, ![h].free = j]
        /\ areas' = areas /\ arena' = arena
    BY <1>8 DEF OSFreeToHeap
  <2>2. \A k \in Heaps : heaps'[k].size = heaps[k].size
    BY <1>0, <2>1
  <2> QED
    BY <2>1, <2>2, OtherCounted
<1> QED
  BY <1>1, <1>2, <1>3, <1>4, <1>5, <1>6, <1>7, <1>8 DEF Next, OSAlloc, OSFree

LEMMA InitWide == Init => GapsWide /\ Counted
<1> SUFFICES ASSUME Init PROVE GapsWide /\ Counted
  OBVIOUS
<1>1. arena.start = 0 /\ \A h \in Heaps : Room(h) = {} /\ ~Live(h)
  BY DEF Init, Room, Live
<1> QED
  BY <1>1 DEF GapsWide, Counted

-----------------------------------------------------------------------------
(* What OSCheckHeap finds. *)

\* A cell is whole units of memory.
LEMMA CellIs ==
  ASSUME cells \in Mem, NEW S \in SUBSET Addresses, NEW R \in SUBSET Addresses, Tiles(cells, S, R),
         NEW x \in S
  PROVE  /\ x \in Addresses /\ x \in R /\ x \in Int /\ cells[x].size \in Int
         /\ cells[x].size % Align = 0 /\ cells[x].size >= Align
         /\ x + cells[x].size - Align \in Addresses
         /\ IsFiniteSet(Extent(x)) /\ Align * Cardinality(Extent(x)) = cells[x].size
<1> DEFINE size == cells[x].size
<1>1. /\ x \in Addresses /\ x \in Int /\ size \in Int /\ size >= Align
      /\ x + size - Align \in Addresses
      /\ Extent(x) = {y \in Addresses : x <= y /\ y < x + size}
      /\ \A y \in Addresses : x <= y /\ y < x + size => y \in R
  BY MemIs, AddressIs DEF Tiles, Extent
<1> HIDE DEF size
<1>2. x \in R
  BY <1>1, AlignIs
<1>3. size % Align = 0
  <2> DEFINE z == x + size - Align
             d == z - x
  <2>1. z \in Int /\ z % Align = 0 /\ x \in Int /\ x % Align = 0 /\ Align % Align = 0 /\ Align \in Int
    BY <1>1, HeapAssumption DEF Addresses
  <2>2. size = d + Align /\ d \in Int
    BY <1>1, <2>1
  <2> HIDE DEF z
  <2>3. (z - x) % Align = 0
    BY <2>1, MultipleIs
  <2> HIDE DEF d
  <2>4. (d + Align) % Align = 0
    <3>1. d % Align = 0
      BY <2>3 DEF d
    <3> QED
      BY <2>1, <2>2, <3>1, MultipleIs
  <2> QED
    BY <2>2, <2>4
<1>4. IsFiniteSet(Extent(x)) /\ Align * Cardinality(Extent(x)) = size
  BY <1>1, CellUnits
<1> QED
  BY <1>1, <1>2, <1>3, <1>4 DEF size

\* Each cell's prev is the cell before it.
LEMMA WalkBack ==
  ASSUME NEW c, NEW S \in SUBSET Addresses, NEW r \in Ranks, NEW head, Chain(c, head, S, r),
         NEW s \in Seq(S), ToSet(s) = S,
         \A i, j \in 1 .. Len(s) : i < j => r[s[i]] < r[s[j]],
         NEW i \in 1 .. Len(s)
  PROVE  c[s[i]].prev = IF i = 1 THEN Null ELSE s[i - 1]
<1> DEFINE x == s[i]
           p == c[x].prev
<1>1. /\ Len(s) \in Nat /\ \A j \in 1 .. Len(s) : s[j] \in S
      /\ \A y \in S : \E j \in 1 .. Len(s) : s[j] = y
  BY WalkLength
<1>2. x \in S /\ \A y \in S : r[y] \in Int
  BY <1>1 DEF Ranks
<1>3. /\ p = Null => \A z \in S : r[x] <= r[z]
      /\ p # Null => p \in S /\ r[p] < r[x] /\ \A z \in S : ~(r[p] < r[z] /\ r[z] < r[x])
  BY <1>2 DEF Chain, Follows
<1>4. /\ \A j \in 1 .. Len(s) : j \in Int /\ 1 <= j /\ j <= Len(s)
      /\ \A j \in Int : 1 <= j /\ j <= Len(s) => j \in 1 .. Len(s)
  BY <1>1
<1> HIDE DEF x, p
<1>5. ASSUME p # Null PROVE \E j \in 1 .. Len(s) : s[j] = p /\ j = i - 1
  <2>1. PICK j \in 1 .. Len(s) : s[j] = p
    BY <1>1, <1>3, <1>5
  <2>2. j < i
    <3>1. i < j => r[x] < r[p]
      BY <2>1 DEF x
    <3>2. i = j => p = x
      BY <2>1 DEF x
    <3>3. r[p] \in Int /\ r[x] \in Int /\ r[p] < r[x]
      BY <1>2, <1>3, <1>5
    <3>4. ~(i < j) /\ i # j
      BY <3>1, <3>2, <3>3
    <3> QED
      BY <1>4, <3>4
  <2>3. ~(j < i - 1)
    <3> SUFFICES ASSUME j < i - 1 PROVE FALSE
      OBVIOUS
    <3>1. i \in Int /\ j \in Int /\ Len(s) \in Int /\ 1 <= j /\ i <= Len(s)
      BY <1>1, <1>4
    <3>2. i - 1 \in 1 .. Len(s) /\ j < i - 1 /\ i - 1 < i
      <4> DEFINE k == i - 1
      <4>1. k \in Int /\ 1 <= k /\ k <= Len(s) /\ j < k /\ k < i
        BY <3>1
      <4> HIDE DEF k
      <4> QED
        BY <1>4, <4>1 DEF k
    <3>3. r[p] < r[s[i - 1]] /\ r[s[i - 1]] < r[x] /\ s[i - 1] \in S
      BY <1>1, <2>1, <3>2 DEF x
    <3> QED
      BY <1>3, <1>5, <3>3
  <2>4. j = i - 1
    BY <1>4, <2>2, <2>3
  <2> QED
    BY <2>1, <2>4
<1>6. CASE i = 1
  <2>1. p = Null
    BY <1>4, <1>5, <1>6
  <2> QED
    BY <1>6, <2>1 DEF p, x
<1>7. CASE i # 1
  <2>1. i - 1 \in 1 .. Len(s) /\ i - 1 < i
    <3> DEFINE k == i - 1
    <3>1. k \in Int /\ 1 <= k /\ k <= Len(s) /\ k < i
      BY <1>1, <1>4, <1>7
    <3> HIDE DEF k
    <3> QED
      BY <1>4, <3>1 DEF k
  <2>2. r[s[i - 1]] < r[x] /\ s[i - 1] \in S
    BY <1>1, <2>1 DEF x
  <2>3. p # Null
    BY <1>2, <1>3, <2>2
  <2> QED
    BY <1>5, <1>7, <2>3 DEF p, x
<1> QED
  BY <1>6, <1>7

\* The free cells F are the gaps, each found by the unit that has none before it.
LEMMA GapsAre ==
  ASSUME cells \in Mem, NEW F \in SUBSET Addresses, NEW H \in SUBSET Addresses,
         NEW R \in SUBSET Addresses, Tiles(cells, F \cup H, R), Apart(cells, F)
  PROVE  LET M == Memory(cells, F)
         IN /\ {x \in M : x - Align \notin M} = F
            /\ M = UNION {Extent(x) : x \in F}
            /\ Wide(M) => \A x \in F : cells[x].size >= 2 * Align
<1> DEFINE M == Memory(cells, F)
<1>1. \A x \in F : /\ x \in Addresses /\ x \in Int /\ x % Align = 0 /\ cells[x].size \in Int
                   /\ cells[x].size % Align = 0 /\ cells[x].size >= Align
  BY CellIs DEF Addresses
<1>2. /\ \A x, y \in F : x < y => x + cells[x].size <= y
      /\ \A x \in F : x + cells[x].size \notin F
  BY DEF Tiles, Apart
<1>3. \A y \in Addresses : y \in M <=> \E f \in F : f <= y /\ y < f + cells[f].size
  BY DEF Memory
<1>4. M \subseteq Addresses /\ \A y \in Addresses : y \in Int /\ y % Align = 0
  BY DEF Memory, Addresses
<1>5. M = UNION {Extent(x) : x \in F}
  BY DEF Memory, Extent
<1> HIDE DEF M
<1>6. Align \in Int /\ Align > 0 /\ Align % Align = 0
  BY HeapAssumption
<1>7. F \subseteq M
  BY <1>1, <1>3, <1>6
<1>8. ASSUME NEW f \in F, f - Align \in M PROVE FALSE
  <2> DEFINE y == f - Align
  <2>1. y \in Addresses /\ y \in Int /\ y % Align = 0
    <3>1. y \in M
      BY <1>8
    <3> HIDE DEF y
    <3> QED
      BY <1>4, <3>1
  <2>2. PICK g \in F : g <= y /\ y < g + cells[g].size
    BY <1>3, <1>8, <2>1
  <2> DEFINE size == cells[g].size
             e == g + size
  <2>3. e \in Int /\ e % Align = 0 /\ y < e
    <3>1. g \in Int /\ g % Align = 0 /\ size \in Int /\ size % Align = 0 /\ y < g + size
      BY <1>1, <2>2
    <3> HIDE DEF size, y
    <3> QED
      BY <3>1, MultipleIs
  <2>4. g < f /\ e <= f
    BY <1>1, <1>2, <1>6, <2>2
  <2>5. e # f
    BY <1>2
  <2>6. f = y + Align
    BY <1>1, <1>6
  <2> HIDE DEF y, e
  <2>7. y + Align <= e
    BY <2>1, <2>3, MultipleStep
  <2> QED
    BY <1>1, <2>3, <2>4, <2>5, <2>6, <2>7
<1>9. ASSUME NEW x \in M, x \notin F PROVE x - Align \in M
  <2>1. PICK f \in F : f <= x /\ x < f + cells[f].size
    BY <1>3, <1>4, <1>9
  <2>2. f < x /\ f \in Addresses /\ x \in Addresses /\ x \in Int /\ f \in Int
    BY <1>1, <1>4, <1>9, <2>1, AddressIs
  <2>3. f + Align <= x /\ x - Align \in Addresses
    BY <2>2, NextAddress
  <2>4. f <= x - Align /\ x - Align < f + cells[f].size
    BY <1>1, <1>6, <2>1, <2>2, <2>3
  <2> QED
    BY <1>3, <2>3, <2>4
<1>10. {x \in M : x - Align \notin M} = F
  BY <1>7, <1>8, <1>9
<1>11. ASSUME Wide(M), NEW f \in F, ~(cells[f].size >= 2 * Align) PROVE FALSE
  <2> DEFINE size == cells[f].size
             y == f + Align
  <2>1. size = Align
    <3>1. Align < size => Align + Align <= size
      BY <1>1, <1>6, MultipleStep
    <3> QED
      BY <1>1, <1>6, <1>11, <3>1
  <2>2. y \in M
    BY <1>7, <1>8, <1>11 DEF Wide
  <2>3. y \in Addresses /\ y \in Int /\ y = f + Align
    BY <1>4, <2>2, AddressIs
  <2> HIDE DEF size, y
  <2>4. PICK g \in F : g <= y /\ y < g + cells[g].size
    BY <1>3, <2>2, <2>3
  <2>5. ~(g < f)
    BY <1>1, <1>2, <1>6, <2>3, <2>4
  <2>6. g # f
    BY <1>1, <2>1, <2>3, <2>4 DEF size
  <2>7. f < g
    BY <1>1, <2>5, <2>6
  <2>8. f + Align <= g
    BY <1>1, <2>7, MultipleStep
  <2>9. g = f + cells[f].size
    BY <1>1, <2>1, <2>3, <2>4, <2>8 DEF size
  <2> QED
    BY <1>2, <2>9
<1> QED
  BY <1>5, <1>10, <1>11 DEF M

\* A list of a heap is as OSCheckHeap wants it.
LEMMA ListIs ==
  ASSUME cells \in Mem, arena.start \in Int, arena.end \in Int,
         NEW A \in SUBSET Addresses, NEW R \in SUBSET Addresses, Tiles(cells, A, R),
         \A y \in R : arena.start <= y /\ y < arena.end,
         NEW S \in SUBSET A, \A x \in S : cells[x].size >= 2 * Align,
         NEW r \in Ranks, NEW head, Chain(cells, head, S, r)
  PROVE  LET s == CellsFrom(cells, head)
             U == UNION {Extent(x) : x \in S}
         IN /\ WellLinked(head) /\ Len(s) = Cardinality(S)
            /\ IsFiniteSet(U) /\ SizeOf(s) = Align * Cardinality(U)
<1> DEFINE s == CellsFrom(cells, head)
           I == 1 .. Len(s)
<1>1. S \in SUBSET Addresses
  OBVIOUS
<1>2. s \in Seq(S) /\ ToSet(s) = S /\ \A i, j \in I : i < j => r[s[i]] < r[s[j]]
  BY <1>1, WalkIs
<1> HIDE DEF s
<1>3. /\ Len(s) \in Nat /\ Len(s) = Cardinality(S)
      /\ \A i, j \in I : s[i] \in S /\ (s[i] = s[j] => i = j)
  BY <1>1, <1>2, WalkLength
<1>4. \A i \in I : cells[s[i]].prev = IF i = 1 THEN Null ELSE s[i - 1]
  BY <1>1, <1>2, WalkBack
<1>5. s \in Seq(Addresses) /\ DOMAIN s = I
  BY <1>1, <1>2, SeqFacts
<1>6. \A x \in S : /\ x \in R /\ x \in Int /\ x % Align = 0 /\ cells[x].size % Align = 0
                   /\ IsFiniteSet(Extent(x)) /\ Align * Cardinality(Extent(x)) = cells[x].size
  BY CellIs DEF Addresses
<1>7. WellLinked(head)
  <2>1. \A x \in S : x \in arena.start .. arena.end - 1
    BY <1>6
  <2>2. \A x \in S : S32(cells[x].size) = cells[x].size
    BY CellFits DEF S32
  <2>3. \A x \in S : S32(cells[x].size) >= 2 * Align
    BY <2>2
  <2> QED
    BY <1>3, <1>4, <1>5, <1>6, <2>1, <2>3 DEF WellLinked, s
<1>8. \A i, j \in I : i < j => Extent(s[i]) \cap Extent(s[j]) = {}
  <2> SUFFICES ASSUME NEW i \in I, NEW j \in I, i < j PROVE Extent(s[i]) \cap Extent(s[j]) = {}
    OBVIOUS
  <2>1. s[i] # s[j] /\ s[i] \in A /\ s[j] \in A
    BY <1>3
  <2> QED
    BY <2>1, CellsDisjoint
<1>9. \A i \in I : /\ IsFiniteSet(Extent(s[i]))
                   /\ Align * Cardinality(Extent(s[i])) = cells[s[i]].size
  BY <1>3, <1>6
<1>10. LET U == UNION {Extent(x) : x \in ToSet(s)}
       IN IsFiniteSet(U) /\ SizeOf(s) = Align * Cardinality(U)
  BY <1>5, <1>8, <1>9, SizeOfIs
<1> QED
  BY <1>2, <1>3, <1>7, <1>10 DEF s

LEMMA LaidExact == HeapIInv /\ GapsWide /\ Counted => CheckHeapExact
<1> SUFFICES ASSUME HeapIInv, GapsWide, Counted, NEW h \in Heaps, Live(h)
             PROVE  LET gaps == {x \in Unheld(h) : x - Align \notin Unheld(h)}
                    IN OSCheckHeap(h) = Align * (Cardinality(Unheld(h)) - Cardinality(gaps))
  BY DEF CheckHeapExact
<1> DEFINE free == heaps[h].free
           allocated == heaps[h].allocated
           H == HeldCells(h)
           R == Room(h)
           U == Unheld(h)
           V == UNION {Extent(x) : x \in H}
           s == CellsFrom(cells, free)
           t == CellsFrom(cells, allocated)
           size == heaps[h].size
<1>1. /\ cells \in Mem /\ H \in SUBSET Addresses /\ R \in SUBSET Addresses
      /\ Laid(cells, free, allocated, H, R)
      /\ arena.start \in Int /\ arena.end \in Int
  BY HeldIs, RoomIs DEF HeapIInv, HeapTypes, AllLaid
<1>2. PICK F \in SUBSET Addresses, r \in Ranks :
        /\ F \cap H = {} /\ Chain(cells, free, F, ByAddress) /\ Chain(cells, allocated, H, r)
        /\ Tiles(cells, F \cup H, R) /\ Apart(cells, F)
  BY <1>1 DEF Laid
<1> DEFINE A == F \cup H
<1>3. U = Memory(cells, F)
  BY <1>2, UnheldIs
<1>4. /\ {x \in U : x - Align \notin U} = F /\ U = UNION {Extent(x) : x \in F}
      /\ \A x \in F : cells[x].size >= 2 * Align
  <2>1. Wide(U)
    BY DEF GapsWide
  <2> HIDE DEF U, H, R
  <2> QED
    BY <1>1, <1>2, <1>3, <2>1, GapsAre
<1>5. \A x \in H : cells[x].size >= 2 * Align
  BY HeldLong
<1>6. /\ \A y \in R : arena.start <= y /\ y < arena.end
      /\ IsFiniteSet(R) /\ size = Align * Cardinality(R)
  BY RoomFinite DEF Counted
<1>7. U = R \ V
  BY DEF Unheld
<1>8. F \in SUBSET A /\ H \in SUBSET A /\ A \in SUBSET Addresses /\ Tiles(cells, A, R)
  BY <1>1, <1>2
<1> HIDE DEF free, allocated, H, R, U, V, A, size
<1>9. /\ WellLinked(free) /\ Len(s) = Cardinality(F)
      /\ IsFiniteSet(U) /\ SizeOf(s) = Align * Cardinality(U)
  <2>1. Chain(cells, free, F, ByAddress) /\ ByAddress \in Ranks
    BY <1>2, ByAddressIs
  <2> QED
    BY <1>1, <1>4, <1>6, <1>8, <2>1, ListIs
<1>10. /\ WellLinked(allocated)
       /\ IsFiniteSet(V) /\ SizeOf(t) = Align * Cardinality(V)
  <2>1. Chain(cells, allocated, H, r)
    BY <1>2
  <2> QED
    BY <1>1, <1>5, <1>6, <1>8, <2>1, ListIs DEF V
<1>11. SizeOf(s) + SizeOf(t) = size
  <2>1. V \subseteq R
    BY <1>8, CellIs, <1>1 DEF V, Tiles, Extent
  <2>2. R = U \cup V /\ U \cap V = {}
    BY <1>7, <2>1
  <2> QED
    BY <1>6, <1>9, <1>10, <2>2, SumCounted
<1>12. s \in Seq(F) /\ \A i, j \in 1 .. Len(s) : i < j => s[i] < s[j]
  <2>1. /\ s \in Seq(F) /\ ToSet(s) = F
        /\ \A i, j \in 1 .. Len(s) : i < j => ByAddress[s[i]] < ByAddress[s[j]]
    <3>1. Chain(cells, free, F, ByAddress)
      BY <1>2
    <3> QED
      BY <3>1, ByAddressIs, WalkIs
  <2> HIDE DEF s
  <2>2. \A i \in 1 .. Len(s) : s[i] \in Addresses
    BY <2>1, SeqFacts
  <2> QED
    BY <2>1, <2>2, ByAddressIs
<1>13. \A i \in 1 .. Len(s) - 1 : s[i] + cells[s[i]].size < s[i + 1]
  <2> HIDE DEF s
  <2> SUFFICES ASSUME NEW i \in 1 .. Len(s) - 1 PROVE s[i] + cells[s[i]].size < s[i + 1]
    OBVIOUS
  <2> DEFINE x == s[i]
             y == s[i + 1]
  <2>1. x \in F /\ y \in F /\ x < y
    <3>1. Len(s) \in Nat /\ \A j \in 1 .. Len(s) : s[j] \in F
      BY <1>12, SeqFacts
    <3>2. i \in 1 .. Len(s) /\ i + 1 \in 1 .. Len(s) /\ i < i + 1
      BY <3>1
    <3> QED
      BY <1>12, <3>1, <3>2
  <2> HIDE DEF x, y
  <2>2. x + cells[x].size <= y /\ x + cells[x].size # y
    BY <1>2, <2>1 DEF Tiles, Apart
  <2>3. x \in Int /\ y \in Int /\ cells[x].size \in Int
    BY <1>1, <2>1, MemIs, AddressIs
  <2> QED
    BY <2>2, <2>3 DEF x, y
<1>14. OSCheckHeap(h) = SizeOf(s) - Align * Len(s)
  BY <1>9, <1>10, <1>11, <1>13 DEF OSCheckHeap, free, allocated, size, s, t
<1> DEFINE i == Cardinality(U)
           j == Cardinality(F)
<1>15. OSCheckHeap(h) = Align * i - Align * j
  BY <1>9, <1>14
<1>16. i \in Nat /\ j \in Nat
  <2>1. IsFiniteSet(F)
    BY AddressesFinite, FS_Subset
  <2> QED
    BY <1>9, <2>1, FS_CardinalityType
<1>17. Cardinality({x \in U : x - Align \notin U}) = j
  BY <1>4
<1> HIDE DEF i, j
<1>18. Align * i - Align * j = Align * (i - j)
  BY <1>16, HeapAssumption
<1> QED
  BY <1>15, <1>17, <1>18 DEF U, i

\* OSCheckHeap finds no fault in a heap and reports the free bytes that the gaps
\* between its blocks have, for any sequence of calls on areas of at least 0x40
\* bytes, which is the least that OSCheckHeap takes for a cell, and for sizes that stay
\* below 2^31 when they are rounded up or are refused.
THEOREM CheckHeapExactAlways ==
  ASSUME AreasWide, SizesFit PROVE Spec => []CheckHeapExact
<1>1. Init => GapsWide /\ Counted
  BY InitWide
<1>2. HeapIInv /\ GapsWide /\ Counted /\ [Next]_vars => (GapsWide /\ Counted)'
  BY StepWide, StepCounted
<1>3. HeapIInv /\ GapsWide /\ Counted => CheckHeapExact
  BY LaidExact
<1> QED
  BY <1>1, <1>2, <1>3, HeapsLaid, PTL DEF Spec
=============================================================================
