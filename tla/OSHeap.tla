------------------------------- MODULE OSHeap -------------------------------
(***************************************************************************)
(* The arena and the heaps of src/sdk_port/os: OSArena.c, OSInit.c and     *)
(* OSAlloc.c.  A heap descriptor heads two doubly linked lists of cells,   *)
(* the free ones in the order of their addresses and the allocated ones.   *)
(* A cell's header lies in front of the block that the program gets, and   *)
(* the links, sizes and list heads are kept as the code keeps them: as     *)
(* addresses in memory.  Addresses and sizes are words of 32 bits: sums    *)
(* wrap, and OSAllocFromHeap compares sizes as signed numbers.  Calls that *)
(* find nothing to do return without a change and are not steps.           *)
(***************************************************************************)
EXTENDS Integers, Sequences, SequencesExt, FiniteSets, FiniteSetsExt

CONSTANTS
  Half,        \* 2^31: a word runs from 0 to 2 * Half - 1
  MemBase,     \* where memory begins; on a console it is Half
  Align,       \* ALIGNMENT and the length of a cell's header: 32
  DescSize,    \* HEAPDESC_SIZE: 12
  BootLos, BootHis,   \* arena limits a boot loader may leave; 0 for none
  DefaultLo, DefaultHi,
  MaxHeaps,
  Areas,       \* the parts of the arena that the program makes heaps of
  Sizes        \* the sizes it asks for

ASSUME HeapAssumption ==
  /\ Align \in Nat \ {0} /\ DescSize \in Nat \ {0} /\ MaxHeaps \in Nat
  /\ BootLos \cup BootHis \cup {DefaultLo, DefaultHi} \subseteq Nat
  /\ DefaultLo > 0 /\ DefaultHi > 0 /\ IsFiniteSet(BootHis)
  /\ Half \in Nat /\ MemBase \in Nat \ {0}
  /\ Sizes \subseteq 1 .. 2 * Half - 1
  /\ Areas \subseteq [start : Nat, end : Nat]

Heaps == 0 .. MaxHeaps - 1
NoHeap == -1
Null == 0
Unset == -1    \* OSGetArenaLo before OSInit; the size of a heap that is none

U32(x) == x % (2 * Half)
S32(x) == IF x < Half THEN x ELSE x - 2 * Half

OSRoundUp32B(x) == ((x + Align - 1) \div Align) * Align
OSRoundDown32B(x) == (x \div Align) * Align

VARIABLES
  arena,   \* OSGetArenaLo and OSGetArenaHi, and the limits OSInitAlloc recorded
  cells,   \* the headers in memory, by address
  heaps,   \* the descriptors
  curr,    \* __OSCurrHeap
  areas,   \* history: the areas each heap was made of
  blocks   \* history: what the program holds: heap, pointer, size it asked for

vars == <<arena, cells, heaps, curr, areas, blocks>>

Top == Max({DefaultHi} \cup BootHis)
Addresses == {a \in MemBase .. Top : a % Align = 0}

\* Memory is less than half of what a word addresses, and ends before the last unit of it.
ASSUME MemoryAssumption == Top - MemBase + Align < Half /\ Top + Align < 2 * Half

NoCell == [prev |-> Null, next |-> Null, size |-> 0, hd |-> NoHeap]

\* What a program writes into memory that is its own, read as a header.
Data == [prev |-> Align, next |-> Align, size |-> Align, hd |-> NoHeap]
Fill(c, from, to) == [y \in Addresses |-> IF from <= y /\ y < to THEN Data ELSE c[y]]

\* The memory of area a in units of Align, each named by its address.
Units(a) == {x \in Addresses : OSRoundUp32B(a.start) <= x /\ x < OSRoundDown32B(a.end)}

\* The program gives memory to one heap only, and never less than a cell.
ASSUME AreasAssumption ==
  /\ \A a \in Areas : MemBase <= a.start /\ OSRoundUp32B(a.start) < OSRoundDown32B(a.end)
  /\ \A a, b \in Areas : a # b => Units(a) \cap Units(b) = {}

Init ==
  /\ arena = [lo |-> Unset, hi |-> 0, start |-> 0, end |-> 0]
  /\ cells = [y \in Addresses |-> Data]
  /\ heaps = [h \in Heaps |-> [size |-> 0, free |-> Null, allocated |-> Null]]
  /\ curr = NoHeap
  /\ areas = [h \in Heaps |-> {}]
  /\ blocks = {}

-----------------------------------------------------------------------------
(* Lists of cells.  c is the memory, x and list are addresses. *)

\* Memory reads zero where there is none, NULL included, and drops what is stored there.
Load(c, x) == IF x \in Addresses THEN c[x] ELSE NoCell
StorePrev(c, x, v) == IF x \in Addresses THEN [c EXCEPT ![x].prev = v] ELSE c
StoreNext(c, x, v) == IF x \in Addresses THEN [c EXCEPT ![x].next = v] ELSE c
StoreSize(c, x, v) == IF x \in Addresses THEN [c EXCEPT ![x].size = v] ELSE c
StoreHd(c, x, v) == IF x \in Addresses THEN [c EXCEPT ![x].hd = v] ELSE c
Store(c, x, cell) == IF x \in Addresses THEN [c EXCEPT ![x] = cell] ELSE c

\* The cells of the list that begins at x, as far as memory can hold them.
CellsFrom(c, x) ==
  LET walk[n \in Nat] ==
        IF n = 0 THEN <<x>>
        ELSE LET s == walk[n - 1]
                 next == Load(c, s[Len(s)]).next
             IN IF next = Null THEN s ELSE Append(s, next)
  IN IF x = Null THEN <<>> ELSE walk[Cardinality(Addresses)]

DLAddFront(c, list, x) ==
  StorePrev(StorePrev(StoreNext(c, x, list), x, Null), list, x)

DLExtract(c, list, x) ==
  LET p == Load(c, x).prev
      n == Load(c, x).next
  IN [cells |-> StoreNext(StorePrev(c, n, p), p, n), head |-> IF p = Null THEN n ELSE list]

\* Cell x takes in the next cell of its list if that begins where x ends.
Absorb(c, x) ==
  LET n == Load(c, x).next
      m == Load(c, n).next
      size == U32(Load(c, x).size + Load(c, n).size)
  IN IF n = Null \/ U32(x + Load(c, x).size) # n THEN c
     ELSE StorePrev(StoreNext(StoreSize(c, x, size), x, m), m, x)

\* The neighbours of x in the list: the search ends at the first cell not below x.
NextInList(c, list, x) ==
  LET s == CellsFrom(c, list)
      i == SelectInSeq(s, LAMBDA p : x <= p)
  IN IF i = 0 THEN Null ELSE s[i]

PrevInList(c, list, x) ==
  LET s == CellsFrom(c, list)
      i == SelectInSeq(s, LAMBDA p : x <= p)
  IN IF s = <<>> \/ i = 1 THEN Null ELSE IF i = 0 THEN Last(s) ELSE s[i - 1]

Link(c, x, prev, next) ==
  StoreNext(StorePrev(StorePrev(StoreNext(c, x, next), x, prev), next, x), prev, x)

\* Mutant: a cell is merged with the one behind it only.
DLInsertForward(c, list, x) ==
  LET prev == PrevInList(c, list, x)
      linked == Link(c, x, prev, NextInList(c, list, x))
  IN [cells |-> Absorb(linked, x), head |-> IF prev = Null THEN x ELSE list]

\* Insert x in the order of addresses and merge it with its neighbours.
DLInsert(c, list, x) ==
  LET prev == PrevInList(c, list, x)
      merged == Absorb(Link(c, x, prev, NextInList(c, list, x)), x)
  IN [cells |-> IF prev = Null THEN merged ELSE Absorb(merged, prev),
      head |-> IF prev = Null THEN x ELSE list]

-----------------------------------------------------------------------------
(* The operations. *)

\* Heap h is there: the descriptors are laid out and its own is in use.
Live(h) == arena.start # 0 /\ h \in Heaps /\ heaps[h].size >= 0

\* The limits a boot loader left in memory, or the defaults.
OSInit(lo, hi) ==
  /\ arena.lo = Unset
  /\ arena' = [arena EXCEPT !.lo = IF lo # 0 THEN lo ELSE DefaultLo,
                            !.hi = IF hi # 0 THEN hi ELSE DefaultHi]
  /\ UNCHANGED <<cells, heaps, curr, areas, blocks>>

\* Lay out the descriptors; the program gives what is left to OSSetArenaLo.
OSInitAlloc ==
  /\ arena.lo # Unset /\ arena.start = 0
  /\ LET lo == OSRoundUp32B(arena.lo + MaxHeaps * DescSize)
     IN arena' = [arena EXCEPT !.lo = lo, !.start = lo, !.end = OSRoundDown32B(arena.hi)]
  /\ heaps' = [h \in Heaps |-> [size |-> -1, free |-> Null, allocated |-> Null]]
  /\ curr' = NoHeap
  /\ UNCHANGED <<cells, areas, blocks>>

\* Area a is the program's and no heap has it.
Spare(a) ==
  /\ arena.start # 0 /\ arena.lo <= a.start /\ a.end <= arena.hi
  /\ \A h \in Heaps : a \notin areas[h]

\* The descriptor that a new heap gets.
NewHeap(h) == heaps[h].size < 0 /\ \A k \in Heaps : heaps[k].size < 0 => h <= k

OSCreateHeap(a) ==
  /\ Spare(a)
  /\ LET s == OSRoundUp32B(a.start)
         size == OSRoundDown32B(a.end) - s
     IN \E h \in Heaps :
          /\ NewHeap(h)
          /\ heaps' = [heaps EXCEPT ![h] = [size |-> size, free |-> s, allocated |-> Null]]
          /\ cells' = [cells EXCEPT ![s] = [NoCell EXCEPT !.size = size]]
          /\ areas' = [areas EXCEPT ![h] = {a}]
  /\ UNCHANGED <<arena, curr, blocks>>

OSAddToHeap(h, a) ==
  /\ Live(h) /\ Spare(a)
  /\ LET s == OSRoundUp32B(a.start)
         size == OSRoundDown32B(a.end) - s
         list == DLInsert(StoreHd(StoreSize(cells, s, size), s, NoHeap), heaps[h].free, s)
     IN /\ cells' = list.cells
        /\ heaps' = [heaps EXCEPT ![h].size = @ + size, ![h].free = list.head]
  /\ areas' = [areas EXCEPT ![h] = @ \cup {a}]
  /\ UNCHANGED <<arena, curr, blocks>>

\* The descriptor is free again.  What the program held in the heap is gone, and
\* it uses the areas for something else.
OSDestroyHeap(h) ==
  /\ Live(h)
  /\ heaps' = [heaps EXCEPT ![h].size = -1]
  /\ areas' = [areas EXCEPT ![h] = {}]
  /\ blocks' = {b \in blocks : b.heap # h}
  /\ cells' = [y \in Addresses |->
       IF \E a \in areas[h] : y \in Units(a) THEN Data ELSE cells[y]]
  /\ UNCHANGED <<arena, curr>>

OSSetCurrentHeap(h) ==
  /\ arena.start # 0 /\ curr' = h
  /\ UNCHANGED <<arena, cells, heaps, areas, blocks>>

\* Mutant: the header is not counted.
RequiredBare(n) == OSRoundUp32B(n)

\* What a block of n bytes takes with its header; Half or more for the last sizes below Half.
Required(n) == OSRoundUp32B(n + Align)

\* The first free cell of heap h that has r bytes.  The sizes are compared as signed
\* numbers: r of Half or more is negative and any cell has that many.
Fit(h, r) ==
  LET s == CellsFrom(cells, heaps[h].free)
      i == SelectInSeq(s, LAMBDA x : S32(r) <= S32(Load(cells, x).size))
  IN IF i = 0 THEN Null ELSE s[i]

\* What is left of cell x, a word again.  A leftover becomes a free cell; one that is too
\* small stays with the block.
Rest(x, r) == U32(Load(cells, x).size - r)
Splits(rest) == rest >= 2 * Align

\* Cell x keeps r bytes; y behind them takes its place between prev and next.
CutAt(x, y, r) ==
  LET c == Load(cells, x)
      new == [prev |-> c.prev, next |-> c.next, size |-> Rest(x, r), hd |-> NoHeap]
  IN StoreNext(StorePrev(Store(StoreSize(cells, x, r), y, new), c.next, y), c.prev, y)

\* Mutant: the free list still begins with the cell it gave away.
SplitAtKeepsHead(h, x, r) == [cells |-> CutAt(x, U32(x + r), r), head |-> heaps[h].free]

\* Cell x is split, and the free list goes on with what is behind it.
SplitAt(h, x, r) ==
  LET y == U32(x + r)
  IN [cells |-> CutAt(x, y, r),
      head |-> IF Load(cells, x).prev = Null THEN y ELSE heaps[h].free]

\* The program fills the block it gets.
OSAllocFromHeap(h, n) ==
  /\ S32(n) > 0 /\ Live(h)
  /\ LET r == Required(n)
         x == Fit(h, r)
         list == IF Splits(Rest(x, r)) THEN SplitAt(h, x, r)
                 ELSE DLExtract(cells, heaps[h].free, x)
     IN /\ x # Null
        /\ cells' = Fill(StoreHd(DLAddFront(list.cells, heaps[h].allocated, x), x, h),
                         x + Align, x + Load(list.cells, x).size)
        /\ heaps' = [heaps EXCEPT ![h].free = list.head, ![h].allocated = x]
        /\ blocks' = blocks \cup {[heap |-> h, ptr |-> x + Align, size |-> n]}
  /\ UNCHANGED <<arena, curr, areas>>

OSAlloc(n) == OSAllocFromHeap(curr, n)

\* The program frees a block it holds, to the heap it came from.
OSFreeToHeap(h, b) ==
  /\ Live(h) /\ b.heap = h
  /\ LET x == b.ptr - Align
         taken == DLExtract(cells, heaps[h].allocated, x)
         list == DLInsert(StoreHd(taken.cells, x, NoHeap), heaps[h].free, x)
     IN /\ cells' = list.cells
        /\ heaps' = [heaps EXCEPT ![h].allocated = taken.head, ![h].free = list.head]
  /\ blocks' = blocks \ {b}
  /\ UNCHANGED <<arena, curr, areas>>

OSFree(b) == OSFreeToHeap(curr, b)

Next ==
  \/ \E lo \in BootLos, hi \in BootHis : OSInit(lo, hi)
  \/ OSInitAlloc
  \/ \E a \in Areas : OSCreateHeap(a) \/ \E h \in Heaps : OSAddToHeap(h, a)
  \/ \E h \in Heaps : OSDestroyHeap(h) \/ OSSetCurrentHeap(h)
  \/ \E n \in Sizes : OSAlloc(n) \/ \E h \in Heaps : OSAllocFromHeap(h, n)
  \/ \E b \in blocks : OSFree(b) \/ OSFreeToHeap(b.heap, b)

Spec == Init /\ [][Next]_vars

-----------------------------------------------------------------------------
(* OSCheckHeap, the code's own check: -1, or the free bytes of a heap. *)

\* The cells of a list are linked both ways, in the arena, aligned, and not small.
WellLinked(list) ==
  LET s == CellsFrom(cells, list)
  IN \A i \in DOMAIN s :
       /\ s[i] \in arena.start .. arena.end - 1 /\ s[i] % Align = 0
       /\ cells[s[i]].prev = IF i = 1 THEN Null ELSE s[i - 1]
       /\ S32(cells[s[i]].size) >= 2 * Align /\ cells[s[i]].size % Align = 0

\* What the first n cells of a list add up to, and the whole list.
Total(s) == LET total[n \in 0 .. Len(s)] == IF n = 0 THEN 0 ELSE total[n - 1] + cells[s[n]].size
            IN total
SizeOf(s) == Total(s)[Len(s)]

OSCheckHeap(h) ==
  LET free == CellsFrom(cells, heaps[h].free)
      allocated == CellsFrom(cells, heaps[h].allocated)
  IN IF /\ Live(h)
        /\ WellLinked(heaps[h].allocated) /\ WellLinked(heaps[h].free)
        /\ \A i \in 1 .. Len(free) - 1 : free[i] + cells[free[i]].size < free[i + 1]
        /\ SizeOf(free) + SizeOf(allocated) = heaps[h].size
     THEN SizeOf(free) - Align * Len(free) ELSE -1
=============================================================================
