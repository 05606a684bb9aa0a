---------------------------- MODULE OSHeapProps ----------------------------
(* What the heaps of OSHeap promise to the program that uses them. *)
EXTENDS OSHeap, FiniteSets

\* The memory of heap h.
Room(h) == UNION {Units(a) : a \in areas[h]}
Extent(x) == {y \in Addresses : x <= y /\ y < x + cells[x].size}

HeldCells(h) == {b.ptr - Align : b \in {b \in blocks : b.heap = h}}
Unheld(h) == Room(h) \ UNION {Extent(x) : x \in HeldCells(h)}

DLLookup(list, x) == IF x \in ToSet(CellsFrom(cells, list)) THEN x ELSE Null

\* The cells of a heap divide its memory among themselves: those on the allocated
\* list are exactly those of the blocks the program holds, each no smaller than it
\* asked for and by less than a small cell larger, and no unit of memory is lost
\* or is in two cells, whatever sequence of calls split and merged them.
Partitioned ==
  \A h \in Heaps : Live(h) =>
    LET free == ToSet(CellsFrom(cells, heaps[h].free))
        all == free \cup HeldCells(h)
    IN /\ Len(CellsFrom(cells, heaps[h].allocated)) = Cardinality(HeldCells(h))
       /\ \A x \in HeldCells(h) : DLLookup(heaps[h].allocated, x) = x
       /\ \A b \in blocks : b.heap = h =>
            cells[b.ptr - Align].size - Required(b.size) \in 0 .. 2 * Align - 1
       /\ UNION {Extent(x) : x \in all} = Room(h)
       /\ \A x, y \in all : x # y => Extent(x) \cap Extent(y) = {}

\* OSCheckHeap finds no fault in a heap that is used as it should be, and the free
\* bytes it reports are those of the gaps between the blocks, a header less for
\* each gap: so every gap is a single free cell, and a call of OSAlloc returns NULL
\* only when no gap is long enough.
CheckHeapExact ==
  \A h \in Heaps : Live(h) =>
    LET gaps == {x \in Unheld(h) : x - Align \notin Unheld(h)}
    IN OSCheckHeap(h) = Align * (Cardinality(Unheld(h)) - Cardinality(gaps))

\* No call writes a header or a link into the bytes that the program asked for and
\* still holds.
BlocksUntouched ==
  [][\A b \in blocks \cap blocks', y \in Addresses :
       b.ptr <= y /\ y < b.ptr + b.size => cells'[y] = cells[y]]_vars

\* The program is given no more memory than there is: "if (!new_cell) return 0;", the
\* oracle says where what is left of a cell would begin outside memory
\* (tests/sdk/os/os_alloc/property/osalloc_oracle_offsets.h:305).  The code does not look.
BlocksInMemory == \A b \in blocks : b.ptr + b.size <= Top
=============================================================================
