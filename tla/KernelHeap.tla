----------------------------- MODULE KernelHeap -----------------------------
(***************************************************************************)
(* The kernel heap (kernel_heap.c) and the slab allocators on top of it    *)
(* (slab.c).  Free ranges and free objects are linked through their own    *)
(* memory.  The heap only grows: nothing in the kernel calls kfree.  The   *)
(* locks cover each call, and a slab allocator calls kmalloc with its own  *)
(* lock held, so that a call is one step.  Addresses are in words.         *)
(***************************************************************************)
EXTENDS Integers, Sequences, FiniteSets, SequencesExt

CONSTANTS
    Slabs,          \* the slab allocators: name -> object_size
    SLAB_SIZE,      \* PAGE_SIZE in the code
    DirectorySizes, \* what init_file_system asks kmalloc for
    MIN_GROW,       \* 0x10000 in the code
    HEAP_BASE,
    HEAP_SIZE       \* bound: the heap is not asked to grow beyond it

ASSUME HeapAssumption ==
    /\ {SLAB_SIZE, MIN_GROW, HEAP_BASE, HEAP_SIZE} \cup DirectorySizes \subseteq Nat \ {0}
    /\ \A s \in DOMAIN Slabs : Slabs[s] \in 2 .. SLAB_SIZE

VARIABLES
    free_list,        \* addresses of the free ranges, in list order
    size_at,          \* the size field of a range that starts at an address
    wilderness_ptr,
    blocks,           \* what kmalloc has returned: set of [base, size].  It
                      \* comes from a free range or from the wilderness, which
                      \* share nothing with the set: no block is returned twice
    slab,             \* struct slab_allocator: [free, base, offset]
    in_use            \* objects handed out: set of [slab, base]

heapVars == <<free_list, size_at, wilderness_ptr, blocks, slab, in_use>>

HeapEnd == HEAP_BASE + HEAP_SIZE

\* Pages come from vm_allocate_page, which clears them.
HeapInit ==
    /\ free_list = << >>
    /\ size_at = [a \in HEAP_BASE .. HeapEnd |-> 0]
    /\ wilderness_ptr = HEAP_BASE
    /\ blocks = {}
    /\ slab = [s \in DOMAIN Slabs |-> [free |-> << >>, base |-> 0, offset |-> 0]]
    /\ in_use = {}

-----------------------------------------------------------------------------
\* insert_free_range: after the first range that is the last or has r between
\* itself and the next, merged with the range after it and with the one before.
Inserted(list, sizes, r) ==
    LET n == Len(list)
        between == {i \in 1 .. n - 1 : list[i] < r /\ r < list[i + 1]}
        place == IF n = 0 \/ r < list[1] THEN 0 ELSE Min({n} \cup between)
        lower == SubSeq(list, 1, place)
        upper == SubSeq(list, place + 1, n)
        next == upper # << >> /\ r + sizes[r] = Head(upper)
        merged == IF next THEN [sizes EXCEPT ![r] = @ + sizes[Head(upper)]] ELSE sizes
        rest == IF next THEN Tail(upper) ELSE upper
        previous == lower # << >> /\ Last(lower) + merged[Last(lower)] = r
    IN  IF previous
        THEN [list |-> lower \o rest, sizes |-> [merged EXCEPT ![Last(lower)] = @ + merged[r]]]
        ELSE [list |-> lower \o << r >> \o rest, sizes |-> merged]

\* The first range that is big enough.
Fits(size) == {i \in DOMAIN free_list : size_at[free_list[i]] >= size}
Candidate(size) == CHOOSE i \in Fits(size) : \A j \in Fits(size) : i <= j

\* "Lop a slice off the front of this range": the remainder takes the range's
\* place in the list; its size is whatever its memory holds.
Remainder_front(i, size) == free_list[i]                                 \* mutant
Remainder(i, size) == free_list[i] + size

GrowSize(size) == IF 2 * size < MIN_GROW THEN MIN_GROW ELSE 2 * size

\* kmalloc: the block, and the heap after it.
kmalloc(size) ==
    IF Fits(size) # {}
    THEN LET i == Candidate(size) IN
         [block |-> free_list[i], sizes |-> size_at, wilderness |-> wilderness_ptr,
          list |-> IF size_at[free_list[i]] = size THEN RemoveAt(free_list, i)
                   ELSE [free_list EXCEPT ![i] = Remainder(i, size)]]
    ELSE LET range == wilderness_ptr + size
             grown == Inserted(free_list, [size_at EXCEPT ![range] = GrowSize(size) - size], range)
         IN  [block |-> wilderness_ptr, sizes |-> grown.sizes, list |-> grown.list,
              wilderness |-> wilderness_ptr + GrowSize(size)]

HasRoom(size) == Fits(size) # {} \/ wilderness_ptr + GrowSize(size) <= HeapEnd

Allocates(size) ==
    LET r == kmalloc(size) IN
    /\ HasRoom(size)
    /\ free_list' = r.list /\ size_at' = r.sizes /\ wilderness_ptr' = r.wilderness
    /\ blocks' = blocks \cup {[base |-> r.block, size |-> size]}

\* init_file_system reads the directory into a block of its own.
AllocateDirectory(size) == Allocates(size) /\ UNCHANGED <<slab, in_use>>

-----------------------------------------------------------------------------
Hands(s, a) == in_use' = in_use \cup {[slab |-> s, base |-> a]}

Full(s) == slab[s].base = 0 \/ slab[s].offset + Slabs[s] > SLAB_SIZE

slab_alloc(s) ==
    \/ /\ slab[s].free # << >>
       /\ slab' = [slab EXCEPT ![s].free = Tail(@)]
       /\ Hands(s, Head(slab[s].free))
       /\ UNCHANGED <<free_list, size_at, wilderness_ptr, blocks>>
    \/ /\ slab[s].free = << >> /\ Full(s)
       /\ Allocates(SLAB_SIZE)
       /\ slab' = [slab EXCEPT ![s].base = kmalloc(SLAB_SIZE).block, ![s].offset = Slabs[s]]
       /\ Hands(s, kmalloc(SLAB_SIZE).block)
    \/ /\ slab[s].free = << >> /\ ~Full(s)
       /\ slab' = [slab EXCEPT ![s].offset = @ + Slabs[s]]
       /\ Hands(s, slab[s].base + slab[s].offset)
       /\ UNCHANGED <<free_list, size_at, wilderness_ptr, blocks>>

slab_free(o) ==
    /\ in_use' = in_use \ {o}
    /\ slab' = [slab EXCEPT ![o.slab].free = << o.base >> \o @]
    /\ UNCHANGED <<free_list, size_at, wilderness_ptr, blocks>>

HeapNext ==
    \/ \E size \in DirectorySizes : AllocateDirectory(size)
    \/ \E s \in DOMAIN Slabs : slab_alloc(s)
    \/ \E o \in in_use : slab_free(o)

HeapSpec == HeapInit /\ [][HeapNext]_heapVars

-----------------------------------------------------------------------------
Cells(base, size) == base .. base + size - 1
BlockCells(b) == Cells(b.base, b.size)
RangeCells(i) == Cells(free_list[i], size_at[free_list[i]])
ObjectCells(o) == Cells(o.base, Slabs[o.slab])

\* No two objects in use, of one allocator or of two, and no two free ranges
\* and no free range and block share memory, and everything lies in what has
\* been mapped: through any sequence of allocations, frees and growth, across a
\* range that was split and whose size field was never written
\* (kernel_heap.c:67).
AllocationsDisjoint ==
    /\ \A b, d \in blocks : b # d => BlockCells(b) \cap BlockCells(d) = {}
    /\ \A i \in DOMAIN free_list, b \in blocks : RangeCells(i) \cap BlockCells(b) = {}
    /\ \A i, j \in DOMAIN free_list : i # j => RangeCells(i) \cap RangeCells(j) = {}
    /\ \A o, p \in in_use : o # p => ObjectCells(o) \cap ObjectCells(p) = {}
    /\ \A o \in in_use : \E b \in blocks : ObjectCells(o) \subseteq BlockCells(b)
    /\ \A b \in blocks : BlockCells(b) \subseteq HEAP_BASE .. wilderness_ptr - 1
    /\ \A s \in DOMAIN Slabs :
           \A a \in ToSet(slab[s].free) : [slab |-> s, base |-> a] \notin in_use

=============================================================================
