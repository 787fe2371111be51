------------------------------ MODULE VmAreaMap ------------------------------
(***************************************************************************)
(* The area map of an address space (vm_area_map.c): a list of areas in    *)
(* address order, and the three ways create_vm_area places a new one.      *)
(* Addresses are unsigned machine words and wrap.  The list is a sequence; *)
(* each loop over it is the first index at which it stops.                 *)
(***************************************************************************)
EXTENDS Integers, Sequences, SequencesExt, FiniteSetsExt

CONSTANTS
    WORD,        \* number of machine words, 2^32 in the code
    PAGE_SIZE,
    Requests     \* for the [low, high] of each map, the [place, address, size]
                 \* its create_vm_area is called with

Word == 0 .. WORD - 1
PAGE_ALIGN(x) == x - (x % PAGE_SIZE)

\* Unsigned addition and subtraction.
Plus(a, b) == (a + b) % WORD
Minus(a, b) == (a - b) % WORD

\* The size create_vm_area reserves.
RoundUp(size) == PAGE_ALIGN(Plus(size, PAGE_SIZE - 1))

Area == [low : Word, high : Word]

ASSUME WordAssumption ==
    /\ {WORD, PAGE_SIZE} \subseteq Nat /\ PAGE_SIZE > 1
    /\ WORD % PAGE_SIZE = 0
\* The limits init_area_map is given are page aligned.
ASSUME MapAssumption ==
    \A m \in DOMAIN Requests :
        /\ m \in Area /\ m.low < m.high
        /\ m.low % PAGE_SIZE = 0 /\ m.high % PAGE_SIZE = PAGE_SIZE - 1
ASSUME RequestsAssumption ==
    \A m \in DOMAIN Requests :
        Requests[m] \subseteq [place : {"exact", "search_down", "search_up"},
                               address : Word, size : Word]

\* What the kernel asks for, and well-behaved programs.  A search is for no more
\* than the map holds, and neither address + size nor address - size wraps;
\* exact placement is at a page boundary.  In a map that ends at the last
\* machine word, as the kernel's does, a search up starts at the bottom
\* (fs.c:80).  The create_area system call passes a program's arguments on
\* without checking any of this (syscall.c:97): nothing is said here of areas
\* created with other arguments.
ASSUME CallersAssumption ==
    \A m \in DOMAIN Requests :
        /\ m.low > 0
        /\ \A r \in Requests[m] :
              /\ r.size > 0 /\ r.size + PAGE_SIZE <= WORD
              /\ r.place = "exact" => r.address % PAGE_SIZE = 0
              /\ r.place # "exact" => RoundUp(r.size) <= m.high - m.low + 1
              /\ r.place = "search_up" =>
                    r.address + RoundUp(r.size) < WORD /\ (m.high < WORD - 1 \/ r.address <= m.low)
              /\ r.place = "search_down" => r.address >= RoundUp(r.size)

VARIABLES
    map,         \* low_address and high_address, fixed by init_area_map
    area_list    \* the areas

areaMapVars == <<map, area_list>>

LOW == map.low
HIGH == map.high

\* init_area_map
AreaMapInit ==
    /\ map \in DOMAIN Requests
    /\ area_list = << >>

-----------------------------------------------------------------------------
alloc_area(low_address, size) ==
    [low |-> low_address, high |-> Minus(Plus(low_address, size), 1)]

\* What a search returns: the list index the new area gets, and the area;
\* index 0 when it returns a null pointer.
Fail == [index |-> 0, area |-> alloc_area(0, 0)]
Insert(i, low_address, size) == [index |-> i, area |-> alloc_area(low_address, size)]

\* "Adjust hole start if necessary", and the same for the end of the hole.
HoleFrom(hole_start, address) == IF hole_start < address THEN address ELSE hole_start
HoleTo(hole_end, address) == IF hole_end > address THEN address ELSE hole_end

search_up(L, addr, size) ==
    LET address == PAGE_ALIGN(IF addr < LOW THEN LOW ELSE addr)
        n == Len(L)
        \* skip the areas below address
        start == Min({n + 1} \cup {i \in 1 .. n : L[i].low >= address})
        after(i) == IF i = 1 THEN LOW ELSE Plus(L[i - 1].high, 1)
        hole_start(i) == IF i = start THEN HoleFrom(after(i), address) ELSE after(i)
        fits == {i \in start .. n : Minus(L[i].low, hole_start(i)) >= size}
    IN  IF Plus(addr, size) > HIGH THEN Fail
        ELSE CASE n = 0 -> Insert(1, address, size)
               [] n # 0 /\ fits # {} -> Insert(Min(fits), hole_start(Min(fits)), size)
               [] n # 0 /\ fits = {} /\ Plus(Minus(HIGH, hole_start(n + 1)), 1) >= size ->
                     Insert(n + 1, hole_start(n + 1), size)
               [] OTHER -> Fail

\* Is there room between an area that ends at high and hole_end?
RoomAbove_rounded(hole_end, high, size) ==                       \* mutant
    Plus(Minus(hole_end, high), PAGE_SIZE) >= size
RoomAbove(hole_end, high, size) == Plus(Minus(hole_end, high), 1) >= size

search_down(L, addr, size) ==
    LET address == Minus(PAGE_ALIGN(Plus(IF addr > HIGH THEN HIGH ELSE addr, 1)), 1)
        n == Len(L)
        \* skip the areas above address
        start == Max({0} \cup {i \in 1 .. n : L[i].high <= address})
        before(i) == IF i = n THEN HIGH ELSE Minus(L[i + 1].low, 1)
        hole_end(i) == IF i = start THEN HoleTo(before(i), address) ELSE before(i)
        fits == {i \in 1 .. start : RoomAbove(hole_end(i), L[i].high, size)}
        low(i) == Plus(Minus(hole_end(i), size), 1)
    IN  IF Minus(addr, size) < LOW THEN Fail
        ELSE CASE n = 0 -> Insert(1, Plus(Minus(address, size), 1), size)
               [] n # 0 /\ fits # {} -> Insert(Max(fits) + 1, low(Max(fits)), size)
               [] n # 0 /\ fits = {} /\ Plus(Minus(hole_end(0), LOW), 1) >= size ->
                     Insert(1, low(0), size)
               [] OTHER -> Fail

\* Does a block that ends at high come before the area that starts at low?
Before_start(address, high, low) == low > address                \* mutant
Before(address, high, low) == low >= high

insert_fixed(L, address, size) ==
    LET n == Len(L)
        high == Minus(Plus(address, size), 1)
        hole_start(i) == IF i = 1 THEN LOW ELSE L[i - 1].high
        \* the loop stops at the first of these, for good or ill
        covered == {i \in 1 .. n : hole_start(i) > address}
        fits == {i \in 1 .. n : hole_start(i) <= address /\ Before(address, high, L[i].low)}
        stop == Min({n + 1} \cup covered \cup fits)
    IN  CASE address < LOW \/ high > HIGH \/ high < address -> Fail
          [] OTHER -> IF stop \notin covered /\ (n = 0 \/ hole_start(stop) <= address)
                      THEN Insert(stop, address, size)
                      ELSE Fail

Place(L, r) ==
    CASE r.place = "exact" -> insert_fixed(L, r.address, RoundUp(r.size))
      [] r.place = "search_down" -> search_down(L, r.address, RoundUp(r.size))
      [] r.place = "search_up" -> search_up(L, r.address, RoundUp(r.size))

create_vm_area(r) ==
    LET new == Place(area_list, r) IN
    /\ new # Fail
    /\ area_list' = InsertAt(area_list, new.index, new.area)
    /\ UNCHANGED map

\* No room: the list is left alone and the caller gets 0.
CreateFails(r) == Place(area_list, r) = Fail /\ UNCHANGED areaMapVars

\* The callers have the map to themselves: they hold the lock of its address
\* space.  (destroy_thread does not when it destroys a kernel stack: it locks
\* the process's space and changes the kernel's map, thread.c:179.)
destroy_vm_area(i) == area_list' = RemoveAt(area_list, i) /\ UNCHANGED map

AreaMapNext ==
    \/ \E r \in Requests[map] : create_vm_area(r) \/ CreateFails(r)
    \/ \E i \in DOMAIN area_list : destroy_vm_area(i)

AreaMapSpec == AreaMapInit /\ [][AreaMapNext]_areaMapVars

\* lookup_area: the first area that holds the address, or 0.
lookup_area(address) ==
    Min({Len(area_list) + 1} \cup
          {i \in DOMAIN area_list : area_list[i].low <= address /\ address <= area_list[i].high})

-----------------------------------------------------------------------------
Addresses(a) == a.low .. a.high
Used(L) == UNION {Addresses(L[i]) : i \in DOMAIN L}

\* Areas are page aligned, lie inside the map, do not overlap and stand in the
\* list in address order, after any calls that meet CallersAssumption: what
\* sanity_check_map asserts of each area, and what lookup_area, the searches and
\* the page tables rely on.
MapWellFormed ==
    /\ \A i \in DOMAIN area_list :
          LET a == area_list[i] IN
          /\ LOW <= a.low /\ a.low < a.high /\ a.high <= HIGH
          /\ a.low % PAGE_SIZE = 0 /\ a.high % PAGE_SIZE = PAGE_SIZE - 1
    /\ \A i, j \in DOMAIN area_list : i < j => area_list[i].high < area_list[j].low

\* The first addresses of the free blocks of size bytes on page boundaries.
Blocks(L, size) ==
    {s \in LOW .. HIGH : /\ s % PAGE_SIZE = 0 /\ s + size - 1 <= HIGH
                         /\ (s .. s + size - 1) \cap Used(L) = {}}

\* search_up is first fit: it takes the lowest free block at or above the page
\* of the address, and fails only when there is none.  (A block that would end
\* at the very top is refused when the address leaves no page to spare.)
SearchUpFirstFit ==
    \A r \in Requests[map] : r.place = "search_up" =>
        LET size == RoundUp(r.size)
            new == Place(area_list, r)
            blocks == {s \in Blocks(area_list, size) : s >= PAGE_ALIGN(r.address)}
        IN  r.address + size <= HIGH =>
                IF blocks = {} THEN new = Fail
                               ELSE new # Fail /\ new.area.low = Min(blocks)

\* search_down takes the highest free block that ends at or below the address,
\* and fails only when there is none.
SearchDownLastFit ==
    \A r \in Requests[map] : r.place = "search_down" =>
        LET size == RoundUp(r.size)
            new == Place(area_list, r)
            blocks == {s \in Blocks(area_list, size) : s + size - 1 <= r.address}
        IN  r.address - size >= LOW =>
                IF blocks = {} THEN new = Fail
                               ELSE new # Fail /\ new.area.low = Max(blocks)

\* insert_fixed succeeds exactly when the block it is asked for is free.
ExactIffFree ==
    \A r \in Requests[map] : r.place = "exact" =>
        (Place(area_list, r) # Fail <=> r.address \in Blocks(area_list, RoundUp(r.size)))

\* Every placement agrees with its reference definition, for every request, in
\* every map that can be reached.
PlacementsCorrect == SearchUpFirstFit /\ SearchDownLastFit /\ ExactIffFree

=============================================================================
