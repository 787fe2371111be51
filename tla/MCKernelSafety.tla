--------------------------- MODULE MCKernelSafety ---------------------------
(***************************************************************************)
(* Safety of the kernel for TLC: the scheduler on two hardware threads,    *)
(* the area maps, the heap with its slabs, the page tables, and demand     *)
(* paging, side by side.  A behaviour is one of one part.                  *)
(*                                                                         *)
(* Every hazard of thread.c needs two hardware threads and two threads.    *)
(* The kernel maps a region that has a table since boot and one that has   *)
(* not.  Two threads fault on a text, a data and a stack page with three   *)
(* frames, reads of the file may fail and the stack may go.                *)
(***************************************************************************)
EXTENDS Scheduler, VmAreaMap, KernelHeap, TranslationMap, PageFault

VARIABLE part

safetyVars == <<part, vars, areaMapVars, heapVars, translationVars, faultVars>>

-----------------------------------------------------------------------------
\* Area maps: 32 machine words and pages of 2, a user map of eight pages, and
\* a kernel map that ends at the last machine word, so that the address after
\* its last area wraps to zero.
Sizes == {1, 2, 3, 5, 7, 12}

\* A program: any address for the searches as long as address + size and
\* address - size do not wrap, page boundaries for exact placement.
UserRequests ==
    {r \in [place : {"search_up"}, address : Word, size : Sizes] :
        r.address + RoundUp(r.size) < WORD}
    \cup {r \in [place : {"search_down"}, address : Word, size : Sizes] :
             r.address >= RoundUp(r.size)}
    \cup [place : {"exact"}, address : {PAGE_ALIGN(x) : x \in Word}, size : Sizes]

\* The kernel: fixed areas at boot, stacks from the top down, the ramdisk
\* from the bottom up.
KernelRequests ==
    [place : {"exact"}, address : {PAGE_ALIGN(x) : x \in Word}, size : {2, 3, 6}]
    \cup [place : {"search_down"}, address : {WORD - 1}, size : {4}]
    \cup [place : {"search_up"}, address : {0}, size : {6}]

UserMap == [low |-> 2, high |-> 17]
KernelMap == [low |-> 16, high |-> 31]
\* The map of the other parts, in which nothing is created.
UnusedMap == [low |-> 2, high |-> 3]
TheRequests == UserMap :> UserRequests @@ KernelMap :> KernelRequests @@ UnusedMap :> {}

\* Two slab allocators: one object to a slab, with a piece left over, and two.
TheSlabs == [thread |-> 3, area |-> 2]

-----------------------------------------------------------------------------
SafetyInit ==
    /\ part \in {"threads", "areas", "heap", "tables", "paging"}
    /\ Init /\ AreaMapInit /\ HeapInit /\ TranslationInit /\ FaultInit
    /\ part # "areas" <=> map = UnusedMap

Scheduling(A) ==
    part = "threads" /\ A /\ UNCHANGED <<part, areaMapVars, heapVars, translationVars, faultVars>>
Placing(A) ==
    part = "areas" /\ A /\ UNCHANGED <<part, vars, heapVars, translationVars, faultVars>>
Allocating(A) ==
    part = "heap" /\ A /\ UNCHANGED <<part, vars, areaMapVars, translationVars, faultVars>>
Translating(A) ==
    part = "tables" /\ A /\ UNCHANGED <<part, vars, areaMapVars, heapVars, faultVars>>
Paging(A) ==
    part = "paging" /\ A /\ UNCHANGED <<part, vars, areaMapVars, heapVars, translationVars>>

SafetyNext ==
    \/ Scheduling(Next) \/ Placing(AreaMapNext) \/ Allocating(HeapNext)
    \/ Translating(TranslationNext) \/ Paging(FaultNext)

SafetySpec == SafetyInit /\ [][SafetyNext]_safetyVars

\* The workers are interchangeable, and so are the translation maps.
Symmetry == Permutations(Workers) \cup Permutations(Maps)

=============================================================================
