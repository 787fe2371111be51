----------------------------- MODULE MCL1Cache -----------------------------
(***************************************************************************)
(* The L1 data cache for TLC, with two programs.  A behaviour is one of    *)
(* one program.  In the first, two lines compete for one way, a thread and *)
(* another core store to one of them, and a second thread loads and        *)
(* invalidates it.  In the second, each thread and another core update one *)
(* lane with synchronized accesses that may miss the TLB, in a cache of    *)
(* two ways, and loads of a second line evict the first.                   *)
(***************************************************************************)
EXTENDS L1Cache, TLC

CONSTANTS t1, t2, x, y, l1, l2, SyncWays

VARIABLE program

I(op, line, lanes) == [op |-> op, line |-> line, lanes |-> lanes]
At(lane, v) == [l \in Lanes |-> IF l = lane THEN v ELSE None]

DataProgram ==
    (t1 :> {I("load", x, NoLanes), I("load", y, NoLanes), I("store", x, At(l1, 1)),
            I("store", x, At(l2, 1)), I("membar", None, NoLanes)}) @@
    (t2 :> {I("load", x, NoLanes), I("dinvalidate", x, NoLanes)})
TheForeign == {[line |-> x, lanes |-> At(l1, 0)]}

SyncProgram ==
    (t1 :> {I("load_sync", x, NoLanes), I("store_sync", x, At(l1, 1)),
            I("store", x, At(l1, 1)), I("load", y, NoLanes)}) @@
    (t2 :> {I("load_sync", x, NoLanes), I("store_sync", x, At(l1, 1))})

S == INSTANCE L1Cache WITH
    Ways <- SyncWays, Program <- SyncProgram, MissOps <- {"load_sync"}

-----------------------------------------------------------------------------
ProgramsInit ==
    \/ program = "data" /\ Init
    \/ program = "sync" /\ S!Init
ProgramsNext ==
    /\ \/ program = "data" /\ Next
       \/ program = "sync" /\ S!Next
    /\ UNCHANGED program
\* The invariants of L1Cache speak of neither Program, MissOps nor Ways: they
\* are checked for both programs.
ProgramsSpec == ProgramsInit /\ [][ProgramsNext]_<<program, vars>>

WaySymmetry == Permutations(SyncWays)

=============================================================================
