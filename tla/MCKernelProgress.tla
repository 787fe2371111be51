-------------------------- MODULE MCKernelProgress --------------------------
(***************************************************************************)
(* What must eventually happen in the kernel, for TLC: the reader/writer   *)
(* lock, processes, and demand paging, side by side.  A behaviour is one   *)
(* of one part.                                                            *)
(*                                                                         *)
(* Five threads use the lock: readers and a writer are inside, or woken,   *)
(* while more readers and writers queue.  Three process structures and     *)
(* four user threads: a program, its child and a grandchild, or two        *)
(* children at a time, one of them with a second thread.  Three threads    *)
(* fault on read-only and anonymous pages, and the stack may go.           *)
(***************************************************************************)
EXTENDS RWLock, ProcessRefs

CONSTANTS FaultThreads, Pages, NoPage

VARIABLES part, slot_page, page, free, pte, live_areas, fault_thread, fault_machine

F == INSTANCE PageFault WITH
    Areas <- {"text", "stack"}, IOErrors <- FALSE, StackDies <- TRUE, thread <- fault_thread

pagingVars == <<slot_page, page, free, pte, live_areas, fault_thread, fault_machine>>
progressVars == <<part, vars, procVars, pagingVars>>

ProgressInit == part \in {"lock", "processes", "paging"} /\ Init /\ ProcInit /\ F!FaultInit

Locking(A) == part = "lock" /\ A /\ UNCHANGED <<part, procVars, pagingVars>>
Processing(A) == part = "processes" /\ A /\ UNCHANGED <<part, vars, pagingVars>>
Paging(A) == part = "paging" /\ A /\ UNCHANGED <<part, vars, procVars>>

ProgressNext == Locking(Next) \/ Processing(ProcNext) \/ Paging(F!FaultNext)

\* Fairness, ProcFairness and FaultFairness, of the part that runs.
ProgressFairness ==
    /\ \A t \in Threads :
         /\ WF_progressVars(Locking(ReadResume(t))) /\ WF_progressVars(Locking(WriteResume(t)))
         /\ WF_progressVars(Locking(UnlockRead(t))) /\ WF_progressVars(Locking(UnlockWrite(t)))
    /\ \A t \in UserThreads : WF_progressVars(Processing(ExecReturns(t)))
    /\ WF_progressVars(Processing(ReapUnlink)) /\ WF_progressVars(Processing(ReapFree))
    /\ WF_progressVars(Processing(Shutdown))
    /\ \A t \in FaultThreads :
         WF_progressVars(Paging(F!ReadDone(t))) /\ WF_progressVars(Paging(F!MapPage(t)))

ProgressSpec == ProgressInit /\ [][ProgressNext]_progressVars /\ ProgressFairness

\* Every fault on a read-only or an anonymous page comes to an end: the busy
\* loop of soft_fault is left.
FaultsComplete == F!FaultCompletes

=============================================================================
