----------------------------- MODULE ProcessRefs -----------------------------
(***************************************************************************)
(* Processes and their reference counts (thread.c, syscall.c, main.c): who *)
(* may still use a struct process, and when it is destroyed.               *)
(*                                                                         *)
(* User threads exec programs, spawn threads and exit, on any hardware     *)
(* thread; the grim reaper unlinks a dead thread from its process and then *)
(* drops a reference; the boot thread watches the init process.  The       *)
(* scheduler itself is in module Scheduler: here a thread takes its next   *)
(* step whenever it likes.                                                 *)
(***************************************************************************)
EXTENDS Naturals, Sequences

CONSTANTS
    Procs,        \* process structures
    UserThreads,      \* user threads
    InitProc, InitThread,   \* the program kernel_main starts
    None,
    MaxSpawns,    \* bound on the calls of SYS_spawn_thread
    MayFail       \* may load_program fail?

ASSUME ProcsAssumption ==
    /\ InitProc \in Procs /\ InitThread \in UserThreads
    /\ None \notin Procs \cup UserThreads
    /\ MaxSpawns \in Nat /\ MayFail \in BOOLEAN

VARIABLES
    proc,         \* struct process: state, ref_count, thread_list
    user_thread,  \* struct thread: state, proc; and who it waits to dereference
    dead_q,       \* threads that have exited
    reaper,       \* the thread grim_reaper is destroying
    spawns,       \* how many threads programs have started with SYS_spawn_thread
    power         \* "running", "shutdown", "assert" after a failed assert, or
                  \* "corrupt" after a use of a freed process

procVars == <<proc, user_thread, dead_q, reaper, spawns, power>>

NoProc == [state |-> "free", ref_count |-> 0, thread_list |-> {}]
NoUser == [state |-> "free", proc |-> None, holds |-> None]

ProcTypeOK ==
    /\ proc \in [Procs -> [state : {"free", "live", "leaked"}, ref_count : Nat,
                           thread_list : SUBSET UserThreads]]
    /\ user_thread \in [UserThreads -> [state : {"free", "alive", "dead"},
                               proc : Procs \cup {None}, holds : Procs \cup {None}]]
    /\ dead_q \in Seq(UserThreads)
    /\ reaper \in UserThreads \cup {None}
    /\ spawns \in 0 .. MaxSpawns
    /\ power \in {"running", "shutdown", "assert", "corrupt"}

NewProc(t) == [state |-> "live", ref_count |-> 2, thread_list |-> {t}]
NewThread(p) == [state |-> "alive", proc |-> p, holds |-> None]

\* kernel_main has started the init process and keeps the pointer it got.
ProcInit ==
    /\ proc = [p \in Procs |-> IF p = InitProc THEN NewProc(InitThread) ELSE NoProc]
    /\ user_thread = [t \in UserThreads |-> IF t = InitThread THEN NewThread(InitProc) ELSE NoUser]
    /\ dead_q = << >>
    /\ reaper = None
    /\ spawns = 0
    /\ power = "running"

-----------------------------------------------------------------------------
\* Thread t runs user code and can make a system call.
InUser(t) == /\ power = "running"
             /\ user_thread[t].state = "alive" /\ user_thread[t].holds = None

\* SYS_exec, up to the return of exec_program: the new process has one thread,
\* and t holds the pointer.
exec_program(t) ==
    \E p \in Procs, u \in UserThreads :
        /\ InUser(t)
        /\ proc[p].state = "free" /\ user_thread[u].state = "free"
        /\ proc' = [proc EXCEPT ![p] = NewProc(u)]
        /\ user_thread' = [user_thread EXCEPT ![u] = NewThread(p), ![t].holds = p]
        /\ UNCHANGED <<dead_q, reaper, spawns, power>>

\* load_program fails: "XXX cleanup".  The process stays on process_list.
ExecFails(t) ==
    \E p \in Procs :
        /\ InUser(t) /\ MayFail
        /\ proc[p].state = "free"
        /\ proc' = [proc EXCEPT ![p] = [state |-> "leaked", ref_count |-> 2,
                                        thread_list |-> {}]]
        /\ UNCHANGED <<user_thread, dead_q, reaper, spawns, power>>

\* dec_proc_ref(p) as the last thing that happens to the other variables th, rp.
dec_proc_ref_early(p, th, rp) ==                                 \* mutant
    /\ proc' = [proc EXCEPT ![p] = IF proc[p].ref_count = 2 THEN NoProc ELSE @]
    /\ UNCHANGED power
    /\ user_thread' = th /\ reaper' = rp /\ UNCHANGED <<dead_q, spawns>>
dec_proc_ref_never(p, th, rp) ==                                 \* mutant
    /\ proc' = [proc EXCEPT ![p].ref_count = IF @ = 1 THEN 1 ELSE @ - 1]
    /\ UNCHANGED power
    /\ user_thread' = th /\ reaper' = rp /\ UNCHANGED <<dead_q, spawns>>
dec_proc_ref(p, th, rp) ==
    /\ \/ /\ proc[p].state = "live" /\ proc[p].ref_count > 1
          /\ proc' = [proc EXCEPT ![p].ref_count = @ - 1]
          /\ UNCHANGED power
       \/ /\ proc[p].state = "live" /\ proc[p].ref_count = 1
          /\ proc[p].thread_list = {}
          /\ proc' = [proc EXCEPT ![p] = NoProc]
          /\ UNCHANGED power
       \/ /\ proc[p].state = "live" /\ proc[p].ref_count = 1
          /\ proc[p].thread_list # {}
          /\ power' = "assert"
          /\ UNCHANGED proc
       \/ /\ proc[p].state = "free"
          /\ power' = "corrupt"
          /\ UNCHANGED proc
    /\ user_thread' = th /\ reaper' = rp /\ UNCHANGED <<dead_q, spawns>>

\* SYS_exec, the rest: drop the reference of the returned pointer.
ExecReturns(t) ==
    /\ power = "running"
    /\ user_thread[t].holds # None
    /\ dec_proc_ref(user_thread[t].holds, [user_thread EXCEPT ![t].holds = None], reaper)

\* SYS_spawn_thread: spawn_thread_internal in the caller's process.
spawn_user_thread(t) ==
    \E u \in UserThreads :
        LET p == user_thread[t].proc IN
        /\ InUser(t)
        /\ spawns < MaxSpawns /\ spawns' = spawns + 1
        /\ user_thread[u].state = "free"
        /\ proc' = [proc EXCEPT ![p].thread_list = @ \cup {u}]
        /\ user_thread' = [user_thread EXCEPT ![u] = NewThread(p)]
        /\ UNCHANGED <<dead_q, reaper, power>>

\* SYS_thread_exit, or a fault that nobody handles.
thread_exit(t) ==
    /\ InUser(t)
    /\ user_thread' = [user_thread EXCEPT ![t].state = "dead"]
    /\ dead_q' = Append(dead_q, t)
    /\ UNCHANGED <<proc, reaper, spawns, power>>

\* grim_reaper takes a dead thread, and destroy_thread takes it off its
\* process's list.
ReapUnlink ==
    /\ power = "running"
    /\ reaper = None /\ dead_q # << >>
    /\ reaper' = Head(dead_q)
    /\ dead_q' = Tail(dead_q)
    /\ proc' = [proc EXCEPT ![user_thread[Head(dead_q)].proc].thread_list = @ \ {Head(dead_q)}]
    /\ UNCHANGED <<user_thread, spawns, power>>

\* The rest of destroy_thread: free its stacks and the thread, then drop a
\* reference to the process.
ReapFree ==
    /\ power = "running"
    /\ reaper # None
    /\ dec_proc_ref(user_thread[reaper].proc, [user_thread EXCEPT ![reaper] = NoUser], None)

\* kernel_main's loop: shut down when the init process has no threads left.
Shutdown ==
    /\ power = "running"
    /\ proc[InitProc].state = "live" /\ proc[InitProc].thread_list = {}
    /\ power' = "shutdown"
    /\ UNCHANGED <<proc, user_thread, dead_q, reaper, spawns>>

\* The same loop when the init process has been freed.
WatchFreed ==
    /\ power = "running"
    /\ proc[InitProc].state = "free"
    /\ power' = "corrupt"
    /\ UNCHANGED <<proc, user_thread, dead_q, reaper, spawns>>

ProcNext ==
    \/ \E t \in UserThreads : \/ exec_program(t) \/ ExecFails(t) \/ ExecReturns(t)
                          \/ spawn_user_thread(t) \/ thread_exit(t)
    \/ ReapUnlink \/ ReapFree
    \/ Shutdown
    \/ WatchFreed

ProcSpec == ProcInit /\ [][ProcNext]_procVars

\* Threads inside the kernel, the reaper and the boot thread keep being
\* scheduled; a program need not make any call.
ProcFairness ==
    /\ \A t \in UserThreads : WF_procVars(ExecReturns(t))
    /\ WF_procVars(ReapUnlink) /\ WF_procVars(ReapFree)
    /\ WF_procVars(Shutdown)
FairProcSpec == ProcSpec /\ ProcFairness

-----------------------------------------------------------------------------
\* Everyone who still has a pointer to p and will use it.
Users(p) ==
    {t \in UserThreads : user_thread[t].proc = p} \cup {t \in UserThreads : user_thread[t].holds = p}

\* As long as every program has one thread, a process structure, and with it
\* the address space, is there while its thread runs or waits to be reaped or
\* a parent holds the pointer exec_program returned, and the boot thread
\* always finds the init process: whatever the order of the new process's
\* exit, its reaping and its parent's dec_proc_ref.  No assert fails.
ProcOutlivesUsers ==
    /\ ProcTypeOK
    /\ spawns = 0 =>
        /\ \A p \in Procs : Users(p) # {} => proc[p].state = "live"
        /\ proc[InitProc].state = "live"
        /\ power \notin {"assert", "corrupt"}

\* A process whose thread has exited is freed, or the machine is shut down.
ProcReclaimed ==
    \A p \in Procs :
        proc[p].state = "live"
          /\ (\A t \in Users(p) : user_thread[t].state = "dead" \/ user_thread[t].holds = p)
            ~> proc[p].state = "free" \/ power = "shutdown" \/ spawns # 0

\* The machine shuts down once the thread of the init process has exited ...
ShutsDown ==
    (\A t \in Users(InitProc) : user_thread[t].state = "dead")
        ~> power = "shutdown" \/ spawns # 0

\* ... and not while the init process has a thread that runs, also when it has
\* several.
NoEarlyShutdown ==
    [][power' = "shutdown" =>
          \A t \in UserThreads :
              user_thread[t].proc = InitProc => user_thread[t].state = "dead"]_procVars

\* What destroy_thread, dec_proc_ref, SYS_exec and the loop of kernel_main
\* bring about, in whatever order they happen: processes whose thread has
\* exited are freed, and the machine shuts down when, and not before, the init
\* program has ended.
ProcessesEnd == ProcReclaimed /\ ShutsDown /\ NoEarlyShutdown

\* The assert in dec_proc_ref, "assert(list_is_empty(&proc->thread_list))",
\* whatever the programs do.
ThreadListEmptyAtEnd == power # "assert"

=============================================================================
