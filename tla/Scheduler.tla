------------------------------ MODULE Scheduler ------------------------------
(***************************************************************************)
(* Kernel threads on several hardware threads: software/kernel/thread.c,   *)
(* the idle loops of main.c, and the blocking path of rwlock.c (used here  *)
(* for writing only; RWLock has the whole lock).                           *)
(*                                                                         *)
(* ready_q and dead_q are only touched with thread_q_lock held, so a       *)
(* stretch of code holding it is one action.  What happens before the lock *)
(* is taken or after it is released is an action of its own:               *)
(*   - reschedule() reads current_hw_thread() before it disables           *)
(*     interrupts, so a voluntary caller may be preempted, and moved to    *)
(*     another hardware thread, in between (location "resched");           *)
(*   - wait() gives up the lock's spinlock before it calls reschedule()    *)
(*     (location "sleep");                                                 *)
(*   - thread_exit() releases thread_q_lock, then sets THREAD_DEAD, then   *)
(*     calls reschedule() (locations "exit1", "exit2").                    *)
(* In the last two interrupts are off: only other hardware threads act.    *)
(*                                                                         *)
(* A failed assert, and a step after which memory is no longer what the    *)
(* program thinks (two hardware threads on one stack, a stack freed in     *)
(* use, a switch away from the wrong thread), end the behaviour: machine   *)
(* says which it was.  Nothing is claimed about what follows.              *)
(***************************************************************************)
EXTENDS Naturals, Sequences, FiniteSets, Functions

CONSTANTS
    CPUs,      \* hardware threads; c also names the idle thread of c
    BootCPU,   \* hardware thread 0: its idle thread is the one in kernel_main
    Workers,   \* slots for user threads
    Reaper,    \* the grim_reaper thread
    NoThread

ASSUME BootAssumption == BootCPU \in CPUs /\ IsFiniteSet(CPUs)
ASSUME NamesDistinct ==
    /\ Reaper \notin CPUs /\ Reaper \notin Workers /\ Reaper # NoThread
    /\ CPUs \cap Workers = {} /\ NoThread \notin CPUs \cup Workers

Threads == CPUs \cup Workers \cup {Reaper}

VARIABLES
    cur_thread,   \* cur_thread[c]; NoThread until boot_init_thread
    exec,         \* the thread whose stack hardware thread c runs on
    state,        \* thread.state; "FREE" is a slot the slab has not handed out
    ready_q,
    dead_q,
    pc,           \* where each thread is, see Location
    hwthread,     \* local variable of reschedule()
    victim,       \* local variable th of grim_reaper
    owner,        \* the writer that owns the rwlock, or NoThread
    wait_list,    \* rwlock.writer_wait_list
    machine       \* "running", or why the behaviour ended

vars == <<cur_thread, exec, state, ready_q, dead_q, pc, hwthread, victim,
          owner, wait_list, machine>>

State == {"READY", "RUNNING", "WAITING", "DEAD", "FREE"}

(***************************************************************************)
(* "run"     interrupts enabled, nothing in progress                       *)
(* "resched" in reschedule(), hwthread read, interrupts still enabled      *)
(* "sleep"   in wait(), spinlock released, about to call reschedule()      *)
(* "asleep"  switched out inside wait()                                    *)
(* "exit1"   in thread_exit(), on dead_q, state not yet THREAD_DEAD        *)
(* "exit2"   in thread_exit(), about to call reschedule()                  *)
(* "gone"    switched out inside thread_exit()                             *)
(* "reap", "rlock", "free", "sfree"  the reaper in destroy_thread: before  *)
(*           its asserts, before it locks the address space, holding the   *)
(*           lock, before slab_free                                        *)
(***************************************************************************)
Location == {"run", "resched", "sleep", "asleep", "exit1", "exit2", "gone",
             "reap", "rlock", "free", "sfree"}
InterruptsEnabled == {"run", "resched", "reap", "rlock", "free", "sfree"}

Asserts == {"assert_ready", "assert_next", "assert_wake", "assert_dead",
            "dead_rescheduled"}
Corruptions == {"two_cpus", "stack_freed", "wrong_thread"}

TypeOK ==
    /\ cur_thread \in [CPUs -> Threads \cup {NoThread}]
    /\ exec \in [CPUs -> Threads \cup {NoThread}]
    /\ state \in [Threads -> State]
    /\ ready_q \in Seq(Threads)
    /\ dead_q \in Seq(Threads)
    /\ pc \in [Threads -> Location]
    /\ hwthread \in [Threads -> CPUs]
    /\ victim \in Threads \cup {NoThread}
    /\ owner \in Threads \cup {NoThread}
    /\ wait_list \in Seq(Threads)
    /\ machine \in {"running"} \cup Asserts \cup Corruptions

\* Only hardware thread 0 runs; it is about to call boot_init_thread.
Init ==
    /\ cur_thread = [c \in CPUs |-> NoThread]
    /\ exec = cur_thread
    /\ state = [t \in Threads |-> "FREE"]
    /\ ready_q = <<>> /\ dead_q = <<>>
    /\ pc = [t \in Threads |-> "run"]
    /\ hwthread = [t \in Threads |-> BootCPU]
    /\ victim = NoThread
    /\ owner = NoThread /\ wait_list = <<>>
    /\ machine = "running"

\* Hardware thread c executes thread t, which is at location l.
At(c, t, l) == machine = "running" /\ exec[c] = t /\ t # NoThread /\ pc[t] = l

-----------------------------------------------------------------------------
\* boot_init_thread on hardware thread 0 and then, in any order, on those that
\* kernel_main starts with CR_RESUME_THREAD.
boot_init_thread(c) ==
    /\ machine = "running"
    /\ cur_thread[c] = NoThread
    /\ c = BootCPU \/ cur_thread[BootCPU] # NoThread
    /\ cur_thread' = [cur_thread EXCEPT ![c] = c]
    /\ exec' = [exec EXCEPT ![c] = c]
    /\ state' = [state EXCEPT ![c] = "RUNNING"]
    /\ UNCHANGED <<ready_q, dead_q, pc, hwthread, victim, owner, wait_list, machine>>

\* spawn_thread_internal: kernel_main starts the reaper, anybody a worker.  The
\* state is set before the queue is (thread.c:121, 140); nobody else knows the
\* thread in between, so that the two are one step here.
spawn(c, n) ==
    /\ \E t \in Threads : /\ At(c, t, "run") /\ owner # t
                          /\ n \in Workers \/ (n = Reaper /\ t = BootCPU)
    /\ state[n] = "FREE"
    /\ state' = [state EXCEPT ![n] = "READY"]
    /\ ready_q' = Append(ready_q, n)
    /\ pc' = [pc EXCEPT ![n] = "run"]
    /\ UNCHANGED <<cur_thread, exec, dead_q, hwthread, victim, owner, wait_list, machine>>

-----------------------------------------------------------------------------
\* reschedule(): the ready queue after the old thread was put back.
RequeuedFirst(old) ==                                            \* mutant
    IF state[old] = "RUNNING" THEN <<old>> \o ready_q ELSE ready_q
RequeuedAlways(old) == Append(ready_q, old)                      \* mutant
Requeued(old) ==
    IF state[old] = "RUNNING" THEN Append(ready_q, old) ELSE ready_q

\* A thread that is switched to carries on behind its own context_switch.
LocationAfterWait(t) == IF t = Reaper THEN "free" ELSE "run"
Resumed(t) == IF pc[t] = "asleep" THEN LocationAfterWait(t) ELSE pc[t]

\* What can be wrong with a switch from old to next by hardware thread c.
SwitchOutcome(c, old, next) ==
    IF old # exec[c] THEN "wrong_thread"
    ELSE IF \E d \in CPUs \ {c} : exec[d] = next THEN "two_cpus"
    ELSE IF pc[next] = "gone" THEN "dead_rescheduled"
    ELSE "running"

\* cur_thread[hwthread] = next_thread
KeepCurrent(h, next) == UNCHANGED cur_thread                     \* mutant
SetCurrent(h, next) == cur_thread' = [cur_thread EXCEPT ![h] = next]

\* reschedule() on hardware thread c with local variable hwthread = h; the
\* caller is left at location l.
Reschedule(c, h, l) ==
    LET old == cur_thread[h]
        q == Requeued(old)
        next == Head(q)
    IN  \/ /\ state[old] = "READY"
           /\ machine' = "assert_ready"
           /\ UNCHANGED <<cur_thread, exec, state, ready_q, pc>>
        \/ /\ state[old] # "READY" /\ q = <<>>
           /\ machine' = "assert_next"
           /\ UNCHANGED <<cur_thread, exec, state, ready_q, pc>>
        \/ /\ state[old] # "READY" /\ q # <<>>
           /\ machine' = SwitchOutcome(c, old, next)
           /\ ready_q' = Tail(q)
           /\ state' = [t \in Threads |->
                          IF t = next THEN "RUNNING"
                          ELSE IF t = old /\ state[old] = "RUNNING" THEN "READY"
                          ELSE state[t]]
           /\ SetCurrent(h, next)
           /\ exec' = [exec EXCEPT ![c] = next]
           /\ pc' = [t \in Threads |->
                       IF t = next /\ t # exec[c] THEN Resumed(t)
                       ELSE IF t = exec[c] THEN l
                       ELSE pc[t]]

\* timer_tick: interrupts are off from the trap on, so hwthread is right.  The
\* preempted thread will continue where it was.
timer_tick(c) ==
    \E t \in Threads, l \in InterruptsEnabled :
        /\ At(c, t, l)
        /\ Reschedule(c, c, l)
        /\ UNCHANGED <<dead_q, hwthread, victim, owner, wait_list>>

\* current_hw_thread()
current_hw_thread(c) == c

\* A voluntary reschedule() up to acquire_spinlock_int: idle loops, and the
\* busy wait for a page in soft_fault.
CallReschedule(c) ==
    \E t \in CPUs \cup Workers :
        /\ At(c, t, "run")
        /\ hwthread' = [hwthread EXCEPT ![t] = current_hw_thread(c)]
        /\ pc' = [pc EXCEPT ![t] = "resched"]
        /\ UNCHANGED <<cur_thread, exec, state, ready_q, dead_q, victim, owner,
                       wait_list, machine>>

\* The rest of it, on the hardware thread the caller is on by then.  The
\* local variable dies with the call.
VoluntarySwitch(c) ==
    \E t \in Threads :
        /\ At(c, t, "resched")
        /\ Reschedule(c, hwthread[t], "run")
        /\ hwthread' = [hwthread EXCEPT ![t] = BootCPU]
        /\ UNCHANGED <<dead_q, victim, owner, wait_list>>

-----------------------------------------------------------------------------
\* The threads that take an address space lock; the other idle threads do not.
Lockers == Workers \cup {BootCPU}

\* rwlock_lock_write, up to its return or to the reschedule() in wait().
LockWriteAs(c, t, l, held) ==
    /\ At(c, t, l)
    /\ owner # t
    /\ \/ /\ owner = NoThread
          /\ owner' = t
          /\ pc' = [pc EXCEPT ![t] = held]
          /\ UNCHANGED <<state, wait_list>>
       \/ /\ owner # NoThread
          /\ wait_list' = Append(wait_list, t)
          /\ state' = [state EXCEPT ![t] = "WAITING"]
          /\ pc' = [pc EXCEPT ![t] = "sleep"]
          /\ UNCHANGED owner
    /\ UNCHANGED <<cur_thread, exec, ready_q, dead_q, hwthread, victim, machine>>

rwlock_lock_write(c) == \E t \in Lockers : LockWriteAs(c, t, "run", "run")

\* wait(): the reschedule() of a thread that is on the wait list.
wait(c) ==
    \E t \in Threads :
        /\ At(c, t, "sleep")
        /\ Reschedule(c, c, "asleep")
        /\ UNCHANGED <<dead_q, hwthread, victim, owner, wait_list>>

\* make_thread_ready(th)
make_thread_ready(th) ==
    \/ /\ state[th] = "WAITING"
       /\ state' = [state EXCEPT ![th] = "READY"]
       /\ ready_q' = Append(ready_q, th)
       /\ UNCHANGED machine
    \/ /\ state[th] # "WAITING"
       /\ machine' = "assert_wake"
       /\ UNCHANGED <<state, ready_q>>

\* rwlock_unlock_write: hands the lock to the first waiter.
UnlockWriteDeferred ==                                           \* mutant
    \/ /\ wait_list # <<>>
       /\ owner' = Head(wait_list)
       /\ wait_list' = Tail(wait_list)
       /\ UNCHANGED <<state, ready_q, machine>>
    \/ /\ wait_list = <<>>
       /\ owner' = NoThread
       /\ UNCHANGED <<wait_list, state, ready_q, machine>>
HandOver ==
    \/ /\ wait_list # <<>>
       /\ owner' = Head(wait_list)
       /\ wait_list' = Tail(wait_list)
       /\ make_thread_ready(Head(wait_list))
    \/ /\ wait_list = <<>>
       /\ owner' = NoThread
       /\ UNCHANGED <<wait_list, state, ready_q, machine>>

rwlock_unlock_write(c) ==
    \E t \in Lockers :
        /\ At(c, t, "run") /\ owner = t
        /\ HandOver
        /\ UNCHANGED <<cur_thread, exec, dead_q, pc, hwthread, victim>>

-----------------------------------------------------------------------------
\* thread_exit of a worker, up to the release of thread_q_lock.
ThreadExitQueue(c) ==
    \E t \in Workers :
        /\ At(c, t, "run") /\ owner # t
        /\ dead_q' = Append(dead_q, t)
        /\ pc' = [pc EXCEPT ![t] = "exit1"]
        /\ UNCHANGED <<cur_thread, exec, state, ready_q, hwthread, victim, owner,
                       wait_list, machine>>

\* th->state = THREAD_DEAD
ThreadExitDead(c) ==
    \E t \in Workers :
        /\ At(c, t, "exit1")
        /\ state' = [state EXCEPT ![t] = "DEAD"]
        /\ pc' = [pc EXCEPT ![t] = "exit2"]
        /\ UNCHANGED <<cur_thread, exec, ready_q, dead_q, hwthread, victim, owner,
                       wait_list, machine>>

\* The reschedule() that thread_exit does not return from.
ThreadExitSwitch(c) ==
    \E t \in Workers :
        /\ At(c, t, "exit2")
        /\ Reschedule(c, c, "gone")
        /\ UNCHANGED <<dead_q, hwthread, victim, owner, wait_list>>

\* grim_reaper: take the next dead thread, or call reschedule().
grim_reaper(c) ==
    /\ At(c, Reaper, "run")
    /\ \/ /\ dead_q # <<>>
          /\ victim' = Head(dead_q)
          /\ dead_q' = Tail(dead_q)
          /\ pc' = [pc EXCEPT ![Reaper] = "reap"]
          /\ UNCHANGED hwthread
       \/ /\ dead_q = <<>>
          /\ hwthread' = [hwthread EXCEPT ![Reaper] = current_hw_thread(c)]
          /\ pc' = [pc EXCEPT ![Reaper] = "resched"]
          /\ UNCHANGED <<victim, dead_q>>
    /\ UNCHANGED <<cur_thread, exec, state, ready_q, owner, wait_list, machine>>

\* destroy_thread: its two asserts (the victim is never the reaper itself).
DestroyThreadCheck(c) ==
    /\ At(c, Reaper, "reap")
    /\ machine' = IF state[victim] = "DEAD" THEN "running" ELSE "assert_dead"
    /\ pc' = [pc EXCEPT ![Reaper] = "rlock"]
    /\ UNCHANGED <<cur_thread, exec, state, ready_q, dead_q, hwthread, victim,
                   owner, wait_list>>

\* destroy_area(kernel stack) begins by locking the address space.
DestroyThreadLock(c) == LockWriteAs(c, Reaper, "rlock", "free")

\* destroy_area: the stack's pages go back to the free list and the lock is
\* released.  One step for the user's and the kernel's stack (thread.c:172-179),
\* each of which takes and releases the lock.  Both calls name th->proc->space:
\* for the kernel stack, which is in the kernel's area map, that is the wrong
\* lock.  There is one lock here; VmAreaMap says what is assumed of the map.
DestroyStackArea(c) ==
    /\ At(c, Reaper, "free")
    /\ \/ /\ \E d \in CPUs : exec[d] = victim
          /\ machine' = "stack_freed"
          /\ UNCHANGED <<state, ready_q, owner, wait_list, pc>>
       \/ /\ \A d \in CPUs : exec[d] # victim
          /\ HandOver
          /\ pc' = [pc EXCEPT ![Reaper] = "sfree"]
    /\ UNCHANGED <<cur_thread, exec, dead_q, hwthread, victim>>

\* slab_free(&thread_slab, th)
slab_free_thread(th) == state' = [state EXCEPT ![th] = "FREE"]

DestroyThreadFree(c) ==
    /\ At(c, Reaper, "sfree")
    /\ slab_free_thread(victim)
    /\ victim' = NoThread
    /\ pc' = [pc EXCEPT ![Reaper] = "run"]
    /\ UNCHANGED <<cur_thread, exec, ready_q, dead_q, hwthread, owner, wait_list, machine>>

-----------------------------------------------------------------------------
ReaperStep(c) ==
    \/ grim_reaper(c) \/ DestroyThreadCheck(c) \/ DestroyThreadLock(c)
    \/ DestroyStackArea(c) \/ DestroyThreadFree(c)

Next ==
    \E c \in CPUs :
        \/ boot_init_thread(c) \/ \E n \in Workers \cup {Reaper} : spawn(c, n)
        \/ timer_tick(c) \/ CallReschedule(c) \/ VoluntarySwitch(c)
        \/ rwlock_lock_write(c) \/ wait(c) \/ rwlock_unlock_write(c)
        \/ ThreadExitQueue(c) \/ ThreadExitDead(c) \/ ThreadExitSwitch(c)
        \/ ReaperStep(c)

Spec == Init /\ [][Next]_vars

(***************************************************************************)
(* The timer is periodic and a time slice is long enough for the thread    *)
(* that has it to do something: a thread that keeps getting the processor  *)
(* takes its next step.  A critical section is finite.  No fairness for    *)
(* the steps a thread chooses to take (spawn, lock, exit).                 *)
(***************************************************************************)
Fairness ==
    \A c \in CPUs :
        /\ WF_vars(timer_tick(c))
        /\ WF_vars(wait(c) \/ ThreadExitDead(c) \/ ThreadExitSwitch(c))
        /\ SF_vars(ReaperStep(c))
        /\ SF_vars(spawn(c, Reaper))
        /\ \A t \in Threads : SF_vars(exec[c] = t /\ VoluntarySwitch(c))
        /\ \A t \in Lockers : SF_vars(exec[c] = t /\ rwlock_unlock_write(c))

FairSpec == Spec /\ Fairness

-----------------------------------------------------------------------------
Running == machine = "running"

\* The threads that hardware threads execute, and the one each believes in.
Executing == {exec[c] : c \in CPUs} \ {NoThread}

\* ready_q holds the READY threads, each once: the state field and the queue
\* are updated together by reschedule, make_thread_ready and spawn.
ReadyQueueExact ==
    Running => /\ IsInjective(ready_q)
               /\ Range(ready_q) = {t \in Threads : state[t] = "READY"}

\* A thread runs on one hardware thread at a time, cur_thread says which, and
\* every THREAD_RUNNING thread is running somewhere.
OneProcessorPerThread ==
    Running => /\ exec = cur_thread
               /\ \A c, d \in CPUs : exec[c] = exec[d] /\ exec[c] # NoThread => c = d
               /\ {t \in Threads : state[t] = "RUNNING"} \subseteq Executing

\* No thread is forgotten: a WAITING one is on the wait list, an exiting one
\* is on dead_q or in the reaper's hands, each in one place only; the owner of
\* the lock can always run, so that a waiter waits for somebody who makes
\* progress; reschedule() always finds a thread to run (thread.c:299), although
\* the idle thread of hardware thread 0 takes locks and may sleep; a thread is
\* woken only while it waits (thread.c:393-395), and thread_exit never returns
\* (thread.c:386).
NoThreadLost ==
    /\ TypeOK
    /\ machine \notin {"assert_next", "assert_wake", "dead_rescheduled"}
    /\ Running =>
         /\ IsInjective(wait_list) /\ IsInjective(dead_q)
         /\ Range(wait_list) = {t \in Threads : state[t] = "WAITING"}
         /\ Range(dead_q) \cup ({victim} \ {NoThread})
              = {t \in Threads : state[t] # "FREE" /\ pc[t] \in {"exit1", "exit2", "gone"}}
         /\ victim \notin Range(dead_q)
         /\ owner # NoThread => state[owner] \in {"READY", "RUNNING"}

\* What holds on one hardware thread: no assert of thread.c fails, no stack is
\* shared or freed in use, and reschedule() switches away from its caller.
NeverFails == machine = "running"

\* Everything that waits in the scheduler gets its turn: a READY thread runs, a
\* thread that waits for the lock gets it, and an exited thread is reaped and
\* its slot is free again.
EverythingProceeds ==
    /\ \A t \in Threads : state[t] = "READY" ~> state[t] = "RUNNING"
    /\ \A t \in Threads : t \in Range(wait_list) ~> owner = t
    /\ \A t \in Workers : state[t] = "DEAD" ~> state[t] = "FREE"

-----------------------------------------------------------------------------
\* What the code says and does not keep on several hardware threads.

\* "assert(old_thread->state != THREAD_READY)" (thread.c:290): the thread that
\* calls reschedule() is not on the ready queue.  A thread inside wait() can
\* be woken before it gets there.
CallerNotReady == machine # "assert_ready"
=============================================================================
