---------------------------- MODULE ParallelJobs ----------------------------
(***************************************************************************)
(* Batches of parallel jobs (libos/bare-metal/schedule.c, and the same     *)
(* code in libos/kernel/schedule.c).  The main thread starts a batch with  *)
(* parallel_execute and takes part in it; the workers spin until there is  *)
(* one.  Every access to a volatile variable another thread can see the    *)
(* effect of is a step.  What a job does is left to the user of this       *)
(* module, between "run" and JobReturns.                                   *)
(***************************************************************************)
EXTENDS Integers, FiniteSets

CONSTANTS
    Main,
    Workers,
    MAX_INDEX       \* no batch is larger

ASSUME JobThreadsAssumption ==
    Main \notin Workers /\ IsFiniteSet(Workers) /\ MAX_INDEX \in Nat

JobThreads == Workers \cup {Main}

VARIABLES
    current_func,   \* current_func and context
    current_index,
    max_index,
    active_jobs,
    at,             \* where each thread is
    this_index,     \* its local variable in dispatch_job, and its argument
    num_elements,   \* parallel_execute's argument
    ran,            \* how often each index of this batch was run
    overrun         \* between the two stores of a batch that is smaller than
                    \* the one before it, a worker passed the check against
                    \* max_index with an index the batch has not

jobVars == <<current_func, current_index, max_index, active_jobs, at, this_index,
             num_elements, ran, overrun>>

JobsInit ==
    /\ current_func = "none"
    /\ current_index = 0
    /\ max_index = 0
    /\ active_jobs = 0
    /\ at = [t \in JobThreads |-> IF t = Main THEN "idle" ELSE "spin"]
    /\ this_index = [t \in JobThreads |-> 0]
    /\ num_elements = 0
    /\ ran = [i \in 0 .. MAX_INDEX |-> 0]
    /\ overrun = FALSE

Goto(t, from, to) == at[t] = from /\ at' = [at EXCEPT ![t] = to]

-----------------------------------------------------------------------------
\* The stores of current_func, context and current_index.  The workers read
\* the first two only after they took an index, so the three are one step;
\* max_index, which they compare with, is stored in the next one.
parallel_execute(func, n) ==
    /\ Goto(Main, "idle", "store")
    /\ current_func' = func
    /\ current_index' = 0
    /\ num_elements' = n
    /\ ran' = [i \in 0 .. MAX_INDEX |-> 0]
    /\ UNCHANGED <<max_index, active_jobs, this_index, overrun>>

StoreMax ==
    /\ Goto(Main, "store", "loop")
    /\ max_index' = num_elements
    /\ UNCHANGED <<current_func, current_index, active_jobs, this_index, num_elements,
                   ran, overrun>>

\* while (current_index != max_index) dispatch_job();
MainLoop ==
    /\ Goto(Main, "loop", IF current_index # max_index THEN "read" ELSE "wait")
    /\ UNCHANGED <<current_func, current_index, max_index, active_jobs, this_index,
                   num_elements, ran, overrun>>

\* while (active_jobs);
JobsDone_unwaited == TRUE                                                \* mutant
JobsDone == active_jobs = 0

MainReturns ==
    /\ JobsDone
    /\ Goto(Main, "wait", "idle")
    /\ UNCHANGED <<current_func, current_index, max_index, active_jobs, this_index,
                   num_elements, ran, overrun>>

\* worker_thread: the spin loop ends, and the two updates of active_jobs.
WorkerSees(t) ==
    /\ current_index # max_index
    /\ Goto(t, "spin", "enter")
    /\ UNCHANGED <<current_func, current_index, max_index, active_jobs, this_index,
                   num_elements, ran, overrun>>

WorkerEnters(t) ==
    /\ Goto(t, "enter", "read")
    /\ active_jobs' = active_jobs + 1
    /\ UNCHANGED <<current_func, current_index, max_index, this_index, num_elements,
                   ran, overrun>>

WorkerLeaves(t) ==
    /\ Goto(t, "leave", "spin")
    /\ active_jobs' = active_jobs - 1
    /\ UNCHANGED <<current_func, current_index, max_index, this_index, num_elements,
                   ran, overrun>>

\* dispatch_job: read current_index, compare with max_index, compare and swap.
Returned(t) == IF t = Main THEN "loop" ELSE "leave"

ReadCurrent(t) ==
    /\ Goto(t, "read", "compare")
    /\ this_index' = [this_index EXCEPT ![t] = current_index]
    /\ UNCHANGED <<current_func, current_index, max_index, active_jobs, num_elements,
                   ran, overrun>>

CompareMax(t) ==
    LET passes == this_index[t] # max_index IN
    /\ Goto(t, "compare", IF passes THEN "take" ELSE Returned(t))
    /\ overrun' = (overrun \/ (passes /\ at[Main] = "store" /\ this_index[t] >= num_elements))
    /\ UNCHANGED <<current_func, current_index, max_index, active_jobs, this_index,
                   num_elements, ran>>

\* The swap fails when another thread took the index in between.
Taken_blind(t) == TRUE                                                   \* mutant
Taken(t) == current_index = this_index[t]

TakeIndex(t) ==
    /\ Goto(t, "take", IF Taken(t) THEN "run" ELSE "read")
    /\ IF Taken(t)
       THEN /\ current_index' = this_index[t] + 1
            /\ ran' = [ran EXCEPT ![this_index[t]] = @ + 1]
       ELSE UNCHANGED <<current_index, ran>>
    /\ UNCHANGED <<current_func, max_index, active_jobs, this_index, num_elements, overrun>>

\* current_func returns; "body" is inside a job that takes several steps.
JobReturns(t) ==
    /\ at[t] \in {"run", "body"}
    /\ at' = [at EXCEPT ![t] = Returned(t)]
    /\ UNCHANGED <<current_func, current_index, max_index, active_jobs, this_index,
                   num_elements, ran, overrun>>

DispatchStep(t) == ReadCurrent(t) \/ CompareMax(t) \/ TakeIndex(t)

JobsStep(t) ==
    \/ DispatchStep(t)
    \/ t = Main /\ (StoreMax \/ MainLoop \/ MainReturns)
    \/ t # Main /\ (WorkerSees(t) \/ WorkerEnters(t) \/ WorkerLeaves(t))

-----------------------------------------------------------------------------
\* A program that runs batches of every size, one after the other.  Once a
\* worker has taken an index past the end of its batch the indices never reach
\* max_index again, short of wrapping: MAX_INDEX bounds them too.
JobsNext ==
    /\ current_index <= MAX_INDEX
    /\ \/ \E n \in 0 .. MAX_INDEX : parallel_execute("job", n)
       \/ \E t \in JobThreads : JobsStep(t) \/ JobReturns(t)

JobsSpec == JobsInit /\ [][JobsNext]_jobVars

-----------------------------------------------------------------------------
\* Until a worker compares its index with the max_index of a larger batch
\* before (overrun): when the main thread has returned from parallel_execute no
\* job runs, and every index of the batch was run once and no other, although
\* workers may enter dispatch_job late and take indices in any order.
BatchComplete ==
    at[Main] = "idle" /\ ~overrun =>
        /\ \A t \in Workers : at[t] \notin {"run", "body"}
        /\ \A i \in 0 .. MAX_INDEX : ran[i] = IF i < num_elements THEN 1 ELSE 0

\* What schedule.h says of it, with no such proviso: "It waits for all jobs to
\* complete before returning."
BatchWaited == at[Main] = "idle" => \A t \in Workers : at[t] \notin {"run", "body"}

=============================================================================
