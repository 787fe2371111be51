------------------------- MODULE ParallelJobsProofs -------------------------
(***************************************************************************)
(* Proof that parallel_execute returns when its batch is complete, in      *)
(* every program drawn with RenderContext: for any frames, any number of   *)
(* worker threads and any interleaving of the jobs, until a worker looks   *)
(* at max_index between the two stores of a batch and passes the check     *)
(* with an index the batch has not (overrun).  And proof that this can     *)
(* only happen to a batch that is smaller than the one before it.          *)
(***************************************************************************)
EXTENDS RenderContext, FiniteSetTheorems, TLAPS

\* The workers that active_jobs counts.
Busy == {w \in Workers : at[w] \notin {"spin", "enter"}}

Places == {"idle", "store", "loop", "wait", "spin", "enter", "leave",
           "read", "compare", "take", "run", "body"}

JobsTypeOK ==
    /\ current_index \in Nat
    /\ at \in [JobThreads -> Places]
    /\ this_index \in [JobThreads -> Nat]
    /\ ran \in [0 .. MAX_INDEX -> Nat]
    /\ active_jobs \in Nat
    /\ at[Main] \notin {"spin", "enter", "leave"}
    /\ \A w \in Workers : at[w] \notin {"idle", "store", "loop", "wait"}

\* The indices below current_index were run once, the others not at all.
RanOnce == \A i \in 0 .. MAX_INDEX : ran[i] = IF i < current_index THEN 1 ELSE 0

\* Main is past its loop only when all indices were taken.
AllTaken ==
    /\ at[Main] # "store" => max_index = num_elements
    /\ at[Main] \in {"idle", "wait"} => current_index = max_index

\* Nobody is about to take the index at which the batch ends: a thread that
\* passed the check against max_index has another one.
NobodyPastEnd == \A t \in JobThreads : at[t] = "take" => this_index[t] # num_elements

\* A worker that enters between two batches finds nothing to do.
QuietBetween ==
    at[Main] = "idle" =>
        \A w \in Workers :
            /\ at[w] \in {"spin", "enter", "read", "compare", "leave"}
            /\ at[w] = "compare" => this_index[w] = max_index

JobsIInv ==
    /\ JobsTypeOK
    /\ active_jobs = Cardinality(Busy)
    /\ ~overrun => RanOnce /\ AllTaken /\ NobodyPastEnd /\ QuietBetween

LEMMA BusyFinite == IsFiniteSet(Busy) /\ Cardinality(Busy) \in Nat
BY JobThreadsAssumption, FS_Subset, FS_CardinalityType DEF Busy

\* Before the first batch.
LEMMA JobsInitIInv == JobsInit => JobsIInv
<1> SUFFICES ASSUME JobsInit PROVE JobsIInv
  OBVIOUS
<1> USE JobThreadsAssumption DEF JobsInit
<1>1. JobsTypeOK
  BY DEF JobsTypeOK, JobThreads, Places
<1>2. Busy = {}
  BY DEF Busy, JobThreads
<1>3. active_jobs = Cardinality(Busy)
  BY <1>2, FS_EmptySet
<1>4. RanOnce /\ AllTaken /\ NobodyPastEnd /\ QuietBetween
  BY DEF RanOnce, AllTaken, NobodyPastEnd, QuietBetween, JobThreads
<1> QED
  BY <1>1, <1>3, <1>4 DEF JobsIInv

\* parallel_execute up to the store of max_index.
LEMMA ExecuteIInv ==
    ASSUME JobsIInv, ~overrun, NEW func, NEW n, parallel_execute(func, n)
    PROVE  JobsIInv'
<1> USE JobThreadsAssumption DEF JobsIInv, JobThreads
<1>1. /\ at[Main] = "idle" /\ at' = [at EXCEPT ![Main] = "store"]
      /\ current_index' = 0 /\ num_elements' = n
      /\ ran' = [i \in 0 .. MAX_INDEX |-> 0]
      /\ UNCHANGED <<max_index, active_jobs, this_index, overrun>>
  BY DEF parallel_execute, Goto
<1>2. at'[Main] = "store" /\ \A w \in Workers : at'[w] = at[w]
  BY <1>1 DEF JobsTypeOK
<1>3. JobsTypeOK'
  BY <1>1, <1>2 DEF JobsTypeOK, Places
<1>4. Busy' = Busy
  BY <1>2 DEF Busy
<1>5. RanOnce'
  BY <1>1 DEF RanOnce
<1>6. AllTaken' /\ QuietBetween'
  BY <1>2 DEF AllTaken, QuietBetween
<1>7. NobodyPastEnd'
  BY <1>1, <1>2 DEF QuietBetween, NobodyPastEnd
<1> QED
  BY <1>1, <1>3, <1>4, <1>5, <1>6, <1>7

\* The main thread's other steps in parallel_execute.
LEMMA MainIInv ==
    ASSUME JobsIInv, ~overrun, StoreMax \/ MainLoop \/ MainReturns
    PROVE  JobsIInv'
<1> USE JobThreadsAssumption DEF JobsIInv, JobThreads
<1>1. /\ at[Main] \in {"store", "loop", "wait"} /\ at'[Main] \in {"loop", "read", "wait", "idle"}
      /\ \A w \in Workers : at'[w] = at[w]
      /\ at' \in [JobThreads -> Places]
      /\ UNCHANGED <<current_index, active_jobs, this_index, num_elements, ran, overrun>>
  BY DEF StoreMax, MainLoop, MainReturns, Goto, JobsTypeOK, Places
<1>2. JobsTypeOK'
  BY <1>1 DEF JobsTypeOK
<1>3. Busy' = Busy
  BY <1>1 DEF Busy
<1>4. RanOnce'
  BY <1>1 DEF RanOnce
<1>5. NobodyPastEnd'
  BY <1>1 DEF NobodyPastEnd
<1>6. AllTaken'
  BY <1>1 DEF StoreMax, MainLoop, MainReturns, Goto, JobsTypeOK, AllTaken
<1>7. QuietBetween'
  <2>1. CASE StoreMax \/ MainLoop
    BY <2>1 DEF StoreMax, MainLoop, Goto, JobsTypeOK, QuietBetween
  <2>2. CASE MainReturns
    <3>1. Cardinality(Busy) = 0
      BY <2>2 DEF MainReturns, JobsDone
    <3>2. Busy = {}
      BY <3>1, BusyFinite, FS_EmptySet
    <3> QED
      BY <1>1, <3>2 DEF Busy, QuietBetween
  <2> QED
    BY <2>1, <2>2
<1> QED
  BY <1>1, <1>2, <1>3, <1>4, <1>5, <1>6, <1>7

\* worker_thread around dispatch_job.
LEMMA WorkerIInv ==
    ASSUME JobsIInv, ~overrun, NEW t \in Workers,
           WorkerSees(t) \/ WorkerEnters(t) \/ WorkerLeaves(t)
    PROVE  JobsIInv'
<1> USE JobThreadsAssumption DEF JobsIInv, JobThreads
<1>1. /\ at'[Main] = at[Main] /\ at'[t] \in {"spin", "enter", "read"}
      /\ \A w \in Workers \ {t} : at'[w] = at[w]
      /\ at' \in [JobThreads -> Places]
      /\ UNCHANGED <<current_index, max_index, this_index, num_elements, ran, overrun>>
  BY DEF WorkerSees, WorkerEnters, WorkerLeaves, Goto, JobsTypeOK, Places
<1>2. active_jobs' \in Nat /\ active_jobs' = Cardinality(Busy')
  <2>1. CASE WorkerSees(t)
    <3>1. Busy' = Busy
      BY <1>1, <2>1 DEF Busy, WorkerSees, Goto, JobsTypeOK
    <3> QED
      BY <2>1, <3>1 DEF WorkerSees, JobsTypeOK
  <2>2. CASE WorkerEnters(t)
    <3>1. Busy' = Busy \cup {t} /\ t \notin Busy
      BY <1>1, <2>2 DEF Busy, WorkerEnters, Goto, JobsTypeOK
    <3>2. Cardinality(Busy') = Cardinality(Busy) + 1
      BY <3>1, BusyFinite, FS_AddElement
    <3> QED
      BY <2>2, <3>2, BusyFinite DEF WorkerEnters
  <2>3. CASE WorkerLeaves(t)
    <3>1. Busy' = Busy \ {t} /\ t \in Busy
      BY <1>1, <2>3 DEF Busy, WorkerLeaves, Goto, JobsTypeOK
    <3>2. Cardinality(Busy') = Cardinality(Busy) - 1
      BY <3>1, BusyFinite, FS_RemoveElement
    <3>3. Cardinality(Busy') \in Nat
      BY <3>1, BusyFinite, FS_RemoveElement, FS_CardinalityType
    <3> QED
      BY <2>3, <3>2, <3>3 DEF WorkerLeaves
  <2> QED
    BY <2>1, <2>2, <2>3
<1>3. JobsTypeOK'
  BY <1>1, <1>2 DEF JobsTypeOK
<1>4. RanOnce' /\ AllTaken' /\ NobodyPastEnd' /\ QuietBetween'
  BY <1>1 DEF RanOnce, AllTaken, NobodyPastEnd, QuietBetween
<1> QED
  BY <1>2, <1>3, <1>4

\* A thread inside dispatch_job or a job moves on: active_jobs keeps its
\* meaning, and nobody else moves.
Moved(t, to) ==
    /\ at' \in [JobThreads -> Places]
    /\ at'[Main] \notin {"idle", "store", "wait", "spin", "enter", "leave"} \/ at'[Main] = at[Main]
    /\ at'[Main] \notin {"spin", "enter", "leave"}
    /\ \A w \in Workers : at'[w] \notin {"idle", "store", "loop", "wait"}
    /\ at'[t] = to
    /\ \A u \in JobThreads \ {t} : at'[u] = at[u]
    /\ Busy' = Busy

LEMMA DispatchMoves ==
    ASSUME JobsIInv, NEW t \in JobThreads, NEW to \in Places,
           at[t] \in {"read", "compare", "take", "run", "body"},
           at' = [at EXCEPT ![t] = to],
           to = Returned(t) \/ to \in {"read", "compare", "take", "run", "body"}
    PROVE  Moved(t, to)
<1> USE JobThreadsAssumption DEF JobsIInv, JobThreads
<1>1. /\ at' \in [JobThreads -> Places] /\ at'[t] = to
      /\ \A u \in JobThreads \ {t} : at'[u] = at[u]
  BY DEF JobsTypeOK, Places, Returned
<1>2. t # Main => to \in {"leave", "read", "compare", "take", "run", "body"}
  BY DEF Returned
<1>3. t = Main => to \in {"loop", "read", "compare", "take", "run", "body"}
  BY DEF Returned
<1>4. Busy' = Busy
  BY <1>1, <1>2 DEF Busy
<1> QED
  BY <1>1, <1>2, <1>3, <1>4 DEF JobsTypeOK, Moved

\* dispatch_job reads current_index.
LEMMA ReadCurrentIInv ==
    ASSUME JobsIInv, ~overrun, NEW t \in JobThreads, ReadCurrent(t)
    PROVE  JobsIInv'
<1> USE JobThreadsAssumption DEF JobsIInv, JobThreads
<1>1. /\ at[t] = "read" /\ at' = [at EXCEPT ![t] = "compare"]
      /\ this_index' = [this_index EXCEPT ![t] = current_index]
      /\ UNCHANGED <<current_index, max_index, active_jobs, num_elements, ran, overrun>>
  BY DEF ReadCurrent, Goto
<1>2. Moved(t, "compare")
  BY <1>1, DispatchMoves DEF Places
<1>3. /\ this_index' \in [JobThreads -> Nat] /\ this_index'[t] = current_index
      /\ \A u \in JobThreads \ {t} : this_index'[u] = this_index[u]
  BY <1>1 DEF JobsTypeOK
<1>4. JobsTypeOK'
  BY <1>1, <1>2, <1>3 DEF JobsTypeOK, Moved
<1>5. RanOnce' /\ AllTaken'
  BY <1>1, <1>2 DEF RanOnce, AllTaken, Moved
<1>6. NobodyPastEnd'
  BY <1>1, <1>2, <1>3 DEF NobodyPastEnd, Moved
<1>7. QuietBetween'
  BY <1>1, <1>2, <1>3 DEF QuietBetween, AllTaken, Moved
<1> QED
  BY <1>1, <1>2, <1>4, <1>5, <1>6, <1>7 DEF Moved

\* It compares the index with max_index, which may be that of the batch before.
LEMMA CompareMaxIInv ==
    ASSUME JobsIInv, ~overrun, NEW t \in JobThreads, CompareMax(t)
    PROVE  JobsIInv'
<1> USE JobThreadsAssumption DEF JobsIInv, JobThreads
<1> DEFINE passes == this_index[t] # max_index
<1>0. PICK to \in Places : to = IF passes THEN "take" ELSE Returned(t)
  BY DEF Places, Returned
<1>1. /\ at[t] = "compare" /\ at' = [at EXCEPT ![t] = to]
      /\ overrun' = (passes /\ at[Main] = "store" /\ this_index[t] >= num_elements)
      /\ UNCHANGED <<current_index, max_index, active_jobs, this_index, num_elements, ran>>
  BY <1>0 DEF CompareMax, Goto
<1>2. Moved(t, to)
  <2>1. /\ to = Returned(t) \/ to \in {"read", "compare", "take", "run", "body"}
        /\ at[t] \in {"read", "compare", "take", "run", "body"}
    BY <1>0, <1>1
  <2> QED
    BY <1>1, <2>1, DispatchMoves
<1>3. JobsTypeOK'
  BY <1>1, <1>2 DEF JobsTypeOK, Moved
<1>4. RanOnce' /\ AllTaken'
  BY <1>1, <1>2 DEF RanOnce, AllTaken, Moved
<1>5. ASSUME ~overrun' PROVE NobodyPastEnd'
  <2>1. ASSUME passes PROVE this_index[t] # num_elements
    <3>1. CASE at[Main] = "store"
      <4>1. ~(this_index[t] >= num_elements)
        BY <1>1, <1>5, <2>1, <3>1
      <4>2. this_index[t] >= this_index[t]
        BY DEF JobsTypeOK
      <4> QED
        BY <4>1, <4>2
    <3>2. CASE at[Main] # "store"
      BY <2>1, <3>2 DEF AllTaken
    <3> QED
      BY <3>1, <3>2
  <2> QED
    BY <1>0, <1>1, <1>2, <2>1 DEF NobodyPastEnd, Returned, Moved
<1>6. QuietBetween'
  <2>1. ASSUME at'[Main] = "idle" PROVE t \in Workers /\ at[Main] = "idle" /\ ~passes
    BY <1>1, <1>2, <2>1 DEF QuietBetween, Moved
  <2> QED
    BY <1>0, <1>1, <1>2, <2>1 DEF QuietBetween, Returned, Moved
<1> QED
  BY <1>1, <1>2, <1>3, <1>4, <1>5, <1>6 DEF Moved

\* The compare and swap takes an index once, and none past the end.
LEMMA TakeIndexIInv ==
    ASSUME JobsIInv, ~overrun, NEW t \in JobThreads, TakeIndex(t)
    PROVE  JobsIInv'
<1> USE JobThreadsAssumption DEF JobsIInv, JobThreads
<1> DEFINE to == IF Taken(t) THEN "run" ELSE "read"
<1>1. /\ at[t] = "take" /\ at' = [at EXCEPT ![t] = to]
      /\ UNCHANGED <<max_index, active_jobs, this_index, num_elements, overrun>>
  BY DEF TakeIndex, Goto
<1>2. Moved(t, to)
  BY <1>1, DispatchMoves DEF Places
<1>3. at[Main] # "idle" /\ at'[Main] # "idle" /\ this_index[t] # num_elements
  BY <1>1, <1>2 DEF QuietBetween, NobodyPastEnd, Moved
<1>4. NobodyPastEnd' /\ QuietBetween'
  BY <1>1, <1>2, <1>3 DEF NobodyPastEnd, QuietBetween, Moved
<1>5. CASE Taken(t)
  <2>1. /\ current_index = this_index[t] /\ current_index' = current_index + 1
        /\ ran' = [ran EXCEPT ![current_index] = @ + 1]
    BY <1>5 DEF TakeIndex, Taken
  <2>2. ran' \in [0 .. MAX_INDEX -> Nat]
    <3>1. CASE current_index \in 0 .. MAX_INDEX
      BY <2>1, <3>1 DEF JobsTypeOK
    <3>2. CASE current_index \notin 0 .. MAX_INDEX
      BY <2>1, <3>2 DEF JobsTypeOK
    <3> QED
      BY <3>1, <3>2
  <2>5. RanOnce'
    <3>1. ASSUME NEW i \in 0 .. MAX_INDEX
          PROVE  ran'[i] = IF i < current_index' THEN 1 ELSE 0
      <4>1. ran'[i] = IF i = current_index THEN ran[i] + 1 ELSE ran[i]
        BY <2>1 DEF JobsTypeOK
      <4>2. ran[i] = IF i < current_index THEN 1 ELSE 0
        BY DEF RanOnce
      <4> QED
        BY <2>1, <4>1, <4>2 DEF JobsTypeOK
    <3> QED
      BY <3>1 DEF RanOnce
  <2>3. AllTaken'
    BY <1>1, <1>2, <1>3, <2>1 DEF AllTaken, Moved
  <2>4. JobsTypeOK'
    BY <1>1, <1>2, <2>1, <2>2 DEF JobsTypeOK, Moved
  <2> QED
    BY <1>1, <1>2, <1>4, <2>3, <2>4, <2>5 DEF Moved
<1>6. CASE ~Taken(t)
  <2>1. UNCHANGED <<current_index, ran>>
    BY <1>6 DEF TakeIndex
  <2>2. JobsTypeOK'
    BY <1>1, <1>2, <2>1 DEF JobsTypeOK, Moved
  <2>3. RanOnce' /\ AllTaken'
    BY <1>1, <1>2, <2>1 DEF RanOnce, AllTaken, Moved
  <2> QED
    BY <1>1, <1>2, <1>4, <2>2, <2>3 DEF Moved
<1> QED
  BY <1>5, <1>6

\* A job returns, or goes on with its next step.
LEMMA JobIInv ==
    ASSUME JobsIInv, ~overrun, NEW t \in JobThreads,
           JobReturns(t)
             \/ (/\ Goto(t, "run", "body")
                 /\ UNCHANGED <<current_index, max_index, active_jobs, this_index,
                                num_elements, ran, overrun>>)
    PROVE  JobsIInv'
<1> USE JobThreadsAssumption DEF JobsIInv, JobThreads
<1>1. PICK to \in Places :
                /\ at[t] \in {"run", "body"} /\ at' = [at EXCEPT ![t] = to]
                /\ to = Returned(t) \/ to = "body"
                /\ UNCHANGED <<current_index, max_index, active_jobs, this_index,
                               num_elements, ran, overrun>>
  BY DEF JobReturns, Goto, Returned, Places
<1>2. Moved(t, to)
  <2>1. /\ to = Returned(t) \/ to \in {"read", "compare", "take", "run", "body"}
        /\ at[t] \in {"read", "compare", "take", "run", "body"}
    BY <1>1
  <2> QED
    BY <1>1, <2>1, DispatchMoves
<1>3. to \notin {"take", "compare"}
  BY <1>1 DEF Returned
<1>4. JobsTypeOK'
  BY <1>1, <1>2 DEF JobsTypeOK, Moved
<1>5. RanOnce' /\ AllTaken'
  BY <1>1, <1>2 DEF RanOnce, AllTaken, Moved
<1>6. NobodyPastEnd' /\ QuietBetween'
  BY <1>1, <1>2, <1>3 DEF NobodyPastEnd, QuietBetween, Moved
<1> QED
  BY <1>1, <1>2, <1>4, <1>5, <1>6 DEF Moved

\* The steps that are not the batches' own leave their state alone.
LEMMA JobsUnchanged == JobsIInv /\ UNCHANGED jobVars => JobsIInv'
BY DEF JobsIInv, jobVars, JobsTypeOK, Busy, RanOnce, AllTaken, NobodyPastEnd, QuietBetween

\* What a step of RenderContext does to the state of the batches.
LEMMA RenderSteps ==
    ASSUME NEW t \in Threads, ThreadStep(t)
    PROVE  \/ \E func, n : parallel_execute(func, n)
           \/ StoreMax \/ MainLoop \/ MainReturns
           \/ t # Main /\ (WorkerSees(t) \/ WorkerEnters(t) \/ WorkerLeaves(t))
           \/ ReadCurrent(t) \/ CompareMax(t) \/ TakeIndex(t)
           \/ JobReturns(t)
           \/ (/\ Goto(t, "run", "body")
               /\ UNCHANGED <<current_index, max_index, active_jobs, this_index,
                              num_elements, ran, overrun>>)
           \/ UNCHANGED jobVars
<1>1. CASE t = Main /\ MainStep
  BY <1>1 DEF MainStep, drawElements, NewTiles, StartShading, StartSetUp, NextCommand, StartFill,
              CleanUp
<1>2. CASE JobsStep(t) /\ UNCHANGED <<queueVars, contextVars>>
  BY <1>2 DEF JobsStep, DispatchStep
<1>3. CASE QueueStep(t) /\ UNCHANGED <<jobVars, contextVars>>
  BY <1>3
<1>4. CASE Job(t)
  BY <1>4 DEF Job, shadeVertices, setUpTriangle, EnqueueNext, SetUpReturns, fillTile, wireframeTile
<1> QED
  BY <1>1, <1>2, <1>3, <1>4 DEF ThreadStep

\* JobsIInv is an invariant of every program drawn.
THEOREM JobsInvariance == Spec => []JobsIInv
<1>1. Init => JobsIInv
  BY JobsInitIInv DEF Init
<1>2. JobsIInv /\ [Next]_vars => JobsIInv'
  <2> SUFFICES ASSUME JobsIInv, [Next]_vars PROVE JobsIInv'
    OBVIOUS
  <2>1. CASE UNCHANGED vars \/ Stop
    BY <2>1, JobsUnchanged DEF vars, Stop
  <2>2. ASSUME ~overrun, NEW t \in Threads, ThreadStep(t) PROVE JobsIInv'
    <3>1. t \in JobThreads
      BY RenderAssumption
    <3>2. CASE \E func, n : parallel_execute(func, n)
      BY <2>2, <3>2, ExecuteIInv
    <3>3. CASE StoreMax \/ MainLoop \/ MainReturns
      BY <2>2, <3>3, MainIInv
    <3>4. CASE t # Main /\ (WorkerSees(t) \/ WorkerEnters(t) \/ WorkerLeaves(t))
      BY <2>2, <3>1, <3>4, WorkerIInv DEF JobThreads
    <3>5. CASE ReadCurrent(t) \/ CompareMax(t) \/ TakeIndex(t)
      BY <2>2, <3>1, <3>5, ReadCurrentIInv, CompareMaxIInv, TakeIndexIInv
    <3>6. CASE \/ JobReturns(t)
               \/ (/\ Goto(t, "run", "body")
                   /\ UNCHANGED <<current_index, max_index, active_jobs, this_index,
                                  num_elements, ran, overrun>>)
      BY <2>2, <3>1, <3>6, JobIInv
    <3>7. CASE UNCHANGED jobVars
      BY <3>7, JobsUnchanged
    <3> QED
      BY <2>2, <3>2, <3>3, <3>4, <3>5, <3>6, <3>7, RenderSteps
  <2> QED
    BY <2>1, <2>2 DEF Next
<1> QED
  BY <1>1, <1>2, PTL DEF Spec

\* When parallel_execute returns, every index of its batch was run once and no
\* other, and no job is running; claimed until a worker overruns a batch that
\* is smaller than the one before it (schedule.c:50-51), see BatchWaited.
THEOREM BatchesComplete == Spec => []BatchComplete
<1>1. JobsIInv => BatchComplete
  BY DEF JobsIInv, BatchComplete, RanOnce, AllTaken, QuietBetween
<1> QED
  BY <1>1, JobsInvariance, PTL

-----------------------------------------------------------------------------
\* Which batches can be overrun, in a program that runs batches of any sizes.

\* No index is past the end of its batch.  Between the two stores none is past
\* the end of the batch before either, nor is one that somebody read.
Bounded ==
    /\ max_index \in Nat /\ num_elements \in Nat
    /\ current_index <= num_elements
    /\ at[Main] = "store" =>
         /\ current_index <= max_index
         /\ \A t \in JobThreads :
              /\ at[t] = "compare" => this_index[t] <= max_index
              /\ at[t] = "take" => this_index[t] < max_index

\* What holds until a batch is overrun.
OrderIInv == ~overrun => JobsIInv /\ Bounded

\* A batch starts.
LEMMA ExecuteBounded ==
    ASSUME JobsIInv, Bounded, ~overrun, NEW n \in Nat, parallel_execute("job", n)
    PROVE  Bounded'
<1> USE JobThreadsAssumption DEF JobsIInv, JobThreads
<1>1. /\ at[Main] = "idle" /\ at' = [at EXCEPT ![Main] = "store"]
      /\ current_index' = 0 /\ num_elements' = n
      /\ UNCHANGED <<max_index, this_index>>
  BY DEF parallel_execute, Goto
<1>2. at'[Main] = "store" /\ \A w \in Workers : at'[w] = at[w]
  BY <1>1 DEF JobsTypeOK
<1>3. \A w \in Workers : at[w] # "take" /\ (at[w] = "compare" => this_index[w] = max_index)
  BY <1>1 DEF QuietBetween
<1> QED
  BY <1>1, <1>2, <1>3 DEF Bounded

\* The other steps leave the bounds, and only CompareMax overruns.
LEMMA StepBounded ==
    ASSUME JobsIInv, Bounded, ~overrun, NEW t \in JobThreads, JobsStep(t) \/ JobReturns(t)
    PROVE  /\ overrun' => num_elements < max_index
           /\ ~overrun' => Bounded'
<1> USE JobThreadsAssumption DEF JobsIInv, JobThreads
<1>1. CASE StoreMax \/ MainLoop \/ MainReturns
  <2>1. /\ at'[Main] \in {"loop", "read", "wait", "idle"}
        /\ UNCHANGED <<current_index, this_index, num_elements, overrun>>
        /\ max_index' \in {max_index, num_elements}
    BY <1>1 DEF StoreMax, MainLoop, MainReturns, Goto, JobsTypeOK
  <2>2. Bounded'
    BY <2>1 DEF Bounded
  <2> QED
    BY <2>1, <2>2
<1>2. CASE t # Main /\ (WorkerSees(t) \/ WorkerEnters(t) \/ WorkerLeaves(t))
  <2>1. /\ at'[Main] = at[Main] /\ at'[t] \in {"spin", "enter", "read"}
        /\ \A u \in JobThreads \ {t} : at'[u] = at[u]
        /\ UNCHANGED <<current_index, max_index, this_index, num_elements, overrun>>
    BY <1>2 DEF WorkerSees, WorkerEnters, WorkerLeaves, Goto, JobsTypeOK
  <2>2. Bounded'
    BY <2>1 DEF Bounded
  <2> QED
    BY <2>1, <2>2
<1>3. CASE JobReturns(t)
  <2>1. /\ at'[Main] = "store" => at[Main] = "store"
        /\ at'[t] \notin {"compare", "take"}
        /\ \A u \in JobThreads \ {t} : at'[u] = at[u]
        /\ UNCHANGED <<current_index, max_index, this_index, num_elements, overrun>>
    BY <1>3 DEF JobReturns, Returned, JobsTypeOK
  <2>2. Bounded'
    BY <2>1 DEF Bounded
  <2> QED
    BY <2>1, <2>2
<1>4. CASE ReadCurrent(t)
  <2>1. /\ at'[Main] = "store" => at[Main] = "store"
        /\ at'[t] = "compare" /\ this_index'[t] = current_index
        /\ \A u \in JobThreads \ {t} : at'[u] = at[u] /\ this_index'[u] = this_index[u]
        /\ UNCHANGED <<current_index, max_index, num_elements, overrun>>
    BY <1>4 DEF ReadCurrent, Goto, JobsTypeOK
  <2>2. Bounded'
    BY <2>1 DEF Bounded
  <2> QED
    BY <2>1, <2>2
<1>5. CASE CompareMax(t)
  <2>1. /\ at'[Main] = "store" => at[Main] = "store"
        /\ at'[t] # "compare" /\ (at'[t] = "take" => this_index[t] # max_index)
        /\ \A u \in JobThreads \ {t} : at'[u] = at[u]
        /\ UNCHANGED <<current_index, max_index, this_index, num_elements>>
    BY <1>5 DEF CompareMax, Goto, Returned, JobsTypeOK
  <2>2. overrun' = (this_index[t] # max_index /\ at[Main] = "store" /\ this_index[t] >= num_elements)
    BY <1>5 DEF CompareMax
  <2>3. at[t] = "compare" /\ this_index[t] \in Nat
    BY <1>5 DEF CompareMax, Goto, JobsTypeOK
  <2>4. overrun' => num_elements < max_index
    <3>1. this_index[t] # max_index /\ at[Main] = "store" /\ this_index[t] >= num_elements
            => num_elements < max_index
      BY <2>3 DEF Bounded
    <3> QED
      BY <2>2, <3>1
  <2>5. Bounded'
    BY <2>1, <2>3 DEF Bounded, JobsTypeOK
  <2> QED
    BY <2>2, <2>4, <2>5
<1>6. CASE TakeIndex(t)
  <2>1. /\ at[t] = "take" /\ (at'[Main] = "store" => at[Main] = "store")
        /\ at'[t] \in {"run", "read"}
        /\ \A u \in JobThreads \ {t} : at'[u] = at[u]
        /\ UNCHANGED <<max_index, this_index, num_elements, overrun>>
        /\ current_index' = current_index
             \/ (current_index = this_index[t] /\ current_index' = current_index + 1)
    BY <1>6 DEF TakeIndex, Goto, Taken, JobsTypeOK
  <2>2. this_index[t] # num_elements
    BY <2>1 DEF NobodyPastEnd
  <2>3. current_index' <= num_elements
    BY <2>1, <2>2 DEF Bounded, JobsTypeOK
  <2>4. at[Main] = "store" => current_index' <= max_index
    BY <2>1 DEF Bounded, JobsTypeOK
  <2>5. Bounded'
    BY <2>1, <2>3, <2>4 DEF Bounded
  <2> QED
    BY <2>1, <2>5
<1> QED
  BY <1>1, <1>2, <1>3, <1>4, <1>5, <1>6 DEF JobsStep, DispatchStep

\* Steps of the batches keep what holds until one is overrun.
LEMMA OrderStep == OrderIInv /\ [JobsNext]_jobVars => OrderIInv'
<1> SUFFICES ASSUME OrderIInv, [JobsNext]_jobVars PROVE OrderIInv'
  OBVIOUS
<1>1. CASE UNCHANGED jobVars
  <2>1. (~overrun' => ~overrun) /\ (Bounded => Bounded')
    BY <1>1 DEF jobVars, Bounded
  <2> QED
    BY <1>1, <2>1, JobsUnchanged DEF OrderIInv
<1>2. ASSUME NEW n \in 0 .. MAX_INDEX, parallel_execute("job", n) PROVE OrderIInv'
  <2>1. (~overrun' => ~overrun) /\ n \in Nat
    BY <1>2, JobThreadsAssumption DEF parallel_execute
  <2> QED
    BY <1>2, <2>1, ExecuteIInv, ExecuteBounded DEF OrderIInv
<1>3. ASSUME NEW t \in JobThreads, JobsStep(t) \/ JobReturns(t) PROVE OrderIInv'
  <2>1. CASE overrun
    <3>1. overrun'
      BY <1>3, <2>1 DEF JobsStep, DispatchStep, JobReturns, StoreMax, MainLoop, MainReturns,
            WorkerSees, WorkerEnters, WorkerLeaves, ReadCurrent, CompareMax, TakeIndex
    <3> QED
      BY <3>1 DEF OrderIInv
  <2>2. CASE ~overrun
    <3>1. JobsIInv /\ Bounded
      BY <2>2 DEF OrderIInv
    <3>2. JobsIInv'
      <4>1. CASE StoreMax \/ MainLoop \/ MainReturns
        BY <2>2, <3>1, <4>1, MainIInv
      <4>2. CASE t # Main /\ (WorkerSees(t) \/ WorkerEnters(t) \/ WorkerLeaves(t))
        BY <2>2, <3>1, <4>2, WorkerIInv DEF JobThreads
      <4>3. CASE ReadCurrent(t) \/ CompareMax(t) \/ TakeIndex(t)
        BY <2>2, <3>1, <4>3, ReadCurrentIInv, CompareMaxIInv, TakeIndexIInv
      <4>4. CASE JobReturns(t)
        BY <2>2, <3>1, <4>4, JobIInv
      <4> QED
        BY <1>3, <4>1, <4>2, <4>3, <4>4 DEF JobsStep, DispatchStep
    <3>3. ~overrun' => Bounded'
      BY <1>3, <2>2, <3>1, StepBounded
    <3> QED
      BY <3>2, <3>3 DEF OrderIInv
  <2> QED
    BY <2>1, <2>2 DEF OrderIInv
<1> QED
  BY <1>1, <1>2, <1>3 DEF JobsNext

\* A batch can only be overrun between its two stores, and only if it is
\* smaller than the batch before it: programs whose batches never shrink get
\* all that schedule.h promises.
THEOREM OnlyShrinkingOverrun ==
    JobsSpec => [][~overrun /\ overrun' => at[Main] = "store" /\ num_elements < max_index]_jobVars
<1>1. JobsInit => OrderIInv
  <2>1. JobsInit => Bounded
    BY JobThreadsAssumption DEF JobsInit, Bounded, JobThreads
  <2> QED
    BY <2>1, JobsInitIInv DEF OrderIInv
<1>2. OrderIInv /\ [JobsNext]_jobVars
        => [~overrun /\ overrun' => at[Main] = "store" /\ num_elements < max_index]_jobVars
  <2> SUFFICES ASSUME OrderIInv, JobsNext, ~overrun, overrun'
               PROVE  at[Main] = "store" /\ num_elements < max_index
    BY DEF jobVars
  <2>1. PICK t \in JobThreads : JobsStep(t) \/ JobReturns(t)
    BY DEF JobsNext, parallel_execute
  <2>2. num_elements < max_index
    BY <2>1, StepBounded DEF OrderIInv
  <2>3. at[Main] = "store"
    BY <2>1 DEF JobsStep, DispatchStep, JobReturns, StoreMax, MainLoop, MainReturns,
          WorkerSees, WorkerEnters, WorkerLeaves, ReadCurrent, CompareMax, TakeIndex
  <2> QED
    BY <2>2, <2>3
<1> QED
  BY <1>1, <1>2, OrderStep, PTL DEF JobsSpec
=============================================================================
