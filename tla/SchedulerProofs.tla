--------------------------- MODULE SchedulerProofs ---------------------------
(***************************************************************************)
(* Proofs about Scheduler, for every number of hardware threads and        *)
(* workers.  A behaviour ends with the first failed assert or corruption,  *)
(* so all but the types is claimed while the machine is Running; which of  *)
(* the ends cannot be reached at all is part of the theorems.              *)
(***************************************************************************)
EXTENDS Scheduler, QueueTheorems

OnCPU(t) == \E c \in CPUs : exec[c] = t
Booted == {c \in CPUs : exec[c] # NoThread}

\* The queues hold the threads their state and location say, each once.
QueuesExact ==
    /\ IsInjective(ready_q) /\ IsInjective(wait_list) /\ IsInjective(dead_q)
    /\ \A t \in Threads :
          /\ t \in Range(ready_q) <=> state[t] = "READY"
          /\ t \in Range(wait_list) <=> state[t] = "WAITING"
          /\ t \in Range(dead_q) \/ t = victim
                <=> state[t] # "FREE" /\ pc[t] \in {"exit1", "exit2", "gone"}
    /\ victim \notin Range(dead_q)

\* cur_thread is right, and no thread is on two hardware threads.
OneEach ==
    /\ exec = cur_thread
    /\ \A c, d \in CPUs : exec[c] = exec[d] /\ exec[c] # NoThread => c = d

\* Where a thread in each state can be.  A READY thread on a hardware thread
\* was woken before it got to the reschedule() in wait().
PlaceOK(t) ==
    /\ state[t] = "RUNNING" => OnCPU(t) /\ pc[t] \in InterruptsEnabled \cup {"exit1"}
    /\ state[t] = "READY" => IF OnCPU(t) THEN pc[t] = "sleep"
                                         ELSE pc[t] \in InterruptsEnabled \cup {"asleep"}
    /\ state[t] = "WAITING" => pc[t] = IF OnCPU(t) THEN "sleep" ELSE "asleep"
    /\ state[t] = "DEAD" => pc[t] = IF OnCPU(t) THEN "exit2" ELSE "gone"
    /\ state[t] = "FREE" => ~OnCPU(t) /\ pc[t] \in {"run", "gone"}
    /\ pc[t] \in {"exit1", "exit2", "gone"} => t \in Workers
    /\ pc[t] \in {"reap", "rlock", "free", "sfree"} => t = Reaper
    /\ pc[t] \in {"sleep", "asleep"} => t \in Lockers \cup {Reaper}
    /\ pc[t] = "resched" => hwthread[t] \in Booted

PlacesOK == \A t \in Threads : PlaceOK(t)

\* Hardware thread 0 comes first; the idle thread of a running hardware thread
\* exists.
BootOK ==
    /\ Booted # {} => BootCPU \in Booted
    /\ \A c \in CPUs : c \in Booted <=> state[c] # "FREE"

\* Somebody who can run, and has not begun to exit, owns a lock that others
\* wait for.
OwnerOK ==
    /\ wait_list # <<>> => owner # NoThread
    /\ owner # NoThread => /\ owner \in Lockers \cup {Reaper}
                           /\ state[owner] \in {"READY", "RUNNING"}
                           /\ pc[owner] # "exit1"

\* What destroy_thread knows of its victim.
ReaperOK ==
    /\ pc[Reaper] \in {"run", "resched"} <=> victim = NoThread
    /\ pc[Reaper] \in {"rlock", "sleep", "asleep", "free", "sfree"} => state[victim] = "DEAD"
    /\ pc[Reaper] = "sfree" => ~OnCPU(victim)

SchedInv == QueuesExact /\ OneEach /\ PlacesOK /\ BootOK /\ OwnerOK /\ ReaperOK

SchedIInv ==
    /\ TypeOK
    /\ machine \notin {"assert_next", "assert_wake", "dead_rescheduled"}
    /\ Running => SchedInv

-----------------------------------------------------------------------------
\* The names of threads are no names of anything else.
LEMMA Names ==
    /\ NoThread \notin Threads /\ Reaper \in Threads /\ BootCPU \in CPUs
    /\ CPUs \subseteq Threads /\ Workers \subseteq Threads
    /\ Reaper \notin CPUs /\ Reaper \notin Workers /\ CPUs \cap Workers = {}
BY BootAssumption, NamesDistinct DEF Threads

\* reschedule() finds a thread: when hardware thread h no longer runs its
\* thread, the other hardware threads are too few for all the idle threads
\* that never sleep and one more, the idle thread of hardware thread 0 or the
\* owner of the lock that one waits for.
LEMMA SomethingReady ==
    ASSUME TypeOK, SchedInv, NEW h \in Booted, state[exec[h]] # "RUNNING"
    PROVE  ready_q # <<>>
<1> USE Names DEF SchedInv
<1> SUFFICES ASSUME ready_q = <<>> PROVE FALSE
  OBVIOUS
<1>1. \A t \in Threads : state[t] # "READY"
  BY DEF QueuesExact, Range
<1>2. \A c \in CPUs : state[c] # "DEAD"
  BY DEF PlacesOK, PlaceOK
<1>3. \A c \in CPUs \ {BootCPU} : state[c] # "WAITING"
  BY DEF PlacesOK, PlaceOK, Lockers
<1>4. \A c \in Booted \ {BootCPU} : state[c] = "RUNNING"
  BY <1>1, <1>2, <1>3 DEF BootOK, TypeOK, State, Booted
<1>5. PICK z \in Threads : z \notin Booted \ {BootCPU} /\ state[z] = "RUNNING"
  <2>1. BootCPU \in Booted /\ state[BootCPU] # "FREE"
    BY DEF BootOK
  <2>2. CASE state[BootCPU] = "RUNNING"
    BY <2>2
  <2>3. CASE state[BootCPU] # "RUNNING"
    <3>1. state[BootCPU] = "WAITING"
      BY <1>1, <1>2, <2>1, <2>3 DEF TypeOK, State
    <3>2. wait_list # <<>>
      BY <3>1 DEF QueuesExact, Range
    <3>3. owner \in Threads /\ owner \in Lockers \cup {Reaper} /\ state[owner] = "RUNNING"
      BY <1>1, <3>2 DEF OwnerOK, TypeOK
    <3> QED
      BY <3>3 DEF Lockers, Booted
  <2> QED
    BY <2>2, <2>3
<1> DEFINE X == (Booted \ {BootCPU}) \cup {z}
           T == Booted \ {h}
           f == [x \in X |-> CHOOSE c \in CPUs : exec[c] = x]
<1>6. IsFiniteSet(Booted) /\ Cardinality(Booted) \in Nat
  BY BootAssumption, FS_Subset, FS_CardinalityType DEF Booted
<1>7. IsFiniteSet(X) /\ Cardinality(X) = Cardinality(Booted)
  <2>1. BootCPU \in Booted
    BY DEF BootOK
  <2>2. /\ IsFiniteSet(Booted \ {BootCPU})
        /\ Cardinality(Booted \ {BootCPU}) = Cardinality(Booted) - 1
    BY <1>6, <2>1, FS_RemoveElement
  <2>3. /\ IsFiniteSet((Booted \ {BootCPU}) \cup {z})
        /\ Cardinality((Booted \ {BootCPU}) \cup {z}) = Cardinality(Booted \ {BootCPU}) + 1
    BY <1>5, <2>2, FS_AddElement
  <2> QED
    BY <1>6, <2>2, <2>3
<1>8. IsFiniteSet(T) /\ Cardinality(T) < Cardinality(X)
  <2>1. IsFiniteSet(Booted \ {h}) /\ Cardinality(Booted \ {h}) = Cardinality(Booted) - 1
    BY <1>6, FS_RemoveElement
  <2> QED
    BY <1>6, <1>7, <2>1
<1>9. \A x \in X : f[x] \in T /\ exec[f[x]] = x
  <2>1. ASSUME NEW x \in X PROVE f[x] \in T /\ exec[f[x]] = x
    <3>1. x \in Threads /\ state[x] = "RUNNING" /\ x # NoThread
      BY <1>4, <1>5 DEF Booted
    <3>2. \E c \in CPUs : exec[c] = x
      BY <3>1 DEF PlacesOK, PlaceOK, OnCPU
    <3>3. f[x] \in CPUs /\ exec[f[x]] = x
      BY <3>2
    <3> QED
      BY <3>1, <3>3 DEF Booted
  <2> QED
    BY <2>1
<1>10. f \in [X -> T]
  BY <1>9
<1>11. PICK x, y \in X : x # y /\ f[x] = f[y]
  <2> HIDE DEF X, T, f
  <2> QED
    BY <1>7, <1>8, <1>10, FS_PigeonHole
<1> HIDE DEF f
<1> QED
  BY <1>9, <1>11

\* reschedule(): what the queue is after the caller was put back, and that it
\* is not empty.
LEMMA RequeuedExact ==
    ASSUME TypeOK, SchedInv, NEW h \in Booted, state[exec[h]] # "READY"
    PROVE  LET old == exec[h]
               q == Requeued(old)
           IN  /\ old \in Threads
               /\ q # <<>> /\ Head(q) \in Threads
               /\ (Head(q) = old /\ state[old] = "RUNNING") \/ state[Head(q)] = "READY"
               /\ Tail(q) \in Seq(Threads) /\ IsInjective(Tail(q))
               /\ \A u \in Threads :
                     u \in Range(Tail(q)) <=>
                        u # Head(q) /\ (state[u] = "READY" \/ (u = old /\ state[old] = "RUNNING"))
<1> USE Names DEF SchedInv
<1> DEFINE old == exec[h]
           q == Requeued(old)
<1>1. old \in Threads
  BY DEF Booted, TypeOK
<1>2. /\ q \in Seq(Threads) /\ q # <<>> /\ IsInjective(q)
      /\ \A u \in Threads :
            u \in Range(q) <=> state[u] = "READY" \/ (u = old /\ state[old] = "RUNNING")
  <2>1. CASE state[old] = "RUNNING"
    <3>1. old \notin Range(ready_q) /\ q = Append(ready_q, old)
      BY <1>1, <2>1 DEF QueuesExact, Requeued
    <3>2. /\ Append(ready_q, old) \in Seq(Threads) /\ Append(ready_q, old) # <<>>
          /\ IsInjective(Append(ready_q, old))
          /\ Range(Append(ready_q, old)) = Range(ready_q) \cup {old}
      BY <1>1, <3>1, AppendQueue DEF QueuesExact, TypeOK
    <3> HIDE DEF q, old
    <3>3. \A u \in Threads : u \in Range(q) <=> u \in Range(ready_q) \/ u = old
      BY <3>1, <3>2
    <3>4. \A u \in Threads : u \in Range(ready_q) <=> state[u] = "READY"
      BY DEF QueuesExact
    <3> QED
      BY <2>1, <3>1, <3>2, <3>3, <3>4
  <2>2. CASE state[old] # "RUNNING"
    <3>1. q = ready_q /\ ready_q # <<>>
      BY <2>2, SomethingReady DEF Requeued
    <3> HIDE DEF q, old
    <3>2. /\ ready_q \in Seq(Threads) /\ IsInjective(ready_q)
          /\ \A u \in Threads : u \in Range(ready_q) <=> state[u] = "READY"
      BY DEF QueuesExact, TypeOK
    <3>3. q \in Seq(Threads) /\ q # <<>> /\ IsInjective(q)
      BY <3>1, <3>2, Zenon
    <3>4. \A u \in Threads : u \in Range(q) <=> state[u] = "READY"
      BY <3>1, <3>2
    <3> QED
      BY <2>2, <3>3, <3>4
  <2> QED
    BY <2>1, <2>2
<1>3. /\ Head(q) \in Threads /\ Head(q) \in Range(q)
      /\ Tail(q) \in Seq(Threads) /\ IsInjective(Tail(q))
      /\ Range(Tail(q)) = Range(q) \ {Head(q)}
  <2> HIDE DEF q
  <2> QED
    BY <1>2, TailQueue
<1> HIDE DEF q, old
<1>4. /\ q # <<>>
      /\ (Head(q) = old /\ state[old] = "RUNNING") \/ state[Head(q)] = "READY"
      /\ \A u \in Threads :
            u \in Range(Tail(q)) <=>
               u # Head(q) /\ (state[u] = "READY" \/ (u = old /\ state[old] = "RUNNING"))
  BY <1>2, <1>3
<1> QED
  BY <1>1, <1>3, <1>4 DEF q, old

\* Where a caller of reschedule() is and where it is left.
LeftAt(t, l) ==
    \/ pc[t] \in InterruptsEnabled /\ l = pc[t]
    \/ pc[t] = "resched" /\ l = "run"
    \/ pc[t] = "sleep" /\ l = "asleep"
    \/ pc[t] = "exit2" /\ l = "gone"

\* reschedule() preserves the invariant, whichever hardware thread its caller
\* believes to be on.
LEMMA RescheduleInv ==
    ASSUME SchedIInv, Running, NEW c \in CPUs, NEW t \in Threads, exec[c] = t,
           NEW h \in Booted, NEW l \in Location, Reschedule(c, h, l), LeftAt(t, l),
           UNCHANGED <<dead_q, victim, owner, wait_list>>,
           hwthread' \in [Threads -> CPUs],
           \A u \in Threads : hwthread'[u] = hwthread[u] \/ (u = t /\ l = "run")
    PROVE  SchedIInv'
<1> USE Names
<1>1. TypeOK /\ SchedInv /\ exec = cur_thread /\ h \in CPUs
  BY DEF SchedIInv, SchedInv, OneEach, Booted
<1>2. PICK old \in Threads : old = exec[h] /\ old = cur_thread[h]
  BY <1>1 DEF Booted, TypeOK
<1>3. CASE state[old] = "READY"
  <2>1. machine' = "assert_ready" /\ UNCHANGED <<cur_thread, exec, state, ready_q, pc>>
    BY <1>2, <1>3 DEF Reschedule
  <2> QED
    BY <1>1, <2>1 DEF SchedIInv, TypeOK, Running, Asserts
<1>4. CASE state[old] # "READY"
  <2>1. PICK q : q = Requeued(old)
    OBVIOUS
  <2>2. PICK next \in Threads :
        /\ next = Head(q) /\ q # <<>>
        /\ (next = old /\ state[old] = "RUNNING") \/ state[next] = "READY"
        /\ Tail(q) \in Seq(Threads) /\ IsInjective(Tail(q))
        /\ \A u \in Threads :
              u \in Range(Tail(q)) <=>
                 u # next /\ (state[u] = "READY" \/ (u = old /\ state[old] = "RUNNING"))
    BY <1>1, <1>2, <1>4, <2>1, RequeuedExact
  <2>3. /\ machine' = SwitchOutcome(c, old, next)
        /\ ready_q' = Tail(q)
        /\ state' = [u \in Threads |->
                       IF u = next THEN "RUNNING"
                       ELSE IF u = old /\ state[old] = "RUNNING" THEN "READY"
                       ELSE state[u]]
        /\ cur_thread' = [cur_thread EXCEPT ![h] = next]
        /\ exec' = [exec EXCEPT ![c] = next]
        /\ pc' = [u \in Threads |->
                    IF u = next /\ u # exec[c] THEN Resumed(u)
                    ELSE IF u = exec[c] THEN l
                    ELSE pc[u]]
    BY <1>2, <1>4, <2>1, <2>2 DEF Reschedule, SetCurrent
  <2>4. pc[next] # "gone"
    BY <1>1, <2>2 DEF SchedInv, PlacesOK, PlaceOK, InterruptsEnabled
  <2>5. machine' \in {"wrong_thread", "two_cpus", "running"}
    BY <2>3, <2>4 DEF SwitchOutcome
  <2>6. TypeOK'
    <3>1. state' \in [Threads -> State]
      BY <1>1, <2>3 DEF TypeOK, State
    <3>2. pc' \in [Threads -> Location]
      BY <1>1, <2>3 DEF TypeOK, Location, Resumed, LocationAfterWait
    <3>3. cur_thread' \in [CPUs -> Threads \cup {NoThread}] /\ exec' \in [CPUs -> Threads \cup {NoThread}]
      BY <1>1, <2>3 DEF TypeOK
    <3> QED
      BY <1>1, <2>2, <2>3, <2>5, <3>1, <3>2, <3>3 DEF TypeOK, Corruptions
  <2>7. ASSUME Running' PROVE SchedInv'
    <3>1. /\ old = t /\ h = c /\ exec[c] = t /\ t # NoThread
          /\ \A d \in CPUs \ {c} : exec[d] # next /\ exec[d] # t
      <4>1. old = exec[c] /\ \A d \in CPUs \ {c} : exec[d] # next
        BY <2>3, <2>7 DEF SwitchOutcome, Running
      <4> QED
        BY <1>1, <1>2, <4>1 DEF SchedInv, OneEach
    <3>2. /\ exec' = cur_thread' /\ exec'[c] = next
          /\ \A d \in CPUs \ {c} : exec'[d] = exec[d]
      BY <1>1, <2>3, <3>1 DEF TypeOK
    <3>3. /\ \A u \in Threads : OnCPU(u)' <=> (u = next \/ (u # t /\ OnCPU(u)))
          /\ OnCPU(t) /\ (next # t => ~OnCPU(next))
      BY <3>1, <3>2 DEF OnCPU
    <3>4. Booted' = Booted
      BY <3>1, <3>2 DEF Booted
    <3>5. /\ state'[next] = "RUNNING"
          /\ t # next => state'[t] = IF state[t] = "RUNNING" THEN "READY" ELSE state[t]
          /\ \A u \in Threads \ {t, next} : state'[u] = state[u]
      BY <2>3, <3>1
    <3>6. /\ t # next => pc'[next] = Resumed(next)
          /\ pc'[t] = l
          /\ \A u \in Threads \ {t, next} : pc'[u] = pc[u]
      BY <2>3, <3>1
    <3>7. /\ t = next => state[t] = "RUNNING"
          /\ t # next => state[next] = "READY" /\ pc[next] \in InterruptsEnabled \cup {"asleep"}
      <4>1. t # next => state[next] = "READY" /\ ~OnCPU(next) /\ PlaceOK(next)
        BY <1>1, <2>2, <3>1, <3>3 DEF SchedInv, PlacesOK
      <4> QED
        BY <1>4, <2>2, <3>1, <4>1 DEF PlaceOK
    <3>8. /\ state[t] = "RUNNING" => pc[t] \in InterruptsEnabled /\ (l = pc[t] \/ (pc[t] = "resched" /\ l = "run"))
          /\ state[t] = "WAITING" => pc[t] = "sleep" /\ l = "asleep"
          /\ state[t] = "DEAD" => pc[t] = "exit2" /\ l = "gone"
          /\ state[t] \in {"RUNNING", "WAITING", "DEAD"}
      <4>1. PlaceOK(t) /\ OnCPU(t) /\ state[t] \in State /\ state[t] # "READY"
        BY <1>1, <1>4, <3>1, <3>3 DEF SchedInv, PlacesOK, TypeOK
      <4> QED
        BY <4>1 DEF PlaceOK, LeftAt, InterruptsEnabled, State
    <3>9. QueuesExact'
      <4>1. IsInjective(ready_q') /\ IsInjective(wait_list') /\ IsInjective(dead_q')
        BY <1>1, <2>2, <2>3 DEF SchedInv, QueuesExact
      <4>2. ASSUME NEW u \in Threads
            PROVE  /\ u \in Range(ready_q') <=> state'[u] = "READY"
                   /\ u \in Range(wait_list') <=> state'[u] = "WAITING"
                   /\ u \in Range(dead_q') \/ u = victim'
                         <=> state'[u] # "FREE" /\ pc'[u] \in {"exit1", "exit2", "gone"}
        <5>1. u \in Range(ready_q') <=>
                 u # next /\ (state[u] = "READY" \/ (u = t /\ state[t] = "RUNNING"))
          BY <2>2, <2>3, <3>1
        <5>2. state'[u] = "READY" <=>
                 u # next /\ (state[u] = "READY" \/ (u = t /\ state[t] = "RUNNING"))
          BY <3>5, <3>8
        <5>3. state'[u] = "WAITING" <=> state[u] = "WAITING"
          BY <3>5, <3>7, <3>8
        <5>4. (state'[u] # "FREE" /\ pc'[u] \in {"exit1", "exit2", "gone"})
                 <=> (state[u] # "FREE" /\ pc[u] \in {"exit1", "exit2", "gone"})
          <6>1. CASE u = t
            BY <3>5, <3>6, <3>7, <3>8, <6>1 DEF InterruptsEnabled
          <6>2. CASE u = next /\ u # t
            BY <3>5, <3>6, <3>7, <6>2 DEF InterruptsEnabled, Resumed, LocationAfterWait
          <6>3. CASE u # next /\ u # t
            BY <3>5, <3>6, <6>3
          <6> QED
            BY <6>1, <6>2, <6>3
        <5> QED
          BY <1>1, <5>1, <5>2, <5>3, <5>4 DEF SchedInv, QueuesExact
      <4> QED
        BY <1>1, <4>1, <4>2 DEF SchedInv, QueuesExact
    <3>10. OneEach'
      BY <1>1, <3>1, <3>2 DEF OneEach, SchedInv
    <3>11. PlacesOK'
      <4>1. ASSUME NEW u \in Threads PROVE PlaceOK(u)'
        <5>1. PlaceOK(u) /\ pc[u] \in Location
          BY <1>1 DEF SchedInv, PlacesOK, TypeOK
        <5>2. CASE u = next
          <6>1. state'[u] = "RUNNING" /\ OnCPU(u)'
            BY <3>3, <3>5, <5>2
          <6>2. /\ pc'[u] \in InterruptsEnabled
                /\ pc'[u] = "resched" => pc[u] = "resched" /\ hwthread'[u] = hwthread[u]
                /\ pc'[u] \in {"reap", "rlock", "free", "sfree"} => u = Reaper
            <7>1. CASE u = t
              BY <3>6, <3>7, <3>8, <5>1, <5>2, <7>1 DEF InterruptsEnabled, PlaceOK
            <7>2. CASE u # t
              BY <3>6, <3>7, <5>1, <5>2, <7>2
                 DEF InterruptsEnabled, PlaceOK, Resumed, LocationAfterWait
            <7> QED
              BY <7>1, <7>2
          <6> QED
            BY <3>4, <5>1, <6>1, <6>2 DEF PlaceOK, InterruptsEnabled
        <5>3. CASE u = t /\ u # next
          <6>1. ~OnCPU(u)' /\ pc'[u] = l
            BY <3>3, <3>6, <5>3
          <6>2. CASE state[t] = "RUNNING"
            BY <3>4, <3>5, <3>8, <5>1, <5>3, <6>1, <6>2 DEF PlaceOK, InterruptsEnabled
          <6>3. CASE state[t] \in {"WAITING", "DEAD"}
            BY <3>5, <3>8, <5>1, <5>3, <6>1, <6>3 DEF PlaceOK
          <6> QED
            BY <3>8, <6>2, <6>3
        <5>4. CASE u # t /\ u # next
          <6>1. /\ OnCPU(u)' <=> OnCPU(u)
                /\ pc'[u] = pc[u] /\ state'[u] = state[u]
                /\ hwthread'[u] = hwthread[u]
            BY <3>3, <3>5, <3>6, <5>4
          <6> QED
            BY <3>4, <5>1, <6>1 DEF PlaceOK
        <5> QED
          BY <5>2, <5>3, <5>4
      <4> QED
        BY <4>1 DEF PlacesOK
    <3>12. BootOK'
      BY <1>1, <3>4, <3>5, <3>7, <3>8 DEF SchedInv, BootOK
    <3>13. OwnerOK'
      <4>1. ASSUME NEW u \in Threads, state[u] \in {"READY", "RUNNING"}
            PROVE  state'[u] \in {"READY", "RUNNING"} /\ (pc'[u] = "exit1" => pc[u] = "exit1")
        BY <3>5, <3>6, <3>7, <3>8, <4>1 DEF InterruptsEnabled, Resumed, LocationAfterWait
      <4>2. OwnerOK /\ owner \in Threads \cup {NoThread} /\ owner' = owner /\ wait_list' = wait_list
        BY <1>1 DEF SchedInv, TypeOK
      <4> QED
        BY <4>1, <4>2 DEF OwnerOK
    <3>14. ReaperOK'
      <4>1. ReaperOK /\ PlaceOK(Reaper) /\ victim \in Threads \cup {NoThread} /\ victim' = victim
        BY <1>1 DEF SchedInv, TypeOK, PlacesOK
      <4>2. /\ pc'[Reaper] \in {"run", "resched"} <=> pc[Reaper] \in {"run", "resched"}
            /\ pc'[Reaper] \in {"rlock", "sleep", "asleep", "free", "sfree"} =>
                  pc[Reaper] \in {"rlock", "sleep", "asleep", "free", "sfree"}
            /\ pc'[Reaper] = "sfree" => pc[Reaper] = "sfree"
        <5>1. CASE Reaper = t
          BY <3>6, <3>8, <4>1, <5>1 DEF InterruptsEnabled, PlaceOK
        <5>2. CASE Reaper = next /\ Reaper # t
          BY <3>6, <3>7, <5>2 DEF InterruptsEnabled, Resumed, LocationAfterWait
        <5>3. CASE Reaper # next /\ Reaper # t
          BY <3>6, <5>3
        <5> QED
          BY <5>1, <5>2, <5>3
      <4>3. ASSUME NEW u \in Threads, state[u] = "DEAD"
            PROVE  state'[u] = "DEAD" /\ u # next
        BY <3>5, <3>7, <4>3
      <4> QED
        BY <3>3, <4>1, <4>2, <4>3 DEF ReaperOK
    <3> QED
      BY <3>9, <3>10, <3>11, <3>12, <3>13, <3>14 DEF SchedInv
  <2> QED
    BY <2>5, <2>6, <2>7 DEF SchedIInv
<1> QED
  BY <1>3, <1>4

\* A thread that executes with interrupts enabled, or has just queued itself in
\* thread_exit, is RUNNING.
LEMMA Executes ==
    ASSUME SchedIInv, NEW c \in CPUs, NEW t \in Threads, NEW l, At(c, t, l)
    PROVE  /\ TypeOK /\ SchedInv /\ Running
           /\ exec[c] = t /\ OnCPU(t) /\ c \in Booted /\ pc[t] = l /\ PlaceOK(t)
           /\ l \in InterruptsEnabled \cup {"exit1"} => state[t] = "RUNNING"
           /\ l = "sleep" => state[t] \in {"WAITING", "READY"}
           /\ l = "exit2" => state[t] = "DEAD"
<1> USE Names
<1>1. /\ TypeOK /\ SchedInv /\ Running
      /\ exec[c] = t /\ OnCPU(t) /\ c \in Booted /\ pc[t] = l /\ PlaceOK(t) /\ state[t] \in State
  BY DEF At, SchedIInv, Running, OnCPU, Booted, SchedInv, PlacesOK, TypeOK
<1> QED
  BY <1>1 DEF PlaceOK, InterruptsEnabled, State

\* The actions that are a call of reschedule().
LEMMA SwitchInv ==
    ASSUME SchedIInv, NEW c \in CPUs,
           timer_tick(c) \/ VoluntarySwitch(c) \/ wait(c) \/ ThreadExitSwitch(c)
    PROVE  SchedIInv'
<1> USE Names
<1>1. CASE timer_tick(c)
  <2>1. PICK t \in Threads, l \in InterruptsEnabled :
          /\ At(c, t, l) /\ Reschedule(c, c, l)
          /\ UNCHANGED <<dead_q, hwthread, victim, owner, wait_list>>
    BY <1>1 DEF timer_tick
  <2>2. /\ exec[c] = t /\ c \in Booted /\ Running /\ l \in Location /\ LeftAt(t, l)
        /\ hwthread' \in [Threads -> CPUs]
    BY <2>1, Executes DEF LeftAt, InterruptsEnabled, Location, TypeOK
  <2> QED
    BY <2>1, <2>2, RescheduleInv
<1>2. CASE VoluntarySwitch(c)
  <2>1. PICK t \in Threads :
          /\ At(c, t, "resched") /\ Reschedule(c, hwthread[t], "run")
          /\ hwthread' = [hwthread EXCEPT ![t] = BootCPU]
          /\ UNCHANGED <<dead_q, victim, owner, wait_list>>
    BY <1>2 DEF VoluntarySwitch
  <2>2. /\ exec[c] = t /\ hwthread[t] \in Booted /\ Running /\ "run" \in Location
        /\ LeftAt(t, "run") /\ hwthread' \in [Threads -> CPUs]
        /\ \A u \in Threads : hwthread'[u] = hwthread[u] \/ u = t
    BY <2>1, Executes DEF LeftAt, Location, TypeOK, PlaceOK
  <2> QED
    BY <2>1, <2>2, RescheduleInv
<1>3. CASE wait(c)
  <2>1. PICK t \in Threads :
          /\ At(c, t, "sleep") /\ Reschedule(c, c, "asleep")
          /\ UNCHANGED <<dead_q, hwthread, victim, owner, wait_list>>
    BY <1>3 DEF wait
  <2>2. /\ exec[c] = t /\ c \in Booted /\ Running /\ "asleep" \in Location /\ LeftAt(t, "asleep")
        /\ hwthread' \in [Threads -> CPUs]
    BY <2>1, Executes DEF LeftAt, Location, TypeOK
  <2> QED
    BY <2>1, <2>2, RescheduleInv
<1>4. CASE ThreadExitSwitch(c)
  <2>1. PICK t \in Threads :
          /\ At(c, t, "exit2") /\ Reschedule(c, c, "gone")
          /\ UNCHANGED <<dead_q, hwthread, victim, owner, wait_list>>
    BY <1>4 DEF ThreadExitSwitch
  <2>2. /\ exec[c] = t /\ c \in Booted /\ Running /\ "gone" \in Location /\ LeftAt(t, "gone")
        /\ hwthread' \in [Threads -> CPUs]
    BY <2>1, Executes DEF LeftAt, Location, TypeOK
  <2> QED
    BY <2>1, <2>2, RescheduleInv
<1> QED
  BY <1>1, <1>2, <1>3, <1>4

\* boot_init_thread: the idle thread of c starts to run on c.
LEMMA BootInv ==
    ASSUME SchedIInv, NEW c \in CPUs, boot_init_thread(c)
    PROVE  SchedIInv'
<1> USE Names DEF SchedInv
<1>1. /\ TypeOK /\ SchedInv /\ Running /\ exec = cur_thread /\ exec[c] = NoThread
      /\ c = BootCPU \/ exec[BootCPU] # NoThread
      /\ exec' = [exec EXCEPT ![c] = c] /\ cur_thread' = [cur_thread EXCEPT ![c] = c]
      /\ state' = [state EXCEPT ![c] = "RUNNING"]
      /\ UNCHANGED <<ready_q, dead_q, pc, hwthread, victim, owner, wait_list, machine>>
  BY DEF SchedIInv, Running, OneEach, boot_init_thread
<1>2. /\ exec' = cur_thread' /\ exec'[c] = c /\ state'[c] = "RUNNING"
      /\ \A d \in CPUs \ {c} : exec'[d] = exec[d]
      /\ \A u \in Threads \ {c} : state'[u] = state[u]
  BY <1>1 DEF TypeOK
<1>3. /\ state[c] = "FREE" /\ ~OnCPU(c) /\ pc[c] = "run" /\ PlaceOK(c)
  BY <1>1 DEF BootOK, PlacesOK, PlaceOK, Booted
<1>4. Booted' = Booted \cup {c} /\ \A u \in Threads : OnCPU(u)' <=> (OnCPU(u) \/ u = c)
  BY <1>1, <1>2 DEF Booted, OnCPU
<1>5. TypeOK'
  BY <1>1 DEF TypeOK, State
<1>6. QueuesExact'
  BY <1>1, <1>2, <1>3 DEF QueuesExact
<1>7. OneEach'
  BY <1>1, <1>2, <1>3 DEF OneEach, OnCPU
<1>8. PlacesOK'
  <2>1. ASSUME NEW u \in Threads PROVE PlaceOK(u)'
    <3>1. CASE u = c
      BY <1>1, <1>2, <1>3, <1>4, <3>1 DEF PlaceOK, InterruptsEnabled
    <3>2. CASE u # c
      <4>1. /\ OnCPU(u)' <=> OnCPU(u)
            /\ pc'[u] = pc[u] /\ state'[u] = state[u] /\ hwthread'[u] = hwthread[u] /\ PlaceOK(u)
        BY <1>1, <1>2, <1>4, <3>2 DEF PlacesOK
      <4> QED
        BY <1>4, <4>1 DEF PlaceOK
    <3> QED
      BY <3>1, <3>2
  <2> QED
    BY <2>1 DEF PlacesOK
<1>9. BootOK'
  BY <1>1, <1>2, <1>4 DEF BootOK, Booted
<1>10. OwnerOK'
  BY <1>1, <1>2, <1>3 DEF OwnerOK, TypeOK
<1>11. ReaperOK'
  <2>1. \A u \in Threads : state[u] = "DEAD" => u # c
    BY <1>3
  <2> QED
    BY <1>1, <1>2, <1>4, <2>1 DEF ReaperOK, TypeOK
<1> QED
  BY <1>1, <1>5, <1>6, <1>7, <1>8, <1>9, <1>10, <1>11 DEF SchedIInv, Running

\* spawn_thread_internal: a slot that is free becomes a READY thread.
LEMMA SpawnInv ==
    ASSUME SchedIInv, NEW c \in CPUs, NEW n \in Workers \cup {Reaper}, spawn(c, n)
    PROVE  SchedIInv'
<1> USE Names DEF SchedInv
<1>1. /\ TypeOK /\ SchedInv /\ Running /\ n \in Threads
      /\ state[n] = "FREE"
      /\ state' = [state EXCEPT ![n] = "READY"]
      /\ ready_q' = Append(ready_q, n)
      /\ pc' = [pc EXCEPT ![n] = "run"]
      /\ UNCHANGED <<cur_thread, exec, dead_q, hwthread, victim, owner, wait_list, machine>>
  BY DEF SchedIInv, Running, spawn, At
<1>2. /\ state'[n] = "READY" /\ pc'[n] = "run"
      /\ \A u \in Threads \ {n} : state'[u] = state[u] /\ pc'[u] = pc[u]
      /\ \A u \in Threads : OnCPU(u)' <=> OnCPU(u)
      /\ Booted' = Booted /\ exec' = exec /\ cur_thread' = cur_thread
  BY <1>1 DEF TypeOK, OnCPU, Booted
<1>3. /\ ~OnCPU(n) /\ PlaceOK(n) /\ n \notin Range(ready_q)
      /\ n \notin Range(dead_q) /\ n # victim /\ n \notin Range(wait_list)
  BY <1>1 DEF PlacesOK, PlaceOK, QueuesExact
<1>4. /\ ready_q' \in Seq(Threads) /\ IsInjective(ready_q')
      /\ Range(ready_q') = Range(ready_q) \cup {n}
  BY <1>1, <1>3, AppendQueue DEF TypeOK, QueuesExact
<1>5. TypeOK'
  BY <1>1, <1>4 DEF TypeOK, State, Location
<1>6. QueuesExact'
  BY <1>1, <1>2, <1>3, <1>4 DEF QueuesExact
<1>7. OneEach'
  BY <1>1 DEF OneEach
<1>8. PlacesOK'
  <2>1. ASSUME NEW u \in Threads PROVE PlaceOK(u)'
    <3>1. CASE u = n
      BY <1>2, <1>3, <3>1 DEF PlaceOK, InterruptsEnabled
    <3>2. CASE u # n
      <4>1. PlaceOK(u) /\ hwthread'[u] = hwthread[u]
        BY <1>1 DEF PlacesOK
      <4> QED
        BY <1>2, <3>2, <4>1 DEF PlaceOK
    <3> QED
      BY <3>1, <3>2
  <2> QED
    BY <2>1 DEF PlacesOK
<1>9. BootOK'
  BY <1>1, <1>2 DEF BootOK
<1>10. OwnerOK'
  BY <1>1, <1>2 DEF OwnerOK, TypeOK
<1>11. ReaperOK'
  <2>1. n = Reaper => pc[n] \in {"run", "resched"}
    BY <1>1, <1>3 DEF PlaceOK
  <2> QED
    BY <1>1, <1>2, <1>3, <2>1 DEF ReaperOK, TypeOK
<1> QED
  BY <1>1, <1>5, <1>6, <1>7, <1>8, <1>9, <1>10, <1>11 DEF SchedIInv, Running

\* A step that switches no hardware thread preserves the invariant when it
\* preserves what it touches: the queues, the owner, the reaper's knowledge and
\* the places of the threads it changes.
LEMMA NoSwitchInv ==
    ASSUME SchedIInv, Running, TypeOK', UNCHANGED <<cur_thread, exec, machine>>,
           \A u \in Threads :
              \/ PlaceOK(u)'
              \/ state'[u] = state[u] /\ pc'[u] = pc[u] /\ hwthread'[u] = hwthread[u],
           \A u \in CPUs : state'[u] = "FREE" <=> state[u] = "FREE",
           QueuesExact', OwnerOK', ReaperOK'
    PROVE  SchedIInv'
<1> USE Names DEF SchedInv
<1>1. /\ SchedInv /\ Booted' = Booted
      /\ \A u \in Threads : OnCPU(u)' <=> OnCPU(u)
  BY DEF SchedIInv, Booted, OnCPU
<1>2. PlacesOK'
  <2>1. ASSUME NEW u \in Threads, ~PlaceOK(u)' PROVE FALSE
    <3>1. /\ state'[u] = state[u] /\ pc'[u] = pc[u] /\ hwthread'[u] = hwthread[u]
          /\ PlaceOK(u) /\ (OnCPU(u)' <=> OnCPU(u))
      BY <1>1, <2>1 DEF PlacesOK
    <3> QED
      BY <1>1, <2>1, <3>1 DEF PlaceOK
  <2> QED
    BY <2>1 DEF PlacesOK
<1>3. OneEach'
  BY <1>1 DEF OneEach
<1>4. BootOK'
  BY <1>1 DEF BootOK
<1> QED
  BY <1>2, <1>3, <1>4 DEF SchedIInv, Running

\* A voluntary caller of reschedule() reads the number of a running hardware
\* thread.
LEMMA CallRescheduleInv ==
    ASSUME SchedIInv, NEW c \in CPUs, CallReschedule(c)
    PROVE  SchedIInv'
<1> USE Names
<1>1. PICK t \in Threads :
        /\ t # Reaper /\ At(c, t, "run")
        /\ hwthread' = [hwthread EXCEPT ![t] = c]
        /\ pc' = [pc EXCEPT ![t] = "resched"]
        /\ UNCHANGED <<cur_thread, exec, state, ready_q, dead_q, victim, owner, wait_list, machine>>
  BY DEF CallReschedule, current_hw_thread
<1>2. /\ TypeOK /\ SchedInv /\ Running /\ c \in Booted /\ pc[t] = "run" /\ PlaceOK(t)
      /\ OnCPU(t) /\ state[t] = "RUNNING"
  BY <1>1, Executes DEF InterruptsEnabled
<1>3. /\ pc'[t] = "resched" /\ hwthread'[t] = c
      /\ \A u \in Threads \ {t} : pc'[u] = pc[u] /\ hwthread'[u] = hwthread[u]
  BY <1>1, <1>2 DEF TypeOK
<1>4. TypeOK'
  BY <1>1, <1>2 DEF TypeOK, Location
<1>5. PlaceOK(t)'
  <2>1. OnCPU(t)' /\ Booted' = Booted /\ state'[t] = "RUNNING"
    BY <1>1, <1>2 DEF OnCPU, Booted
  <2> QED
    BY <1>2, <1>3, <2>1 DEF PlaceOK, InterruptsEnabled
<1>6. QueuesExact'
  BY <1>1, <1>2, <1>3 DEF SchedInv, QueuesExact
<1>7. OwnerOK' /\ ReaperOK'
  BY <1>1, <1>2, <1>3 DEF SchedInv, OwnerOK, ReaperOK, OnCPU
<1> QED
  BY <1>1, <1>2, <1>3, <1>4, <1>5, <1>6, <1>7, NoSwitchInv

\* rwlock_lock_write by a thread or by the reaper: it gets a free lock, and
\* otherwise waits for an owner that can run.
LEMMA LockWriteInv ==
    ASSUME SchedIInv, NEW c \in CPUs, NEW t \in Threads, NEW l, NEW held,
           \/ t \in Lockers /\ l = "run" /\ held = "run"
           \/ t = Reaper /\ l = "rlock" /\ held = "free",
           LockWriteAs(c, t, l, held)
    PROVE  SchedIInv'
<1> USE Names
<1>1. /\ TypeOK /\ SchedInv /\ Running /\ pc[t] = l /\ PlaceOK(t) /\ OnCPU(t)
      /\ state[t] = "RUNNING" /\ t \notin Range(wait_list)
      /\ (t \in Lockers /\ t # Reaper /\ l = "run" /\ held = "run")
            \/ (t = Reaper /\ l = "rlock" /\ held = "free")
  <2>1. At(c, t, l) /\ l \in InterruptsEnabled
    BY DEF LockWriteAs, InterruptsEnabled
  <2>2. /\ TypeOK /\ SchedInv /\ Running /\ pc[t] = l /\ PlaceOK(t) /\ OnCPU(t)
        /\ state[t] = "RUNNING"
    BY <2>1, Executes
  <2> QED
    BY <2>2 DEF SchedInv, QueuesExact, Lockers
<1>2. /\ UNCHANGED <<cur_thread, exec, ready_q, dead_q, hwthread, victim, machine>>
      /\ OnCPU(t)' /\ Booted' = Booted /\ \A u : OnCPU(u)' <=> OnCPU(u)
  BY <1>1 DEF LockWriteAs, OnCPU, Booted
<1>3. CASE owner = NoThread
  <2>1. owner' = t /\ pc' = [pc EXCEPT ![t] = held] /\ UNCHANGED <<state, wait_list>>
    BY <1>3 DEF LockWriteAs
  <2>2. pc'[t] = held /\ \A u \in Threads \ {t} : pc'[u] = pc[u]
    BY <1>1, <2>1 DEF TypeOK
  <2>3. TypeOK'
    BY <1>1, <1>2, <2>1 DEF TypeOK, Location
  <2>4. PlaceOK(t)'
    BY <1>1, <1>2, <2>1, <2>2 DEF PlaceOK, InterruptsEnabled, Lockers
  <2>5. QueuesExact'
    <3>1. \A u \in Threads : pc'[u] \in {"exit1", "exit2", "gone"} <=> pc[u] \in {"exit1", "exit2", "gone"}
      BY <1>1, <2>2
    <3> QED
      BY <1>1, <1>2, <2>1, <3>1 DEF SchedInv, QueuesExact
  <2>6. OwnerOK'
    BY <1>1, <2>1 DEF SchedInv, OwnerOK
  <2>7. ReaperOK'
    <3>1. CASE t = Reaper
      BY <1>1, <1>2, <2>1, <2>2, <3>1 DEF SchedInv, ReaperOK, Lockers
    <3>2. CASE t # Reaper
      BY <1>1, <1>2, <2>1, <2>2, <3>2 DEF SchedInv, ReaperOK
    <3> QED
      BY <3>1, <3>2
  <2> QED
    BY <1>1, <1>2, <2>1, <2>2, <2>3, <2>4, <2>5, <2>6, <2>7, NoSwitchInv
<1>4. CASE owner # NoThread
  <2>1. /\ owner # t /\ owner' = owner /\ wait_list' = Append(wait_list, t)
        /\ state' = [state EXCEPT ![t] = "WAITING"]
        /\ pc' = [pc EXCEPT ![t] = "sleep"]
    BY <1>4 DEF LockWriteAs
  <2>2. /\ pc'[t] = "sleep" /\ state'[t] = "WAITING"
        /\ \A u \in Threads \ {t} : pc'[u] = pc[u] /\ state'[u] = state[u]
    BY <1>1, <2>1 DEF TypeOK
  <2>3. /\ wait_list' \in Seq(Threads) /\ IsInjective(wait_list') /\ wait_list' # <<>>
        /\ Range(wait_list') = Range(wait_list) \cup {t}
    BY <1>1, <2>1, AppendQueue DEF TypeOK, SchedInv, QueuesExact
  <2>4. TypeOK'
    BY <1>1, <1>2, <2>1, <2>3 DEF TypeOK, Location, State
  <2>5. PlaceOK(t)'
    BY <1>1, <1>2, <2>2 DEF PlaceOK, InterruptsEnabled
  <2>6. QueuesExact'
    BY <1>1, <1>2, <2>2, <2>3 DEF SchedInv, QueuesExact
  <2>7. OwnerOK'
    BY <1>1, <1>4, <2>1, <2>2 DEF SchedInv, OwnerOK, TypeOK
  <2>8. ReaperOK'
    <3>1. \A u \in Threads : state[u] = "DEAD" => state'[u] = "DEAD"
      BY <1>1, <2>2
    <3>2. victim \in Threads \cup {NoThread}
      BY <1>1 DEF TypeOK
    <3>3. CASE t = Reaper
      BY <1>1, <1>2, <2>2, <3>1, <3>2, <3>3 DEF SchedInv, ReaperOK, Lockers
    <3>4. CASE t # Reaper
      BY <1>1, <1>2, <2>2, <3>1, <3>2, <3>4 DEF SchedInv, ReaperOK
    <3> QED
      BY <3>3, <3>4
  <2> QED
    BY <1>1, <1>2, <2>2, <2>4, <2>5, <2>6, <2>7, <2>8, NoSwitchInv
<1> QED
  BY <1>3, <1>4

\* rwlock_unlock_write: the thread it wakes is WAITING, leaves the wait list for
\* the ready queue and owns the lock.
LEMMA HandOverExact ==
    ASSUME TypeOK, SchedInv, Running, HandOver
    PROVE  /\ machine' = machine
           /\ owner' \in Threads \cup {NoThread} /\ wait_list' \in Seq(Threads)
           /\ ready_q' \in Seq(Threads) /\ state' \in [Threads -> State]
           /\ IsInjective(ready_q') /\ IsInjective(wait_list')
           /\ \A u \in Threads :
                 /\ u \in Range(ready_q') <=> state'[u] = "READY"
                 /\ u \in Range(wait_list') <=> state'[u] = "WAITING"
                 /\ state'[u] = state[u] \/ (state[u] = "WAITING" /\ state'[u] = "READY")
           /\ wait_list' # <<>> => owner' # NoThread
           /\ owner' # NoThread => /\ owner' \in Lockers \cup {Reaper}
                                   /\ state'[owner'] = "READY" /\ pc[owner'] # "exit1"
<1> USE Names DEF SchedInv
<1>1. CASE wait_list = <<>>
  <2>1. owner' = NoThread /\ UNCHANGED <<wait_list, state, ready_q, machine>>
    BY <1>1 DEF HandOver
  <2> QED
    BY <1>1, <2>1 DEF TypeOK, QueuesExact, OwnerOK
<1>2. CASE wait_list # <<>>
  <2>1. PICK w \in Threads :
          /\ w = Head(wait_list) /\ w \in Range(wait_list) /\ Tail(wait_list) \in Seq(Threads)
          /\ Range(Tail(wait_list)) = Range(wait_list) \ {w} /\ IsInjective(Tail(wait_list))
    BY <1>2, TailQueue DEF TypeOK, QueuesExact
  <2>2. state[w] = "WAITING" /\ w \notin Range(ready_q)
    BY <2>1 DEF QueuesExact
  <2>3. /\ owner' = w /\ wait_list' = Tail(wait_list)
        /\ state' = [state EXCEPT ![w] = "READY"]
        /\ ready_q' = Append(ready_q, w) /\ machine' = machine
    BY <1>2, <2>1, <2>2 DEF HandOver, make_thread_ready
  <2>4. /\ ready_q' \in Seq(Threads) /\ IsInjective(ready_q')
        /\ Range(ready_q') = Range(ready_q) \cup {w}
    BY <2>2, <2>3, AppendQueue DEF TypeOK, QueuesExact
  <2>5. /\ state' \in [Threads -> State] /\ state'[w] = "READY"
        /\ \A u \in Threads \ {w} : state'[u] = state[u]
    BY <2>3 DEF TypeOK, State
  <2>6. w \in Lockers \cup {Reaper} /\ pc[w] # "exit1"
    BY <2>2 DEF PlacesOK, PlaceOK
  <2>8. \A u \in Threads :
          /\ u \in Range(ready_q') <=> state'[u] = "READY"
          /\ u \in Range(wait_list') <=> state'[u] = "WAITING"
    BY <2>1, <2>2, <2>3, <2>4, <2>5 DEF QueuesExact
  <2> QED
    BY <2>1, <2>2, <2>3, <2>4, <2>5, <2>6, <2>8
<1> QED
  BY <1>1, <1>2

\* The two places that release the lock; the reaper goes on to slab_free.
LEMMA UnlockWriteInv ==
    ASSUME SchedIInv, NEW c \in CPUs, HandOver,
           UNCHANGED <<cur_thread, exec, dead_q, hwthread, victim>>,
           \/ Running /\ pc' = pc
           \/ /\ At(c, Reaper, "free") /\ pc' = [pc EXCEPT ![Reaper] = "sfree"]
              /\ \A d \in CPUs : exec[d] # victim
    PROVE  SchedIInv'
<1> USE Names
<1>1. TypeOK /\ SchedInv /\ Running
  BY DEF SchedIInv, At, Running
<1>2. /\ machine' = machine
      /\ owner' \in Threads \cup {NoThread} /\ wait_list' \in Seq(Threads)
      /\ ready_q' \in Seq(Threads) /\ state' \in [Threads -> State]
      /\ IsInjective(ready_q') /\ IsInjective(wait_list')
      /\ \A u \in Threads :
            /\ u \in Range(ready_q') <=> state'[u] = "READY"
            /\ u \in Range(wait_list') <=> state'[u] = "WAITING"
            /\ state'[u] = state[u] \/ (state[u] = "WAITING" /\ state'[u] = "READY")
      /\ wait_list' # <<>> => owner' # NoThread
      /\ owner' # NoThread => /\ owner' \in Lockers \cup {Reaper}
                              /\ state'[owner'] = "READY" /\ pc[owner'] # "exit1"
  BY <1>1, HandOverExact
<1>3. /\ pc' \in [Threads -> Location]
      /\ \A u \in Threads :
           \/ pc'[u] = pc[u]
           \/ /\ u = Reaper /\ pc[u] = "free" /\ pc'[u] = "sfree" /\ OnCPU(u)
              /\ ~OnCPU(victim) /\ state[u] = "RUNNING" /\ state'[u] = "RUNNING"
  <2>1. CASE pc' = pc
    BY <1>1, <2>1 DEF TypeOK
  <2>2. CASE At(c, Reaper, "free") /\ pc' = [pc EXCEPT ![Reaper] = "sfree"]
             /\ \A d \in CPUs : exec[d] # victim
    <3>1. pc[Reaper] = "free" /\ OnCPU(Reaper) /\ state[Reaper] = "RUNNING"
      BY <2>2, Executes DEF InterruptsEnabled
    <3>2. pc' \in [Threads -> Location] /\ pc'[Reaper] = "sfree" /\ \A u \in Threads \ {Reaper} : pc'[u] = pc[u]
      BY <1>1, <2>2 DEF TypeOK, Location
    <3>3. state'[Reaper] = "RUNNING"
      BY <1>2, <3>1
    <3> QED
      BY <2>2, <3>1, <3>2, <3>3 DEF OnCPU
  <2> QED
    BY <2>1, <2>2
<1>4. TypeOK'
  BY <1>1, <1>2, <1>3 DEF TypeOK
<1>5. \A u \in Threads : OnCPU(u)' <=> OnCPU(u)
  BY DEF OnCPU
<1>6. ASSUME NEW u \in Threads PROVE PlaceOK(u)'
  <2>1. PlaceOK(u) /\ hwthread'[u] = hwthread[u] /\ Booted' = Booted
    BY <1>1 DEF SchedInv, PlacesOK, Booted
  <2>2. CASE pc'[u] = pc[u] /\ state'[u] = state[u]
    BY <1>5, <2>1, <2>2 DEF PlaceOK
  <2>3. CASE pc'[u] = pc[u] /\ state[u] = "WAITING" /\ state'[u] = "READY"
    BY <1>5, <2>1, <2>3 DEF PlaceOK
  <2>4. CASE pc'[u] # pc[u]
    BY <1>3, <1>5, <2>1, <2>4 DEF PlaceOK, InterruptsEnabled
  <2> QED
    BY <1>2, <2>2, <2>3, <2>4
<1>7. QueuesExact'
  <2>1. ASSUME NEW u \in Threads
        PROVE  (state'[u] # "FREE" /\ pc'[u] \in {"exit1", "exit2", "gone"})
                  <=> (state[u] # "FREE" /\ pc[u] \in {"exit1", "exit2", "gone"})
    BY <1>2, <1>3
  <2> QED
    BY <1>1, <1>2, <2>1 DEF SchedInv, QueuesExact
<1>8. ReaperOK'
  <2>1. \A u \in Threads : state[u] = "DEAD" => state'[u] = "DEAD"
    BY <1>2
  <2>2. victim \in Threads \cup {NoThread} /\ victim' = victim /\ ReaperOK
    BY <1>1 DEF TypeOK, SchedInv
  <2>3. OnCPU(victim)' <=> OnCPU(victim)
    BY DEF OnCPU
  <2>4. CASE pc'[Reaper] = pc[Reaper]
    BY <2>1, <2>2, <2>3, <2>4 DEF ReaperOK
  <2>5. CASE pc'[Reaper] # pc[Reaper]
    BY <1>3, <2>1, <2>2, <2>3, <2>5 DEF ReaperOK
  <2> QED
    BY <2>4, <2>5
<1>9. OwnerOK'
  BY <1>2, <1>3 DEF OwnerOK
<1> QED
  BY <1>1, <1>2, <1>4, <1>6, <1>7, <1>8, <1>9, NoSwitchInv

\* thread_exit up to its reschedule(): the thread is on dead_q once.
LEMMA ThreadExitInv ==
    ASSUME SchedIInv, NEW c \in CPUs, ThreadExitQueue(c) \/ ThreadExitDead(c)
    PROVE  SchedIInv'
<1> USE Names
<1>1. CASE ThreadExitQueue(c)
  <2>1. PICK t \in Workers :
          /\ At(c, t, "run") /\ owner # t
          /\ dead_q' = Append(dead_q, t)
          /\ pc' = [pc EXCEPT ![t] = "exit1"]
          /\ UNCHANGED <<cur_thread, exec, state, ready_q, hwthread, victim, owner, wait_list, machine>>
    BY <1>1 DEF ThreadExitQueue
  <2>2. /\ TypeOK /\ SchedInv /\ Running /\ pc[t] = "run" /\ PlaceOK(t) /\ OnCPU(t)
        /\ state[t] = "RUNNING" /\ t \in Threads
    BY <2>1, Executes DEF InterruptsEnabled
  <2>3. t \notin Range(dead_q) /\ t # victim
    BY <2>2 DEF SchedInv, QueuesExact
  <2>4. /\ dead_q' \in Seq(Threads) /\ IsInjective(dead_q')
        /\ Range(dead_q') = Range(dead_q) \cup {t}
    BY <2>1, <2>2, <2>3, AppendQueue DEF TypeOK, SchedInv, QueuesExact
  <2>5. pc'[t] = "exit1" /\ \A u \in Threads \ {t} : pc'[u] = pc[u]
    BY <2>1, <2>2 DEF TypeOK
  <2>6. TypeOK'
    BY <2>1, <2>2, <2>4 DEF TypeOK, Location
  <2>7. PlaceOK(t)'
    <3>1. OnCPU(t)' /\ state'[t] = "RUNNING"
      BY <2>1, <2>2 DEF OnCPU
    <3> QED
      BY <2>5, <3>1 DEF PlaceOK, InterruptsEnabled
  <2>8. QueuesExact'
    BY <2>1, <2>2, <2>3, <2>4, <2>5 DEF SchedInv, QueuesExact
  <2>9. OwnerOK' /\ ReaperOK'
    BY <2>1, <2>2, <2>5 DEF SchedInv, OwnerOK, ReaperOK, OnCPU
  <2> QED
    BY <2>1, <2>2, <2>5, <2>6, <2>7, <2>8, <2>9, NoSwitchInv
<1>2. CASE ThreadExitDead(c)
  <2>1. PICK t \in Workers :
          /\ At(c, t, "exit1")
          /\ state' = [state EXCEPT ![t] = "DEAD"]
          /\ pc' = [pc EXCEPT ![t] = "exit2"]
          /\ UNCHANGED <<cur_thread, exec, ready_q, dead_q, hwthread, victim, owner, wait_list, machine>>
    BY <1>2 DEF ThreadExitDead
  <2>2. /\ TypeOK /\ SchedInv /\ Running /\ pc[t] = "exit1" /\ PlaceOK(t) /\ OnCPU(t)
        /\ state[t] = "RUNNING" /\ t \in Threads
    BY <2>1, Executes DEF InterruptsEnabled
  <2>3. /\ pc'[t] = "exit2" /\ state'[t] = "DEAD"
        /\ \A u \in Threads \ {t} : pc'[u] = pc[u] /\ state'[u] = state[u]
    BY <2>1, <2>2 DEF TypeOK
  <2>4. TypeOK'
    BY <2>1, <2>2 DEF TypeOK, Location, State
  <2>5. PlaceOK(t)'
    <3>1. OnCPU(t)'
      BY <2>1, <2>2 DEF OnCPU
    <3> QED
      BY <2>3, <3>1 DEF PlaceOK, InterruptsEnabled
  <2>6. QueuesExact'
    BY <2>1, <2>2, <2>3 DEF SchedInv, QueuesExact
  <2>7. owner # t
    BY <2>2 DEF SchedInv, OwnerOK
  <2>8. OwnerOK' /\ ReaperOK'
    BY <2>1, <2>2, <2>3, <2>7 DEF SchedInv, OwnerOK, ReaperOK, OnCPU, TypeOK
  <2> QED
    BY <2>1, <2>2, <2>3, <2>4, <2>5, <2>6, <2>8, NoSwitchInv
<1> QED
  BY <1>1, <1>2

\* grim_reaper: the thread it takes is in its hands and nowhere else.
LEMMA GrimReaperInv ==
    ASSUME SchedIInv, NEW c \in CPUs, grim_reaper(c)
    PROVE  SchedIInv'
<1> USE Names
<1>1. /\ TypeOK /\ SchedInv /\ Running /\ pc[Reaper] = "run" /\ PlaceOK(Reaper) /\ OnCPU(Reaper)
      /\ state[Reaper] = "RUNNING" /\ c \in Booted /\ victim = NoThread
  <2>1. At(c, Reaper, "run") /\ "run" \in InterruptsEnabled
    BY DEF grim_reaper, InterruptsEnabled
  <2> QED
    BY <2>1, Executes DEF SchedInv, ReaperOK
<1>2. UNCHANGED <<cur_thread, exec, state, ready_q, owner, wait_list, machine>>
  BY DEF grim_reaper
<1>3. OnCPU(Reaper)' /\ Booted' = Booted
  BY <1>1, <1>2 DEF OnCPU, Booted
<1>4. CASE dead_q # <<>>
  <2>1. PICK v \in Threads :
          /\ v = Head(dead_q) /\ v \in Range(dead_q) /\ Tail(dead_q) \in Seq(Threads)
          /\ Range(Tail(dead_q)) = Range(dead_q) \ {v} /\ IsInjective(Tail(dead_q))
    BY <1>1, <1>4, TailQueue DEF TypeOK, SchedInv, QueuesExact
  <2>2. /\ victim' = v /\ dead_q' = Tail(dead_q) /\ hwthread' = hwthread
        /\ pc' = [pc EXCEPT ![Reaper] = "reap"]
    BY <1>4, <2>1 DEF grim_reaper
  <2>3. pc'[Reaper] = "reap" /\ \A u \in Threads \ {Reaper} : pc'[u] = pc[u]
    BY <1>1, <2>2 DEF TypeOK
  <2>4. TypeOK'
    BY <1>1, <1>2, <2>1, <2>2 DEF TypeOK, Location
  <2>5. PlaceOK(Reaper)'
    BY <1>1, <1>2, <1>3, <2>3 DEF PlaceOK, InterruptsEnabled
  <2>6. QueuesExact'
    BY <1>1, <1>2, <2>1, <2>2, <2>3 DEF SchedInv, QueuesExact
  <2>7. OwnerOK'
    BY <1>1, <1>2, <2>3 DEF SchedInv, OwnerOK, TypeOK
  <2>8. ReaperOK'
    BY <2>2, <2>3 DEF ReaperOK
  <2> QED
    BY <1>1, <1>2, <2>2, <2>3, <2>4, <2>5, <2>6, <2>7, <2>8, NoSwitchInv
<1>5. CASE dead_q = <<>>
  <2>1. /\ hwthread' = [hwthread EXCEPT ![Reaper] = c] /\ UNCHANGED <<victim, dead_q>>
        /\ pc' = [pc EXCEPT ![Reaper] = "resched"]
    BY <1>5 DEF grim_reaper, current_hw_thread
  <2>2. /\ pc'[Reaper] = "resched" /\ hwthread'[Reaper] = c
        /\ \A u \in Threads \ {Reaper} : pc'[u] = pc[u] /\ hwthread'[u] = hwthread[u]
    BY <1>1, <2>1 DEF TypeOK
  <2>3. TypeOK'
    BY <1>1, <1>2, <2>1 DEF TypeOK, Location
  <2>4. PlaceOK(Reaper)'
    BY <1>1, <1>2, <1>3, <2>2 DEF PlaceOK, InterruptsEnabled
  <2>5. QueuesExact'
    BY <1>1, <1>2, <2>1, <2>2 DEF SchedInv, QueuesExact
  <2>6. OwnerOK' /\ ReaperOK'
    BY <1>1, <1>2, <2>1, <2>2 DEF SchedInv, OwnerOK, ReaperOK, TypeOK
  <2> QED
    BY <1>1, <1>2, <2>2, <2>3, <2>4, <2>5, <2>6, NoSwitchInv
<1> QED
  BY <1>4, <1>5

\* destroy_thread: past its asserts the victim is DEAD, and slab_free takes a
\* thread that no hardware thread executes.
LEMMA DestroyThreadInv ==
    ASSUME SchedIInv, NEW c \in CPUs, DestroyThreadCheck(c) \/ DestroyThreadFree(c)
    PROVE  SchedIInv'
<1> USE Names
<1>1. CASE DestroyThreadCheck(c)
  <2>1. /\ machine' = IF state[victim] = "DEAD" THEN "running" ELSE "assert_dead"
        /\ pc' = [pc EXCEPT ![Reaper] = "rlock"]
        /\ UNCHANGED <<cur_thread, exec, state, ready_q, dead_q, hwthread, victim, owner, wait_list>>
    BY <1>1 DEF DestroyThreadCheck
  <2>2. /\ TypeOK /\ SchedInv /\ Running /\ pc[Reaper] = "reap" /\ PlaceOK(Reaper)
        /\ OnCPU(Reaper) /\ state[Reaper] = "RUNNING"
    BY <1>1, Executes DEF DestroyThreadCheck, InterruptsEnabled
  <2>3. pc'[Reaper] = "rlock" /\ \A u \in Threads \ {Reaper} : pc'[u] = pc[u]
    BY <2>1, <2>2 DEF TypeOK
  <2>4. TypeOK'
    BY <2>1, <2>2 DEF TypeOK, Location, Asserts
  <2>5. CASE state[victim] # "DEAD"
    BY <2>1, <2>4, <2>5 DEF SchedIInv, Running
  <2>6. CASE state[victim] = "DEAD"
    <3>1. machine' = machine
      BY <2>1, <2>2, <2>6 DEF Running
    <3>2. PlaceOK(Reaper)'
      <4>1. OnCPU(Reaper)' /\ state'[Reaper] = "RUNNING"
        BY <2>1, <2>2 DEF OnCPU
      <4> QED
        BY <2>3, <4>1 DEF PlaceOK, InterruptsEnabled
    <3>3. QueuesExact'
      BY <2>1, <2>2, <2>3 DEF SchedInv, QueuesExact
    <3>4. OwnerOK' /\ ReaperOK'
      BY <2>1, <2>2, <2>3, <2>6 DEF SchedInv, OwnerOK, ReaperOK, TypeOK
    <3> QED
      BY <2>1, <2>2, <2>3, <2>4, <3>1, <3>2, <3>3, <3>4, NoSwitchInv
  <2> QED
    BY <2>5, <2>6
<1>2. CASE DestroyThreadFree(c)
  <2>1. /\ TypeOK /\ SchedInv /\ Running /\ pc[Reaper] = "sfree" /\ PlaceOK(Reaper)
        /\ OnCPU(Reaper) /\ state[Reaper] = "RUNNING"
    BY <1>2, Executes DEF DestroyThreadFree, InterruptsEnabled
  <2>2. PICK v \in Threads :
          /\ v = victim /\ state[v] = "DEAD" /\ ~OnCPU(v) /\ PlaceOK(v)
          /\ pc[v] = "gone" /\ v \in Workers /\ v # Reaper
    BY <2>1 DEF SchedInv, ReaperOK, TypeOK, PlacesOK, PlaceOK
  <2>3. /\ state' = [state EXCEPT ![v] = "FREE"] /\ victim' = NoThread
        /\ pc' = [pc EXCEPT ![Reaper] = "run"]
        /\ UNCHANGED <<cur_thread, exec, ready_q, dead_q, hwthread, owner, wait_list, machine>>
    BY <1>2, <2>2 DEF DestroyThreadFree, slab_free_thread
  <2>4. /\ state'[v] = "FREE" /\ \A u \in Threads \ {v} : state'[u] = state[u]
        /\ pc'[Reaper] = "run" /\ \A u \in Threads \ {Reaper} : pc'[u] = pc[u]
        /\ \A u \in Threads : OnCPU(u)' <=> OnCPU(u)
    BY <2>1, <2>3 DEF TypeOK, OnCPU
  <2>5. TypeOK'
    BY <2>1, <2>3 DEF TypeOK, Location, State
  <2>6. PlaceOK(Reaper)'
    BY <2>1, <2>2, <2>4 DEF PlaceOK, InterruptsEnabled
  <2>7. PlaceOK(v)'
    BY <2>2, <2>4 DEF PlaceOK
  <2>8. QueuesExact'
    <3>1. NoThread \notin Range(dead_q)
      BY <2>1 DEF TypeOK, Range
    <3>2. ASSUME NEW u \in Threads
          PROVE  /\ state'[u] = "READY" <=> state[u] = "READY"
                 /\ state'[u] = "WAITING" <=> state[u] = "WAITING"
                 /\ (state'[u] # "FREE" /\ pc'[u] \in {"exit1", "exit2", "gone"})
                       <=> (u # v /\ state[u] # "FREE" /\ pc[u] \in {"exit1", "exit2", "gone"})
      BY <2>1, <2>2, <2>4
    <3> QED
      BY <2>1, <2>2, <2>3, <3>1, <3>2 DEF SchedInv, QueuesExact
  <2>9. OwnerOK'
    BY <2>1, <2>2, <2>3, <2>4 DEF SchedInv, OwnerOK, TypeOK
  <2>10. ReaperOK'
    BY <2>3, <2>4 DEF ReaperOK
  <2>11. \A u \in CPUs : state'[u] = "FREE" <=> state[u] = "FREE"
    BY <2>2, <2>4
  <2>12. \A u \in Threads :
           \/ PlaceOK(u)'
           \/ state'[u] = state[u] /\ pc'[u] = pc[u] /\ hwthread'[u] = hwthread[u]
    BY <2>3, <2>4, <2>6, <2>7
  <2> QED
    BY <2>1, <2>3, <2>5, <2>8, <2>9, <2>10, <2>11, <2>12, NoSwitchInv
<1> QED
  BY <1>1, <1>2

-----------------------------------------------------------------------------
LEMMA SchedInit ==
    ASSUME Init
    PROVE  SchedIInv
<1> USE Names, BootAssumption
<1>1. TypeOK
  BY DEF Init, TypeOK, State, Location
<1>2. QueuesExact
  BY DEF Init, QueuesExact, Range, IsInjective
<1>3. \A t \in Threads : ~OnCPU(t)
  BY DEF Init, OnCPU
<1>4. PlacesOK
  BY <1>3 DEF Init, PlacesOK, PlaceOK
<1>5. OneEach /\ BootOK /\ OwnerOK /\ ReaperOK
  BY DEF Init, OneEach, BootOK, Booted, OwnerOK, ReaperOK
<1> QED
  BY <1>1, <1>2, <1>4, <1>5 DEF SchedIInv, SchedInv, Init

LEMMA SchedStep ==
    ASSUME SchedIInv, [Next]_vars
    PROVE  SchedIInv'
<1> USE Names
<1>1. CASE UNCHANGED vars
  BY <1>1 DEF vars, SchedIInv, TypeOK, Running, SchedInv, QueuesExact, OneEach, PlacesOK,
              PlaceOK, OnCPU, Booted, BootOK, OwnerOK, ReaperOK
<1>2. CASE Next
  <2>1. PICK c \in CPUs :
          \/ boot_init_thread(c) \/ \E n \in Workers \cup {Reaper} : spawn(c, n)
          \/ timer_tick(c) \/ CallReschedule(c) \/ VoluntarySwitch(c)
          \/ rwlock_lock_write(c) \/ wait(c) \/ rwlock_unlock_write(c)
          \/ ThreadExitQueue(c) \/ ThreadExitDead(c) \/ ThreadExitSwitch(c)
          \/ ReaperStep(c)
    BY <1>2 DEF Next
  <2>2. CASE boot_init_thread(c)
    BY <2>2, BootInv
  <2>3. CASE \E n \in Workers \cup {Reaper} : spawn(c, n)
    BY <2>3, SpawnInv
  <2>4. CASE timer_tick(c) \/ VoluntarySwitch(c) \/ wait(c) \/ ThreadExitSwitch(c)
    BY <2>4, SwitchInv
  <2>5. CASE CallReschedule(c)
    BY <2>5, CallRescheduleInv
  <2>6. CASE rwlock_lock_write(c)
    <3>1. PICK t \in Lockers : LockWriteAs(c, t, "run", "run")
      BY <2>6 DEF rwlock_lock_write
    <3>2. t \in Threads
      BY DEF Lockers
    <3> QED
      BY <3>1, <3>2, LockWriteInv
  <2>7. CASE rwlock_unlock_write(c)
    <3>1. HandOver /\ Running /\ UNCHANGED <<cur_thread, exec, dead_q, pc, hwthread, victim>>
      BY <2>7 DEF rwlock_unlock_write, At, Running
    <3> QED
      BY <3>1, UnlockWriteInv
  <2>8. CASE ThreadExitQueue(c) \/ ThreadExitDead(c)
    BY <2>8, ThreadExitInv
  <2>9. CASE ReaperStep(c)
    <3>1. CASE grim_reaper(c)
      BY <3>1, GrimReaperInv
    <3>2. CASE DestroyThreadCheck(c) \/ DestroyThreadFree(c)
      BY <3>2, DestroyThreadInv
    <3>3. CASE DestroyThreadLock(c)
      BY <3>3, LockWriteInv DEF DestroyThreadLock
    <3>4. CASE DestroyStackArea(c)
      <4>1. CASE \E d \in CPUs : exec[d] = victim
        <5>1. /\ machine' = "stack_freed" /\ TypeOK
              /\ UNCHANGED <<cur_thread, exec, state, ready_q, dead_q, pc, hwthread, victim, owner, wait_list>>
          BY <3>4, <4>1 DEF DestroyStackArea, SchedIInv
        <5> QED
          BY <5>1 DEF SchedIInv, TypeOK, Running, Corruptions
      <4>2. CASE \A d \in CPUs : exec[d] # victim
        <5>1. /\ At(c, Reaper, "free") /\ HandOver /\ pc' = [pc EXCEPT ![Reaper] = "sfree"]
              /\ UNCHANGED <<cur_thread, exec, dead_q, hwthread, victim>>
          BY <3>4, <4>2 DEF DestroyStackArea
        <5> QED
          BY <4>2, <5>1, UnlockWriteInv
      <4> QED
        BY <4>1, <4>2
    <3> QED
      BY <2>9, <3>1, <3>2, <3>3, <3>4 DEF ReaperStep
  <2> QED
    BY <2>1, <2>2, <2>3, <2>4, <2>5, <2>6, <2>7, <2>8, <2>9
<1> QED
  BY <1>1, <1>2

\* The inductive invariant of thread.c's scheduler, on any number of hardware
\* threads: what the queues, the states, the processors and the reaper know of
\* each other.
THEOREM SchedInvariance == Spec => []SchedIInv
<1>1. Init => SchedIInv
  BY SchedInit
<1>2. SchedIInv /\ [Next]_vars => SchedIInv'
  BY SchedStep
<1> QED
  BY <1>1, <1>2, PTL DEF Spec

\* ready_q holds exactly the READY threads, each once.
THEOREM ReadyQueueIsExact == Spec => []ReadyQueueExact
<1>1. SchedIInv => ReadyQueueExact
  <2> SUFFICES ASSUME SchedIInv, Running
               PROVE  /\ IsInjective(ready_q)
                      /\ Range(ready_q) = {t \in Threads : state[t] = "READY"}
    BY DEF ReadyQueueExact
  <2>1. QueuesExact /\ Range(ready_q) \subseteq Threads
    BY DEF SchedIInv, SchedInv, TypeOK, Range
  <2> QED
    BY <2>1 DEF QueuesExact
<1> QED
  BY <1>1, SchedInvariance, PTL

\* A thread runs on one hardware thread at a time, the one cur_thread says.
THEOREM OneProcessor == Spec => []OneProcessorPerThread
<1>1. SchedIInv => OneProcessorPerThread
  BY Names DEF SchedIInv, SchedInv, OneEach, PlacesOK, PlaceOK, OnCPU, OneProcessorPerThread, Executing
<1> QED
  BY <1>1, SchedInvariance, PTL

\* No thread is forgotten and reschedule() always finds one to run: the asserts
\* of thread.c:299, 386 and 395 never fail.
THEOREM NobodyLost == Spec => []NoThreadLost
<1>1. SchedIInv => NoThreadLost
  <2> SUFFICES ASSUME SchedIInv, Running
               PROVE  /\ IsInjective(wait_list) /\ IsInjective(dead_q)
                      /\ Range(wait_list) = {t \in Threads : state[t] = "WAITING"}
                      /\ Range(dead_q) \cup ({victim} \ {NoThread})
                           = {t \in Threads : state[t] # "FREE" /\ pc[t] \in {"exit1", "exit2", "gone"}}
                      /\ victim \notin Range(dead_q)
                      /\ owner # NoThread => state[owner] \in {"READY", "RUNNING"}
    BY DEF NoThreadLost, SchedIInv
  <2>1. /\ QueuesExact /\ OwnerOK /\ victim \in Threads \cup {NoThread}
        /\ Range(wait_list) \subseteq Threads /\ Range(dead_q) \subseteq Threads
    BY DEF SchedIInv, SchedInv, TypeOK, Range
  <2> QED
    BY <2>1, Names DEF QueuesExact, OwnerOK
<1> QED
  BY <1>1, SchedInvariance, PTL

-----------------------------------------------------------------------------
\* On one hardware thread nobody is woken inside wait(): the thread that
\* releases the lock is the one that runs.
NotWokenEarly == \A t \in Threads : OnCPU(t) => state[t] # "READY"

OneCpuIInv == SchedIInv /\ Running /\ NotWokenEarly

\* There reschedule() switches away from its caller, to another thread.
LEMMA OneCpuSwitch ==
    ASSUME CPUs = {BootCPU}, OneCpuIInv, NEW c \in CPUs, NEW h \in Booted, NEW l,
           Reschedule(c, h, l), SchedIInv'
    PROVE  Running' /\ NotWokenEarly'
<1> USE Names
<1>1. /\ TypeOK /\ SchedInv /\ exec = cur_thread /\ h = c /\ \A d \in CPUs : d = c
  BY DEF OneCpuIInv, SchedIInv, SchedInv, OneEach, Booted
<1>2. PICK old \in Threads : old = exec[c] /\ old = cur_thread[h] /\ OnCPU(old)
  BY <1>1 DEF Booted, TypeOK, OnCPU
<1>3. state[old] # "READY"
  BY <1>2 DEF OneCpuIInv, NotWokenEarly
<1>4. PICK q : q = Requeued(old)
  OBVIOUS
<1>5. PICK next \in Threads :
        /\ next = Head(q) /\ q # <<>>
        /\ (next = old /\ state[old] = "RUNNING") \/ state[next] = "READY"
  BY <1>1, <1>2, <1>3, <1>4, RequeuedExact
<1>6. /\ machine' = SwitchOutcome(c, old, next) /\ exec' = [exec EXCEPT ![c] = next]
      /\ state' = [u \in Threads |->
                     IF u = next THEN "RUNNING"
                     ELSE IF u = old /\ state[old] = "RUNNING" THEN "READY"
                     ELSE state[u]]
  BY <1>2, <1>3, <1>4, <1>5 DEF Reschedule
<1>7. machine' = "running"
  BY <1>1, <1>2, <1>6 DEF SwitchOutcome, SchedIInv
<1>8. state'[next] = "RUNNING" /\ \A u \in Threads : OnCPU(u)' => u = next
  BY <1>1, <1>6 DEF OnCPU, TypeOK
<1> QED
  BY <1>7, <1>8 DEF Running, NotWokenEarly

\* The steps that are no call of reschedule().
LEMMA OneCpuStep ==
    ASSUME CPUs = {BootCPU}, OneCpuIInv, [Next]_vars
    PROVE  OneCpuIInv'
<1> USE Names
<1>1. TypeOK /\ SchedInv /\ Running /\ NotWokenEarly /\ SchedIInv' /\ SchedIInv
  BY SchedStep DEF OneCpuIInv, SchedIInv
<1> SUFFICES Running' /\ NotWokenEarly'
  BY <1>1 DEF OneCpuIInv
<1>2. ASSUME machine' = machine, exec' = exec,
             \A u \in Threads : OnCPU(u) => (state'[u] = state[u] \/ state'[u] # "READY")
      PROVE  Running' /\ NotWokenEarly'
  BY <1>1, <1>2 DEF Running, NotWokenEarly, OnCPU
<1>3. CASE UNCHANGED vars
  BY <1>2, <1>3 DEF vars
<1>4. CASE Next
  <2>1. PICK c \in CPUs :
          \/ boot_init_thread(c) \/ \E n \in Workers \cup {Reaper} : spawn(c, n)
          \/ timer_tick(c) \/ CallReschedule(c) \/ VoluntarySwitch(c)
          \/ rwlock_lock_write(c) \/ wait(c) \/ rwlock_unlock_write(c)
          \/ ThreadExitQueue(c) \/ ThreadExitDead(c) \/ ThreadExitSwitch(c)
          \/ ReaperStep(c)
    BY <1>4 DEF Next
  <2>2. CASE boot_init_thread(c)
    <3>1. machine' = machine /\ exec' = [exec EXCEPT ![c] = c] /\ state' = [state EXCEPT ![c] = "RUNNING"]
      BY <2>2 DEF boot_init_thread
    <3>2. state'[c] = "RUNNING" /\ \A u \in Threads : OnCPU(u)' => u = c
      BY <1>1, <3>1 DEF TypeOK, OnCPU
    <3> QED
      BY <1>1, <3>1, <3>2 DEF Running, NotWokenEarly
  <2>3. CASE \E n \in Workers \cup {Reaper} : spawn(c, n)
    <3>1. PICK n \in Threads :
            /\ state[n] = "FREE" /\ state' = [state EXCEPT ![n] = "READY"]
            /\ machine' = machine /\ exec' = exec
      BY <2>3 DEF spawn
    <3>2. ~OnCPU(n) /\ \A u \in Threads \ {n} : state'[u] = state[u]
      BY <1>1, <3>1 DEF SchedInv, PlacesOK, PlaceOK, TypeOK
    <3> QED
      BY <1>2, <3>1, <3>2
  <2>4. CASE timer_tick(c) \/ VoluntarySwitch(c) \/ wait(c) \/ ThreadExitSwitch(c)
    <3>1. PICK t \in Threads, l \in Location, h \in CPUs :
            /\ At(c, t, l) /\ (h = c \/ (l = "resched" /\ h = hwthread[t]))
            /\ \E k : Reschedule(c, h, k)
      <4>1. CASE timer_tick(c)
        BY <4>1 DEF timer_tick, InterruptsEnabled, Location
      <4>2. CASE VoluntarySwitch(c)
        BY <1>1, <4>2 DEF VoluntarySwitch, Location, TypeOK
      <4>3. CASE wait(c)
        BY <4>3 DEF wait, Location
      <4>4. CASE ThreadExitSwitch(c)
        BY <4>4 DEF ThreadExitSwitch, Location
      <4> QED
        BY <2>4, <4>1, <4>2, <4>3, <4>4
    <3>2. h \in Booted
      BY <1>1, <3>1, Executes DEF PlaceOK
    <3> QED
      BY <1>1, <3>1, <3>2, OneCpuSwitch
  <2>5. CASE CallReschedule(c) \/ ThreadExitQueue(c) \/ grim_reaper(c)
    BY <1>2, <2>5 DEF CallReschedule, ThreadExitQueue, grim_reaper
  <2>6. CASE rwlock_lock_write(c) \/ DestroyThreadLock(c)
    <3>1. PICK t \in Threads, l \in Location, held \in Location : LockWriteAs(c, t, l, held)
      BY <2>6 DEF rwlock_lock_write, DestroyThreadLock, Lockers, Location
    <3>2. /\ machine' = machine /\ exec' = exec
          /\ state' = state \/ state' = [state EXCEPT ![t] = "WAITING"]
      BY <3>1 DEF LockWriteAs
    <3> QED
      BY <1>1, <1>2, <3>2 DEF TypeOK
  <2>7. CASE HandOver /\ exec' = exec /\ \E t \in Threads : At(c, t, "run") \/ At(c, t, "free")
    <3>1. PICK t \in Threads : exec[c] = t /\ state[t] = "RUNNING"
      BY <1>1, <2>7, Executes DEF InterruptsEnabled
    <3>2. /\ machine' = machine
          /\ \A u \in Threads : state'[u] = state[u] \/ state[u] = "WAITING"
      BY <1>1, <2>7, HandOverExact
    <3>3. \A u \in Threads : OnCPU(u) => u = t
      BY <3>1 DEF OnCPU
    <3> QED
      BY <1>2, <2>7, <3>1, <3>2, <3>3
  <2>8. CASE rwlock_unlock_write(c)
    BY <2>7, <2>8 DEF rwlock_unlock_write, Lockers
  <2>9. CASE ThreadExitDead(c) \/ DestroyThreadFree(c)
    <3>1. /\ machine' = machine /\ exec' = exec
          /\ \E t : state' = [state EXCEPT ![t] = "DEAD"] \/ state' = [state EXCEPT ![t] = "FREE"]
      BY <2>9 DEF ThreadExitDead, DestroyThreadFree, slab_free_thread
    <3> QED
      BY <1>1, <1>2, <3>1 DEF TypeOK
  <2>10. CASE DestroyThreadCheck(c)
    <3>1. /\ At(c, Reaper, "reap") /\ exec' = exec /\ state' = state
          /\ machine' = IF state[victim] = "DEAD" THEN "running" ELSE "assert_dead"
      BY <2>10 DEF DestroyThreadCheck
    <3>2. exec[c] = Reaper /\ pc[Reaper] = "reap"
      BY <1>1, <3>1, Executes
    <3>3. PICK v \in Threads : v = victim /\ v # Reaper
      BY <1>1, <3>2 DEF SchedInv, ReaperOK, TypeOK, QueuesExact
    <3>4. state[v] # "FREE" /\ pc[v] \in {"exit1", "exit2", "gone"} /\ ~OnCPU(v) /\ PlaceOK(v)
      BY <1>1, <3>2, <3>3 DEF SchedInv, QueuesExact, PlacesOK, OnCPU
    <3>5. state[v] \in State
      BY <1>1 DEF TypeOK
    <3>6. state[v] = "DEAD"
      BY <3>4, <3>5 DEF PlaceOK, InterruptsEnabled, State
    <3> QED
      BY <1>1, <1>2, <3>1, <3>3, <3>6 DEF Running
  <2>11. CASE DestroyStackArea(c)
    <3>1. At(c, Reaper, "free") /\ exec' = exec
      BY <2>11 DEF DestroyStackArea
    <3>2. exec[c] = Reaper /\ pc[Reaper] = "free" /\ state[Reaper] = "RUNNING"
      BY <1>1, <3>1, Executes DEF InterruptsEnabled
    <3>3. \A d \in CPUs : exec[d] # victim
      BY <1>1, <3>2 DEF SchedInv, ReaperOK
    <3>4. HandOver
      BY <2>11, <3>3 DEF DestroyStackArea
    <3> QED
      BY <2>7, <3>1, <3>4
  <2> QED
    BY <2>1, <2>2, <2>3, <2>4, <2>5, <2>6, <2>8, <2>9, <2>10, <2>11 DEF ReaperStep
<1> QED
  BY <1>3, <1>4

\* On one hardware thread no assert of thread.c fails, no stack is shared or
\* freed in use, and reschedule() switches away from its caller.
THEOREM OneHardwareThreadIsSafe ==
    ASSUME CPUs = {BootCPU}
    PROVE  Spec => []NeverFails
<1>1. Init => OneCpuIInv
  <2>1. Init => SchedIInv
    BY SchedInit
  <2> QED
    BY <2>1 DEF Init, OneCpuIInv, Running, NotWokenEarly
<1>2. OneCpuIInv /\ [Next]_vars => OneCpuIInv'
  BY OneCpuStep
<1>3. OneCpuIInv => NeverFails
  BY DEF OneCpuIInv, Running, NeverFails
<1> QED
  BY <1>1, <1>2, <1>3, PTL DEF Spec
=============================================================================
