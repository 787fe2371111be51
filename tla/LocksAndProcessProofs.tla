------------------------ MODULE LocksAndProcessProofs ------------------------
(***************************************************************************)
(* Proofs about RWLock, for every set of threads, and about ProcessRefs,   *)
(* for every set of processes and threads and any number of                *)
(* SYS_spawn_thread calls.                                                 *)
(*                                                                         *)
(* The lock: IInv is inductive; from it follow the absence of assertion    *)
(* failures, mutual exclusion, and the refinement of RWLockAbs.            *)
(*                                                                         *)
(* Processes: two invariants are needed: what the lists hold, which is     *)
(* true whatever the programs do, and what the reference counts count,     *)
(* which is true while no program has spawned a thread.  The second rests  *)
(* on the first: that a count of one comes with an empty thread_list is    *)
(* what keeps the assert of dec_proc_ref.                                  *)
(***************************************************************************)
EXTENDS RWLock, ProcessRefs, QueueTheorems

\* The two owner sets are finite.
LEMMA OwnersFinite ==
    ASSUME ThreadsFinite
    PROVE  IsFiniteSet(ReadOwners) /\ Cardinality(ReadOwners) \in Nat
BY FS_Subset, FS_CardinalityType DEF ThreadsFinite, ReadOwners

\* init_rwlock establishes the invariant.
LEMMA InitIInv == Init => IInv
<1> SUFFICES ASSUME Init PROVE IInv
  OBVIOUS
<1>1. ReadOwners = {} /\ WriteOwners = {}
  BY DEF Init, ReadOwners, WriteOwners
<1>2. TypeOK
  BY DEF Init, TypeOK, Location
<1>3. CountsMatchOwners
  BY <1>1, FS_EmptySet DEF Init, CountsMatchOwners
<1>4. WaitListsExact
  BY DEF Init, WaitListsExact, IsInjective, Range
<1> QED
  BY <1>2, <1>3, <1>4 DEF Init, IInv, AssertionsHold, NoLostWakeup

\* list_remove_head(&writer_wait_list) plus make_thread_ready: the queue
\* loses exactly the thread that becomes the owner.
LEMMA WakeFirstWriterExact ==
    ASSUME IInv, NEW t \in Threads, pc[t] \in {"reading", "writing"},
           writer_wait_list # <<>>, WakeFirstWriter(t)
    PROVE  LET w == Head(writer_wait_list) IN
           /\ w \in Threads /\ pc[w] = "wwait" /\ w # t
           /\ pc' \in [Threads -> Location]
           /\ pc'[t] = "out" /\ pc'[w] = "wwoken"
           /\ \A u \in Threads \ {t, w} : pc'[u] = pc[u]
           /\ writer_wait_list' \in Seq(Threads)
           /\ IsInjective(writer_wait_list')
           /\ Range(writer_wait_list') = {u \in Threads : pc'[u] = "wwait"}
<1> DEFINE w == Head(writer_wait_list)
<1>1. /\ writer_wait_list \in Seq(Threads) /\ IsInjective(writer_wait_list)
      /\ pc \in [Threads -> Location]
      /\ Range(writer_wait_list) = {u \in Threads : pc[u] = "wwait"}
  BY DEF IInv, TypeOK, WaitListsExact
<1>2. /\ w \in Threads /\ w \in Range(writer_wait_list)
      /\ Tail(writer_wait_list) \in Seq(Threads)
      /\ Range(Tail(writer_wait_list)) = Range(writer_wait_list) \ {w}
      /\ IsInjective(Tail(writer_wait_list))
  BY <1>1, TailQueue
<1>3. pc[w] = "wwait" /\ w # t
  BY <1>1, <1>2
<1>4. /\ pc' = [pc EXCEPT ![t] = "out", ![w] = "wwoken"]
      /\ writer_wait_list' = Tail(writer_wait_list)
  BY DEF WakeFirstWriter
<1>5. /\ pc' \in [Threads -> Location]
      /\ pc'[t] = "out" /\ pc'[w] = "wwoken"
      /\ \A u \in Threads \ {t, w} : pc'[u] = pc[u]
  BY <1>1, <1>2, <1>3, <1>4 DEF Location
<1>6. Range(writer_wait_list') = {u \in Threads : pc'[u] = "wwait"}
  BY <1>1, <1>2, <1>3, <1>4, <1>5
<1> QED
  BY <1>2, <1>3, <1>4, <1>5, <1>6

\* rwlock_lock_read preserves the invariant.
LEMMA LockReadIInv ==
    ASSUME IInv, NEW t \in Threads, LockRead(t), ThreadsFinite
    PROVE  IInv'
<1> USE DEF IInv
<1>1. /\ pc \in [Threads -> Location] /\ pc[t] = "out"
      /\ writer_wait_list' = writer_wait_list /\ write_locked' = write_locked
  BY DEF TypeOK, LockRead
<1>2. CASE ~MayRead
  <2>1. /\ reader_wait_list' = Append(reader_wait_list, t)
        /\ pc' = [pc EXCEPT ![t] = "rwait"]
        /\ active_read_count' = active_read_count /\ machine' = machine
    BY <1>2 DEF LockRead
  <2>2. t \notin Range(reader_wait_list)
    BY <1>1 DEF WaitListsExact
  <2>3. /\ reader_wait_list' \in Seq(Threads) /\ IsInjective(reader_wait_list')
        /\ Range(reader_wait_list') = Range(reader_wait_list) \cup {t}
    BY <2>1, <2>2, AppendQueue DEF TypeOK, WaitListsExact
  <2>4. ReadOwners' = ReadOwners /\ WriteOwners' = WriteOwners
    BY <1>1, <2>1 DEF ReadOwners, WriteOwners
  <2>5. TypeOK'
    BY <1>1, <2>1, <2>3 DEF TypeOK, Location
  <2>6. CountsMatchOwners'
    BY <1>1, <2>1, <2>4 DEF CountsMatchOwners
  <2>7. WaitListsExact'
    BY <1>1, <2>1, <2>3 DEF WaitListsExact
  <2>8. NoLostWakeup'
    BY <1>1, <1>2, <2>1 DEF NoLostWakeup, MayRead, TypeOK
  <2> QED
    BY <2>1, <2>5, <2>6, <2>7, <2>8 DEF AssertionsHold
<1>3. CASE MayRead
  <2>1. /\ reader_wait_list' = reader_wait_list
        /\ pc' = [pc EXCEPT ![t] = "reading"]
        /\ active_read_count' = active_read_count + 1
        /\ machine' = "running"
    BY <1>3 DEF LockRead, MayRead, KAssert
  <2>2. /\ ReadOwners' = ReadOwners \cup {t} /\ t \notin ReadOwners
        /\ WriteOwners' = WriteOwners
    BY <1>1, <2>1 DEF ReadOwners, WriteOwners
  <2>3. TypeOK'
    BY <1>1, <2>1 DEF TypeOK, Location
  <2>4. Cardinality(ReadOwners') = Cardinality(ReadOwners) + 1
    BY <2>2, OwnersFinite, FS_AddElement
  <2>5. CountsMatchOwners'
    BY <1>1, <1>3, <2>1, <2>2, <2>4 DEF CountsMatchOwners, MayRead
  <2>6. WaitListsExact'
    BY <1>1, <2>1 DEF WaitListsExact
  <2>7. NoLostWakeup'
    BY <1>1, <1>3, <2>1 DEF NoLostWakeup, MayRead, TypeOK
  <2> QED
    BY <2>1, <2>3, <2>5, <2>6, <2>7 DEF AssertionsHold
<1> QED
  BY <1>2, <1>3

\* The tail of rwlock_lock_read after wait() preserves the invariant.
LEMMA ReadResumeIInv ==
    ASSUME IInv, NEW t \in Threads, ReadResume(t), ThreadsFinite
    PROVE  IInv'
<1> USE DEF IInv
<1>1. /\ pc \in [Threads -> Location] /\ pc[t] = "rwoken"
      /\ pc' = [pc EXCEPT ![t] = "reading"]
      /\ UNCHANGED <<write_locked, active_read_count, reader_wait_list, writer_wait_list>>
  BY DEF TypeOK, ReadResume
<1>2. ReadOwners' = ReadOwners /\ WriteOwners' = WriteOwners /\ t \in ReadOwners
  BY <1>1 DEF ReadOwners, WriteOwners
<1>3. active_read_count # 0
  BY <1>2, OwnersFinite, FS_EmptySet DEF CountsMatchOwners
<1>4. AssertionsHold'
  BY <1>3 DEF ReadResume, KAssert, AssertionsHold, CountsMatchOwners, TypeOK
<1>5. TypeOK'
  BY <1>1, <1>4 DEF TypeOK, Location, AssertionsHold
<1>6. CountsMatchOwners'
  BY <1>1, <1>2 DEF CountsMatchOwners
<1>7. WaitListsExact'
  BY <1>1 DEF WaitListsExact
<1>8. NoLostWakeup'
  BY <1>1 DEF NoLostWakeup
<1> QED
  BY <1>4, <1>5, <1>6, <1>7, <1>8

\* rwlock_unlock_read preserves the invariant.
LEMMA UnlockReadIInv ==
    ASSUME IInv, NEW t \in Threads, UnlockRead(t), ThreadsFinite
    PROVE  IInv'
<1> USE DEF IInv
<1>1. /\ pc \in [Threads -> Location] /\ pc[t] = "reading"
      /\ active_read_count \in Nat /\ active_read_count' = active_read_count - 1
      /\ reader_wait_list' = reader_wait_list
  BY DEF TypeOK, UnlockRead
<1>2. /\ t \in ReadOwners /\ active_read_count > 0
      /\ Cardinality(ReadOwners \ {t}) = active_read_count - 1
  <2>1. t \in ReadOwners
    BY <1>1 DEF ReadOwners
  <2>2. active_read_count # 0
    BY <2>1, OwnersFinite, FS_EmptySet DEF CountsMatchOwners
  <2>3. Cardinality(ReadOwners \ {t}) = Cardinality(ReadOwners) - 1
    BY <2>1, OwnersFinite, FS_RemoveElement
  <2> QED
    BY <1>1, <2>1, <2>2, <2>3 DEF CountsMatchOwners
<1>3. write_locked = 0 /\ WriteOwners = {}
  BY <1>2 DEF CountsMatchOwners, TypeOK
<1>4. AssertionsHold'
  BY <1>2, <1>3 DEF UnlockRead, KAssert, AssertionsHold
<1>5. CASE WakesWriter
  <2> DEFINE w == Head(writer_wait_list)
  <2>1. /\ write_locked' = 1 /\ WakeFirstWriter(t)
        /\ writer_wait_list # <<>> /\ active_read_count' = 0
    BY <1>5 DEF UnlockRead, WakesWriter
  <2>2. /\ w \in Threads /\ pc[w] = "wwait" /\ w # t
        /\ pc' \in [Threads -> Location]
        /\ pc'[t] = "out" /\ pc'[w] = "wwoken"
        /\ \A u \in Threads \ {t, w} : pc'[u] = pc[u]
        /\ writer_wait_list' \in Seq(Threads)
        /\ IsInjective(writer_wait_list')
        /\ Range(writer_wait_list') = {u \in Threads : pc'[u] = "wwait"}
    BY <1>1, <2>1, WakeFirstWriterExact
  <2>3. ReadOwners' = ReadOwners \ {t} /\ WriteOwners' = {w}
    BY <1>1, <1>3, <2>2 DEF ReadOwners, WriteOwners
  <2>4. TypeOK'
    BY <1>1, <1>4, <2>1, <2>2 DEF TypeOK, AssertionsHold
  <2>5. CountsMatchOwners'
    BY <1>1, <1>2, <2>1, <2>3 DEF CountsMatchOwners
  <2>6. WaitListsExact'
    BY <1>1, <2>2 DEF WaitListsExact
  <2>7. NoLostWakeup'
    BY <2>1 DEF NoLostWakeup
  <2> QED
    BY <1>4, <2>4, <2>5, <2>6, <2>7
<1>6. CASE ~WakesWriter
  <2>1. /\ pc' = [pc EXCEPT ![t] = "out"]
        /\ write_locked' = write_locked /\ writer_wait_list' = writer_wait_list
        /\ active_read_count' # 0 \/ writer_wait_list = <<>>
    BY <1>6 DEF UnlockRead, WakesWriter
  <2>2. ReadOwners' = ReadOwners \ {t} /\ WriteOwners' = WriteOwners
    BY <1>1, <2>1 DEF ReadOwners, WriteOwners
  <2>3. TypeOK'
    BY <1>1, <1>2, <1>4, <2>1 DEF TypeOK, Location, AssertionsHold
  <2>4. CountsMatchOwners'
    BY <1>1, <1>2, <1>3, <2>1, <2>2 DEF CountsMatchOwners
  <2>5. WaitListsExact'
    BY <1>1, <2>1 DEF WaitListsExact
  <2>6. NoLostWakeup'
    BY <1>1, <1>2, <1>3, <2>1 DEF NoLostWakeup
  <2> QED
    BY <1>4, <2>3, <2>4, <2>5, <2>6
<1> QED
  BY <1>5, <1>6

\* rwlock_lock_write preserves the invariant.
LEMMA LockWriteIInv ==
    ASSUME IInv, NEW t \in Threads, LockWrite(t), ThreadsFinite
    PROVE  IInv'
<1> USE DEF IInv
<1>1. /\ pc \in [Threads -> Location] /\ pc[t] = "out"
      /\ active_read_count' = active_read_count /\ reader_wait_list' = reader_wait_list
  BY DEF TypeOK, LockWrite
<1>2. CASE ~MayWrite
  <2>1. /\ writer_wait_list' = Append(writer_wait_list, t)
        /\ pc' = [pc EXCEPT ![t] = "wwait"]
        /\ write_locked' = write_locked /\ machine' = machine
    BY <1>2 DEF LockWrite
  <2>2. t \notin Range(writer_wait_list)
    BY <1>1 DEF WaitListsExact
  <2>3. /\ writer_wait_list' \in Seq(Threads) /\ IsInjective(writer_wait_list')
        /\ Range(writer_wait_list') = Range(writer_wait_list) \cup {t}
        /\ writer_wait_list' # <<>>
    BY <2>1, <2>2, AppendQueue DEF TypeOK, WaitListsExact
  <2>4. ReadOwners' = ReadOwners /\ WriteOwners' = WriteOwners
    BY <1>1, <2>1 DEF ReadOwners, WriteOwners
  <2>5. TypeOK'
    BY <1>1, <2>1, <2>3 DEF TypeOK, Location
  <2>6. CountsMatchOwners'
    BY <1>1, <2>1, <2>4 DEF CountsMatchOwners
  <2>7. WaitListsExact'
    BY <1>1, <2>1, <2>3 DEF WaitListsExact
  <2>8. NoLostWakeup'
    BY <1>1, <1>2, <2>1, <2>3 DEF NoLostWakeup, MayWrite, TypeOK
  <2> QED
    BY <2>1, <2>5, <2>6, <2>7, <2>8 DEF AssertionsHold
<1>3. CASE MayWrite
  <2>1. /\ writer_wait_list' = writer_wait_list
        /\ pc' = [pc EXCEPT ![t] = "writing"]
        /\ write_locked' = 1 /\ machine' = "running"
        /\ active_read_count = 0 /\ write_locked = 0
    BY <1>3 DEF LockWrite, MayWrite, KAssert
  <2>2. WriteOwners = {}
    BY <2>1 DEF CountsMatchOwners
  <2>3. /\ ReadOwners' = ReadOwners
        /\ WriteOwners' = {t}
    BY <1>1, <2>1, <2>2 DEF ReadOwners, WriteOwners
  <2>4. TypeOK'
    BY <1>1, <2>1 DEF TypeOK, Location
  <2>5. CountsMatchOwners'
    BY <1>1, <2>1, <2>3 DEF CountsMatchOwners
  <2>6. WaitListsExact'
    BY <1>1, <2>1 DEF WaitListsExact
  <2>7. NoLostWakeup'
    BY <1>1, <2>1 DEF NoLostWakeup
  <2> QED
    BY <2>1, <2>4, <2>5, <2>6, <2>7 DEF AssertionsHold
<1> QED
  BY <1>2, <1>3

\* The tail of rwlock_lock_write after wait() preserves the invariant.
LEMMA WriteResumeIInv ==
    ASSUME IInv, NEW t \in Threads, WriteResume(t), ThreadsFinite
    PROVE  IInv'
<1> USE DEF IInv
<1>1. /\ pc \in [Threads -> Location] /\ pc[t] = "wwoken"
      /\ pc' = [pc EXCEPT ![t] = "writing"] /\ write_locked' = 1
      /\ UNCHANGED <<active_read_count, reader_wait_list, writer_wait_list>>
  BY DEF TypeOK, WriteResume
<1>2. ReadOwners' = ReadOwners /\ WriteOwners' = WriteOwners /\ t \in WriteOwners
  BY <1>1 DEF ReadOwners, WriteOwners
<1>3. write_locked = 1 /\ active_read_count = 0
  BY <1>2 DEF CountsMatchOwners
<1>4. AssertionsHold'
  BY <1>3 DEF WriteResume, KAssert, AssertionsHold
<1>5. TypeOK'
  BY <1>1, <1>4 DEF TypeOK, Location, AssertionsHold
<1>6. CountsMatchOwners'
  BY <1>1, <1>2, <1>3 DEF CountsMatchOwners
<1>7. WaitListsExact'
  BY <1>1 DEF WaitListsExact
<1>8. NoLostWakeup'
  BY <1>1 DEF NoLostWakeup
<1> QED
  BY <1>4, <1>5, <1>6, <1>7, <1>8

\* rwlock_unlock_write preserves the invariant.
LEMMA UnlockWriteIInv ==
    ASSUME IInv, NEW t \in Threads, UnlockWrite(t), ThreadsFinite
    PROVE  IInv'
<1> USE DEF IInv
<1>1. /\ pc \in [Threads -> Location] /\ pc[t] = "writing"
  BY DEF TypeOK, UnlockWrite
<1>2. t \in WriteOwners /\ WriteOwners = {t} /\ write_locked = 1
      /\ active_read_count = 0
  BY <1>1 DEF WriteOwners, CountsMatchOwners
<1>3. AssertionsHold'
  BY <1>2 DEF UnlockWrite, KAssert, AssertionsHold
<1>4. ReadOwners = {}
  BY <1>2, OwnersFinite, FS_EmptySet DEF CountsMatchOwners
<1>5. CASE WakesReaders
  <2>1. /\ pc' = [u \in Threads |->
                    IF u = t THEN "out"
                    ELSE IF u \in Range(reader_wait_list) THEN "rwoken"
                    ELSE pc[u]]
        /\ active_read_count' = active_read_count + Len(reader_wait_list)
        /\ reader_wait_list' = <<>> /\ write_locked' = 0
        /\ writer_wait_list' = writer_wait_list
        /\ reader_wait_list # <<>>
    BY <1>5 DEF UnlockWrite, WakesReaders, WokenReaders
  <2>2. /\ ReadOwners' = Range(reader_wait_list)
        /\ WriteOwners' = {}
        /\ t \notin Range(reader_wait_list)
        /\ Range(reader_wait_list) = {u \in Threads : pc[u] = "rwait"}
    BY <1>1, <1>2, <1>4, <2>1 DEF ReadOwners, WriteOwners, WaitListsExact
  <2>3. /\ Cardinality(Range(reader_wait_list)) = Len(reader_wait_list)
        /\ Len(reader_wait_list) \in Nat \ {0}
    BY <2>1, QueueLength, EmptySeq, LenProperties DEF WaitListsExact, TypeOK
  <2>4. TypeOK'
    BY <1>1, <1>2, <1>3, <2>1, <2>3 DEF TypeOK, Location, AssertionsHold
  <2>5. CountsMatchOwners'
    <3>1. active_read_count' = Len(reader_wait_list)
      BY <1>2, <2>1, <2>3
    <3>2. active_read_count' = Cardinality(ReadOwners')
      BY <2>2, <2>3, <3>1
    <3>3. write_locked' = 0 /\ WriteOwners' = {}
      BY <2>1, <2>2
    <3> QED
      BY <3>2, <3>3 DEF CountsMatchOwners
  <2>6. WaitListsExact'
    <3>1. {u \in Threads : pc'[u] = "rwait"} = {}
      BY <2>1, <2>2
    <3>2. {u \in Threads : pc'[u] = "wwait"} = {u \in Threads : pc[u] = "wwait"}
      BY <1>1, <2>1, <2>2
    <3> QED
      BY <2>1, <3>1, <3>2 DEF WaitListsExact, IsInjective, Range
  <2>7. NoLostWakeup'
    BY <1>2, <2>1, <2>3 DEF NoLostWakeup
  <2> QED
    BY <1>3, <2>4, <2>5, <2>6, <2>7
<1>6. CASE ~WakesReaders /\ writer_wait_list # <<>>
  <2> DEFINE w == Head(writer_wait_list)
  <2>1. /\ WakeFirstWriter(t) /\ reader_wait_list = <<>>
        /\ UNCHANGED <<write_locked, active_read_count, reader_wait_list>>
    BY <1>6 DEF UnlockWrite, WakesReaders
  <2>2. /\ w \in Threads /\ pc[w] = "wwait" /\ w # t
        /\ pc' \in [Threads -> Location]
        /\ pc'[t] = "out" /\ pc'[w] = "wwoken"
        /\ \A u \in Threads \ {t, w} : pc'[u] = pc[u]
        /\ writer_wait_list' \in Seq(Threads)
        /\ IsInjective(writer_wait_list')
        /\ Range(writer_wait_list') = {u \in Threads : pc'[u] = "wwait"}
    BY <1>1, <1>6, <2>1, WakeFirstWriterExact
  <2>3. ReadOwners' = ReadOwners /\ WriteOwners' = {w}
    BY <1>1, <1>2, <2>2 DEF ReadOwners, WriteOwners
  <2>4. TypeOK'
    BY <1>3, <2>1, <2>2 DEF TypeOK, AssertionsHold
  <2>5. CountsMatchOwners'
    BY <1>2, <2>1, <2>3 DEF CountsMatchOwners
  <2>6. WaitListsExact'
    BY <1>1, <2>1, <2>2 DEF WaitListsExact
  <2>7. NoLostWakeup'
    BY <1>2, <2>1 DEF NoLostWakeup
  <2> QED
    BY <1>3, <2>4, <2>5, <2>6, <2>7
<1>7. CASE ~WakesReaders /\ writer_wait_list = <<>>
  <2>1. /\ pc' = [pc EXCEPT ![t] = "out"] /\ write_locked' = 0
        /\ UNCHANGED <<active_read_count, reader_wait_list, writer_wait_list>>
        /\ reader_wait_list = <<>>
    BY <1>7 DEF UnlockWrite, WakesReaders
  <2>2. ReadOwners' = ReadOwners /\ WriteOwners' = {}
    BY <1>1, <1>2, <2>1 DEF ReadOwners, WriteOwners
  <2>3. TypeOK'
    BY <1>1, <1>3, <2>1 DEF TypeOK, Location, AssertionsHold
  <2>4. CountsMatchOwners'
    <3>1. /\ active_read_count' = active_read_count /\ write_locked' = 0
          /\ ReadOwners' = ReadOwners /\ WriteOwners' = {}
      BY <2>1, <2>2
    <3> QED
      BY <3>1 DEF CountsMatchOwners
  <2>5. WaitListsExact'
    BY <1>1, <2>1 DEF WaitListsExact
  <2>6. NoLostWakeup'
    BY <1>7, <2>1 DEF NoLostWakeup
  <2> QED
    BY <1>3, <2>3, <2>4, <2>5, <2>6
<1> QED
  BY <1>5, <1>6, <1>7

\* IInv is an invariant of the lock for every set of threads.
THEOREM Invariance == Spec => []IInv
<1>1. Init => IInv
  BY InitIInv
<1>2. IInv /\ [Next]_vars => IInv'
  <2> SUFFICES ASSUME IInv, [Next]_vars PROVE IInv'
    OBVIOUS
  <2>1. ASSUME NEW t \in Threads, LockRead(t) PROVE IInv'
    BY <2>1, LockReadIInv, ThreadsFinite
  <2>2. ASSUME NEW t \in Threads, ReadResume(t) PROVE IInv'
    BY <2>2, ReadResumeIInv, ThreadsFinite
  <2>3. ASSUME NEW t \in Threads, UnlockRead(t) PROVE IInv'
    BY <2>3, UnlockReadIInv, ThreadsFinite
  <2>4. ASSUME NEW t \in Threads, LockWrite(t) PROVE IInv'
    BY <2>4, LockWriteIInv, ThreadsFinite
  <2>5. ASSUME NEW t \in Threads, WriteResume(t) PROVE IInv'
    BY <2>5, WriteResumeIInv, ThreadsFinite
  <2>6. ASSUME NEW t \in Threads, UnlockWrite(t) PROVE IInv'
    BY <2>6, UnlockWriteIInv, ThreadsFinite
  <2>7. CASE UNCHANGED vars
    BY <2>7 DEF IInv, TypeOK, AssertionsHold, CountsMatchOwners, WaitListsExact,
                NoLostWakeup, ReadOwners, WriteOwners, vars
  <2> QED
    BY <2>1, <2>2, <2>3, <2>4, <2>5, <2>6, <2>7 DEF Next
<1> QED
  BY <1>1, <1>2, PTL DEF Spec

\* No assert in rwlock.c can fail.
THEOREM NoAssertionFails == Spec => []AssertionsHold
BY Invariance, PTL DEF IInv

\* The counters always describe the owners; in particular readers and a
\* writer never own the lock together.
THEOREM OwnersCounted == Spec => []CountsMatchOwners
BY Invariance, PTL DEF IInv

\* No thread sleeps on a free lock.
THEOREM NoWakeupLost == Spec => []NoLostWakeup
BY Invariance, PTL DEF IInv

\* The lock implements RWLockAbs: whatever the queues and counters do, callers
\* see readers sharing the lock and a writer alone in it.
THEOREM Refinement == Spec => ImplementsRWLock
<1> DEFINE R == {t \in Threads : pc[t] = "reading"}
           W == {t \in Threads : pc[t] = "writing"}
<1>1. Init => Abs!AbsInit
  BY DEF Init, Abs!AbsInit
<1>2. IInv /\ IInv' /\ [Next]_vars => [Abs!AbsNext]_(Abs!avars)
  <2> SUFFICES ASSUME IInv, IInv', [Next]_vars
               PROVE  Abs!AbsNext \/ UNCHANGED <<R, W>>
    BY DEF Abs!avars
  <2>1. pc \in [Threads -> Location]
    BY DEF IInv, TypeOK
  <2>2. (write_locked = 0 => W = {}) /\ (active_read_count = 0 => R = {})
    BY OwnersFinite, ThreadsFinite, FS_EmptySet
       DEF IInv, CountsMatchOwners, ReadOwners, WriteOwners
  <2>3. ASSUME NEW t \in Threads, LockRead(t)
        PROVE  Abs!AbsNext \/ UNCHANGED <<R, W>>
    <3>1. CASE MayRead
      <4>1. t \notin R /\ R' = R \cup {t} /\ W' = W /\ W = {}
        BY <2>1, <2>2, <2>3, <3>1 DEF LockRead, MayRead
      <4> QED
        BY <4>1 DEF Abs!AbsNext, Abs!EnterRead
    <3>2. CASE ~MayRead
      BY <2>1, <2>3, <3>2 DEF LockRead
    <3> QED
      BY <3>1, <3>2
  <2>4. ASSUME NEW t \in Threads, ReadResume(t)
        PROVE  Abs!AbsNext
    <3>1. active_read_count # 0
      BY <2>1, <2>4, OwnersFinite, ThreadsFinite, FS_EmptySet
         DEF IInv, CountsMatchOwners, ReadOwners, ReadResume
    <3>2. t \notin R /\ R' = R \cup {t} /\ W' = W
      BY <2>1, <2>4 DEF ReadResume
    <3>3. W = {}
      BY <2>2, <3>1 DEF IInv, CountsMatchOwners, TypeOK
    <3> QED
      BY <3>2, <3>3 DEF Abs!AbsNext, Abs!EnterRead
  <2>5. ASSUME NEW t \in Threads, UnlockRead(t)
        PROVE  Abs!AbsNext
    <3>1. t \in R
      BY <2>5 DEF UnlockRead
    <3>2. R' = R \ {t} /\ W' = W
      <4>1. CASE WakesWriter
        BY <2>1, <2>5, <3>1, <4>1, WakeFirstWriterExact DEF UnlockRead, WakesWriter
      <4>2. CASE ~WakesWriter
        BY <2>1, <2>5, <4>2 DEF UnlockRead
      <4> QED
        BY <4>1, <4>2
    <3> QED
      BY <3>1, <3>2 DEF Abs!AbsNext, Abs!LeaveRead
  <2>6. ASSUME NEW t \in Threads, LockWrite(t)
        PROVE  Abs!AbsNext \/ UNCHANGED <<R, W>>
    <3>1. CASE MayWrite
      <4>1. R = {} /\ W = {} /\ W' = {t} /\ R' = R
        BY <2>1, <2>2, <2>6, <3>1 DEF LockWrite, MayWrite
      <4> QED
        BY <4>1 DEF Abs!AbsNext, Abs!EnterWrite
    <3>2. CASE ~MayWrite
      BY <2>1, <2>6, <3>2 DEF LockWrite
    <3> QED
      BY <3>1, <3>2
  <2>7. ASSUME NEW t \in Threads, WriteResume(t)
        PROVE  Abs!AbsNext
    <3>1. t \in WriteOwners /\ t \notin W
      BY <2>7 DEF WriteResume, WriteOwners
    <3>2. W = {} /\ active_read_count = 0
      BY <3>1 DEF IInv, CountsMatchOwners, WriteOwners
    <3>3. R = {} /\ R' = R /\ W' = {t}
      BY <2>1, <2>2, <2>7, <3>2 DEF WriteResume
    <3> QED
      BY <3>2, <3>3 DEF Abs!AbsNext, Abs!EnterWrite
  <2>8. ASSUME NEW t \in Threads, UnlockWrite(t)
        PROVE  Abs!AbsNext
    <3>1. t \in W
      BY <2>8 DEF UnlockWrite
    <3>2. R' = R /\ W' = W \ {t}
      <4>1. CASE WakesReaders
        BY <2>1, <2>8, <4>1 DEF UnlockWrite, IInv, WaitListsExact
      <4>2. CASE ~WakesReaders /\ writer_wait_list # <<>>
        BY <2>1, <2>8, <4>2, WakeFirstWriterExact DEF UnlockWrite
      <4>3. CASE ~WakesReaders /\ writer_wait_list = <<>>
        BY <2>1, <2>8, <4>3 DEF UnlockWrite
      <4> QED
        BY <4>1, <4>2, <4>3
    <3> QED
      BY <3>1, <3>2 DEF Abs!AbsNext, Abs!LeaveWrite
  <2>9. CASE UNCHANGED vars
    BY <2>9 DEF vars
  <2> QED
    BY <2>3, <2>4, <2>5, <2>6, <2>7, <2>8, <2>9 DEF Next
<1> QED
  BY <1>1, <1>2, Invariance, PTL DEF Spec, ImplementsRWLock, Abs!AbsSpec

-----------------------------------------------------------------------------
\* Processes and their reference counts.

UserRecord == [state : {"free", "alive", "dead"}, proc : Procs \cup {None},
               holds : Procs \cup {None}]
ProcRecord == [state : {"free", "live", "leaked"}, ref_count : Nat,
               thread_list : SUBSET UserThreads]

\* A thread structure in use has a process; a dead one has returned from
\* SYS_exec.
ThreadsExact ==
    \A t \in UserThreads :
        /\ user_thread[t].state = "free" => user_thread[t] = NoUser
        /\ user_thread[t].state # "free" => user_thread[t].proc \in Procs
        /\ user_thread[t].state = "dead" => user_thread[t].holds = None

\* dead_q and the reaper have exactly the dead threads, each once.
DeadExact ==
    /\ IsInjective(dead_q)
    /\ \A t \in UserThreads :
          user_thread[t].state = "dead" <=> t \in Range(dead_q) \/ t = reaper
    /\ reaper \notin Range(dead_q)

\* thread_list has exactly the threads of the process, but for the one that
\* destroy_thread has taken off it.
ListsExact ==
    \A p \in Procs :
        /\ \A t \in UserThreads :
              t \in proc[p].thread_list <=> user_thread[t].proc = p /\ t # reaper
        /\ proc[p].state # "live" => proc[p].thread_list = {}

ListInv == ProcTypeOK /\ ThreadsExact /\ DeadExact /\ ListsExact

\* A thread of p exists; somebody else has a pointer to p: the caller of
\* exec_program, or kernel_main.
HasThread(p) == \E t \in UserThreads : user_thread[t].proc = p
IsHeld(p) == p = InitProc \/ \E t \in UserThreads : user_thread[t].holds = p

\* The reference count of a process counts its one thread and its one holder.
RefsExact ==
    /\ power \in {"running", "shutdown"}
    /\ \A t, u \in UserThreads :
          /\ user_thread[t].proc = user_thread[u].proc /\ user_thread[t].proc # None => t = u
          /\ user_thread[t].holds = user_thread[u].holds /\ user_thread[t].holds # None => t = u
    /\ \A t \in UserThreads : user_thread[t].holds # InitProc
    /\ \A p \in Procs :
          /\ proc[p].state = "live" <=> HasThread(p) \/ IsHeld(p)
          /\ proc[p].state = "live" =>
                proc[p].ref_count = (IF HasThread(p) THEN 1 ELSE 0) + (IF IsHeld(p) THEN 1 ELSE 0)

ProcIInv == ListInv /\ (spawns = 0 => RefsExact)

\* kernel_main's init process satisfies the invariant.
LEMMA ProcInitInv == ProcInit => ProcIInv
<1> SUFFICES ASSUME ProcInit PROVE ProcIInv
  OBVIOUS
<1> USE ProcsAssumption DEF ProcInit
<1>1. ProcTypeOK
  BY DEF ProcTypeOK, NewProc, NewThread, NoProc, NoUser
<1>2. ThreadsExact
  BY DEF ThreadsExact, NewThread, NoUser
<1>3. DeadExact
  BY DEF DeadExact, NewThread, NoUser, IsInjective, Range
<1>4. ListsExact
  BY DEF ListsExact, NewThread, NoUser, NewProc, NoProc
<1>5. RefsExact
  BY DEF RefsExact, HasThread, IsHeld, NewThread, NoUser, NewProc, NoProc
<1> QED
  BY <1>1, <1>2, <1>3, <1>4, <1>5 DEF ProcIInv, ListInv

\* exec_program: a new process with one thread, held by the caller.
LEMMA ExecInv ==
    ASSUME ProcIInv, NEW t \in UserThreads, exec_program(t)
    PROVE  ProcIInv'
<1> USE ProcsAssumption DEF ProcIInv, ListInv
<1>1. PICK p \in Procs, u \in UserThreads :
        /\ InUser(t)
        /\ proc[p].state = "free" /\ user_thread[u].state = "free"
        /\ proc' = [proc EXCEPT ![p] = NewProc(u)]
        /\ user_thread' = [user_thread EXCEPT ![u] = NewThread(p), ![t].holds = p]
        /\ UNCHANGED <<dead_q, reaper, spawns, power>>
  BY DEF exec_program
<1>2. /\ t # u /\ user_thread[t].state = "alive" /\ user_thread[t].holds = None
      /\ user_thread[u].state = "free" /\ power = "running"
  BY <1>1 DEF InUser
<1>3. ProcTypeOK'
  <2>1. NewThread(p) \in UserRecord /\ [user_thread[t] EXCEPT !.holds = p] \in UserRecord
    BY DEF ProcTypeOK, NewThread, UserRecord
  <2>2. user_thread' \in [UserThreads -> UserRecord]
    BY <1>1, <1>2, <2>1 DEF ProcTypeOK, UserRecord
  <2>3. NewProc(u) \in ProcRecord
    BY DEF NewProc, ProcRecord
  <2>4. proc' \in [Procs -> ProcRecord]
    BY <1>1, <2>3 DEF ProcTypeOK, ProcRecord
  <2> QED
    BY <1>1, <2>2, <2>4 DEF ProcTypeOK, ProcRecord, UserRecord
<1>4. /\ user_thread'[u] = NewThread(p)
      /\ user_thread'[t].state = "alive" /\ user_thread'[t].holds = p
      /\ user_thread'[t].proc = user_thread[t].proc
      /\ \A w \in UserThreads \ {t, u} : user_thread'[w] = user_thread[w]
      /\ proc'[p] = NewProc(u)
      /\ \A q \in Procs \ {p} : proc'[q] = proc[q]
  BY <1>1, <1>2 DEF ProcTypeOK
<1>5. /\ user_thread'[u].proc = p /\ user_thread'[u].holds = None
      /\ user_thread'[u].state = "alive"
      /\ \A w \in UserThreads \ {u} : /\ user_thread'[w].proc = user_thread[w].proc
                                      /\ user_thread'[w].state = user_thread[w].state
      /\ \A w \in UserThreads \ {t, u} : user_thread'[w].holds = user_thread[w].holds
      /\ proc'[p].state = "live" /\ proc'[p].ref_count = 2 /\ proc'[p].thread_list = {u}
  BY <1>2, <1>4 DEF NewThread, NewProc
<1>6. /\ u # reaper /\ t # reaper
      /\ user_thread[u].proc = None /\ user_thread[u].holds = None
      /\ proc[p].thread_list = {} /\ reaper' = reaper
  BY <1>1, <1>2 DEF DeadExact, ThreadsExact, ListsExact, NoUser
<1>7. ThreadsExact'
  BY <1>2, <1>4 DEF ThreadsExact, NewThread, NoUser
<1>8. DeadExact'
  <2>1. \A w \in UserThreads : user_thread'[w].state = "dead" <=> user_thread[w].state = "dead"
    BY <1>2, <1>5
  <2> QED
    BY <1>1, <2>1 DEF DeadExact
<1>9. ListsExact'
  <2>1. ASSUME NEW q \in Procs
        PROVE  /\ \A w \in UserThreads :
                     w \in proc'[q].thread_list <=> user_thread'[w].proc = q /\ w # reaper'
               /\ proc'[q].state # "live" => proc'[q].thread_list = {}
    <3>1. CASE q = p
      BY <1>5, <1>6, <3>1 DEF ListsExact
    <3>2. CASE q # p
      BY <1>4, <1>5, <1>6, <3>2 DEF ListsExact
    <3> QED
      BY <3>1, <3>2
  <2> QED
    BY <2>1 DEF ListsExact
<1>10. ASSUME spawns' = 0 PROVE RefsExact'
  <2>1. RefsExact
    BY <1>1, <1>10
  <2>2. ~HasThread(p) /\ ~IsHeld(p)
    BY <1>1, <2>1 DEF RefsExact
  <2>3. HasThread(p)' /\ IsHeld(p)'
    BY <1>4 DEF HasThread, IsHeld, NewThread
  <2>4. \A q \in Procs \ {p} : HasThread(q)' = HasThread(q) /\ IsHeld(q)' = IsHeld(q)
    BY <1>2, <1>4, <1>6 DEF HasThread, IsHeld, NewThread
  <2>5. power' = "running"
    BY <1>1, <1>2
  <2>6. ASSUME NEW v \in UserThreads, NEW w \in UserThreads
        PROVE  /\ user_thread'[v].proc = user_thread'[w].proc /\ user_thread'[v].proc # None => v = w
               /\ user_thread'[v].holds = user_thread'[w].holds /\ user_thread'[v].holds # None => v = w
    BY <1>2, <1>4, <1>5, <1>6, <2>1, <2>2 DEF RefsExact, HasThread, IsHeld
  <2>7. \A v \in UserThreads : user_thread'[v].holds # InitProc
    BY <1>2, <1>4, <1>5, <1>6, <2>1, <2>2 DEF RefsExact, IsHeld
  <2> QED
    BY <1>4, <1>5, <2>1, <2>3, <2>4, <2>5, <2>6, <2>7 DEF RefsExact
<1> QED
  BY <1>1, <1>3, <1>7, <1>8, <1>9, <1>10

\* When load_program fails the new process has neither a thread nor a holder.
LEMMA ExecFailsInv ==
    ASSUME ProcIInv, NEW t \in UserThreads, ExecFails(t)
    PROVE  ProcIInv'
<1> USE ProcsAssumption DEF ProcIInv, ListInv
<1> DEFINE leaked == [state |-> "leaked", ref_count |-> 2, thread_list |-> {}]
<1>1. PICK p \in Procs :
        /\ proc[p].state = "free"
        /\ proc' = [proc EXCEPT ![p] = leaked]
        /\ UNCHANGED <<user_thread, dead_q, reaper, spawns, power>>
  BY DEF ExecFails
<1>2. ProcTypeOK'
  <2>1. leaked \in ProcRecord
    BY DEF ProcRecord
  <2> QED
    BY <1>1, <2>1 DEF ProcTypeOK, ProcRecord
<1>3. /\ proc'[p].state = "leaked" /\ proc'[p].thread_list = {} /\ proc[p].thread_list = {}
      /\ \A q \in Procs \ {p} : proc'[q] = proc[q]
  BY <1>1 DEF ProcTypeOK, ListsExact
<1>4. ThreadsExact' /\ DeadExact'
  BY <1>1 DEF ThreadsExact, DeadExact
<1>5. ListsExact'
  BY <1>1, <1>3 DEF ListsExact
<1>6. ASSUME spawns' = 0 PROVE RefsExact'
  <2>1. RefsExact /\ \A q \in Procs : HasThread(q)' = HasThread(q) /\ IsHeld(q)' = IsHeld(q)
    BY <1>1, <1>6 DEF HasThread, IsHeld
  <2> QED
    BY <1>1, <1>3, <2>1 DEF RefsExact
<1> QED
  BY <1>1, <1>2, <1>4, <1>5, <1>6

\* SYS_spawn_thread: one more thread in the caller's process.
LEMMA SpawnInv ==
    ASSUME ProcIInv, NEW t \in UserThreads, spawn_user_thread(t)
    PROVE  ProcIInv'
<1> USE ProcsAssumption DEF ProcIInv, ListInv
<1> DEFINE p == user_thread[t].proc
<1>1. PICK u \in UserThreads :
        /\ InUser(t)
        /\ spawns < MaxSpawns /\ spawns' = spawns + 1
        /\ user_thread[u].state = "free"
        /\ proc' = [proc EXCEPT ![p].thread_list = @ \cup {u}]
        /\ user_thread' = [user_thread EXCEPT ![u] = NewThread(p)]
        /\ UNCHANGED <<dead_q, reaper, power>>
  BY DEF spawn_user_thread
<1>2. /\ p \in Procs /\ p # None /\ t # u /\ t # reaper /\ u # reaper
      /\ user_thread[t].state = "alive" /\ user_thread[u].proc = None
  BY <1>1 DEF InUser, ThreadsExact, DeadExact, NoUser
<1>3. t \in proc[p].thread_list /\ proc[p].state = "live"
  BY <1>2 DEF ListsExact
<1>4. /\ user_thread'[u] = NewThread(p)
      /\ \A w \in UserThreads \ {u} : user_thread'[w] = user_thread[w]
      /\ \A q \in Procs \ {p} : proc'[q] = proc[q]
      /\ proc'[p].thread_list = proc[p].thread_list \cup {u}
      /\ proc'[p].state = "live" /\ reaper' = reaper
  BY <1>1, <1>2, <1>3 DEF ProcTypeOK
<1>5. ProcTypeOK'
  <2>1. NewThread(p) \in UserRecord
    BY <1>2 DEF NewThread, UserRecord
  <2>2. user_thread' \in [UserThreads -> UserRecord]
    BY <1>1, <2>1 DEF ProcTypeOK, UserRecord
  <2>3. [proc[p] EXCEPT !.thread_list = @ \cup {u}] \in ProcRecord
    <3>1. proc[p] \in ProcRecord
      BY <1>2 DEF ProcTypeOK, ProcRecord
    <3>2. proc[p].thread_list \cup {u} \in SUBSET UserThreads
      BY <3>1 DEF ProcRecord
    <3> QED
      BY <3>1, <3>2 DEF ProcRecord
  <2>4. proc' \in [Procs -> ProcRecord]
    BY <1>1, <1>2, <2>3 DEF ProcTypeOK, ProcRecord
  <2>5. spawns' \in 0 .. MaxSpawns
    BY <1>1 DEF ProcTypeOK
  <2> QED
    BY <1>1, <2>2, <2>4, <2>5 DEF ProcTypeOK, ProcRecord, UserRecord
<1>6. /\ user_thread'[u].proc = p /\ user_thread'[u].state = "alive"
      /\ user_thread'[u].holds = None
  BY <1>4 DEF NewThread
<1>7. ThreadsExact'
  BY <1>2, <1>4, <1>6 DEF ThreadsExact
<1>8. DeadExact'
  <2>1. \A w \in UserThreads : user_thread'[w].state = "dead" <=> user_thread[w].state = "dead"
    BY <1>1, <1>4, <1>6
  <2> QED
    BY <1>1, <2>1 DEF DeadExact
<1>9. ListsExact'
  <2>1. ASSUME NEW q \in Procs, NEW w \in UserThreads
        PROVE  w \in proc'[q].thread_list <=> user_thread'[w].proc = q /\ w # reaper'
    BY <1>2, <1>4, <1>6, <2>1 DEF ListsExact
  <2>2. \A q \in Procs : proc'[q].state # "live" => proc'[q].thread_list = {}
    BY <1>4 DEF ListsExact
  <2> QED
    BY <2>1, <2>2 DEF ListsExact
<1>10. spawns' # 0
  BY <1>1 DEF ProcTypeOK
<1> QED
  BY <1>5, <1>7, <1>8, <1>9, <1>10

\* SYS_thread_exit: the thread joins dead_q and stays on its process's list.
LEMMA ThreadExitInv ==
    ASSUME ProcIInv, NEW t \in UserThreads, thread_exit(t)
    PROVE  ProcIInv'
<1> USE ProcsAssumption DEF ProcIInv, ListInv
<1>1. /\ InUser(t)
      /\ user_thread' = [user_thread EXCEPT ![t].state = "dead"]
      /\ dead_q' = Append(dead_q, t)
      /\ UNCHANGED <<proc, reaper, spawns, power>>
  BY DEF thread_exit
<1>2. /\ user_thread[t].state = "alive" /\ user_thread[t].holds = None
      /\ t \notin Range(dead_q) /\ t # reaper
  BY <1>1 DEF InUser, DeadExact
<1>3. /\ user_thread'[t].state = "dead"
      /\ \A w \in UserThreads : /\ user_thread'[w].proc = user_thread[w].proc
                                /\ user_thread'[w].holds = user_thread[w].holds
      /\ \A w \in UserThreads \ {t} : user_thread'[w] = user_thread[w]
  BY <1>1 DEF ProcTypeOK
<1>4. /\ dead_q' \in Seq(UserThreads)
      /\ Range(dead_q') = Range(dead_q) \cup {t}
      /\ IsInjective(dead_q')
  BY <1>1, <1>2, AppendQueue DEF ProcTypeOK, DeadExact
<1>5. ProcTypeOK'
  <2>1. [user_thread[t] EXCEPT !.state = "dead"] \in UserRecord
    BY DEF ProcTypeOK, UserRecord
  <2>2. user_thread' \in [UserThreads -> UserRecord]
    BY <1>1, <2>1 DEF ProcTypeOK, UserRecord
  <2> QED
    BY <1>1, <1>4, <2>2 DEF ProcTypeOK, UserRecord
<1>6. ThreadsExact'
  BY <1>2, <1>3 DEF ThreadsExact
<1>7. DeadExact'
  BY <1>1, <1>2, <1>3, <1>4 DEF DeadExact
<1>8. ListsExact'
  BY <1>1, <1>3 DEF ListsExact
<1>9. ASSUME spawns' = 0 PROVE RefsExact'
  <2>1. RefsExact /\ \A q \in Procs : HasThread(q)' = HasThread(q) /\ IsHeld(q)' = IsHeld(q)
    BY <1>1, <1>3, <1>9 DEF HasThread, IsHeld
  <2> QED
    BY <1>1, <1>3, <2>1 DEF RefsExact
<1> QED
  BY <1>1, <1>5, <1>6, <1>7, <1>8, <1>9

\* The first half of destroy_thread.
LEMMA ReapUnlinkInv ==
    ASSUME ProcIInv, ReapUnlink
    PROVE  ProcIInv'
<1> USE ProcsAssumption DEF ProcIInv, ListInv
<1> DEFINE t == Head(dead_q)
           p == user_thread[t].proc
<1>1. /\ reaper = None /\ dead_q # << >>
      /\ reaper' = t
      /\ dead_q' = Tail(dead_q)
      /\ proc' = [proc EXCEPT ![p].thread_list = @ \ {t}]
      /\ UNCHANGED <<user_thread, spawns, power>>
  BY DEF ReapUnlink
<1>2. /\ t \in UserThreads /\ t \in Range(dead_q)
      /\ dead_q' \in Seq(UserThreads)
      /\ Range(dead_q') = Range(dead_q) \ {t}
      /\ IsInjective(dead_q')
  BY <1>1, TailQueue DEF ProcTypeOK, DeadExact
<1>3. user_thread[t].state = "dead" /\ p \in Procs
  BY <1>2 DEF DeadExact, ThreadsExact
<1>4. /\ \A q \in Procs : proc'[q].state = proc[q].state /\ proc'[q].ref_count = proc[q].ref_count
      /\ \A q \in Procs \ {p} : proc'[q].thread_list = proc[q].thread_list
      /\ proc'[p].thread_list = proc[p].thread_list \ {t}
  BY <1>1, <1>3 DEF ProcTypeOK
<1>5. ProcTypeOK'
  <2>1. [proc[p] EXCEPT !.thread_list = @ \ {t}] \in ProcRecord
    <3>1. proc[p] \in ProcRecord
      BY <1>3 DEF ProcTypeOK, ProcRecord
    <3>2. proc[p].thread_list \ {t} \in SUBSET UserThreads
      BY <3>1 DEF ProcRecord
    <3> QED
      BY <3>1, <3>2 DEF ProcRecord
  <2>2. proc' \in [Procs -> ProcRecord]
    BY <1>1, <1>3, <2>1 DEF ProcTypeOK, ProcRecord
  <2> QED
    BY <1>1, <1>2, <2>2 DEF ProcTypeOK, ProcRecord
<1>6. ThreadsExact'
  BY <1>1 DEF ThreadsExact
<1>7. DeadExact'
  BY <1>1, <1>2, <1>3 DEF DeadExact
<1>8. ListsExact'
  <2>1. user_thread' = user_thread /\ reaper' = t /\ reaper = None
    BY <1>1
  <2>2. ASSUME NEW q \in Procs, NEW w \in UserThreads
        PROVE  w \in proc'[q].thread_list <=> user_thread'[w].proc = q /\ w # reaper'
    BY <1>2, <1>3, <1>4, <2>1, <2>2 DEF ListsExact
  <2>3. \A q \in Procs : proc'[q].state # "live" => proc'[q].thread_list = {}
    BY <1>3, <1>4 DEF ListsExact
  <2> QED
    BY <2>2, <2>3 DEF ListsExact
<1>9. ASSUME spawns' = 0 PROVE RefsExact'
  <2>1. RefsExact /\ \A q \in Procs : HasThread(q)' = HasThread(q) /\ IsHeld(q)' = IsHeld(q)
    BY <1>1, <1>9 DEF HasThread, IsHeld
  <2> QED
    BY <1>1, <1>4, <2>1 DEF RefsExact
<1> QED
  BY <1>1, <1>5, <1>6, <1>7, <1>8, <1>9

\* dec_proc_ref changes one process, keeps the thread lists, and frees the
\* process only when its list is empty; with a count of one and an empty list,
\* or a larger count, no assert fails.
LEMMA DecRefExact ==
    ASSUME ListInv, NEW p \in Procs, NEW th, NEW rp, dec_proc_ref(p, th, rp)
    PROVE  /\ user_thread' = th /\ reaper' = rp /\ dead_q' = dead_q /\ spawns' = spawns
           /\ proc' \in [Procs -> ProcRecord]
           /\ power' \in {power, "assert", "corrupt"}
           /\ \A q \in Procs : /\ proc'[q].thread_list = proc[q].thread_list
                               /\ q # p => proc'[q] = proc[q]
                               /\ proc'[q].state # "live" => proc'[q].thread_list = {}
           /\ proc[p].state = "live" /\ (proc[p].ref_count = 1 => proc[p].thread_list = {}) =>
                /\ power' = power
                /\ proc[p].ref_count = 1 => proc'[p].state = "free"
                /\ proc[p].ref_count > 1 => /\ proc'[p].state = "live"
                                            /\ proc'[p].ref_count = proc[p].ref_count - 1
<1> USE DEF ListInv
<1>1. /\ user_thread' = th /\ reaper' = rp /\ dead_q' = dead_q /\ spawns' = spawns
  BY DEF dec_proc_ref
<1>2. /\ proc \in [Procs -> ProcRecord] /\ proc[p] \in ProcRecord
      /\ \A q \in Procs : proc[q].state # "live" => proc[q].thread_list = {}
  BY DEF ProcTypeOK, ProcRecord, ListsExact
<1>3. CASE /\ proc[p].state = "live" /\ proc[p].ref_count > 1
           /\ proc' = [proc EXCEPT ![p].ref_count = @ - 1]
           /\ UNCHANGED power
  <2>1. proc[p].ref_count - 1 \in Nat
    BY <1>2, <1>3 DEF ProcRecord
  <2>2. [proc[p] EXCEPT !.ref_count = @ - 1] \in ProcRecord
    BY <1>2, <2>1 DEF ProcRecord
  <2>3. proc' \in [Procs -> ProcRecord]
    BY <1>2, <1>3, <2>2
  <2>4. /\ proc'[p].thread_list = proc[p].thread_list /\ proc'[p].state = "live"
        /\ proc'[p].ref_count = proc[p].ref_count - 1
        /\ \A q \in Procs \ {p} : proc'[q] = proc[q]
    BY <1>2, <1>3 DEF ProcRecord
  <2> QED
    BY <1>1, <1>2, <1>3, <2>3, <2>4
<1>4. CASE /\ proc[p].state = "live" /\ proc[p].ref_count = 1
           /\ proc[p].thread_list = {}
           /\ proc' = [proc EXCEPT ![p] = NoProc]
           /\ UNCHANGED power
  <2>1. NoProc \in ProcRecord
    BY DEF ProcRecord, NoProc
  <2>2. proc' \in [Procs -> ProcRecord]
    BY <1>2, <1>4, <2>1
  <2>3. /\ proc'[p].thread_list = {} /\ proc'[p].state = "free"
        /\ \A q \in Procs \ {p} : proc'[q] = proc[q]
    BY <1>2, <1>4 DEF NoProc
  <2> QED
    BY <1>1, <1>2, <1>4, <2>2, <2>3
<1>5. CASE /\ proc[p].state = "live" /\ proc[p].ref_count = 1
           /\ proc[p].thread_list # {}
           /\ power' = "assert"
           /\ UNCHANGED proc
  BY <1>1, <1>2, <1>5
<1>6. CASE /\ proc[p].state = "free"
           /\ power' = "corrupt"
           /\ UNCHANGED proc
  BY <1>1, <1>2, <1>6
<1> QED
  BY <1>3, <1>4, <1>5, <1>6 DEF dec_proc_ref

\* The parent of a new process drops its reference, before or after the
\* process has ended.
LEMMA ExecReturnsInv ==
    ASSUME ProcIInv, NEW t \in UserThreads, ExecReturns(t)
    PROVE  ProcIInv'
<1> USE ProcsAssumption DEF ProcIInv, ListInv
<1> DEFINE th == [user_thread EXCEPT ![t].holds = None]
<1>0. PICK p \in Procs : p = user_thread[t].holds
  BY DEF ExecReturns, ProcTypeOK
<1>1. /\ power = "running" /\ p # None /\ user_thread[t].holds = p
      /\ dec_proc_ref(p, th, reaper)
  BY <1>0 DEF ExecReturns
<1>2. /\ user_thread' = th /\ reaper' = reaper /\ dead_q' = dead_q /\ spawns' = spawns
      /\ proc' \in [Procs -> ProcRecord]
      /\ power' \in {power, "assert", "corrupt"}
      /\ \A q \in Procs : /\ proc'[q].thread_list = proc[q].thread_list
                          /\ q # p => proc'[q] = proc[q]
                          /\ proc'[q].state # "live" => proc'[q].thread_list = {}
  BY <1>1, DecRefExact
<1>3. /\ user_thread'[t].holds = None
      /\ \A w \in UserThreads : /\ user_thread'[w].proc = user_thread[w].proc
                                /\ user_thread'[w].state = user_thread[w].state
                                /\ w # t => user_thread'[w] = user_thread[w]
  BY <1>2 DEF ProcTypeOK
<1>4. ProcTypeOK'
  <2>1. [user_thread[t] EXCEPT !.holds = None] \in UserRecord
    BY DEF ProcTypeOK, UserRecord
  <2>2. user_thread' \in [UserThreads -> UserRecord]
    BY <1>2, <2>1 DEF ProcTypeOK, UserRecord
  <2> QED
    BY <1>1, <1>2, <2>2 DEF ProcTypeOK, ProcRecord, UserRecord
<1>5. ThreadsExact'
  <2>1. user_thread[t].state # "free"
    BY <1>1 DEF ThreadsExact, NoUser
  <2> QED
    BY <1>3, <2>1 DEF ThreadsExact
<1>6. DeadExact'
  BY <1>2, <1>3 DEF DeadExact
<1>7. ListsExact'
  BY <1>2, <1>3 DEF ListsExact
<1>8. ASSUME spawns' = 0 PROVE RefsExact'
  <2>1. RefsExact /\ IsHeld(p) /\ proc[p].state = "live"
    BY <1>1, <1>2, <1>8 DEF RefsExact, IsHeld
  <2>2. proc[p].ref_count = IF HasThread(p) THEN 2 ELSE 1
    BY <1>1, <2>1 DEF RefsExact
  <2>3. proc[p].ref_count = 1 => proc[p].thread_list = {}
    BY <1>1, <2>2 DEF ListsExact, HasThread, ProcTypeOK
  <2>4. /\ power' = power
        /\ proc[p].ref_count = 1 => proc'[p].state = "free"
        /\ proc[p].ref_count > 1 => /\ proc'[p].state = "live"
                                    /\ proc'[p].ref_count = proc[p].ref_count - 1
    BY <1>1, <2>1, <2>3, DecRefExact
  <2>5. \A q \in Procs : HasThread(q)' = HasThread(q)
    BY <1>3 DEF HasThread
  <2>6. ~IsHeld(p)' /\ \A q \in Procs \ {p} : IsHeld(q)' = IsHeld(q)
    BY <1>1, <1>3, <2>1 DEF IsHeld, RefsExact
  <2>7. /\ proc'[p].state = "live" <=> HasThread(p)
        /\ HasThread(p) => proc'[p].ref_count = 1
    BY <2>2, <2>4
  <2>8. ASSUME NEW q \in Procs
        PROVE  /\ proc'[q].state = "live" <=> HasThread(q)' \/ IsHeld(q)'
               /\ proc'[q].state = "live" =>
                     proc'[q].ref_count = (IF HasThread(q)' THEN 1 ELSE 0) + (IF IsHeld(q)' THEN 1 ELSE 0)
    BY <1>1, <1>2, <2>1, <2>5, <2>6, <2>7 DEF RefsExact
  <2>9. ASSUME NEW v \in UserThreads, NEW w \in UserThreads
        PROVE  /\ user_thread'[v].proc = user_thread'[w].proc /\ user_thread'[v].proc # None => v = w
               /\ user_thread'[v].holds = user_thread'[w].holds /\ user_thread'[v].holds # None => v = w
               /\ user_thread'[v].holds # InitProc
    BY <1>3, <2>1 DEF RefsExact
  <2> QED
    BY <1>1, <2>4, <2>8, <2>9 DEF RefsExact
<1> QED
  BY <1>4, <1>5, <1>6, <1>7, <1>8

\* The second half of destroy_thread.
LEMMA ReapFreeInv ==
    ASSUME ProcIInv, ReapFree
    PROVE  ProcIInv'
<1> USE ProcsAssumption DEF ProcIInv, ListInv
<1> DEFINE th == [user_thread EXCEPT ![reaper] = NoUser]
<1>1. /\ power = "running" /\ reaper \in UserThreads
      /\ dec_proc_ref(user_thread[reaper].proc, th, None)
  BY DEF ReapFree, ProcTypeOK
<1>a. PICK p \in Procs : p = user_thread[reaper].proc
  BY <1>1 DEF DeadExact, ThreadsExact
<1>2. /\ p # None /\ user_thread[reaper].proc = p /\ user_thread[reaper].state = "dead"
      /\ user_thread[reaper].holds = None /\ reaper \notin Range(dead_q)
      /\ dec_proc_ref(p, th, None)
  BY <1>a, <1>1 DEF DeadExact, ThreadsExact
<1>3. /\ user_thread' = th /\ reaper' = None /\ dead_q' = dead_q /\ spawns' = spawns
      /\ proc' \in [Procs -> ProcRecord]
      /\ power' \in {power, "assert", "corrupt"}
      /\ \A q \in Procs : /\ proc'[q].thread_list = proc[q].thread_list
                          /\ q # p => proc'[q] = proc[q]
                          /\ proc'[q].state # "live" => proc'[q].thread_list = {}
  BY <1>1, <1>2, DecRefExact
<1>4. /\ user_thread'[reaper].proc = None /\ user_thread'[reaper].holds = None
      /\ user_thread'[reaper].state = "free" /\ user_thread'[reaper] = NoUser
      /\ \A w \in UserThreads \ {reaper} : user_thread'[w] = user_thread[w]
  BY <1>1, <1>3 DEF ProcTypeOK, NoUser
<1>5. ProcTypeOK'
  <2>1. NoUser \in UserRecord
    BY DEF NoUser, UserRecord
  <2>2. user_thread' \in [UserThreads -> UserRecord]
    BY <1>3, <2>1 DEF ProcTypeOK, UserRecord
  <2> QED
    BY <1>1, <1>3, <2>2 DEF ProcTypeOK, ProcRecord, UserRecord
<1>6. ThreadsExact'
  BY <1>4 DEF ThreadsExact
<1>7. DeadExact'
  <2>1. /\ \A w \in UserThreads : user_thread'[w].state = "dead" <=> w \in Range(dead_q)
    BY <1>1, <1>2, <1>4 DEF DeadExact
  <2>2. None \notin Range(dead_q)
    BY DEF ProcTypeOK, Range
  <2> QED
    BY <1>3, <2>1, <2>2 DEF DeadExact
<1>8. ListsExact'
  <2>1. ASSUME NEW q \in Procs, NEW w \in UserThreads
        PROVE  w \in proc'[q].thread_list <=> user_thread'[w].proc = q /\ w # reaper'
    BY <1>1, <1>3, <1>4 DEF ListsExact
  <2> QED
    BY <1>3, <2>1 DEF ListsExact
<1>9. ASSUME spawns' = 0 PROVE RefsExact'
  <2>1. RefsExact /\ HasThread(p) /\ proc[p].state = "live"
    BY <1>1, <1>2, <1>3, <1>9 DEF RefsExact, HasThread
  <2>2. proc[p].ref_count = IF IsHeld(p) THEN 2 ELSE 1
    BY <1>2, <2>1 DEF RefsExact
  <2>3. \A w \in UserThreads : user_thread[w].proc = p => w = reaper
    BY <1>1, <1>2, <2>1 DEF RefsExact
  <2>4. proc[p].thread_list = {}
    BY <1>2, <2>3 DEF ListsExact, ProcTypeOK
  <2>5. /\ power' = power
        /\ proc[p].ref_count = 1 => proc'[p].state = "free"
        /\ proc[p].ref_count > 1 => /\ proc'[p].state = "live"
                                    /\ proc'[p].ref_count = proc[p].ref_count - 1
    BY <1>1, <1>2, <2>1, <2>4, DecRefExact
  <2>6. \A q \in Procs : IsHeld(q)' = IsHeld(q)
    BY <1>1, <1>2, <1>4 DEF IsHeld
  <2>7. ~HasThread(p)' /\ \A q \in Procs \ {p} : HasThread(q)' = HasThread(q)
    BY <1>1, <1>2, <1>4, <2>3 DEF HasThread
  <2>8. /\ proc'[p].state = "live" <=> IsHeld(p)
        /\ IsHeld(p) => proc'[p].ref_count = 1
    BY <2>2, <2>5
  <2>9. ASSUME NEW q \in Procs
        PROVE  /\ proc'[q].state = "live" <=> HasThread(q)' \/ IsHeld(q)'
               /\ proc'[q].state = "live" =>
                     proc'[q].ref_count = (IF HasThread(q)' THEN 1 ELSE 0) + (IF IsHeld(q)' THEN 1 ELSE 0)
    BY <1>2, <1>3, <2>1, <2>6, <2>7, <2>8 DEF RefsExact
  <2>10. ASSUME NEW v \in UserThreads, NEW w \in UserThreads
         PROVE  /\ user_thread'[v].proc = user_thread'[w].proc /\ user_thread'[v].proc # None => v = w
                /\ user_thread'[v].holds = user_thread'[w].holds /\ user_thread'[v].holds # None => v = w
                /\ user_thread'[v].holds # InitProc
    BY <1>1, <1>4, <2>1 DEF RefsExact
  <2> QED
    BY <1>1, <2>5, <2>9, <2>10 DEF RefsExact
<1> QED
  BY <1>5, <1>6, <1>7, <1>8, <1>9

\* kernel_main's loop only changes power; it never finds its process freed.
LEMMA WatchInv ==
    ASSUME ProcIInv, Shutdown \/ WatchFreed
    PROVE  ProcIInv'
<1> USE ProcsAssumption DEF ProcIInv, ListInv
<1>1. /\ UNCHANGED <<proc, user_thread, dead_q, reaper, spawns>>
      /\ power' = "shutdown" \/ (power' = "corrupt" /\ proc[InitProc].state = "free")
  BY DEF Shutdown, WatchFreed
<1>2. ListInv'
  BY <1>1 DEF ProcTypeOK, ThreadsExact, DeadExact, ListsExact
<1>3. ASSUME spawns' = 0 PROVE RefsExact'
  <2>1. RefsExact /\ proc[InitProc].state = "live"
    BY <1>1, <1>3 DEF RefsExact, IsHeld
  <2>2. power' = "shutdown"
    BY <1>1, <2>1
  <2> QED
    BY <1>1, <2>1, <2>2 DEF RefsExact, HasThread, IsHeld
<1> QED
  BY <1>2, <1>3

\* ProcIInv is an invariant for every set of processes and threads.
THEOREM ProcInvariance == ProcSpec => []ProcIInv
<1>1. ProcInit => ProcIInv
  BY ProcInitInv
<1>2. ProcIInv /\ [ProcNext]_procVars => ProcIInv'
  <2> SUFFICES ASSUME ProcIInv, [ProcNext]_procVars PROVE ProcIInv'
    OBVIOUS
  <2>1. ASSUME NEW t \in UserThreads, exec_program(t) PROVE ProcIInv'
    BY <2>1, ExecInv
  <2>2. ASSUME NEW t \in UserThreads, ExecFails(t) PROVE ProcIInv'
    BY <2>2, ExecFailsInv
  <2>3. ASSUME NEW t \in UserThreads, ExecReturns(t) PROVE ProcIInv'
    BY <2>3, ExecReturnsInv
  <2>4. ASSUME NEW t \in UserThreads, spawn_user_thread(t) PROVE ProcIInv'
    BY <2>4, SpawnInv
  <2>5. ASSUME NEW t \in UserThreads, thread_exit(t) PROVE ProcIInv'
    BY <2>5, ThreadExitInv
  <2>6. CASE ReapUnlink
    BY <2>6, ReapUnlinkInv
  <2>7. CASE ReapFree
    BY <2>7, ReapFreeInv
  <2>8. CASE Shutdown \/ WatchFreed
    BY <2>8, WatchInv
  <2>9. CASE UNCHANGED procVars
    BY <2>9 DEF procVars, ProcIInv, ListInv, ProcTypeOK, ThreadsExact, DeadExact, ListsExact,
                RefsExact, HasThread, IsHeld
  <2> QED
    BY <2>1, <2>2, <2>3, <2>4, <2>5, <2>6, <2>7, <2>8, <2>9 DEF ProcNext
<1> QED
  BY <1>1, <1>2, PTL DEF ProcSpec

\* While programs have one thread each, a process structure is there as long
\* as anybody has a pointer to it, and no assert of dec_proc_ref fails.
THEOREM ProcessesOutliveUsers == ProcSpec => []ProcOutlivesUsers
<1>1. ProcIInv => ProcOutlivesUsers
  BY ProcsAssumption
     DEF ProcIInv, ListInv, RefsExact, ProcOutlivesUsers, Users, HasThread, IsHeld
<1> QED
  BY <1>1, ProcInvariance, PTL

\* The machine shuts down only when every thread of the init process has
\* exited, also when programs spawn threads.
THEOREM ShutdownIsLate == ProcSpec => NoEarlyShutdown
<1>1. ProcIInv /\ [ProcNext]_procVars =>
        [power' = "shutdown" =>
            \A t \in UserThreads :
                user_thread[t].proc = InitProc => user_thread[t].state = "dead"]_procVars
  <2> SUFFICES ASSUME ProcIInv, ProcNext, power' = "shutdown", NEW t \in UserThreads,
                      user_thread[t].proc = InitProc
               PROVE  user_thread[t].state = "dead"
    OBVIOUS
  <2>1. Shutdown
    BY DEF ProcNext, exec_program, ExecFails, ExecReturns, spawn_user_thread, thread_exit, InUser,
           ReapUnlink, ReapFree, WatchFreed, dec_proc_ref
  <2>2. t \notin proc[InitProc].thread_list
    BY <2>1 DEF Shutdown
  <2>3. t = reaper
    BY <2>2, ProcsAssumption DEF ProcIInv, ListInv, ListsExact
  <2> QED
    BY <2>3 DEF ProcIInv, ListInv, DeadExact
<1> QED
  BY <1>1, ProcInvariance, PTL DEF ProcSpec, NoEarlyShutdown

=============================================================================
