------------------------------- MODULE RWLock -------------------------------
(***************************************************************************)
(* The kernel's reader/writer lock (software/kernel/rwlock.c).             *)
(*                                                                         *)
(* Every access to the fields of struct rwlock is made with its spinlock   *)
(* held and interrupts disabled, so a stretch of code between two points   *)
(* where the spinlock is free is one action.  wait() gives the spinlock up *)
(* in the middle of rwlock_lock_read and rwlock_lock_write, so each of     *)
(* them has a second action (ReadResume, WriteResume) for the code after   *)
(* the thread has been rescheduled and has taken the spinlock back.        *)
(*                                                                         *)
(* The lock is handed over by the thread that releases it: the releaser    *)
(* updates active_read_count or write_locked on behalf of the threads it   *)
(* wakes, before those threads run.  Between that moment and their         *)
(* ReadResume/WriteResume the woken threads own the lock without knowing   *)
(* it (pc "rwoken", "wwoken").                                             *)
(***************************************************************************)
EXTENDS Naturals, Sequences, FiniteSets, Functions

CONSTANT Threads   \* the software threads that use the lock

ASSUME ThreadsFinite == IsFiniteSet(Threads)

VARIABLES
    write_locked,        \* rwlock.write_locked
    active_read_count,   \* rwlock.active_read_count
    reader_wait_list,    \* rwlock.reader_wait_list, head first
    writer_wait_list,    \* rwlock.writer_wait_list, head first
    pc,                  \* where each thread is with respect to the lock
    machine              \* "panicked" once an assert failed: panic() stops it

vars == <<write_locked, active_read_count, reader_wait_list,
          writer_wait_list, pc, machine>>

(***************************************************************************)
(* "out"    not using the lock                                             *)
(* "rwait"  THREAD_WAITING on reader_wait_list, inside wait()              *)
(* "rwoken" made ready by the releaser, not yet back from wait()           *)
(* "reading" returned from rwlock_lock_read                                *)
(* and the same three for a writer.                                        *)
(***************************************************************************)
Location == {"out", "rwait", "rwoken", "reading",
                    "wwait", "wwoken", "writing"}

TypeOK ==
    /\ write_locked \in {0, 1}
    /\ active_read_count \in Nat
    /\ reader_wait_list \in Seq(Threads)
    /\ writer_wait_list \in Seq(Threads)
    /\ pc \in [Threads -> Location]
    /\ machine \in {"running", "panicked"}

\* init_rwlock
Init ==
    /\ write_locked = 0
    /\ active_read_count = 0
    /\ reader_wait_list = <<>>
    /\ writer_wait_list = <<>>
    /\ pc = [t \in Threads |-> "out"]
    /\ machine = "running"

-----------------------------------------------------------------------------
\* assert(cond): panic() suspends every hardware thread when cond is false.
KAssert(cond) == machine' = IF cond THEN "running" ELSE "panicked"

\* The condition under which rwlock_lock_read does not wait (rule 1).
MayReadUnchecked == writer_wait_list = <<>>                  \* mutant
MayRead == writer_wait_list = <<>> /\ write_locked = 0

\* The condition under which rwlock_lock_write does not wait.
MayWriteOverReaders == write_locked = 0                         \* mutant
MayWrite == active_read_count = 0 /\ write_locked = 0

\* rwlock_unlock_read, after the decrement: wake a writer (rule 2).
WakesWriterNever == FALSE                                    \* mutant
WakesWriter == active_read_count' = 0 /\ writer_wait_list # <<>>

\* rwlock_unlock_write: are the readers woken (rule 3), and how many?
WritersFirst == reader_wait_list # <<>> /\ writer_wait_list = <<>>  \* mutant
WakesReaders == reader_wait_list # <<>>

WokenReaders == Len(reader_wait_list)

\* make_thread_ready(list_remove_head(&m->writer_wait_list)): t leaves the
\* lock and the first queued writer is made ready.
PeekFirstWriter(t) ==                                        \* mutant
    /\ pc' = [pc EXCEPT ![t] = "out", ![Head(writer_wait_list)] = "wwoken"]
    /\ UNCHANGED writer_wait_list
WakeFirstWriter(t) ==
    /\ pc' = [pc EXCEPT ![t] = "out", ![Head(writer_wait_list)] = "wwoken"]
    /\ writer_wait_list' = Tail(writer_wait_list)

\* rwlock_lock_read up to its return, or up to the reschedule() in wait().
LockRead(t) ==
    /\ machine = "running"
    /\ pc[t] = "out"
    /\ \/ /\ ~MayRead
          /\ reader_wait_list' = Append(reader_wait_list, t)
          /\ pc' = [pc EXCEPT ![t] = "rwait"]
          /\ UNCHANGED <<active_read_count, machine>>
       \/ /\ MayRead
          /\ active_read_count' = active_read_count + 1
          /\ KAssert(write_locked = 0)
          /\ pc' = [pc EXCEPT ![t] = "reading"]
          /\ UNCHANGED reader_wait_list
    /\ UNCHANGED <<write_locked, writer_wait_list>>

\* rwlock_lock_read after wait() returned.
ReadResume(t) ==
    /\ machine = "running"
    /\ pc[t] = "rwoken"
    /\ KAssert(write_locked = 0)
    /\ pc' = [pc EXCEPT ![t] = "reading"]
    /\ UNCHANGED <<write_locked, active_read_count,
                   reader_wait_list, writer_wait_list>>

\* rwlock_unlock_read: the last reader out hands the lock to one writer.
UnlockRead(t) ==
    /\ machine = "running"
    /\ pc[t] = "reading"
    /\ KAssert(write_locked = 0 /\ active_read_count > 0)
    /\ active_read_count' = active_read_count - 1
    /\ \/ /\ WakesWriter
          /\ write_locked' = 1
          /\ WakeFirstWriter(t)
       \/ /\ ~WakesWriter
          /\ pc' = [pc EXCEPT ![t] = "out"]
          /\ UNCHANGED <<write_locked, writer_wait_list>>
    /\ UNCHANGED reader_wait_list

\* rwlock_lock_write up to its return, or up to the reschedule() in wait().
LockWrite(t) ==
    /\ machine = "running"
    /\ pc[t] = "out"
    /\ \/ /\ ~MayWrite
          /\ writer_wait_list' = Append(writer_wait_list, t)
          /\ pc' = [pc EXCEPT ![t] = "wwait"]
          /\ UNCHANGED <<write_locked, machine>>
       \/ /\ MayWrite
          /\ KAssert(active_read_count = 0)
          /\ write_locked' = 1
          /\ pc' = [pc EXCEPT ![t] = "writing"]
          /\ UNCHANGED writer_wait_list
    /\ UNCHANGED <<active_read_count, reader_wait_list>>

\* rwlock_lock_write after wait() returned.
WriteResume(t) ==
    /\ machine = "running"
    /\ pc[t] = "wwoken"
    /\ KAssert(active_read_count = 0)
    /\ write_locked' = 1
    /\ pc' = [pc EXCEPT ![t] = "writing"]
    /\ UNCHANGED <<active_read_count, reader_wait_list, writer_wait_list>>

\* rwlock_unlock_write: all waiting readers, else one writer, else nobody.
UnlockWrite(t) ==
    /\ machine = "running"
    /\ pc[t] = "writing"
    /\ KAssert(write_locked = 1 /\ active_read_count = 0)
    /\ \/ /\ WakesReaders
          /\ pc' = [u \in Threads |->
                      IF u = t THEN "out"
                      ELSE IF u \in Range(reader_wait_list) THEN "rwoken"
                      ELSE pc[u]]
          /\ active_read_count' = active_read_count + WokenReaders
          /\ reader_wait_list' = <<>>
          /\ write_locked' = 0
          /\ UNCHANGED writer_wait_list
       \/ /\ ~WakesReaders /\ writer_wait_list # <<>>
          /\ WakeFirstWriter(t)
          /\ UNCHANGED <<write_locked, active_read_count, reader_wait_list>>
       \/ /\ ~WakesReaders /\ writer_wait_list = <<>>
          /\ write_locked' = 0
          /\ pc' = [pc EXCEPT ![t] = "out"]
          /\ UNCHANGED <<active_read_count, reader_wait_list, writer_wait_list>>

Next ==
    \E t \in Threads :
        \/ LockRead(t) \/ ReadResume(t) \/ UnlockRead(t)
        \/ LockWrite(t) \/ WriteResume(t) \/ UnlockWrite(t)

Spec == Init /\ [][Next]_vars

(***************************************************************************)
(* A thread that has been made ready is run by the round-robin ready queue *)
(* and gets the spinlock back, and a critical section is finite.  Nothing  *)
(* obliges a thread to ask for the lock.                                   *)
(***************************************************************************)
Fairness ==
    \A t \in Threads : /\ WF_vars(ReadResume(t))
                       /\ WF_vars(WriteResume(t))
                       /\ WF_vars(UnlockRead(t))
                       /\ WF_vars(UnlockWrite(t))

FairSpec == Spec /\ Fairness

-----------------------------------------------------------------------------
\* The threads the lock counts as readers, and as the writer: those inside
\* and those the lock has been handed to.
ReadOwners == {t \in Threads : pc[t] \in {"rwoken", "reading"}}
WriteOwners == {t \in Threads : pc[t] \in {"wwoken", "writing"}}

\* None of the asserts in rwlock.c (lines 61, 71, 72, 97, 108, 109) can fail:
\* in particular a woken reader never finds write_locked set, and a woken
\* writer never finds a reader counted, whatever happened while it was
\* waiting to run.
AssertionsHold == machine = "running"

\* Nobody sleeps on a lock that is free: a queued writer implies an owner who
\* will wake it, a queued reader implies a writer that owns the lock or is
\* queued for it.
NoLostWakeup ==
    /\ writer_wait_list # <<>> => write_locked = 1 \/ active_read_count > 0
    /\ reader_wait_list # <<>> => write_locked = 1 \/ writer_wait_list # <<>>

\* write_locked and active_read_count describe exactly the owners, in every
\* state the spinlock is free, including while a handed-over lock has not been
\* picked up.
CountsMatchOwners ==
    /\ active_read_count = Cardinality(ReadOwners)
    /\ write_locked = 1 <=> WriteOwners # {}
    /\ \A t, u \in WriteOwners : t = u
    /\ write_locked = 1 => active_read_count = 0

\* A wait list holds exactly the threads asleep in wait(), each once.
WaitListsExact ==
    /\ IsInjective(reader_wait_list)
    /\ IsInjective(writer_wait_list)
    /\ Range(reader_wait_list) = {t \in Threads : pc[t] = "rwait"}
    /\ Range(writer_wait_list) = {t \in Threads : pc[t] = "wwait"}

\* The inductive invariant: the wait lists and the counters describe the threads
\* exactly, so that a hand-over made by rwlock_unlock_read or rwlock_unlock_write
\* is the only way into the lock for a thread that waits.
IInv == TypeOK /\ AssertionsHold /\ CountsMatchOwners /\ WaitListsExact
        /\ NoLostWakeup

\* What callers rely on: the lock implements RWLockAbs.
Abs == INSTANCE RWLockAbs WITH
    readers <- {t \in Threads : pc[t] = "reading"},
    writers <- {t \in Threads : pc[t] = "writing"}

ImplementsRWLock == Abs!AbsSpec

\* Neither side starves: a queued writer gets in although readers keep coming,
\* a queued reader gets in although writers keep coming ("Ensure readers don't
\* starve writers or vice versa", rwlock.c:163).
EveryoneEnters ==
    \A t \in Threads : /\ pc[t] = "wwait" ~> pc[t] = "writing"
                       /\ pc[t] = "rwait" ~> pc[t] = "reading"
=============================================================================
