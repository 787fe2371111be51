------------------------------ MODULE RWLockAbs ------------------------------
(***************************************************************************)
(* What a reader/writer lock promises its callers: who is inside the       *)
(* critical section, and nothing about queues, counters or wake-ups.       *)
(***************************************************************************)
CONSTANT Threads   \* the software threads that use the lock

VARIABLES
    readers,   \* threads between rwlock_lock_read and rwlock_unlock_read
    writers    \* threads between rwlock_lock_write and rwlock_unlock_write

avars == <<readers, writers>>

AbsInit == readers = {} /\ writers = {}

\* Readers share the lock with each other, never with a writer.
EnterRead(t) ==
    /\ t \notin readers
    /\ writers = {}
    /\ readers' = readers \cup {t}
    /\ UNCHANGED writers

LeaveRead(t) ==
    /\ t \in readers
    /\ readers' = readers \ {t}
    /\ UNCHANGED writers

\* A writer is alone.
EnterWrite(t) ==
    /\ readers = {} /\ writers = {}
    /\ writers' = {t}
    /\ UNCHANGED readers

LeaveWrite(t) ==
    /\ t \in writers
    /\ writers' = writers \ {t}
    /\ UNCHANGED readers

AbsNext ==
    \E t \in Threads :
        \/ EnterRead(t)
        \/ LeaveRead(t)
        \/ EnterWrite(t)
        \/ LeaveWrite(t)

AbsSpec == AbsInit /\ [][AbsNext]_avars
=============================================================================
