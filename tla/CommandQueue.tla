---------------------------- MODULE CommandQueue ----------------------------
(***************************************************************************)
(* The queues of the renderer (librender/CommandQueue.h): a chain of       *)
(* buckets that several threads append to without a lock, unless a bucket  *)
(* must be allocated.  An append is one step per access to the volatile    *)
(* variables.  A chain is a sequence of buckets; fLastBucket is a position *)
(* in it and 0 stands for the null pointer.                                *)
(***************************************************************************)
EXTENDS Integers, Sequences, SequencesExt, FiniteSets

CONSTANTS
    Threads,
    Queues,
    Unset,          \* a slot nothing was written to; no item
    BUCKET_SIZE     \* 32 in the code

ASSUME BucketAssumption == BUCKET_SIZE \in Nat \ {0}

VARIABLES
    buckets,             \* the chain that starts at fFirstBucket
    fLastBucket,
    fNextBucketIndex,    \* equals BUCKET_SIZE when the last bucket is full
    fSpinLock,
    call,                \* each thread's append: where it is, its locals
    written,             \* the items of the appends that have returned
    raced                \* a slot was taken that is not the next one (see Swap)

queueVars == <<buckets, fLastBucket, fNextBucketIndex, fSpinLock, call, written, raced>>

Idle == [at |-> "idle", queue |-> Unset, item |-> Unset, index |-> 0, bucket |-> 0]
Bucket == [i \in 0 .. BUCKET_SIZE - 1 |-> Unset]

Step(t, from, to) == call[t].at = from /\ call' = [call EXCEPT ![t].at = to]

\* The constructor.
QueueInit ==
    /\ buckets = [q \in Queues |-> << >>]
    /\ fLastBucket = [q \in Queues |-> 0]
    /\ fNextBucketIndex = [q \in Queues |-> 0]
    /\ fSpinLock = [q \in Queues |-> FALSE]
    /\ call = [t \in Threads |-> Idle]
    /\ written = [q \in Queues |-> {}]
    /\ raced = FALSE

-----------------------------------------------------------------------------
append(t, q, item) ==
    /\ call[t] = Idle
    /\ call' = [call EXCEPT ![t] = [Idle EXCEPT !.at = "index", !.queue = q, !.item = item]]
    /\ UNCHANGED <<buckets, fLastBucket, fNextBucketIndex, fSpinLock, written, raced>>

\* index = fNextBucketIndex, "read that *first*".
ReadIndex(t) ==
    /\ call[t].at = "index"
    /\ call' = [call EXCEPT ![t].at = "bucket", ![t].index = fNextBucketIndex[call[t].queue]]
    /\ UNCHANGED <<buckets, fLastBucket, fNextBucketIndex, fSpinLock, written, raced>>

\* Allocate when the bucket that was read is full or missing.
MustAllocate_early(index, bucket) == index = BUCKET_SIZE - 1 \/ bucket = 0  \* mutant
MustAllocate(index, bucket) == index = BUCKET_SIZE \/ bucket = 0

ReadBucket(t) ==
    LET last == fLastBucket[call[t].queue] IN
    /\ call[t].at = "bucket"
    /\ call' = [call EXCEPT ![t].bucket = last,
                            ![t].at = IF MustAllocate(call[t].index, last) THEN "lock" ELSE "cas"]
    /\ UNCHANGED <<buckets, fLastBucket, fNextBucketIndex, fSpinLock, written, raced>>

\* The compare and swap.  It compares the index alone: it also succeeds when
\* the queue has moved on to another bucket in which the same index is next,
\* and while the thread that links the first bucket has yet to store index 0.
Swap(t) ==
    LET c == call[t] IN
    /\ c.at = "cas"
    /\ IF fNextBucketIndex[c.queue] = c.index
       THEN /\ fNextBucketIndex' = [fNextBucketIndex EXCEPT ![c.queue] = c.index + 1]
            /\ call' = [call EXCEPT ![t].at = "write"]
            /\ raced' = \/ raced
                        \/ c.bucket # fLastBucket[c.queue]
                        \/ \E u \in Threads : call[u].at = "zero" /\ call[u].queue = c.queue
       ELSE /\ call' = [call EXCEPT ![t].at = "index"]
            /\ UNCHANGED <<fNextBucketIndex, raced>>
    /\ UNCHANGED <<buckets, fLastBucket, fSpinLock, written>>

\* bucket->items[index] = copyFrom
Write(t) ==
    LET c == call[t] IN
    /\ c.at = "write"
    /\ buckets' = [buckets EXCEPT ![c.queue][c.bucket][c.index] = c.item]
    /\ written' = [written EXCEPT ![c.queue] = @ \cup {c.item}]
    /\ call' = [call EXCEPT ![t] = Idle]
    /\ UNCHANGED <<fLastBucket, fNextBucketIndex, fSpinLock, raced>>

\* allocateBucket: the spin lock, the check that nobody allocated meanwhile,
\* the new bucket at the end of the chain, index 0, and the unlock.
Lock(t) ==
    /\ Step(t, "lock", "link")
    /\ ~fSpinLock[call[t].queue]
    /\ fSpinLock' = [fSpinLock EXCEPT ![call[t].queue] = TRUE]
    /\ UNCHANGED <<buckets, fLastBucket, fNextBucketIndex, written, raced>>

StillMissing_unchecked(q) == TRUE                                         \* mutant
StillMissing(q) == fNextBucketIndex[q] = BUCKET_SIZE \/ fLastBucket[q] = 0

Link(t) ==
    LET q == call[t].queue IN
    /\ call[t].at = "link"
    /\ IF StillMissing(q)
       THEN /\ Step(t, "link", "zero")
            /\ buckets' = [buckets EXCEPT ![q] = Append(@, Bucket)]
            /\ fLastBucket' = [fLastBucket EXCEPT ![q] = @ + 1]
       ELSE /\ Step(t, "link", "unlock")
            /\ UNCHANGED <<buckets, fLastBucket>>
    /\ UNCHANGED <<fNextBucketIndex, fSpinLock, written, raced>>

ZeroIndex(t) ==
    /\ Step(t, "zero", "unlock")
    /\ fNextBucketIndex' = [fNextBucketIndex EXCEPT ![call[t].queue] = 0]
    /\ UNCHANGED <<buckets, fLastBucket, fSpinLock, written, raced>>

Unlock(t) ==
    /\ Step(t, "unlock", "index")
    /\ fSpinLock' = [fSpinLock EXCEPT ![call[t].queue] = FALSE]
    /\ UNCHANGED <<buckets, fLastBucket, fNextBucketIndex, written, raced>>

QueueStep(t) ==
    \/ ReadIndex(t) \/ ReadBucket(t) \/ Swap(t) \/ Write(t)
    \/ Lock(t) \/ Link(t) \/ ZeroIndex(t) \/ Unlock(t)

\* reset() of the queues in qs, and what a new queue starts with.
reset(qs) ==
    /\ buckets' = [q \in Queues |-> IF q \in qs THEN << >> ELSE buckets[q]]
    /\ fLastBucket' = [q \in Queues |-> IF q \in qs THEN 0 ELSE fLastBucket[q]]
    /\ fNextBucketIndex' = [q \in Queues |-> IF q \in qs THEN 0 ELSE fNextBucketIndex[q]]
    /\ written' = [q \in Queues |-> IF q \in qs THEN {} ELSE written[q]]
    /\ UNCHANGED <<fSpinLock, call, raced>>

-----------------------------------------------------------------------------
\* What an iterator visits from begin() to end(): every slot of the buckets
\* before the last one, and those below fNextBucketIndex in the last one.
Visited(q) ==
    LET upTo(b) == IF b = fLastBucket[q] THEN fNextBucketIndex[q] ELSE BUCKET_SIZE
        slots(b) == [i \in 1 .. upTo(b) |-> buckets[q][b][i - 1]]
    IN  FlattenSeq([b \in 1 .. fLastBucket[q] |-> slots(b)])

\* sort(): an insertion sort, which leaves items with equal keys in place.
sort(s, keys) ==
    LET before(i, j) == keys[i] < keys[j] \/ (keys[i] = keys[j] /\ i < j)
        order == SortSeq([i \in DOMAIN s |-> i], before)
    IN  [i \in DOMAIN s |-> s[order[i]]]

\* Nobody is between the two ends of an append to q.
Quiet(q) == \A t \in Threads : call[t].queue # q

\* The queue holds the appended items, each once.
Holds(q) ==
    /\ ToSet(Visited(q)) = written[q]
    /\ Len(Visited(q)) = Cardinality(written[q])

\* "This function is reentrant" (CommandQueue.h): when the appends have
\* returned, the queue holds their items, each once.
NoAppendLost == \A q \in Queues : Quiet(q) => Holds(q)

=============================================================================
