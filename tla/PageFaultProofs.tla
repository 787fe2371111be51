--------------------------- MODULE PageFaultProofs ---------------------------
(***************************************************************************)
(* Proofs about PageFault, for any number of threads and page frames: what *)
(* the caches, the translations and the faults under way know of each      *)
(* other while the machine runs, and what follows for every state.         *)
(***************************************************************************)
EXTENDS PageFault, FiniteSetTheorems, TLAPS

\* A page is in one cache at most.  Pages of the file are clean, and complete
\* unless busy; what a copy-on-write cache has is complete unless busy, and
\* covers a page of the file.
CachesOK ==
    /\ \A s, r \in Slots : slot_page[s] = slot_page[r] /\ slot_page[s] # NoPage => s = r
    /\ \A s \in FileSlots :
          LET p == slot_page[s] IN
          p # NoPage => /\ ~page[p].dirty /\ page[p].data # "user"
                        /\ ~page[p].busy => page[p].data = "file"
    /\ LET p == slot_page["dc"] IN
          p # NoPage => slot_page["di"] # NoPage /\ (~page[p].busy => page[p].data # "zero")
    /\ slot_page["sa"] # NoPage => ~page[slot_page["sa"]].busy

\* What is mapped is in the area's cache, or in the image cache below it, and
\* finished; the image's pages are mapped read only.
MappingsOK ==
    \A a \in live_areas :
        LET p == pte[a].page IN
        p # NoPage => /\ ~page[p].busy
                      /\ a = "text" => p = slot_page["ti"] /\ ~pte[a].writable
                      /\ a = "data" => p = slot_page["dc"] \/ (p = slot_page["di"] /\ ~pte[a].writable)
                      /\ a = "stack" => p = slot_page["sa"]

\* A thread in read_file fills the page it has put into the image cache; for
\* "data" nobody else has found that page, as the dummy hides it.
ReaderOK(t) ==
    thread[t].pc = "read" =>
        LET p == thread[t].source
            d == thread[t].dummy
        IN  /\ p # NoPage /\ page[p].busy /\ thread[t].area \in live_areas
            /\ thread[t].area \in {"text", "data"}
            /\ thread[t].area = "text" => p = slot_page["ti"] /\ d = NoPage
            /\ thread[t].area = "data" =>
                  /\ p = slot_page["di"] /\ d = slot_page["dc"] /\ d # NoPage
                  /\ page[d].busy /\ page[p].ref_count = 1

\* A thread that waits to map a page found it in the area's cache, or below it
\* for a load, or waits for a dummy that has left the cache and stays busy.
WaiterOK(t) ==
    thread[t].pc = "wait" =>
        LET p == thread[t].source
            a == thread[t].area
        IN  /\ p # NoPage /\ a \in live_areas
            /\ thread[t].is_store => a # "text"
            /\ a = "text" => p = slot_page["ti"]
            /\ a = "stack" => p = slot_page["sa"]
            /\ a = "data" => \/ p = slot_page["dc"]
                             \/ p = slot_page["di"] /\ ~thread[t].is_store /\ ~page[p].busy
                             \/ page[p].busy /\ \A s \in Slots : slot_page[s] # p

\* Each page is read by one thread; a busy page that "data" would copy is being
\* read.
ReadersOK ==
    /\ \A t, u \in FaultThreads : thread[t].pc = "read" /\ thread[u].pc = "read"
                             /\ thread[t].area = thread[u].area => t = u
    /\ slot_page["di"] # NoPage /\ page[slot_page["di"]].busy =>
          \E t \in FaultThreads : thread[t].pc = "read" /\ thread[t].area = "data"

FaultsOK == \A t \in FaultThreads : ReaderOK(t) /\ WaiterOK(t)

\* The reference that the image cache loses in a failed read, when other faults
\* still have theirs.
Lost(p) == IF fault_machine = "read_failed" /\ p = slot_page["ti"] THEN 1 ELSE 0

Uses(p) == Cardinality(Mapped(p)) + Cardinality(Cached(p)) + Cardinality(Pinned(p))

CountsOK ==
    /\ \A p \in Pages : /\ page[p].ref_count + Lost(p) >= Uses(p)
                        /\ p \in free <=> page[p].ref_count = 0
    /\ \A s \in Slots : slot_page[s] \notin free
    /\ fault_machine = "read_failed" =>
          /\ slot_page["ti"] # NoPage
          /\ \A t \in FaultThreads : thread[t].pc = "read" => thread[t].area = "data"

FaultInv == CachesOK /\ MappingsOK /\ FaultsOK /\ ReadersOK /\ CountsOK

FaultIInv ==
    /\ FaultTypeOK /\ FilePagesClean /\ MappedComplete
    /\ FaultsRun => FaultInv

-----------------------------------------------------------------------------
LEMMA FourFinite ==
    ASSUME NEW a, NEW b, NEW c, NEW d
    PROVE  IsFiniteSet({a, b, c, d}) /\ IsFiniteSet({a, b, c})
<1>1. IsFiniteSet({a})
  BY FS_Singleton
<1>2. IsFiniteSet({a} \cup {b})
  BY <1>1, FS_AddElement, Zenon
<1>3. IsFiniteSet(({a} \cup {b}) \cup {c})
  BY <1>2, FS_AddElement, Zenon
<1>4. IsFiniteSet((({a} \cup {b}) \cup {c}) \cup {d})
  BY <1>3, FS_AddElement, Zenon
<1>5. {a, b, c} = ({a} \cup {b}) \cup {c} /\ {a, b, c, d} = (({a} \cup {b}) \cup {c}) \cup {d}
  OBVIOUS
<1> QED
  BY <1>3, <1>4, <1>5, Zenon

\* Sets of areas, caches and threads are finite and can be counted.
LEMMA Counting ==
    /\ \A S \in SUBSET Slots : IsFiniteSet(S) /\ Cardinality(S) \in Nat
    /\ \A S \in SUBSET Areas : IsFiniteSet(S) /\ Cardinality(S) \in Nat
    /\ \A S \in SUBSET FaultThreads : IsFiniteSet(S) /\ Cardinality(S) \in Nat
<1>1. IsFiniteSet(Slots) /\ IsFiniteSet(AllAreas)
  BY FourFinite DEF Slots, AllAreas
<1>2. IsFiniteSet(Areas) /\ IsFiniteSet(FaultThreads)
  BY <1>1, AreasAssumption, PagesAssumption, FS_Subset
<1> QED
  BY <1>1, <1>2, FS_Subset, FS_CardinalityType

\* From S to T there are at most d elements more.
Change(S, T, d) ==
    \/ d = 0 /\ T \subseteq S
    \/ d = 1 /\ \E x : T \subseteq S \cup {x}
    \/ d = -1 /\ \E x \in S : T \subseteq S \ {x}

LEMMA CountChange ==
    ASSUME NEW S, NEW T, NEW d, IsFiniteSet(S), IsFiniteSet(T), Change(S, T, d)
    PROVE  /\ Cardinality(S) \in Nat /\ Cardinality(T) \in Nat /\ d \in Int
           /\ Cardinality(T) <= Cardinality(S) + d
<1>1. Cardinality(S) \in Nat /\ Cardinality(T) \in Nat /\ d \in Int
  BY FS_CardinalityType DEF Change
<1>2. CASE d = 0 /\ T \subseteq S
  BY <1>1, <1>2, FS_Subset
<1>3. ASSUME NEW x, d = 1, T \subseteq S \cup {x} PROVE Cardinality(T) <= Cardinality(S) + d
  <2>1. /\ IsFiniteSet(S \cup {x})
        /\ Cardinality(S \cup {x}) = IF x \in S THEN Cardinality(S) ELSE Cardinality(S) + 1
    BY FS_AddElement, Zenon
  <2>2. Cardinality(T) <= Cardinality(S \cup {x})
    BY <1>3, <2>1, FS_Subset
  <2> QED
    BY <1>1, <1>3, <2>1, <2>2
<1>4. ASSUME NEW x \in S, d = -1, T \subseteq S \ {x} PROVE Cardinality(T) <= Cardinality(S) + d
  <2>1. IsFiniteSet(S \ {x}) /\ Cardinality(S \ {x}) = Cardinality(S) - 1
    BY <1>1, FS_RemoveElement
  <2>2. Cardinality(T) <= Cardinality(S \ {x})
    BY <1>4, <2>1, FS_Subset
  <2> QED
    BY <1>1, <1>4, <2>1, <2>2
<1> QED
  BY <1>1, <1>2, <1>3, <1>4 DEF Change

\* How the uses of a page change with the sets of its users.
LEMMA UsesChange ==
    ASSUME FaultTypeOK, FaultTypeOK', NEW p, NEW i, NEW j, NEW k,
           Change(Mapped(p), Mapped(p)', i), Change(Cached(p), Cached(p)', j),
           Change(Pinned(p), Pinned(p)', k)
    PROVE  Uses(p) \in Nat /\ Uses(p)' \in Nat /\ Uses(p)' <= Uses(p) + i + j + k
<1>1. /\ Mapped(p) \subseteq Areas /\ Cached(p) \subseteq Slots /\ Pinned(p) \subseteq FaultThreads
      /\ Mapped(p)' \subseteq Areas /\ Cached(p)' \subseteq Slots /\ Pinned(p)' \subseteq FaultThreads
  BY DEF FaultTypeOK, Mapped, Cached, Pinned
<1>2. /\ IsFiniteSet(Mapped(p)) /\ IsFiniteSet(Cached(p)) /\ IsFiniteSet(Pinned(p))
      /\ IsFiniteSet(Mapped(p)') /\ IsFiniteSet(Cached(p)') /\ IsFiniteSet(Pinned(p)')
  BY <1>1, Counting
<1>3. /\ Cardinality(Mapped(p)) \in Nat /\ Cardinality(Mapped(p)') \in Nat /\ i \in Int
      /\ Cardinality(Mapped(p)') <= Cardinality(Mapped(p)) + i
  BY <1>2, CountChange
<1>4. /\ Cardinality(Cached(p)) \in Nat /\ Cardinality(Cached(p)') \in Nat /\ j \in Int
      /\ Cardinality(Cached(p)') <= Cardinality(Cached(p)) + j
  BY <1>2, CountChange
<1>5. /\ Cardinality(Pinned(p)) \in Nat /\ Cardinality(Pinned(p)') \in Nat /\ k \in Int
      /\ Cardinality(Pinned(p)') <= Cardinality(Pinned(p)) + k
  BY <1>2, CountChange
<1> QED
  BY <1>3, <1>4, <1>5 DEF Uses

\* A page on the free list is used by nobody.
LEMMA FreeIsUnused ==
    ASSUME FaultTypeOK, FaultsRun, FaultInv, NEW p \in free
    PROVE  /\ p \in Pages /\ page[p].ref_count = 0
           /\ Mapped(p) = {} /\ Cached(p) = {} /\ Pinned(p) = {}
           /\ \A s \in Slots : slot_page[s] # p
           /\ \A a \in live_areas : pte[a].page # p
           /\ \A t \in FaultThreads : /\ thread[t].pc # "user" => thread[t].source # p
                                      /\ thread[t].pc = "read" => thread[t].dummy # p
<1>1. /\ p \in Pages /\ page[p].ref_count = 0 /\ p # NoPage
      /\ \A s \in Slots : slot_page[s] # p
  BY PagesAssumption DEF FaultTypeOK, FaultInv, CountsOK
<1>2. Lost(p) = 0
  BY <1>1 DEF Lost, Slots
<1>3. /\ IsFiniteSet(Mapped(p)) /\ IsFiniteSet(Cached(p)) /\ IsFiniteSet(Pinned(p))
      /\ Cardinality(Mapped(p)) \in Nat /\ Cardinality(Cached(p)) \in Nat /\ Cardinality(Pinned(p)) \in Nat
  <2>1. Mapped(p) \subseteq Areas /\ Cached(p) \subseteq Slots /\ Pinned(p) \subseteq FaultThreads
    BY DEF FaultTypeOK, Mapped, Cached, Pinned
  <2> QED
    BY <2>1, Counting
<1>4. 0 >= Uses(p)
  BY <1>1, <1>2 DEF FaultInv, CountsOK
<1>5. Cardinality(Mapped(p)) = 0 /\ Cardinality(Cached(p)) = 0 /\ Cardinality(Pinned(p)) = 0
  BY <1>3, <1>4 DEF Uses
<1>6. Mapped(p) = {} /\ Cached(p) = {} /\ Pinned(p) = {}
  BY <1>3, <1>5, FS_EmptySet
<1>7. \A t \in FaultThreads : thread[t].pc = "wait" => thread[t].source # p
  BY <1>6 DEF Pinned
<1>8. \A t \in FaultThreads : thread[t].pc = "read" => thread[t].source # p /\ thread[t].dummy # p
  BY <1>1 DEF FaultInv, FaultsOK, ReaderOK, FaultTypeOK, Slots
<1>9. \A t \in FaultThreads : thread[t].pc \in {"user", "read", "wait"}
  BY DEF FaultTypeOK
<1> QED
  BY <1>1, <1>6, <1>7, <1>8, <1>9 DEF Mapped

\* What is claimed of every state follows from the invariant.
LEMMA SafePages ==
    FaultTypeOK /\ CachesOK /\ MappingsOK => FilePagesClean /\ MappedComplete
<1> SUFFICES ASSUME FaultTypeOK, CachesOK, MappingsOK PROVE FilePagesClean /\ MappedComplete
  OBVIOUS
<1>1. FilePagesClean
  BY AreasAssumption DEF FaultTypeOK, CachesOK, MappingsOK, FilePagesClean, Cached, FileSlots, Slots, AllAreas
<1>2. MappedComplete
  BY PagesAssumption DEF FaultTypeOK, CachesOK, MappingsOK, MappedComplete, FileSlots, Slots, Data
<1> QED
  BY <1>1, <1>2

LEMMA SafePagesNext ==
    FaultTypeOK' /\ CachesOK' /\ MappingsOK' => FilePagesClean' /\ MappedComplete'
BY SafePages, PTL

LEMMA FaultInvSuffices == ASSUME FaultTypeOK', FaultInv' PROVE FaultIInv'
BY SafePagesNext DEF FaultIInv, FaultInv

\* The area's cache has a page: the fault gets a reference to it.
LEMMA FaultHitInv ==
    ASSUME FaultIInv, NEW t \in FaultThreads, FaultHit(t)
    PROVE  FaultIInv'
<1> USE PagesAssumption, AreasAssumption
<1>1. PICK a \in live_areas, is_store \in BOOLEAN, s \in Slots, p \in Pages :
        /\ FaultsRun /\ thread[t].pc = "user" /\ (is_store => a # "text")
        /\ s = TopSlot[a] /\ p = slot_page[s] /\ p # NoPage
        /\ page' = [page EXCEPT ![p].ref_count = @ + 1]
        /\ thread' = [thread EXCEPT ![t] = WaitFor(a, is_store, p)]
        /\ UNCHANGED <<slot_page, free, pte, live_areas, fault_machine>>
  <2>1. \A a \in live_areas : a \in AllAreas /\ TopSlot[a] \in Slots
    BY DEF FaultIInv, FaultTypeOK, TopSlot, AllAreas, Slots
  <2>2. \A s \in Slots : slot_page[s] # NoPage => slot_page[s] \in Pages
    BY DEF FaultIInv, FaultTypeOK
  <2>3. PICK a \in live_areas, is_store \in BOOLEAN :
          LET p == slot_page[TopSlot[a]] IN
          /\ FaultsRun /\ thread[t].pc = "user" /\ (is_store => a # "text")
          /\ p # NoPage
          /\ page' = [page EXCEPT ![p].ref_count = @ + 1]
          /\ thread' = [thread EXCEPT ![t] = WaitFor(a, is_store, p)]
          /\ UNCHANGED <<slot_page, free, pte, live_areas, fault_machine>>
    BY DEF FaultHit, Faults, Writable, lookup_cache_page, inc_page_ref
  <2>4. TopSlot[a] \in Slots /\ slot_page[TopSlot[a]] \in Pages
    BY <2>1, <2>2, <2>3
  <2> QED
    BY <2>3, <2>4
<1>2. FaultTypeOK /\ FaultInv /\ a \in AllAreas
  BY <1>1 DEF FaultIInv, FaultTypeOK
<1>3. /\ \A q \in Pages : /\ page'[q].busy = page[q].busy /\ page'[q].dirty = page[q].dirty
                          /\ page'[q].data = page[q].data
                          /\ page'[q].ref_count = page[q].ref_count + (IF q = p THEN 1 ELSE 0)
      /\ page' \in [Pages -> [ref_count : Nat, busy : BOOLEAN, dirty : BOOLEAN, data : Data]]
  BY <1>1, <1>2 DEF FaultTypeOK
<1>4. /\ thread'[t].pc = "wait" /\ thread'[t].area = a /\ thread'[t].is_store = is_store
      /\ thread'[t].source = p
      /\ \A u \in FaultThreads \ {t} : thread'[u] = thread[u]
      /\ thread' \in [FaultThreads -> [pc : {"user", "read", "wait"}, area : AllAreas,
                                       is_store : BOOLEAN, source : Pages \cup {NoPage},
                                       dummy : Pages \cup {NoPage}]]
  BY <1>1, <1>2 DEF FaultTypeOK, WaitFor
<1>5. FaultTypeOK'
  BY <1>1, <1>2, <1>3, <1>4 DEF FaultTypeOK
<1>6. slot_page' = slot_page /\ free' = free /\ pte' = pte /\ live_areas' = live_areas /\ fault_machine' = fault_machine
  BY <1>1
<1>7. \A r \in Slots : slot_page[r] # NoPage => slot_page[r] \in Pages
  BY <1>2 DEF FaultTypeOK
<1>8. CachesOK' /\ MappingsOK'
  <2>1. \A x \in live_areas : pte[x].page # NoPage => pte[x].page \in Pages
    BY <1>2 DEF FaultTypeOK
  <2> QED
    BY <1>2, <1>3, <1>6, <1>7, <2>1 DEF FaultInv, CachesOK, MappingsOK, Slots, FileSlots
<1>9. FaultsOK'
  <2>1. ASSUME NEW u \in FaultThreads PROVE ReaderOK(u)' /\ WaiterOK(u)'
    <3>1. CASE u = t
      BY <1>1, <1>2, <1>4, <1>6, <3>1 DEF ReaderOK, WaiterOK, TopSlot, AllAreas
    <3>2. CASE u # t
      <4>1. /\ ReaderOK(u) /\ WaiterOK(u) /\ thread'[u] = thread[u]
            /\ thread[u].source # NoPage => thread[u].source \in Pages
            /\ thread[u].dummy # NoPage => thread[u].dummy \in Pages
        BY <1>2, <1>4, <3>2 DEF FaultInv, FaultsOK, FaultTypeOK
      <4>2. thread[u].pc = "read" /\ thread[u].area = "data" => p # slot_page["di"]
        <5>1. s # "di"
          BY <1>1, <1>2 DEF TopSlot, AllAreas
        <5> QED
          BY <1>1, <1>2, <5>1 DEF FaultInv, CachesOK, Slots
      <4>3. ReaderOK(u)'
        BY <1>3, <1>6, <4>1, <4>2 DEF ReaderOK
      <4>4. WaiterOK(u)'
        BY <1>3, <1>6, <4>1 DEF WaiterOK
      <4> QED
        BY <4>3, <4>4
    <3> QED
      BY <3>1, <3>2
  <2> QED
    BY <2>1 DEF FaultsOK
<1>10. ReadersOK'
  <2>1. slot_page["di"] # NoPage => slot_page["di"] \in Pages
    BY <1>7 DEF Slots
  <2> QED
    BY <1>1, <1>2, <1>3, <1>4, <1>6, <2>1 DEF FaultInv, ReadersOK
<1>11. CountsOK'
  <2>1. ASSUME NEW q \in Pages
        PROVE  page'[q].ref_count + Lost(q)' >= Uses(q)' /\ (q \in free' <=> page'[q].ref_count = 0)
    <3>1. Mapped(q)' = Mapped(q) /\ Cached(q)' = Cached(q) /\ Lost(q)' = Lost(q)
      BY <1>6 DEF Mapped, Cached, Lost
    <3>2. Pinned(q)' \subseteq Pinned(q) \cup {t} /\ (q # p => Pinned(q)' \subseteq Pinned(q))
      BY <1>4 DEF Pinned
    <3>3. Uses(q)' <= Uses(q) + (IF q = p THEN 1 ELSE 0) /\ Uses(q) \in Nat /\ Uses(q)' \in Nat
      <4>1. Change(Pinned(q), Pinned(q)', IF q = p THEN 1 ELSE 0)
        BY <3>2 DEF Change
      <4>2. Change(Mapped(q), Mapped(q)', 0) /\ Change(Cached(q), Cached(q)', 0)
        BY <3>1 DEF Change
      <4> QED
        BY <1>2, <1>5, <4>1, <4>2, UsesChange
    <3>4. /\ page[q].ref_count \in Nat /\ Lost(q) \in Nat
          /\ page[q].ref_count + Lost(q) >= Uses(q) /\ (q \in free <=> page[q].ref_count = 0)
          /\ (q = p => q \notin free)
      BY <1>1, <1>2 DEF FaultInv, CountsOK, FaultTypeOK, Lost
    <3> QED
      BY <1>3, <1>6, <3>1, <3>3, <3>4
  <2>2. fault_machine = "read_failed" => \A u \in FaultThreads : thread'[u].pc = "read" => thread'[u].area = "data"
    BY <1>2, <1>4 DEF FaultInv, CountsOK
  <2> QED
    BY <1>2, <1>6, <2>1, <2>2 DEF FaultInv, CountsOK
<1> QED
  BY <1>5, <1>8, <1>9, <1>10, <1>11, FaultInvSuffices DEF FaultInv

\* A step that puts free pages into empty slots and leaves the busy bits of the
\* others alone: mappings, and the faults of other threads, are as they were.
LEMMA MappingsKept ==
    ASSUME FaultTypeOK, FaultsRun, FaultInv, live_areas' = live_areas, pte' = pte,
           \A s \in Slots : \/ slot_page'[s] = slot_page[s]
                            \/ slot_page[s] = NoPage /\ slot_page'[s] \in free,
           \A q \in Pages \ free : page'[q].busy = page[q].busy
    PROVE  MappingsOK'
<1>1. \A a \in live_areas : pte[a].page # NoPage => pte[a].page \in Pages \ free
  BY FreeIsUnused DEF FaultTypeOK
<1> QED
  BY <1>1 DEF FaultInv, MappingsOK, Slots

LEMMA OthersKept ==
    ASSUME FaultTypeOK, FaultsRun, FaultInv, live_areas' = live_areas,
           \A s \in Slots : \/ slot_page'[s] = slot_page[s]
                            \/ slot_page[s] = NoPage /\ slot_page'[s] \in free,
           \A q \in Pages \ free : page'[q].busy = page[q].busy,
           NEW u \in FaultThreads, thread'[u] = thread[u],
           thread[u].pc = "read" /\ thread[u].area = "data" =>
              page'[thread[u].source].ref_count = page[thread[u].source].ref_count
    PROVE  ReaderOK(u)' /\ WaiterOK(u)'
<1>0. ReaderOK(u) /\ WaiterOK(u)
  BY DEF FaultInv, FaultsOK
<1>1. /\ thread[u].pc # "user" /\ thread[u].source # NoPage => thread[u].source \in Pages \ free
      /\ thread[u].pc = "read" /\ thread[u].dummy # NoPage => thread[u].dummy \in Pages \ free
  BY FreeIsUnused DEF FaultTypeOK
<1>2. ReaderOK(u)'
  BY <1>0, <1>1 DEF ReaderOK, Slots
<1>3. WaiterOK(u)'
  BY <1>0, <1>1 DEF WaiterOK, Slots
<1> QED
  BY <1>2, <1>3

\* The references keep up with the uses of every page.
LEMMA CountsStep ==
    ASSUME FaultTypeOK, FaultTypeOK', FaultInv,
           \A q \in Pages :
              \E i, j, k \in {-1, 0, 1} :
                 /\ Change(Mapped(q), Mapped(q)', i) /\ Change(Cached(q), Cached(q)', j)
                 /\ Change(Pinned(q), Pinned(q)', k)
                 /\ page'[q].ref_count + Lost(q)' >= page[q].ref_count + Lost(q) + i + j + k,
           \A q \in Pages : q \in free' <=> page'[q].ref_count = 0,
           \A s \in Slots : slot_page'[s] \notin free',
           fault_machine' = "read_failed" =>
              /\ slot_page'["ti"] # NoPage
              /\ \A t \in FaultThreads : thread'[t].pc = "read" => thread'[t].area = "data"
    PROVE  CountsOK'
<1>1. ASSUME NEW q \in Pages PROVE page'[q].ref_count + Lost(q)' >= Uses(q)'
  <2>1. PICK i, j, k \in {-1, 0, 1} :
              /\ Change(Mapped(q), Mapped(q)', i) /\ Change(Cached(q), Cached(q)', j)
              /\ Change(Pinned(q), Pinned(q)', k)
              /\ page'[q].ref_count + Lost(q)' >= page[q].ref_count + Lost(q) + i + j + k
    OBVIOUS
  <2>2. Uses(q) \in Nat /\ Uses(q)' \in Nat /\ Uses(q)' <= Uses(q) + i + j + k
    BY <2>1, UsesChange
  <2>3. /\ page[q].ref_count + Lost(q) >= Uses(q) /\ page[q].ref_count \in Nat
        /\ page'[q].ref_count \in Nat /\ Lost(q) \in Nat /\ Lost(q)' \in Nat
    BY DEF FaultInv, CountsOK, FaultTypeOK, Lost
  <2> QED
    BY <2>1, <2>2, <2>3
<1> QED
  BY <1>1 DEF CountsOK

\* vm_allocate_page fails: nothing has changed.
LEMMA PanicInv ==
    ASSUME FaultIInv, Panic("out_of_memory")
    PROVE  FaultIInv'
BY DEF FaultIInv, Panic, FaultTypeOK, FilePagesClean, MappedComplete, FaultsRun, Cached

\* A page of "text" is read into a frame that nobody uses.
LEMMA FaultReadTextInv ==
    ASSUME FaultIInv, NEW t \in FaultThreads, FaultReadText(t)
    PROVE  FaultIInv'
<1> USE PagesAssumption, AreasAssumption
<1>1. CASE Panic("out_of_memory")
  BY <1>1, PanicInv
<1>2. CASE ~Panic("out_of_memory")
  <2>1. FaultTypeOK /\ FaultInv /\ FaultsRun /\ "text" \in live_areas
    BY DEF FaultIInv, FaultReadText, Faults
  <2>2. PICK p \in free :
          /\ thread[t].pc = "user" /\ slot_page["ti"] = NoPage
          /\ free' = free \ {p}
          /\ page' = [page EXCEPT ![p] = NewPage(TRUE)]
          /\ slot_page' = [slot_page EXCEPT !["ti"] = p]
          /\ thread' = [thread EXCEPT ![t] =
                            [pc |-> "read", area |-> "text", is_store |-> FALSE,
                             source |-> p, dummy |-> NoPage]]
          /\ UNCHANGED <<pte, live_areas, fault_machine>>
    BY <1>2 DEF FaultReadText, Faults, lookup_cache_page
  <2>3. /\ p \in Pages /\ page[p].ref_count = 0
        /\ Mapped(p) = {} /\ Cached(p) = {} /\ Pinned(p) = {}
        /\ \A s \in Slots : slot_page[s] # p
        /\ \A a \in live_areas : pte[a].page # p
        /\ \A u \in FaultThreads : /\ thread[u].pc # "user" => thread[u].source # p
                                   /\ thread[u].pc = "read" => thread[u].dummy # p
    BY <2>1, FreeIsUnused
  <2>4. /\ page'[p].ref_count = 1 /\ page'[p].busy /\ ~page'[p].dirty /\ page'[p].data = "zero"
        /\ \A q \in Pages \ {p} : page'[q] = page[q]
        /\ page' \in [Pages -> [ref_count : Nat, busy : BOOLEAN, dirty : BOOLEAN, data : Data]]
    BY <2>1, <2>2, <2>3 DEF FaultTypeOK, NewPage, Data
  <2>5. /\ thread'[t].pc = "read" /\ thread'[t].area = "text" /\ thread'[t].is_store = FALSE
        /\ thread'[t].source = p /\ thread'[t].dummy = NoPage
        /\ \A u \in FaultThreads \ {t} : thread'[u] = thread[u]
        /\ thread' \in [FaultThreads -> [pc : {"user", "read", "wait"}, area : AllAreas,
                                         is_store : BOOLEAN, source : Pages \cup {NoPage},
                                         dummy : Pages \cup {NoPage}]]
    BY <2>1, <2>2, <2>3 DEF FaultTypeOK, AllAreas
  <2>6. /\ slot_page'["ti"] = p /\ slot_page' \in [Slots -> Pages \cup {NoPage}]
        /\ \A s \in Slots \ {"ti"} : slot_page'[s] = slot_page[s]
        /\ \A s \in Slots : slot_page[s] # NoPage => slot_page'[s] = slot_page[s]
    BY <2>1, <2>2, <2>3 DEF FaultTypeOK, Slots
  <2>7. pte' = pte /\ live_areas' = live_areas /\ fault_machine' = fault_machine /\ fault_machine # "read_failed"
    BY <2>1, <2>2 DEF FaultInv, CountsOK
  <2>8. FaultTypeOK'
    BY <2>1, <2>2, <2>4, <2>5, <2>6, <2>7 DEF FaultTypeOK
  <2>9. /\ \A s \in Slots : slot_page[s] # NoPage => slot_page[s] \in Pages \ {p}
        /\ \A a \in live_areas : pte[a].page # NoPage => pte[a].page \in Pages \ {p}
    BY <2>1, <2>3 DEF FaultTypeOK
  <2>10. CachesOK' /\ MappingsOK'
    BY <2>1, <2>3, <2>4, <2>6, <2>7, <2>9 DEF FaultInv, CachesOK, MappingsOK, Slots, FileSlots
  <2>11. FaultsOK'
    <3>1. ASSUME NEW u \in FaultThreads PROVE ReaderOK(u)' /\ WaiterOK(u)'
      <4>1. CASE u = t
        BY <2>1, <2>3, <2>4, <2>5, <2>6, <2>7, <4>1 DEF ReaderOK, WaiterOK
      <4>2. CASE u # t
        <5>0. ReaderOK(u) /\ WaiterOK(u) /\ thread'[u] = thread[u]
          BY <2>1, <2>5, <4>2 DEF FaultInv, FaultsOK
        <5>1. /\ thread[u].pc # "user" /\ thread[u].source # NoPage => thread[u].source \in Pages \ {p}
              /\ thread[u].pc = "read" /\ thread[u].dummy # NoPage => thread[u].dummy \in Pages \ {p}
          BY <2>1, <2>3 DEF FaultTypeOK
        <5>2. ReaderOK(u)'
          BY <2>4, <2>6, <2>7, <5>0, <5>1 DEF ReaderOK, Slots
        <5>3. WaiterOK(u)'
          BY <2>2, <2>4, <2>6, <2>7, <5>0, <5>1 DEF WaiterOK, Slots
        <5> QED
          BY <5>2, <5>3
      <4> QED
        BY <4>1, <4>2
    <3> QED
      BY <3>1 DEF FaultsOK
  <2>12. ReadersOK'
    <3>1. \A u \in FaultThreads : thread[u].pc = "read" => thread[u].area # "text"
      BY <2>1, <2>2 DEF FaultInv, FaultsOK, ReaderOK
    <3>2. slot_page["di"] # NoPage => slot_page["di"] \in Pages \ {p}
      BY <2>9 DEF Slots
    <3>3. ASSUME NEW u \in FaultThreads, NEW v \in FaultThreads, thread'[u].pc = "read", thread'[v].pc = "read",
                 thread'[u].area = thread'[v].area
          PROVE  u = v
      BY <2>1, <2>5, <3>1, <3>3 DEF FaultInv, ReadersOK
    <3>4. ASSUME slot_page'["di"] # NoPage, page'[slot_page'["di"]].busy
          PROVE  \E u \in FaultThreads : thread'[u].pc = "read" /\ thread'[u].area = "data"
      <4>1. slot_page["di"] # NoPage /\ page[slot_page["di"]].busy
        BY <2>4, <2>6, <3>2, <3>4 DEF Slots
      <4>2. PICK u \in FaultThreads : thread[u].pc = "read" /\ thread[u].area = "data"
        BY <2>1, <4>1 DEF FaultInv, ReadersOK
      <4> QED
        BY <2>2, <2>5, <4>2
    <3> QED
      BY <3>3, <3>4 DEF ReadersOK
  <2>13. CountsOK'
    <3>1. ASSUME NEW q \in Pages
          PROVE  page'[q].ref_count + Lost(q)' >= Uses(q)' /\ (q \in free' <=> page'[q].ref_count = 0)
      <4>1. /\ Mapped(q)' \subseteq Mapped(q) /\ Pinned(q)' \subseteq Pinned(q)
            /\ Cached(q)' \subseteq Cached(q) \cup {"ti"} /\ (q # p => Cached(q)' \subseteq Cached(q))
        BY <2>5, <2>6, <2>7 DEF Mapped, Pinned, Cached
      <4>2. Uses(q)' <= Uses(q) + (IF q = p THEN 1 ELSE 0) /\ Uses(q) \in Nat /\ Uses(q)' \in Nat
        <5>1. /\ Change(Mapped(q), Mapped(q)', 0) /\ Change(Pinned(q), Pinned(q)', 0)
              /\ Change(Cached(q), Cached(q)', IF q = p THEN 1 ELSE 0)
          BY <4>1 DEF Change
        <5> QED
          BY <2>1, <2>8, <5>1, UsesChange
      <4>3. /\ Lost(q) = 0 /\ Lost(q)' = 0 /\ page[q].ref_count \in Nat
            /\ page[q].ref_count + Lost(q) >= Uses(q) /\ (q \in free <=> page[q].ref_count = 0)
        BY <2>1, <2>7 DEF FaultInv, CountsOK, FaultTypeOK, Lost
      <4>4. CASE q = p
        <5>1. page'[q].ref_count = 1 /\ page[q].ref_count = 0 /\ q \notin free'
          BY <2>2, <2>3, <2>4, <4>4
        <5> QED
          BY <4>2, <4>3, <4>4, <5>1
      <4>5. CASE q # p
        <5>1. page'[q].ref_count = page[q].ref_count /\ (q \in free' <=> q \in free)
          BY <2>2, <2>4, <4>5
        <5> QED
          BY <4>2, <4>3, <4>5, <5>1
      <4> QED
        BY <4>4, <4>5
    <3>2. \A s \in Slots : slot_page'[s] \notin free'
      BY <2>1, <2>2, <2>6 DEF FaultInv, CountsOK
    <3> QED
      BY <2>7, <3>1, <3>2 DEF CountsOK
  <2> QED
    BY <2>8, <2>10, <2>11, <2>12, <2>13, FaultInvSuffices DEF FaultInv
<1> QED
  BY <1>1, <1>2

\* The stack's first page is a frame that nobody uses.
LEMMA FaultZeroInv ==
    ASSUME FaultIInv, NEW t \in FaultThreads, FaultZero(t)
    PROVE  FaultIInv'
<1> USE PagesAssumption, AreasAssumption
<1>1. CASE Panic("out_of_memory")
  BY <1>1, PanicInv
<1>2. CASE ~Panic("out_of_memory")
  <2>1. FaultTypeOK /\ FaultInv /\ FaultsRun /\ "stack" \in live_areas
    BY DEF FaultIInv, FaultZero, Faults
  <2>2. PICK is_store \in BOOLEAN, p \in free :
          /\ thread[t].pc = "user" /\ slot_page["sa"] = NoPage
          /\ free' = free \ {p}
          /\ page' = inc_page_ref([page EXCEPT ![p] = NewPage(FALSE)], p)
          /\ slot_page' = [slot_page EXCEPT !["sa"] = p]
          /\ thread' = [thread EXCEPT ![t] = WaitFor("stack", is_store, p)]
          /\ UNCHANGED <<pte, live_areas, fault_machine>>
    BY <1>2 DEF FaultZero, Faults, lookup_cache_page
  <2>3. /\ p \in Pages /\ page[p].ref_count = 0
        /\ Mapped(p) = {} /\ Cached(p) = {} /\ Pinned(p) = {}
        /\ \A s \in Slots : slot_page[s] # p
    BY <2>1, FreeIsUnused
  <2>4. /\ page'[p].ref_count = 2 /\ ~page'[p].busy
        /\ \A q \in Pages \ {p} : page'[q] = page[q]
        /\ page' \in [Pages -> [ref_count : Nat, busy : BOOLEAN, dirty : BOOLEAN, data : Data]]
    BY <2>1, <2>2, <2>3 DEF FaultTypeOK, NewPage, Data, inc_page_ref
  <2>5. /\ thread'[t].pc = "wait" /\ thread'[t].area = "stack" /\ thread'[t].source = p
        /\ \A u \in FaultThreads \ {t} : thread'[u] = thread[u]
        /\ thread' \in [FaultThreads -> [pc : {"user", "read", "wait"}, area : AllAreas,
                                         is_store : BOOLEAN, source : Pages \cup {NoPage},
                                         dummy : Pages \cup {NoPage}]]
    BY <2>1, <2>2, <2>3 DEF FaultTypeOK, AllAreas, WaitFor
  <2>6. /\ slot_page'["sa"] = p /\ slot_page' \in [Slots -> Pages \cup {NoPage}]
        /\ \A s \in Slots \ {"sa"} : slot_page'[s] = slot_page[s]
    BY <2>1, <2>2, <2>3 DEF FaultTypeOK, Slots
  <2>7. pte' = pte /\ live_areas' = live_areas /\ fault_machine' = fault_machine
    BY <2>2
  <2>8. FaultTypeOK'
    BY <2>1, <2>2, <2>4, <2>5, <2>6, <2>7 DEF FaultTypeOK
  <2>9. \A s \in Slots : slot_page[s] # NoPage => slot_page[s] \in Pages \ {p}
    BY <2>1, <2>3 DEF FaultTypeOK
  <2>10. /\ \A q \in Pages \ free : page'[q].busy = page[q].busy /\ page'[q].ref_count = page[q].ref_count
         /\ \A s \in Slots : \/ slot_page'[s] = slot_page[s]
                             \/ slot_page[s] = NoPage /\ slot_page'[s] \in free
    BY <2>2, <2>4, <2>6
  <2>11. CachesOK'
    BY <2>1, <2>3, <2>4, <2>6, <2>9 DEF FaultInv, CachesOK, Slots, FileSlots
  <2>12. MappingsOK'
    BY <2>1, <2>7, <2>10, MappingsKept
  <2>13. FaultsOK'
    <3>1. ReaderOK(t)' /\ WaiterOK(t)'
      BY <2>1, <2>3, <2>5, <2>6, <2>7 DEF ReaderOK, WaiterOK
    <3>2. ASSUME NEW u \in FaultThreads \ {t} PROVE ReaderOK(u)' /\ WaiterOK(u)'
      <4>1. thread[u].pc = "read" /\ thread[u].area = "data" => thread[u].source \in Pages \ free
        BY <2>1, FreeIsUnused DEF FaultInv, FaultsOK, ReaderOK, FaultTypeOK
      <4> QED
        BY <2>1, <2>5, <2>7, <2>10, <4>1, OthersKept
    <3> QED
      BY <3>1, <3>2 DEF FaultsOK
  <2>14. ReadersOK'
    <3>1. ASSUME NEW u \in FaultThreads, NEW v \in FaultThreads, thread'[u].pc = "read", thread'[v].pc = "read",
                 thread'[u].area = thread'[v].area
          PROVE  u = v
      BY <2>1, <2>5, <3>1 DEF FaultInv, ReadersOK
    <3>2. ASSUME slot_page'["di"] # NoPage, page'[slot_page'["di"]].busy
          PROVE  \E u \in FaultThreads : thread'[u].pc = "read" /\ thread'[u].area = "data"
      <4>1. slot_page["di"] # NoPage /\ page[slot_page["di"]].busy
        BY <2>4, <2>6, <2>9, <3>2 DEF Slots
      <4>2. PICK u \in FaultThreads : thread[u].pc = "read" /\ thread[u].area = "data"
        BY <2>1, <4>1 DEF FaultInv, ReadersOK
      <4> QED
        BY <2>2, <2>5, <4>2
    <3> QED
      BY <3>1, <3>2 DEF ReadersOK
  <2>15. CountsOK'
    <3>1. ASSUME NEW q \in Pages
          PROVE  /\ \E i, j, k \in {-1, 0, 1} :
                      /\ Change(Mapped(q), Mapped(q)', i) /\ Change(Cached(q), Cached(q)', j)
                      /\ Change(Pinned(q), Pinned(q)', k)
                      /\ page'[q].ref_count + Lost(q)' >= page[q].ref_count + Lost(q) + i + j + k
                 /\ q \in free' <=> page'[q].ref_count = 0
      <4>1. /\ Mapped(q)' \subseteq Mapped(q)
            /\ Pinned(q)' \subseteq Pinned(q) \cup {t} /\ (q # p => Pinned(q)' \subseteq Pinned(q))
            /\ Cached(q)' \subseteq Cached(q) \cup {"sa"} /\ (q # p => Cached(q)' \subseteq Cached(q))
        BY <2>5, <2>6, <2>7 DEF Mapped, Pinned, Cached
      <4>2. /\ Lost(q)' = Lost(q) /\ Lost(q) \in Nat /\ page[q].ref_count \in Nat
            /\ (q \in free <=> page[q].ref_count = 0)
        BY <2>1, <2>6, <2>7 DEF FaultInv, CountsOK, FaultTypeOK, Lost, Slots
      <4>3. CASE q = p
        <5>1. page'[q].ref_count = 2 /\ page[q].ref_count = 0 /\ q \notin free'
          BY <2>2, <2>3, <2>4, <4>3
        <5>2. Change(Mapped(q), Mapped(q)', 0) /\ Change(Pinned(q), Pinned(q)', 1) /\ Change(Cached(q), Cached(q)', 1)
          BY <4>1 DEF Change
        <5> QED
          BY <4>2, <5>1, <5>2
      <4>4. CASE q # p
        <5>1. page'[q].ref_count = page[q].ref_count /\ (q \in free' <=> q \in free)
          BY <2>2, <2>4, <4>4
        <5>2. Change(Mapped(q), Mapped(q)', 0) /\ Change(Pinned(q), Pinned(q)', 0) /\ Change(Cached(q), Cached(q)', 0)
          BY <4>1, <4>4 DEF Change
        <5> QED
          BY <4>2, <5>1, <5>2
      <4> QED
        BY <4>3, <4>4
    <3>2. \A s \in Slots : slot_page'[s] \notin free'
      BY <2>1, <2>2, <2>6 DEF FaultInv, CountsOK
    <3>3. fault_machine' = "read_failed" =>
              /\ slot_page'["ti"] # NoPage
              /\ \A u \in FaultThreads : thread'[u].pc = "read" => thread'[u].area = "data"
      BY <2>1, <2>5, <2>6, <2>7 DEF FaultInv, CountsOK, Slots
    <3> QED
      BY <2>1, <2>8, <3>1, <3>2, <3>3, CountsStep
  <2> QED
    BY <2>8, <2>11, <2>12, <2>13, <2>14, <2>15, FaultInvSuffices DEF FaultInv
<1> QED
  BY <1>1, <1>2

\* What FaultCow does when neither cache has a page.
CowRead(t, is_store, d, src) ==
    /\ free' = free \ {d, src}
    /\ page' = [page EXCEPT ![d] = NewPage(TRUE), ![src] = NewPage(TRUE)]
    /\ slot_page' = [slot_page EXCEPT !["dc"] = d, !["di"] = src]
    /\ thread' = [thread EXCEPT ![t] = [pc |-> "read", area |-> "data", is_store |-> is_store,
                                        source |-> src, dummy |-> d]]
    /\ UNCHANGED <<pte, live_areas, fault_machine>>

\* A page of "data" is read into the image cache, behind a dummy in the
\* copy-on-write cache: two frames that nobody uses.
LEMMA FaultCowReadInv ==
    ASSUME FaultIInv, FaultsRun, NEW t \in FaultThreads, NEW is_store \in BOOLEAN, "data" \in live_areas,
           thread[t].pc = "user", slot_page["dc"] = NoPage, slot_page["di"] = NoPage,
           NEW d \in free, NEW src \in free, d # src,
           CowRead(t, is_store, d, src)
    PROVE  FaultIInv'
<1> USE PagesAssumption, AreasAssumption
<1>1. FaultTypeOK /\ FaultInv
  BY DEF FaultIInv
<1>2. /\ d \in Pages /\ page[d].ref_count = 0 /\ src \in Pages /\ page[src].ref_count = 0
      /\ \A s \in Slots : slot_page[s] # d /\ slot_page[s] # src
  BY <1>1, FreeIsUnused
<1>3. /\ page'[d].ref_count = 1 /\ page'[d].busy
      /\ page'[src].ref_count = 1 /\ page'[src].busy /\ ~page'[src].dirty /\ page'[src].data = "zero"
      /\ \A q \in Pages \ {d, src} : page'[q] = page[q]
      /\ page' \in [Pages -> [ref_count : Nat, busy : BOOLEAN, dirty : BOOLEAN, data : Data]]
  BY <1>1, <1>2 DEF FaultTypeOK, NewPage, Data, CowRead
<1>4. /\ thread'[t].pc = "read" /\ thread'[t].area = "data"
      /\ thread'[t].source = src /\ thread'[t].dummy = d
      /\ \A u \in FaultThreads \ {t} : thread'[u] = thread[u]
      /\ thread' \in [FaultThreads -> [pc : {"user", "read", "wait"}, area : AllAreas,
                                       is_store : BOOLEAN, source : Pages \cup {NoPage},
                                       dummy : Pages \cup {NoPage}]]
  BY <1>1, <1>2 DEF FaultTypeOK, AllAreas, CowRead
<1>5. /\ slot_page'["dc"] = d /\ slot_page'["di"] = src /\ slot_page' \in [Slots -> Pages \cup {NoPage}]
      /\ \A s \in Slots \ {"dc", "di"} : slot_page'[s] = slot_page[s]
      /\ free' = free \ {d, src} /\ pte' = pte /\ live_areas' = live_areas /\ fault_machine' = fault_machine
  BY <1>1, <1>2 DEF FaultTypeOK, Slots, CowRead
<1>6. FaultTypeOK'
  BY <1>1, <1>3, <1>4, <1>5 DEF FaultTypeOK
<1>7. \A s \in Slots : slot_page[s] # NoPage => slot_page[s] \in Pages \ {d, src}
  BY <1>1, <1>2 DEF FaultTypeOK
<1>8. /\ \A q \in Pages \ free : page'[q].busy = page[q].busy /\ page'[q].ref_count = page[q].ref_count
      /\ \A s \in Slots : \/ slot_page'[s] = slot_page[s]
                          \/ slot_page[s] = NoPage /\ slot_page'[s] \in free
  BY <1>3, <1>5
<1>9. CachesOK'
  BY <1>1, <1>2, <1>3, <1>5, <1>7 DEF FaultInv, CachesOK, Slots, FileSlots
<1>10. MappingsOK'
  BY <1>1, <1>5, <1>8, MappingsKept
<1>11. FaultsOK'
  <2>1. ReaderOK(t)' /\ WaiterOK(t)'
    BY <1>2, <1>3, <1>4, <1>5 DEF ReaderOK, WaiterOK
  <2>2. ASSUME NEW u \in FaultThreads \ {t} PROVE ReaderOK(u)' /\ WaiterOK(u)'
    <3>1. thread[u].pc = "read" /\ thread[u].area = "data" => thread[u].source \in Pages \ free
      BY <1>1, FreeIsUnused DEF FaultInv, FaultsOK, ReaderOK, FaultTypeOK
    <3> QED
      BY <1>1, <1>4, <1>5, <1>8, <3>1, OthersKept
  <2> QED
    BY <2>1, <2>2 DEF FaultsOK
<1>12. ReadersOK'
  <2>1. \A u \in FaultThreads : thread[u].pc = "read" => thread[u].area # "data"
    BY <1>1 DEF FaultInv, FaultsOK, ReaderOK
  <2> QED
    BY <1>1, <1>4, <2>1 DEF FaultInv, ReadersOK
<1>13. CountsOK'
  <2>1. ASSUME NEW q \in Pages
        PROVE  /\ \E i, j, k \in {-1, 0, 1} :
                    /\ Change(Mapped(q), Mapped(q)', i) /\ Change(Cached(q), Cached(q)', j)
                    /\ Change(Pinned(q), Pinned(q)', k)
                    /\ page'[q].ref_count + Lost(q)' >= page[q].ref_count + Lost(q) + i + j + k
               /\ q \in free' <=> page'[q].ref_count = 0
    <3>1. /\ Mapped(q)' \subseteq Mapped(q) /\ Pinned(q)' \subseteq Pinned(q)
          /\ q # d => Cached(q)' \subseteq Cached(q) \cup {"di"}
          /\ q # src => Cached(q)' \subseteq Cached(q) \cup {"dc"}
          /\ q \notin {d, src} => Cached(q)' \subseteq Cached(q)
      BY <1>4, <1>5 DEF Mapped, Pinned, Cached
    <3>2. /\ Lost(q)' = Lost(q) /\ Lost(q) \in Nat /\ page[q].ref_count \in Nat
          /\ (q \in free <=> page[q].ref_count = 0)
      BY <1>1, <1>5 DEF FaultInv, CountsOK, FaultTypeOK, Lost, Slots
    <3>3. Change(Mapped(q), Mapped(q)', 0) /\ Change(Pinned(q), Pinned(q)', 0)
      BY <3>1 DEF Change
    <3>4. CASE q \in {d, src}
      <4>1. page'[q].ref_count = 1 /\ page[q].ref_count = 0 /\ q \notin free'
        BY <1>2, <1>3, <1>5, <3>4
      <4>2. Change(Cached(q), Cached(q)', 1)
        BY <3>1, <3>4 DEF Change
      <4> QED
        BY <3>2, <3>3, <4>1, <4>2
    <3>5. CASE q \notin {d, src}
      <4>1. page'[q].ref_count = page[q].ref_count /\ (q \in free' <=> q \in free)
        BY <1>3, <1>5, <3>5
      <4>2. Change(Cached(q), Cached(q)', 0)
        BY <3>1, <3>5 DEF Change
      <4> QED
        BY <3>2, <3>3, <4>1, <4>2
    <3> QED
      BY <3>4, <3>5
  <2>2. \A s \in Slots : slot_page'[s] \notin free'
    BY <1>1, <1>5 DEF FaultInv, CountsOK
  <2>3. fault_machine' = "read_failed" =>
          /\ slot_page'["ti"] # NoPage
          /\ \A u \in FaultThreads : thread'[u].pc = "read" => thread'[u].area = "data"
    BY <1>1, <1>4, <1>5 DEF FaultInv, CountsOK, Slots
  <2> QED
    BY <1>1, <1>6, <2>1, <2>2, <2>3, CountsStep
<1> QED
  BY <1>6, <1>9, <1>10, <1>11, <1>12, <1>13, FaultInvSuffices DEF FaultInv

\* A store to "data" whose page of the file is there and finished: the dummy
\* becomes a copy.
LEMMA FaultCowStoreInv ==
    ASSUME FaultIInv, FaultsRun, NEW t \in FaultThreads, "data" \in live_areas,
           thread[t].pc = "user", slot_page["dc"] = NoPage, slot_page["di"] # NoPage, NEW d \in free,
           CowStore(t, [page EXCEPT ![d] = NewPage(TRUE)], free \ {d}, slot_page["di"], d),
           UNCHANGED <<pte, live_areas, fault_machine>>
    PROVE  FaultIInv'
<1> USE PagesAssumption, AreasAssumption
<1>1. FaultTypeOK /\ FaultInv
  BY DEF FaultIInv
<1>2. /\ d \in Pages /\ page[d].ref_count = 0 /\ \A s \in Slots : slot_page[s] # d
  BY <1>1, FreeIsUnused
<1>3. PICK src \in Pages : src = slot_page["di"] /\ src # d /\ page[src].data = "file"
  <2>1. slot_page["di"] \in Pages /\ slot_page["di"] # d
    BY <1>1, <1>2 DEF FaultTypeOK, Slots
  <2>2. ~page[slot_page["di"]].busy
    BY <1>1 DEF FaultInv, FaultsOK, ReaderOK, ReadersOK
  <2> QED
    BY <1>1, <2>1, <2>2 DEF FaultInv, CachesOK, FileSlots
<1>4. /\ free' = free \ {d}
      /\ page' = inc_page_ref([[page EXCEPT ![d] = NewPage(TRUE)] EXCEPT
                                 ![d].busy = FALSE, ![d].data = [page EXCEPT ![d] = NewPage(TRUE)][src].data], d)
      /\ slot_page' = [slot_page EXCEPT !["di"] = src, !["dc"] = d]
      /\ thread' = [thread EXCEPT ![t] = WaitFor("data", TRUE, d)]
  BY <1>3 DEF CowStore
<1>5. /\ page'[d].ref_count = 2 /\ ~page'[d].busy /\ page'[d].data = "file"
      /\ \A q \in Pages \ {d} : page'[q] = page[q]
      /\ page' \in [Pages -> [ref_count : Nat, busy : BOOLEAN, dirty : BOOLEAN, data : Data]]
  BY <1>1, <1>2, <1>3, <1>4 DEF FaultTypeOK, NewPage, Data, inc_page_ref
<1>6. /\ thread'[t].pc = "wait" /\ thread'[t].area = "data" /\ thread'[t].source = d
      /\ \A u \in FaultThreads \ {t} : thread'[u] = thread[u]
      /\ thread' \in [FaultThreads -> [pc : {"user", "read", "wait"}, area : AllAreas,
                                       is_store : BOOLEAN, source : Pages \cup {NoPage},
                                       dummy : Pages \cup {NoPage}]]
  BY <1>1, <1>2, <1>4 DEF FaultTypeOK, AllAreas, WaitFor
<1>7. /\ slot_page'["dc"] = d /\ slot_page' \in [Slots -> Pages \cup {NoPage}]
      /\ \A s \in Slots \ {"dc"} : slot_page'[s] = slot_page[s]
  BY <1>1, <1>2, <1>3, <1>4 DEF FaultTypeOK, Slots
<1>8. FaultTypeOK'
  BY <1>1, <1>4, <1>5, <1>6, <1>7 DEF FaultTypeOK
<1>9. \A s \in Slots : slot_page[s] # NoPage => slot_page[s] \in Pages \ {d}
  BY <1>1, <1>2 DEF FaultTypeOK
<1>10. /\ \A q \in Pages \ free : page'[q].busy = page[q].busy /\ page'[q].ref_count = page[q].ref_count
       /\ \A s \in Slots : \/ slot_page'[s] = slot_page[s]
                           \/ slot_page[s] = NoPage /\ slot_page'[s] \in free
  BY <1>5, <1>7
<1>11. CachesOK'
  BY <1>1, <1>2, <1>3, <1>5, <1>7, <1>9 DEF FaultInv, CachesOK, Slots, FileSlots
<1>12. MappingsOK'
  BY <1>1, <1>10, MappingsKept
<1>13. FaultsOK'
  <2>1. ReaderOK(t)' /\ WaiterOK(t)'
    BY <1>2, <1>6, <1>7 DEF ReaderOK, WaiterOK
  <2>2. ASSUME NEW u \in FaultThreads \ {t} PROVE ReaderOK(u)' /\ WaiterOK(u)'
    <3>1. thread[u].pc = "read" /\ thread[u].area = "data" => thread[u].source \in Pages \ free
      BY <1>1, FreeIsUnused DEF FaultInv, FaultsOK, ReaderOK, FaultTypeOK
    <3> QED
      BY <1>1, <1>6, <1>10, <3>1, OthersKept
  <2> QED
    BY <2>1, <2>2 DEF FaultsOK
<1>14. ReadersOK'
  <2>1. slot_page'["di"] = src /\ page'[src] = page[src] /\ ~page[src].busy
    BY <1>1, <1>3, <1>5, <1>7 DEF FaultInv, FaultsOK, ReaderOK, ReadersOK, Slots
  <2> QED
    BY <1>1, <1>6, <2>1 DEF FaultInv, ReadersOK
<1>15. CountsOK'
  <2>1. ASSUME NEW q \in Pages
        PROVE  /\ \E i, j, k \in {-1, 0, 1} :
                    /\ Change(Mapped(q), Mapped(q)', i) /\ Change(Cached(q), Cached(q)', j)
                    /\ Change(Pinned(q), Pinned(q)', k)
                    /\ page'[q].ref_count + Lost(q)' >= page[q].ref_count + Lost(q) + i + j + k
               /\ q \in free' <=> page'[q].ref_count = 0
    <3>1. /\ Mapped(q)' \subseteq Mapped(q)
          /\ Pinned(q)' \subseteq Pinned(q) \cup {t} /\ (q # d => Pinned(q)' \subseteq Pinned(q))
          /\ Cached(q)' \subseteq Cached(q) \cup {"dc"} /\ (q # d => Cached(q)' \subseteq Cached(q))
      BY <1>6, <1>7 DEF Mapped, Pinned, Cached
    <3>2. /\ Lost(q)' = Lost(q) /\ Lost(q) \in Nat /\ page[q].ref_count \in Nat
          /\ (q \in free <=> page[q].ref_count = 0)
      BY <1>1, <1>7 DEF FaultInv, CountsOK, FaultTypeOK, Lost, Slots
    <3>3. CASE q = d
      <4>1. page'[q].ref_count = 2 /\ page[q].ref_count = 0 /\ q \notin free'
        BY <1>2, <1>4, <1>5, <3>3
      <4>2. Change(Mapped(q), Mapped(q)', 0) /\ Change(Pinned(q), Pinned(q)', 1) /\ Change(Cached(q), Cached(q)', 1)
        BY <3>1 DEF Change
      <4> QED
        BY <3>2, <4>1, <4>2
    <3>4. CASE q # d
      <4>1. page'[q].ref_count = page[q].ref_count /\ (q \in free' <=> q \in free)
        BY <1>4, <1>5, <3>4
      <4>2. Change(Mapped(q), Mapped(q)', 0) /\ Change(Pinned(q), Pinned(q)', 0) /\ Change(Cached(q), Cached(q)', 0)
        BY <3>1, <3>4 DEF Change
      <4> QED
        BY <3>2, <4>1, <4>2
    <3> QED
      BY <3>3, <3>4
  <2>2. \A s \in Slots : slot_page'[s] \notin free'
    BY <1>1, <1>4, <1>7 DEF FaultInv, CountsOK
  <2>3. fault_machine' = "read_failed" =>
          /\ slot_page'["ti"] # NoPage
          /\ \A u \in FaultThreads : thread'[u].pc = "read" => thread'[u].area = "data"
    BY <1>1, <1>6, <1>7 DEF FaultInv, CountsOK, Slots
  <2> QED
    BY <1>1, <1>8, <2>1, <2>2, <2>3, CountsStep
<1> QED
  BY <1>8, <1>11, <1>12, <1>13, <1>14, <1>15, FaultInvSuffices DEF FaultInv

\* A load from "data" whose page of the file is there and finished: the dummy
\* goes back where it came from.
LEMMA FaultCowLoadInv ==
    ASSUME FaultIInv, FaultsRun, NEW t \in FaultThreads, "data" \in live_areas,
           thread[t].pc = "user", slot_page["dc"] = NoPage, slot_page["di"] # NoPage, NEW d \in free,
           CowLoad(t, [page EXCEPT ![d] = NewPage(TRUE)], free \ {d}, slot_page["di"], d),
           UNCHANGED <<pte, live_areas, fault_machine>>
    PROVE  FaultIInv'
<1> USE PagesAssumption, AreasAssumption
<1>1. FaultTypeOK /\ FaultInv
  BY DEF FaultIInv
<1>2. /\ d \in Pages /\ page[d].ref_count = 0 /\ \A s \in Slots : slot_page[s] # d
  BY <1>1, FreeIsUnused
<1>3. PICK src \in Pages : src = slot_page["di"] /\ src # d /\ ~page[src].busy /\ src # NoPage
  <2>1. slot_page["di"] \in Pages /\ slot_page["di"] # d
    BY <1>1, <1>2 DEF FaultTypeOK, Slots
  <2>2. ~page[slot_page["di"]].busy
    BY <1>1 DEF FaultInv, FaultsOK, ReaderOK, ReadersOK
  <2> QED
    BY <2>1, <2>2
<1>4. PICK pg : pg = [page EXCEPT ![d] = NewPage(TRUE)]
  OBVIOUS
<1>5. /\ page' = inc_page_ref(dec_page_ref(pg, d), src) /\ free' = (free \ {d}) \cup Freed(pg, d)
      /\ slot_page' = [slot_page EXCEPT !["di"] = src, !["dc"] = NoPage]
      /\ thread' = [thread EXCEPT ![t] = WaitFor("data", FALSE, src)]
  BY <1>3, <1>4 DEF CowLoad
<1>6. /\ page'[d].ref_count = 0 /\ page'[src].ref_count = page[src].ref_count + 1
      /\ page'[src].busy = page[src].busy /\ page'[src].dirty = page[src].dirty
      /\ page'[src].data = page[src].data
      /\ \A q \in Pages \ {d, src} : page'[q] = page[q]
      /\ page' \in [Pages -> [ref_count : Nat, busy : BOOLEAN, dirty : BOOLEAN, data : Data]]
  BY <1>1, <1>2, <1>3, <1>4, <1>5 DEF FaultTypeOK, NewPage, Data, inc_page_ref, dec_page_ref
<1>7. free' = free
  <2>1. pg[d].ref_count = 1
    BY <1>1, <1>2, <1>4 DEF FaultTypeOK, NewPage
  <2> QED
    BY <1>5, <2>1 DEF Freed
<1>8. /\ thread'[t].pc = "wait" /\ thread'[t].area = "data" /\ thread'[t].source = src /\ ~thread'[t].is_store
      /\ \A u \in FaultThreads \ {t} : thread'[u] = thread[u]
      /\ thread' \in [FaultThreads -> [pc : {"user", "read", "wait"}, area : AllAreas,
                                       is_store : BOOLEAN, source : Pages \cup {NoPage},
                                       dummy : Pages \cup {NoPage}]]
  BY <1>1, <1>5 DEF FaultTypeOK, AllAreas, WaitFor
<1>9. slot_page' = slot_page
  BY <1>1, <1>3, <1>5 DEF FaultTypeOK, Slots
<1>10. FaultTypeOK'
  BY <1>1, <1>6, <1>7, <1>8, <1>9 DEF FaultTypeOK
<1>11. /\ \A q \in Pages \ {d} : page'[q].busy = page[q].busy /\ page'[q].dirty = page[q].dirty
                                 /\ page'[q].data = page[q].data
       /\ \A s \in Slots : slot_page[s] # NoPage => slot_page[s] \in Pages \ {d}
  BY <1>1, <1>2, <1>6 DEF FaultTypeOK
<1>12. CachesOK'
  BY <1>1, <1>9, <1>11 DEF FaultInv, CachesOK, Slots, FileSlots
<1>13. MappingsOK'
  BY <1>1, <1>9, <1>11, MappingsKept
<1>14. \A u \in FaultThreads : thread[u].pc = "read" => thread[u].area # "data"
  BY <1>1 DEF FaultInv, FaultsOK, ReaderOK
<1>15. FaultsOK'
  <2>1. ReaderOK(t)' /\ WaiterOK(t)'
    BY <1>3, <1>6, <1>8, <1>9 DEF ReaderOK, WaiterOK
  <2>2. ASSUME NEW u \in FaultThreads \ {t} PROVE ReaderOK(u)' /\ WaiterOK(u)'
    BY <1>1, <1>8, <1>9, <1>11, <1>14, OthersKept
  <2> QED
    BY <2>1, <2>2 DEF FaultsOK
<1>16. ReadersOK'
  BY <1>1, <1>3, <1>6, <1>8, <1>9 DEF FaultInv, ReadersOK
<1>17. CountsOK'
  <2>1. ASSUME NEW q \in Pages
        PROVE  /\ \E i, j, k \in {-1, 0, 1} :
                    /\ Change(Mapped(q), Mapped(q)', i) /\ Change(Cached(q), Cached(q)', j)
                    /\ Change(Pinned(q), Pinned(q)', k)
                    /\ page'[q].ref_count + Lost(q)' >= page[q].ref_count + Lost(q) + i + j + k
               /\ q \in free' <=> page'[q].ref_count = 0
    <3>1. /\ Mapped(q)' \subseteq Mapped(q) /\ Cached(q)' \subseteq Cached(q)
          /\ Pinned(q)' \subseteq Pinned(q) \cup {t} /\ (q # src => Pinned(q)' \subseteq Pinned(q))
      BY <1>8, <1>9 DEF Mapped, Pinned, Cached
    <3>2. /\ Lost(q)' = Lost(q) /\ Lost(q) \in Nat /\ page[q].ref_count \in Nat
          /\ (q \in free <=> page[q].ref_count = 0) /\ (q = src => q \notin free)
      BY <1>1, <1>3, <1>9 DEF FaultInv, CountsOK, FaultTypeOK, Lost, Slots
    <3>3. Change(Mapped(q), Mapped(q)', 0) /\ Change(Cached(q), Cached(q)', 0)
      BY <3>1 DEF Change
    <3>4. CASE q = src
      <4>1. page'[q].ref_count = page[q].ref_count + 1 /\ Change(Pinned(q), Pinned(q)', 1)
        BY <1>6, <3>1, <3>4 DEF Change
      <4> QED
        BY <1>7, <3>2, <3>3, <3>4, <4>1
    <3>5. CASE q # src
      <4>1. page'[q].ref_count = page[q].ref_count /\ Change(Pinned(q), Pinned(q)', 0)
        BY <1>2, <1>6, <3>1, <3>5 DEF Change
      <4> QED
        BY <1>7, <3>2, <3>3, <4>1
    <3> QED
      BY <3>4, <3>5
  <2>2. fault_machine' = "read_failed" =>
          /\ slot_page'["ti"] # NoPage
          /\ \A u \in FaultThreads : thread'[u].pc = "read" => thread'[u].area = "data"
    BY <1>1, <1>8, <1>9 DEF FaultInv, CountsOK
  <2>3. \A s \in Slots : slot_page'[s] \notin free'
    BY <1>1, <1>7, <1>9 DEF FaultInv, CountsOK
  <2> QED
    BY <1>1, <1>10, <2>1, <2>2, <2>3, CountsStep
<1> QED
  BY <1>10, <1>12, <1>13, <1>15, <1>16, <1>17, FaultInvSuffices DEF FaultInv

LEMMA FaultCowInv ==
    ASSUME FaultIInv, NEW t \in FaultThreads, FaultCow(t)
    PROVE  FaultIInv'
<1>1. CASE Panic("out_of_memory")
  BY <1>1, PanicInv
<1>2. CASE ~Panic("out_of_memory")
  <2>1. PICK is_store \in BOOLEAN :
          /\ "data" \in live_areas /\ FaultsRun /\ thread[t].pc = "user" /\ slot_page["dc"] = NoPage
          /\ \/ \E d, src \in free : slot_page["di"] = NoPage /\ d # src /\ CowRead(t, is_store, d, src)
             \/ \E d \in free :
                  /\ slot_page["di"] # NoPage
                  /\ IF is_store
                     THEN CowStore(t, [page EXCEPT ![d] = NewPage(TRUE)], free \ {d}, slot_page["di"], d)
                     ELSE CowLoad(t, [page EXCEPT ![d] = NewPage(TRUE)], free \ {d}, slot_page["di"], d)
                  /\ UNCHANGED <<pte, live_areas, fault_machine>>
    BY <1>2 DEF FaultCow, Faults, lookup_cache_page, CowRead
  <2>2. CASE \E d, src \in free : slot_page["di"] = NoPage /\ d # src /\ CowRead(t, is_store, d, src)
    BY <2>1, <2>2, FaultCowReadInv
  <2>3. ASSUME NEW d \in free, slot_page["di"] # NoPage,
               IF is_store
               THEN CowStore(t, [page EXCEPT ![d] = NewPage(TRUE)], free \ {d}, slot_page["di"], d)
               ELSE CowLoad(t, [page EXCEPT ![d] = NewPage(TRUE)], free \ {d}, slot_page["di"], d),
               UNCHANGED <<pte, live_areas, fault_machine>>
        PROVE  FaultIInv'
    BY <2>1, <2>3, FaultCowStoreInv, FaultCowLoadInv
  <2> QED
    BY <2>1, <2>2, <2>3
<1> QED
  BY <1>1, <1>2

\* The end of a read of "text".
LEMMA ReadTextDoneInv ==
    ASSUME FaultIInv, NEW t \in FaultThreads, ReadDone(t), thread[t].area = "text"
    PROVE  FaultIInv'
<1> USE PagesAssumption, AreasAssumption
<1>1. FaultTypeOK /\ FaultInv /\ FaultsRun /\ thread[t].pc = "read" /\ ReaderOK(t) /\ "text" \in live_areas
  BY DEF FaultIInv, FaultInv, FaultsOK, ReadDone, ReaderOK
<1>2. PICK p \in Pages : p = thread[t].source /\ p = slot_page["ti"] /\ page[p].busy /\ p # NoPage
  BY <1>1 DEF ReaderOK, FaultTypeOK
<1>3. /\ page' = inc_page_ref([page EXCEPT ![p].data = "file", ![p].busy = FALSE], p)
      /\ thread' = [thread EXCEPT ![t] = WaitFor("text", FALSE, p)]
      /\ UNCHANGED <<slot_page, free, pte, live_areas, fault_machine>>
  BY <1>2 DEF ReadDone
<1>4. /\ page'[p].ref_count = page[p].ref_count + 1 /\ ~page'[p].busy /\ page'[p].data = "file"
      /\ page'[p].dirty = page[p].dirty
      /\ \A q \in Pages \ {p} : page'[q] = page[q]
      /\ page' \in [Pages -> [ref_count : Nat, busy : BOOLEAN, dirty : BOOLEAN, data : Data]]
  BY <1>1, <1>2, <1>3 DEF FaultTypeOK, Data, inc_page_ref
<1>5. /\ thread'[t].pc = "wait" /\ thread'[t].area = "text" /\ thread'[t].source = p /\ ~thread'[t].is_store
      /\ \A u \in FaultThreads \ {t} : thread'[u] = thread[u]
      /\ thread' \in [FaultThreads -> [pc : {"user", "read", "wait"}, area : AllAreas,
                                       is_store : BOOLEAN, source : Pages \cup {NoPage},
                                       dummy : Pages \cup {NoPage}]]
  BY <1>1, <1>3 DEF FaultTypeOK, AllAreas, WaitFor
<1>6. slot_page' = slot_page /\ free' = free /\ pte' = pte /\ live_areas' = live_areas /\ fault_machine' = fault_machine
  BY <1>3
<1>7. FaultTypeOK'
  BY <1>1, <1>4, <1>5, <1>6 DEF FaultTypeOK
<1>8. /\ \A s \in Slots : slot_page[s] # NoPage => slot_page[s] \in Pages
      /\ \A s \in Slots \ {"ti"} : slot_page[s] # p
      /\ \A a \in live_areas : pte[a].page # NoPage => pte[a].page \in Pages \ {p}
  BY <1>1, <1>2 DEF FaultTypeOK, FaultInv, CachesOK, MappingsOK, Slots
<1>9. CachesOK' /\ MappingsOK'
  BY <1>1, <1>2, <1>4, <1>6, <1>8 DEF FaultInv, CachesOK, MappingsOK, Slots, FileSlots
<1>10. FaultsOK'
  <2>1. ReaderOK(t)' /\ WaiterOK(t)'
    BY <1>1, <1>2, <1>5, <1>6 DEF ReaderOK, WaiterOK
  <2>2. ASSUME NEW u \in FaultThreads \ {t} PROVE ReaderOK(u)' /\ WaiterOK(u)'
    <3>1. /\ ReaderOK(u) /\ WaiterOK(u) /\ thread'[u] = thread[u]
          /\ thread[u].source # NoPage => thread[u].source \in Pages
          /\ thread[u].dummy # NoPage => thread[u].dummy \in Pages
          /\ thread[u].pc = "read" => thread[u].area # "text"
      BY <1>1, <1>5 DEF FaultInv, FaultsOK, ReadersOK, FaultTypeOK
    <3>2. ReaderOK(u)'
      BY <1>4, <1>6, <1>8, <3>1 DEF ReaderOK, Slots
    <3>3. WaiterOK(u)'
      BY <1>2, <1>4, <1>6, <1>8, <3>1 DEF WaiterOK, Slots
    <3> QED
      BY <3>2, <3>3
  <2> QED
    BY <2>1, <2>2 DEF FaultsOK
<1>11. ReadersOK'
  <2>1. ASSUME slot_page["di"] # NoPage, page'[slot_page["di"]].busy
        PROVE  \E u \in FaultThreads : thread'[u].pc = "read" /\ thread'[u].area = "data"
    <3>1. page[slot_page["di"]].busy
      BY <1>4, <1>8, <2>1 DEF Slots
    <3>2. PICK u \in FaultThreads : thread[u].pc = "read" /\ thread[u].area = "data"
      BY <1>1, <2>1, <3>1 DEF FaultInv, ReadersOK
    <3> QED
      BY <1>5, <3>2
  <2>2. \A u, v \in FaultThreads : thread'[u].pc = "read" /\ thread'[v].pc = "read"
                              /\ thread'[u].area = thread'[v].area => u = v
    BY <1>1, <1>5 DEF FaultInv, ReadersOK
  <2> QED
    BY <1>6, <2>1, <2>2 DEF ReadersOK
<1>12. CountsOK'
  <2>1. ASSUME NEW q \in Pages
        PROVE  /\ \E i, j, k \in {-1, 0, 1} :
                    /\ Change(Mapped(q), Mapped(q)', i) /\ Change(Cached(q), Cached(q)', j)
                    /\ Change(Pinned(q), Pinned(q)', k)
                    /\ page'[q].ref_count + Lost(q)' >= page[q].ref_count + Lost(q) + i + j + k
               /\ q \in free' <=> page'[q].ref_count = 0
    <3>1. /\ Mapped(q)' \subseteq Mapped(q) /\ Cached(q)' \subseteq Cached(q)
          /\ Pinned(q)' \subseteq Pinned(q) \cup {t} /\ (q # p => Pinned(q)' \subseteq Pinned(q))
      BY <1>5, <1>6 DEF Mapped, Pinned, Cached
    <3>2. /\ Lost(q)' = Lost(q) /\ Lost(q) \in Nat /\ page[q].ref_count \in Nat
          /\ (q \in free <=> page[q].ref_count = 0) /\ (q = p => q \notin free)
      BY <1>1, <1>2, <1>6 DEF FaultInv, CountsOK, FaultTypeOK, Lost, Slots
    <3>3. Change(Mapped(q), Mapped(q)', 0) /\ Change(Cached(q), Cached(q)', 0)
      BY <3>1 DEF Change
    <3>4. CASE q = p
      <4>1. page'[q].ref_count = page[q].ref_count + 1 /\ Change(Pinned(q), Pinned(q)', 1)
        BY <1>4, <3>1, <3>4 DEF Change
      <4> QED
        BY <1>6, <3>2, <3>3, <3>4, <4>1
    <3>5. CASE q # p
      <4>1. page'[q].ref_count = page[q].ref_count /\ Change(Pinned(q), Pinned(q)', 0)
        BY <1>4, <3>1, <3>5 DEF Change
      <4> QED
        BY <1>6, <3>2, <3>3, <4>1
    <3> QED
      BY <3>4, <3>5
  <2>2. fault_machine' = "read_failed" =>
          /\ slot_page'["ti"] # NoPage
          /\ \A u \in FaultThreads : thread'[u].pc = "read" => thread'[u].area = "data"
    BY <1>1, <1>5, <1>6 DEF FaultInv, CountsOK
  <2>3. \A s \in Slots : slot_page'[s] \notin free'
    BY <1>1, <1>6 DEF FaultInv, CountsOK
  <2> QED
    BY <1>1, <1>7, <2>1, <2>2, <2>3, CountsStep
<1> QED
  BY <1>7, <1>9, <1>10, <1>11, <1>12, FaultInvSuffices DEF FaultInv

\* What a thread that reads a page of "data" knows when the read is over.
LEMMA DataReader ==
    ASSUME FaultIInv, NEW t \in FaultThreads, FaultsRun, thread[t].pc = "read", thread[t].area = "data"
    PROVE  /\ FaultTypeOK /\ FaultInv /\ "data" \in live_areas
           /\ thread[t].source \in Pages /\ thread[t].dummy \in Pages
           /\ thread[t].source = slot_page["di"] /\ thread[t].dummy = slot_page["dc"]
           /\ thread[t].source # thread[t].dummy
           /\ page[thread[t].source].busy /\ page[thread[t].dummy].busy
           /\ page[thread[t].source].ref_count = 1
           /\ \A s \in Slots \ {"di"} : slot_page[s] # thread[t].source
           /\ \A s \in Slots \ {"dc"} : slot_page[s] # thread[t].dummy
           /\ \A s \in Slots : slot_page[s] # NoPage => slot_page[s] \in Pages
           /\ \A a \in live_areas : pte[a].page # NoPage =>
                 pte[a].page \in Pages \ {thread[t].source, thread[t].dummy}
           /\ \A u \in FaultThreads \ {t} : thread[u].pc = "read" => thread[u].area = "text"
<1> USE PagesAssumption
<1>1. FaultTypeOK /\ FaultInv /\ ReaderOK(t)
  BY DEF FaultIInv, FaultInv, FaultsOK
<1>2. /\ "data" \in live_areas
      /\ thread[t].source \in Pages /\ thread[t].dummy \in Pages
      /\ thread[t].source = slot_page["di"] /\ thread[t].dummy = slot_page["dc"]
      /\ page[thread[t].source].busy /\ page[thread[t].dummy].busy
      /\ page[thread[t].source].ref_count = 1
  BY <1>1 DEF ReaderOK, FaultTypeOK
<1>3. /\ \A s \in Slots \ {"di"} : slot_page[s] # thread[t].source
      /\ \A s \in Slots \ {"dc"} : slot_page[s] # thread[t].dummy
  BY <1>1, <1>2 DEF FaultInv, CachesOK, Slots
<1>4. thread[t].source # thread[t].dummy
  BY <1>2, <1>3 DEF Slots
<1>5. \A a \in live_areas : pte[a].page # NoPage =>
         pte[a].page \in Pages \ {thread[t].source, thread[t].dummy}
  BY <1>1, <1>2 DEF FaultInv, MappingsOK, FaultTypeOK
<1>6. \A u \in FaultThreads \ {t} : thread[u].pc = "read" => thread[u].area = "text"
  BY <1>1 DEF FaultInv, FaultsOK, ReadersOK, ReaderOK
<1>7. \A s \in Slots : slot_page[s] # NoPage => slot_page[s] \in Pages
  BY <1>1 DEF FaultTypeOK
<1> QED
  BY <1>1, <1>2, <1>3, <1>4, <1>5, <1>6, <1>7

\* The page a read has filled.
LEMMA BusyCleared ==
    ASSUME NEW f \in [Pages -> [ref_count : Nat, busy : BOOLEAN, dirty : BOOLEAN, data : Data]],
           NEW p \in Pages, NEW g, g = [f EXCEPT ![p].busy = FALSE]
    PROVE  /\ g \in [Pages -> [ref_count : Nat, busy : BOOLEAN, dirty : BOOLEAN, data : Data]]
           /\ ~g[p].busy /\ g[p].data = f[p].data /\ g[p].dirty = f[p].dirty
           /\ g[p].ref_count = f[p].ref_count
           /\ \A q \in Pages \ {p} : g[q] = f[q]
OBVIOUS

LEMMA PageRead ==
    ASSUME FaultTypeOK, NEW p \in Pages, NEW pg,
           pg = [page EXCEPT ![p].data = "file", ![p].busy = FALSE]
    PROVE  /\ pg \in [Pages -> [ref_count : Nat, busy : BOOLEAN, dirty : BOOLEAN, data : Data]]
           /\ ~pg[p].busy /\ pg[p].data = "file" /\ pg[p].dirty = page[p].dirty
           /\ pg[p].ref_count = page[p].ref_count
           /\ \A q \in Pages \ {p} : pg[q] = page[q]
<1>1. PICK pg1 : pg1 = [page EXCEPT ![p].data = "file"]
  OBVIOUS
<1>2. /\ pg1 \in [Pages -> [ref_count : Nat, busy : BOOLEAN, dirty : BOOLEAN, data : Data]]
      /\ pg1[p].data = "file" /\ pg1[p].dirty = page[p].dirty
      /\ pg1[p].ref_count = page[p].ref_count
      /\ \A q \in Pages \ {p} : pg1[q] = page[q]
  BY <1>1 DEF FaultTypeOK, Data
<1>3. pg = [pg1 EXCEPT ![p].busy = FALSE]
  BY <1>1
<1>4. /\ pg \in [Pages -> [ref_count : Nat, busy : BOOLEAN, dirty : BOOLEAN, data : Data]]
      /\ ~pg[p].busy /\ pg[p].data = pg1[p].data /\ pg[p].dirty = pg1[p].dirty
      /\ pg[p].ref_count = pg1[p].ref_count
      /\ \A q \in Pages \ {p} : pg[q] = pg1[q]
  BY <1>2, <1>3, BusyCleared
<1> QED
  BY <1>2, <1>4

\* The end of a read for a store: the file's page is complete, the dummy is a
\* copy of it.
LEMMA ReadStoreDoneInv ==
    ASSUME FaultIInv, NEW t \in FaultThreads, ReadDone(t), thread[t].area = "data", thread[t].is_store
    PROVE  FaultIInv'
<1> USE PagesAssumption, AreasAssumption
<1>0. FaultsRun /\ thread[t].pc = "read"
  BY DEF ReadDone
<1>1. PICK p \in Pages, d \in Pages :
        /\ p = thread[t].source /\ d = thread[t].dummy /\ p # d
        /\ p = slot_page["di"] /\ d = slot_page["dc"]
        /\ page[p].busy /\ page[d].busy /\ page[p].ref_count = 1
        /\ \A s \in Slots \ {"di"} : slot_page[s] # p
        /\ \A s \in Slots \ {"dc"} : slot_page[s] # d
        /\ \A a \in live_areas : pte[a].page # NoPage => pte[a].page \in Pages \ {p, d}
  BY <1>0, DataReader
<1>2. /\ FaultTypeOK /\ FaultInv /\ "data" \in live_areas /\ p # NoPage /\ d # NoPage
      /\ \A s \in Slots : slot_page[s] # NoPage => slot_page[s] \in Pages
      /\ \A u \in FaultThreads \ {t} : thread[u].pc = "read" => thread[u].area = "text"
  BY <1>0, DataReader
<1>3. PICK pg : pg = [page EXCEPT ![p].data = "file", ![p].busy = FALSE]
  OBVIOUS
<1>4. /\ page' = inc_page_ref([pg EXCEPT ![d].busy = FALSE, ![d].data = pg[p].data], d)
      /\ slot_page' = [slot_page EXCEPT !["di"] = p, !["dc"] = d]
      /\ thread' = [thread EXCEPT ![t] = WaitFor("data", TRUE, d)]
      /\ UNCHANGED <<free, pte, live_areas, fault_machine>>
  BY <1>1, <1>3 DEF ReadDone, CowStore
<1>5. /\ ~page'[p].busy /\ page'[p].data = "file" /\ page'[p].dirty = page[p].dirty
      /\ page'[p].ref_count = page[p].ref_count
      /\ ~page'[d].busy /\ page'[d].data = "file" /\ page'[d].ref_count = page[d].ref_count + 1
      /\ \A q \in Pages \ {p, d} : page'[q] = page[q]
      /\ page' \in [Pages -> [ref_count : Nat, busy : BOOLEAN, dirty : BOOLEAN, data : Data]]
  <2>1. /\ pg \in [Pages -> [ref_count : Nat, busy : BOOLEAN, dirty : BOOLEAN, data : Data]]
        /\ pg[d] = page[d] /\ ~pg[p].busy /\ pg[p].data = "file" /\ pg[p].dirty = page[p].dirty
        /\ pg[p].ref_count = page[p].ref_count
        /\ \A q \in Pages \ {p, d} : pg[q] = page[q]
    BY <1>1, <1>2, <1>3, PageRead
  <2>2. PICK pg1 : pg1 = [pg EXCEPT ![d].busy = FALSE]
    OBVIOUS
  <2>3. /\ pg1 \in [Pages -> [ref_count : Nat, busy : BOOLEAN, dirty : BOOLEAN, data : Data]]
        /\ ~pg1[d].busy /\ pg1[d].ref_count = page[d].ref_count
        /\ \A q \in Pages \ {d} : pg1[q] = pg[q]
    BY <2>1, <2>2
  <2>4. page' = [[pg1 EXCEPT ![d].data = pg[p].data] EXCEPT ![d].ref_count = @ + 1]
    BY <1>4, <2>2 DEF inc_page_ref
  <2>5. /\ page'[d].data = "file" /\ ~page'[d].busy /\ page'[d].ref_count = page[d].ref_count + 1
        /\ \A q \in Pages \ {d} : page'[q] = pg[q]
        /\ page' \in [Pages -> [ref_count : Nat, busy : BOOLEAN, dirty : BOOLEAN, data : Data]]
    BY <2>1, <2>3, <2>4 DEF Data
  <2> QED
    BY <1>1, <2>1, <2>5
<1>6. /\ thread'[t].pc = "wait" /\ thread'[t].area = "data" /\ thread'[t].source = d
      /\ \A u \in FaultThreads \ {t} : thread'[u] = thread[u]
      /\ thread' \in [FaultThreads -> [pc : {"user", "read", "wait"}, area : AllAreas,
                                       is_store : BOOLEAN, source : Pages \cup {NoPage},
                                       dummy : Pages \cup {NoPage}]]
  BY <1>2, <1>4 DEF FaultTypeOK, AllAreas, WaitFor
<1>7. slot_page' = slot_page /\ free' = free /\ pte' = pte /\ live_areas' = live_areas /\ fault_machine' = fault_machine
  BY <1>1, <1>2, <1>4 DEF FaultTypeOK, Slots
<1>8. FaultTypeOK'
  BY <1>2, <1>5, <1>6, <1>7 DEF FaultTypeOK
<1>9. CachesOK' /\ MappingsOK'
  BY <1>1, <1>2, <1>5, <1>7 DEF FaultInv, CachesOK, MappingsOK, Slots, FileSlots
<1>10. FaultsOK'
  <2>1. ReaderOK(t)' /\ WaiterOK(t)'
    BY <1>1, <1>2, <1>6, <1>7 DEF ReaderOK, WaiterOK
  <2>2. ASSUME NEW u \in FaultThreads \ {t} PROVE ReaderOK(u)' /\ WaiterOK(u)'
    <3>1. /\ ReaderOK(u) /\ WaiterOK(u) /\ thread'[u] = thread[u]
          /\ thread[u].source # NoPage => thread[u].source \in Pages
          /\ thread[u].pc = "read" => thread[u].area = "text"
      BY <1>2, <1>6 DEF FaultInv, FaultsOK, FaultTypeOK
    <3>2. ReaderOK(u)'
      BY <1>1, <1>5, <1>7, <3>1 DEF ReaderOK, Slots
    <3>3. WaiterOK(u)'
      BY <1>1, <1>5, <1>7, <3>1 DEF WaiterOK, Slots
    <3> QED
      BY <3>2, <3>3
  <2> QED
    BY <2>1, <2>2 DEF FaultsOK
<1>11. ReadersOK'
  BY <1>1, <1>2, <1>5, <1>6, <1>7 DEF FaultInv, ReadersOK
<1>12. CountsOK'
  <2>1. ASSUME NEW q \in Pages
        PROVE  /\ \E i, j, k \in {-1, 0, 1} :
                    /\ Change(Mapped(q), Mapped(q)', i) /\ Change(Cached(q), Cached(q)', j)
                    /\ Change(Pinned(q), Pinned(q)', k)
                    /\ page'[q].ref_count + Lost(q)' >= page[q].ref_count + Lost(q) + i + j + k
               /\ q \in free' <=> page'[q].ref_count = 0
    <3>1. /\ Mapped(q)' \subseteq Mapped(q) /\ Cached(q)' \subseteq Cached(q)
          /\ Pinned(q)' \subseteq Pinned(q) \cup {t} /\ (q # d => Pinned(q)' \subseteq Pinned(q))
      BY <1>6, <1>7 DEF Mapped, Pinned, Cached
    <3>2. /\ Lost(q)' = Lost(q) /\ Lost(q) \in Nat /\ page[q].ref_count \in Nat
          /\ (q \in free <=> page[q].ref_count = 0) /\ (q = d => q \notin free)
      BY <1>1, <1>2, <1>7 DEF FaultInv, CountsOK, FaultTypeOK, Lost, Slots
    <3>3. Change(Mapped(q), Mapped(q)', 0) /\ Change(Cached(q), Cached(q)', 0)
      BY <3>1 DEF Change
    <3>4. CASE q = d
      <4>1. page'[q].ref_count = page[q].ref_count + 1 /\ Change(Pinned(q), Pinned(q)', 1)
        BY <1>5, <3>1, <3>4 DEF Change
      <4> QED
        BY <1>7, <3>2, <3>3, <3>4, <4>1
    <3>5. CASE q # d
      <4>1. page'[q].ref_count = page[q].ref_count /\ Change(Pinned(q), Pinned(q)', 0)
        BY <1>5, <3>1, <3>5 DEF Change
      <4> QED
        BY <1>7, <3>2, <3>3, <4>1
    <3> QED
      BY <3>4, <3>5
  <2>2. fault_machine' = "read_failed" =>
          /\ slot_page'["ti"] # NoPage
          /\ \A u \in FaultThreads : thread'[u].pc = "read" => thread'[u].area = "data"
    BY <1>2, <1>6, <1>7 DEF FaultInv, CountsOK
  <2>3. \A s \in Slots : slot_page'[s] \notin free'
    BY <1>2, <1>7 DEF FaultInv, CountsOK
  <2> QED
    BY <1>2, <1>8, <2>1, <2>2, <2>3, CountsStep
<1> QED
  BY <1>8, <1>9, <1>10, <1>11, <1>12, FaultInvSuffices DEF FaultInv

\* The end of a read for a load: the dummy leaves the cache, still busy, and is
\* freed unless other faults have found it.
LEMMA ReadLoadDoneInv ==
    ASSUME FaultIInv, NEW t \in FaultThreads, ReadDone(t), thread[t].area = "data", ~thread[t].is_store
    PROVE  FaultIInv'
<1> USE PagesAssumption, AreasAssumption
<1>0. FaultsRun /\ thread[t].pc = "read"
  BY DEF ReadDone
<1>1. PICK p \in Pages, d \in Pages :
        /\ p = thread[t].source /\ d = thread[t].dummy /\ p # d
        /\ p = slot_page["di"] /\ d = slot_page["dc"]
        /\ page[p].busy /\ page[d].busy /\ page[p].ref_count = 1
        /\ \A s \in Slots \ {"di"} : slot_page[s] # p
        /\ \A s \in Slots \ {"dc"} : slot_page[s] # d
        /\ \A a \in live_areas : pte[a].page # NoPage => pte[a].page \in Pages \ {p, d}
  BY <1>0, DataReader
<1>2. /\ FaultTypeOK /\ FaultInv /\ "data" \in live_areas /\ p # NoPage /\ d # NoPage
      /\ \A s \in Slots : slot_page[s] # NoPage => slot_page[s] \in Pages
      /\ \A u \in FaultThreads \ {t} : thread[u].pc = "read" => thread[u].area = "text"
      /\ d \notin free /\ page[d].ref_count \in Nat \ {0}
  <2>1. FaultTypeOK /\ FaultInv
    BY <1>0 DEF FaultIInv
  <2>2. d \notin free /\ page[d].ref_count # 0 /\ page[d].ref_count \in Nat
    BY <1>1, <2>1 DEF FaultInv, CountsOK, FaultTypeOK, Slots
  <2> QED
    BY <1>0, <2>2, DataReader
<1>3. PICK pg : pg = [page EXCEPT ![p].data = "file", ![p].busy = FALSE]
  OBVIOUS
<1>4. /\ page' = inc_page_ref(dec_page_ref(pg, d), p) /\ free' = free \cup Freed(pg, d)
      /\ slot_page' = [slot_page EXCEPT !["di"] = p, !["dc"] = NoPage]
      /\ thread' = [thread EXCEPT ![t] = WaitFor("data", FALSE, p)]
      /\ UNCHANGED <<pte, live_areas, fault_machine>>
  BY <1>1, <1>3 DEF ReadDone, CowLoad
<1>5. /\ ~page'[p].busy /\ page'[p].data = "file" /\ page'[p].dirty = page[p].dirty
      /\ page'[p].ref_count = 2
      /\ page'[d].busy /\ page'[d].ref_count = page[d].ref_count - 1
      /\ \A q \in Pages \ {p, d} : page'[q] = page[q]
      /\ page' \in [Pages -> [ref_count : Nat, busy : BOOLEAN, dirty : BOOLEAN, data : Data]]
  <2>1. pg \in [Pages -> [ref_count : Nat, busy : BOOLEAN, dirty : BOOLEAN, data : Data]]
    BY <1>2, <1>3, PageRead
  <2>2. /\ pg[d] = page[d] /\ ~pg[p].busy /\ pg[p].data = "file" /\ pg[p].dirty = page[p].dirty
        /\ pg[p].ref_count = 1 /\ \A q \in Pages \ {p, d} : pg[q] = page[q]
    BY <1>1, <1>2, <1>3, PageRead
  <2>3. page' = [[pg EXCEPT ![d].ref_count = @ - 1] EXCEPT ![p].ref_count = @ + 1]
    BY <1>4 DEF inc_page_ref, dec_page_ref
  <2>4. pg[d].ref_count - 1 \in Nat
    BY <1>2, <2>2
  <2> QED
    BY <1>1, <2>1, <2>2, <2>3, <2>4
<1>6. free' = free \cup (IF page[d].ref_count = 1 THEN {d} ELSE {})
  <2>1. pg[d].ref_count = page[d].ref_count
    BY <1>1, <1>2, <1>3 DEF FaultTypeOK
  <2> QED
    BY <1>4, <2>1 DEF Freed
<1>7. /\ thread'[t].pc = "wait" /\ thread'[t].area = "data" /\ thread'[t].source = p /\ ~thread'[t].is_store
      /\ \A u \in FaultThreads \ {t} : thread'[u] = thread[u]
      /\ thread' \in [FaultThreads -> [pc : {"user", "read", "wait"}, area : AllAreas,
                                       is_store : BOOLEAN, source : Pages \cup {NoPage},
                                       dummy : Pages \cup {NoPage}]]
  BY <1>2, <1>4 DEF FaultTypeOK, AllAreas, WaitFor
<1>8. /\ slot_page'["dc"] = NoPage /\ slot_page' \in [Slots -> Pages \cup {NoPage}]
      /\ \A s \in Slots \ {"dc"} : slot_page'[s] = slot_page[s]
      /\ pte' = pte /\ live_areas' = live_areas /\ fault_machine' = fault_machine
  BY <1>1, <1>2, <1>4 DEF FaultTypeOK, Slots
<1>9. FaultTypeOK'
  BY <1>2, <1>5, <1>6, <1>7, <1>8 DEF FaultTypeOK
<1>10. CachesOK' /\ MappingsOK'
  BY <1>1, <1>2, <1>5, <1>8 DEF FaultInv, CachesOK, MappingsOK, Slots, FileSlots
<1>11. FaultsOK'
  <2>1. ReaderOK(t)' /\ WaiterOK(t)'
    BY <1>1, <1>2, <1>5, <1>7, <1>8 DEF ReaderOK, WaiterOK, Slots
  <2>2. ASSUME NEW u \in FaultThreads \ {t} PROVE ReaderOK(u)' /\ WaiterOK(u)'
    <3>1. /\ ReaderOK(u) /\ WaiterOK(u) /\ thread'[u] = thread[u]
          /\ thread[u].source # NoPage => thread[u].source \in Pages
          /\ thread[u].pc = "read" => thread[u].area = "text"
      BY <1>2, <1>7 DEF FaultInv, FaultsOK, FaultTypeOK
    <3>2. ReaderOK(u)'
      BY <1>1, <1>5, <1>8, <3>1 DEF ReaderOK, Slots
    <3>3. WaiterOK(u)'
      BY <1>1, <1>2, <1>5, <1>8, <3>1 DEF WaiterOK, Slots
    <3> QED
      BY <3>2, <3>3
  <2> QED
    BY <2>1, <2>2 DEF FaultsOK
<1>12. ReadersOK'
  BY <1>1, <1>2, <1>5, <1>7, <1>8 DEF FaultInv, ReadersOK, Slots
<1>13. CountsOK'
  <2>1. ASSUME NEW q \in Pages
        PROVE  /\ \E i, j, k \in {-1, 0, 1} :
                    /\ Change(Mapped(q), Mapped(q)', i) /\ Change(Cached(q), Cached(q)', j)
                    /\ Change(Pinned(q), Pinned(q)', k)
                    /\ page'[q].ref_count + Lost(q)' >= page[q].ref_count + Lost(q) + i + j + k
               /\ q \in free' <=> page'[q].ref_count = 0
    <3>1. /\ Mapped(q)' \subseteq Mapped(q) /\ Cached(q)' \subseteq Cached(q)
          /\ q = d => "dc" \in Cached(q) /\ Cached(q)' \subseteq Cached(q) \ {"dc"}
          /\ Pinned(q)' \subseteq Pinned(q) \cup {t} /\ (q # p => Pinned(q)' \subseteq Pinned(q))
      BY <1>1, <1>2, <1>7, <1>8 DEF Mapped, Pinned, Cached, Slots
    <3>2. /\ Lost(q)' = Lost(q) /\ Lost(q) \in Nat /\ page[q].ref_count \in Nat
          /\ (q \in free <=> page[q].ref_count = 0)
      BY <1>2, <1>8 DEF FaultInv, CountsOK, FaultTypeOK, Lost, Slots
    <3>3. Change(Mapped(q), Mapped(q)', 0)
      BY <3>1 DEF Change
    <3>4. CASE q = p
      <4>1. /\ page'[q].ref_count = 2 /\ page[q].ref_count = 1 /\ (q \in free' <=> q \in free)
            /\ Change(Pinned(q), Pinned(q)', 1) /\ Change(Cached(q), Cached(q)', 0)
        BY <1>1, <1>5, <1>6, <3>1, <3>4 DEF Change
      <4> QED
        BY <3>2, <3>3, <4>1
    <3>5. CASE q = d
      <4>1. /\ page'[q].ref_count = page[q].ref_count - 1 /\ (q \in free' <=> page[q].ref_count = 1)
            /\ Change(Pinned(q), Pinned(q)', 0) /\ Change(Cached(q), Cached(q)', -1)
        BY <1>1, <1>2, <1>5, <1>6, <3>1, <3>5 DEF Change
      <4> QED
        BY <3>2, <3>3, <4>1
    <3>6. CASE q \notin {p, d}
      <4>1. /\ page'[q].ref_count = page[q].ref_count /\ (q \in free' <=> q \in free)
            /\ Change(Pinned(q), Pinned(q)', 0) /\ Change(Cached(q), Cached(q)', 0)
        BY <1>5, <1>6, <3>1, <3>6 DEF Change
      <4> QED
        BY <3>2, <3>3, <4>1
    <3> QED
      BY <3>4, <3>5, <3>6
  <2>2. fault_machine' = "read_failed" =>
          /\ slot_page'["ti"] # NoPage
          /\ \A u \in FaultThreads : thread'[u].pc = "read" => thread'[u].area = "data"
    BY <1>2, <1>7, <1>8 DEF FaultInv, CountsOK, Slots
  <2>3. \A s \in Slots : slot_page'[s] \notin free'
    <3>1. NoPage \notin free'
      BY <1>2, <1>6 DEF FaultTypeOK
    <3> QED
      BY <1>1, <1>2, <1>6, <1>8, <3>1 DEF FaultInv, CountsOK
  <2> QED
    BY <1>2, <1>9, <2>1, <2>2, <2>3, CountsStep
<1> QED
  BY <1>9, <1>10, <1>11, <1>12, <1>13, FaultInvSuffices DEF FaultInv

LEMMA ReadDoneInv ==
    ASSUME FaultIInv, NEW t \in FaultThreads, ReadDone(t)
    PROVE  FaultIInv'
<1>1. \/ thread[t].area = "text"
      \/ thread[t].area = "data" /\ thread[t].is_store
      \/ thread[t].area = "data" /\ ~thread[t].is_store
  BY DEF ReadDone
<1> QED
  BY <1>1, ReadTextDoneInv, ReadStoreDoneInv, ReadLoadDoneInv

\* A page of "text" that could not be read: other faults may keep it, and wait
\* for it.
LEMMA ReadTextFailsInv ==
    ASSUME FaultIInv, NEW t \in FaultThreads, ReadFails(t), thread[t].area = "text"
    PROVE  FaultIInv'
<1> USE PagesAssumption, AreasAssumption
<1>1. FaultTypeOK /\ FaultInv /\ FaultsRun /\ thread[t].pc = "read"
  BY DEF FaultIInv, ReadFails
<1>2. PICK p \in Pages :
        /\ p = thread[t].source /\ p = slot_page["ti"] /\ p # NoPage /\ page[p].busy
        /\ thread[t].dummy = NoPage
  BY <1>1 DEF FaultInv, FaultsOK, ReaderOK, FaultTypeOK
<1>3. /\ page' = [page EXCEPT ![p].ref_count = @ - 1]
      /\ free' = free \cup Freed(page, p)
      /\ thread' = [thread EXCEPT ![t] = Idle]
      /\ fault_machine' = IF Freed(page, p) = {} THEN "read_failed" ELSE "corrupt"
      /\ UNCHANGED <<slot_page, pte, live_areas>>
  BY <1>2 DEF ReadFails, dec_page_ref
<1>4. p \notin free /\ page[p].ref_count \in Nat \ {0} /\ fault_machine = "running"
  BY <1>1, <1>2 DEF FaultInv, CountsOK, FaultTypeOK, FaultsRun, Slots
<1>5. /\ \A q \in Pages : /\ page'[q].busy = page[q].busy /\ page'[q].dirty = page[q].dirty
                          /\ page'[q].data = page[q].data
      /\ page'[p].ref_count = page[p].ref_count - 1
      /\ \A q \in Pages \ {p} : page'[q].ref_count = page[q].ref_count
      /\ page' \in [Pages -> [ref_count : Nat, busy : BOOLEAN, dirty : BOOLEAN, data : Data]]
  <2>1. page[p].ref_count - 1 \in Nat
    BY <1>4
  <2> QED
    BY <1>1, <1>3, <2>1 DEF FaultTypeOK
<1>6. /\ thread'[t].pc = "user"
      /\ \A u \in FaultThreads \ {t} : thread'[u] = thread[u]
      /\ thread' \in [FaultThreads -> [pc : {"user", "read", "wait"}, area : AllAreas,
                                       is_store : BOOLEAN, source : Pages \cup {NoPage},
                                       dummy : Pages \cup {NoPage}]]
  BY <1>1, <1>3 DEF FaultTypeOK, AllAreas, Idle
<1>7. slot_page' = slot_page /\ pte' = pte /\ live_areas' = live_areas
  BY <1>3
<1>8. FaultTypeOK'
  <2>1. free' \subseteq Pages /\ fault_machine' \in {"read_failed", "corrupt"}
    BY <1>1, <1>3 DEF FaultTypeOK, Freed
  <2> QED
    BY <1>1, <1>5, <1>6, <1>7, <2>1 DEF FaultTypeOK
<1>9. /\ \A s \in Slots : slot_page[s] # NoPage => slot_page[s] \in Pages
      /\ \A a \in live_areas : pte[a].page # NoPage => pte[a].page \in Pages
      /\ \A s \in Slots \ {"ti"} : slot_page[s] # p
  BY <1>1, <1>2 DEF FaultTypeOK, FaultInv, CachesOK, Slots
<1>10. CachesOK' /\ MappingsOK'
  BY <1>1, <1>5, <1>7, <1>9 DEF FaultInv, CachesOK, MappingsOK, Slots, FileSlots
<1>11. CASE page[p].ref_count = 1
  <2>1. ~FaultsRun'
    BY <1>3, <1>11 DEF Freed, FaultsRun
  <2> QED
    BY <1>8, <1>10, <2>1, SafePagesNext DEF FaultIInv
<1>12. CASE page[p].ref_count # 1
  <2>1. fault_machine' = "read_failed" /\ free' = free
    BY <1>3, <1>12 DEF Freed
  <2>2. FaultsOK'
    <3>1. ReaderOK(t)' /\ WaiterOK(t)'
      BY <1>6 DEF ReaderOK, WaiterOK
    <3>2. ASSUME NEW u \in FaultThreads \ {t} PROVE ReaderOK(u)' /\ WaiterOK(u)'
      <4>1. /\ ReaderOK(u) /\ WaiterOK(u) /\ thread'[u] = thread[u]
            /\ thread[u].source # NoPage => thread[u].source \in Pages
            /\ thread[u].dummy # NoPage => thread[u].dummy \in Pages
        BY <1>1, <1>6 DEF FaultInv, FaultsOK, FaultTypeOK
      <4>2. ReaderOK(u)'
        BY <1>5, <1>7, <1>9, <4>1 DEF ReaderOK, Slots
      <4>3. WaiterOK(u)'
        BY <1>5, <1>7, <1>9, <4>1 DEF WaiterOK, Slots
      <4> QED
        BY <4>2, <4>3
    <3> QED
      BY <3>1, <3>2 DEF FaultsOK
  <2>3. ReadersOK'
    <3>1. ASSUME slot_page["di"] # NoPage, page'[slot_page["di"]].busy
          PROVE  \E u \in FaultThreads : thread'[u].pc = "read" /\ thread'[u].area = "data"
      <4>1. page[slot_page["di"]].busy
        BY <1>5, <1>9, <3>1 DEF Slots
      <4>2. PICK u \in FaultThreads : thread[u].pc = "read" /\ thread[u].area = "data"
        BY <1>1, <3>1, <4>1 DEF FaultInv, ReadersOK
      <4> QED
        BY <1>6, <4>2
    <3>2. \A u, v \in FaultThreads : thread'[u].pc = "read" /\ thread'[v].pc = "read"
                                /\ thread'[u].area = thread'[v].area => u = v
      BY <1>1, <1>6 DEF FaultInv, ReadersOK
    <3> QED
      BY <1>7, <3>1, <3>2 DEF ReadersOK
  <2>4. CountsOK'
    <3>1. ASSUME NEW q \in Pages
          PROVE  /\ \E i, j, k \in {-1, 0, 1} :
                      /\ Change(Mapped(q), Mapped(q)', i) /\ Change(Cached(q), Cached(q)', j)
                      /\ Change(Pinned(q), Pinned(q)', k)
                      /\ page'[q].ref_count + Lost(q)' >= page[q].ref_count + Lost(q) + i + j + k
                 /\ q \in free' <=> page'[q].ref_count = 0
      <4>1. /\ Mapped(q)' \subseteq Mapped(q) /\ Cached(q)' \subseteq Cached(q)
            /\ Pinned(q)' \subseteq Pinned(q)
        BY <1>6, <1>7 DEF Mapped, Pinned, Cached
      <4>2. /\ Lost(q) = 0 /\ Lost(q)' = (IF q = p THEN 1 ELSE 0) /\ page[q].ref_count \in Nat
            /\ (q \in free <=> page[q].ref_count = 0)
        BY <1>1, <1>2, <1>4, <1>7, <2>1 DEF FaultInv, CountsOK, FaultTypeOK, Lost
      <4>3. /\ Change(Mapped(q), Mapped(q)', 0) /\ Change(Cached(q), Cached(q)', 0)
            /\ Change(Pinned(q), Pinned(q)', 0)
        BY <4>1 DEF Change
      <4>4. page'[q].ref_count + Lost(q)' >= page[q].ref_count + Lost(q) + 0 + 0 + 0
        BY <1>4, <1>5, <4>2
      <4>5. q \in free' <=> page'[q].ref_count = 0
        BY <1>4, <1>5, <1>12, <2>1, <4>2
      <4> QED
        BY <4>3, <4>4, <4>5
    <3>2. \A u \in FaultThreads : thread'[u].pc = "read" => thread'[u].area = "data"
      <4>1. ASSUME NEW u \in FaultThreads \ {t}, thread[u].pc = "read" PROVE thread[u].area = "data"
        BY <1>1, <4>1 DEF FaultInv, FaultsOK, ReaderOK, ReadersOK
      <4> QED
        BY <1>6, <4>1
    <3>3. slot_page'["ti"] # NoPage /\ \A s \in Slots : slot_page'[s] \notin free'
      BY <1>1, <1>2, <1>7, <2>1 DEF FaultInv, CountsOK
    <3> QED
      BY <1>1, <1>8, <3>1, <3>2, <3>3, CountsStep
  <2> QED
    BY <1>8, <1>10, <2>2, <2>3, <2>4, FaultInvSuffices DEF FaultInv
<1> QED
  BY <1>11, <1>12

\* A page of "data" that could not be read: nobody else has it, it is freed in
\* the cache's list, and what is said of the lists ends.
LEMMA ReadDataFailsInv ==
    ASSUME FaultIInv, NEW t \in FaultThreads, ReadFails(t), thread[t].area = "data"
    PROVE  FaultIInv'
<1> USE PagesAssumption, AreasAssumption
<1>0. FaultsRun /\ thread[t].pc = "read"
  BY DEF ReadFails
<1>1. PICK p \in Pages, d \in Pages :
        /\ p = thread[t].source /\ d = thread[t].dummy /\ p # d
        /\ p = slot_page["di"] /\ d = slot_page["dc"]
        /\ page[p].busy /\ page[d].busy /\ page[p].ref_count = 1
        /\ \A a \in live_areas : pte[a].page # NoPage => pte[a].page \in Pages \ {p, d}
  BY <1>0, DataReader
<1>2. FaultTypeOK /\ FaultInv /\ d # NoPage
  BY <1>0 DEF FaultIInv
<1>3. page[d].ref_count \in Nat \ {0}
  BY <1>1, <1>2 DEF FaultInv, CountsOK, FaultTypeOK, Slots
<1>4. PICK pg : pg = [page EXCEPT ![p].ref_count = @ - 1]
  OBVIOUS
<1>5. /\ page' = [pg EXCEPT ![d].ref_count = @ - 1]
      /\ free' = free \cup Freed(page, p) \cup Freed(pg, d)
      /\ slot_page' = [slot_page EXCEPT !["dc"] = NoPage]
      /\ thread' = [thread EXCEPT ![t] = Idle]
      /\ fault_machine' = "corrupt"
      /\ UNCHANGED <<pte, live_areas>>
  BY <1>1, <1>2, <1>4 DEF ReadFails, dec_page_ref, Freed, TopSlot
<1>6. /\ pg \in [Pages -> [ref_count : Nat, busy : BOOLEAN, dirty : BOOLEAN, data : Data]]
      /\ pg[d] = page[d]
      /\ \A q \in Pages : /\ pg[q].busy = page[q].busy /\ pg[q].dirty = page[q].dirty
                          /\ pg[q].data = page[q].data
  BY <1>1, <1>2, <1>4 DEF FaultTypeOK
<1>7. /\ page' \in [Pages -> [ref_count : Nat, busy : BOOLEAN, dirty : BOOLEAN, data : Data]]
      /\ \A q \in Pages : /\ page'[q].busy = pg[q].busy /\ page'[q].dirty = pg[q].dirty
                          /\ page'[q].data = pg[q].data
  <2>1. pg[d].ref_count - 1 \in Nat
    BY <1>3, <1>6
  <2> QED
    BY <1>5, <1>6, <2>1
<1>8. /\ slot_page'["dc"] = NoPage /\ slot_page' \in [Slots -> Pages \cup {NoPage}]
      /\ \A s \in Slots \ {"dc"} : slot_page'[s] = slot_page[s]
      /\ pte' = pte /\ live_areas' = live_areas
  BY <1>2, <1>5 DEF FaultTypeOK, Slots
<1>9. FaultTypeOK'
  <2>1. free' \subseteq Pages
    BY <1>1, <1>2, <1>5 DEF FaultTypeOK, Freed
  <2>2. thread' \in [FaultThreads -> [pc : {"user", "read", "wait"}, area : AllAreas,
                                      is_store : BOOLEAN, source : Pages \cup {NoPage},
                                      dummy : Pages \cup {NoPage}]]
    BY <1>2, <1>5 DEF FaultTypeOK, AllAreas, Idle
  <2> QED
    BY <1>2, <1>5, <1>7, <1>8, <2>1, <2>2 DEF FaultTypeOK
<1>10. CachesOK' /\ MappingsOK'
  <2>1. \A s \in Slots : slot_page[s] # NoPage => slot_page[s] \in Pages
    BY <1>2 DEF FaultTypeOK
  <2> QED
    BY <1>1, <1>2, <1>6, <1>7, <1>8, <2>1 DEF FaultInv, CachesOK, MappingsOK, Slots, FileSlots
<1> QED
  BY <1>5, <1>9, <1>10, SafePagesNext DEF FaultIInv, FaultsRun

LEMMA ReadFailsInv ==
    ASSUME FaultIInv, NEW t \in FaultThreads, ReadFails(t)
    PROVE  FaultIInv'
<1>1. thread[t].area \in {"text", "data"}
  BY DEF ReadFails, FaultIInv, FaultInv, FaultsOK, ReaderOK
<1> QED
  BY <1>1, ReadTextFailsInv, ReadDataFailsInv

\* The page is finished: the fault's reference becomes the translation's.
LEMMA MapPageInv ==
    ASSUME FaultIInv, NEW t \in FaultThreads, MapPage(t)
    PROVE  FaultIInv'
<1> USE PagesAssumption, AreasAssumption
<1>1. FaultTypeOK /\ FaultInv /\ FaultsRun /\ thread[t].pc = "wait" /\ WaiterOK(t)
  BY DEF FaultIInv, FaultInv, FaultsOK, MapPage
<1>2. PICK p \in Pages, a \in live_areas, is_store \in BOOLEAN :
        p = thread[t].source /\ a = thread[t].area /\ is_store = thread[t].is_store
  BY <1>1 DEF WaiterOK, FaultTypeOK
<1>3. /\ ~page[p].busy
      /\ is_store => a # "text"
      /\ a = "text" => p = slot_page["ti"]
      /\ a = "stack" => p = slot_page["sa"]
      /\ a = "data" => p = slot_page["dc"] \/ (p = slot_page["di"] /\ ~is_store)
  BY <1>1, <1>2 DEF WaiterOK, MapPage, NotBusy
<1>4. PICK w \in BOOLEAN :
        /\ w = (a # "text" /\ (page[p].dirty \/ is_store))
        /\ page' = [page EXCEPT ![p].dirty = @ \/ is_store]
        /\ pte' = [pte EXCEPT ![a] = [page |-> p, writable |-> w]]
        /\ thread' = [thread EXCEPT ![t] = Idle]
  BY <1>2 DEF MapPage, PageWritable, Writable
<1>5. slot_page' = slot_page /\ free' = free /\ live_areas' = live_areas /\ fault_machine' = fault_machine
  BY DEF MapPage
<1>6. /\ \A q \in Pages : /\ page'[q].busy = page[q].busy /\ page'[q].data = page[q].data
                          /\ page'[q].ref_count = page[q].ref_count
                          /\ (q # p \/ ~is_store) => page'[q].dirty = page[q].dirty
      /\ page' \in [Pages -> [ref_count : Nat, busy : BOOLEAN, dirty : BOOLEAN, data : Data]]
  <2>1. page[p].dirty \in BOOLEAN /\ (~is_store => (page[p].dirty \/ is_store) = page[p].dirty)
    BY <1>1 DEF FaultTypeOK
  <2>2. PICK b \in BOOLEAN : b = (page[p].dirty \/ is_store) /\ (~is_store => b = page[p].dirty)
    BY <2>1
  <2>3. page' = [page EXCEPT ![p].dirty = b]
    BY <1>4, <2>2
  <2> QED
    BY <1>1, <2>2, <2>3 DEF FaultTypeOK
<1>7. /\ thread'[t].pc = "user"
      /\ \A u \in FaultThreads \ {t} : thread'[u] = thread[u]
      /\ thread' \in [FaultThreads -> [pc : {"user", "read", "wait"}, area : AllAreas,
                                       is_store : BOOLEAN, source : Pages \cup {NoPage},
                                       dummy : Pages \cup {NoPage}]]
  BY <1>1, <1>4 DEF FaultTypeOK, AllAreas, Idle
<1>8. /\ pte'[a].page = p /\ pte'[a].writable = w
      /\ \A x \in live_areas \ {a} : pte'[x] = pte[x]
      /\ pte' \in [Areas -> [page : Pages \cup {NoPage}, writable : BOOLEAN]]
  BY <1>1, <1>4 DEF FaultTypeOK
<1>9. FaultTypeOK'
  BY <1>1, <1>5, <1>6, <1>7, <1>8 DEF FaultTypeOK
<1>10. /\ \A s \in Slots : slot_page[s] # NoPage => slot_page[s] \in Pages
       /\ \A x \in live_areas : x \in AllAreas /\ (pte[x].page # NoPage => pte[x].page \in Pages)
  BY <1>1 DEF FaultTypeOK
<1>11. is_store => \A s \in FileSlots : slot_page[s] # p
  BY <1>1, <1>3, <1>10 DEF FaultInv, CachesOK, Slots, FileSlots, AllAreas
<1>12. CachesOK'
  BY <1>1, <1>5, <1>6, <1>10, <1>11 DEF FaultInv, CachesOK, Slots, FileSlots
<1>13. MappingsOK'
  <2>1. ASSUME NEW x \in live_areas, pte'[x].page # NoPage
        PROVE  /\ ~page'[pte'[x].page].busy
               /\ x = "text" => pte'[x].page = slot_page["ti"] /\ ~pte'[x].writable
               /\ x = "data" => \/ pte'[x].page = slot_page["dc"]
                                \/ pte'[x].page = slot_page["di"] /\ ~pte'[x].writable
               /\ x = "stack" => pte'[x].page = slot_page["sa"]
    <3>1. CASE x = a
      <4>1. p = slot_page["di"] => ~page[p].dirty
        BY <1>1 DEF FaultInv, CachesOK, FileSlots
      <4> QED
        BY <1>3, <1>4, <1>6, <1>8, <3>1, <4>1
    <3>2. CASE x # a
      BY <1>1, <1>6, <1>8, <1>10, <2>1, <3>2 DEF FaultInv, MappingsOK
    <3> QED
      BY <3>1, <3>2
  <2> QED
    BY <1>5, <2>1 DEF MappingsOK
<1>14. FaultsOK'
  <2>1. ReaderOK(t)' /\ WaiterOK(t)'
    BY <1>7 DEF ReaderOK, WaiterOK
  <2>2. ASSUME NEW u \in FaultThreads \ {t} PROVE ReaderOK(u)' /\ WaiterOK(u)'
    <3>1. /\ ReaderOK(u) /\ WaiterOK(u) /\ thread'[u] = thread[u]
          /\ thread[u].source # NoPage => thread[u].source \in Pages
          /\ thread[u].dummy # NoPage => thread[u].dummy \in Pages
      BY <1>1, <1>7 DEF FaultInv, FaultsOK, FaultTypeOK
    <3>2. ReaderOK(u)'
      BY <1>5, <1>6, <3>1 DEF ReaderOK
    <3>3. WaiterOK(u)'
      BY <1>5, <1>6, <3>1 DEF WaiterOK
    <3> QED
      BY <3>2, <3>3
  <2> QED
    BY <2>1, <2>2 DEF FaultsOK
<1>15. ReadersOK'
  <2>1. ASSUME slot_page["di"] # NoPage, page'[slot_page["di"]].busy
        PROVE  \E u \in FaultThreads : thread'[u].pc = "read" /\ thread'[u].area = "data"
    <3>1. page[slot_page["di"]].busy
      BY <1>6, <1>10, <2>1 DEF Slots
    <3>2. PICK u \in FaultThreads : thread[u].pc = "read" /\ thread[u].area = "data"
      BY <1>1, <2>1, <3>1 DEF FaultInv, ReadersOK
    <3> QED
      BY <1>1, <1>7, <3>2
  <2>2. \A u, v \in FaultThreads : thread'[u].pc = "read" /\ thread'[v].pc = "read"
                              /\ thread'[u].area = thread'[v].area => u = v
    BY <1>1, <1>7 DEF FaultInv, ReadersOK
  <2> QED
    BY <1>5, <2>1, <2>2 DEF ReadersOK
<1>16. CountsOK'
  <2>1. ASSUME NEW q \in Pages
        PROVE  /\ \E i, j, k \in {-1, 0, 1} :
                    /\ Change(Mapped(q), Mapped(q)', i) /\ Change(Cached(q), Cached(q)', j)
                    /\ Change(Pinned(q), Pinned(q)', k)
                    /\ page'[q].ref_count + Lost(q)' >= page[q].ref_count + Lost(q) + i + j + k
               /\ q \in free' <=> page'[q].ref_count = 0
    <3>1. /\ Mapped(q)' \subseteq Mapped(q) \cup {a} /\ (q # p => Mapped(q)' \subseteq Mapped(q))
          /\ Cached(q)' \subseteq Cached(q)
          /\ Pinned(q)' \subseteq Pinned(q) \ {t} /\ (q = p => t \in Pinned(q))
      BY <1>1, <1>2, <1>5, <1>7, <1>8 DEF Mapped, Pinned, Cached
    <3>2. /\ Lost(q)' = Lost(q) /\ Lost(q) \in Nat /\ page[q].ref_count \in Nat
          /\ page'[q].ref_count = page[q].ref_count
          /\ (q \in free' <=> page'[q].ref_count = 0)
      BY <1>1, <1>5, <1>6 DEF FaultInv, CountsOK, FaultTypeOK, Lost
    <3>3. CASE q = p
      <4>1. /\ Change(Mapped(q), Mapped(q)', 1) /\ Change(Cached(q), Cached(q)', 0)
            /\ Change(Pinned(q), Pinned(q)', -1)
        BY <3>1, <3>3 DEF Change
      <4> QED
        BY <3>2, <4>1
    <3>4. CASE q # p
      <4>1. /\ Change(Mapped(q), Mapped(q)', 0) /\ Change(Cached(q), Cached(q)', 0)
            /\ Change(Pinned(q), Pinned(q)', 0)
        BY <3>1, <3>4 DEF Change
      <4> QED
        BY <3>2, <4>1
    <3> QED
      BY <3>3, <3>4
  <2>2. fault_machine' = "read_failed" =>
          /\ slot_page'["ti"] # NoPage
          /\ \A u \in FaultThreads : thread'[u].pc = "read" => thread'[u].area = "data"
    BY <1>1, <1>5, <1>7 DEF FaultInv, CountsOK
  <2>3. \A s \in Slots : slot_page'[s] \notin free'
    BY <1>1, <1>5 DEF FaultInv, CountsOK
  <2> QED
    BY <1>1, <1>9, <2>1, <2>2, <2>3, CountsStep
<1> QED
  BY <1>9, <1>12, <1>13, <1>14, <1>15, <1>16, FaultInvSuffices DEF FaultInv

\* The program writes to a page of its own: not to one of the file's.
LEMMA UserStoreInv ==
    ASSUME FaultIInv, NEW t \in FaultThreads, UserStore(t)
    PROVE  FaultIInv'
<1> USE PagesAssumption, AreasAssumption
<1>1. PICK a \in live_areas, p \in Pages :
        /\ FaultsRun /\ p = pte[a].page /\ pte[a].writable
        /\ page' = [page EXCEPT ![p].data = "user"]
  BY DEF UserStore, FaultIInv, FaultTypeOK
<1>2. /\ FaultTypeOK /\ FaultInv /\ a \in AllAreas
      /\ slot_page' = slot_page /\ free' = free /\ live_areas' = live_areas /\ fault_machine' = fault_machine
      /\ pte' = pte /\ thread' = thread
  BY <1>1 DEF UserStore, FaultIInv, FaultTypeOK
<1>3. p = slot_page["dc"] \/ p = slot_page["sa"]
  BY <1>1, <1>2 DEF FaultInv, MappingsOK, AllAreas
<1>4. \A s \in FileSlots : slot_page[s] # p
  BY <1>2, <1>3 DEF FaultInv, CachesOK, Slots, FileSlots
<1>5. /\ page'[p].data = "user" /\ \A q \in Pages \ {p} : page'[q] = page[q]
      /\ \A q \in Pages : /\ page'[q].busy = page[q].busy /\ page'[q].dirty = page[q].dirty
                          /\ page'[q].ref_count = page[q].ref_count
      /\ page' \in [Pages -> [ref_count : Nat, busy : BOOLEAN, dirty : BOOLEAN, data : Data]]
  BY <1>1, <1>2 DEF FaultTypeOK, Data
<1>6. FaultTypeOK'
  BY <1>2, <1>5 DEF FaultTypeOK
<1>7. /\ \A s \in Slots : slot_page[s] # NoPage => slot_page[s] \in Pages
      /\ \A x \in live_areas : pte[x].page # NoPage => pte[x].page \in Pages
  BY <1>2 DEF FaultTypeOK
<1>8. CachesOK'
  BY <1>2, <1>4, <1>5, <1>7 DEF FaultInv, CachesOK, Slots, FileSlots
<1>9. MappingsOK'
  BY <1>2, <1>5, <1>7 DEF FaultInv, MappingsOK
<1>10. FaultsOK'
  <2>1. ASSUME NEW u \in FaultThreads PROVE ReaderOK(u)' /\ WaiterOK(u)'
    <3>1. /\ ReaderOK(u) /\ WaiterOK(u)
          /\ thread[u].source # NoPage => thread[u].source \in Pages
          /\ thread[u].dummy # NoPage => thread[u].dummy \in Pages
      BY <1>2 DEF FaultInv, FaultsOK, FaultTypeOK
    <3>2. ReaderOK(u)'
      BY <1>2, <1>5, <3>1 DEF ReaderOK
    <3>3. WaiterOK(u)'
      BY <1>2, <1>5, <3>1 DEF WaiterOK
    <3> QED
      BY <3>2, <3>3
  <2> QED
    BY <2>1 DEF FaultsOK
<1>11. ReadersOK'
  <2>1. slot_page["di"] # NoPage => slot_page["di"] \in Pages
    BY <1>7 DEF Slots
  <2> QED
    BY <1>2, <1>5, <2>1 DEF FaultInv, ReadersOK
<1>12. CountsOK'
  BY <1>2, <1>5 DEF FaultInv, CountsOK, Uses, Lost, Mapped, Cached, Pinned
<1> QED
  BY <1>6, <1>8, <1>9, <1>10, <1>11, <1>12, FaultInvSuffices DEF FaultInv

\* The page of a stack has a reference for the cache, and one more when it is
\* mapped.
LEMMA StackReferences ==
    ASSUME FaultTypeOK, FaultInv, "stack" \in live_areas,
           NEW c \in Pages, c = slot_page["sa"]
    PROVE  /\ c \notin free /\ page[c].ref_count \in Nat /\ page[c].ref_count >= 1
           /\ pte["stack"].page = c => page[c].ref_count >= 2
<1> USE PagesAssumption, AreasAssumption
<1>1. c \notin free /\ page[c].ref_count \in Nat /\ page[c].ref_count # 0
  BY DEF FaultInv, CountsOK, FaultTypeOK, Slots
<1>2. Lost(c) = 0 /\ page[c].ref_count + Lost(c) >= Uses(c)
  BY DEF FaultInv, CountsOK, CachesOK, Lost, Slots
<1>3. /\ IsFiniteSet(Mapped(c)) /\ IsFiniteSet(Cached(c))
      /\ Cardinality(Mapped(c)) \in Nat /\ Cardinality(Cached(c)) \in Nat /\ Cardinality(Pinned(c)) \in Nat
  <2>1. Mapped(c) \subseteq Areas /\ Cached(c) \subseteq Slots /\ Pinned(c) \subseteq FaultThreads
    BY DEF FaultTypeOK, Mapped, Cached, Pinned
  <2> QED
    BY <2>1, Counting
<1>4. "sa" \in Cached(c) /\ (pte["stack"].page = c => "stack" \in Mapped(c))
  BY DEF Cached, Mapped, Slots
<1>5. Cardinality(Cached(c)) # 0 /\ (pte["stack"].page = c => Cardinality(Mapped(c)) # 0)
  BY <1>3, <1>4, FS_EmptySet
<1>6. pte["stack"].page = c => page[c].ref_count >= 2
  BY <1>1, <1>2, <1>3, <1>5 DEF Uses
<1> QED
  BY <1>1, <1>6

\* A stack goes away, with its translation and its cache; no fault is under way.
LEMMA DestroyStackInv ==
    ASSUME FaultIInv, DestroyStack
    PROVE  FaultIInv'
<1> USE PagesAssumption, AreasAssumption
<1>1. /\ FaultTypeOK /\ FaultInv /\ "stack" \in live_areas
      /\ \A t \in FaultThreads : thread[t].pc = "user"
      /\ live_areas' = live_areas \ {"stack"}
      /\ slot_page' = [slot_page EXCEPT !["sa"] = NoPage]
      /\ pte' = pte /\ thread' = thread /\ fault_machine' = fault_machine
  BY DEF FaultIInv, DestroyStack, SpaceLockFree
<1>2. PICK c, m \in Pages \cup {NoPage} :
        c = slot_page["sa"] /\ m = pte["stack"].page /\ m \in {c, NoPage}
  BY <1>1 DEF FaultTypeOK, FaultInv, MappingsOK, Slots
<1>3. PICK n \in {1, 2} : n = IF m = NoPage THEN 1 ELSE 2
  OBVIOUS
<1>4. c # NoPage => c \notin free /\ page[c].ref_count \in Nat /\ page[c].ref_count >= n
  BY <1>1, <1>2, <1>3, StackReferences
<1>5. /\ page' \in [Pages -> [ref_count : Nat, busy : BOOLEAN, dirty : BOOLEAN, data : Data]]
      /\ \A q \in Pages : /\ page'[q].busy = page[q].busy /\ page'[q].dirty = page[q].dirty
                          /\ page'[q].data = page[q].data
      /\ \A q \in Pages \ {c} : page'[q].ref_count = page[q].ref_count
      /\ c # NoPage => page'[c].ref_count = page[c].ref_count - n
      /\ free' = free \cup {q \in Pages : q = c /\ page[c].ref_count = n}
  <2>1. CASE c = NoPage
    <3>1. page' = page /\ free' = free
      BY <1>1, <1>2, <2>1 DEF DestroyStack
    <3> QED
      BY <1>1, <2>1, <3>1 DEF FaultTypeOK
  <2>2. CASE c # NoPage /\ m = NoPage
    <3>1. page' = [page EXCEPT ![c].ref_count = @ - 1] /\ free' = free \cup Freed(page, c)
      BY <1>1, <1>2, <2>2 DEF DestroyStack, dec_page_ref
    <3>2. page[c].ref_count - 1 \in Nat /\ n = 1 /\ c \in Pages
      BY <1>2, <1>3, <1>4, <2>2
    <3>3. free' = free \cup {q \in Pages : q = c /\ page[c].ref_count = n}
      BY <3>1, <3>2 DEF Freed
    <3> QED
      BY <1>1, <3>1, <3>2, <3>3 DEF FaultTypeOK
  <2>3. CASE c # NoPage /\ m = c
    <3>1. PICK pg : pg = [page EXCEPT ![c].ref_count = @ - 1]
      OBVIOUS
    <3>2. /\ page' = [pg EXCEPT ![c].ref_count = @ - 1]
          /\ free' = free \cup Freed(page, c) \cup Freed(pg, c)
      BY <1>1, <1>2, <2>3, <3>1 DEF DestroyStack, dec_page_ref
    <3>3. c \in Pages /\ page[c].ref_count \in Nat /\ page[c].ref_count >= 2 /\ n = 2
      BY <1>3, <1>4, <2>3
    <3>4. /\ pg \in [Pages -> [ref_count : Nat, busy : BOOLEAN, dirty : BOOLEAN, data : Data]]
          /\ \A q \in Pages : /\ pg[q].busy = page[q].busy /\ pg[q].dirty = page[q].dirty
                              /\ pg[q].data = page[q].data
          /\ \A q \in Pages \ {c} : pg[q].ref_count = page[q].ref_count
          /\ pg[c].ref_count = page[c].ref_count - 1
      <4>1. page[c].ref_count - 1 \in Nat
        BY <3>3
      <4> QED
        BY <1>1, <3>1, <3>3, <4>1 DEF FaultTypeOK
    <3>5. /\ page' \in [Pages -> [ref_count : Nat, busy : BOOLEAN, dirty : BOOLEAN, data : Data]]
          /\ \A q \in Pages : /\ page'[q].busy = pg[q].busy /\ page'[q].dirty = pg[q].dirty
                              /\ page'[q].data = pg[q].data
          /\ \A q \in Pages \ {c} : page'[q].ref_count = pg[q].ref_count
          /\ page'[c].ref_count = pg[c].ref_count - 1
      <4>1. pg[c].ref_count - 1 \in Nat
        BY <3>3, <3>4
      <4> QED
        BY <3>2, <3>3, <3>4, <4>1
    <3>6. free' = free \cup {q \in Pages : q = c /\ page[c].ref_count = n}
      BY <3>2, <3>3, <3>4 DEF Freed
    <3> QED
      BY <3>3, <3>4, <3>5, <3>6
  <2> QED
    BY <1>2, <2>1, <2>2, <2>3
<1>6. /\ slot_page'["sa"] = NoPage /\ slot_page' \in [Slots -> Pages \cup {NoPage}]
      /\ \A s \in Slots \ {"sa"} : slot_page'[s] = slot_page[s]
  BY <1>1 DEF FaultTypeOK, Slots
<1>7. FaultTypeOK'
  BY <1>1, <1>5, <1>6 DEF FaultTypeOK
<1>8. /\ \A s \in Slots : slot_page[s] # NoPage => slot_page[s] \in Pages
      /\ \A x \in live_areas : pte[x].page # NoPage => pte[x].page \in Pages
      /\ \A s \in Slots \ {"sa"} : slot_page[s] = c => c = NoPage
  BY <1>1, <1>2 DEF FaultTypeOK, FaultInv, CachesOK, Slots
<1>9. CachesOK'
  BY <1>1, <1>5, <1>6, <1>8 DEF FaultInv, CachesOK, Slots, FileSlots
<1>10. MappingsOK'
  BY <1>1, <1>5, <1>6, <1>8 DEF FaultInv, MappingsOK, Slots
<1>11. FaultsOK'
  BY <1>1 DEF FaultsOK, ReaderOK, WaiterOK
<1>12. ReadersOK'
  <2>1. slot_page["di"] # NoPage => slot_page["di"] \in Pages
    BY <1>8 DEF Slots
  <2> QED
    BY <1>1, <1>5, <1>6, <2>1 DEF FaultInv, ReadersOK, Slots
<1>13. CountsOK'
  <2>1. ASSUME NEW q \in Pages
        PROVE  /\ \E i, j, k \in {-1, 0, 1} :
                    /\ Change(Mapped(q), Mapped(q)', i) /\ Change(Cached(q), Cached(q)', j)
                    /\ Change(Pinned(q), Pinned(q)', k)
                    /\ page'[q].ref_count + Lost(q)' >= page[q].ref_count + Lost(q) + i + j + k
               /\ q \in free' <=> page'[q].ref_count = 0
    <3>1. /\ Mapped(q)' \subseteq Mapped(q) \ {"stack"} /\ Cached(q)' \subseteq Cached(q) \ {"sa"}
          /\ Pinned(q)' \subseteq Pinned(q)
      BY <1>1, <1>6 DEF Mapped, Pinned, Cached, Slots
    <3>2. /\ Lost(q)' = Lost(q) /\ Lost(q) \in Nat /\ page[q].ref_count \in Nat
          /\ (q \in free <=> page[q].ref_count = 0)
      BY <1>1, <1>6 DEF FaultInv, CountsOK, FaultTypeOK, Lost, Slots
    <3>3. CASE q = c
      <4>1. /\ "sa" \in Cached(q) /\ (m = c => "stack" \in Mapped(q))
            /\ q # NoPage /\ (m = NoPage => n = 1) /\ (m = c => n = 2)
        BY <1>1, <1>2, <1>3, <3>3 DEF Cached, Mapped, Slots
      <4>2. /\ Change(Mapped(q), Mapped(q)', 1 - n) /\ Change(Cached(q), Cached(q)', -1)
            /\ Change(Pinned(q), Pinned(q)', 0)
        BY <1>2, <3>1, <4>1 DEF Change
      <4>3. page'[q].ref_count = page[q].ref_count - n /\ 1 - n \in {-1, 0, 1}
        BY <1>3, <1>5, <3>3, <4>1
      <4>4. page'[q].ref_count + Lost(q)' >= page[q].ref_count + Lost(q) + (1 - n) + (-1) + 0
        BY <3>2, <4>3
      <4>5. q \in free' <=> page'[q].ref_count = 0
        BY <1>4, <1>5, <3>2, <3>3, <4>1, <4>3
      <4> QED
        BY <4>2, <4>3, <4>4, <4>5
    <3>4. CASE q # c
      <4>1. /\ Change(Mapped(q), Mapped(q)', 0) /\ Change(Cached(q), Cached(q)', 0)
            /\ Change(Pinned(q), Pinned(q)', 0)
        BY <3>1 DEF Change
      <4>2. page'[q].ref_count = page[q].ref_count /\ (q \in free' <=> q \in free)
        BY <1>5, <3>4
      <4> QED
        BY <3>2, <4>1, <4>2
    <3> QED
      BY <3>3, <3>4
  <2>2. fault_machine' = "read_failed" =>
          /\ slot_page'["ti"] # NoPage
          /\ \A u \in FaultThreads : thread'[u].pc = "read" => thread'[u].area = "data"
    BY <1>1, <1>6 DEF FaultInv, CountsOK, Slots
  <2>3. \A s \in Slots : slot_page'[s] \notin free'
    BY <1>1, <1>5, <1>6, <1>8 DEF FaultInv, CountsOK, FaultTypeOK
  <2> QED
    BY <1>1, <1>7, <2>1, <2>2, <2>3, CountsStep
<1> QED
  BY <1>7, <1>9, <1>10, <1>11, <1>12, <1>13, FaultInvSuffices DEF FaultInv

-----------------------------------------------------------------------------
LEMMA FaultInitInv == FaultInit => FaultIInv
<1> USE PagesAssumption, AreasAssumption
<1> SUFFICES ASSUME FaultInit PROVE FaultIInv
  OBVIOUS
<1>1. FaultTypeOK
  BY DEF FaultInit, FaultTypeOK, Unused, Idle, Data, AllAreas
<1>2. FilePagesClean /\ MappedComplete
  BY DEF FaultInit, FilePagesClean, MappedComplete, FileSlots, Slots
<1>3. CachesOK /\ MappingsOK /\ FaultsOK /\ ReadersOK
  BY DEF FaultInit, CachesOK, MappingsOK, FaultsOK, ReaderOK, WaiterOK, ReadersOK, Idle, Slots, FileSlots
<1>4. CountsOK
  <2>1. ASSUME NEW p \in Pages PROVE Mapped(p) = {} /\ Cached(p) = {} /\ Pinned(p) = {} /\ page[p].ref_count = 0
    BY DEF FaultInit, Mapped, Cached, Pinned, Idle, Unused
  <2>2. ASSUME NEW p \in Pages PROVE page[p].ref_count + Lost(p) >= Uses(p) /\ p \in free
    <3>1. Cardinality({}) = 0
      BY FS_EmptySet
    <3>2. Uses(p) = 0
      BY <2>1, <3>1 DEF Uses
    <3>3. Lost(p) = 0 /\ p \in free
      BY DEF FaultInit, Lost
    <3> QED
      BY <2>1, <3>2, <3>3
  <2> QED
    BY <2>1, <2>2 DEF FaultInit, CountsOK
<1> QED
  BY <1>1, <1>2, <1>3, <1>4 DEF FaultIInv, FaultInv

LEMMA FaultStepInv == FaultIInv /\ [FaultNext]_faultVars => FaultIInv'
<1> SUFFICES ASSUME FaultIInv, [FaultNext]_faultVars PROVE FaultIInv'
  OBVIOUS
<1>1. CASE UNCHANGED faultVars
  <2> USE <1>1 DEF faultVars
  <2>1. FaultTypeOK' /\ FilePagesClean' /\ MappedComplete'
    BY DEF FaultIInv, FaultTypeOK, FilePagesClean, MappedComplete, Cached
  <2>2. FaultsRun' => FaultsRun /\ FaultInv
    BY DEF FaultIInv, FaultsRun
  <2>3. FaultInv => CachesOK' /\ MappingsOK'
    BY DEF FaultInv, CachesOK, MappingsOK
  <2>4. FaultInv => FaultsOK' /\ ReadersOK'
    BY DEF FaultInv, FaultsOK, ReaderOK, WaiterOK, ReadersOK
  <2>5. FaultInv => CountsOK'
    BY DEF FaultInv, CountsOK, Uses, Lost, Mapped, Cached, Pinned
  <2> QED
    BY <2>1, <2>2, <2>3, <2>4, <2>5 DEF FaultIInv, FaultInv
<1>2. ASSUME NEW t \in FaultThreads, FaultFails(t) PROVE FaultIInv'
  BY <1>1, <1>2 DEF FaultFails
<1>3. ASSUME NEW t \in FaultThreads,
             FaultHit(t) \/ FaultReadText(t) \/ FaultZero(t) \/ FaultCow(t)
      PROVE  FaultIInv'
  BY <1>3, FaultHitInv, FaultReadTextInv, FaultZeroInv, FaultCowInv
<1>4. ASSUME NEW t \in FaultThreads,
             ReadDone(t) \/ ReadFails(t) \/ MapPage(t) \/ UserStore(t)
      PROVE  FaultIInv'
  BY <1>4, ReadDoneInv, ReadFailsInv, MapPageInv, UserStoreInv
<1>5. CASE DestroyStack
  BY <1>5, DestroyStackInv
<1> QED
  BY <1>1, <1>2, <1>3, <1>4, <1>5 DEF FaultNext

\* In every state of soft_fault, its callers and the page caches, whatever
\* threads, frames and areas there are, the inductive invariant holds.
THEOREM FaultInvariance == FaultSpec => []FaultIInv
<1> QED
  BY FaultInitInv, FaultStepInv, PTL DEF FaultSpec

\* The program file's pages stay what the file holds, and read only, until a
\* failed read frees a page that is still cached (soft_fault's copy-on-write
\* branches).
THEOREM FilePagesStayClean == FaultSpec => []FilePagesClean
<1>1. FaultIInv => FilePagesClean
  BY DEF FaultIInv
<1> QED
  BY <1>1, FaultInvariance, PTL

\* A translation shows finished pages only, whatever faults collide, until a
\* failed read frees a page that is still cached: there FaultSpec ends, and the
\* kernel does not (the busy bit of soft_fault).
THEOREM MappingsComplete == FaultSpec => []MappedComplete
<1>1. FaultIInv => MappedComplete
  BY DEF FaultIInv
<1> QED
  BY <1>1, FaultInvariance, PTL

\* Until a read fails, every use of a frame by a cache, a translation or a fault
\* has its reference, and the free list is exact (inc_page_ref, dec_page_ref).
THEOREM PagesAreAccounted == FaultSpec => []PagesAccounted
<1>1. FaultIInv => PagesAccounted
  <2> SUFFICES ASSUME FaultIInv PROVE PagesAccounted
    OBVIOUS
  <2>1. FaultTypeOK
    BY DEF FaultIInv
  <2>2. ASSUME fault_machine = "running", NEW p \in Pages
        PROVE  page[p].ref_count >= Uses(p) /\ (p \in free <=> page[p].ref_count = 0)
    <3>1. CountsOK /\ Lost(p) = 0 /\ page[p].ref_count \in Nat
      BY <2>1, <2>2 DEF FaultIInv, FaultInv, FaultsRun, Lost, FaultTypeOK
    <3>2. page[p].ref_count + Lost(p) = page[p].ref_count
      BY <3>1
    <3> QED
      BY <3>1, <3>2 DEF CountsOK
  <2> QED
    BY <2>1, <2>2 DEF PagesAccounted, Uses
<1> QED
  BY <1>1, FaultInvariance, PTL

\* A finished page stays in its cache, unless the whole cache goes: no collided
\* fault replaces it, until a failed read frees a page that is still cached ("it
\* will not load a different page", soft_fault).
THEOREM CachedPagesStay == FaultSpec => CachedPageStays
<1> DEFINE Stays == \A s \in Slots :
                       LET p == slot_page[s] IN
                       p # NoPage /\ ~page[p].busy /\ s # "sa" => slot_page'[s] = p
<1>1. FaultIInv /\ [FaultNext]_faultVars => [Stays]_faultVars
  <2> SUFFICES ASSUME FaultIInv, FaultNext,
                      NEW s \in Slots, slot_page[s] # NoPage, ~page[slot_page[s]].busy, s # "sa"
               PROVE  slot_page'[s] = slot_page[s]
    BY Zenon
  <2>1. slot_page \in [Slots -> Pages \cup {NoPage}]
    BY DEF FaultIInv, FaultTypeOK
  <2>2. ASSUME NEW t \in FaultThreads, FaultFails(t) \/ FaultHit(t) \/ MapPage(t) \/ UserStore(t)
        PROVE  slot_page'[s] = slot_page[s]
    BY <2>2 DEF FaultFails, FaultHit, MapPage, UserStore, faultVars
  <2>3. ASSUME NEW t \in FaultThreads, FaultReadText(t) \/ FaultZero(t)
        PROVE  slot_page'[s] = slot_page[s]
    <3>1. \/ slot_page' = slot_page
          \/ \E p \in free : slot_page["ti"] = NoPage /\ slot_page' = [slot_page EXCEPT !["ti"] = p]
          \/ \E p \in free : slot_page' = [slot_page EXCEPT !["sa"] = p]
      BY <2>3 DEF FaultReadText, FaultZero, Panic, lookup_cache_page
    <3> QED
      BY <2>1, <3>1
  <2>4. ASSUME NEW t \in FaultThreads, FaultCow(t)
        PROVE  slot_page'[s] = slot_page[s]
    <3>1. \/ slot_page' = slot_page
          \/ \E d, src \in free :
                /\ slot_page["di"] = NoPage /\ slot_page["dc"] = NoPage
                /\ slot_page' = [slot_page EXCEPT !["dc"] = d, !["di"] = src]
          \/ \E d \in free \cup {NoPage} :
                /\ slot_page["dc"] = NoPage
                /\ slot_page' = [slot_page EXCEPT !["di"] = slot_page["di"], !["dc"] = d]
      BY <2>4 DEF FaultCow, CowStore, CowLoad, Panic, lookup_cache_page
    <3> QED
      BY <2>1, <3>1 DEF Slots
  <2>5. ASSUME NEW t \in FaultThreads, ReadDone(t) \/ ReadFails(t)
        PROVE  slot_page'[s] = slot_page[s]
    <3>0. FaultsRun /\ thread[t].pc = "read"
      BY <2>5 DEF ReadDone, ReadFails
    <3>1. FaultsRun /\ thread[t].pc = "read" /\ ReaderOK(t) /\ FaultTypeOK
      BY <3>0 DEF FaultIInv, FaultInv, FaultsOK
    <3>2. thread[t].area = "text" => thread[t].dummy = NoPage /\ slot_page' = slot_page
      BY <2>5, <3>1 DEF ReadDone, ReadFails, ReaderOK
    <3>3. ASSUME thread[t].area = "data" PROVE slot_page'[s] = slot_page[s]
      <4>1. /\ thread[t].source = slot_page["di"] /\ thread[t].dummy = slot_page["dc"]
            /\ page[slot_page["dc"]].busy /\ thread[t].dummy # NoPage
        BY <3>1, <3>3 DEF ReaderOK
      <4>2. \/ slot_page' = [slot_page EXCEPT !["di"] = slot_page["di"], !["dc"] = slot_page["dc"]]
            \/ slot_page' = [slot_page EXCEPT !["di"] = slot_page["di"], !["dc"] = NoPage]
            \/ slot_page' = [slot_page EXCEPT !["dc"] = NoPage]
        <5>1. CASE ReadDone(t)
          BY <3>3, <4>1, <5>1 DEF ReadDone, CowStore, CowLoad
        <5>2. CASE ReadFails(t)
          BY <3>3, <4>1, <5>2 DEF ReadFails, TopSlot
        <5> QED
          BY <2>5, <5>1, <5>2
      <4> QED
        BY <2>1, <4>1, <4>2 DEF Slots
    <3> QED
      BY <3>1, <3>2, <3>3 DEF ReaderOK
  <2>6. ASSUME DestroyStack PROVE slot_page'[s] = slot_page[s]
    <3>1. slot_page' = [slot_page EXCEPT !["sa"] = NoPage]
      BY <2>6 DEF DestroyStack
    <3> QED
      BY <2>1, <3>1
  <2> QED
    BY <2>2, <2>3, <2>4, <2>5, <2>6 DEF FaultNext
<1> QED
  BY <1>1, FaultInvariance, PTL DEF FaultSpec, CachedPageStays

=============================================================================
