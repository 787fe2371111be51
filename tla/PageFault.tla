------------------------------ MODULE PageFault ------------------------------
(***************************************************************************)
(* Demand paging: soft_fault and its callers (vm_address_space.c), the     *)
(* page caches (vm_cache.c) and the page reference counts (vm_page.c).     *)
(*                                                                         *)
(* One process whose threads fault on one page of each of its areas, laid  *)
(* out the way load_program and spawn_thread_internal do it:               *)
(*   "text"  read only, backed by the image cache, which has a file;       *)
(*   "data"  writable, backed by a copy-on-write cache whose source is the *)
(*           image cache;                                                  *)
(*   "stack" writable, backed by an anonymous cache.                       *)
(* A slot stands for one cache at the offset of the page: "ti" and "di" in *)
(* the image cache, "dc" in the copy-on-write cache, "sa" in the anonymous *)
(* one.                                                                    *)
(*                                                                         *)
(* soft_fault holds the cache spinlock from the lookup to the decision     *)
(* which page to map, except while it reads the file; the rest, waiting    *)
(* for a busy page and mapping, is done without it.  Each of these         *)
(* stretches is an action.                                                 *)
(***************************************************************************)
EXTENDS Naturals, FiniteSets

CONSTANTS
    FaultThreads,   \* the threads of the process
    Pages,          \* physical page frames
    NoPage,
    Areas,          \* the areas the process has, see AllAreas
    IOErrors,       \* may read_file fail?
    StackDies       \* may the stack's thread exit while others run?

AllAreas == {"text", "data", "stack"}
Slots == {"ti", "di", "dc", "sa"}

ASSUME AreasAssumption == Areas \subseteq AllAreas
ASSUME PagesAssumption ==
    NoPage \notin Pages /\ {IOErrors, StackDies} \subseteq BOOLEAN /\ IsFiniteSet(FaultThreads)

\* area->cache, cache->source and cache->file at the modelled offset.
TopSlot == [text |-> "ti", data |-> "dc", stack |-> "sa"]
FileSlots == {"ti", "di"}
Writable(a) == a # "text"

VARIABLES
    slot_page,      \* the page each cache has at this offset, or NoPage
    page,           \* struct vm_page: ref_count, busy, dirty, and what is in it
    free,           \* free_page_list
    pte,            \* the translation map: [page, writable] for each area's page
    live_areas,     \* the areas in the area map
    thread,         \* each thread's position and the locals of soft_fault
    fault_machine   \* "running", "read_failed" if a failed read has given up a
                    \* reference others still rely on; a panic, or a failed read
                    \* that leaves lists "corrupt", ends the behaviour

faultVars == <<slot_page, page, free, pte, live_areas, thread, fault_machine>>

\* "user" running; "read" in read_file; "wait" in the busy loop or about to map
Idle == [pc |-> "user", area |-> "text", is_store |-> FALSE,
         source |-> NoPage, dummy |-> NoPage]

\* What a page holds: zeros, the file's data, or something a thread wrote.
Data == {"zero", "file", "user"}
Unused == [ref_count |-> 0, busy |-> FALSE, dirty |-> FALSE, data |-> "zero"]

FaultTypeOK ==
    /\ slot_page \in [Slots -> Pages \cup {NoPage}]
    /\ page \in [Pages -> [ref_count : Nat, busy : BOOLEAN, dirty : BOOLEAN, data : Data]]
    /\ free \subseteq Pages
    /\ pte \in [Areas -> [page : Pages \cup {NoPage}, writable : BOOLEAN]]
    /\ live_areas \subseteq Areas
    /\ thread \in [FaultThreads -> [pc : {"user", "read", "wait"}, area : AllAreas,
                                    is_store : BOOLEAN, source : Pages \cup {NoPage},
                                    dummy : Pages \cup {NoPage}]]
    /\ fault_machine \in {"running", "read_failed", "out_of_memory", "corrupt"}

FaultInit ==
    /\ slot_page = [s \in Slots |-> NoPage]
    /\ page = [p \in Pages |-> Unused]
    /\ free = Pages
    /\ pte = [a \in Areas |-> [page |-> NoPage, writable |-> FALSE]]
    /\ live_areas = Areas
    /\ thread = [t \in FaultThreads |-> Idle]
    /\ fault_machine = "running"

-----------------------------------------------------------------------------
\* vm_allocate_page, and the busy bit soft_fault gives the page.
NewPage(is_busy) == [ref_count |-> 1, busy |-> is_busy, dirty |-> FALSE, data |-> "zero"]

\* inc_page_ref(p) on the page structures pg.
inc_page_ref(pg, p) == [pg EXCEPT ![p].ref_count = @ + 1]

\* dec_page_ref(p): the count, and the page it puts on the free list.
dec_page_ref(pg, p) == [pg EXCEPT ![p].ref_count = @ - 1]
Freed(pg, p) == IF pg[p].ref_count = 1 THEN {p} ELSE {}

Panic(why) == /\ fault_machine' = why
              /\ UNCHANGED <<slot_page, page, free, pte, live_areas, thread>>

\* lookup_cache_page: any page the cache has here, finished or not.
lookup_top_page(s) == IF s = "di" THEN NoPage ELSE slot_page[s]     \* mutant
lookup_cache_page(s) == slot_page[s]

\* The address space's rwlock: faulting threads hold it for reading.
SpaceLockFree == \A t \in FaultThreads : thread[t].pc = "user"

FaultsRun == fault_machine \in {"running", "read_failed"}

\* handle_page_fault(address in a, is_store) is called by the hardware when
\* the translation does not allow the access.
Faults(t, a, is_store) ==
    /\ FaultsRun
    /\ thread[t].pc = "user"
    /\ pte[a].page = NoPage \/ (is_store /\ ~pte[a].writable)

\* soft_fault goes on to wait for page p and map it.
WaitFor(a, is_store, p) ==
    [pc |-> "wait", area |-> a, is_store |-> is_store, source |-> p, dummy |-> NoPage]

-----------------------------------------------------------------------------
\* No such area, or a store to a read-only one: the thread is killed and its
\* place taken by another.
FaultFails(t) ==
    \E a \in Areas, is_store \in BOOLEAN :
        /\ Faults(t, a, is_store)
        /\ a \notin live_areas \/ (is_store /\ ~Writable(a))
        /\ UNCHANGED faultVars

\* The area's own cache has a page, finished or not.
FaultHit(t) ==
    \E a \in live_areas, is_store \in BOOLEAN :
        LET p == lookup_cache_page(TopSlot[a]) IN
        /\ Faults(t, a, is_store) /\ (is_store => Writable(a))
        /\ p # NoPage
        /\ page' = inc_page_ref(page, p)
        /\ thread' = [thread EXCEPT ![t] = WaitFor(a, is_store, p)]
        /\ UNCHANGED <<slot_page, free, pte, live_areas, fault_machine>>

\* Nothing cached and the area's cache has a file: read it.
FaultReadText(t) ==
    /\ "text" \in live_areas
    /\ Faults(t, "text", FALSE)
    /\ lookup_cache_page("ti") = NoPage
    /\ \/ free = {} /\ Panic("out_of_memory")
       \/ \E p \in free :
            /\ free' = free \ {p}
            /\ page' = [page EXCEPT ![p] = NewPage(TRUE)]
            /\ slot_page' = [slot_page EXCEPT !["ti"] = p]
            /\ thread' = [thread EXCEPT ![t] =
                            [pc |-> "read", area |-> "text", is_store |-> FALSE,
                             source |-> p, dummy |-> NoPage]]
            /\ UNCHANGED <<pte, live_areas, fault_machine>>

\* Nothing cached and no source: the dummy page, all zeros, is the page.
FaultZero(t) ==
    \E is_store \in BOOLEAN :
        /\ "stack" \in live_areas
        /\ Faults(t, "stack", is_store)
        /\ lookup_cache_page("sa") = NoPage
        /\ \/ free = {} /\ Panic("out_of_memory")
           \/ \E p \in free :
                /\ free' = free \ {p}
                /\ page' = inc_page_ref([page EXCEPT ![p] = NewPage(FALSE)], p)
                /\ slot_page' = [slot_page EXCEPT !["sa"] = p]
                /\ thread' = [thread EXCEPT ![t] = WaitFor("stack", is_store, p)]
                /\ UNCHANGED <<pte, live_areas, fault_machine>>

\* The end of soft_fault's locked section for "data" when the source page src
\* is in the image cache and the dummy page d in the top cache (pg and fr are
\* the pages and the free list by then): a store copies src into d, a load
\* takes d out of the cache again and maps src.
CowStoreNoCopy(t, pg, fr, src, d) ==                             \* mutant
    /\ page' = inc_page_ref([pg EXCEPT ![d].busy = FALSE], src)
    /\ free' = fr
    /\ slot_page' = [slot_page EXCEPT !["di"] = src, !["dc"] = d]
    /\ thread' = [thread EXCEPT ![t] = WaitFor("data", TRUE, src)]
CowStore(t, pg, fr, src, d) ==
    /\ page' = inc_page_ref([pg EXCEPT ![d].busy = FALSE, ![d].data = pg[src].data], d)
    /\ free' = fr
    /\ slot_page' = [slot_page EXCEPT !["di"] = src, !["dc"] = d]
    /\ thread' = [thread EXCEPT ![t] = WaitFor("data", TRUE, d)]

CowLoadForgets(t, pg, fr, src, d) ==                             \* mutant
    /\ page' = inc_page_ref(dec_page_ref(pg, d), src)
    /\ free' = fr \cup Freed(pg, d)
    /\ slot_page' = [slot_page EXCEPT !["di"] = src, !["dc"] = d]
    /\ thread' = [thread EXCEPT ![t] = WaitFor("data", FALSE, src)]
CowLoad(t, pg, fr, src, d) ==
    /\ page' = inc_page_ref(dec_page_ref(pg, d), src)
    /\ free' = fr \cup Freed(pg, d)
    /\ slot_page' = [slot_page EXCEPT !["di"] = src, !["dc"] = NoPage]
    /\ thread' = [thread EXCEPT ![t] = WaitFor("data", FALSE, src)]

\* The copy-on-write cache has no page: put a dummy in, and look in the image.
FaultCow(t) ==
    \E is_store \in BOOLEAN :
        /\ "data" \in live_areas
        /\ Faults(t, "data", is_store)
        /\ lookup_cache_page("dc") = NoPage
        /\ \/ free = {} /\ Panic("out_of_memory")
           \/ /\ lookup_cache_page("di") = NoPage /\ Cardinality(free) = 1
              /\ Panic("out_of_memory")
           \/ \E d, src \in free :
                /\ lookup_cache_page("di") = NoPage /\ d # src
                /\ free' = free \ {d, src}
                /\ page' = [page EXCEPT ![d] = NewPage(TRUE), ![src] = NewPage(TRUE)]
                /\ slot_page' = [slot_page EXCEPT !["dc"] = d, !["di"] = src]
                /\ thread' = [thread EXCEPT ![t] =
                                [pc |-> "read", area |-> "data", is_store |-> is_store,
                                 source |-> src, dummy |-> d]]
                /\ UNCHANGED <<pte, live_areas, fault_machine>>
           \/ \E d \in free :
                LET src == lookup_cache_page("di")
                    pg == [page EXCEPT ![d] = NewPage(TRUE)]
                IN  /\ src # NoPage
                    /\ IF is_store THEN CowStore(t, pg, free \ {d}, src, d)
                                   ELSE CowLoad(t, pg, free \ {d}, src, d)
                    /\ UNCHANGED <<pte, live_areas, fault_machine>>

\* read_file succeeded: the page is complete, the locked section goes on.
ReadLeavesBusy(t) ==                                             \* mutant
    /\ FaultsRun /\ thread[t].pc = "read"
    /\ page' = inc_page_ref([page EXCEPT ![thread[t].source].data = "file"], thread[t].source)
    /\ thread' = [thread EXCEPT ![t] = WaitFor(thread[t].area, FALSE, thread[t].source)]
    /\ UNCHANGED <<slot_page, free, pte, live_areas, fault_machine>>
ReadDone(t) ==
    LET th == thread[t]
        pg == [page EXCEPT ![th.source].data = "file", ![th.source].busy = FALSE]
    IN  /\ FaultsRun
        /\ th.pc = "read"
        /\ \/ /\ th.area = "text"
              /\ page' = inc_page_ref(pg, th.source)
              /\ thread' = [thread EXCEPT ![t] = WaitFor("text", FALSE, th.source)]
              /\ UNCHANGED <<slot_page, free>>
           \/ /\ th.area = "data" /\ th.is_store
              /\ CowStore(t, pg, free, th.source, th.dummy)
           \/ /\ th.area = "data" /\ ~th.is_store
              /\ CowLoad(t, pg, free, th.source, th.dummy)
        /\ UNCHANGED <<pte, live_areas, fault_machine>>

\* read_file failed: the thread gives its references back and is killed.  The
\* source page stays where it is in the image cache: if this was the last
\* reference it goes on the free list with its list node still in page_list and
\* its hash entry in place.  The kernel goes on from there with corrupt lists and
\* may map the frame for somebody else; here the behaviour ends.
ReadFails(t) ==
    LET th == thread[t]
        pg == dec_page_ref(page, th.source)
    IN  /\ FaultsRun /\ IOErrors
        /\ th.pc = "read"
        /\ \/ /\ th.dummy = NoPage
              /\ page' = pg
              /\ free' = free \cup Freed(page, th.source)
              /\ UNCHANGED slot_page
           \/ /\ th.dummy # NoPage
              /\ page' = dec_page_ref(pg, th.dummy)
              /\ free' = free \cup Freed(page, th.source) \cup Freed(pg, th.dummy)
              /\ slot_page' = [slot_page EXCEPT ![TopSlot[th.area]] = NoPage]
        /\ thread' = [thread EXCEPT ![t] = Idle]
        /\ fault_machine' = IF Freed(page, th.source) = {} THEN "read_failed" ELSE "corrupt"
        /\ UNCHANGED <<pte, live_areas>>

\* while (source_page->busy) reschedule();
NeverBusy(t) == TRUE                                             \* mutant
NotBusy(t) == ~page[thread[t].source].busy

\* The PAGE_WRITABLE bit: only for a page that is marked dirty.
PageWritable(th) == Writable(th.area) /\ (page[th.source].dirty \/ th.is_store)

\* The end of soft_fault: mark a stored-to page dirty and map the page.
MapPage(t) ==
    LET th == thread[t] IN
    /\ FaultsRun
    /\ th.pc = "wait" /\ NotBusy(t)
    /\ page' = [page EXCEPT ![th.source].dirty = @ \/ th.is_store]
    /\ pte' = [pte EXCEPT ![th.area] = [page |-> th.source, writable |-> PageWritable(th)]]
    /\ thread' = [thread EXCEPT ![t] = Idle]
    /\ UNCHANGED <<slot_page, free, live_areas, fault_machine>>

\* The program writes through a writable translation.  destroy_area leaves the
\* translations in place; nobody is taken to use the stack of a thread that has
\* exited.
UserStore(t) ==
    \E a \in live_areas :
        /\ FaultsRun
        /\ thread[t].pc = "user"
        /\ pte[a].page # NoPage /\ pte[a].writable
        /\ page' = [page EXCEPT ![pte[a].page].data = "user"]
        /\ UNCHANGED <<slot_page, free, pte, live_areas, thread, fault_machine>>

\* destroy_area of the stack, then dec_cache_ref of its cache: one reference
\* for the translation, one for the cache.
DestroyStack ==
    LET m == pte["stack"].page
        pg == IF m = NoPage THEN page ELSE dec_page_ref(page, m)
        f == IF m = NoPage THEN {} ELSE Freed(page, m)
        c == slot_page["sa"]
    IN  /\ FaultsRun /\ StackDies
        /\ SpaceLockFree
        /\ "stack" \in live_areas
        /\ live_areas' = live_areas \ {"stack"}
        /\ page' = IF c = NoPage THEN pg ELSE dec_page_ref(pg, c)
        /\ free' = free \cup f \cup (IF c = NoPage THEN {} ELSE Freed(pg, c))
        /\ slot_page' = [slot_page EXCEPT !["sa"] = NoPage]
        /\ UNCHANGED <<pte, thread, fault_machine>>

FaultNext ==
    \/ \E t \in FaultThreads :
          \/ FaultFails(t) \/ FaultHit(t) \/ FaultReadText(t) \/ FaultZero(t)
          \/ FaultCow(t) \/ ReadDone(t) \/ ReadFails(t) \/ MapPage(t) \/ UserStore(t)
    \/ DestroyStack

FaultSpec == FaultInit /\ [][FaultNext]_faultVars

\* read_file returns, and a thread in the busy loop keeps being scheduled
\* (reschedule puts it back on the ready queue; the queue is served in order).
FaultFairness == \A t \in FaultThreads : WF_faultVars(ReadDone(t)) /\ WF_faultVars(MapPage(t))
FairFaultSpec == FaultSpec /\ FaultFairness

-----------------------------------------------------------------------------
Mapped(p) == {a \in live_areas : pte[a].page = p}
Cached(p) == {s \in Slots : slot_page[s] = p}
Pinned(p) == {t \in FaultThreads : thread[t].pc = "wait" /\ thread[t].source = p}

\* A page of the program file's cache never holds anything but the file: it is
\* not dirty, nobody wrote to it, no translation of an area that exists lets
\* anybody write to it, and no other cache has it.  Otherwise one process's data
\* would show up in every program started from the file.  Claimed until a failed
\* read frees a page that is still cached.  (soft_fault's copy-on-write branches)
FilePagesClean ==
    \A s \in FileSlots :
        LET p == slot_page[s] IN
        p # NoPage => /\ ~page[p].dirty /\ page[p].data # "user"
                      /\ Cached(p) = {s}
                      /\ \A a \in live_areas : pte[a].page = p => ~pte[a].writable

\* Every use of a page, by a cache, by a translation of an area that exists or
\* by a fault under way, is backed by a reference of its own, and a page is on
\* the free list exactly when it has none, until a read fails.
\* (inc_page_ref and dec_page_ref in soft_fault, destroy_area and
\* dec_cache_ref.)
PagesAccounted ==
    /\ FaultTypeOK
    /\ fault_machine = "running" => \A p \in Pages :
        /\ page[p].ref_count >=
              Cardinality(Mapped(p)) + Cardinality(Cached(p)) + Cardinality(Pinned(p))
        /\ p \in free <=> page[p].ref_count = 0

\* What a thread can see through a translation is finished: not the frame
\* another thread is still reading into, and not a dummy's zeros where the
\* file's data belongs, whatever faults collide and also after a read that
\* failed while somebody else had a reference to its page.  Claimed until a
\* failed read frees a page that is still cached.  (the busy bit of soft_fault)
MappedComplete ==
    \A a \in live_areas :
        LET p == pte[a].page IN
        p # NoPage => /\ ~page[p].busy
                      /\ a = "text" => page[p].data = "file"
                      /\ a = "data" => page[p].data \in {"file", "user"}

\* A page leaves the caches only while it is still unfinished, or with the
\* cache: a finished page is never replaced by what a collided fault brought,
\* until a failed read frees a page that is still cached.  (the comment at the
\* insert in soft_fault: "if a collided fault occurs, it will not load a
\* different page")
CachedPageStays ==
    [][\A s \in Slots :
          LET p == slot_page[s] IN
          p # NoPage /\ ~page[p].busy /\ s # "sa" => slot_page'[s] = p]_faultVars

\* A fault that is being handled comes to an end, unless a read failed or the
\* machine stopped.
\* (the busy loop of soft_fault; the dummy page is there "to catch collided
\* faults")
FaultCompletes ==
    \A t \in FaultThreads :
        thread[t].pc # "user" ~> thread[t].pc = "user" \/ fault_machine # "running"

=============================================================================
