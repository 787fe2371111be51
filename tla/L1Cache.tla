------------------------------ MODULE L1Cache ------------------------------
(***************************************************************************)
(* The memory pipeline of one core, clock cycle by clock cycle: thread     *)
(* suspension (thread_select_stage, writeback_stage), the L1 data cache    *)
(* (dcache_tag_stage, dcache_data_stage), the store queue                  *)
(* (l1_store_queue), the load miss queue (l1_load_miss_queue) and the      *)
(* response pipeline (l1_l2_interface).                                    *)
(*                                                                         *)
(* The variables are the flip-flops and memories.  Every wire is a         *)
(* definition over them, as in the source, and a step is one clock edge.   *)
(* Its inputs are the instruction in dcache_tag_stage, the request the L2  *)
(* cache accepts and the response it sends.  The L2 cache is an atomic     *)
(* memory that does the accepted requests in any order, each in the cycle  *)
(* its response reaches the core; it also broadcasts the stores of other   *)
(* cores.  One cache set is modelled; arbiters and LRU are arbitrary.      *)
(***************************************************************************)
EXTENDS Naturals, FiniteSets

CONSTANTS
    Threads,     \* hardware threads of the core
    Lines,       \* cache line addresses
    Ways,
    Lanes,       \* the bytes of a line
    Values,
    Program,     \* the instructions each thread may execute, in any order
    MissOps,     \* the operations that may miss the TLB, and trap
    Foreign,     \* the stores other cores may do
    None

LoadOps == {"load", "load_sync"}
StoreOps == {"store", "store_sync"}
ControlOps == {"flush", "dinvalidate"}

Content == [Lanes -> Values]
Mask == [Lanes -> Values \cup {None}]     \* byte enables and data in one
NoLanes == [l \in Lanes |-> None]
Merge(d, m) == [l \in Lanes |-> IF m[l] = None THEN d[l] ELSE m[l]]
Reset == [l \in Lanes |-> CHOOSE v \in Values : TRUE]

\* An instruction has an address, unless it is a memory barrier.
Instr == {i \in [op : LoadOps \cup StoreOps \cup ControlOps \cup {"membar"},
                 line : Lines \cup {None}, lanes : Mask] : i.line = None => i.op = "membar"}

\* What the flip-flops hold: see dd, response_stage2, ddata_update, requests and
\* linked.
Rollback == [thread : Threads, trap : BOOLEAN, suspend : BOOLEAN]
Response == [type : {"load_ack", "store_ack", "flush_ack", "dinvalidate_ack"}, mine : BOOLEAN,
             id : Threads \cup {None}, line : Lines, data : Content, old : Content,
             snoop : SUBSET Ways, fill : Ways \cup {None}]
Update == [way : Ways, data : Content]
L2Request == [op : LoadOps \cup StoreOps \cup ControlOps, id : Threads, line : Lines, lanes : Mask]
Link == [line : Lines, data : Content]

ASSUME ProgramAssumption == Program \in [Threads -> SUBSET Instr]
ASSUME MissOpsAssumption == MissOps \subseteq LoadOps \cup {"store"} \cup ControlOps
ASSUME ForeignAssumption == Foreign \subseteq [line : Lines, lanes : Mask]
ASSUME ValuesAssumption == Values # {}
ASSUME NoneAssumption ==
    /\ None \notin Threads /\ None \notin Lines /\ None \notin Values /\ None \notin {"miss", "store"}
    /\ None \notin StoreOps \cup ControlOps /\ None \notin Instr
    /\ None \notin Rollback /\ None \notin Response /\ None \notin Update /\ None \notin Link

VARIABLES
    dt,          \* the instruction in dcache_data_stage, with the tags it read
    dd,          \* the rollback dcache_data_stage and l1_store_queue tell
                 \* writeback_stage about
    tags, data,  \* the L1 data cache: line_valid and sram_tags, l1d_data
    pending_stores, pending_entries,     \* store queue and load miss queue
    thread_blocked, dd_load_sync_pending,
    retry,       \* the instruction a rolled back thread restarts with
    response_stage2, ddata_update,       \* the response pipeline
    requests,    \* what the L2 cache has accepted and not done
    mem,         \* what the L2 cache holds
    load_sync_address,      \* the line each thread has a reservation on
    owed,        \* the retired stores that the L2 cache has not done
    linked       \* the line and content of each thread's last synchronized load

vars == <<dt, dd, tags, data, pending_stores, pending_entries, thread_blocked,
          dd_load_sync_pending, retry, response_stage2, ddata_update,
          requests, mem, load_sync_address, owed, linked>>

NoStore == [valid |-> FALSE, op |-> None, line |-> None, lanes |-> NoLanes,
            request_sent |-> FALSE, response_received |-> FALSE,
            thread_waiting |-> FALSE]
NoMiss == [valid |-> FALSE, line |-> None, sync |-> FALSE,
           request_sent |-> FALSE, waiting_threads |-> {}]

Init ==
    /\ dt = None /\ dd = None
    /\ tags = [w \in Ways |-> None]
    /\ data = [w \in Ways |-> Reset]
    /\ pending_stores = [t \in Threads |-> NoStore]
    /\ pending_entries = [t \in Threads |-> NoMiss]
    /\ thread_blocked = [t \in Threads |-> FALSE]
    /\ dd_load_sync_pending = [t \in Threads |-> FALSE]
    /\ retry = [t \in Threads |-> None]
    /\ response_stage2 = None /\ ddata_update = None
    /\ requests = {}
    /\ mem = [a \in Lines |-> Reset]
    /\ load_sync_address = [t \in Threads |-> None]
    /\ owed = [t \in Threads |-> [a \in Lines |-> NoLanes]]
    /\ linked = [t \in Threads |-> None]

-----------------------------------------------------------------------------
\* writeback_stage: a trap, or a rollback because of a miss or a full queue.
wb_rollback_en(t) == dd # None /\ dd.thread = t
wb_suspend_thread(t) == dd # None /\ dd.thread = t /\ dd.suspend

\* l1_l2_interface, response pipeline stage 2: the ways that hold the line of
\* the response, the way to update, and whom the response is for.
snoop_hit_ways == response_stage2.snoop
dupdate_way ==
    IF snoop_hit_ways # {} THEN CHOOSE w \in snoop_hit_ways : TRUE ELSE response_stage2.fill
dcache_update_en ==
    /\ response_stage2 # None
    /\ \/ response_stage2.mine /\ response_stage2.type \in {"load_ack", "store_ack"}
       \/ response_stage2.type = "dinvalidate_ack" /\ snoop_hit_ways # {}
ddata_update_en ==
    \/ dcache_update_en
    \/ /\ response_stage2 # None
       /\ response_stage2.type = "store_ack" /\ snoop_hit_ways # {}
dcache_l2_response(t) ==
    /\ response_stage2 # None /\ response_stage2.mine
    /\ response_stage2.type = "load_ack" /\ response_stage2.id = t
storebuf_l2_response(t) ==
    /\ response_stage2 # None /\ response_stage2.mine
    /\ response_stage2.type # "load_ack" /\ response_stage2.id = t

\* The tags and the data as a read in this cycle sees them (READ_DURING_WRITE
\* is "NEW_DATA").
tags_nxt ==
    IF dcache_update_en
    THEN [tags EXCEPT ![dupdate_way] =
            IF response_stage2.type = "dinvalidate_ack" THEN None ELSE response_stage2.line]
    ELSE tags
data_nxt ==
    IF ddata_update = None THEN data
    ELSE [data EXCEPT ![ddata_update.way] = ddata_update.data]

\* What dcache_data_stage or a snoop will find in the tags read in this cycle.
holding_before(a) == {w \in Ways : tags[w] = a}                       \* mutant
Holding(a) == {w \in Ways : tags_nxt[w] = a}

\* dcache_data_stage: what the instruction asks for, unless it is squashed by a
\* rollback of its thread.
instruction_valid == dt # None /\ ~wb_rollback_en(dt.thread)
cached_load_req == instruction_valid /\ dt.op \in LoadOps
tlb_miss == instruction_valid /\ ~dt.tlb_hit
Asks(t, ops) == instruction_valid /\ dt.thread = t /\ dt.op \in ops /\ dt.tlb_hit
dd_store_en(t) == Asks(t, StoreOps)
dd_control_en(t) == Asks(t, ControlOps)
dd_membar_en(t) == Asks(t, {"membar"})

way_hits == dt.ways
cache_hit ==
    /\ way_hits # {}
    /\ dt.op = "load_sync" => dd_load_sync_pending[dt.thread]
    /\ dt.tlb_hit
never_near_miss == FALSE                                             \* mutant
cache_near_miss ==
    /\ cached_load_req /\ ~cache_hit /\ dt.tlb_hit
    /\ dcache_update_en /\ response_stage2.line = dt.line
    /\ dt.op # "load_sync"
dd_cache_miss == cached_load_req /\ ~cache_hit /\ dt.tlb_hit /\ ~cache_near_miss

-----------------------------------------------------------------------------
\* l1_l2_interface: load misses are sent before stores, if the L2 is ready.
UnsentMisses ==
    {t \in Threads : pending_entries[t].valid /\ ~pending_entries[t].request_sent}
UnsentStores ==
    {t \in Threads : pending_stores[t].valid /\ ~pending_stores[t].request_sent}
Nothing == [queue |-> None, id |-> None]
Sends ==
    {Nothing} \cup
    IF UnsentMisses # {} THEN [queue : {"miss"}, id : UnsentMisses]
                         ELSE [queue : {"store"}, id : UnsentStores]
Request(send) ==
    CASE send.queue = "miss" ->
            LET e == pending_entries[send.id]
            IN {[op |-> IF e.sync THEN "load_sync" ELSE "load", id |-> send.id,
                 line |-> e.line, lanes |-> NoLanes]}
      [] send.queue = "store" ->
            LET e == pending_stores[send.id]
            IN {[op |-> e.op, id |-> send.id, line |-> e.line, lanes |-> e.lanes]}
      [] OTHER -> {}

-----------------------------------------------------------------------------
\* l1_store_queue, one entry per thread.
combine_anytime(t, send) ==                                          \* mutant
    /\ pending_stores[t].valid /\ pending_stores[t].op \in StoreOps
    /\ dt.op = "store" /\ pending_stores[t].line = dt.line
    /\ ~pending_stores[t].request_sent
can_write_combine(t, send) ==
    /\ pending_stores[t].valid /\ pending_stores[t].op \in StoreOps
    /\ dt.op = "store" /\ pending_stores[t].line = dt.line
    /\ ~pending_stores[t].request_sent
    /\ send # [queue |-> "store", id |-> t]
restarted_sync_request(t) ==
    /\ pending_stores[t].valid /\ pending_stores[t].response_received
    /\ pending_stores[t].op = "store_sync"
update_store_entry(t, send) ==
    /\ dd_store_en(t)
    /\ ~pending_stores[t].valid \/ can_write_combine(t, send) \/ storebuf_l2_response(t)
    /\ ~restarted_sync_request(t)
enqueue_cache_control(t) ==
    dd_control_en(t) /\ (~pending_stores[t].valid \/ storebuf_l2_response(t))
membar_passes(t, send) ==                                            \* mutant
    LET full == pending_stores[t].valid /\ ~storebuf_l2_response(t)
    IN CASE dd_store_en(t) /\ dt.op = "store_sync" -> ~restarted_sync_request(t)
         [] dd_store_en(t) /\ dt.op = "store" -> full /\ ~can_write_combine(t, send)
         [] dd_control_en(t) -> full
         [] OTHER -> FALSE
sq_rollback(t, send) ==
    LET full == pending_stores[t].valid /\ ~storebuf_l2_response(t)
    IN CASE dd_store_en(t) /\ dt.op = "store_sync" -> ~restarted_sync_request(t)
         [] dd_store_en(t) /\ dt.op = "store" -> full /\ ~can_write_combine(t, send)
         [] dd_control_en(t) \/ dd_membar_en(t) -> full
         [] OTHER -> FALSE
sq_wake(t) == storebuf_l2_response(t) /\ pending_stores[t].thread_waiting

\* The entry after the clock edge.
StoreEntry(t, send) ==
    LET e == pending_stores[t]
        waiting == ~sq_wake(t) /\ (e.thread_waiting \/ sq_rollback(t, send))
        new == [NoStore EXCEPT !.valid = TRUE, !.op = dt.op, !.line = dt.line,
                               !.lanes = dt.lanes]
        sent == [e EXCEPT !.request_sent = @ \/ send = [queue |-> "store", id |-> t]]
        next == CASE dd_store_en(t) /\ restarted_sync_request(t) -> NoStore
                  [] update_store_entry(t, send) /\ can_write_combine(t, send) ->
                        [sent EXCEPT !.lanes = Merge(@, dt.lanes)]
                  [] update_store_entry(t, send) /\ ~can_write_combine(t, send) -> new
                  [] enqueue_cache_control(t) -> new
                  [] storebuf_l2_response(t) /\ ~update_store_entry(t, send)
                        /\ ~enqueue_cache_control(t)
                        /\ ~(dd_store_en(t) /\ restarted_sync_request(t)) ->
                        IF e.op = "store_sync" THEN [sent EXCEPT !.response_received = TRUE]
                                               ELSE NoStore
                  [] OTHER -> sent
    IN [next EXCEPT !.thread_waiting = waiting]

-----------------------------------------------------------------------------
\* l1_load_miss_queue: a miss joins the entry of the same line, unless one of
\* the two is synchronized, and else takes the entry of its thread.
collided_miss(t) ==
    /\ pending_entries[t].valid /\ pending_entries[t].line = dt.line
    /\ ~pending_entries[t].sync /\ dt.op # "load_sync"
request_unique == \A t \in Threads : ~collided_miss(t)
wake_bitmap(t) == {u \in Threads : dcache_l2_response(t) /\ u \in pending_entries[t].waiting_threads}
MissEntry(t, send) ==
    LET e == pending_entries[t]
        joined == [e EXCEPT !.waiting_threads =
                        @ \cup {u \in Threads : dd_cache_miss /\ collided_miss(t)
                                                /\ u = dt.thread}]
    IN CASE send = [queue |-> "miss", id |-> t] -> [joined EXCEPT !.request_sent = TRUE]
         [] send # [queue |-> "miss", id |-> t] /\ dd_cache_miss /\ dt.thread = t
                /\ request_unique ->
                [valid |-> TRUE, line |-> dt.line, sync |-> dt.op = "load_sync",
                 request_sent |-> FALSE, waiting_threads |-> {t}]
         [] send # [queue |-> "miss", id |-> t] /\ dcache_l2_response(t)
                /\ ~(dd_cache_miss /\ dt.thread = t /\ request_unique) -> NoMiss
         [] OTHER -> joined

\* thread_select_stage.
l2i_dcache_wake(t) == sq_wake(t) \/ \E u \in Threads : t \in wake_bitmap(u)
blocked_nxt(t) ==
    (thread_blocked[t] \/ wb_suspend_thread(t)) /\ ~l2i_dcache_wake(t)

-----------------------------------------------------------------------------
\* The instruction entering dcache_tag_stage: none, or one of a thread that is
\* neither blocked nor rolled back in this cycle.  A rolled back thread restarts
\* with the same instruction unless an interrupt comes first, which a pending
\* synchronized access prevents (instruction_decode_stage).  A synchronized
\* store follows a synchronized load of its line.
masked_interrupt(t) ==
    dd_load_sync_pending[t] \/ (pending_stores[t].valid /\ pending_stores[t].op = "store_sync")
issue_unmasked(t) ==                                                 \* mutant
    IF thread_blocked[t] \/ wb_rollback_en(t) THEN {}
    ELSE {i \in Program[t] : i.op = "store_sync" =>
                                linked[t] # None /\ linked[t].line = i.line}
can_issue(t) ==
    IF thread_blocked[t] \/ wb_rollback_en(t) THEN {}
    ELSE IF retry[t] # None /\ masked_interrupt(t) THEN {retry[t]}
    ELSE {i \in Program[t] : i.op = "store_sync" =>
                                linked[t] # None /\ linked[t].line = i.line}
Enter(t, i, hit) ==
    [thread |-> t, op |-> i.op, line |-> i.line, lanes |-> i.lanes, tlb_hit |-> hit,
     ways |-> IF i.op \in LoadOps THEN Holding(i.line) ELSE {}]
TagStage ==
    {None} \cup UNION {{Enter(t, i, hit) : i \in can_issue(t), hit \in BOOLEAN} : t \in Threads}

\* The L2 cache does a request, and answers.  A line is invalidated
\* after it was written back, so that no store is dropped with it.
Ack == [load |-> "load_ack", load_sync |-> "load_ack", store |-> "store_ack",
        store_sync |-> "store_ack", flush |-> "flush_ack", dinvalidate |-> "dinvalidate_ack"]
Writes(r) ==
    r.op = "store" \/ (r.op = "store_sync" /\ load_sync_address[r.id] = r.line)
reserve_forever(r) ==                                                \* mutant
    [t \in Threads |->
        IF r.op = "load_sync" /\ t = r.id THEN r.line
        ELSE IF Writes(r) /\ t = r.id THEN None ELSE load_sync_address[t]]
Reservations(r) ==
    [t \in Threads |->
        IF r.op = "load_sync" /\ t = r.id THEN r.line
        ELSE IF Writes(r) /\ load_sync_address[t] = r.line THEN None
        ELSE load_sync_address[t]]
Perform(r) ==
    /\ mem' = [mem EXCEPT ![r.line] = IF Writes(r) THEN Merge(@, r.lanes) ELSE @]
    /\ load_sync_address' = Reservations(r)
    /\ \E w \in IF Holding(r.line) = {} THEN Ways ELSE {None} :
        response_stage2' = [type |-> Ack[r.op], mine |-> r.id # None, id |-> r.id,
                            line |-> r.line, data |-> mem'[r.line], old |-> mem[r.line],
                            snoop |-> Holding(r.line), fill |-> w]
L2Step(send) ==
    \/ /\ UNCHANGED <<mem, load_sync_address>>
       /\ response_stage2' = None
       /\ requests' = requests \cup Request(send)
    \/ \E r \in requests :
        /\ Perform(r)
        /\ requests' = (requests \ {r}) \cup Request(send)
    \/ \E f \in Foreign :
        /\ Perform([op |-> "store", id |-> None, line |-> f.line, lanes |-> f.lanes])
        /\ requests' = requests \cup Request(send)
Performed == requests \ requests'

-----------------------------------------------------------------------------
\* A load that is not rolled back returns this (writeback_stage merges the
\* thread's pending store into what the cache holds).
no_bypass(t, a) == NoLanes                                           \* mutant
store_bypass(t, a) ==
    IF pending_stores[t].valid /\ pending_stores[t].line = a /\ pending_stores[t].op \in StoreOps
    THEN pending_stores[t].lanes ELSE NoLanes
load_value ==
    Merge(data_nxt[CHOOSE w \in way_hits : TRUE], store_bypass(dt.thread, dt.line))

\* dcache_data_stage and writeback_stage at the clock edge.
DataStage(send) ==
    LET t == dt.thread
        trap == tlb_miss
        full == instruction_valid /\ sq_rollback(t, send)
        missed == cached_load_req /\ ~cache_hit /\ dt.tlb_hit
        done == instruction_valid /\ ~trap /\ ~full /\ ~missed
    IN IF ~instruction_valid
       THEN dd' = None /\ UNCHANGED <<dd_load_sync_pending, linked>>
       ELSE /\ dd' = IF done THEN None
                     ELSE [thread |-> t, trap |-> trap, suspend |-> full \/ dd_cache_miss]
            /\ dd_load_sync_pending' =
                IF cached_load_req /\ dt.op = "load_sync"
                THEN [dd_load_sync_pending EXCEPT ![t] = ~@] ELSE dd_load_sync_pending
            /\ linked' =
                IF dt.op # "load_sync" THEN linked
                ELSE [linked EXCEPT ![t] = IF ~done THEN None
                                           ELSE [line |-> dt.line, data |-> load_value]]

Retry(i) == [op |-> i.op, line |-> i.line, lanes |-> i.lanes]
Restart ==
    retry' = [t \in Threads |->
        IF instruction_valid /\ dt.thread = t
        THEN IF dd' # None /\ ~dd'.trap THEN Retry(dt) ELSE None
        ELSE IF dt' # None /\ dt'.thread = t THEN None ELSE retry[t]]

\* Stores the threads have retired and the L2 cache has not done.
Owe(send) ==
    owed' = [t \in Threads |-> [a \in Lines |->
        LET did == {r \in Performed : r.op = "store" /\ r.id = t /\ r.line = a}
            left == [l \in Lanes |->
                        IF \E r \in did : r.lanes[l] = owed[t][a][l] THEN None ELSE owed[t][a][l]]
        IN IF dd_store_en(t) /\ dt.op = "store" /\ dt.line = a /\ ~sq_rollback(t, send)
           THEN Merge(left, dt.lanes) ELSE left]]

Clock(send) ==
    /\ DataStage(send)
    /\ tags' = tags_nxt
    /\ data' = data_nxt
    /\ ddata_update' = IF ddata_update_en
                       THEN [way |-> dupdate_way, data |-> response_stage2.data] ELSE None
    /\ pending_stores' = [t \in Threads |-> StoreEntry(t, send)]
    /\ pending_entries' = [t \in Threads |-> MissEntry(t, send)]
    /\ thread_blocked' = [t \in Threads |-> blocked_nxt(t)]
    /\ L2Step(send)
    /\ Owe(send)
    /\ dt' \in {i \in TagStage : i # None => i.tlb_hit \/ i.op \in MissOps}
    /\ Restart

Next == \E send \in Sends : Clock(send)
Spec == Init /\ [][Next]_vars

-----------------------------------------------------------------------------
\* An entry that collided_miss_oh would find for the address a.
Misses(t, a) ==
    pending_entries[t].valid /\ pending_entries[t].line = a /\ ~pending_entries[t].sync

\* The assertions about more than one flip-flop hold in every cycle, the one on
\* collided_miss_oh whatever address cache_miss_addr has when nothing misses:
\* l1_store_queue.sv 184, 196-202, 237-241, 285-289 and 358,
\* l1_load_miss_queue.sv 127-128, 137-138, 149 and 160, l1_l2_interface.sv 253
\* and 374, dcache_data_stage.sv 590 and thread_select_stage.sv 274-277.
AssertionsHold ==
    /\ \A t \in Threads : LET e == pending_stores[t] IN
        /\ Asks(t, StoreOps \cup ControlOps \cup {"membar"}) => ~e.thread_waiting
        /\ dd_store_en(t) /\ e.valid /\ e.op = "store_sync" =>
            e.response_received /\ dt.op = "store_sync" /\ dt.line = e.line
        /\ dd_store_en(t) /\ restarted_sync_request(t) => ~storebuf_l2_response(t)
        /\ storebuf_l2_response(t) => e.valid /\ e.request_sent /\ ~e.response_received
        /\ \A send \in Sends : ~(sq_wake(t) /\ sq_rollback(t, send))
    /\ \A t \in Threads : LET e == pending_entries[t] IN
        /\ dd_cache_miss /\ dt.thread = t /\ request_unique =>
            ~e.valid /\ ~dcache_l2_response(t)
        /\ dcache_l2_response(t) => e.valid /\ e.request_sent
        /\ dd_cache_miss /\ collided_miss(t) => ~dcache_l2_response(t)
    /\ \A a \in Lines : Cardinality({t \in Threads : Misses(t, a)}) <= 1
    /\ \A t, u \in Threads : ~(sq_wake(t) /\ t \in wake_bitmap(u))
    /\ response_stage2 # None => Cardinality(snoop_hit_ways) <= 1
    /\ cached_load_req => Cardinality(way_hits) <= 1
    /\ \A t \in Threads :
        /\ ~(wb_suspend_thread(t) /\ thread_blocked[t])
        /\ l2i_dcache_wake(t) => thread_blocked[t] \/ wb_suspend_thread(t)

\* A thread that is suspended, or will be at the next clock edge, waits in an
\* entry that a response of the L2 cache will answer, so that it is woken.
NoLostWakeup ==
    \A t \in Threads :
        blocked_nxt(t) =>
            \/ pending_stores[t].valid /\ pending_stores[t].thread_waiting
            \/ \E u \in Threads : /\ pending_entries[u].valid
                                  /\ t \in pending_entries[u].waiting_threads

\* Once the responses in the pipeline have been applied, every line of the L1
\* data cache is what the L2 cache holds: no fill, write update or snoop is lost
\* because two responses follow each other (l1_l2_interface).
L1Coherent ==
    \A w \in DOMAIN tags :
        tags_nxt[w] # None =>
            LET d == IF ddata_update_en /\ dupdate_way = w
                     THEN response_stage2.data ELSE data_nxt[w]
            IN d = mem[tags_nxt[w]]

\* A load that hits returns, in every lane, the thread's own store if the L2
\* cache has not done it, and otherwise what the L2 cache holds, or held before
\* the response that is in stage 2 unless that response acknowledges a store of
\* the thread: a thread never loses sight of its own store between the store
\* queue, the response pipeline and the cache.
LoadsCoherent ==
    cached_load_req /\ cache_hit =>
        \A l \in Lanes :
            LET own == owed[dt.thread][dt.line][l]
                late == /\ response_stage2 # None /\ response_stage2.line = dt.line
                        /\ ~(storebuf_l2_response(dt.thread) /\ response_stage2.type = "store_ack")
            IN IF own # None THEN load_value[l] = own
               ELSE \/ load_value[l] = mem[dt.line][l]
                    \/ late /\ load_value[l] = response_stage2.old[l]

\* A store that was not rolled back stays in the store queue, with the value
\* that was stored last, until the L2 cache has done it: none is dropped or
\* overtaken when stores are combined while the entry is being sent.
StoresDelivered ==
    \A t \in Threads, a \in Lines, l \in Lanes :
        owed[t][a][l] # None =>
            /\ pending_stores[t].valid /\ pending_stores[t].op = "store"
            /\ pending_stores[t].line = a /\ pending_stores[t].lanes[l] = owed[t][a][l]
            /\ pending_stores[t].request_sent =>
                \E r \in requests : r.id = t /\ r.op = "store" /\ r.line = a
                                    /\ r.lanes[l] = owed[t][a][l]

\* A memory barrier that is not rolled back leaves no store of its thread that
\* the L2 cache has not done.
BarrierWaits ==
    \A t \in Threads, send \in Sends :
        dd_membar_en(t) /\ ~sq_rollback(t, send) =>
            \A a \in Lines : owed[t][a] = NoLanes

\* Load linked and store conditional: while the L2 cache would let a thread's
\* synchronized store succeed, the line still has the content the thread's last
\* synchronized load returned.
SyncAtomic ==
    \A r \in requests :
        r.op = "store_sync" /\ Writes(r) =>
            linked[r.id] = [line |-> r.line, data |-> mem[r.line]]

=============================================================================
