---------------------------- MODULE L1CacheProofs ----------------------------
(***************************************************************************)
(* Proofs about L1Cache, for any number of hardware threads, cache lines,  *)
(* ways and lanes, any programs of the threads and any stores of other     *)
(* cores.                                                                  *)
(***************************************************************************)
EXTENDS L1Cache, FiniteSetTheorems, TLAPS

StoreType == [valid : BOOLEAN, op : StoreOps \cup ControlOps \cup {None}, line : Lines \cup {None},
              lanes : Mask, request_sent : BOOLEAN, response_received : BOOLEAN,
              thread_waiting : BOOLEAN]
MissType == [valid : BOOLEAN, line : Lines \cup {None}, sync : BOOLEAN, request_sent : BOOLEAN,
             waiting_threads : SUBSET Threads]
Entered == [thread : Threads, op : LoadOps \cup StoreOps \cup ControlOps \cup {"membar"},
            line : Lines \cup {None}, lanes : Mask, tlb_hit : BOOLEAN, ways : SUBSET Ways]

L1TypeOK ==
    /\ dt \in Entered \cup {None}
    /\ dd \in Rollback \cup {None}
    /\ tags \in [Ways -> Lines \cup {None}] /\ data \in [Ways -> Content]
    /\ pending_stores \in [Threads -> StoreType] /\ pending_entries \in [Threads -> MissType]
    /\ thread_blocked \in [Threads -> BOOLEAN] /\ dd_load_sync_pending \in [Threads -> BOOLEAN]
    /\ retry \in [Threads -> Instr \cup {None}]
    /\ response_stage2 \in Response \cup {None} /\ ddata_update \in Update \cup {None}
    /\ requests \subseteq L2Request
    /\ mem \in [Lines -> Content]
    /\ load_sync_address \in [Threads -> Lines \cup {None}]
    /\ owed \in [Threads -> [Lines -> Mask]]
    /\ linked \in [Threads -> Link \cup {None}]

\* Thread t's instruction is in dcache_data_stage and not squashed.
Active(t) == instruction_valid /\ dt.thread = t

\* Thread t does not issue: it is blocked, or will be at the next clock edge.
Suspended(t) == thread_blocked[t] \/ wb_suspend_thread(t)

\* A thread with an instruction in the pipeline is not blocked; what the
\* instruction read of the tags is what the tags hold.
PipelineOK ==
    /\ dt # None =>
        /\ ~thread_blocked[dt.thread]
        /\ dt.line = None => dt.op = "membar"
        /\ dt.op = "store_sync" => dt.tlb_hit
        /\ dt.op \in LoadOps => dt.ways = {w \in Ways : tags[w] = dt.line}
    /\ dd # None /\ dd.suspend => ~thread_blocked[dd.thread]
    /\ \A t \in Threads : Active(t) => retry[t] = None

\* What a response says is what the L2 cache and the tags hold.
ResponseOK ==
    response_stage2 # None =>
        LET s == response_stage2 IN
        /\ mem[s.line] = s.data
        /\ s.snoop = {w \in Ways : tags[w] = s.line}
        /\ s.snoop = {} => s.fill \in Ways
        /\ s.type # "store_ack" => s.old = s.data
        /\ s.mine => s.id \in Threads
        /\ ~s.mine => s.type = "store_ack"
        /\ s.old # s.data => \A t \in Threads : load_sync_address[t] # s.line

\* A line is in one way, which has what the L2 cache held before the response
\* in stage 2.
CacheOK ==
    /\ \A w, v \in Ways : tags[w] = tags[v] /\ tags[w] # None => w = v
    /\ \A w \in Ways :
        tags[w] # None =>
            data_nxt[w] = IF response_stage2 # None /\ response_stage2.line = tags[w]
                          THEN response_stage2.old ELSE mem[tags[w]]

InMiss(t, u) == pending_entries[u].valid /\ t \in pending_entries[u].waiting_threads

\* A suspended thread waits in one entry, and only suspended threads wait.
WaitsOK ==
    \A t \in Threads :
        /\ pending_stores[t].thread_waiting => pending_stores[t].valid /\ Suspended(t)
        /\ \A u \in Threads : InMiss(t, u) => Suspended(t) /\ ~pending_stores[t].thread_waiting
        /\ \A u, v \in Threads : InMiss(t, u) /\ InMiss(t, v) => u = v
        /\ Suspended(t) => \/ pending_stores[t].thread_waiting
                           \/ \E u \in Threads : InMiss(t, u)

\* The miss queue has an entry for each line, and its own thread waits in it.
MissesOK ==
    /\ \A t \in Threads : LET m == pending_entries[t] IN
        m.valid => m.line # None /\ t \in m.waiting_threads
    /\ \A t, u \in Threads : LET m == pending_entries[t] n == pending_entries[u] IN
        m.valid /\ n.valid /\ ~m.sync /\ ~n.sync /\ m.line = n.line => t = u

LoadRequest(t) ==
    LET m == pending_entries[t] IN
    [op |-> IF m.sync THEN "load_sync" ELSE "load", id |-> t, line |-> m.line, lanes |-> NoLanes]
StoreRequest(t) ==
    LET e == pending_stores[t] IN
    [op |-> e.op, id |-> t, line |-> e.line, lanes |-> e.lanes]

StoreSent(t) ==
    LET e == pending_stores[t] IN e.valid /\ e.request_sent /\ ~e.response_received
MissSent(t) == pending_entries[t].valid /\ pending_entries[t].request_sent

\* An entry that was sent is a request in the L2 cache or a response in stage
\* 2, not both, and there are no other requests and responses.
RequestsOK ==
    /\ \A r \in requests :
        \/ r = LoadRequest(r.id) /\ MissSent(r.id) /\ ~dcache_l2_response(r.id)
        \/ r = StoreRequest(r.id) /\ StoreSent(r.id) /\ ~storebuf_l2_response(r.id)
    /\ \A t \in Threads :
        /\ pending_stores[t].valid =>
            pending_stores[t].op # None /\ pending_stores[t].line # None
        /\ pending_stores[t].response_received =>
            pending_stores[t].valid /\ pending_stores[t].request_sent
            /\ pending_stores[t].op = "store_sync"
        /\ StoreSent(t) => StoreRequest(t) \in requests \/ storebuf_l2_response(t)
        /\ MissSent(t) => LoadRequest(t) \in requests \/ dcache_l2_response(t)
        /\ dcache_l2_response(t) => MissSent(t) /\ response_stage2.line = pending_entries[t].line
        /\ storebuf_l2_response(t) =>
            /\ StoreSent(t) /\ response_stage2.line = pending_stores[t].line
            /\ response_stage2.type = Ack[pending_stores[t].op]
            /\ pending_stores[t].op = "store" =>
                response_stage2.data = Merge(response_stage2.old, pending_stores[t].lanes)

\* A plain store of t to line a that the L2 cache has not done.
Storing(t, a) ==
    /\ pending_stores[t].valid /\ pending_stores[t].op = "store" /\ pending_stores[t].line = a
    /\ ~storebuf_l2_response(t)

\* What a thread has stored and the L2 cache has not done is in its entry.
OwedOK ==
    \A t \in Threads, a \in Lines :
        owed[t][a] = IF Storing(t, a) THEN pending_stores[t].lanes ELSE NoLanes

\* A synchronized store keeps its entry until its thread comes back with the
\* same instruction; it follows a synchronized load that returned the line.
SyncStoreOK(t) ==
    LET e == pending_stores[t] IN
    e.valid /\ e.op = "store_sync" =>
        /\ e.thread_waiting <=> ~e.response_received
        /\ linked[t] # None /\ linked[t].line = e.line
        /\ Active(t) => e.response_received /\ dt.op = "store_sync" /\ dt.line = e.line
        /\ ~Active(t) => retry[t] # None /\ retry[t].op = "store_sync" /\ retry[t].line = e.line

\* What a synchronized load returned is what the L2 cache holds while the
\* reservation lasts, unless the thread has a store of its own to the line.
LinkOK(t) ==
    /\ dd_load_sync_pending[t] =>
        linked[t] = None /\ (retry[t] # None => retry[t].op # "store_sync")
    /\ Active(t) /\ dt.op = "store_sync" => linked[t] # None /\ linked[t].line = dt.line
    /\ pending_entries[t].valid /\ pending_entries[t].sync => linked[t] = None
    /\ linked[t] # None /\ load_sync_address[t] = linked[t].line =>
        linked[t].data = mem[linked[t].line] \/ Storing(t, linked[t].line)

SyncOK == \A t \in Threads : SyncStoreOK(t) /\ LinkOK(t)

L1IInv ==
    /\ L1TypeOK /\ PipelineOK /\ ResponseOK /\ CacheOK /\ WaitsOK /\ MissesOK /\ RequestsOK
    /\ OwedOK /\ SyncOK

-----------------------------------------------------------------------------
\* What the L2 cache may do: the requests it has, and the stores of others.
Foreigns == {[op |-> "store", id |-> None, line |-> f.line, lanes |-> f.lanes] : f \in Foreign}

LEMMA AckOf ==
    /\ Ack["load"] = "load_ack" /\ Ack["load_sync"] = "load_ack"
    /\ Ack["store"] = "store_ack" /\ Ack["store_sync"] = "store_ack"
    /\ Ack["flush"] = "flush_ack" /\ Ack["dinvalidate"] = "dinvalidate_ack"
BY DEF Ack

LEMMA MergeType == \A d \in Content, k \in Mask : Merge(d, k) \in Content
BY DEF Content, Mask, Merge

LEMMA MaskType ==
    /\ NoLanes \in Mask /\ \A k, n \in Mask : Merge(k, n) \in Mask
    /\ Reset \in Content
<1>1. (CHOOSE v \in Values : TRUE) \in Values
  BY ValuesAssumption
<1> QED
  BY <1>1 DEF Mask, NoLanes, Merge, Reset, Content

\* One of the ways that hold the line of a response is the one it updates, and
\* else the way that was chosen.
LEMMA UpdateWay ==
    ASSUME L1TypeOK, ResponseOK, CacheOK, response_stage2 # None
    PROVE  /\ dupdate_way \in Ways
           /\ snoop_hit_ways = {w \in Ways : tags[w] = response_stage2.line}
           /\ snoop_hit_ways # {} => snoop_hit_ways = {dupdate_way}
           /\ response_stage2.line \in Lines /\ response_stage2.data \in Content
<1>1. response_stage2 \in Response
  BY DEF L1TypeOK
<1>2. /\ snoop_hit_ways = {w \in Ways : tags[w] = response_stage2.line}
      /\ snoop_hit_ways = {} => response_stage2.fill \in Ways
      /\ response_stage2.line \in Lines /\ response_stage2.data \in Content
  BY <1>1 DEF ResponseOK, snoop_hit_ways, Response
<1>3. snoop_hit_ways # {} => (CHOOSE w \in snoop_hit_ways : TRUE) \in snoop_hit_ways
  OBVIOUS
<1>4. snoop_hit_ways # {} => dupdate_way \in snoop_hit_ways
  BY <1>3 DEF dupdate_way
<1>5. snoop_hit_ways = {} => dupdate_way \in Ways
  BY <1>2 DEF dupdate_way
<1>6. response_stage2.line # None
  BY <1>2, NoneAssumption
<1>7. \A w \in snoop_hit_ways : w \in Ways /\ tags[w] = response_stage2.line
  BY <1>2
<1>8. \A w, v \in snoop_hit_ways : w = v
  BY <1>6, <1>7 DEF CacheOK
<1> QED
  BY <1>2, <1>4, <1>5, <1>7, <1>8

LEMMA TagsNext ==
    ASSUME L1TypeOK, ResponseOK, CacheOK
    PROVE  /\ tags_nxt \in [Ways -> Lines \cup {None}] /\ data_nxt \in [Ways -> Content]
           /\ \A w, v \in Ways : tags_nxt[w] = tags_nxt[v] /\ tags_nxt[w] # None => w = v
<1>1. data_nxt \in [Ways -> Content]
  BY DEF L1TypeOK, data_nxt, Update
<1>2. CASE ~dcache_update_en
  BY <1>1, <1>2 DEF L1TypeOK, CacheOK, tags_nxt
<1>3. CASE dcache_update_en
  <2>1. response_stage2 # None
    BY <1>3 DEF dcache_update_en
  <2>2. PICK u \in Ways, a \in Lines \cup {None} :
          /\ tags_nxt = [tags EXCEPT ![u] = a] /\ u = dupdate_way
          /\ a # None => a = response_stage2.line
    BY <1>3, <2>1, UpdateWay DEF tags_nxt
  <2>3. tags_nxt \in [Ways -> Lines \cup {None}] /\ tags_nxt[u] = a
        /\ \A w \in Ways \ {u} : tags_nxt[w] = tags[w]
    BY <2>2 DEF L1TypeOK
  <2>4. \A w \in Ways \ {u} : tags[w] # response_stage2.line
    BY <2>1, <2>2, UpdateWay
  <2>5. \A w, v \in Ways : tags_nxt[w] = tags_nxt[v] /\ tags_nxt[w] # None => w = v
    BY <2>2, <2>3, <2>4 DEF CacheOK
  <2> QED
    BY <1>1, <2>3, <2>5
<1> QED
  BY <1>2, <1>3

\* The data of each way once ddata_update and the response in stage 2 have been
\* written.
settled(w) == IF ddata_update_en /\ dupdate_way = w THEN response_stage2.data ELSE data_nxt[w]

\* Every line is what the L2 cache holds once the responses have been applied.
LEMMA Settled ==
    ASSUME L1TypeOK, ResponseOK, CacheOK, NEW w \in Ways, tags_nxt[w] # None
    PROVE  settled(w) = mem[tags_nxt[w]]
<1>1. tags \in [Ways -> Lines \cup {None}]
  BY DEF L1TypeOK
<1>2. CASE response_stage2 = None
  BY <1>2 DEF settled, ddata_update_en, dcache_update_en, tags_nxt, CacheOK
<1>3. CASE response_stage2 # None
  <2>1. PICK s \in Response : s = response_stage2
    BY <1>3 DEF L1TypeOK
  <2>2. /\ dupdate_way \in Ways
        /\ snoop_hit_ways = {v \in Ways : tags[v] = s.line}
        /\ snoop_hit_ways # {} => snoop_hit_ways = {dupdate_way}
    BY <1>3, <2>1, UpdateWay
  <2>3. mem[s.line] = s.data /\ (s.type # "store_ack" => s.old = s.data) /\ (~s.mine => s.type = "store_ack")
    BY <1>3, <2>1 DEF ResponseOK
  <2>4. CASE dcache_update_en /\ dupdate_way = w
    <3>1. tags_nxt[w] = s.line
      BY <1>1, <2>1, <2>4 DEF tags_nxt
    <3> QED
      BY <2>1, <2>3, <2>4, <3>1 DEF settled, ddata_update_en
  <2>5. CASE ~(dcache_update_en /\ dupdate_way = w)
    <3>1. tags_nxt[w] = tags[w]
      BY <1>1, <2>2, <2>5 DEF tags_nxt
    <3>2. CASE tags[w] # s.line
      <4>1. w \notin snoop_hit_ways
        BY <2>2, <3>2
      <4>2. ~(ddata_update_en /\ dupdate_way = w)
        BY <2>2, <2>5, <4>1 DEF ddata_update_en
      <4> QED
        BY <2>1, <3>1, <3>2, <4>2 DEF settled, CacheOK
    <3>3. CASE tags[w] = s.line
      <4>1. snoop_hit_ways # {} /\ dupdate_way = w
        BY <2>2, <3>3
      <4>2. ~dcache_update_en
        BY <2>5, <4>1
      <4>3. s.type = "store_ack" => ddata_update_en
        BY <1>3, <2>1, <4>1 DEF ddata_update_en
      <4>4. data_nxt[w] = s.old
        BY <1>3, <2>1, <3>1, <3>3 DEF CacheOK
      <4> QED
        BY <2>1, <2>3, <3>1, <3>3, <4>1, <4>3, <4>4 DEF settled
    <3> QED
      BY <3>2, <3>3
  <2> QED
    BY <2>4, <2>5
<1> QED
  BY <1>2, <1>3

\* The request that leaves the core in a cycle.
LEMMA RequestOf ==
    ASSUME L1TypeOK, NEW send \in Sends
    PROVE  /\ \A t \in Threads : send = [queue |-> "miss", id |-> t] =>
                 /\ pending_entries[t].valid /\ ~pending_entries[t].request_sent
                 /\ Request(send) = {LoadRequest(t)}
           /\ \A t \in Threads : send = [queue |-> "store", id |-> t] =>
                 /\ pending_stores[t].valid /\ ~pending_stores[t].request_sent
                 /\ Request(send) = {StoreRequest(t)}
           /\ \/ Request(send) = {}
                 /\ \A t \in Threads : /\ send # [queue |-> "miss", id |-> t]
                                       /\ send # [queue |-> "store", id |-> t]
              \/ \E t \in Threads : send = [queue |-> "miss", id |-> t]
              \/ \E t \in Threads : send = [queue |-> "store", id |-> t]
<1> USE NoneAssumption
<1>1. \/ send = Nothing
      \/ \E t \in UnsentMisses : send = [queue |-> "miss", id |-> t]
      \/ \E t \in UnsentStores : send = [queue |-> "store", id |-> t]
  BY DEF Sends
<1>2. CASE send = Nothing
  <2>1. send.queue # "miss" /\ send.queue # "store"
    BY <1>2 DEF Nothing
  <2>2. \A t \in Threads : send # [queue |-> "miss", id |-> t] /\ send # [queue |-> "store", id |-> t]
    BY <2>1
  <2>3. Request(send) = {}
    BY <2>1 DEF Request
  <2> QED
    BY <2>2, <2>3
<1>3. ASSUME NEW t \in UnsentMisses, send = [queue |-> "miss", id |-> t]
      PROVE  /\ t \in Threads /\ pending_entries[t].valid /\ ~pending_entries[t].request_sent
             /\ Request(send) = {LoadRequest(t)}
             /\ \A u \in Threads : /\ send # [queue |-> "store", id |-> u]
                                   /\ send = [queue |-> "miss", id |-> u] => u = t
  <2>1. send.queue = "miss" /\ send.id = t
    BY <1>3
  <2>2. Request(send) = {LoadRequest(t)}
    BY <2>1 DEF Request, LoadRequest
  <2> QED
    BY <1>3, <2>1, <2>2 DEF UnsentMisses
<1>4. ASSUME NEW t \in UnsentStores, send = [queue |-> "store", id |-> t]
      PROVE  /\ t \in Threads /\ pending_stores[t].valid /\ ~pending_stores[t].request_sent
             /\ Request(send) = {StoreRequest(t)}
             /\ \A u \in Threads : /\ send # [queue |-> "miss", id |-> u]
                                   /\ send = [queue |-> "store", id |-> u] => u = t
  <2>1. send.queue = "store" /\ send.id = t
    BY <1>4
  <2>2. Request(send) = {StoreRequest(t)}
    BY <2>1 DEF Request, StoreRequest
  <2> QED
    BY <1>4, <2>1, <2>2 DEF UnsentStores
<1> QED
  BY <1>1, <1>2, <1>3, <1>4

\* What the L2 cache does in a cycle.
LEMMA L2Cases ==
    ASSUME L1TypeOK, NEW send, L2Step(send)
    PROVE  \/ /\ mem' = mem /\ load_sync_address' = load_sync_address
              /\ response_stage2' = None
              /\ requests' = requests \cup Request(send)
           \/ \E r \in requests \cup Foreigns :
                 Perform(r) /\ requests' = (requests \ {r}) \cup Request(send)
<1>1. \A f \in Foreign :
         LET r == [op |-> "store", id |-> None, line |-> f.line, lanes |-> f.lanes] IN
         r \in Foreigns /\ r \notin requests
  BY NoneAssumption DEF L1TypeOK, Foreigns, L2Request
<1>2. CASE \E f \in Foreign :
        /\ Perform([op |-> "store", id |-> None, line |-> f.line, lanes |-> f.lanes])
        /\ requests' = requests \cup Request(send)
  <2>1. PICK f \in Foreign :
        /\ Perform([op |-> "store", id |-> None, line |-> f.line, lanes |-> f.lanes])
        /\ requests' = requests \cup Request(send)
    BY <1>2
  <2>2. PICK r \in Foreigns : r = [op |-> "store", id |-> None, line |-> f.line, lanes |-> f.lanes]
    BY <1>1
  <2>3. requests \ {r} = requests
    BY <1>1, <2>2
  <2> QED
    BY <2>1, <2>2, <2>3
<1>3. CASE \E r \in requests : Perform(r) /\ requests' = (requests \ {r}) \cup Request(send)
  BY <1>3
<1> QED
  BY <1>2, <1>3 DEF L2Step

\* The L2 cache's answer to request r.
LEMMA Performs ==
    ASSUME L1TypeOK, ResponseOK, CacheOK, NEW r \in requests \cup Foreigns, Perform(r)
    PROVE  /\ r.line \in Lines /\ r.lanes \in Mask
           /\ r.op \in LoadOps \cup StoreOps \cup ControlOps
           /\ r.id = None => r.op = "store"
           /\ mem' \in [Lines -> Content]
           /\ mem'[r.line] = IF Writes(r) THEN Merge(mem[r.line], r.lanes) ELSE mem[r.line]
           /\ \A a \in Lines \ {r.line} : mem'[a] = mem[a]
           /\ response_stage2' \in Response /\ response_stage2' # None
           /\ response_stage2'.type = Ack[r.op]
           /\ response_stage2'.mine = (r.id # None) /\ response_stage2'.id = r.id
           /\ response_stage2'.line = r.line /\ response_stage2'.data = mem'[r.line]
           /\ response_stage2'.old = mem[r.line]
           /\ response_stage2'.snoop = {w \in Ways : tags_nxt[w] = r.line}
           /\ response_stage2'.snoop = {} => response_stage2'.fill \in Ways
           /\ load_sync_address' = Reservations(r)
<1> USE NoneAssumption
<1>1. /\ r.line \in Lines /\ r.lanes \in Mask /\ r.op \in LoadOps \cup StoreOps \cup ControlOps
      /\ r.id \in Threads \cup {None} /\ (r.id = None => r.op = "store")
  BY ForeignAssumption DEF L1TypeOK, L2Request, Foreigns, StoreOps
<1>2. /\ mem'[r.line] = IF Writes(r) THEN Merge(mem[r.line], r.lanes) ELSE mem[r.line]
      /\ \A a \in Lines \ {r.line} : mem'[a] = mem[a]
      /\ mem' \in [Lines -> Content]
  <2>1. PICK c \in Content : c = IF Writes(r) THEN Merge(mem[r.line], r.lanes) ELSE mem[r.line]
    BY <1>1, MergeType DEF L1TypeOK
  <2>2. mem' = [mem EXCEPT ![r.line] = c]
    BY <2>1 DEF Perform
  <2> QED
    BY <1>1, <2>1, <2>2 DEF L1TypeOK
<1>3. PICK w \in IF Holding(r.line) = {} THEN Ways ELSE {None} :
        response_stage2' = [type |-> Ack[r.op], mine |-> r.id # None, id |-> r.id,
                            line |-> r.line, data |-> mem'[r.line], old |-> mem[r.line],
                            snoop |-> Holding(r.line), fill |-> w]
  BY DEF Perform
<1>4. Holding(r.line) = {v \in Ways : tags_nxt[v] = r.line}
  BY DEF Holding
<1>5. Ack[r.op] \in {"load_ack", "store_ack", "flush_ack", "dinvalidate_ack"}
  BY <1>1, AckOf DEF LoadOps, StoreOps, ControlOps
<1>6. response_stage2' \in Response
  BY <1>1, <1>2, <1>3, <1>4, <1>5 DEF Response, L1TypeOK
<1>7. /\ response_stage2'.type = Ack[r.op]
      /\ response_stage2'.mine = (r.id # None) /\ response_stage2'.id = r.id
      /\ response_stage2'.line = r.line /\ response_stage2'.data = mem'[r.line]
      /\ response_stage2'.old = mem[r.line]
      /\ response_stage2'.snoop = {v \in Ways : tags_nxt[v] = r.line}
      /\ response_stage2'.snoop = {} => response_stage2'.fill \in Ways
  BY <1>3, <1>4
<1>8. response_stage2' # None
  BY <1>6
<1>9. load_sync_address' = Reservations(r)
  BY DEF Perform
<1> QED
  BY <1>1, <1>2, <1>6, <1>7, <1>8, <1>9

LEMMA RequestsTyped ==
    ASSUME L1TypeOK, RequestsOK, MissesOK, NEW send \in Sends
    PROVE  Request(send) \subseteq L2Request
<1> USE NoneAssumption
<1>1. ASSUME NEW t \in Threads, pending_entries[t].valid PROVE LoadRequest(t) \in L2Request
  <2>1. pending_entries[t].line \in Lines /\ pending_entries[t].sync \in BOOLEAN
    BY <1>1 DEF L1TypeOK, MissType, MissesOK
  <2> QED
    BY <2>1, MaskType DEF LoadRequest, L2Request, LoadOps
<1>2. ASSUME NEW t \in Threads, pending_stores[t].valid PROVE StoreRequest(t) \in L2Request
  <2>1. /\ pending_stores[t].line \in Lines /\ pending_stores[t].op \in StoreOps \cup ControlOps
        /\ pending_stores[t].lanes \in Mask
    BY <1>2 DEF L1TypeOK, StoreType, RequestsOK
  <2> QED
    BY <2>1 DEF StoreRequest, L2Request
<1> QED
  BY <1>1, <1>2, RequestOf

-----------------------------------------------------------------------------
\* The response pipeline, the cache and the memory after a clock edge.
LEMMA ResponseStep ==
    ASSUME L1IInv, NEW send \in Sends, Clock(send)
    PROVE  ResponseOK'
<1> USE NoneAssumption
<1>1. L1TypeOK /\ ResponseOK /\ CacheOK /\ tags' = tags_nxt /\ L2Step(send)
  BY DEF L1IInv, Clock
<1>2. CASE response_stage2' = None
  BY <1>2 DEF ResponseOK
<1>3. CASE response_stage2' # None
  <2>1. PICK r \in requests \cup Foreigns : Perform(r)
    BY <1>1, <1>3, L2Cases
  <2>2. PICK s : s = response_stage2'
    OBVIOUS
  <2>3. /\ s.type = Ack[r.op] /\ s.mine = (r.id # None) /\ s.id = r.id
        /\ s.line = r.line /\ s.data = mem'[r.line] /\ s.old = mem[r.line]
        /\ s.snoop = {w \in Ways : tags_nxt[w] = r.line} /\ (s.snoop = {} => s.fill \in Ways)
        /\ r.op \in LoadOps \cup StoreOps \cup ControlOps /\ (r.id = None => r.op = "store")
        /\ r.line \in Lines /\ load_sync_address' = Reservations(r)
        /\ (~Writes(r) => mem'[r.line] = mem[r.line])
    BY <1>1, <2>1, <2>2, Performs
  <2>4. s.type # "store_ack" => s.old = s.data
    <3>1. Writes(r) => Ack[r.op] = "store_ack"
      BY AckOf DEF Writes
    <3> QED
      BY <2>3, <3>1
  <2>5. s.mine => s.id \in Threads
    <3>1. r.id \in Threads \cup {None}
      BY <1>1 DEF L1TypeOK, L2Request, Foreigns
    <3> QED
      BY <2>3, <3>1
  <2>6. ~s.mine => s.type = "store_ack"
    BY <2>3, AckOf
  <2>7. s.old # s.data => \A t \in Threads : load_sync_address'[t] # s.line
    <3>1. s.old # s.data => Writes(r) /\ r.op # "load_sync"
      BY <2>3 DEF Writes
    <3> QED
      BY <2>3, <3>1 DEF Reservations
  <2>8. mem'[s.line] = s.data /\ s.snoop = {w \in Ways : tags'[w] = s.line}
    BY <1>1, <2>3
  <2> QED
    BY <2>2, <2>3, <2>4, <2>5, <2>6, <2>7, <2>8 DEF ResponseOK
<1> QED
  BY <1>2, <1>3

LEMMA CacheStep ==
    ASSUME L1IInv, NEW send \in Sends, Clock(send)
    PROVE  /\ CacheOK'
           /\ tags' \in [Ways -> Lines \cup {None}] /\ data' \in [Ways -> Content]
           /\ ddata_update' \in Update \cup {None}
<1> USE NoneAssumption
<1>1. /\ L1TypeOK /\ ResponseOK /\ CacheOK /\ tags' = tags_nxt /\ data' = data_nxt
      /\ ddata_update' = IF ddata_update_en
                         THEN [way |-> dupdate_way, data |-> response_stage2.data] ELSE None
      /\ L2Step(send)
  BY DEF L1IInv, Clock
<1>2. /\ tags_nxt \in [Ways -> Lines \cup {None}] /\ data_nxt \in [Ways -> Content]
      /\ \A w, v \in Ways : tags_nxt[w] = tags_nxt[v] /\ tags_nxt[w] # None => w = v
  BY <1>1, TagsNext
<1>3. ddata_update_en => response_stage2 # None /\ [way |-> dupdate_way, data |-> response_stage2.data] \in Update
  <2>1. ddata_update_en => response_stage2 # None
    BY DEF ddata_update_en, dcache_update_en
  <2> QED
    BY <1>1, <2>1, UpdateWay DEF Update
<1>4. ASSUME NEW w \in Ways PROVE data_nxt'[w] = settled(w)
  <2>1. CASE ddata_update_en
    <3>1. /\ ddata_update' # None /\ ddata_update'.way = dupdate_way
          /\ ddata_update'.data = response_stage2.data
      BY <1>1, <1>3, <2>1
    <3>2. data_nxt' = [data_nxt EXCEPT ![dupdate_way] = response_stage2.data]
      BY <1>1, <3>1 DEF data_nxt
    <3> QED
      BY <1>2, <2>1, <3>2 DEF settled
  <2>2. CASE ~ddata_update_en
    <3>1. data_nxt' = data_nxt
      BY <1>1, <2>2 DEF data_nxt
    <3> QED
      BY <2>2, <3>1 DEF settled
  <2> QED
    BY <2>1, <2>2
<1>5. ASSUME NEW w \in Ways, tags_nxt[w] # None
      PROVE  mem[tags_nxt[w]] = IF response_stage2' # None /\ response_stage2'.line = tags_nxt[w]
                                THEN response_stage2'.old ELSE mem'[tags_nxt[w]]
  <2>1. tags_nxt[w] \in Lines
    BY <1>2, <1>5
  <2>2. CASE response_stage2' = None
    BY <1>1, <2>2, L2Cases, Performs
  <2>3. CASE response_stage2' # None
    <3>1. PICK r \in requests \cup Foreigns : Perform(r)
      BY <1>1, <2>3, L2Cases
    <3>2. /\ response_stage2'.line = r.line /\ response_stage2'.old = mem[r.line]
          /\ \A a \in Lines \ {r.line} : mem'[a] = mem[a]
      BY <1>1, <3>1, Performs
    <3> QED
      BY <2>1, <2>3, <3>2
  <2> QED
    BY <2>2, <2>3
<1>6. ASSUME NEW w \in Ways, tags'[w] # None
      PROVE  data_nxt'[w] = IF response_stage2' # None /\ response_stage2'.line = tags'[w]
                            THEN response_stage2'.old ELSE mem'[tags'[w]]
  BY <1>1, <1>4, <1>5, <1>6, Settled
<1>7. CacheOK'
  BY <1>1, <1>2, <1>6 DEF CacheOK
<1> QED
  BY <1>1, <1>2, <1>3, <1>7

LEMMA MemoryTyped ==
    ASSUME L1IInv, NEW send \in Sends, Clock(send)
    PROVE  /\ response_stage2' \in Response \cup {None} /\ requests' \subseteq L2Request
           /\ mem' \in [Lines -> Content] /\ load_sync_address' \in [Threads -> Lines \cup {None}]
<1>1. L1TypeOK /\ ResponseOK /\ CacheOK /\ L2Step(send) /\ Request(send) \subseteq L2Request
  BY RequestsTyped DEF L1IInv, Clock
<1>2. CASE /\ mem' = mem /\ load_sync_address' = load_sync_address
           /\ response_stage2' = None /\ requests' = requests \cup Request(send)
  BY <1>1, <1>2 DEF L1TypeOK
<1>3. ASSUME NEW r \in requests \cup Foreigns, Perform(r), requests' = (requests \ {r}) \cup Request(send)
      PROVE  /\ response_stage2' \in Response \cup {None} /\ requests' \subseteq L2Request
             /\ mem' \in [Lines -> Content] /\ load_sync_address' \in [Threads -> Lines \cup {None}]
  <2>1. /\ r.line \in Lines /\ mem' \in [Lines -> Content] /\ response_stage2' \in Response
        /\ load_sync_address' = Reservations(r)
    BY <1>1, <1>3, Performs
  <2>2. Reservations(r) \in [Threads -> Lines \cup {None}]
    BY <1>1, <2>1 DEF Reservations, L1TypeOK
  <2>3. requests' \subseteq L2Request
    BY <1>1, <1>3 DEF L1TypeOK
  <2> QED
    BY <2>1, <2>2, <2>3
<1> QED
  BY <1>1, <1>2, <1>3, L2Cases

-----------------------------------------------------------------------------
\* A thread whose instruction is in dcache_data_stage waits nowhere.
LEMMA ActiveThread ==
    ASSUME L1IInv, NEW t \in Threads, Active(t)
    PROVE  /\ dt # None /\ dt \in Entered /\ dt.thread = t /\ retry[t] = None
           /\ ~wb_rollback_en(t) /\ ~Suspended(t) /\ ~pending_stores[t].thread_waiting
           /\ \A u \in Threads : ~InMiss(t, u)
           /\ ~pending_entries[t].valid
           /\ pending_stores[t].valid /\ pending_stores[t].op = "store_sync" =>
                 pending_stores[t].response_received /\ dt.op = "store_sync" /\ dt.line = pending_stores[t].line
<1>1. dt # None /\ dt.thread = t /\ ~wb_rollback_en(t) /\ ~thread_blocked[t] /\ retry[t] = None /\ dt \in Entered
  BY DEF Active, instruction_valid, L1IInv, PipelineOK, L1TypeOK
<1>2. ~Suspended(t)
  BY <1>1 DEF Suspended, wb_suspend_thread, wb_rollback_en
<1>3. ~pending_stores[t].thread_waiting /\ \A u \in Threads : ~InMiss(t, u)
  BY <1>2 DEF L1IInv, WaitsOK
<1>4. ~pending_entries[t].valid
  BY <1>3 DEF L1IInv, MissesOK, InMiss
<1>5. pending_stores[t].valid /\ pending_stores[t].op = "store_sync" =>
        pending_stores[t].response_received /\ dt.op = "store_sync" /\ dt.line = pending_stores[t].line
  BY DEF L1IInv, SyncOK, SyncStoreOK
<1> QED
  BY <1>1, <1>2, <1>3, <1>4, <1>5

LEMMA Asking ==
    ASSUME NEW t, NEW send
    PROVE  /\ dd_store_en(t) => Active(t) /\ dt.op \in StoreOps /\ dt.tlb_hit
           /\ dd_control_en(t) => Active(t) /\ dt.op \in ControlOps /\ dt.tlb_hit
           /\ dd_membar_en(t) => Active(t) /\ dt.op = "membar" /\ dt.tlb_hit
           /\ sq_rollback(t, send) => dd_store_en(t) \/ dd_control_en(t) \/ dd_membar_en(t)
           /\ dd_cache_miss => Active(dt.thread) /\ dt.op \in LoadOps /\ dt.tlb_hit
<1>1. /\ dd_store_en(t) => Active(t) /\ dt.op \in StoreOps /\ dt.tlb_hit
      /\ dd_control_en(t) => Active(t) /\ dt.op \in ControlOps /\ dt.tlb_hit
      /\ dd_membar_en(t) => Active(t) /\ dt.op = "membar" /\ dt.tlb_hit
  BY DEF dd_store_en, dd_control_en, dd_membar_en, Asks, Active
<1>2. sq_rollback(t, send) => dd_store_en(t) \/ dd_control_en(t) \/ dd_membar_en(t)
  BY DEF sq_rollback
<1>3. dd_cache_miss => Active(dt.thread) /\ dt.op \in LoadOps /\ dt.tlb_hit
  BY DEF dd_cache_miss, cached_load_req, Active
<1> QED
  BY <1>1, <1>2, <1>3

\* When the store queue makes an instruction wait.
LEMMA Rollbacks ==
    ASSUME NEW t, NEW send
    PROVE  /\ dd_store_en(t) /\ dt.op = "store_sync" =>
                 (sq_rollback(t, send) <=> ~restarted_sync_request(t))
           /\ dd_store_en(t) /\ dt.op = "store" =>
                 (sq_rollback(t, send) <=> /\ pending_stores[t].valid /\ ~storebuf_l2_response(t)
                                           /\ ~can_write_combine(t, send))
           /\ dd_control_en(t) \/ dd_membar_en(t) =>
                 (sq_rollback(t, send) <=> pending_stores[t].valid /\ ~storebuf_l2_response(t))
<1>1. dd_control_en(t) \/ dd_membar_en(t) => ~dd_store_en(t)
  BY DEF dd_store_en, dd_control_en, dd_membar_en, Asks, StoreOps, ControlOps
<1> QED
  BY <1>1 DEF sq_rollback

\* What a clock edge does to the entry e of a thread in the store queue: f is
\* the entry after it.
Kept(t, send, e, f) ==
    /\ ~storebuf_l2_response(t)
    /\ f.valid = e.valid /\ f.op = e.op /\ f.line = e.line /\ f.lanes = e.lanes
    /\ f.response_received = e.response_received
    /\ f.request_sent = (e.request_sent \/ send = [queue |-> "store", id |-> t])
    /\ dd_store_en(t) \/ dd_control_en(t) =>
          e.valid /\ sq_rollback(t, send) /\ e.op # "store_sync"
Combined(t, send, e, f) ==
    /\ ~storebuf_l2_response(t) /\ ~sq_rollback(t, send) /\ send # [queue |-> "store", id |-> t]
    /\ dd_store_en(t) /\ dt.op = "store" /\ dt.line = e.line
    /\ e.valid /\ e.op = "store" /\ ~e.request_sent /\ ~e.response_received
    /\ f.valid /\ f.op = "store" /\ f.line = e.line /\ f.lanes = Merge(e.lanes, dt.lanes)
    /\ ~f.request_sent /\ ~f.response_received
Enqueued(t, send, e, f) ==
    /\ ~e.valid \/ storebuf_l2_response(t)
    /\ send # [queue |-> "store", id |-> t]
    /\ dd_store_en(t) \/ dd_control_en(t)
    /\ sq_rollback(t, send) <=> dt.op = "store_sync"
    /\ f.valid /\ f.op = dt.op /\ f.line = dt.line /\ f.lanes = dt.lanes
    /\ ~f.request_sent /\ ~f.response_received
Received(t, send, e, f) ==
    /\ storebuf_l2_response(t) /\ ~Active(t) /\ e.op = "store_sync"
    /\ f.valid /\ f.op = e.op /\ f.line = e.line /\ f.lanes = e.lanes
    /\ f.request_sent /\ f.response_received
Cleared(t, send, e, f) ==
    /\ ~f.valid /\ ~f.request_sent /\ ~f.response_received
    /\ ~sq_rollback(t, send)
    /\ \/ storebuf_l2_response(t) /\ e.op # "store_sync" /\ ~dd_store_en(t) /\ ~dd_control_en(t)
       \/ /\ e.valid /\ e.op = "store_sync" /\ e.response_received /\ ~storebuf_l2_response(t)
          /\ dd_store_en(t) /\ dt.op = "store_sync"

LEMMA StoreCases ==
    ASSUME L1IInv, NEW send \in Sends, NEW t \in Threads,
           NEW e, e = pending_stores[t], NEW f, f = StoreEntry(t, send)
    PROVE  /\ f \in StoreType
           /\ f.thread_waiting = (~sq_wake(t) /\ (e.thread_waiting \/ sq_rollback(t, send)))
           /\ \/ Kept(t, send, e, f) \/ Combined(t, send, e, f) \/ Enqueued(t, send, e, f)
              \/ Received(t, send, e, f) \/ Cleared(t, send, e, f)
<1> USE NoneAssumption
<1> DEFINE ss == send = [queue |-> "store", id |-> t]
           waiting == ~sq_wake(t) /\ (e.thread_waiting \/ sq_rollback(t, send))
           new == [NoStore EXCEPT !.valid = TRUE, !.op = dt.op, !.line = dt.line, !.lanes = dt.lanes]
           sent == [e EXCEPT !.request_sent = @ \/ ss]
<1>1. e \in StoreType /\ L1TypeOK
  BY DEF L1IInv, L1TypeOK
<1>2. PICK w \in BOOLEAN : w = waiting
  BY <1>1 DEF StoreType
<1>3. /\ storebuf_l2_response(t) => e.valid /\ e.request_sent /\ ~e.response_received
      /\ e.response_received => e.valid /\ e.request_sent /\ e.op = "store_sync"
  BY DEF L1IInv, RequestsOK, StoreSent
<1>4. ss => e.valid /\ ~e.request_sent
  BY <1>1, RequestOf
<1>5. /\ sent \in StoreType /\ sent.valid = e.valid /\ sent.op = e.op /\ sent.line = e.line
      /\ sent.lanes = e.lanes /\ sent.response_received = e.response_received
      /\ sent.request_sent = (e.request_sent \/ ss)
  BY <1>1 DEF StoreType
<1>6. /\ NoStore \in StoreType /\ ~NoStore.valid /\ ~NoStore.request_sent /\ ~NoStore.response_received
  BY MaskType DEF NoStore, StoreType
<1>7. Active(t) => /\ ~e.thread_waiting /\ dt # None /\ dt \in Entered
                   /\ e.valid /\ e.op = "store_sync" => e.response_received /\ dt.op = "store_sync"
  BY ActiveThread
<1>8. dd_store_en(t) \/ dd_control_en(t) =>
        /\ new \in StoreType /\ new.valid /\ new.op = dt.op /\ new.line = dt.line /\ new.lanes = dt.lanes
        /\ ~new.request_sent /\ ~new.response_received
  <2>1. dd_store_en(t) \/ dd_control_en(t) => Active(t) /\ dt.op \in StoreOps \cup ControlOps
    BY Asking
  <2> QED
    BY <1>6, <1>7, <2>1 DEF StoreType, NoStore, Entered
<1>9. enqueue_cache_control(t) => ~dd_store_en(t)
  BY DEF enqueue_cache_control, dd_control_en, dd_store_en, Asks, StoreOps, ControlOps
<1>10. CASE dd_store_en(t) /\ restarted_sync_request(t)
  <2>1. ~update_store_entry(t, send) /\ ~enqueue_cache_control(t)
    BY <1>9, <1>10 DEF update_store_entry
  <2>2. f = [NoStore EXCEPT !.thread_waiting = w]
    BY <1>2, <1>10, <2>1 DEF StoreEntry
  <2>3. Active(t) /\ dt.op = "store_sync" /\ e.valid /\ e.response_received /\ e.op = "store_sync"
    BY <1>7, <1>10, Asking DEF restarted_sync_request
  <2>4. ~sq_rollback(t, send) /\ ~storebuf_l2_response(t)
    BY <1>3, <1>10, <2>3, Rollbacks
  <2>5. f \in StoreType /\ f.thread_waiting = w /\ ~f.valid /\ ~f.request_sent /\ ~f.response_received
    BY <1>6, <2>2 DEF StoreType
  <2> QED
    BY <1>2, <1>10, <2>3, <2>4, <2>5 DEF Cleared
<1>11. CASE update_store_entry(t, send) /\ can_write_combine(t, send)
  <2>1. ~(dd_store_en(t) /\ restarted_sync_request(t))
    BY <1>11 DEF update_store_entry
  <2>2. ~enqueue_cache_control(t)
    BY <1>9, <1>11 DEF update_store_entry
  <2>3. f = [[sent EXCEPT !.lanes = Merge(@, dt.lanes)] EXCEPT !.thread_waiting = w]
    BY <1>2, <1>11, <2>1, <2>2 DEF StoreEntry
  <2>4. /\ dd_store_en(t) /\ dt.op = "store" /\ dt.line = e.line /\ ~ss
        /\ e.valid /\ e.op \in StoreOps /\ ~e.request_sent
    BY <1>11 DEF can_write_combine, update_store_entry
  <2>5. Active(t) /\ e.op = "store" /\ ~storebuf_l2_response(t) /\ ~e.response_received
    BY <1>3, <1>7, <2>4, Asking DEF StoreOps
  <2>6. ~sq_rollback(t, send)
    BY <1>11, <2>4, Rollbacks
  <2>7. Merge(sent.lanes, dt.lanes) \in Mask
    BY <1>5, <1>7, <2>5, MaskType DEF StoreType, Entered
  <2>8. /\ f \in StoreType /\ f.thread_waiting = w /\ f.valid = sent.valid /\ f.op = sent.op /\ f.line = sent.line
        /\ f.lanes = Merge(sent.lanes, dt.lanes) /\ f.request_sent = sent.request_sent
        /\ f.response_received = sent.response_received
    <3> HIDE DEF sent
    <3> QED
      BY <1>5, <2>3, <2>7 DEF StoreType
  <2> QED
    BY <1>2, <1>5, <2>4, <2>5, <2>6, <2>8 DEF Combined
<1>12. CASE \/ update_store_entry(t, send) /\ ~can_write_combine(t, send)
            \/ enqueue_cache_control(t) /\ ~dd_store_en(t)
  <2>1. ~(dd_store_en(t) /\ restarted_sync_request(t))
    BY <1>12 DEF update_store_entry
  <2>2. f = [new EXCEPT !.thread_waiting = w]
    <3>1. CASE update_store_entry(t, send) /\ ~can_write_combine(t, send)
      BY <1>2, <2>1, <3>1 DEF StoreEntry
    <3>2. CASE enqueue_cache_control(t) /\ ~dd_store_en(t)
      <4>1. ~update_store_entry(t, send)
        BY <3>2 DEF update_store_entry
      <4> QED
        BY <1>2, <2>1, <3>2, <4>1 DEF StoreEntry
    <3> QED
      BY <1>12, <3>1, <3>2
  <2>3. /\ dd_store_en(t) \/ dd_control_en(t)
        /\ ~e.valid \/ storebuf_l2_response(t)
    BY <1>12 DEF update_store_entry, enqueue_cache_control
  <2>4. ~ss
    BY <1>3, <1>4, <2>3
  <2>5. sq_rollback(t, send) <=> dt.op = "store_sync"
    <3>1. CASE dd_store_en(t)
      <4>1. dt.op \in StoreOps /\ ~restarted_sync_request(t)
        BY <2>1, <3>1, Asking
      <4> QED
        BY <2>3, <3>1, <4>1, Rollbacks DEF StoreOps
    <3>2. CASE dd_control_en(t)
      <4>1. dt.op \in ControlOps
        BY <3>2, Asking
      <4> QED
        BY <2>3, <3>2, <4>1, Rollbacks DEF ControlOps
    <3> QED
      BY <2>3, <3>1, <3>2
  <2>6. /\ f \in StoreType /\ f.thread_waiting = w /\ f.valid = new.valid /\ f.op = new.op
        /\ f.line = new.line /\ f.lanes = new.lanes /\ f.request_sent = new.request_sent
        /\ f.response_received = new.response_received
    <3> HIDE DEF new
    <3> QED
      BY <1>8, <2>2, <2>3 DEF StoreType
  <2> QED
    BY <1>2, <1>8, <2>3, <2>4, <2>5, <2>6 DEF Enqueued
<1>13. CASE /\ storebuf_l2_response(t) /\ ~update_store_entry(t, send) /\ ~enqueue_cache_control(t)
            /\ ~(dd_store_en(t) /\ restarted_sync_request(t))
  <2>1. f = [(IF e.op = "store_sync" THEN [sent EXCEPT !.response_received = TRUE] ELSE NoStore)
                EXCEPT !.thread_waiting = w]
    BY <1>2, <1>13 DEF StoreEntry
  <2>2. ~dd_store_en(t) /\ ~dd_control_en(t)
    BY <1>13 DEF update_store_entry, enqueue_cache_control
  <2>3. CASE e.op = "store_sync"
    <3>1. ~Active(t)
      BY <1>3, <1>7, <1>13, <2>3
    <3>2. /\ f \in StoreType /\ f.thread_waiting = w /\ f.valid = sent.valid /\ f.op = sent.op
          /\ f.line = sent.line /\ f.lanes = sent.lanes /\ f.request_sent = sent.request_sent
          /\ f.response_received
      <4> HIDE DEF sent
      <4> QED
        BY <1>5, <2>1, <2>3 DEF StoreType
    <3> QED
      BY <1>2, <1>3, <1>5, <1>13, <2>3, <3>1, <3>2 DEF Received
  <2>4. CASE e.op # "store_sync"
    <3>1. f \in StoreType /\ f.thread_waiting = w /\ ~f.valid /\ ~f.request_sent /\ ~f.response_received
      BY <1>6, <2>1, <2>4 DEF StoreType
    <3>2. ~sq_rollback(t, send)
      BY <1>13, <2>2, Asking, Rollbacks
    <3> QED
      BY <1>2, <1>13, <2>2, <2>4, <3>1, <3>2 DEF Cleared
  <2> QED
    BY <2>3, <2>4
<1>14. CASE /\ ~storebuf_l2_response(t) /\ ~update_store_entry(t, send) /\ ~enqueue_cache_control(t)
            /\ ~(dd_store_en(t) /\ restarted_sync_request(t))
  <2>1. f = [sent EXCEPT !.thread_waiting = w]
    BY <1>2, <1>14 DEF StoreEntry
  <2>2. /\ f \in StoreType /\ f.thread_waiting = w /\ f.valid = sent.valid /\ f.op = sent.op
        /\ f.line = sent.line /\ f.lanes = sent.lanes /\ f.request_sent = sent.request_sent
        /\ f.response_received = sent.response_received
    <3> HIDE DEF sent
    <3> QED
      BY <1>5, <2>1 DEF StoreType
  <2>3. ASSUME dd_store_en(t) \/ dd_control_en(t) PROVE e.valid /\ sq_rollback(t, send) /\ e.op # "store_sync"
    <3>1. CASE dd_store_en(t)
      <4>1. e.valid /\ ~can_write_combine(t, send) /\ ~restarted_sync_request(t) /\ dt.op \in StoreOps /\ Active(t)
        BY <1>14, <3>1, Asking DEF update_store_entry
      <4>2. sq_rollback(t, send)
        BY <1>14, <3>1, <4>1, Rollbacks DEF StoreOps
      <4>3. e.op # "store_sync"
        BY <1>7, <4>1 DEF restarted_sync_request
      <4> QED
        BY <4>1, <4>2, <4>3
    <3>2. CASE dd_control_en(t)
      <4>1. e.valid /\ Active(t) /\ dt.op \in ControlOps
        BY <1>14, <3>2, Asking DEF enqueue_cache_control
      <4>2. sq_rollback(t, send)
        BY <1>14, <3>2, <4>1, Rollbacks
      <4>3. e.op # "store_sync"
        BY <1>7, <4>1 DEF ControlOps
      <4> QED
        BY <4>1, <4>2, <4>3
    <3> QED
      BY <2>3, <3>1, <3>2
  <2> QED
    BY <1>2, <1>5, <1>14, <2>2, <2>3 DEF Kept
<1> QED
  BY <1>9, <1>10, <1>11, <1>12, <1>13, <1>14

-----------------------------------------------------------------------------
\* A miss never joins an entry whose response is in stage 2: it is a near miss.
LEMMA JoinsBeforeResponse ==
    ASSUME L1IInv, NEW t \in Threads, dd_cache_miss, collided_miss(t)
    PROVE  ~dcache_l2_response(t)
<1> SUFFICES ASSUME dcache_l2_response(t) PROVE FALSE
  OBVIOUS
<1>1. response_stage2.line = pending_entries[t].line
  BY DEF L1IInv, RequestsOK
<1>2. dcache_update_en
  BY DEF dcache_l2_response, dcache_update_en
<1>3. cache_near_miss
  BY <1>1, <1>2 DEF cache_near_miss, dd_cache_miss, collided_miss
<1> QED
  BY <1>3 DEF dd_cache_miss

\* What a clock edge does to the entry m of a thread in the load miss queue: n
\* is the entry after it.
NewMiss(t) == dd_cache_miss /\ dt.thread = t /\ request_unique
Opened(t, send, m, n) ==
    /\ NewMiss(t) /\ ~m.valid /\ ~dcache_l2_response(t) /\ send # [queue |-> "miss", id |-> t]
    /\ n.valid /\ n.line = dt.line /\ n.sync = (dt.op = "load_sync") /\ ~n.request_sent
    /\ n.waiting_threads = {t}
Answered(t, send, m, n) ==
    dcache_l2_response(t) /\ ~NewMiss(t) /\ ~n.valid
Joined(t, send, m, n) ==
    /\ ~dcache_l2_response(t) /\ ~NewMiss(t)
    /\ n.valid = m.valid /\ n.line = m.line /\ n.sync = m.sync
    /\ n.request_sent = (m.request_sent \/ send = [queue |-> "miss", id |-> t])
    /\ \A u \in Threads :
          u \in n.waiting_threads <=>
              u \in m.waiting_threads \/ (dd_cache_miss /\ collided_miss(t) /\ u = dt.thread)

LEMMA MissCases ==
    ASSUME L1IInv, NEW send \in Sends, NEW t \in Threads,
           NEW m, m = pending_entries[t], NEW n, n = MissEntry(t, send)
    PROVE  /\ n \in MissType
           /\ Opened(t, send, m, n) \/ Answered(t, send, m, n) \/ Joined(t, send, m, n)
<1> USE NoneAssumption
<1> DEFINE joining == {u \in Threads : dd_cache_miss /\ collided_miss(t) /\ u = dt.thread}
           joined == [m EXCEPT !.waiting_threads = @ \cup joining]
<1>1. m \in MissType /\ L1TypeOK
  BY DEF L1IInv, L1TypeOK
<1>2. send = [queue |-> "miss", id |-> t] => m.valid /\ ~m.request_sent
  BY <1>1, RequestOf
<1>3. dcache_l2_response(t) => m.valid /\ m.request_sent
  BY DEF L1IInv, RequestsOK, MissSent
<1>4. NewMiss(t) => ~m.valid /\ dt \in Entered
  BY Asking, ActiveThread DEF NewMiss
<1>5. /\ joined \in MissType /\ joined.valid = m.valid /\ joined.line = m.line /\ joined.sync = m.sync
      /\ joined.request_sent = m.request_sent
      /\ joined.waiting_threads = m.waiting_threads \cup joining
  BY <1>1 DEF MissType
<1>6. CASE send = [queue |-> "miss", id |-> t]
  <2>1. n = [joined EXCEPT !.request_sent = TRUE]
    BY <1>6 DEF MissEntry
  <2>2. ~dcache_l2_response(t) /\ ~NewMiss(t)
    BY <1>2, <1>3, <1>4, <1>6
  <2>3. /\ n \in MissType /\ n.valid = joined.valid /\ n.line = joined.line /\ n.sync = joined.sync
        /\ n.request_sent /\ n.waiting_threads = joined.waiting_threads
    <3> HIDE DEF joined
    <3> QED
      BY <1>5, <2>1 DEF MissType
  <2> QED
    BY <1>1, <1>5, <1>6, <2>2, <2>3 DEF Joined, MissType
<1>7. CASE send # [queue |-> "miss", id |-> t] /\ NewMiss(t)
  <2>1. n = [valid |-> TRUE, line |-> dt.line, sync |-> dt.op = "load_sync",
             request_sent |-> FALSE, waiting_threads |-> {t}]
    BY <1>7 DEF MissEntry, NewMiss
  <2>2. dt.line \in Lines \cup {None}
    BY <1>4, <1>7 DEF Entered
  <2>3. n \in MissType
    BY <2>1, <2>2 DEF MissType
  <2> QED
    BY <1>3, <1>4, <1>7, <2>1, <2>3 DEF Opened
<1>8. CASE send # [queue |-> "miss", id |-> t] /\ ~NewMiss(t) /\ dcache_l2_response(t)
  <2>1. n = NoMiss
    BY <1>8 DEF MissEntry, NewMiss
  <2>2. n \in MissType /\ ~n.valid
    BY <2>1 DEF MissType, NoMiss
  <2> QED
    BY <1>8, <2>2 DEF Answered
<1>9. CASE send # [queue |-> "miss", id |-> t] /\ ~NewMiss(t) /\ ~dcache_l2_response(t)
  <2>1. n = joined
    BY <1>9 DEF MissEntry, NewMiss
  <2>2. m.request_sent \in BOOLEAN
    BY <1>1 DEF MissType
  <2>3. n.request_sent = (m.request_sent \/ send = [queue |-> "miss", id |-> t])
    <3> HIDE DEF joined
    <3> QED
      BY <1>5, <1>9, <2>1, <2>2
  <2>4. /\ n \in MissType /\ n.valid = m.valid /\ n.line = m.line /\ n.sync = m.sync
        /\ n.waiting_threads = m.waiting_threads \cup joining
    <3> HIDE DEF joined
    <3> QED
      BY <1>5, <2>1
  <2> QED
    BY <1>9, <2>3, <2>4 DEF Joined
<1> QED
  BY <1>6, <1>7, <1>8, <1>9

-----------------------------------------------------------------------------
\* What dcache_data_stage tells writeback_stage: its thread is rolled back when
\* the instruction traps, waits in the store queue or is a load that misses.
LEMMA DataStep ==
    ASSUME L1IInv, NEW send \in Sends, Clock(send)
    PROVE  /\ dd' \in Rollback \cup {None}
           /\ ~instruction_valid => dd' = None
           /\ \A t \in Threads : Active(t) =>
                 /\ dd' = None <=> /\ dt.tlb_hit /\ ~sq_rollback(t, send)
                                   /\ dt.op \in LoadOps => cache_hit
                 /\ dd' # None => /\ dd'.thread = t /\ (dd'.trap <=> ~dt.tlb_hit)
                                  /\ dd'.suspend <=> sq_rollback(t, send) \/ dd_cache_miss
           /\ \A t \in Threads :
                 /\ wb_rollback_en(t)' => Active(t)
                 /\ wb_suspend_thread(t)' <=> Active(t) /\ (sq_rollback(t, send) \/ dd_cache_miss)
<1> USE NoneAssumption
<1>1. L1TypeOK /\ DataStage(send)
  BY DEF L1IInv, Clock
<1>2. CASE ~instruction_valid
  <2>1. dd' = None /\ \A t \in Threads : ~Active(t)
    BY <1>1, <1>2 DEF DataStage, Active
  <2> QED
    BY <1>2, <2>1 DEF wb_rollback_en, wb_suspend_thread
<1>3. CASE instruction_valid
  <2>1. PICK t : t = dt.thread /\ t \in Threads /\ dt # None
    BY <1>1, <1>3 DEF instruction_valid, L1TypeOK, Entered
  <2>2. \A u \in Threads : Active(u) <=> u = t
    BY <1>3, <2>1 DEF Active
  <2>3. PICK full \in BOOLEAN : full <=> sq_rollback(t, send)
    OBVIOUS
  <2>4. PICK missed \in BOOLEAN : missed <=> dd_cache_miss
    OBVIOUS
  <2>5. PICK trap \in BOOLEAN : trap = ~dt.tlb_hit
    OBVIOUS
  <2>6. PICK done \in BOOLEAN : done = (~trap /\ ~full /\ (dt.op \in LoadOps => cache_hit))
    OBVIOUS
  <2>7. dd' = IF done THEN None ELSE [thread |-> t, trap |-> trap, suspend |-> full \/ missed]
    BY <1>1, <1>3, <2>1, <2>3, <2>4, <2>5, <2>6 DEF DataStage, tlb_miss, cached_load_req
  <2>8. missed => ~done
    BY <2>4, <2>6 DEF dd_cache_miss, cached_load_req
  <2>9. full \/ missed => ~done
    BY <2>6, <2>8
  <2>10. /\ dd' \in Rollback \cup {None} /\ (dd' = None <=> done)
         /\ dd' # None => dd'.thread = t /\ dd'.trap = trap /\ dd'.suspend = (full \/ missed)
    BY <2>1, <2>7 DEF Rollback
  <2>11. \A u \in Threads : /\ wb_rollback_en(u)' => u = t
                            /\ wb_suspend_thread(u)' <=> u = t /\ (full \/ missed)
    BY <2>9, <2>10 DEF wb_rollback_en, wb_suspend_thread
  <2> QED
    BY <1>3, <2>2, <2>3, <2>4, <2>5, <2>6, <2>10, <2>11
<1> QED
  BY <1>2, <1>3

\* The instruction that leaves dcache_tag_stage.
LEMMA TagStep ==
    ASSUME L1IInv, NEW send \in Sends, Clock(send), dt' # None
    PROVE  /\ dt' \in Entered
           /\ ~thread_blocked[dt'.thread] /\ ~wb_rollback_en(dt'.thread)
           /\ dt'.line = None => dt'.op = "membar"
           /\ dt'.op = "store_sync" => dt'.tlb_hit
           /\ dt'.op \in LoadOps => dt'.ways = {w \in Ways : tags_nxt[w] = dt'.line}
           /\ \E i \in can_issue(dt'.thread) : dt'.op = i.op /\ dt'.line = i.line
<1> USE NoneAssumption
<1>1. L1TypeOK /\ dt' \in TagStage /\ (dt'.tlb_hit \/ dt'.op \in MissOps)
  BY DEF L1IInv, Clock
<1>2. PICK t \in Threads, hit \in BOOLEAN : \E i \in can_issue(t) : dt' = Enter(t, i, hit)
  BY <1>1 DEF TagStage
<1>3. PICK i \in can_issue(t) : dt' = Enter(t, i, hit)
  BY <1>2
<1>4. ~thread_blocked[t] /\ ~wb_rollback_en(t)
  BY <1>3 DEF can_issue
<1>5. i \in Instr
  BY <1>1, <1>3, ProgramAssumption DEF can_issue, L1TypeOK
<1>6. /\ dt'.thread = t /\ dt'.op = i.op /\ dt'.line = i.line /\ dt'.lanes = i.lanes /\ dt'.tlb_hit = hit
      /\ dt'.ways = IF i.op \in LoadOps THEN {w \in Ways : tags_nxt[w] = i.line} ELSE {}
  BY <1>3 DEF Enter, Holding
<1>7. dt' \in Entered
  BY <1>3, <1>5 DEF Enter, Holding, Instr, Entered
<1>8. dt'.op = "store_sync" => dt'.tlb_hit
  BY <1>1, MissOpsAssumption DEF LoadOps, ControlOps
<1> QED
  BY <1>3, <1>4, <1>5, <1>6, <1>7, <1>8 DEF Instr

\* With what a rolled back thread restarts.
LEMMA RetryStep ==
    ASSUME L1IInv, NEW send \in Sends, Clock(send)
    PROVE  /\ retry' \in [Threads -> Instr \cup {None}]
           /\ \A t \in Threads :
                 /\ Active(t) /\ dd' # None /\ ~dd'.trap =>
                       retry'[t] # None /\ retry'[t].op = dt.op /\ retry'[t].line = dt.line
                 /\ Active(t) /\ ~(dd' # None /\ ~dd'.trap) => retry'[t] = None
                 /\ ~Active(t) /\ dt' # None /\ dt'.thread = t => retry'[t] = None
                 /\ ~Active(t) /\ ~(dt' # None /\ dt'.thread = t) => retry'[t] = retry[t]
<1> USE NoneAssumption
<1>1. L1TypeOK /\ PipelineOK /\ Restart
  BY DEF L1IInv, Clock
<1>2. instruction_valid => Retry(dt) \in Instr /\ Retry(dt).op = dt.op /\ Retry(dt).line = dt.line
  <2> SUFFICES ASSUME instruction_valid
               PROVE  Retry(dt) \in Instr /\ Retry(dt).op = dt.op /\ Retry(dt).line = dt.line
    OBVIOUS
  <2>1. dt \in Entered /\ (dt.line = None => dt.op = "membar")
    BY <1>1 DEF instruction_valid, L1TypeOK, PipelineOK
  <2> QED
    BY <2>1 DEF Retry, Instr, Entered
<1>3. retry' \in [Threads -> Instr \cup {None}]
  BY <1>1, <1>2 DEF Restart, L1TypeOK
<1> QED
  BY <1>1, <1>2, <1>3 DEF Restart, Active

LEMMA PipelineStep ==
    ASSUME L1IInv, NEW send \in Sends, Clock(send)
    PROVE  PipelineOK' /\ thread_blocked' \in [Threads -> BOOLEAN]
<1>1. thread_blocked' = [t \in Threads |-> blocked_nxt(t)] /\ tags' = tags_nxt /\ L1TypeOK
  BY DEF Clock, L1IInv
<1>2. \A t \in Threads : thread_blocked'[t] => Suspended(t)
  BY <1>1 DEF blocked_nxt, Suspended
<1>3. thread_blocked' \in [Threads -> BOOLEAN]
  BY <1>1 DEF blocked_nxt
<1>4. dt' # None =>
        /\ ~thread_blocked'[dt'.thread]
        /\ dt'.line = None => dt'.op = "membar"
        /\ dt'.op = "store_sync" => dt'.tlb_hit
        /\ dt'.op \in LoadOps => dt'.ways = {w \in Ways : tags'[w] = dt'.line}
  <2> SUFFICES ASSUME dt' # None
               PROVE  ~thread_blocked'[dt'.thread]
    BY <1>1, TagStep
  <2>1. dt'.thread \in Threads /\ ~thread_blocked[dt'.thread] /\ ~wb_rollback_en(dt'.thread)
    BY TagStep DEF Entered
  <2> QED
    BY <1>2, <2>1 DEF Suspended, wb_suspend_thread, wb_rollback_en
<1>5. dd' # None /\ dd'.suspend => ~thread_blocked'[dd'.thread]
  <2> SUFFICES ASSUME dd' # None, dd'.suspend PROVE ~thread_blocked'[dd'.thread]
    OBVIOUS
  <2>1. PICK t \in Threads : dd'.thread = t
    BY DataStep DEF Rollback
  <2>2. Active(t)
    BY <2>1, DataStep DEF wb_rollback_en
  <2> QED
    BY <1>2, <2>1, <2>2, ActiveThread
<1>6. ASSUME NEW t \in Threads, Active(t)' PROVE retry'[t] = None
  <2>1. dt' # None /\ dt'.thread = t /\ ~wb_rollback_en(t)'
    BY <1>6 DEF Active, instruction_valid
  <2>2. CASE Active(t)
    BY <2>1, <2>2, DataStep, RetryStep DEF wb_rollback_en
  <2>3. CASE ~Active(t)
    BY <2>1, <2>3, RetryStep
  <2> QED
    BY <2>2, <2>3
<1> QED
  BY <1>3, <1>4, <1>5, <1>6 DEF PipelineOK

-----------------------------------------------------------------------------
\* The queues after a clock edge, entry by entry.
LEMMA Queues ==
    ASSUME L1IInv, NEW send \in Sends, Clock(send)
    PROVE  /\ pending_stores' \in [Threads -> StoreType] /\ pending_entries' \in [Threads -> MissType]
           /\ \A t \in Threads :
                 /\ pending_stores'[t].thread_waiting =
                       (~sq_wake(t) /\ (pending_stores[t].thread_waiting \/ sq_rollback(t, send)))
                 /\ \/ Kept(t, send, pending_stores[t], pending_stores'[t])
                    \/ Combined(t, send, pending_stores[t], pending_stores'[t])
                    \/ Enqueued(t, send, pending_stores[t], pending_stores'[t])
                    \/ Received(t, send, pending_stores[t], pending_stores'[t])
                    \/ Cleared(t, send, pending_stores[t], pending_stores'[t])
                 /\ \/ Opened(t, send, pending_entries[t], pending_entries'[t])
                    \/ Answered(t, send, pending_entries[t], pending_entries'[t])
                    \/ Joined(t, send, pending_entries[t], pending_entries'[t])
<1>1. /\ pending_stores' = [t \in Threads |-> StoreEntry(t, send)]
      /\ pending_entries' = [t \in Threads |-> MissEntry(t, send)]
  BY DEF Clock
<1>2. ASSUME NEW t \in Threads
      PROVE  /\ pending_stores'[t] = StoreEntry(t, send) /\ pending_stores'[t] \in StoreType
             /\ pending_stores'[t].thread_waiting =
                   (~sq_wake(t) /\ (pending_stores[t].thread_waiting \/ sq_rollback(t, send)))
             /\ \/ Kept(t, send, pending_stores[t], pending_stores'[t])
                \/ Combined(t, send, pending_stores[t], pending_stores'[t])
                \/ Enqueued(t, send, pending_stores[t], pending_stores'[t])
                \/ Received(t, send, pending_stores[t], pending_stores'[t])
                \/ Cleared(t, send, pending_stores[t], pending_stores'[t])
  <2>1. pending_stores'[t] = StoreEntry(t, send)
    BY <1>1
  <2> QED
    BY <2>1, StoreCases
<1>3. ASSUME NEW t \in Threads
      PROVE  /\ pending_entries'[t] = MissEntry(t, send) /\ pending_entries'[t] \in MissType
             /\ \/ Opened(t, send, pending_entries[t], pending_entries'[t])
                \/ Answered(t, send, pending_entries[t], pending_entries'[t])
                \/ Joined(t, send, pending_entries[t], pending_entries'[t])
  <2>1. pending_entries'[t] = MissEntry(t, send)
    BY <1>1
  <2> QED
    BY <2>1, MissCases
<1>4. pending_stores' \in [Threads -> StoreType]
  BY <1>1, <1>2
<1>5. pending_entries' \in [Threads -> MissType]
  BY <1>1, <1>3
<1> QED
  BY <1>2, <1>3, <1>4, <1>5

\* The entry a miss waits in: the one of its line, and else its thread's own.
Joins(u) == collided_miss(u) \/ (request_unique /\ u = dt.thread)

LEMMA JoinsOne ==
    ASSUME L1IInv, dd_cache_miss
    PROVE  /\ \E u \in Threads : Joins(u)
           /\ \A u, v \in Threads : Joins(u) /\ Joins(v) => u = v
<1>1. dt.thread \in Threads
  BY Asking DEF L1IInv, L1TypeOK, Active, instruction_valid, Entered
<1>2. \A u, v \in Threads : collided_miss(u) /\ collided_miss(v) => u = v
  BY DEF L1IInv, MissesOK, collided_miss
<1> QED
  BY <1>1, <1>2 DEF Joins, request_unique

LEMMA MissWaits ==
    ASSUME L1IInv, NEW send \in Sends, Clock(send), NEW t \in Threads, NEW u \in Threads
    PROVE  InMiss(t, u)' <=> \/ InMiss(t, u) /\ ~dcache_l2_response(u)
                             \/ dd_cache_miss /\ t = dt.thread /\ Joins(u)
<1>1. CASE Opened(u, send, pending_entries[u], pending_entries'[u])
  BY <1>1 DEF Opened, InMiss, Joins, NewMiss, request_unique, collided_miss
<1>2. CASE Answered(u, send, pending_entries[u], pending_entries'[u])
  <2>1. ~(dd_cache_miss /\ t = dt.thread /\ Joins(u))
    BY <1>2, JoinsBeforeResponse DEF Answered, NewMiss, Joins
  <2> QED
    BY <1>2, <2>1 DEF Answered, InMiss
<1>3. CASE Joined(u, send, pending_entries[u], pending_entries'[u])
  <2>1. /\ pending_entries'[u].valid = pending_entries[u].valid
        /\ t \in pending_entries'[u].waiting_threads <=>
             t \in pending_entries[u].waiting_threads \/ (dd_cache_miss /\ collided_miss(u) /\ t = dt.thread)
        /\ ~dcache_l2_response(u) /\ ~NewMiss(u)
    BY <1>3 DEF Joined
  <2>2. collided_miss(u) => pending_entries[u].valid
    BY DEF collided_miss
  <2>3. dd_cache_miss /\ t = dt.thread /\ Joins(u) <=> dd_cache_miss /\ collided_miss(u) /\ t = dt.thread
    BY <2>1 DEF Joins, NewMiss
  <2> QED
    BY <2>1, <2>2, <2>3 DEF InMiss
<1> QED
  BY <1>1, <1>2, <1>3, Queues

\* A thread stays suspended until it is woken.
LEMMA SuspendStep ==
    ASSUME L1IInv, NEW send \in Sends, Clock(send), NEW t \in Threads
    PROVE  /\ Suspended(t)' <=> \/ Suspended(t) /\ ~l2i_dcache_wake(t)
                                \/ Active(t) /\ (sq_rollback(t, send) \/ dd_cache_miss)
           /\ l2i_dcache_wake(t) <=> \/ sq_wake(t)
                                     \/ \E u \in Threads : InMiss(t, u) /\ dcache_l2_response(u)
<1>1. thread_blocked'[t] <=> Suspended(t) /\ ~l2i_dcache_wake(t)
  BY DEF Clock, blocked_nxt, Suspended
<1>2. Suspended(t)' <=> thread_blocked'[t] \/ wb_suspend_thread(t)'
  BY DEF Suspended
<1>3. \A u \in Threads : dcache_l2_response(u) => pending_entries[u].valid
  BY DEF L1IInv, RequestsOK, MissSent
<1>4. l2i_dcache_wake(t) <=> \/ sq_wake(t)
                             \/ \E u \in Threads : InMiss(t, u) /\ dcache_l2_response(u)
  BY <1>3 DEF l2i_dcache_wake, wake_bitmap, InMiss
<1> QED
  BY <1>1, <1>2, <1>4, DataStep

LEMMA WaitsStep ==
    ASSUME L1IInv, NEW send \in Sends, Clock(send)
    PROVE  WaitsOK'
<1> SUFFICES ASSUME NEW t \in Threads
             PROVE  /\ pending_stores'[t].thread_waiting => pending_stores'[t].valid /\ Suspended(t)'
                    /\ \A u \in Threads :
                          InMiss(t, u)' => Suspended(t)' /\ ~pending_stores'[t].thread_waiting
                    /\ \A u, v \in Threads : InMiss(t, u)' /\ InMiss(t, v)' => u = v
                    /\ Suspended(t)' => \/ pending_stores'[t].thread_waiting
                                        \/ \E u \in Threads : InMiss(t, u)'
  BY DEF WaitsOK
<1> DEFINE e == pending_stores[t]
           f == pending_stores'[t]
<1>1. /\ e.thread_waiting => e.valid /\ Suspended(t)
      /\ \A u \in Threads : InMiss(t, u) => Suspended(t) /\ ~e.thread_waiting
      /\ \A u, v \in Threads : InMiss(t, u) /\ InMiss(t, v) => u = v
      /\ Suspended(t) => e.thread_waiting \/ \E u \in Threads : InMiss(t, u)
  BY DEF L1IInv, WaitsOK
<1>2. f.thread_waiting <=> ~sq_wake(t) /\ (e.thread_waiting \/ sq_rollback(t, send))
  BY Queues
<1>3. Active(t) => ~Suspended(t) /\ ~e.thread_waiting /\ \A u \in Threads : ~InMiss(t, u)
  BY ActiveThread
<1>4. sq_wake(t) <=> storebuf_l2_response(t) /\ e.thread_waiting
  BY DEF sq_wake
<1>5. sq_rollback(t, send) => Active(t) /\ dt.op \notin LoadOps
  BY Asking DEF LoadOps, StoreOps, ControlOps
<1>6. dd_cache_miss /\ t = dt.thread => Active(t) /\ dt.op \in LoadOps
  BY Asking
<1>7. Active(t) => t = dt.thread
  BY DEF Active
<1>8. f.thread_waiting => f.valid
  <2> SUFFICES ASSUME f.thread_waiting PROVE f.valid
    OBVIOUS
  <2>1. CASE sq_rollback(t, send)
    <3>1. dd_membar_en(t) => e.valid
      BY <2>1, Rollbacks
    <3>2. dd_store_en(t) \/ dd_control_en(t) \/ dd_membar_en(t)
      BY <2>1, Asking
    <3> QED
      BY <1>5, <2>1, <3>1, <3>2, Queues DEF Kept, Combined, Enqueued, Received, Cleared
  <2>2. CASE e.thread_waiting /\ ~storebuf_l2_response(t)
    <3>1. ~dd_store_en(t) /\ ~dd_control_en(t)
      BY <1>3, <2>2, Asking
    <3> QED
      BY <1>1, <2>2, <3>1, Queues DEF Kept, Combined, Enqueued, Received, Cleared
  <2> QED
    BY <1>2, <1>4, <2>1, <2>2
<1> HIDE DEF e, f
<1>9. f.thread_waiting => Suspended(t)'
  BY <1>1, <1>2, <1>5, SuspendStep
<1>10. \A u \in Threads : InMiss(t, u)' => Suspended(t)' /\ ~f.thread_waiting
  BY <1>1, <1>2, <1>3, <1>4, <1>5, <1>6, SuspendStep, MissWaits
<1>11. \A u, v \in Threads : InMiss(t, u)' /\ InMiss(t, v)' => u = v
  BY <1>1, <1>3, <1>6, MissWaits, JoinsOne
<1>12. ASSUME Suspended(t)' PROVE f.thread_waiting \/ \E u \in Threads : InMiss(t, u)'
  <2>1. CASE Suspended(t) /\ ~l2i_dcache_wake(t)
    BY <1>1, <1>2, <2>1, SuspendStep, MissWaits
  <2>2. CASE Active(t) /\ sq_rollback(t, send)
    BY <1>2, <1>3, <1>4, <2>2
  <2>3. CASE Active(t) /\ dd_cache_miss
    <3>1. PICK u \in Threads : Joins(u)
      BY <2>3, JoinsOne
    <3> QED
      BY <1>7, <2>3, <3>1, MissWaits
  <2> QED
    BY <1>12, <2>1, <2>2, <2>3, SuspendStep
<1> QED
  BY <1>8, <1>9, <1>10, <1>11, <1>12 DEF e, f

LEMMA MissesStep ==
    ASSUME L1IInv, NEW send \in Sends, Clock(send)
    PROVE  MissesOK'
<1>1. ASSUME NEW t \in Threads, pending_entries'[t].valid
      PROVE  pending_entries'[t].line # None /\ t \in pending_entries'[t].waiting_threads
  <2>1. CASE Opened(t, send, pending_entries[t], pending_entries'[t])
    <3>1. dt # None /\ dt.op # "membar"
      BY <2>1, Asking DEF Opened, NewMiss, Active, instruction_valid, LoadOps
    <3>2. dt.line # None
      BY <3>1 DEF L1IInv, PipelineOK
    <3> QED
      BY <2>1, <3>2 DEF Opened
  <2>2. CASE Joined(t, send, pending_entries[t], pending_entries'[t])
    BY <1>1, <2>2 DEF Joined, L1IInv, MissesOK
  <2> QED
    BY <1>1, <2>1, <2>2, Queues DEF Answered
<1>2. ASSUME NEW t \in Threads, pending_entries'[t].valid,
             ~Opened(t, send, pending_entries[t], pending_entries'[t])
      PROVE  /\ pending_entries[t].valid /\ pending_entries'[t].line = pending_entries[t].line
             /\ pending_entries'[t].sync = pending_entries[t].sync
  BY <1>2, Queues DEF Answered, Joined
<1>3. ASSUME NEW t \in Threads, Opened(t, send, pending_entries[t], pending_entries'[t]),
             NEW u \in Threads, u # t, pending_entries'[u].valid, ~pending_entries'[u].sync,
             ~pending_entries'[t].sync, pending_entries'[t].line = pending_entries'[u].line
      PROVE  FALSE
  <2>1. ~Opened(u, send, pending_entries[u], pending_entries'[u])
    BY <1>3 DEF Opened, NewMiss
  <2>2. collided_miss(u)
    BY <1>2, <1>3, <2>1 DEF Opened, collided_miss
  <2> QED
    BY <1>3, <2>2 DEF Opened, NewMiss, request_unique
<1>4. ASSUME NEW t \in Threads, NEW u \in Threads, pending_entries'[t].valid, pending_entries'[u].valid,
             ~pending_entries'[u].sync, ~pending_entries'[t].sync,
             pending_entries'[t].line = pending_entries'[u].line
      PROVE  t = u
  <2>1. CASE \/ Opened(t, send, pending_entries[t], pending_entries'[t])
             \/ Opened(u, send, pending_entries[u], pending_entries'[u])
    BY <1>3, <1>4, <2>1
  <2>2. CASE /\ ~Opened(t, send, pending_entries[t], pending_entries'[t])
             /\ ~Opened(u, send, pending_entries[u], pending_entries'[u])
    BY <1>2, <1>4, <2>2 DEF L1IInv, MissesOK
  <2> QED
    BY <2>1, <2>2
<1> QED
  BY <1>1, <1>4 DEF MissesOK

-----------------------------------------------------------------------------
\* An entry is sent from the cycle the L2 cache accepts its request until the
\* one in which its response is in stage 2, and does not change meanwhile.
LEMMA MissSentStep ==
    ASSUME L1IInv, NEW send \in Sends, Clock(send), NEW t \in Threads
    PROVE  /\ MissSent(t)' <=> \/ MissSent(t) /\ ~dcache_l2_response(t)
                               \/ send = [queue |-> "miss", id |-> t]
           /\ MissSent(t)' => LoadRequest(t)' = LoadRequest(t)
<1>1. /\ send = [queue |-> "miss", id |-> t] => pending_entries[t].valid /\ ~pending_entries[t].request_sent
      /\ dcache_l2_response(t) => MissSent(t)
  BY RequestOf DEF L1IInv, RequestsOK
<1>2. CASE Opened(t, send, pending_entries[t], pending_entries'[t])
  BY <1>2 DEF Opened, MissSent
<1>3. CASE Answered(t, send, pending_entries[t], pending_entries'[t])
  BY <1>1, <1>3 DEF Answered, MissSent
<1>4. CASE Joined(t, send, pending_entries[t], pending_entries'[t])
  <2>1. MissSent(t)' <=> \/ MissSent(t) /\ ~dcache_l2_response(t)
                         \/ send = [queue |-> "miss", id |-> t]
    BY <1>1, <1>4 DEF Joined, MissSent
  <2>2. LoadRequest(t)' = LoadRequest(t)
    BY <1>4 DEF Joined, LoadRequest
  <2> QED
    BY <2>1, <2>2
<1> QED
  BY <1>2, <1>3, <1>4, Queues

LEMMA StoreSentStep ==
    ASSUME L1IInv, NEW send \in Sends, Clock(send), NEW t \in Threads
    PROVE  /\ StoreSent(t)' <=> \/ StoreSent(t) /\ ~storebuf_l2_response(t)
                                \/ send = [queue |-> "store", id |-> t]
           /\ StoreSent(t)' => /\ Kept(t, send, pending_stores[t], pending_stores'[t])
                               /\ StoreRequest(t)' = StoreRequest(t)
<1> DEFINE e == pending_stores[t]
           f == pending_stores'[t]
<1>1. /\ send = [queue |-> "store", id |-> t] => e.valid /\ ~e.request_sent
      /\ storebuf_l2_response(t) => StoreSent(t)
      /\ e.response_received => e.valid /\ e.request_sent
  BY RequestOf DEF L1IInv, RequestsOK
<1>2. CASE Kept(t, send, e, f)
  <2>1. StoreSent(t)' <=> \/ StoreSent(t) /\ ~storebuf_l2_response(t)
                          \/ send = [queue |-> "store", id |-> t]
    BY <1>1, <1>2 DEF Kept, StoreSent
  <2>2. StoreRequest(t)' = StoreRequest(t)
    BY <1>2 DEF Kept, StoreRequest
  <2> QED
    BY <1>2, <2>1, <2>2
<1>3. CASE Combined(t, send, e, f) \/ Enqueued(t, send, e, f)
  BY <1>3 DEF Combined, Enqueued, StoreSent
<1>4. CASE Received(t, send, e, f) \/ Cleared(t, send, e, f)
  BY <1>1, <1>4 DEF Received, Cleared, StoreSent
<1> QED
  BY <1>2, <1>3, <1>4, Queues

\* The requests of a thread in the L2 cache.
LEMMA Outstanding ==
    ASSUME L1IInv, NEW r \in requests
    PROVE  /\ r.id \in Threads
           /\ r.op \in LoadOps => r = LoadRequest(r.id) /\ MissSent(r.id) /\ ~dcache_l2_response(r.id)
           /\ r.op \notin LoadOps => r = StoreRequest(r.id) /\ StoreSent(r.id) /\ ~storebuf_l2_response(r.id)
<1>1. r.id \in Threads /\ L1TypeOK
  BY DEF L1IInv, L1TypeOK, L2Request
<1>2. LoadRequest(r.id).op \in LoadOps
  BY DEF LoadRequest, LoadOps
<1>3. StoreSent(r.id) => StoreRequest(r.id).op \notin LoadOps
  <2>1. StoreSent(r.id) => pending_stores[r.id].op \in StoreOps \cup ControlOps
    BY <1>1 DEF L1IInv, L1TypeOK, StoreType, RequestsOK, StoreSent
  <2> QED
    BY <2>1 DEF StoreRequest, LoadOps, StoreOps, ControlOps
<1> QED
  BY <1>1, <1>2, <1>3 DEF L1IInv, RequestsOK

\* A request leaves the L2 cache when it is done, and is then the response in
\* stage 2.
LEMMA Answers ==
    ASSUME L1IInv, NEW send \in Sends, Clock(send), NEW t \in Threads
    PROVE  /\ requests' \subseteq requests \cup Request(send) /\ Request(send) \subseteq requests'
           /\ dcache_l2_response(t)' <=> LoadRequest(t) \in requests /\ LoadRequest(t) \notin requests'
           /\ storebuf_l2_response(t)' <=>
                 StoreSent(t) /\ StoreRequest(t) \in requests /\ StoreRequest(t) \notin requests'
           /\ dcache_l2_response(t)' => response_stage2'.line = pending_entries[t].line
           /\ storebuf_l2_response(t)' =>
                 /\ response_stage2'.line = pending_stores[t].line
                 /\ response_stage2'.type = Ack[pending_stores[t].op]
                 /\ pending_stores[t].op = "store" =>
                       response_stage2'.data = Merge(response_stage2'.old, pending_stores[t].lanes)
<1> USE NoneAssumption
<1>1. L1TypeOK /\ ResponseOK /\ CacheOK /\ L2Step(send)
  BY DEF L1IInv, Clock
<1>2. CASE response_stage2' = None /\ requests' = requests \cup Request(send)
  BY <1>2 DEF dcache_l2_response, storebuf_l2_response
<1>3. ASSUME NEW r \in requests \cup Foreigns, Perform(r), requests' = (requests \ {r}) \cup Request(send)
      PROVE  /\ requests' \subseteq requests \cup Request(send) /\ Request(send) \subseteq requests'
             /\ dcache_l2_response(t)' <=> LoadRequest(t) \in requests /\ LoadRequest(t) \notin requests'
             /\ storebuf_l2_response(t)' <=>
                   StoreSent(t) /\ StoreRequest(t) \in requests /\ StoreRequest(t) \notin requests'
             /\ dcache_l2_response(t)' => response_stage2'.line = pending_entries[t].line
             /\ storebuf_l2_response(t)' =>
                   /\ response_stage2'.line = pending_stores[t].line
                   /\ response_stage2'.type = Ack[pending_stores[t].op]
                   /\ pending_stores[t].op = "store" =>
                         response_stage2'.data = Merge(response_stage2'.old, pending_stores[t].lanes)
  <2>1. /\ response_stage2' # None /\ response_stage2'.type = Ack[r.op]
        /\ response_stage2'.mine = (r.id # None) /\ response_stage2'.id = r.id
        /\ response_stage2'.line = r.line /\ response_stage2'.data = mem'[r.line]
        /\ response_stage2'.old = mem[r.line]
        /\ mem'[r.line] = IF Writes(r) THEN Merge(mem[r.line], r.lanes) ELSE mem[r.line]
        /\ r.op \in LoadOps \cup StoreOps \cup ControlOps
    BY <1>1, <1>3, Performs
  <2>2. r.id # None <=> r \in requests
    BY <1>1 DEF L1TypeOK, L2Request, Foreigns
  <2>3. r.op \in LoadOps <=> Ack[r.op] = "load_ack"
    BY <2>1, AckOf DEF LoadOps, StoreOps, ControlOps
  <2>4. dcache_l2_response(t)' <=> r \in requests /\ r.id = t /\ r.op \in LoadOps
    BY <2>1, <2>2, <2>3 DEF dcache_l2_response
  <2>5. storebuf_l2_response(t)' <=> r \in requests /\ r.id = t /\ r.op \notin LoadOps
    BY <2>1, <2>2, <2>3 DEF storebuf_l2_response
  <2>6. LoadRequest(t).id = t /\ LoadRequest(t).op \in LoadOps /\ LoadRequest(t).line = pending_entries[t].line
    BY DEF LoadRequest, LoadOps
  <2>7. /\ StoreRequest(t).id = t /\ StoreRequest(t).op = pending_stores[t].op
        /\ StoreRequest(t).line = pending_stores[t].line /\ StoreRequest(t).lanes = pending_stores[t].lanes
    BY DEF StoreRequest
  <2>8. StoreSent(t) => pending_stores[t].op \notin LoadOps
    <3>1. StoreSent(t) => pending_stores[t].op \in StoreOps \cup ControlOps
      BY <1>1 DEF L1IInv, L1TypeOK, StoreType, RequestsOK, StoreSent
    <3> QED
      BY <3>1 DEF LoadOps, StoreOps, ControlOps
  <2>9. \A q \in Request(send) : q \notin requests
    <3>1. \A u \in Threads : send = [queue |-> "miss", id |-> u] => LoadRequest(u) \notin requests
      <4>1. \A u \in Threads : LoadRequest(u).id = u /\ LoadRequest(u).op \in LoadOps
        BY DEF LoadRequest, LoadOps
      <4> QED
        BY <1>1, <4>1, RequestOf, Outstanding DEF MissSent
    <3>2. \A u \in Threads : send = [queue |-> "store", id |-> u] => StoreRequest(u) \notin requests
      <4>1. \A u \in Threads : StoreRequest(u).id = u /\ StoreRequest(u).op = pending_stores[u].op
        BY DEF StoreRequest
      <4>2. \A u \in Threads : pending_stores[u].valid => pending_stores[u].op \notin LoadOps
        <5>1. \A u \in Threads : pending_stores[u].valid => pending_stores[u].op \in StoreOps \cup ControlOps
          BY <1>1 DEF L1IInv, L1TypeOK, StoreType, RequestsOK
        <5> QED
          BY <5>1 DEF LoadOps, StoreOps, ControlOps
      <4> QED
        BY <1>1, <4>1, <4>2, RequestOf, Outstanding DEF StoreSent
    <3> QED
      BY <1>1, <3>1, <3>2, RequestOf
  <2>10. r \in requests /\ r.id = t /\ r.op \in LoadOps <=>
            LoadRequest(t) \in requests /\ LoadRequest(t) \notin requests'
    BY <1>3, <2>6, <2>9, Outstanding
  <2>11. r \in requests /\ r.id = t /\ r.op \notin LoadOps <=>
            StoreSent(t) /\ StoreRequest(t) \in requests /\ StoreRequest(t) \notin requests'
    BY <1>3, <2>7, <2>8, <2>9, Outstanding
  <2>12. dcache_l2_response(t)' => response_stage2'.line = pending_entries[t].line
    BY <2>1, <2>4, <2>6, Outstanding
  <2>13. ASSUME storebuf_l2_response(t)'
         PROVE  /\ response_stage2'.line = pending_stores[t].line
                /\ response_stage2'.type = Ack[pending_stores[t].op]
                /\ pending_stores[t].op = "store" =>
                      response_stage2'.data = Merge(response_stage2'.old, pending_stores[t].lanes)
    <3>1. /\ r.line = pending_stores[t].line /\ r.op = pending_stores[t].op
          /\ r.lanes = pending_stores[t].lanes
      BY <2>5, <2>7, <2>13, Outstanding
    <3> QED
      BY <2>1, <3>1 DEF Writes
  <2> QED
    BY <1>3, <2>4, <2>5, <2>10, <2>11, <2>12, <2>13
<1> QED
  BY <1>1, <1>2, <1>3, L2Cases

LEMMA RequestsStep ==
    ASSUME L1IInv, NEW send \in Sends, Clock(send)
    PROVE  RequestsOK'
<1> USE NoneAssumption
<1>1. ASSUME NEW r \in requests'
      PROVE  \/ r = LoadRequest(r.id)' /\ MissSent(r.id)' /\ ~dcache_l2_response(r.id)'
             \/ r = StoreRequest(r.id)' /\ StoreSent(r.id)' /\ ~storebuf_l2_response(r.id)'
  <2>1. CASE r \in requests
    <3>1. r.id \in Threads
      BY <2>1, Outstanding
    <3>2. CASE r.op \in LoadOps
      <4>1. r = LoadRequest(r.id) /\ MissSent(r.id) /\ ~dcache_l2_response(r.id)
        BY <2>1, <3>2, Outstanding
      <4> QED
        BY <1>1, <3>1, <4>1, MissSentStep, Answers
    <3>3. CASE r.op \notin LoadOps
      <4>1. r = StoreRequest(r.id) /\ StoreSent(r.id) /\ ~storebuf_l2_response(r.id)
        BY <2>1, <3>3, Outstanding
      <4> QED
        BY <1>1, <3>1, <4>1, StoreSentStep, Answers
    <3> QED
      BY <3>2, <3>3
  <2>2. CASE r \in Request(send)
    <3>1. \A t \in Threads : LoadRequest(t).id = t /\ StoreRequest(t).id = t
      BY DEF LoadRequest, StoreRequest
    <3>2. L1TypeOK
      BY DEF L1IInv
    <3>3. ASSUME NEW t \in Threads, send = [queue |-> "miss", id |-> t]
          PROVE  r = LoadRequest(r.id)' /\ MissSent(r.id)' /\ ~dcache_l2_response(r.id)'
      <4>1. r = LoadRequest(t) /\ r.id = t
        BY <2>2, <3>1, <3>2, <3>3, RequestOf
      <4> QED
        BY <1>1, <3>3, <4>1, MissSentStep, Answers
    <3>4. ASSUME NEW t \in Threads, send = [queue |-> "store", id |-> t]
          PROVE  r = StoreRequest(r.id)' /\ StoreSent(r.id)' /\ ~storebuf_l2_response(r.id)'
      <4>1. r = StoreRequest(t) /\ r.id = t
        BY <2>2, <3>1, <3>2, <3>4, RequestOf
      <4> QED
        BY <1>1, <3>4, <4>1, StoreSentStep, Answers
    <3> QED
      BY <2>2, <3>2, <3>3, <3>4, RequestOf
  <2>3. Threads # {} => r \in requests \cup Request(send)
    BY <1>1, Answers
  <2>4. Threads = {} => r \notin requests'
    <3>1. requests' \subseteq L2Request
      BY MemoryTyped
    <3> QED
      BY <3>1 DEF L2Request
  <2> QED
    BY <1>1, <2>1, <2>2, <2>3, <2>4
<1>2. ASSUME NEW t \in Threads, pending_stores'[t].valid
      PROVE  pending_stores'[t].op # None /\ pending_stores'[t].line # None
  <2>1. pending_stores[t].valid => pending_stores[t].op # None /\ pending_stores[t].line # None
    BY DEF L1IInv, RequestsOK
  <2>2. CASE Enqueued(t, send, pending_stores[t], pending_stores'[t])
    <3>1. dt.op \in StoreOps \cup ControlOps /\ Active(t)
      BY <2>2, Asking DEF Enqueued
    <3>2. dt # None /\ dt.op # "membar"
      BY <3>1 DEF Active, instruction_valid, StoreOps, ControlOps
    <3>3. dt.line # None
      BY <3>2 DEF L1IInv, PipelineOK
    <3> QED
      BY <2>2, <3>1, <3>3 DEF Enqueued
  <2>3. CASE ~Enqueued(t, send, pending_stores[t], pending_stores'[t])
    <3>1. storebuf_l2_response(t) => pending_stores[t].valid
      BY DEF L1IInv, RequestsOK, StoreSent
    <3> QED
      BY <1>2, <2>1, <2>3, <3>1, Queues DEF Kept, Combined, Received, Cleared
  <2> QED
    BY <2>2, <2>3
<1>3. ASSUME NEW t \in Threads, pending_stores'[t].response_received
      PROVE  /\ pending_stores'[t].valid /\ pending_stores'[t].request_sent
             /\ pending_stores'[t].op = "store_sync"
  <2>1. pending_stores[t].response_received =>
          pending_stores[t].valid /\ pending_stores[t].request_sent /\ pending_stores[t].op = "store_sync"
    BY DEF L1IInv, RequestsOK
  <2> QED
    BY <1>3, <2>1, Queues DEF Kept, Combined, Enqueued, Received, Cleared
<1>4. ASSUME NEW t \in Threads, StoreSent(t)'
      PROVE  StoreRequest(t)' \in requests' \/ storebuf_l2_response(t)'
  <2>1. StoreRequest(t)' = StoreRequest(t)
    BY <1>4, StoreSentStep
  <2>2. StoreSent(t) /\ ~storebuf_l2_response(t) => StoreRequest(t) \in requests
    BY DEF L1IInv, RequestsOK
  <2>3. send = [queue |-> "store", id |-> t] => StoreRequest(t) \in requests'
    BY RequestOf, Answers DEF L1IInv
  <2> QED
    BY <1>4, <2>1, <2>2, <2>3, StoreSentStep, Answers
<1>5. ASSUME NEW t \in Threads, MissSent(t)'
      PROVE  LoadRequest(t)' \in requests' \/ dcache_l2_response(t)'
  <2>1. LoadRequest(t)' = LoadRequest(t)
    BY <1>5, MissSentStep
  <2>2. MissSent(t) /\ ~dcache_l2_response(t) => LoadRequest(t) \in requests
    BY DEF L1IInv, RequestsOK
  <2>3. send = [queue |-> "miss", id |-> t] => LoadRequest(t) \in requests'
    BY RequestOf, Answers DEF L1IInv
  <2> QED
    BY <1>5, <2>1, <2>2, <2>3, MissSentStep, Answers
<1>6. ASSUME NEW t \in Threads, dcache_l2_response(t)'
      PROVE  MissSent(t)' /\ response_stage2'.line = pending_entries'[t].line
  <2>1. LoadRequest(t) \in requests /\ response_stage2'.line = pending_entries[t].line
    BY <1>6, Answers
  <2>2. /\ LoadRequest(t).id = t /\ LoadRequest(t).op \in LoadOps
        /\ LoadRequest(t).line = pending_entries[t].line /\ LoadRequest(t)'.line = pending_entries'[t].line
    BY DEF LoadRequest, LoadOps
  <2> QED
    BY <2>1, <2>2, Outstanding, MissSentStep
<1>7. ASSUME NEW t \in Threads, storebuf_l2_response(t)'
      PROVE  /\ StoreSent(t)' /\ response_stage2'.line = pending_stores'[t].line
             /\ response_stage2'.type = Ack[pending_stores'[t].op]
             /\ pending_stores'[t].op = "store" =>
                   response_stage2'.data = Merge(response_stage2'.old, pending_stores'[t].lanes)
  <2>1. StoreSent(t) /\ StoreRequest(t) \in requests
    BY <1>7, Answers
  <2>2. StoreRequest(t).id = t /\ StoreRequest(t).op = pending_stores[t].op
    BY DEF StoreRequest
  <2>3. pending_stores[t].op \notin LoadOps
    <3>1. pending_stores[t].op \in StoreOps \cup ControlOps
      BY <2>1 DEF L1IInv, L1TypeOK, StoreType, RequestsOK, StoreSent
    <3> QED
      BY <3>1 DEF LoadOps, StoreOps, ControlOps
  <2>4. ~storebuf_l2_response(t)
    BY <2>1, <2>2, <2>3, Outstanding
  <2>5. StoreSent(t)' /\ Kept(t, send, pending_stores[t], pending_stores'[t])
    BY <2>1, <2>4, StoreSentStep
  <2> QED
    BY <1>7, <2>5, Answers DEF Kept
<1> QED
  BY <1>1, <1>2, <1>3, <1>4, <1>5, <1>6, <1>7 DEF RequestsOK

-----------------------------------------------------------------------------
\* What of a thread's stores is left when the L2 cache has done its request.
Left(t, a) ==
    LET did == {r \in Performed : r.op = "store" /\ r.id = t /\ r.line = a}
    IN [l \in Lanes |-> IF \E r \in did : r.lanes[l] = owed[t][a][l] THEN None ELSE owed[t][a][l]]

LEMMA LeftIs ==
    ASSUME L1IInv, NEW send \in Sends, Clock(send), NEW t \in Threads, NEW a \in Lines
    PROVE  Left(t, a) = IF Storing(t, a) /\ ~storebuf_l2_response(t)'
                        THEN pending_stores[t].lanes ELSE NoLanes
<1> DEFINE did == {r \in Performed : r.op = "store" /\ r.id = t /\ r.line = a}
<1>1. /\ owed[t][a] = IF Storing(t, a) THEN pending_stores[t].lanes ELSE NoLanes
      /\ owed[t][a] \in Mask /\ pending_stores[t].lanes \in Mask
  BY DEF L1IInv, OwedOK, L1TypeOK, StoreType
<1>2. StoreRequest(t) = [op |-> pending_stores[t].op, id |-> t, line |-> pending_stores[t].line,
                         lanes |-> pending_stores[t].lanes]
  BY DEF StoreRequest
<1>3. ASSUME NEW r \in did
      PROVE  Storing(t, a) /\ storebuf_l2_response(t)' /\ r.lanes = owed[t][a]
  <2>1. r \in requests /\ r \notin requests' /\ r.op = "store" /\ r.id = t /\ r.line = a
    BY DEF Performed
  <2>2. r = StoreRequest(t) /\ StoreSent(t) /\ ~storebuf_l2_response(t)
    BY <2>1, Outstanding DEF LoadOps
  <2>3. Storing(t, a) /\ r.lanes = pending_stores[t].lanes
    BY <1>2, <2>1, <2>2 DEF Storing, StoreSent
  <2> QED
    BY <1>1, <2>1, <2>2, <2>3, Answers
<1>4. Storing(t, a) /\ storebuf_l2_response(t)' => StoreRequest(t) \in did
  BY <1>2, Answers DEF Storing, Performed
<1>5. CASE did = {}
  <2>1. Left(t, a) = [l \in Lanes |-> owed[t][a][l]]
    BY <1>5 DEF Left
  <2>2. Left(t, a) = owed[t][a]
    BY <1>1, <2>1 DEF Mask
  <2> QED
    BY <1>1, <1>4, <1>5, <2>2
<1>6. CASE did # {}
  <2>1. PICK r \in did : TRUE
    BY <1>6
  <2>2. r.lanes = owed[t][a] /\ storebuf_l2_response(t)'
    BY <1>3
  <2>3. \A l \in Lanes : \E q \in did : q.lanes[l] = owed[t][a][l]
    BY <2>2
  <2>4. Left(t, a) = [l \in Lanes |-> None]
    BY <2>3 DEF Left
  <2> QED
    BY <2>2, <2>4 DEF NoLanes
<1> QED
  BY <1>5, <1>6

LEMMA MergeNoLanes == \A k \in Mask : Merge(NoLanes, k) = k
BY DEF Merge, NoLanes, Mask

LEMMA OwedStep ==
    ASSUME L1IInv, NEW send \in Sends, Clock(send)
    PROVE  OwedOK' /\ owed' \in [Threads -> [Lines -> Mask]]
<1>1. ASSUME NEW t \in Threads, NEW a \in Lines
      PROVE  owed'[t][a] = IF Storing(t, a)' THEN pending_stores'[t].lanes ELSE NoLanes
  <2> DEFINE e == pending_stores[t]
             f == pending_stores'[t]
             new == dd_store_en(t) /\ dt.op = "store" /\ dt.line = a /\ ~sq_rollback(t, send)
  <2>1. owed'[t][a] = IF new THEN Merge(Left(t, a), dt.lanes) ELSE Left(t, a)
    BY DEF Clock, Owe, Left
  <2>2. Left(t, a) = IF Storing(t, a) /\ ~storebuf_l2_response(t)' THEN e.lanes ELSE NoLanes
    BY LeftIs
  <2>3. storebuf_l2_response(t)' => f.request_sent
    BY RequestsStep DEF RequestsOK, StoreSent
  <2>4. Storing(t, a)' <=> f.valid /\ f.op = "store" /\ f.line = a /\ ~storebuf_l2_response(t)'
    BY DEF Storing
  <2>5. Storing(t, a) <=> e.valid /\ e.op = "store" /\ e.line = a /\ ~storebuf_l2_response(t)
    BY DEF Storing
  <2>6. CASE Kept(t, send, e, f)
    <3>1. ~new
      BY <2>6 DEF Kept
    <3> QED
      BY <2>1, <2>2, <2>4, <2>5, <2>6, <3>1 DEF Kept
  <2>7. CASE Combined(t, send, e, f)
    <3>1. /\ ~storebuf_l2_response(t)' /\ f.valid /\ f.op = "store" /\ f.line = e.line
          /\ f.lanes = Merge(e.lanes, dt.lanes)
          /\ e.valid /\ e.op = "store" /\ ~storebuf_l2_response(t)
          /\ dd_store_en(t) /\ dt.op = "store" /\ dt.line = e.line /\ ~sq_rollback(t, send)
      BY <2>3, <2>7 DEF Combined
    <3>2. CASE a = e.line
      BY <2>1, <2>2, <2>4, <2>5, <3>1, <3>2
    <3>3. CASE a # e.line
      BY <2>1, <2>2, <2>4, <2>5, <3>1, <3>3
    <3> QED
      BY <3>2, <3>3
  <2>8. CASE Enqueued(t, send, e, f)
    <3>1. /\ ~storebuf_l2_response(t)' /\ ~Storing(t, a)
          /\ f.valid /\ f.op = dt.op /\ f.line = dt.line /\ f.lanes = dt.lanes
          /\ dt.op = "store" => ~sq_rollback(t, send)
      BY <2>3, <2>5, <2>8 DEF Enqueued
    <3>2. dt.op = "store" => dd_store_en(t)
      BY <2>8, Asking DEF Enqueued, ControlOps
    <3>3. dt.lanes \in Mask
      <4>1. Active(t)
        BY <2>8, Asking DEF Enqueued
      <4> QED
        BY <4>1, ActiveThread DEF Entered
    <3>4. new <=> Storing(t, a)'
      BY <2>4, <3>1, <3>2
    <3> QED
      BY <2>1, <2>2, <3>1, <3>3, <3>4, MergeNoLanes
  <2>9. CASE Received(t, send, e, f) \/ Cleared(t, send, e, f)
    <3>1. ~new /\ ~Storing(t, a) /\ ~Storing(t, a)'
      BY <2>4, <2>5, <2>9, Asking DEF Received, Cleared
    <3> QED
      BY <2>1, <2>2, <3>1
  <2> QED
    BY <2>6, <2>7, <2>8, <2>9, Queues
<1>2. \A t \in Threads, a \in Lines : owed'[t][a] \in Mask
  BY <1>1, Queues, MaskType DEF StoreType
<1>3. /\ owed' = [t \in Threads |-> owed'[t]]
      /\ \A t \in Threads : owed'[t] = [a \in Lines |-> owed'[t][a]]
  BY DEF Clock, Owe
<1>4. owed' \in [Threads -> [Lines -> Mask]]
  BY <1>2, <1>3
<1> QED
  BY <1>1, <1>4 DEF OwedOK

-----------------------------------------------------------------------------
\* What the L2 cache held before the response in stage 2, which a load that hits
\* returns.
Before(a) ==
    IF response_stage2 # None /\ response_stage2.line = a THEN response_stage2.old ELSE mem[a]

LEMMA LoadReturns ==
    ASSUME L1IInv, cached_load_req, cache_hit
    PROVE  /\ dt.thread \in Threads /\ Active(dt.thread) /\ dt.line \in Lines
           /\ Before(dt.line) \in Content /\ store_bypass(dt.thread, dt.line) \in Mask
           /\ load_value = Merge(Before(dt.line), store_bypass(dt.thread, dt.line))
           /\ load_value \in Content
<1> USE NoneAssumption
<1>1. L1TypeOK /\ PipelineOK /\ CacheOK /\ dt # None /\ dt \in Entered /\ dt.op \in LoadOps
  BY DEF L1IInv, L1TypeOK, cached_load_req, instruction_valid
<1>2. /\ dt.thread \in Threads /\ Active(dt.thread)
      /\ dt.line \in Lines /\ way_hits = {w \in Ways : tags[w] = dt.line}
  BY <1>1 DEF cached_load_req, Active, PipelineOK, Entered, LoadOps, way_hits
<1>3. PICK w \in Ways : w = (CHOOSE v \in way_hits : TRUE) /\ tags[w] = dt.line
  <2>1. way_hits # {}
    BY DEF cache_hit
  <2>2. (CHOOSE v \in way_hits : TRUE) \in way_hits
    BY <2>1
  <2> QED
    BY <1>2, <2>2
<1>4. data_nxt[w] = Before(dt.line)
  BY <1>1, <1>2, <1>3 DEF CacheOK, Before
<1>5. Before(dt.line) \in Content
  BY <1>1, <1>2 DEF L1TypeOK, Response, Before
<1>6. store_bypass(dt.thread, dt.line) \in Mask
  BY <1>1, <1>2, MaskType DEF store_bypass, L1TypeOK, StoreType
<1>7. load_value = Merge(Before(dt.line), store_bypass(dt.thread, dt.line))
  BY <1>3, <1>4 DEF load_value
<1> QED
  BY <1>2, <1>5, <1>6, <1>7, MergeType

\* A synchronized load returns on its second pass, and toggles what tells its
\* passes apart on both.
LEMMA LinkedStep ==
    ASSUME L1IInv, NEW send \in Sends, Clock(send)
    PROVE  /\ linked' \in [Threads -> Link \cup {None}]
           /\ dd_load_sync_pending' \in [Threads -> BOOLEAN]
           /\ \A t \in Threads : ~(Active(t) /\ dt.op = "load_sync") =>
                 linked'[t] = linked[t] /\ dd_load_sync_pending'[t] = dd_load_sync_pending[t]
           /\ \A t \in Threads : Active(t) /\ dt.op = "load_sync" =>
                 /\ dd_load_sync_pending'[t] = ~dd_load_sync_pending[t]
                 /\ dd' # None => linked'[t] = None
                 /\ dd' = None => /\ linked'[t] = [line |-> dt.line, data |-> load_value]
                                  /\ dd_load_sync_pending[t]
                                  /\ cached_load_req /\ cache_hit
<1> USE NoneAssumption
<1>1. L1TypeOK /\ DataStage(send)
  BY DEF L1IInv, Clock
<1>2. CASE ~instruction_valid
  <2>1. linked' = linked /\ dd_load_sync_pending' = dd_load_sync_pending
    BY <1>1, <1>2 DEF DataStage
  <2> QED
    BY <1>1, <1>2, <2>1 DEF L1TypeOK, Active
<1>3. CASE instruction_valid
  <2>1. PICK t \in Threads : t = dt.thread /\ dt # None
    BY <1>1, <1>3 DEF instruction_valid, L1TypeOK, Entered
  <2>2. \A u \in Threads : Active(u) <=> u = t
    BY <1>3, <2>1 DEF Active
  <2>3. PICK done \in BOOLEAN : done <=> dd' = None
    OBVIOUS
  <2>4. done <=> dt.tlb_hit /\ ~sq_rollback(t, send) /\ (dt.op \in LoadOps => cache_hit)
    BY <2>2, <2>3, DataStep
  <2>5. dd_load_sync_pending' = IF dt.op = "load_sync"
                                THEN [dd_load_sync_pending EXCEPT ![t] = ~@] ELSE dd_load_sync_pending
    BY <1>1, <1>3, <2>1 DEF DataStage, cached_load_req, LoadOps
  <2>6. linked' = IF dt.op # "load_sync" THEN linked
                  ELSE [linked EXCEPT ![t] = IF ~done THEN None
                                             ELSE [line |-> dt.line, data |-> load_value]]
    BY <1>1, <1>3, <2>1, <2>4 DEF DataStage, tlb_miss, cached_load_req
  <2>7. done /\ dt.op = "load_sync" => cached_load_req /\ cache_hit /\ dd_load_sync_pending[t]
    BY <1>3, <2>1, <2>4 DEF cached_load_req, LoadOps, cache_hit
  <2>8. done /\ dt.op = "load_sync" => [line |-> dt.line, data |-> load_value] \in Link
    BY <2>7, LoadReturns DEF Link
  <2>9. dd_load_sync_pending' \in [Threads -> BOOLEAN] /\ linked' \in [Threads -> Link \cup {None}]
    BY <1>1, <2>5, <2>6, <2>8 DEF L1TypeOK
  <2>10. dt.op = "load_sync" =>
            /\ dd_load_sync_pending'[t] = ~dd_load_sync_pending[t]
            /\ ~done => linked'[t] = None
            /\ done => linked'[t] = [line |-> dt.line, data |-> load_value]
    BY <1>1, <2>5, <2>6 DEF L1TypeOK
  <2>11. \A u \in Threads : ~(u = t /\ dt.op = "load_sync") =>
            linked'[u] = linked[u] /\ dd_load_sync_pending'[u] = dd_load_sync_pending[u]
    BY <1>1, <2>5, <2>6 DEF L1TypeOK
  <2> QED
    BY <2>2, <2>3, <2>7, <2>9, <2>10, <2>11
<1> QED
  BY <1>2, <1>3

\* While a reservation lasts its line is not written; it begins when the L2
\* cache does the thread's synchronized load.
LEMMA Reserved ==
    ASSUME L1IInv, NEW send \in Sends, Clock(send), NEW t \in Threads, NEW a \in Lines,
           load_sync_address'[t] = a
    PROVE  /\ mem'[a] = mem[a]
           /\ \/ load_sync_address[t] = a
              \/ pending_entries[t].valid /\ pending_entries[t].sync
           /\ ~(storebuf_l2_response(t)' /\ pending_stores[t].op = "store" /\ pending_stores[t].line = a)
<1> USE NoneAssumption
<1>1. L1TypeOK /\ ResponseOK /\ CacheOK /\ L2Step(send)
  BY DEF L1IInv, Clock
<1>2. CASE mem' = mem /\ load_sync_address' = load_sync_address /\ response_stage2' = None
  BY <1>2 DEF storebuf_l2_response
<1>3. ASSUME NEW r \in requests \cup Foreigns, Perform(r)
      PROVE  /\ mem'[a] = mem[a]
             /\ \/ load_sync_address[t] = a
                \/ pending_entries[t].valid /\ pending_entries[t].sync
             /\ ~(storebuf_l2_response(t)' /\ pending_stores[t].op = "store" /\ pending_stores[t].line = a)
  <2>1. /\ load_sync_address' = Reservations(r) /\ r.line \in Lines
        /\ mem'[r.line] = IF Writes(r) THEN Merge(mem[r.line], r.lanes) ELSE mem[r.line]
        /\ \A b \in Lines \ {r.line} : mem'[b] = mem[b]
        /\ response_stage2'.id = r.id /\ response_stage2'.type = Ack[r.op]
        /\ response_stage2'.mine = (r.id # None)
        /\ r.op \in LoadOps \cup StoreOps \cup ControlOps
    BY <1>1, <1>3, Performs
  <2>2. ~(Writes(r) /\ r.line = a)
    BY <2>1 DEF Reservations, Writes
  <2>3. load_sync_address[t] = a \/ (r.op = "load_sync" /\ r.id = t)
    BY <2>1 DEF Reservations
  <2>4. r.op = "load_sync" /\ r.id = t => pending_entries[t].valid /\ pending_entries[t].sync
    <3>1. r.op = "load_sync" /\ r.id = t => r = LoadRequest(t) /\ MissSent(t)
      BY <1>3, Outstanding DEF Foreigns, LoadOps
    <3>2. LoadRequest(t).op = "load_sync" => pending_entries[t].sync
      BY DEF LoadRequest
    <3> QED
      BY <3>1, <3>2 DEF MissSent
  <2>5. storebuf_l2_response(t)' => r = StoreRequest(t)
    <3>1. storebuf_l2_response(t)' => r.id = t /\ Ack[r.op] # "load_ack"
      BY <2>1 DEF storebuf_l2_response
    <3>2. r.id = t => r \in requests
      BY <1>3 DEF Foreigns
    <3>3. Ack[r.op] # "load_ack" => r.op \notin LoadOps
      BY AckOf DEF LoadOps
    <3> QED
      BY <3>1, <3>2, <3>3, Outstanding
  <2>6. StoreRequest(t).op = pending_stores[t].op /\ StoreRequest(t).line = pending_stores[t].line
    BY DEF StoreRequest
  <2>7. ~(storebuf_l2_response(t)' /\ pending_stores[t].op = "store" /\ pending_stores[t].line = a)
    BY <2>2, <2>5, <2>6 DEF Writes
  <2>8. mem'[a] = mem[a]
    BY <2>1, <2>2
  <2> QED
    BY <2>3, <2>4, <2>7, <2>8
<1> QED
  BY <1>1, <1>2, <1>3, L2Cases

\* A thread enters dcache_tag_stage when it is not suspended, and is rolled back
\* only by its own instruction in dcache_data_stage.
LEMMA Enters ==
    ASSUME L1IInv, NEW send \in Sends, Clock(send), NEW t \in Threads
    PROVE  /\ Active(t)' => /\ dt' # None /\ dt'.thread = t /\ ~wb_rollback_en(t)'
                            /\ ~Suspended(t) /\ ~pending_stores[t].thread_waiting
                            /\ \E i \in can_issue(t) : dt'.op = i.op /\ dt'.line = i.line
           /\ ~Active(t) /\ ~Active(t)' => retry'[t] = retry[t]
<1>1. Active(t)' <=> dt' # None /\ dt'.thread = t /\ ~wb_rollback_en(t)'
  BY DEF Active, instruction_valid
<1>2. Active(t)' => ~Suspended(t) /\ \E i \in can_issue(t) : dt'.op = i.op /\ dt'.line = i.line
  BY <1>1, TagStep DEF Suspended, wb_suspend_thread, wb_rollback_en
<1>3. pending_stores[t].thread_waiting => Suspended(t)
  BY DEF L1IInv, WaitsOK
<1>4. wb_rollback_en(t)' => Active(t)
  BY DataStep
<1> QED
  BY <1>1, <1>2, <1>3, <1>4, RetryStep

LEMMA SyncStoreStep ==
    ASSUME L1IInv, NEW send \in Sends, Clock(send), NEW t \in Threads
    PROVE  SyncStoreOK(t)'
<1> DEFINE e == pending_stores[t]
           f == pending_stores'[t]
<1> SUFFICES ASSUME f.valid, f.op = "store_sync"
             PROVE  /\ f.thread_waiting <=> ~f.response_received
                    /\ linked'[t] # None /\ linked'[t].line = f.line
                    /\ Active(t)' => /\ f.response_received
                                     /\ dt'.op = "store_sync" /\ dt'.line = f.line
                    /\ ~Active(t)' => /\ retry'[t] # None
                                      /\ retry'[t].op = "store_sync" /\ retry'[t].line = f.line
  BY DEF SyncStoreOK
<1>1. /\ e.valid /\ e.op = "store_sync" =>
           /\ e.thread_waiting <=> ~e.response_received
           /\ linked[t] # None /\ linked[t].line = e.line
           /\ Active(t) => e.response_received /\ dt.op = "store_sync" /\ dt.line = e.line
           /\ ~Active(t) => retry[t] # None /\ retry[t].op = "store_sync" /\ retry[t].line = e.line
      /\ Active(t) /\ dt.op = "store_sync" => linked[t] # None /\ linked[t].line = dt.line
  BY DEF L1IInv, SyncOK, SyncStoreOK, LinkOK
<1>2. f.thread_waiting <=> ~sq_wake(t) /\ (e.thread_waiting \/ sq_rollback(t, send))
  BY Queues
<1>3. sq_wake(t) <=> storebuf_l2_response(t) /\ e.thread_waiting
  BY DEF sq_wake
<1>4. sq_rollback(t, send) => Active(t)
  BY Asking
<1>5. storebuf_l2_response(t) => e.valid /\ ~e.response_received
  BY DEF L1IInv, RequestsOK, StoreSent
<1>6. ASSUME ~Active(t), e.valid, e.op = "store_sync", f.line = e.line,
             e.response_received => f.response_received,
             f.thread_waiting <=> ~f.response_received
      PROVE  /\ linked'[t] # None /\ linked'[t].line = f.line
             /\ Active(t)' => /\ f.response_received
                              /\ dt'.op = "store_sync" /\ dt'.line = f.line
             /\ ~Active(t)' => /\ retry'[t] # None
                               /\ retry'[t].op = "store_sync" /\ retry'[t].line = f.line
  <2>1. linked'[t] = linked[t]
    BY <1>6, LinkedStep
  <2>2. ASSUME Active(t)'
        PROVE  f.response_received /\ dt'.op = "store_sync" /\ dt'.line = f.line
    <3>1. e.response_received
      BY <1>1, <1>6, <2>2, Enters
    <3>2. masked_interrupt(t)
      BY <1>6 DEF masked_interrupt
    <3>3. PICK i \in can_issue(t) : dt'.op = i.op /\ dt'.line = i.line
      BY <2>2, Enters
    <3>4. i = retry[t]
      BY <1>1, <1>6, <3>2, <3>3 DEF can_issue
    <3> QED
      BY <1>1, <1>6, <2>2, <3>1, <3>3, <3>4
  <2>3. ~Active(t)' => retry'[t] = retry[t]
    BY <1>6, Enters
  <2> QED
    BY <1>1, <1>6, <2>1, <2>2, <2>3
<1>7. CASE Kept(t, send, e, f)
  <2>1. /\ e.valid /\ e.op = "store_sync" /\ f.line = e.line /\ ~dd_store_en(t)
        /\ f.response_received = e.response_received /\ ~storebuf_l2_response(t)
    BY <1>7 DEF Kept
  <2>2. ~Active(t)
    <3>1. Active(t) /\ dt.op = "store_sync" => dt.tlb_hit
      BY DEF L1IInv, PipelineOK, Active, instruction_valid
    <3>2. Active(t) => dd_store_en(t)
      BY <1>1, <2>1, <3>1 DEF Active, dd_store_en, Asks, StoreOps
    <3> QED
      BY <2>1, <3>2
  <2>3. f.thread_waiting <=> ~f.response_received
    BY <1>1, <1>2, <1>3, <1>4, <2>1, <2>2
  <2> QED
    BY <1>6, <2>1, <2>2, <2>3
<1>8. CASE Enqueued(t, send, e, f)
  <2>1. /\ dt.op = "store_sync" /\ sq_rollback(t, send) /\ f.line = dt.line /\ ~f.response_received
    BY <1>8 DEF Enqueued
  <2>2. Active(t) /\ dt.tlb_hit
    BY <1>8, Asking DEF Enqueued
  <2>3. f.thread_waiting
    BY <1>2, <1>3, <2>1, <2>2, ActiveThread
  <2>4. dd' # None /\ dd'.thread = t /\ ~dd'.trap
    BY <2>1, <2>2, DataStep
  <2>5. ~Active(t)'
    BY <2>4, Enters DEF wb_rollback_en
  <2>6. linked'[t] = linked[t]
    BY <2>1, LinkedStep
  <2>7. retry'[t] # None /\ retry'[t].op = "store_sync" /\ retry'[t].line = dt.line
    BY <2>1, <2>2, <2>4, RetryStep
  <2> QED
    BY <1>1, <2>1, <2>2, <2>3, <2>5, <2>6, <2>7
<1>9. CASE Received(t, send, e, f)
  <2>1. /\ ~Active(t) /\ e.op = "store_sync" /\ f.line = e.line /\ f.response_received
        /\ storebuf_l2_response(t)
    BY <1>9 DEF Received
  <2>2. ~f.thread_waiting
    BY <1>1, <1>2, <1>3, <1>4, <1>5, <2>1
  <2> QED
    BY <1>5, <1>6, <2>1, <2>2
<1> QED
  BY <1>7, <1>8, <1>9, Queues DEF Combined, Cleared

LEMMA LinkStep ==
    ASSUME L1IInv, NEW send \in Sends, Clock(send), NEW t \in Threads
    PROVE  LinkOK(t)'
<1> USE NoneAssumption
<1> DEFINE e == pending_stores[t]
           f == pending_stores'[t]
           loads == Active(t) /\ dt.op = "load_sync"
<1>1. /\ dd_load_sync_pending[t] =>
           linked[t] = None /\ (retry[t] # None => retry[t].op # "store_sync")
      /\ Active(t) /\ dt.op = "store_sync" => linked[t] # None /\ linked[t].line = dt.line
      /\ pending_entries[t].valid /\ pending_entries[t].sync => linked[t] = None
      /\ linked[t] # None /\ load_sync_address[t] = linked[t].line =>
           linked[t].data = mem[linked[t].line] \/ Storing(t, linked[t].line)
      /\ e.valid /\ e.op = "store_sync" =>
           /\ linked[t] # None /\ linked[t].line = e.line
           /\ ~Active(t) => retry[t] # None /\ retry[t].op = "store_sync" /\ retry[t].line = e.line
  BY DEF L1IInv, SyncOK, LinkOK, SyncStoreOK
<1>2. /\ ~loads => linked'[t] = linked[t] /\ dd_load_sync_pending'[t] = dd_load_sync_pending[t]
      /\ loads => /\ dd_load_sync_pending'[t] = ~dd_load_sync_pending[t]
                  /\ dd' # None => linked'[t] = None
                  /\ dd' = None => /\ linked'[t] = [line |-> dt.line, data |-> load_value]
                                   /\ dd_load_sync_pending[t] /\ cached_load_req /\ cache_hit
  BY LinkedStep
<1>3. ASSUME dd_load_sync_pending'[t]
      PROVE  linked'[t] = None /\ (retry'[t] # None => retry'[t].op # "store_sync")
  <2>1. dd_load_sync_pending[t] \in BOOLEAN
    BY DEF L1IInv, L1TypeOK
  <2>2. CASE loads
    BY <1>2, <1>3, <2>1, <2>2, RetryStep
  <2>3. CASE ~loads
    <3>1. linked[t] = None /\ linked'[t] = None /\ (retry[t] # None => retry[t].op # "store_sync")
      BY <1>1, <1>2, <1>3, <2>3
    <3> QED
      BY <1>1, <3>1, RetryStep
  <2> QED
    BY <2>2, <2>3
<1>4. ASSUME Active(t)', dt'.op = "store_sync"
      PROVE  linked'[t] # None /\ linked'[t].line = dt'.line
  <2>1. PICK i \in can_issue(t) : dt'.op = i.op /\ dt'.line = i.line
    BY <1>4, Enters
  <2>2. ~loads
    <3> SUFFICES ASSUME loads PROVE FALSE
      OBVIOUS
    <3>1. dd' = None
      BY <1>4, Enters, DataStep DEF wb_rollback_en
    <3>2. linked[t] = None /\ retry[t] = None
      BY <1>1, <1>2, <3>1, ActiveThread
    <3> QED
      BY <1>4, <2>1, <3>2 DEF can_issue
  <2>3. linked[t] # None /\ linked[t].line = i.line
    <3>1. CASE retry[t] # None /\ masked_interrupt(t)
      <4>1. i = retry[t]
        BY <2>1, <3>1 DEF can_issue
      <4>2. e.valid /\ e.op = "store_sync"
        BY <1>1, <1>4, <2>1, <3>1, <4>1 DEF masked_interrupt
      <4>3. ~Active(t)
        BY <3>1, ActiveThread
      <4> QED
        BY <1>1, <4>1, <4>2, <4>3
    <3>2. CASE ~(retry[t] # None /\ masked_interrupt(t))
      BY <1>4, <2>1, <3>2 DEF can_issue
    <3> QED
      BY <3>1, <3>2
  <2> QED
    BY <1>2, <2>1, <2>2, <2>3
<1>5. ASSUME pending_entries'[t].valid, pending_entries'[t].sync
      PROVE  linked'[t] = None
  <2>1. CASE Opened(t, send, pending_entries[t], pending_entries'[t])
    <3>1. dd_cache_miss /\ dt.thread = t /\ dt.op = "load_sync"
      BY <1>5, <2>1 DEF Opened, NewMiss
    <3>2. loads /\ dd' # None
      BY <3>1, Asking, DataStep DEF dd_cache_miss
    <3> QED
      BY <1>2, <3>2
  <2>2. CASE Joined(t, send, pending_entries[t], pending_entries'[t])
    <3>1. pending_entries[t].valid /\ pending_entries[t].sync
      BY <1>5, <2>2 DEF Joined
    <3>2. ~Active(t)
      BY <3>1, ActiveThread
    <3> QED
      BY <1>1, <1>2, <3>1, <3>2
  <2> QED
    BY <1>5, <2>1, <2>2, Queues DEF Answered
<1>6. ASSUME NEW a \in Lines, linked'[t] # None, linked'[t].line = a, load_sync_address'[t] = a
      PROVE  linked'[t].data = mem'[a] \/ Storing(t, a)'
  <2>1. /\ mem'[a] = mem[a]
        /\ load_sync_address[t] = a \/ (pending_entries[t].valid /\ pending_entries[t].sync)
        /\ ~(storebuf_l2_response(t)' /\ e.op = "store" /\ e.line = a)
    BY <1>6, Reserved
  <2>2. Storing(t, a) => Storing(t, a)'
    <3>1. Storing(t, a) => e.valid /\ e.op = "store" /\ e.line = a /\ ~storebuf_l2_response(t)
      BY DEF Storing
    <3>2. Storing(t, a) => f.valid /\ f.op = "store" /\ f.line = a
      BY <3>1, Queues DEF Kept, Combined, Enqueued, Received, Cleared
    <3> QED
      BY <2>1, <3>1, <3>2 DEF Storing
  <2>3. CASE ~loads
    <3>1. linked'[t] = linked[t]
      BY <1>2, <2>3
    <3>2. load_sync_address[t] = a
      BY <1>1, <1>6, <2>1, <3>1
    <3>3. linked[t].data = mem[a] \/ Storing(t, a)
      BY <1>1, <1>6, <3>1, <3>2
    <3> QED
      BY <2>1, <2>2, <3>1, <3>3
  <2>4. CASE loads
    <3>1. /\ dd' = None /\ linked'[t].line = dt.line /\ linked'[t].data = load_value
          /\ cached_load_req /\ cache_hit /\ dt.thread = t /\ dt.line = a
      BY <1>2, <1>6, <2>4 DEF Active
    <3>2. /\ load_value = Merge(Before(a), store_bypass(t, a)) /\ Before(a) \in Content
      BY <3>1, LoadReturns
    <3>3. ~pending_entries[t].valid /\ (e.valid => e.op # "store_sync")
      BY <2>4, ActiveThread
    <3>4. load_sync_address[t] = a
      BY <2>1, <3>3
    <3>5. Before(a) = mem[a]
      BY <3>4 DEF Before, L1IInv, ResponseOK
    <3>6. CASE e.valid /\ e.line = a /\ e.op = "store"
      <4>1. CASE storebuf_l2_response(t)
        <5>1. /\ response_stage2 # None /\ response_stage2.line = a
              /\ response_stage2.data = Merge(response_stage2.old, e.lanes)
              /\ response_stage2.data = mem[a]
          BY <3>6, <4>1 DEF L1IInv, RequestsOK, ResponseOK, storebuf_l2_response
        <5>2. load_value = mem[a]
          BY <3>2, <3>6, <5>1 DEF Before, store_bypass, StoreOps
        <5> QED
          BY <2>1, <3>1, <5>2
      <4>2. CASE ~storebuf_l2_response(t)
        BY <2>2, <3>6, <4>2 DEF Storing
      <4> QED
        BY <4>1, <4>2
    <3>7. CASE ~(e.valid /\ e.line = a /\ e.op = "store")
      <4>1. store_bypass(t, a) = NoLanes
        BY <3>3, <3>7 DEF store_bypass, StoreOps
      <4>2. Merge(Before(a), NoLanes) = Before(a)
        BY <3>2 DEF Merge, NoLanes, Content
      <4> QED
        BY <2>1, <3>1, <3>2, <3>5, <4>1, <4>2
    <3> QED
      BY <3>6, <3>7
  <2> QED
    BY <2>3, <2>4
<1>7. linked'[t] # None => linked'[t].line \in Lines
  BY LinkedStep DEF Link
<1>8. linked'[t] # None /\ load_sync_address'[t] = linked'[t].line =>
        (linked[t].data = mem[linked[t].line] \/ Storing(t, linked[t].line))'
  BY <1>6, <1>7 DEF Storing
<1> QED
  BY <1>3, <1>4, <1>5, <1>8 DEF LinkOK

-----------------------------------------------------------------------------
LEMMA L1Init ==
    ASSUME Init
    PROVE  L1IInv
<1> USE NoneAssumption
<1>1. NoStore \in StoreType /\ NoMiss \in MissType
  BY MaskType DEF NoStore, StoreType, NoMiss, MissType
<1>2. L1TypeOK
  BY <1>1, MaskType DEF Init, L1TypeOK
<1>3. \A t \in Threads :
        /\ ~pending_stores[t].valid /\ ~pending_stores[t].thread_waiting
        /\ ~pending_stores[t].response_received /\ ~pending_entries[t].valid
        /\ ~thread_blocked[t] /\ ~dd_load_sync_pending[t] /\ linked[t] = None /\ retry[t] = None
  BY DEF Init, NoStore, NoMiss
<1>4. dt = None /\ dd = None /\ response_stage2 = None /\ requests = {} /\ \A w \in Ways : tags[w] = None
  BY DEF Init
<1>5. \A t \in Threads : /\ ~Active(t) /\ ~Suspended(t)
                         /\ ~dcache_l2_response(t) /\ ~storebuf_l2_response(t)
  BY <1>3, <1>4 DEF Active, instruction_valid, Suspended, wb_suspend_thread,
                    dcache_l2_response, storebuf_l2_response
<1>6. PipelineOK
  BY <1>4, <1>5 DEF PipelineOK
<1>7. ResponseOK /\ CacheOK
  BY <1>4 DEF ResponseOK, CacheOK
<1>8. WaitsOK /\ MissesOK
  BY <1>3, <1>5 DEF WaitsOK, MissesOK, InMiss
<1>9. RequestsOK
  BY <1>3, <1>4, <1>5 DEF RequestsOK, StoreSent, MissSent
<1>10. OwedOK
  <2>1. \A t \in Threads, a \in Lines : owed[t][a] = NoLanes
    BY DEF Init
  <2> QED
    BY <1>3, <2>1 DEF OwedOK, Storing
<1>11. SyncOK
  BY <1>3, <1>5 DEF SyncOK, SyncStoreOK, LinkOK
<1> QED
  BY <1>2, <1>6, <1>7, <1>8, <1>9, <1>10, <1>11 DEF L1IInv

LEMMA L1Clock ==
    ASSUME L1IInv, NEW send \in Sends, Clock(send)
    PROVE  L1IInv'
<1>1. dt' \in Entered \cup {None} /\ dd' \in Rollback \cup {None}
  BY TagStep, DataStep
<1>2. thread_blocked' \in [Threads -> BOOLEAN] /\ PipelineOK'
  BY PipelineStep
<1>3. dd_load_sync_pending' \in [Threads -> BOOLEAN] /\ linked' \in [Threads -> Link \cup {None}]
  BY LinkedStep
<1>4. pending_stores' \in [Threads -> StoreType] /\ pending_entries' \in [Threads -> MissType]
  BY Queues
<1>5. retry' \in [Threads -> Instr \cup {None}]
  BY RetryStep
<1>6. owed' \in [Threads -> [Lines -> Mask]] /\ OwedOK'
  BY OwedStep
<1>7. L1TypeOK'
  BY <1>1, <1>2, <1>3, <1>4, <1>5, <1>6, CacheStep, MemoryTyped DEF L1TypeOK
<1>8. SyncOK'
  BY SyncStoreStep, LinkStep DEF SyncOK
<1>9. ResponseOK' /\ CacheOK' /\ WaitsOK' /\ MissesOK' /\ RequestsOK'
  BY ResponseStep, CacheStep, WaitsStep, MissesStep, RequestsStep
<1> QED
  BY <1>2, <1>6, <1>7, <1>8, <1>9 DEF L1IInv

LEMMA L1Stutter ==
    ASSUME L1IInv, UNCHANGED vars
    PROVE  L1IInv'
<1> USE DEF vars
<1>1. L1TypeOK'
  BY DEF L1IInv, L1TypeOK
<1>2. \A t \in Threads : /\ Active(t)' <=> Active(t)
                         /\ Suspended(t)' <=> Suspended(t)
                         /\ dcache_l2_response(t)' <=> dcache_l2_response(t)
                         /\ storebuf_l2_response(t)' <=> storebuf_l2_response(t)
  BY DEF Active, Suspended, instruction_valid, wb_rollback_en, wb_suspend_thread,
         dcache_l2_response, storebuf_l2_response
<1>3. PipelineOK'
  BY <1>2 DEF L1IInv, PipelineOK
<1>4. ResponseOK'
  BY DEF L1IInv, ResponseOK
<1>5. CacheOK'
  BY DEF L1IInv, CacheOK, data_nxt
<1>6. WaitsOK' /\ MissesOK'
  BY <1>2 DEF L1IInv, WaitsOK, MissesOK, InMiss
<1>7. RequestsOK'
  BY DEF L1IInv, RequestsOK, LoadRequest, StoreRequest, StoreSent, MissSent,
         dcache_l2_response, storebuf_l2_response
<1>8. OwedOK'
  BY <1>2 DEF L1IInv, OwedOK, Storing
<1>9. SyncOK'
  BY DEF L1IInv, SyncOK, SyncStoreOK, LinkOK, Storing, Active, instruction_valid, wb_rollback_en,
         storebuf_l2_response
<1> QED
  BY <1>1, <1>3, <1>4, <1>5, <1>6, <1>7, <1>8, <1>9 DEF L1IInv

\* The inductive invariant of the memory pipeline: what the flip-flops of the
\* tag, data and writeback stages, the two queues, the response pipeline and the
\* L2 cache tell about each other after every clock edge.
THEOREM L1Invariance == Spec => []L1IInv
<1>1. Init => L1IInv
  BY L1Init
<1>2. L1IInv /\ [Next]_vars => L1IInv'
  BY L1Clock, L1Stutter DEF Next
<1> QED
  BY <1>1, <1>2, PTL DEF Spec

-----------------------------------------------------------------------------
\* Every line of the L1 data cache is what the L2 cache holds, once the
\* responses in the pipeline of l1_l2_interface have been applied.
THEOREM CacheIsCoherent == Spec => []L1Coherent
<1>1. ASSUME L1IInv PROVE L1Coherent
  <2>1. DOMAIN tags = Ways
    BY <1>1 DEF L1IInv, L1TypeOK
  <2> QED
    BY <1>1, <2>1, Settled DEF L1IInv, L1Coherent, settled
<1> QED
  BY <1>1, L1Invariance, PTL

\* No store that was not rolled back is dropped or overtaken in l1_store_queue
\* before the L2 cache has done it.
THEOREM StoresAreDelivered == Spec => []StoresDelivered
<1>1. ASSUME L1IInv PROVE StoresDelivered
  <2> SUFFICES ASSUME NEW t \in Threads, NEW a \in Lines, NEW l \in Lanes, owed[t][a][l] # None
               PROVE  /\ pending_stores[t].valid /\ pending_stores[t].op = "store"
                      /\ pending_stores[t].line = a /\ pending_stores[t].lanes[l] = owed[t][a][l]
                      /\ pending_stores[t].request_sent =>
                          \E r \in requests : r.id = t /\ r.op = "store" /\ r.line = a
                                              /\ r.lanes[l] = owed[t][a][l]
    BY DEF StoresDelivered
  <2>1. owed[t][a] = IF Storing(t, a) THEN pending_stores[t].lanes ELSE NoLanes
    BY <1>1 DEF L1IInv, OwedOK
  <2>2. Storing(t, a) /\ owed[t][a] = pending_stores[t].lanes
    BY <2>1 DEF NoLanes
  <2>3. pending_stores[t].request_sent => StoreRequest(t) \in requests
    BY <1>1, <2>2 DEF L1IInv, RequestsOK, StoreSent, Storing
  <2>4. StoreRequest(t).id = t /\ StoreRequest(t).op = pending_stores[t].op
        /\ StoreRequest(t).line = pending_stores[t].line /\ StoreRequest(t).lanes = pending_stores[t].lanes
    BY DEF StoreRequest
  <2> QED
    BY <2>2, <2>3, <2>4 DEF Storing
<1> QED
  BY <1>1, L1Invariance, PTL

\* A memory barrier that l1_store_queue lets pass has no store of its thread
\* before it that the L2 cache has not done.
THEOREM BarriersWait == Spec => []BarrierWaits
<1>1. ASSUME L1IInv PROVE BarrierWaits
  <2> SUFFICES ASSUME NEW t \in Threads, NEW send \in Sends, dd_membar_en(t), ~sq_rollback(t, send),
                      NEW a \in Lines
               PROVE  owed[t][a] = NoLanes
    BY DEF BarrierWaits
  <2>1. ~Storing(t, a)
    BY Rollbacks DEF Storing
  <2> QED
    BY <1>1, <2>1 DEF L1IInv, OwedOK
<1> QED
  BY <1>1, L1Invariance, PTL

\* A suspended thread waits in an entry of l1_store_queue or l1_load_miss_queue.
THEOREM WakeupsAreKept == Spec => []NoLostWakeup
<1>1. ASSUME L1IInv PROVE NoLostWakeup
  <2>1. \A t \in Threads : blocked_nxt(t) => Suspended(t)
    BY DEF blocked_nxt, Suspended
  <2> QED
    BY <1>1, <2>1 DEF NoLostWakeup, L1IInv, WaitsOK, InMiss
<1> QED
  BY <1>1, L1Invariance, PTL

\* A load that hits returns its thread's own store if the L2 cache has not done
\* it, and otherwise what the L2 cache holds, or held before a response in stage
\* 2 that does not acknowledge a store of the thread.
THEOREM LoadsAreCoherent == Spec => []LoadsCoherent
<1>1. ASSUME L1IInv PROVE LoadsCoherent
  <2> SUFFICES ASSUME cached_load_req, cache_hit, NEW l \in Lanes
               PROVE  LET own == owed[dt.thread][dt.line][l]
                          late == /\ response_stage2 # None /\ response_stage2.line = dt.line
                                  /\ ~(storebuf_l2_response(dt.thread) /\ response_stage2.type = "store_ack")
                      IN IF own # None THEN load_value[l] = own
                         ELSE \/ load_value[l] = mem[dt.line][l]
                              \/ late /\ load_value[l] = response_stage2.old[l]
    BY DEF LoadsCoherent
  <2>1. PICK t \in Threads, a \in Lines : t = dt.thread /\ a = dt.line
    BY <1>1, LoadReturns
  <2> DEFINE e == pending_stores[t]
             late == /\ response_stage2 # None /\ response_stage2.line = a
                     /\ ~(storebuf_l2_response(t) /\ response_stage2.type = "store_ack")
  <2>2. /\ Active(t) /\ Before(a) \in Content /\ store_bypass(t, a) \in Mask
        /\ load_value = Merge(Before(a), store_bypass(t, a))
    BY <1>1, <2>1, LoadReturns
  <2>3. load_value[l] = IF store_bypass(t, a)[l] = None THEN Before(a)[l] ELSE store_bypass(t, a)[l]
    BY <2>2 DEF Merge
  <2>4. owed[t][a] = IF Storing(t, a) THEN e.lanes ELSE NoLanes
    BY <1>1 DEF L1IInv, OwedOK
  <2>5. e.valid => e.op # "store_sync"
    <3>1. dt.op # "store_sync"
      BY DEF cached_load_req, LoadOps
    <3> QED
      BY <1>1, <2>2, <3>1, ActiveThread
  <2>6. store_bypass(t, a) = IF e.valid /\ e.line = a /\ e.op = "store" THEN e.lanes ELSE NoLanes
    BY <2>5 DEF store_bypass, StoreOps
  <2>7. storebuf_l2_response(t) =>
          /\ response_stage2 # None /\ e.valid /\ response_stage2.line = e.line
          /\ response_stage2.type = Ack[e.op] /\ response_stage2.data = mem[e.line]
          /\ e.op = "store" => response_stage2.data = Merge(response_stage2.old, e.lanes)
    BY <1>1 DEF storebuf_l2_response, L1IInv, RequestsOK, StoreSent, ResponseOK
  <2>8. e.valid /\ Ack[e.op] = "store_ack" => e.op = "store"
    <3>1. e.valid => e.op \in StoreOps \cup ControlOps
      BY <1>1 DEF L1IInv, L1TypeOK, StoreType, RequestsOK
    <3> QED
      BY <2>5, <3>1, AckOf DEF StoreOps, ControlOps
  <2>9. storebuf_l2_response(t) /\ response_stage2.type = "store_ack" /\ response_stage2.line = a =>
          /\ e.valid /\ e.line = a /\ e.op = "store"
          /\ mem[a] = Merge(response_stage2.old, e.lanes)
    BY <2>7, <2>8
  <2>10. CASE owed[t][a][l] # None
    <3>1. Storing(t, a) /\ owed[t][a] = e.lanes
      BY <2>4, <2>10 DEF NoLanes
    <3>2. store_bypass(t, a) = owed[t][a]
      BY <2>6, <3>1 DEF Storing
    <3> QED
      BY <2>1, <2>3, <2>10, <3>2
  <2>11. CASE owed[t][a][l] = None /\ store_bypass(t, a)[l] # None
    <3>1. e.valid /\ e.line = a /\ e.op = "store" /\ store_bypass(t, a) = e.lanes
      BY <2>6, <2>11 DEF NoLanes
    <3>2. storebuf_l2_response(t)
      BY <2>4, <2>11, <3>1 DEF Storing
    <3>3. mem[a] = Merge(response_stage2.old, e.lanes)
      BY <2>7, <3>1, <3>2
    <3>4. mem[a][l] = e.lanes[l]
      BY <2>11, <3>1, <3>3 DEF Merge
    <3> QED
      BY <2>1, <2>3, <2>11, <3>1, <3>4
  <2>12. CASE owed[t][a][l] = None /\ store_bypass(t, a)[l] = None
    <3>1. load_value[l] = Before(a)[l]
      BY <2>3, <2>12
    <3>2. CASE ~(response_stage2 # None /\ response_stage2.line = a)
      BY <2>1, <2>12, <3>1, <3>2 DEF Before
    <3>3. CASE late
      BY <2>1, <2>12, <3>1, <3>3 DEF Before
    <3>4. CASE response_stage2 # None /\ response_stage2.line = a /\ ~late
      <4>1. /\ mem[a] = Merge(response_stage2.old, e.lanes) /\ store_bypass(t, a) = e.lanes
        BY <2>6, <2>9, <3>4
      <4>2. mem[a][l] = response_stage2.old[l]
        BY <2>12, <4>1 DEF Merge
      <4> QED
        BY <2>1, <2>12, <3>1, <3>4, <4>2 DEF Before
    <3> QED
      BY <3>2, <3>3, <3>4
  <2> QED
    BY <2>10, <2>11, <2>12
<1> QED
  BY <1>1, L1Invariance, PTL

\* While the L2 cache would let a synchronized store succeed, its line has the
\* content that the thread's last synchronized load returned.
THEOREM SyncIsAtomic == Spec => []SyncAtomic
<1>1. ASSUME L1IInv PROVE SyncAtomic
  <2> SUFFICES ASSUME NEW r \in requests, r.op = "store_sync", Writes(r)
               PROVE  linked[r.id] = [line |-> r.line, data |-> mem[r.line]]
    BY DEF SyncAtomic
  <2>1. PICK t \in Threads : t = r.id
    BY <1>1, Outstanding
  <2>2. r = StoreRequest(t) /\ StoreSent(t)
    BY <1>1, <2>1, Outstanding DEF LoadOps
  <2>3. r.line = pending_stores[t].line /\ pending_stores[t].valid /\ pending_stores[t].op = "store_sync"
    BY <2>2 DEF StoreRequest, StoreSent
  <2>4. linked[t] # None /\ linked[t].line = r.line
    BY <1>1, <2>3 DEF L1IInv, SyncOK, SyncStoreOK
  <2>5. load_sync_address[t] = r.line
    BY <2>1 DEF Writes
  <2>6. ~Storing(t, r.line)
    BY <2>3 DEF Storing
  <2>7. linked[t].data = mem[r.line]
    BY <1>1, <2>4, <2>5, <2>6 DEF L1IInv, SyncOK, LinkOK
  <2>8. linked[t] \in Link
    BY <1>1, <2>4 DEF L1IInv, L1TypeOK
  <2> QED
    BY <2>1, <2>4, <2>7, <2>8 DEF Link
<1> QED
  BY <1>1, L1Invariance, PTL

LEMMA AtMostOne ==
    ASSUME NEW S, \A x, y \in S : x = y
    PROVE  Cardinality(S) <= 1
<1>1. CASE S = {}
  BY <1>1, FS_EmptySet
<1>2. CASE S # {}
  <2>1. PICK x : S = {x}
    BY <1>2
  <2> QED
    BY <2>1, FS_Singleton
<1> QED
  BY <1>1, <1>2

\* No assertion about the queues, the response pipeline, the ways that hit or
\* the suspension of threads fails in any cycle.
THEOREM AssertionsNeverFail == Spec => []AssertionsHold
<1>1. ASSUME L1IInv PROVE AssertionsHold
  <2>1. ASSUME NEW t \in Threads
        PROVE  LET e == pending_stores[t] IN
               /\ Asks(t, StoreOps \cup ControlOps \cup {"membar"}) => ~e.thread_waiting
               /\ dd_store_en(t) /\ e.valid /\ e.op = "store_sync" =>
                     e.response_received /\ dt.op = "store_sync" /\ dt.line = e.line
               /\ dd_store_en(t) /\ restarted_sync_request(t) => ~storebuf_l2_response(t)
               /\ storebuf_l2_response(t) => e.valid /\ e.request_sent /\ ~e.response_received
               /\ \A send \in Sends : ~(sq_wake(t) /\ sq_rollback(t, send))
    <3>1. Asks(t, StoreOps \cup ControlOps \cup {"membar"}) => Active(t)
      BY DEF Asks, Active
    <3>2. storebuf_l2_response(t) => StoreSent(t)
      BY <1>1 DEF L1IInv, RequestsOK
    <3>3. dd_store_en(t) => Active(t)
      BY Asking
    <3>4. \A send \in Sends : sq_rollback(t, send) => Active(t)
      BY Asking
    <3> QED
      BY <1>1, <3>1, <3>2, <3>3, <3>4, ActiveThread DEF StoreSent, restarted_sync_request, sq_wake
  <2>2. ASSUME NEW t \in Threads
        PROVE  LET e == pending_entries[t] IN
               /\ dd_cache_miss /\ dt.thread = t /\ request_unique => ~e.valid /\ ~dcache_l2_response(t)
               /\ dcache_l2_response(t) => e.valid /\ e.request_sent
               /\ dd_cache_miss /\ collided_miss(t) => ~dcache_l2_response(t)
    <3>1. dcache_l2_response(t) => MissSent(t)
      BY <1>1 DEF L1IInv, RequestsOK
    <3>2. dd_cache_miss /\ dt.thread = t => ~pending_entries[t].valid
      BY <1>1, Asking, ActiveThread
    <3> QED
      BY <1>1, <3>1, <3>2, JoinsBeforeResponse DEF MissSent
  <2>3. ASSUME NEW a \in Lines PROVE Cardinality({t \in Threads : Misses(t, a)}) <= 1
    <3>1. \A t, u \in {v \in Threads : Misses(v, a)} : t = u
      BY <1>1 DEF L1IInv, MissesOK, Misses
    <3> QED
      BY <3>1, AtMostOne
  <2>4. \A t \in Threads : l2i_dcache_wake(t) => Suspended(t)
    <3>1. \A u \in Threads : dcache_l2_response(u) => pending_entries[u].valid
      BY <2>2
    <3> QED
      BY <1>1, <3>1 DEF l2i_dcache_wake, sq_wake, wake_bitmap, InMiss, L1IInv, WaitsOK
  <2>5. \A t, u \in Threads : ~(sq_wake(t) /\ t \in wake_bitmap(u))
    BY <1>1, <2>2 DEF sq_wake, wake_bitmap, InMiss, L1IInv, WaitsOK
  <2>6. response_stage2 # None => Cardinality(snoop_hit_ways) <= 1
    <3>1. response_stage2 # None => \A w, v \in snoop_hit_ways : w = v
      BY <1>1, UpdateWay DEF L1IInv
    <3> QED
      BY <3>1, AtMostOne
  <2>7. cached_load_req => Cardinality(way_hits) <= 1
    <3>1. ASSUME cached_load_req, NEW w \in way_hits, NEW v \in way_hits PROVE w = v
      <4>1. dt # None /\ dt.op \in LoadOps
        BY <3>1 DEF cached_load_req, instruction_valid
      <4>2. dt.line # None /\ way_hits = {x \in Ways : tags[x] = dt.line}
        BY <1>1, <4>1 DEF L1IInv, PipelineOK, way_hits, LoadOps
      <4> QED
        BY <1>1, <3>1, <4>2 DEF L1IInv, CacheOK
    <3> QED
      BY <3>1, AtMostOne
  <2>8. \A t \in Threads : ~(wb_suspend_thread(t) /\ thread_blocked[t])
    BY <1>1 DEF wb_suspend_thread, L1IInv, PipelineOK
  <2> QED
    BY <2>1, <2>2, <2>3, <2>4, <2>5, <2>6, <2>7, <2>8 DEF AssertionsHold, Suspended
<1> QED
  BY <1>1, L1Invariance, PTL

=============================================================================
