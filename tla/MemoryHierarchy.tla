-------------------------- MODULE MemoryHierarchy --------------------------
(***************************************************************************)
(* IntegrationWithMacSim/src/memory.cc: the caches of MacSim between the   *)
(* cores and the memory controllers.  Each cache (dcu_c) has four queues   *)
(* of requests; each core has a file of miss status registers (MSHR) in    *)
(* memory_c.  A request waits in a queue until its ready cycle and the     *)
(* queues are sorted by priority, so that one action here, which serves    *)
(* one entry of one queue, takes any of them.  A write port that is busy   *)
(* lets the entry wait, too.  Which line a full cache replaces is left     *)
(* open (SetCache models it).                                              *)
(***************************************************************************)
EXTENDS Integers, Sequences, FiniteSets, SequencesExt

CONSTANTS
    Topology,   (* KNOB_MEMORY_TYPE                                        *)
    Cores, Slices,   (* the cores and the tiles of the last-level cache    *)
    Lines,           (* the addresses of cache lines, never zero           *)
    Home,            (* BANK(addr, m_num_l3, ...): the tile of a line      *)
    Types,           (* the kinds of request that the cores make           *)
    Mshr,            (* the MSHR entries of one core                       *)
    Wbs,             (* bound on the write-backs under way                 *)
    QueueSize,       (* entries of the in_queue and the fill_queue          *)
    OutSize,         (* entries of the wb_queue and the out_queue           *)
    DRAMSize,
    Ways,            (* how many lines a cache holds, by level             *)
    MCsim            (* memory is simulated by MCsim, not by dram.cc       *)

MEM_L1 == 1
MEM_L2 == 2
MEM_L3 == 3
MEM_MC == 4

Demand == {"IFETCH", "DFETCH", "DSTORE"}
Topologies == {"l3_coupled_network", "l3_decoupled_network",
               "l2_coupled_local", "no_cache", "l2_decoupled_network",
               "l2_decoupled_local"}

(* The in_queue is longer than the MSHR file, as the code makes it: 1024   *)
(* entries for KNOB_MEM_MSHR_SIZE of 128.                                  *)
HierarchyAssumption ==
    /\ Topology \in Topologies
    /\ Home \in [Lines -> Slices]
    /\ Types \subseteq Demand \cup {"DPRF"}
    /\ QueueSize \in Nat /\ QueueSize > Cardinality(Mshr)
    /\ OutSize \in Nat \ {0} /\ DRAMSize \in Nat \ {0}
    /\ Ways \in [MEM_L1 .. MEM_L3 -> Nat \ {0}]
    /\ MCsim \in BOOLEAN

Local == Topology \in {"l2_coupled_local", "no_cache"}
Coupled == Topology = "l3_coupled_network" \/ Local
CoupledAssumption == Coupled => Slices = Cores

(* The flags that the topology's constructor hands to dcu_c::init.         *)
m_done(l) == l = MEM_L2
m_coupled_up(l) == l = MEM_L2 \/ (l = MEM_L3 /\ Coupled)
m_coupled_down(l) == l = MEM_L1 \/ (l = MEM_L2 /\ Coupled)
m_disable(l) ==
    CASE Topology = "no_cache" -> TRUE
      [] Topology = "l2_coupled_local" -> l = MEM_L3
      [] Topology \in {"l2_decoupled_network", "l2_decoupled_local"} ->
             l = MEM_L2
      [] OTHER -> FALSE
m_has_router(l) ==
    \/ l = MEM_L3
    \/ l = MEM_L2 /\ Topology # "l2_decoupled_local"
    \/ l = MEM_L1 /\ Topology = "l2_coupled_local"

Caches == ({MEM_L1, MEM_L2} \X Cores) \cup ({MEM_L3} \X Slices)
Queues == {"in", "fill", "wb", "out"}

VARIABLES
    req,    (* the mem_req_s of the MSHR entries and of the write-backs    *)
    q,      (* the queues of each cache                                    *)
    cache,  (* the lines of each cache: "I", "clean" or "dirty"            *)
    noc,    (* the messages in the network                                 *)
    dram,   (* the requests in the memory controllers; with MCsim,         *)
            (* m_pending_request                                           *)
    owed    (* MCsim: how many transactions of a line are not called back  *)

vars == <<req, q, cache, noc, dram, owed>>

(* An id is a core and one of its MSHR entries, or a write-back.           *)
WbIds == {-1} \X Wbs
Ids == (Cores \X Mshr) \cup WbIds
Free == [type |-> "free"]

(* memory_c::memory_c and dcu_c::dcu_c                                     *)
Init ==
    /\ req = [i \in Ids |-> Free]
    /\ q = [c \in Caches |-> [k \in Queues |-> {}]]
    /\ cache = [c \in Caches |-> [a \in Lines |-> "I"]]
    /\ noc = {}
    /\ dram = {}
    /\ owed = [a \in Lines |-> 0]

Busy(r) == {i \in Ids : r[i] # Free}
m_mshr(r, c) == {i \in Busy(r) : i[1] = c}
Size(k) == IF k \in {"in", "fill"} THEN QueueSize ELSE OutSize
Full(qs, c, k) == Cardinality(qs[c][k]) >= Size(k)
Push(qs, c, k, i) == [qs EXCEPT ![c][k] = @ \cup {i}]
Pop(qs, c, k, i) == [qs EXCEPT ![c][k] = @ \ {i}]

(* set_cache_id: the cache of each level that a request goes through.      *)
m_cache_id(r, l) == IF l # MEM_L3 \/ Local THEN r.core ELSE Home[r.addr]
At(r, l) == <<l, m_cache_id(r, l)>>

(* m_next_id and m_prev_id are the cache's own number, or -1 where the     *)
(* levels are not coupled.                                                 *)
DirectDown(c, r) ==
    \/ m_coupled_down(c[1]) /\ c[2] = m_cache_id(r, c[1] + 1)
    \/ ~m_has_router(c[1])
DirectUp(c, r) ==
    \/ m_coupled_up(c[1]) /\ c[2] = m_cache_id(r, c[1] - 1)
    \/ ~m_has_router(c[1])

-----------------------------------------------------------------------------
(* Lines.                                                                  *)

Valid(ca, c) == {a \in Lines : ca[c][a] # "I"}
Hit(ca, c, a) == ~m_disable(c[1]) /\ ca[c][a] # "I"
Status(dirty) == IF dirty THEN "dirty" ELSE "clean"

new_wb_req(core, a) == [type |-> "WB", addr |-> a, core |-> core,
                        state |-> "NEW", dirty |-> TRUE, merge |-> <<>>]

Mutant_insert_cache(c, r, st) ==
    \E v \in Valid(st.cache, c) \cup {"none"} :
        /\ (v = "none") <=> Cardinality(Valid(st.cache, c)) < Ways[c[1]]
        /\ cache' = [st.cache EXCEPT ![c] =
                        [a \in Lines |-> IF a = r.addr THEN Status(r.dirty)
                                         ELSE IF a = v THEN "I" ELSE @[a]]]
        /\ req' = st.req /\ q' = st.q

(* A line goes into a cache that does not have it.  A dirty victim becomes *)
(* a write-back in the wb_queue.  st is the state so far within the step.  *)
insert_cache(c, r, st) ==
    \E v \in Valid(st.cache, c) \cup {"none"} :
        /\ (v = "none") <=> Cardinality(Valid(st.cache, c)) < Ways[c[1]]
        /\ cache' = [st.cache EXCEPT ![c] =
                        [a \in Lines |-> IF a = r.addr THEN Status(r.dirty)
                                         ELSE IF a = v THEN "I" ELSE @[a]]]
        /\ IF v # "none" /\ st.cache[c][v] = "dirty"
           THEN \E w \in WbIds :
                    /\ st.req[w] = Free
                    /\ req' = [st.req EXCEPT ![w] = new_wb_req(r.core, v)]
                    /\ q' = Push(st.q, c, "wb", w)
           ELSE req' = st.req /\ q' = st.q

(* The line of a request is brought into a cache, or, if it is there,      *)
(* becomes dirty when the request is.                                      *)
FillLine(c, r, st) ==
    IF m_disable(c[1])
    THEN req' = st.req /\ q' = st.q /\ cache' = st.cache
    ELSE IF Hit(st.cache, c, r.addr)
    THEN /\ cache' = IF r.dirty
                     THEN [st.cache EXCEPT ![c][r.addr] = "dirty"]
                     ELSE st.cache
         /\ req' = st.req /\ q' = st.q
    ELSE insert_cache(c, r, st)

-----------------------------------------------------------------------------
(* memory_c::new_mem_req and flush_prefetch.                               *)

InQueue(qs, i) == \E c \in Caches, k \in Queues : i \in qs[c][k]

(* All prefetches that nothing is merged to and that are in some queue.    *)
flush_prefetch(c) ==
    LET gone == {i \in m_mshr(req, c) : /\ req[i].type = "DPRF"
                                        /\ req[i].merge = <<>>
                                        /\ InQueue(q, i)}
    IN  [req |-> [i \in Ids |-> IF i \in gone THEN Free ELSE req[i]],
         q |-> [d \in Caches |-> [k \in Queues |-> q[d][k] \ gone]],
         cache |-> cache]

allocate_new_entry(r, c) == (({c} \X Mshr) \ Busy(r))

(* search_req: the first entry of the core's MSHR file for the line, which *)
(* is the one that the others are merged to.                               *)
search_req(c, a) ==
    {i \in m_mshr(req, c) : req[i].addr = a /\ req[i].state # "MERGED"}

init_new_req(t, a, c) == [type |-> t, addr |-> a, core |-> c,
                          state |-> "NEW", dirty |-> FALSE, merge |-> <<>>]

(* adjust_req: a prefetch under way is promoted to the demand's request.   *)
adjust_req(i, t) == [req EXCEPT ![i].type = t, ![i].dirty = FALSE]

Promoted(i) == req[i].type = "DPRF"

(* A redundant prefetch and one that finds no room are dropped.  The room  *)
(* is looked for in the in_queue of the L2 cache first and then in the     *)
(* MSHR; either makes the prefetches of the core go.  No entry: the core   *)
(* tries again later.  A request for a line that another one is under way  *)
(* for is merged to it.  The result of the last insert is not looked at.   *)
new_mem_req(t, a, c) ==
    LET match == search_req(c, a)
        m == CHOOSE i \in match : TRUE
        st0 == [req |-> req, q |-> q, cache |-> cache]
        st1 == IF Full(q, <<MEM_L2, c>>, "in") THEN flush_prefetch(c)
               ELSE st0
        st2 == IF allocate_new_entry(st1.req, c) = {} THEN flush_prefetch(c)
               ELSE st1
        full1 == Full(st1.q, <<MEM_L2, c>>, "in")
        free2 == allocate_new_entry(st2.req, c)
    IN
    IF match # {} /\ t = "DPRF"
    THEN UNCHANGED <<req, q>>
    ELSE IF match # {} /\ Promoted(m)
    THEN req' = adjust_req(m, t) /\ UNCHANGED q
    ELSE IF t = "DPRF" /\ (full1 \/ allocate_new_entry(st1.req, c) = {})
    THEN req' = st2.req /\ q' = st2.q
    ELSE IF free2 = {}
    THEN req' = st2.req /\ q' = st2.q
    ELSE \E i \in free2 :
         IF match # {}
         THEN /\ req' = [st2.req EXCEPT
                            ![i] = [init_new_req(t, a, c)
                                       EXCEPT !.state = "MERGED"],
                            ![m].merge = Append(@, i)]
              /\ q' = st2.q
         ELSE /\ req' = [st2.req EXCEPT ![i] = init_new_req(t, a, c)]
              /\ q' = IF Full(st2.q, <<MEM_L2, c>>, "in") THEN st2.q
                      ELSE Push(st2.q, <<MEM_L2, c>>, "in", i)

(* dcu_c::access of a load or a store, the frontend's miss in the          *)
(* instruction cache and the prefetcher's request.                         *)
access(c, a, t) ==
    /\ \/ /\ t \in {"DFETCH", "DSTORE"}
          /\ IF Hit(cache, <<MEM_L1, c>>, a)
             THEN /\ t = "DSTORE"
                  /\ cache' = [cache EXCEPT ![<<MEM_L1, c>>][a] = "dirty"]
                  /\ UNCHANGED <<req, q>>
             ELSE new_mem_req(t, a, c) /\ UNCHANGED cache
       \/ t \in {"IFETCH", "DPRF"} /\ new_mem_req(t, a, c) /\ UNCHANGED cache
    /\ UNCHANGED <<noc, dram, owed>>

-----------------------------------------------------------------------------
(* dcache_fill_line_wrapper, icache_fill_line_wrapper, done and free_req   *)

(* One request of those that wait for the line of i: any of the merged     *)
(* ones, of which some may have to wait, and i itself when there is none   *)
(* left.  A load or a store fills the L1 cache, which needs room in its    *)
(* wb_queue; then the request is freed.                                    *)
Answer(j, st) ==
    IF req[j].type \in {"DFETCH", "DSTORE"}
    THEN /\ ~Full(q, At(req[j], MEM_L1), "wb")
         /\ FillLine(At(req[j], MEM_L1), req[j], st)
    ELSE req' = st.req /\ q' = st.q /\ cache' = st.cache

(* The leader is freed although merged requests still wait.                *)
Mutant_done(i, qs, ca) ==
    Answer(i, [req |-> [req EXCEPT ![i] = Free], q |-> qs, cache |-> ca])
done(i, qs, ca) ==
    \/ \E j \in Range(req[i].merge) :
           Answer(j, [req |-> [req EXCEPT ![j] = Free,
                                          ![i].merge = RemoveFirst(@, j)],
                      q |-> q, cache |-> ca])
    \/ /\ req[i].merge = <<>>
       /\ Answer(i, [req |-> [req EXCEPT ![i] = Free],
                     q |-> qs, cache |-> ca])

(* dcu_c::fill and dcu_c::insert of a request that leaves queue k of c.    *)
Move(c, k, i, d, l, state) ==
    /\ ~Full(q, d, l)
    /\ q' = Push(Pop(q, c, k, i), d, l, i)
    /\ req' = [req EXCEPT ![i].state = state]

-----------------------------------------------------------------------------
(* dcu_c::run_a_cycle: one entry of one queue.                             *)

(* process_in_queue.  A store that hits makes the line dirty even when the *)
(* done function then has to wait.                                         *)
process_in_queue(c, i) ==
    LET r == req[i]
        ca == IF r.type = "DSTORE"
              THEN [cache EXCEPT ![c][r.addr] = "dirty"] ELSE cache
    IN
    /\ IF Hit(cache, c, r.addr)
       THEN IF m_done(c[1])
            THEN \/ done(i, Pop(q, c, "in", i), ca)
                 \/ ca # cache /\ cache' = ca /\ UNCHANGED <<req, q>>
            ELSE /\ cache' = ca
                 /\ IF DirectUp(c, r)
                    THEN Move(c, "in", i, At(r, c[1] - 1), "fill",
                              "FILL_NEW")
                    ELSE Move(c, "in", i, c, "out", "OUT_FILL")
       ELSE /\ UNCHANGED cache
            /\ IF DirectDown(c, r)
               THEN Move(c, "in", i, At(r, c[1] + 1), "in", "NEW")
               ELSE Move(c, "in", i, c, "out", "OUTQUEUE_NEW")
    /\ UNCHANGED <<noc, dram, owed>>

(* process_out_queue and send_packet                                       *)
process_out_queue(c, i) ==
        LET s == req[i].state
            up == s = "OUT_FILL"
            l == IF up THEN c[1] - 1 ELSE c[1] + 1
        IN  /\ noc' = noc \cup
                   {[id |-> i,
                     msg |-> IF s = "OUTQUEUE_NEW" THEN "NOC_NEW"
                             ELSE "NOC_FILL",
                     dst |-> <<l, IF l = MEM_MC THEN 0
                                  ELSE m_cache_id(req[i], l)>>]}
            /\ q' = Pop(q, c, "out", i)
            /\ req' = [req EXCEPT ![i].state = "IN_NOC"]
            /\ UNCHANGED <<cache, dram, owed>>

(* The request in the fill_queue is finished with this cache.              *)
Retire(c, i) == [req |-> [req EXCEPT ![i] = Free],
                 q |-> Pop(q, c, "fill", i), cache |-> cache]

(* process_fill_queue of a new entry: the line is put into the cache.  A   *)
(* write-back is then over, the others go on as MEM_FILL_WAIT_DONE where   *)
(* the done function is called, or as MEM_FILL_WAIT_FILL.                  *)
Mutant_FillNew(c, i) ==
        /\ req[i].state = "FILL_NEW"
        /\ FillLine(c, req[i],
               IF req[i].type = "WB" THEN Retire(c, i)
               ELSE [req |-> [req EXCEPT ![i].state =
                                  IF m_done(c[1]) THEN "FILL_WAIT_DONE"
                                  ELSE "FILL_WAIT_FILL"],
                     q |-> q, cache |-> cache])
        /\ UNCHANGED <<noc, dram, owed>>
FillNew(c, i) ==
        /\ ~Full(q, c, "wb")
        /\ req[i].state = "FILL_NEW"
        /\ FillLine(c, req[i],
               IF req[i].type = "WB" THEN Retire(c, i)
               ELSE [req |-> [req EXCEPT ![i].state =
                                  IF m_done(c[1]) THEN "FILL_WAIT_DONE"
                                  ELSE "FILL_WAIT_FILL"],
                     q |-> q, cache |-> cache])
        /\ UNCHANGED <<noc, dram, owed>>

FillDone(c, i) ==
        /\ ~Full(q, c, "wb")
        /\ req[i].state = "FILL_WAIT_DONE"
        /\ done(i, Pop(q, c, "fill", i), cache)
        /\ UNCHANGED <<noc, dram, owed>>

FillUp(c, i) ==
        /\ ~Full(q, c, "wb")
        /\ req[i].state = "FILL_WAIT_FILL"
        /\ IF DirectUp(c, req[i])
           THEN Move(c, "fill", i, At(req[i], c[1] - 1), "fill", "FILL_NEW")
           ELSE Move(c, "fill", i, c, "out", "OUT_FILL")
        /\ UNCHANGED <<cache, noc, dram, owed>>

(* process_wb_queue                                                        *)
process_wb_queue(c, i) ==
        /\ IF /\ c[1] # MEM_L3 /\ m_coupled_down(c[1])
              /\ c[2] = m_cache_id(req[i], c[1] + 1)
           THEN Move(c, "wb", i, At(req[i], c[1] + 1), "fill", "FILL_NEW")
           ELSE Move(c, "wb", i, c, "out", "OUT_WB")
        /\ UNCHANGED <<cache, noc, dram, owed>>

-----------------------------------------------------------------------------
(* memory_c::receive of a message, and the memory controllers.             *)

(* Room for a request in a memory controller; MCsim takes what addRequest  *)
(* finds a place for.                                                      *)
Room(i) == IF MCsim THEN owed[req[i].addr] < DRAMSize
                    ELSE Cardinality(dram) < DRAMSize
Taken(i) == IF MCsim THEN [owed EXCEPT ![req[i].addr] = @ + 1] ELSE owed

(* dcu_c::receive_packet and fill or insert of what came to a cache.       *)
Enter(m) ==
    LET k == IF m.msg = "NOC_FILL" THEN "fill" ELSE "in"
    IN  /\ ~Full(q, m.dst, k)
        /\ q' = Push(q, m.dst, k, m.id)
        /\ req' = [req EXCEPT ![m.id].state =
                       IF k = "fill" THEN "FILL_NEW" ELSE "NEW"]
        /\ UNCHANGED <<dram, owed>>

(* A request that finds no room in the memory controller is dropped.       *)
Mutant_receive(m) ==
    /\ noc' = noc \ {m}
    /\ UNCHANGED cache
    /\ \/ m.dst[1] # MEM_MC /\ Enter(m)
       \/ /\ m.dst[1] = MEM_MC
          /\ dram' = IF Room(m.id) THEN dram \cup {m.id} ELSE dram
          /\ owed' = IF Room(m.id) THEN Taken(m.id) ELSE owed
          /\ UNCHANGED <<req, q>>
receive(m) ==
    /\ noc' = noc \ {m}
    /\ UNCHANGED cache
    /\ \/ m.dst[1] # MEM_MC /\ Enter(m)
       \/ /\ m.dst[1] = MEM_MC /\ Room(m.id)
          /\ dram' = dram \cup {m.id}
          /\ owed' = Taken(m.id)
          /\ req' = [req EXCEPT ![m.id].state = "DRAM_START"]
          /\ UNCHANGED q
       \/ /\ m.dst[1] = MEM_MC /\ ~Room(m.id) /\ ~MCsim
          /\ req[m.id].type = "DPRF"
          /\ req' = [req EXCEPT ![m.id] = Free]
          /\ UNCHANGED <<q, dram, owed>>

(* The requests S go from the memory controller to the last-level cache.   *)
Respond(S) ==
    /\ dram' = dram \ S
    /\ req' = [i \in Ids |-> IF i \in S THEN [req[i] EXCEPT !.state = "IN_NOC"]
                                       ELSE req[i]]
    /\ noc' = noc \cup {[id |-> i, msg |-> "NOC_FILL", dst |-> At(req[i], MEM_L3)]
                         : i \in S}
    /\ UNCHANGED <<q, cache>>

dram_done(i) ==
    /\ ~MCsim
    /\ UNCHANGED owed
    /\ IF req[i].type = "WB"
       THEN /\ dram' = dram \ {i}
            /\ req' = [req EXCEPT ![i] = Free]
            /\ UNCHANGED <<q, cache, noc>>
       ELSE Respond({i})

(* read_callback and write_callback: MCsim names an address, and all the   *)
(* requests of it that are pending are answered, also those whose own      *)
(* transaction is still owed; a write-back, too, goes back to the cache.   *)
callback(a) ==
    /\ owed[a] > 0
    /\ owed' = [owed EXCEPT ![a] = @ - 1]
    /\ Respond({i \in dram : req[i].addr = a})

Access == \E c \in Cores, a \in Lines, t \in Types : access(c, a, t)
Cycle(c) ==
    \/ \E i \in q[c]["in"] : process_in_queue(c, i)
    \/ \E i \in q[c]["out"] : process_out_queue(c, i)
    \/ \E i \in q[c]["fill"] : FillNew(c, i) \/ FillDone(c, i) \/ FillUp(c, i)
    \/ \E i \in q[c]["wb"] : process_wb_queue(c, i)

(* noc_c::run_a_cycle and dcu_c::receive_packet: a message in the network  *)
(* arrives; messages overtake each other.                                  *)
Deliver == \E m \in noc : receive(m)

Next ==
    \/ Access
    \/ \E c \in Caches : Cycle(c)
    \/ Deliver
    \/ \E i \in dram : dram_done(i)
    \/ \E a \in Lines : callback(a)

Spec == Init /\ [][Next]_vars

(* Every cache works on all of its queues in every cycle, the network and  *)
(* the memory controllers deliver.                                         *)
Serve(i) ==
    \/ \E c \in Caches :
           \/ i \in q[c]["in"] /\ process_in_queue(c, i)
           \/ i \in q[c]["out"] /\ process_out_queue(c, i)
           \/ i \in q[c]["fill"] /\ (FillNew(c, i) \/ FillDone(c, i)
                                      \/ FillUp(c, i))
           \/ i \in q[c]["wb"] /\ process_wb_queue(c, i)
    \/ \E m \in noc : m.id = i /\ receive(m)
    \/ i \in dram /\ (dram_done(i) \/ callback(req[i].addr))

FairSpec == Spec /\ \A i \in Ids : WF_vars(Serve(i))

-----------------------------------------------------------------------------

Records == [type : Types \cup {"WB"}, addr : Lines, core : Cores,
            state : {"NEW", "MERGED", "OUTQUEUE_NEW", "OUT_FILL", "OUT_WB",
                     "IN_NOC", "FILL_NEW", "FILL_WAIT_DONE",
                     "FILL_WAIT_FILL", "DRAM_START"},
            dirty : BOOLEAN, merge : Seq(Ids)]

(* The requests are free or records, the queues and the memory hold        *)
(* requests.                                                               *)
TypeOK ==
    /\ \A i \in Busy(req) : req[i] \in Records
    /\ q \in [Caches -> [Queues -> SUBSET Ids]]
    /\ cache \in [Caches -> [Lines -> {"I", "clean", "dirty"}]]
    /\ dram \subseteq Ids
    /\ owed \in [Lines -> 0 .. DRAMSize]

(* In how many places a request is: queues, the network, the memory        *)
(* controllers and the lists of requests that it is merged to.             *)
Places(i) ==
    Cardinality({p \in Caches \X Queues : i \in q[p[1]][p[2]]})
    + Cardinality({m \in noc : m.id = i})
    + Cardinality({j \in Busy(req) : i \in Range(req[j].merge)})
    + Cardinality(dram \cap {i})

(* A request that holds an MSHR entry, and a write-back, is in exactly one *)
(* place, and one that was freed is nowhere: no queue is left without its  *)
(* request being in the next one, and flushing the prefetches leaves no    *)
(* queue, list or controller with an entry that is used again.             *)
OnePlace ==
    \A i \in Ids : Places(i) = IF i \in Busy(req) THEN 1 ELSE 0

(* push never meets a full queue where its result is an ASSERT or not      *)
(* looked at: the victims of a fill and of done find room in the wb_queue. *)
QueuesBounded ==
    \A c \in Caches, k \in Queues : Cardinality(q[c][k]) <= Size(k)

(* MCsim owes a callback for every request that is pending: one that is    *)
(* answered by another's callback leaves its own behind, which finds it    *)
(* gone or answers a later request, but never one without.                 *)
CallbacksCover ==
    \A a \in Lines : MCsim => Cardinality({i \in dram : req[i].addr = a}) <= owed[a]

Dirty(ca, r, a) ==
    \/ \E c \in Caches : ca[c][a] = "dirty"
    \/ \E i \in Busy(r) : r[i].type = "WB" /\ r[i].addr = a

(* "If there is a victim line, we do the write-back": a line that is dirty *)
(* stays so in some cache, or has a write-back under way, until a          *)
(* write-back of it has been served by memory.  This is not all that was   *)
(* stored: only a store that hits makes a line dirty.  One that misses at  *)
(* every level has m_dirty FALSE (init_new_req), every level is filled     *)
(* with a clean line, and what it wrote is never written back.             *)
NoDirtyLost ==
    \A a \in Lines :
        Dirty(cache, req, a) /\ ~Dirty(cache', req', a)
        => \E i \in dram \ dram' : req[i].type = "WB" /\ req[i].addr = a

=============================================================================
