------------------------------ MODULE Pipeline ------------------------------
(***************************************************************************)
(* A CPU core of MacSim (IntegrationWithMacSim/src/core.cc and the stages  *)
(* it runs): fetch with dependence mapping, allocation of a reorder buffer *)
(* entry, scheduling in order or out of order, execution, and retirement   *)
(* in order.  One thread runs a trace of micro-ops.  A cycle runs the      *)
(* stages from the last to the first, a stage one uop after another:       *)
(* stage, at.  Uops live in the entries of a pool that gives the one       *)
(* released last to the next uop: the pointers that others keep to an      *)
(* entry may come to mean another uop.  Times are counted down.  The       *)
(* caches are the environment: an access hits, misses, or is refused.      *)
(* m_bogus is never set, so that its cases are left out.                   *)
(***************************************************************************)
EXTENDS Integers, Sequences, FiniteSets, SequencesExt

CONSTANTS
    Schedule,      (* "ooo" or "io"                                        *)
    Alphabet,      (* the uops: [kind, src, dst, addr, size, lat]          *)
    TraceLen,
    Regs, Quads, QuadSize,   (* registers and quadwords, of QuadSize bytes *)
    m_knob_width, m_knob_fetch_width,
    FeSize, FeLatency,       (* the frontend queue                         *)
    RobSize, NumSB, NumLB, NumInt, NumFp,
    IaqSize, IaqLatency,     (* the allocation queues                      *)
    MaxSchedSize,            (* MAX_SCHED_SIZE                             *)
    m_sched_rate, m_sched_size, m_max_port,
    ExecRetireLatency, RecoveryCycles,   (* the KNOBs of these names       *)
    OOOStores,               (* KNOB_MEM_OOO_STORES                        *)
    MemLatencies,            (* what access returns: -1 a miss, 0 refused  *)
    Uninitialised            (* what m_in_scheduler may be in a new entry  *)

Queues == {"gen", "mem", "fp"}
None == -1
Entries == 1 .. FeSize + RobSize
RobIndex == 0 .. 2 * RobSize - 1
Slots == 0 .. MaxSchedSize - 1
Kinds == {"int", "fp", "ld", "st", "br"}

PipelineAssumption ==
    /\ Schedule \in {"ooo", "io"} /\ OOOStores \in BOOLEAN
    /\ Uninitialised \subseteq BOOLEAN /\ Uninitialised # {}
    /\ \A u \in Alphabet : /\ u.kind \in Kinds
                           /\ u.src \subseteq Regs /\ u.dst \subseteq Regs
                           /\ u.addr \div QuadSize \in Quads
                           /\ u.size > 0 /\ u.lat > 0
    /\ FeSize > m_knob_fetch_width /\ MaxSchedSize > 1
    /\ {m_knob_width, RobSize, NumSB, NumLB, NumInt, NumFp, IaqSize,
        m_sched_rate, m_sched_size, m_max_port} \subseteq Nat \ {0}
    /\ {FeLatency, IaqLatency, ExecRetireLatency, RecoveryCycles} \subseteq Nat

VARIABLES
    trace,         (* the uops of the thread                               *)
    stage, at,     (* how far the cycle is: the stage; the uops it has     *)
                   (* done and the slot it looks at                        *)
    uop, pool,     (* the entries, and the free ones, next first           *)
    fetch,         (* the next uop of the trace, m_fetch_ready_addr # 0,   *)
                   (* m_bp_recovery_cycle, m_bp_redirect_cycle             *)
    m_q_frontend, m_q_iaq,
    map,           (* m_reg_map, and m_oracle_mem_hash by quadword         *)
    rob,           (* m_rob, m_first_entry, m_last_entry, m_free_cnt and   *)
                   (* the free buffers and registers                       *)
    sched,         (* m_schedule_list with its ends, m_num_in_sched,       *)
                   (* m_num_per_sched, m_next_inorder_to_schedule, ports   *)
    retired        (* the numbers of the uops that have retired            *)

pipelineVars == <<trace, stage, at, uop, pool, fetch, m_q_frontend, m_q_iaq,
                  map, rob, sched, retired>>

-----------------------------------------------------------------------------
(* pqueue_c: buckets, the one to dequeue from first.  A new entry goes to  *)
(* the last one; advance moves on when the first is empty.                 *)
Empty(latency) == [i \in 1 .. latency + 1 |-> <<>>]
Count(q) == Len(FlattenSeq(q))
Enqueue(q, x) == [q EXCEPT ![Len(q)] = Append(@, x)]
Dequeue(q) == [q EXCEPT ![1] = Tail(@)]
Advance(q) == IF Count(q) = 0 \/ q[1] # <<>> THEN q ELSE Append(Tail(q), <<>>)

NewUop(in) ==
    [num |-> 0, op |-> [kind |-> "none"], valid |-> FALSE, done |-> None,
     srcs |-> <<>>, last_dep |-> None, srcs_rdy |-> FALSE, in_scheduler |-> in,
     issued |-> FALSE, mispredicted |-> FALSE, btb_miss |-> FALSE]

Init ==
    /\ trace \in [1 .. TraceLen -> Alphabet]
    /\ stage = "retire" /\ at = [count |-> 0, slot |-> 0]
    /\ uop \in [Entries -> {NewUop(b) : b \in Uninitialised}]
    /\ pool = [i \in 1 .. Cardinality(Entries) |-> i]
    /\ fetch = [pc |-> 1, waiting |-> FALSE, recovery |-> 0, redirect |-> 0]
    /\ m_q_frontend = Empty(FeLatency)
    /\ m_q_iaq = [q \in Queues |-> Empty(IaqLatency)]
    /\ map = [reg |-> [r \in Regs |-> [e |-> None, num |-> 0]],
              store |-> [q \in Quads |-> [b \in 0 .. QuadSize - 1 |-> None]]]
    /\ rob = [uop |-> [i \in RobIndex |-> None], first |-> 0, last |-> 0,
              free |-> RobSize, sb |-> NumSB, lb |-> NumLB, int |-> NumInt,
              fp |-> NumFp]
    /\ sched = [list |-> [i \in Slots |-> None], first |-> 0, last |-> 0,
                num |-> 0, per |-> [q \in Queues |-> 0], next |-> 0,
                port |-> [q \in Queues |-> 0]]
    /\ retired = <<>>

Kind(e) == uop[e].op.kind
IsMem(e) == Kind(e) \in {"ld", "st"}
QueueOf(e) == IF IsMem(e) THEN "mem" ELSE IF Kind(e) = "fp" THEN "fp" ELSE "gen"
Done(e) == uop[e].done = 0

-----------------------------------------------------------------------------
(* retire_c::run_a_cycle: the first uops of the reorder buffer that are    *)
(* done, at most m_knob_width.  uop_c::free takes a store out of the       *)
(* dependence map if it still is the one there.                            *)

Entering(s) == stage' = s /\ at' = [count |-> 0, slot |-> 0]

Quad(a) == a \div QuadSize
Byte(a) == a % QuadSize

delete_store_hash_entry(e) ==
    LET a == uop[e].op.addr IN
    IF Kind(e) = "st" /\ map.store[Quad(a)][Byte(a)] = e
    THEN [map EXCEPT !.store[Quad(a)][Byte(a)] = None]
    ELSE map

CanRetire ==
    /\ at.count < m_knob_width
    /\ rob.free # RobSize
    /\ Done(rob.uop[rob.first])

Freed(k) == IF k = "st" THEN [rob EXCEPT !.sb = @ + 1]
            ELSE IF k = "ld" THEN [rob EXCEPT !.lb = @ + 1]
            ELSE IF k = "int" THEN [rob EXCEPT !.int = @ + 1]
            ELSE IF k = "fp" THEN [rob EXCEPT !.fp = @ + 1] ELSE rob

retire ==
    /\ stage = "retire"
    /\ CanRetire
    /\ LET e == rob.uop[rob.first] IN
       /\ rob' = [Freed(Kind(e)) EXCEPT !.first = (@ + 1) % (2 * RobSize),
                                        !.free = @ + 1]
       /\ map' = delete_store_hash_entry(e)
       /\ uop' = [uop EXCEPT ![e].num = 0, ![e].valid = FALSE]
       /\ pool' = <<e>> \o pool
       /\ retired' = Append(retired, uop[e].num)
       /\ at' = [at EXCEPT !.count = @ + 1]
    /\ UNCHANGED <<trace, stage, fetch, m_q_frontend, m_q_iaq, sched>>

retired_all ==
    /\ stage = "retire"
    /\ ~CanRetire
    /\ stage' = "schedule"
    /\ at' = [count |-> 0, slot |-> sched.first]
    /\ sched' = [sched EXCEPT !.port = [q \in Queues |-> 0]]
    /\ UNCHANGED <<trace, uop, pool, fetch, m_q_frontend, m_q_iaq, map, rob, retired>>

-----------------------------------------------------------------------------
(* check_srcs: a source that is no longer valid, or whose entry is another *)
(* uop's by now, is ready.  The mutant: it is ready once it is scheduled.  *)
Mutant_Pending(s) == uop[s.e].valid /\ uop[s.e].num = s.num /\ uop[s.e].done = None
Pending(s) == uop[s.e].valid /\ uop[s.e].num = s.num /\ ~Done(s.e)

FirstPending(e) == LET p == SelectSeq(uop[e].srcs, Pending)
                   IN  IF p = <<>> THEN None ELSE p[1].e

(* uop_schedule gives up early while the source that was last found to be  *)
(* missing is not done: m_last_dep_exec is a pointer into its entry,       *)
(* whosever that is by now.                                                *)
WaitsForLast(e) == /\ ~uop[e].srcs_rdy
                   /\ uop[e].last_dep # None
                   /\ uop[uop[e].last_dep].done > 0
SourcesReady(e) == uop[e].srcs_rdy \/ FirstPending(e) = None
MaySchedule(e) == /\ ~WaitsForLast(e) /\ SourcesReady(e)
                  /\ sched.port[QueueOf(e)] < m_max_port

NoteSource(e) ==
    LET p == FirstPending(e) IN
    IF WaitsForLast(e) \/ uop[e].srcs_rdy THEN uop[e]
    ELSE IF p = None THEN [uop[e] EXCEPT !.srcs_rdy = TRUE]
    ELSE IF uop[e].last_dep = None \/ uop[uop[e].last_dep].done < uop[p].done
         THEN [uop[e] EXCEPT !.last_dep = p] ELSE uop[e]

(* exec_c::exec, br_exec: what becomes of a uop with latency l, and what a *)
(* branch tells the frontend.                                              *)
Max2(m, n) == IF m > n THEN m ELSE n
Executed(e, l) == [NoteSource(e) EXCEPT !.issued = TRUE, !.in_scheduler = FALSE,
                      !.done = IF l = -1 THEN None ELSE Max2(l, ExecRetireLatency)]
br_exec(e) == [fetch EXCEPT
                 !.recovery = IF uop[e].mispredicted THEN 1 + RecoveryCycles ELSE @,
                 !.redirect = IF uop[e].btb_miss THEN 1 + RecoveryCycles ELSE @]
Latencies(e) == IF IsMem(e) THEN MemLatencies ELSE {uop[e].op.lat}

(* The uop in entry e is tried: it leaves the scheduler, or does not.      *)
Leave(e) == [sched EXCEPT !.num = @ - 1, !.per[QueueOf(e)] = @ - 1,
                          !.port[QueueOf(e)] = @ + 1]
uop_schedule(e, l, left) ==
    /\ MaySchedule(e) /\ l # 0
    /\ uop' = [uop EXCEPT ![e] = Executed(e, l)]
    /\ fetch' = IF Kind(e) = "br" THEN br_exec(e) ELSE fetch
    /\ sched' = left
NotScheduled(e, l, left) ==
    /\ ~MaySchedule(e) \/ l = 0
    /\ uop' = [uop EXCEPT ![e] = NoteSource(e)]
    /\ sched' = left
    /\ UNCHANGED fetch

(* schedule_ooo_c::run_a_cycle goes over the schedule list.                *)
NextSlot(i) == (i + 1) % MaxSchedSize
ScanOn == /\ at.slot # sched.last
          /\ at.count < m_knob_width
          /\ at.count > 0 \/ sched.num > 0
PastFirst(s) == IF at.slot = s.first THEN [s EXCEPT !.first = NextSlot(@)] ELSE s
Taken(s) == [PastFirst(s) EXCEPT !.list[at.slot] = None]

schedule_ooo ==
    /\ stage = "schedule" /\ Schedule = "ooo"
    /\ ScanOn
    /\ LET i == sched.list[at.slot] IN
       IF i = None
       THEN /\ sched' = PastFirst(sched)
            /\ at' = [at EXCEPT !.slot = NextSlot(@)]
            /\ UNCHANGED <<uop, fetch>>
       ELSE LET e == rob.uop[i] IN
            \E l \in Latencies(e) :
            \/ /\ uop_schedule(e, l, Taken(Leave(e)))
               /\ at' = [count |-> at.count + 1, slot |-> NextSlot(at.slot)]
            \/ /\ NotScheduled(e, l, sched)
               /\ at' = [at EXCEPT !.slot = NextSlot(@)]
    /\ UNCHANGED <<trace, stage, pool, m_q_frontend, m_q_iaq, map, rob, retired>>

(* schedule_io_c::run_a_cycle: the next uop of the reorder buffer, until   *)
(* one cannot be scheduled (slot = None).                                  *)
InOrderOn ==
    /\ at.slot # None
    /\ at.count < m_knob_width
    /\ at.count > 0 \/ sched.num # 0
    /\ rob.uop[sched.next] # None
    /\ uop[rob.uop[sched.next]].in_scheduler

schedule_io ==
    /\ stage = "schedule" /\ Schedule = "io"
    /\ InOrderOn
    /\ LET e == rob.uop[sched.next] IN
       \E l \in Latencies(e) :
       \/ /\ uop_schedule(e, l, [Leave(e) EXCEPT !.first = NextSlot(@),
                                     !.next = (@ + 1) % (2 * RobSize)])
          /\ at' = [at EXCEPT !.count = @ + 1]
       \/ /\ NotScheduled(e, l, sched)
          /\ at' = [at EXCEPT !.slot = None]
    /\ UNCHANGED <<trace, stage, pool, m_q_frontend, m_q_iaq, map, rob, retired>>

scheduled_all ==
    /\ stage = "schedule"
    /\ IF Schedule = "ooo" THEN ~ScanOn ELSE ~InOrderOn
    /\ Entering("gen")
    /\ UNCHANGED <<trace, uop, pool, fetch, m_q_frontend, m_q_iaq, map, rob,
                   sched, retired>>

(* schedule_c::advance, one queue after another: uops enter the scheduler. *)
CanAdvance(q) ==
    /\ m_q_iaq[q][1] # <<>>
    /\ NextSlot(sched.last) # sched.first
    /\ at.count < m_sched_rate
    /\ sched.per[q] < m_sched_size

advance(q) ==
    /\ stage = q
    /\ CanAdvance(q)
    /\ m_q_iaq' = [m_q_iaq EXCEPT ![q] = Dequeue(@)]
    /\ LET i == Head(m_q_iaq[q][1])
           e == rob.uop[i]
       IN  IF uop[e].done # None
           THEN /\ uop' = [uop EXCEPT ![e].done = 0]
                /\ UNCHANGED <<sched, at>>
           ELSE /\ uop' = [uop EXCEPT ![e].in_scheduler = TRUE]
                /\ sched' = [sched EXCEPT !.num = @ + 1, !.per[q] = @ + 1,
                                          !.list[sched.last] = i,
                                          !.last = NextSlot(@)]
                /\ at' = [at EXCEPT !.count = @ + 1]
    /\ UNCHANGED <<trace, stage, pool, fetch, m_q_frontend, map, rob, retired>>

AfterQueue(q) == CASE q = "gen" -> "mem" [] q = "mem" -> "fp" [] q = "fp" -> "allocate"

advanced_all(q) ==
    /\ stage = q
    /\ ~CanAdvance(q)
    /\ Entering(AfterQueue(q))
    /\ UNCHANGED <<trace, uop, pool, fetch, m_q_frontend, m_q_iaq, map, rob,
                   sched, retired>>

-----------------------------------------------------------------------------
(* allocate_c::run_a_cycle: while everything that the next uop needs is    *)
(* free.  A BTB miss is never resolved here: the test asks for a branch    *)
(* type below CF_IBR and above CF_ICO.                                     *)
Needed(k) == IF k = "st" THEN [rob EXCEPT !.sb = @ - 1]
             ELSE IF k = "ld" THEN [rob EXCEPT !.lb = @ - 1]
             ELSE IF k = "int" THEN [rob EXCEPT !.int = @ - 1]
             ELSE IF k = "fp" THEN [rob EXCEPT !.fp = @ - 1] ELSE rob
CanAllocate ==
    /\ at.count < m_knob_width
    /\ m_q_frontend[1] # <<>>
    /\ LET e == Head(m_q_frontend[1])
           r == Needed(Kind(e))
       IN  /\ rob.free > 0 /\ r.sb >= 0 /\ r.lb >= 0 /\ r.int >= 0 /\ r.fp >= 0
           /\ Count(m_q_iaq[QueueOf(e)]) < IaqSize

allocate ==
    /\ stage = "allocate"
    /\ CanAllocate
    /\ LET e == Head(m_q_frontend[1]) IN
       /\ m_q_iaq' = [m_q_iaq EXCEPT ![QueueOf(e)] = Enqueue(@, rob.last)]
       /\ rob' = [Needed(Kind(e)) EXCEPT !.uop[rob.last] = e,
                                         !.last = (@ + 1) % (2 * RobSize),
                                         !.free = @ - 1]
       /\ m_q_frontend' = Dequeue(m_q_frontend)
       /\ at' = [at EXCEPT !.count = @ + 1]
    /\ UNCHANGED <<trace, stage, uop, pool, fetch, map, sched, retired>>

allocated_all ==
    /\ stage = "allocate"
    /\ ~CanAllocate
    /\ Entering("frontend")
    /\ UNCHANGED <<trace, uop, pool, fetch, m_q_frontend, m_q_iaq, map, rob,
                   sched, retired>>

-----------------------------------------------------------------------------
(* The frontend: a cycle in which it fetches starts with an access to the  *)
(* instruction cache, which hits or misses.  With no entry for the miss    *)
(* access_icache reports a hit.                                            *)
Blocked == fetch.waiting \/ fetch.recovery # 0 \/ fetch.redirect # 0
Room == FeSize - Count(m_q_frontend)

access_icache ==
    /\ stage = "frontend"
    /\ fetch.pc <= TraceLen /\ Room > m_knob_fetch_width /\ ~Blocked
    /\ \/ Entering("fetch") /\ UNCHANGED fetch
       \/ Entering("end") /\ fetch' = [fetch EXCEPT !.waiting = TRUE]
    /\ UNCHANGED <<trace, uop, pool, m_q_frontend, m_q_iaq, map, rob, sched, retired>>

no_fetch ==
    /\ stage = "frontend"
    /\ ~(fetch.pc <= TraceLen /\ Room > m_knob_fetch_width /\ ~Blocked)
    /\ Entering("end")
    /\ UNCHANGED <<trace, uop, pool, fetch, m_q_frontend, m_q_iaq, map, rob,
                   sched, retired>>

(* map_uop and map_mem_dep: the sources of a uop are the last uops that    *)
(* wrote its registers and, of a load, the stores to bytes of it in its    *)
(* quadword: all of them if stores may pass each other, or the last.       *)
(* m_last_store is never set, so read_store_map adds none.                 *)
Overlap(a, s, b, t) == ~(a >= b + t \/ b >= a + s)

StoresTo(op) ==
    LET at_(b) == map.store[Quad(op.addr)][b] IN
    {at_(b) : b \in {b \in 0 .. QuadSize - 1 :
        /\ at_(b) # None
        /\ Overlap(uop[at_(b)].op.addr, uop[at_(b)].op.size, op.addr, op.size)}}

(* The last one is looked for from the number 0 on, unless it is the only  *)
(* store of the quadword and at the load's own address.                    *)
add_store_deps(op) ==
    LET stores == StoresTo(op)
        only == \A b \in 0 .. QuadSize - 1 :
                    map.store[Quad(op.addr)][b] # None <=> b = Byte(op.addr)
        later == {e \in stores : only \/ uop[e].num > 0}
        last == {e \in later : \A f \in later : uop[f].num <= uop[e].num}
    IN  IF op.kind # "ld" THEN {} ELSE IF OOOStores THEN stores ELSE last

(* add_src_from_uop leaves a store out when an entry that the uop already  *)
(* has as a source holds its number: the entry's number now, not the       *)
(* source's, and 0 for a register that was never written (m_invalid_uop).  *)
NumberIn(s, e) == IF s.e = None THEN 0 ELSE IF s.e = e THEN fetch.pc - 1
                  ELSE uop[s.e].num
SourcesOf(op, e) ==
    LET regs == {map.reg[r] : r \in op.src}
        added == {f \in add_store_deps(op) :
                     \A s \in regs : NumberIn(s, e) # uop[f].num}
    IN  SetToSeq({s \in regs : s.e # None}
                 \cup {[e |-> f, num |-> uop[f].num] : f \in added})

update_map(op, e) ==
    [reg |-> [r \in Regs |-> IF r \in op.dst THEN [e |-> e, num |-> fetch.pc - 1]
                                             ELSE map.reg[r]],
     store |-> IF op.kind = "st"
               THEN [map.store EXCEPT ![Quad(op.addr)][Byte(op.addr)] = e]
               ELSE map.store]

CanFetch == at.count < m_knob_width /\ Room > 0 /\ fetch.pc <= TraceLen

(* A uop is fetched, with what the branch predictors say of it: the fetch  *)
(* goes on to the width even behind a branch that was mispredicted.        *)
fetch_uop(mispredicted, btb_miss) ==
    /\ stage = "fetch"
    /\ CanFetch
    /\ LET e == Head(pool)
           op == trace[fetch.pc]
       IN
       /\ mispredicted \/ btb_miss => op.kind = "br"
       /\ pool' = Tail(pool)
       /\ uop' = [uop EXCEPT ![e] =
             [NewUop(uop[e].in_scheduler) EXCEPT
                 !.num = fetch.pc - 1, !.op = op, !.valid = TRUE,
                 !.srcs = SourcesOf(op, e), !.mispredicted = mispredicted,
                 !.btb_miss = btb_miss]]
       /\ map' = update_map(op, e)
       /\ m_q_frontend' = Enqueue(m_q_frontend, e)
       /\ fetch' = [fetch EXCEPT
             !.pc = @ + 1,
             !.recovery = IF mispredicted THEN None ELSE @,
             !.redirect = IF btb_miss /\ ~mispredicted THEN None ELSE @]
       /\ at' = [at EXCEPT !.count = @ + 1]
    /\ UNCHANGED <<trace, stage, m_q_iaq, rob, sched, retired>>

fetched_all ==
    /\ stage = "fetch"
    /\ ~CanFetch
    /\ Entering("end")
    /\ UNCHANGED <<trace, uop, pool, fetch, m_q_frontend, m_q_iaq, map, rob,
                   sched, retired>>

-----------------------------------------------------------------------------
(* The end of the cycle: core_c::advance_queues, and the clock ticks.      *)
Down(n) == IF n > 0 THEN n - 1 ELSE n

advance_queues ==
    /\ stage = "end"
    /\ Entering("retire")
    /\ m_q_frontend' = Advance(m_q_frontend)
    /\ m_q_iaq' = [q \in Queues |-> Advance(m_q_iaq[q])]
    /\ uop' = [e \in Entries |-> [uop[e] EXCEPT !.done = Down(@)]]
    /\ fetch' = [fetch EXCEPT !.recovery = Down(@), !.redirect = Down(@)]
    /\ UNCHANGED <<trace, pool, map, rob, sched, retired>>

(* What the memory system does between two cycles: a miss is answered,     *)
(* icache_fill_line lets the thread fetch again.                           *)
Missing == {e \in Entries : /\ uop[e].valid /\ uop[e].issued
                            /\ uop[e].done = None}
miss_done(e) ==
    /\ stage = "retire" /\ at.count = 0
    /\ e \in Missing
    /\ uop' = [uop EXCEPT ![e].done = 1]
    /\ UNCHANGED <<trace, stage, at, pool, fetch, m_q_frontend, m_q_iaq, map, rob,
                   sched, retired>>

icache_fill_line ==
    /\ stage = "retire" /\ at.count = 0
    /\ fetch.waiting
    /\ fetch' = [fetch EXCEPT !.waiting = FALSE]
    /\ UNCHANGED <<trace, stage, at, uop, pool, m_q_frontend, m_q_iaq, map, rob,
                   sched, retired>>

run_a_cycle ==
    \/ retire \/ retired_all
    \/ schedule_ooo \/ schedule_io \/ scheduled_all
    \/ \E q \in Queues : advance(q) \/ advanced_all(q)
    \/ allocate \/ allocated_all
    \/ access_icache \/ no_fetch
    \/ \E m, b \in BOOLEAN : fetch_uop(m, b)
    \/ fetched_all
    \/ advance_queues

Next ==
    \/ run_a_cycle
    \/ \E e \in Entries : miss_done(e)
    \/ icache_fill_line

Spec == Init /\ [][Next]_pipelineVars

-----------------------------------------------------------------------------
(* The uops of the trace retire in its order, each once.                   *)
RetiredInOrder == retired = [i \in 1 .. Len(retired) |-> i - 1]

(* A uop is executed only when the values that it reads are there: the     *)
(* last uops before it in the trace that write its registers and, for a    *)
(* load, the last store before it to any byte of it (within a quadword)    *)
(* are done.  Such a store may be missed in two cases: it is uop 0, whose  *)
(* number is also that of no uop; or it is in the entry of a uop that has  *)
(* retired and that the load still has as the source of a register.        *)
LastBefore(n, P(_)) == LET S == {m \in 1 .. n - 1 : P(trace[m])}
                       IN  IF S = {} THEN {} ELSE {CHOOSE m \in S : \A k \in S : k <= m}
Producers(n) ==
    LET op == trace[n]
        StoresIt(o) == /\ o.kind = "st" /\ Quad(o.addr) = Quad(op.addr)
                       /\ Overlap(o.addr, o.size, op.addr, op.size)
    IN  UNION {LastBefore(n, LAMBDA o : r \in o.dst) : r \in op.src}
        \cup (IF op.kind = "ld" THEN LastBefore(n, StoresIt) ELSE {})
Complete(n) == \/ n <= Len(retired)
               \/ \E e \in Entries : uop[e].valid /\ uop[e].num = n - 1 /\ Done(e)
Missed(e, n) ==
    /\ trace[n].kind = "st"
    /\ \/ n = 1 /\ (~OOOStores \/ uop[e].op.src # {})
       \/ \E s \in ToSet(uop[e].srcs) : uop[s.e].num = n - 1 /\ s.num # n - 1
DependencesHonoured ==
    \A e \in Entries : ~uop[e].issued /\ uop'[e].issued =>
        \A n \in Producers(uop[e].num + 1) : Complete(n) \/ Missed(e, n)

(* The reorder buffer, its buffers and registers, and the entries of the   *)
(* pool are neither lost nor given out twice.                              *)
InRob == {(rob.first + i) % (2 * RobSize) : i \in 0 .. RobSize - rob.free - 1}
Holding(k) == Cardinality({i \in InRob : Kind(rob.uop[i]) = k})
ResourcesConserved ==
    /\ rob.sb + Holding("st") = NumSB /\ rob.lb + Holding("ld") = NumLB
    /\ rob.int + Holding("int") = NumInt /\ rob.fp + Holding("fp") = NumFp
    /\ (rob.first + RobSize - rob.free) % (2 * RobSize) = rob.last
    /\ Cardinality(ToSet(pool)) = Len(pool)
    /\ ToSet(pool) \cup ToSet(FlattenSeq(m_q_frontend))
           \cup {rob.uop[i] : i \in InRob} = Entries

(* What the scheduler counts is what it holds: every uop that waits to be  *)
(* issued is in an allocation queue, or once in the schedule list.         *)
Listed(i) == Cardinality({s \in Slots : sched.list[s] = i /\
                 (IF sched.first <= sched.last
                  THEN sched.first <= s /\ s < sched.last
                  ELSE sched.first <= s \/ s < sched.last)})
Queued(i) == \E q \in Queues : i \in ToSet(FlattenSeq(m_q_iaq[q]))
SchedulerConsistent ==
    /\ Schedule = "ooo" => \A i \in InRob :
           ~uop[rob.uop[i]].issued => Listed(i) = IF Queued(i) THEN 0 ELSE 1
    /\ sched.num = Cardinality({i \in InRob : ~Queued(i)
                                              /\ ~uop[rob.uop[i]].issued})
=============================================================================
