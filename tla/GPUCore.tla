------------------------------- MODULE GPUCore -------------------------------
(***************************************************************************)
(* A GPU core of MacSim: warps (threads of a thread block) share one       *)
(* frontend, one allocation queue and one scheduler, and have a reorder    *)
(* buffer each (frontend.cc, allocate_smc.cc, schedule_smc.cc, rob_smc.cc, *)
(* and the memory instructions of exec.cc).  Warps are fetched in turn;    *)
(* one that fetches a barrier is blocked until the barrier has retired in  *)
(* all warps of its block.  A memory instruction of a warp may need        *)
(* several accesses, sent to the memory system over several cycles.        *)
(* The process manager starts warps, in the order of their numbers; the    *)
(* caches are the environment.  A step of the model is one uop of a stage. *)
(* (check_srcs_smc's shortcut through m_last_dep_exec is in Pipeline.)     *)
(***************************************************************************)
EXTENDS Integers, Sequences, FiniteSets, SequencesExt, FiniteSetsExt

CONSTANTS
    NumWarps, BlockOf,           (* the warps and the block of each        *)
    Kernels,                     (* programs: [kind, src, acc, lat]        *)
    MadeAt,                      (* m_inst_count of m_thread_start_info:   *)
                                 (* what warp 0, the main thread, reads    *)
                                 (* when the other warps are made          *)
    MaxThreads,                  (* m_knob_num_threads                     *)
    m_knob_width, m_knob_fetch_width,
    FeSize, AllocSize, RobSize, Registers,    (* per class of resource     *)
    SchlistSize, m_sched_rate, m_sched_size, m_max_port,
    NumWarpScheduler, FetchRatio, ScheduleRatio,
    NoFetchBr, OnlyLoadReady,    (* KNOB_MT_NO_FETCH_BR, KNOB_FETCH_..     *)
    Latencies                    (* of a hit                               *)

Warps == 0 .. NumWarps - 1
Blocks == {BlockOf[w] : w \in Warps}
None == -1
Slots == 0 .. SchlistSize - 1
Classes == {"lb", "sb", "int", "fp"}
ClassOf(k) == CASE k = "ld" -> {"lb"} [] k = "st" -> {"sb"} [] k = "int" -> {"int"}
                [] k = "fp" -> {"fp"} [] OTHER -> {}

CoreAssumption ==
    /\ m_knob_width = 1         (* as in the GPU configurations             *)
    /\ MadeAt > 0               (* 0 in the file is at the first record    *)
    /\ MaxThreads > 0 /\ SchlistSize > 1 /\ FeSize > m_knob_fetch_width
    /\ NumWarpScheduler > 0 /\ FetchRatio > 0 /\ ScheduleRatio > 0
    /\ Latencies \subseteq Nat \ {0} /\ Latencies # {}
    /\ \A k \in Kernels : \A n \in DOMAIN k :
           k[n].src \subseteq 1 .. n - 1 /\ k[n].lat > 0
           /\ (k[n].kind \in {"ld", "st"} <=> k[n].acc > 0)

VARIABLES
    kernel,        (* what every warp executes                             *)
    m_unique_scheduled_thread_num,
    m_thread_to_rob_map, m_free_list,
    warp,          (* what the frontend keeps of each warp (frontend_s),   *)
                   (* m_fetch_ended and m_thread_reach_end                 *)
    m_thread_robs, (* the uops in the reorder buffer of a warp, and its    *)
                   (* free buffers and registers                           *)
    m_frontend_q, m_gpu_alloc_q,
    schlist,       (* m_schlist_entry and _tid with their ends, counters   *)
                   (* and the ports in use                                 *)
    sync, m_sync_done,           (* m_sync_info by block                   *)
    arbiter,       (* m_fetch_arbiter, m_fetch_modulo, m_schedule_modulo,  *)
                   (* m_mem_access_thread_num                              *)
    step           (* the stage, what it has done, and where it is         *)

coreVars == <<kernel, m_unique_scheduled_thread_num, m_thread_to_rob_map, m_free_list,
              warp, m_thread_robs, m_frontend_q, m_gpu_alloc_q, schlist, sync,
              m_sync_done, arbiter, step>>

At(stage) == [stage |-> stage, count |-> 0, slot |-> schlist.first, todo |-> <<>>,
              prev |-> None]
NewWarp == [pc |-> 1, mode |-> "ifetch", missing |-> FALSE, blocked |-> FALSE,
            br_waiting |-> FALSE, load_waiting |-> {}, fetch_ended |-> FALSE,
            reach_end |-> FALSE]
NoSync == [count |-> 0, num_threads_in_block |-> 0]     (* no entry *)
NewRob == [uops |-> <<>>, free |-> [c \in Classes |-> Registers]]

Init ==
    /\ kernel \in Kernels
    /\ m_unique_scheduled_thread_num = 0
    /\ m_thread_to_rob_map = [w \in Warps |-> None]
    /\ m_free_list = [i \in 1 .. MaxThreads |-> i - 1]
    /\ warp = [w \in Warps |-> NewWarp]
    /\ m_thread_robs = [i \in 0 .. MaxThreads - 1 |-> NewRob]
    /\ m_frontend_q = <<>> /\ m_gpu_alloc_q = <<>>
    /\ schlist = [list |-> [s \in Slots |-> <<>>], first |-> 0, last |-> 0,
                  num_in_sched |-> 0, ports |-> 0]
    /\ sync = [b \in Blocks |-> NoSync] /\ m_sync_done = <<>>
    /\ arbiter = [next |-> 0, fetch |-> 0, schedule |-> ScheduleRatio - 1, mem |-> 0]
    /\ step = [stage |-> "idle", count |-> 0, slot |-> 0, todo |-> <<>>, prev |-> None]

Started == 0 .. m_unique_scheduled_thread_num - 1
m_last_terminated_tid ==
    Min({w \in Started : ~warp[w].reach_end} \cup {m_unique_scheduled_thread_num})
Ended(w) == warp[w].fetch_ended \/ warp[w].reach_end
m_fetching_thread_num == Cardinality({w \in Started : ~warp[w].fetch_ended})

(* A uop is named by its warp and its number; robs[w], the reorder buffer  *)
(* of a warp that has one.                                                 *)
RobOf(w) == m_thread_robs[m_thread_to_rob_map[w]]
Uop(w, n) == LET u == RobOf(w).uops IN u[CHOOSE i \in DOMAIN u : u[i].num = n]
Retired(w, n) == warp[w].reach_end \/ (RobOf(w).uops # <<>> /\ n < RobOf(w).uops[1].num)
SetUop(w, n, new) ==
    LET r == m_thread_to_rob_map[w] IN
    [m_thread_robs EXCEPT ![r].uops =
        [i \in DOMAIN @ |-> IF @[i].num = n THEN new ELSE @[i]]]

-----------------------------------------------------------------------------
(* The warps that create_thread_node has made when warp 0 has read n.      *)
Made(n) == IF n >= MadeAt THEN Warps ELSE {0}

(* The process manager gives the core its next warp (core_c::add_...,      *)
(* smc_rob_c::reserve_rob), while a reorder buffer is free.  (When it does *)
(* so inside of the end of another, reserve_rob finds none and aborts:     *)
(* RobForEveryWarp of ProcessManager.)                                     *)
start ==
    /\ step.stage = "idle"
    /\ m_unique_scheduled_thread_num \in Made(warp[0].pc - 1) /\ m_free_list # <<>>
    /\ m_thread_to_rob_map' = [m_thread_to_rob_map EXCEPT
           ![m_unique_scheduled_thread_num] = Head(m_free_list)]
    /\ m_thread_robs' = [m_thread_robs EXCEPT ![Head(m_free_list)].uops = <<>>]
    /\ m_free_list' = Tail(m_free_list)
    /\ m_unique_scheduled_thread_num' = m_unique_scheduled_thread_num + 1
    /\ UNCHANGED <<kernel, warp, m_frontend_q, m_gpu_alloc_q, schlist, sync,
                   m_sync_done, arbiter, step>>

(* A cycle begins with the retire stage: the warps whose first uop is done *)
(* (get_n_uops_in_ready_order), each of which retires one.                 *)
FrontDone(w) == RobOf(w).uops # <<>> /\ RobOf(w).uops[1].done = 0
InOrder(W) == SetToSortSeq(W, <)

begin_cycle ==
    /\ step.stage = "idle"
    /\ step' = [At("retire") EXCEPT !.todo =
           InOrder({w \in Started : m_thread_to_rob_map[w] # None /\ FrontDone(w)})]
    /\ UNCHANGED <<kernel, m_unique_scheduled_thread_num, m_thread_to_rob_map,
                   m_free_list, warp, m_thread_robs, m_frontend_q, m_gpu_alloc_q,
                   schlist, sync, m_sync_done, arbiter>>

(* frontend_c::synch_thread: one more warp of block b is at the barrier.   *)
synch_thread(b) ==
    /\ sync' = [sync EXCEPT ![b].count = @ + 1]
    /\ m_sync_done' = IF sync[b].count + 1 = sync[b].num_threads_in_block
                      THEN Append(m_sync_done, b) ELSE m_sync_done

retire ==
    /\ step.stage = "retire" /\ step.todo # <<>>
    /\ LET w == Head(step.todo)
           r == m_thread_to_rob_map[w]
           u == RobOf(w).uops[1]
           k == kernel[u.num].kind
       IN
       /\ m_thread_robs' = [m_thread_robs EXCEPT
              ![r].uops = Tail(@),
              ![r].free = [c \in Classes |-> @[c] + IF c \in ClassOf(k) THEN 1 ELSE 0]]
       /\ IF k = "bar" THEN synch_thread(BlockOf[w]) ELSE UNCHANGED <<sync, m_sync_done>>
       /\ IF u.num = Len(kernel)
          THEN /\ warp' = [warp EXCEPT ![w].reach_end = TRUE]
               /\ m_thread_to_rob_map' = [m_thread_to_rob_map EXCEPT ![w] = None]
               /\ m_free_list' = Append(m_free_list, r)
          ELSE UNCHANGED <<warp, m_thread_to_rob_map, m_free_list>>
       /\ step' = [step EXCEPT !.todo = Tail(@)]
    /\ UNCHANGED <<kernel, m_unique_scheduled_thread_num, m_frontend_q, m_gpu_alloc_q,
                   schlist, arbiter>>

(* In one cycle of ScheduleRatio the scheduler runs, its ports free again. *)
retired_all ==
    /\ step.stage = "retire" /\ step.todo = <<>>
    /\ LET modulo == (arbiter.schedule + 1) % ScheduleRatio IN
       /\ arbiter' = [arbiter EXCEPT !.schedule = modulo]
       /\ step' = At(IF modulo = 0 THEN "schedule" ELSE "allocate")
       /\ schlist' = IF modulo = 0 THEN [schlist EXCEPT !.ports = 0] ELSE schlist
    /\ UNCHANGED <<kernel, m_unique_scheduled_thread_num, m_thread_to_rob_map,
                   m_free_list, warp, m_thread_robs, m_frontend_q, m_gpu_alloc_q,
                   sync, m_sync_done>>
-----------------------------------------------------------------------------
(* schedule_smc_c::run_a_cycle goes over the list, whose holes stay until  *)
(* the first entries of the list are gone.                                 *)
NextSlot(s) == (s + 1) % SchlistSize
ScanOn == /\ step.slot # schlist.last
          /\ schlist.num_in_sched > 0
          /\ step.count < NumWarpScheduler
PastFirst(l) == IF step.slot = l.first THEN [l EXCEPT !.first = NextSlot(@)] ELSE l

hole ==
    /\ step.stage = "schedule"
    /\ ScanOn /\ schlist.list[step.slot] = <<>>
    /\ schlist' = PastFirst(schlist)
    /\ step' = [step EXCEPT !.slot = NextSlot(@)]
    /\ UNCHANGED <<kernel, m_unique_scheduled_thread_num, m_thread_to_rob_map,
                   m_free_list, warp, m_thread_robs, m_frontend_q, m_gpu_alloc_q,
                   sync, m_sync_done, arbiter>>

(* (The code keeps a source's number in 32 bits: warps of 2^32 uops, where *)
(* it would be cut, are not modelled.)                                     *)
check_srcs_smc(w, u) ==
    \A n \in kernel[u.num].src : ~Retired(w, n) => Uop(w, n).done = 0

MaySchedule(w, u) == check_srcs_smc(w, u) /\ schlist.ports < m_max_port

(* exec_c::exec for a memory instruction: of its accesses that are not yet *)
(* sent, h hit, m miss, and the rest are refused.                          *)
Sent(u, h, m, l) ==
    LET v == [u EXCEPT !.pending = @ - h - m, !.out = @ + m] IN
    IF v.pending > 0 THEN v
    ELSE [v EXCEPT !.issued = TRUE, !.done = IF v.out = 0 THEN l ELSE None]
Executed(u, h, m, l) ==
    IF u.pending > 0 THEN Sent(u, h, m, l)
    ELSE [u EXCEPT !.issued = TRUE, !.done = kernel[u.num].lat]

(* set_load_wait, at a miss; set_br_ready, by a branch.                    *)
set_load_wait(w, n) ==
    /\ warp' = [warp EXCEPT ![w].load_waiting = @ \cup {n}]
    /\ arbiter' = [arbiter EXCEPT !.mem =
           IF warp[w].load_waiting = {} THEN @ + 1 ELSE @]

(* The uop at the slot is tried.                                           *)
uop_schedule_smc(h, m, l) ==
    /\ step.stage = "schedule"
    /\ ScanOn /\ schlist.list[step.slot] # <<>>
    /\ LET w == schlist.list[step.slot][1]
           n == schlist.list[step.slot][2]
           u == Uop(w, n)
           v == Executed(u, h, m, l)
       IN
       /\ h + m <= u.pending
       /\ h = 0 => l = Min(Latencies)
       /\ MaySchedule(w, u)
       /\ m_thread_robs' = SetUop(w, n, v)
       /\ IF v.issued
          THEN /\ schlist' = [PastFirst(schlist) EXCEPT !.list[step.slot] = <<>>,
                                 !.num_in_sched = @ - 1, !.ports = @ + 1]
               /\ step' = [step EXCEPT !.slot = NextSlot(@), !.count = @ + 1]
          ELSE /\ step' = [step EXCEPT !.slot = NextSlot(@)]
               /\ UNCHANGED schlist
       /\ IF v.issued /\ v.done = None /\ OnlyLoadReady THEN set_load_wait(w, n)
          ELSE /\ warp' = IF kernel[n].kind = "br" /\ NoFetchBr
                          THEN [warp EXCEPT ![w].br_waiting = FALSE] ELSE warp
               /\ UNCHANGED arbiter
    /\ UNCHANGED <<kernel, m_unique_scheduled_thread_num, m_thread_to_rob_map,
                   m_free_list, m_frontend_q, m_gpu_alloc_q, sync, m_sync_done>>

not_scheduled ==
    /\ step.stage = "schedule"
    /\ ScanOn /\ schlist.list[step.slot] # <<>>
    /\ LET w == schlist.list[step.slot][1] IN
       ~MaySchedule(w, Uop(w, schlist.list[step.slot][2]))
    /\ step' = [step EXCEPT !.slot = NextSlot(@)]
    /\ UNCHANGED <<kernel, m_unique_scheduled_thread_num, m_thread_to_rob_map,
                   m_free_list, warp, m_thread_robs, m_frontend_q, m_gpu_alloc_q,
                   schlist, sync, m_sync_done, arbiter>>

scheduled_all ==
    /\ step.stage = "schedule" /\ ~ScanOn
    /\ step' = At("advance")
    /\ UNCHANGED <<kernel, m_unique_scheduled_thread_num, m_thread_to_rob_map,
                   m_free_list, warp, m_thread_robs, m_frontend_q, m_gpu_alloc_q,
                   schlist, sync, m_sync_done, arbiter>>

(* schedule_smc_c::advance: uops leave the allocation queue for the list,  *)
(* of which one slot stays free.  No uop is done before it is scheduled.   *)
CanAdvance == /\ m_gpu_alloc_q # <<>>
              /\ NextSlot(schlist.last) # schlist.first
              /\ step.count < m_sched_rate
              /\ schlist.num_in_sched < m_sched_size
advance ==
    /\ step.stage = "advance" /\ CanAdvance
    /\ schlist' = [schlist EXCEPT !.list[schlist.last] = Head(m_gpu_alloc_q),
                      !.last = NextSlot(@), !.num_in_sched = @ + 1]
    /\ m_gpu_alloc_q' = Tail(m_gpu_alloc_q)
    /\ step' = [step EXCEPT !.count = @ + 1]
    /\ UNCHANGED <<kernel, m_unique_scheduled_thread_num, m_thread_to_rob_map,
                   m_free_list, warp, m_thread_robs, m_frontend_q, sync, m_sync_done,
                   arbiter>>

advanced_all ==
    /\ step.stage = "advance" /\ ~CanAdvance
    /\ step' = At("allocate")
    /\ UNCHANGED <<kernel, m_unique_scheduled_thread_num, m_thread_to_rob_map,
                   m_free_list, warp, m_thread_robs, m_frontend_q, m_gpu_alloc_q,
                   schlist, sync, m_sync_done, arbiter>>

-----------------------------------------------------------------------------
(* smc_allocate_c::run_a_cycle: the frontend queue is one for all warps; a *)
(* warp without room in its reorder buffer holds up the others.            *)
NewUop(n) == [num |-> n, done |-> None, issued |-> FALSE,
              pending |-> kernel[n].acc, out |-> 0]
CanAllocate ==
    /\ step.count < m_knob_width /\ m_frontend_q # <<>>
    /\ Len(m_gpu_alloc_q) < AllocSize
    /\ LET w == Head(m_frontend_q)[1] IN
       /\ Len(RobOf(w).uops) < RobSize
       /\ \A c \in ClassOf(kernel[Head(m_frontend_q)[2]].kind) : RobOf(w).free[c] > 0

allocate ==
    /\ step.stage = "allocate" /\ CanAllocate
    /\ LET w == Head(m_frontend_q)[1]
           n == Head(m_frontend_q)[2]
       IN  m_thread_robs' = [m_thread_robs EXCEPT ![m_thread_to_rob_map[w]] =
              [uops |-> Append(@.uops, NewUop(n)),
               free |-> [c \in Classes |->
                   @.free[c] - IF c \in ClassOf(kernel[n].kind) THEN 1 ELSE 0]]]
    /\ m_gpu_alloc_q' = Append(m_gpu_alloc_q, Head(m_frontend_q))
    /\ m_frontend_q' = Tail(m_frontend_q)
    /\ step' = [step EXCEPT !.count = @ + 1]
    /\ UNCHANGED <<kernel, m_unique_scheduled_thread_num, m_thread_to_rob_map,
                   m_free_list, warp, schlist, sync, m_sync_done, arbiter>>

(* In one cycle of FetchRatio the frontend runs, unless no warp fetches.   *)
allocated_all ==
    /\ step.stage = "allocate" /\ ~CanAllocate
    /\ IF m_fetching_thread_num = 0
       THEN step' = At("end") /\ UNCHANGED arbiter
       ELSE LET modulo == (arbiter.fetch + 1) % FetchRatio IN
            /\ arbiter' = [arbiter EXCEPT !.fetch = modulo]
            /\ step' = At(IF modulo = 0 THEN "fetch" ELSE "end")
    /\ UNCHANGED <<kernel, m_unique_scheduled_thread_num, m_thread_to_rob_map,
                   m_free_list, warp, m_thread_robs, m_frontend_q, m_gpu_alloc_q,
                   schlist, sync, m_sync_done>>
-----------------------------------------------------------------------------
(* frontend_c::fetch_rr: warps are tried from m_fetch_arbiter on, at most  *)
(* as many as there are from the oldest one that runs.  The arbiter moves  *)
(* past every warp that is tried.  (m_last_fetch_tid_failed stays false.)  *)
Fetchable(w) == /\ ~Ended(w)
                /\ ~warp[w].blocked
                /\ NoFetchBr => ~warp[w].br_waiting
                /\ OnlyLoadReady => warp[w].load_waiting = {}
Ahead(a) == Max({(a + 1) % m_unique_scheduled_thread_num, m_last_terminated_tid})
max_try == m_unique_scheduled_thread_num - m_last_terminated_tid
Arbiter == LET a[i \in 0 .. max_try] == IF i = 0 THEN arbiter.next ELSE Ahead(a[i - 1])
           IN  a
Tried(i) == Arbiter[i - 1] % m_unique_scheduled_thread_num
FirstTry == LET T == {i \in 1 .. max_try : Fetchable(Tried(i))}
            IN  IF m_fetching_thread_num = 0 \/ T = {} THEN None ELSE Min(T)

nothing_to_fetch ==
    /\ step.stage = "fetch"
    /\ step.count < NumWarpScheduler
    /\ FirstTry = None
    /\ step' = At("barrier")
    /\ arbiter' = [arbiter EXCEPT !.next =
           IF m_fetching_thread_num = 0 THEN @ ELSE Arbiter[max_try]]
    /\ UNCHANGED <<kernel, m_unique_scheduled_thread_num, m_thread_to_rob_map,
                   m_free_list, warp, m_thread_robs, m_frontend_q, m_gpu_alloc_q,
                   schlist, sync, m_sync_done>>

(* get_uops_from_traces: uop n of a warp, with what a barrier, a branch    *)
(* and the end of the trace do.  The entry of the block is created by the  *)
(* first of its warps at the barrier.                                      *)
(* As if a barrier did not stop the warp.                                  *)
Mutant_Read(w, n) == [warp[w] EXCEPT !.pc = n + 1, !.fetch_ended = n = Len(kernel),
                !.br_waiting = @ \/ (kernel[n].kind = "br" /\ NoFetchBr)]

Read(w, n) == [warp[w] EXCEPT !.pc = n + 1, !.fetch_ended = n = Len(kernel),
                !.blocked = @ \/ kernel[n].kind = "bar",
                !.br_waiting = @ \/ (kernel[n].kind = "br" /\ NoFetchBr)]

(* m_total_thread_num: the warps of block b that insert_block has counted, *)
(* with those that reading uop n of warp w has just made.                  *)
m_total_thread_num(b, w, n) ==
    Cardinality({v \in Made(IF w = 0 THEN n ELSE warp[0].pc - 1) : BlockOf[v] = b})

Arrived(w, n) ==
    IF kernel[n].kind = "bar" /\ sync[BlockOf[w]] = NoSync
    THEN [sync EXCEPT ![BlockOf[w]] = [count |-> 0,
             num_threads_in_block |-> m_total_thread_num(BlockOf[w], w, n)]]
    ELSE sync

(* process_ifetch: the uops of warp w up to the width, in width 1 one; or  *)
(* the instruction cache misses.  A warp that waited for a miss uses its   *)
(* turn to find the line there.                                            *)
process_ifetch(w, hit) ==
    CASE warp[w].mode = "wait" ->
             /\ ~hit
             /\ warp' = [warp EXCEPT ![w].mode = IF warp[w].missing THEN @ ELSE "ifetch"]
             /\ UNCHANGED <<m_frontend_q, sync>>
      [] warp[w].mode = "ifetch" /\ ~hit ->
             /\ warp' = [warp EXCEPT ![w].mode = "wait", ![w].missing = TRUE]
             /\ UNCHANGED <<m_frontend_q, sync>>
      [] OTHER ->
             /\ warp' = [warp EXCEPT ![w] = Read(w, warp[w].pc)]
             /\ sync' = Arrived(w, warp[w].pc)
             /\ m_frontend_q' = Append(m_frontend_q, <<w, warp[w].pc>>)

fetch(hit) ==
    /\ step.stage = "fetch"
    /\ step.count < NumWarpScheduler
    /\ FirstTry # None
    /\ arbiter' = [arbiter EXCEPT !.next = Arbiter[FirstTry]]
    /\ LET w == Tried(FirstTry) IN
       IF w = step.prev
       THEN /\ ~hit
            /\ step' = At("barrier")
            /\ UNCHANGED <<warp, sync, m_frontend_q>>
       ELSE /\ step' = [step EXCEPT !.count = @ + 1, !.prev = w]
            /\ IF FeSize - Len(m_frontend_q) > m_knob_fetch_width
               THEN process_ifetch(w, hit)
               ELSE ~hit /\ UNCHANGED <<warp, sync, m_frontend_q>>
    /\ UNCHANGED <<kernel, m_unique_scheduled_thread_num, m_thread_to_rob_map,
                   m_free_list, m_thread_robs, m_gpu_alloc_q, schlist, m_sync_done>>

fetched_all ==
    /\ step.stage = "fetch" /\ step.count = NumWarpScheduler
    /\ step' = At("barrier")
    /\ UNCHANGED <<kernel, m_unique_scheduled_thread_num, m_thread_to_rob_map,
                   m_free_list, warp, m_thread_robs, m_frontend_q, m_gpu_alloc_q,
                   schlist, sync, m_sync_done, arbiter>>

(* The end of frontend_c::run_a_cycle: all warps of the blocks in          *)
(* m_sync_done go on.                                                      *)
Released(w) == /\ w \in m_last_terminated_tid .. m_unique_scheduled_thread_num - 1
               /\ ~Ended(w)
               /\ \E i \in DOMAIN m_sync_done : BlockOf[w] = m_sync_done[i]
release_barriers ==
    /\ step.stage = "barrier"
    /\ warp' = [w \in Warps |-> [warp[w] EXCEPT !.blocked = @ /\ ~Released(w)]]
    /\ sync' = [b \in Blocks |-> IF b \in ToSet(m_sync_done) THEN NoSync ELSE sync[b]]
    /\ m_sync_done' = <<>>
    /\ step' = At("end")
    /\ UNCHANGED <<kernel, m_unique_scheduled_thread_num, m_thread_to_rob_map,
                   m_free_list, m_thread_robs, m_frontend_q, m_gpu_alloc_q, schlist,
                   arbiter>>

-----------------------------------------------------------------------------
(* The clock ticks: times are counted down.                                *)
tick ==
    /\ step.stage = "end"
    /\ step' = [At("idle") EXCEPT !.slot = 0]
    /\ m_thread_robs' = [r \in DOMAIN m_thread_robs |-> [m_thread_robs[r] EXCEPT
           !.uops = [i \in DOMAIN @ |->
               [@[i] EXCEPT !.done = IF @ > 0 THEN @ - 1 ELSE @]]]]
    /\ UNCHANGED <<kernel, m_unique_scheduled_thread_num, m_thread_to_rob_map,
                   m_free_list, warp, m_frontend_q, m_gpu_alloc_q, schlist, sync,
                   m_sync_done, arbiter>>

(* dcu_c::cache_fill_line, write_done and readonly_cache_c::               *)
(* cache_fill_line: an access of uop u is answered.  With the last one the *)
(* uop is done, and set_load_ready tells the frontend.                     *)
answer(w, u) ==
    /\ step.stage = "idle"
    /\ u.out > 0
    /\ LET v == [u EXCEPT !.out = @ - 1] IN
       IF v.out = 0 /\ v.pending = 0
       THEN LET left == warp[w].load_waiting \ {u.num} IN
            /\ m_thread_robs' = SetUop(w, u.num, [v EXCEPT !.done = 1])
            /\ IF OnlyLoadReady
               THEN /\ warp' = [warp EXCEPT ![w].load_waiting = left]
                    /\ arbiter' = [arbiter EXCEPT !.mem = IF left = {} THEN @ - 1 ELSE @]
               ELSE UNCHANGED <<warp, arbiter>>
       ELSE m_thread_robs' = SetUop(w, u.num, v) /\ UNCHANGED <<warp, arbiter>>
    /\ UNCHANGED <<kernel, m_unique_scheduled_thread_num, m_thread_to_rob_map,
                   m_free_list, m_frontend_q, m_gpu_alloc_q, schlist, sync,
                   m_sync_done, step>>

Waiting(w) == IF m_thread_to_rob_map[w] = None THEN {} ELSE ToSet(RobOf(w).uops)

(* frontend_c::icache_fill_line.                                           *)
icache_fill_line(w) ==
    /\ step.stage = "idle"
    /\ warp[w].missing
    /\ warp' = [warp EXCEPT ![w].missing = FALSE]
    /\ UNCHANGED <<kernel, m_unique_scheduled_thread_num, m_thread_to_rob_map,
                   m_free_list, m_thread_robs, m_frontend_q, m_gpu_alloc_q, schlist,
                   sync, m_sync_done, arbiter, step>>

MaxAccesses == Max(UNION {{k[n].acc : n \in DOMAIN k} : k \in Kernels})

run_a_cycle ==
    \/ begin_cycle
    \/ retire \/ retired_all
    \/ hole \/ not_scheduled \/ scheduled_all
    \/ \E h, m \in 0 .. MaxAccesses, l \in Latencies : uop_schedule_smc(h, m, l)
    \/ advance \/ advanced_all
    \/ allocate \/ allocated_all
    \/ nothing_to_fetch \/ fetched_all
    \/ \E hit \in BOOLEAN : fetch(hit)
    \/ release_barriers
    \/ tick

Next ==
    \/ run_a_cycle
    \/ start
    \/ \E w \in Warps : icache_fill_line(w) \/ \E u \in Waiting(w) : answer(w, u)

Spec == Init /\ [][Next]_coreVars

-----------------------------------------------------------------------------
(* No warp fetches past a barrier that some warp of its block has not yet  *)
(* retired, and the entry of a block counts the warps that have.  The      *)
(* number that is waited for is taken when the first warp arrives, so this *)
(* needs the others to be made by then, if not started: a main thread that *)
(* meets a barrier before passes it alone, and from there on the barriers  *)
(* of its block are those of different places.                             *)
Barriers(n) == Cardinality({i \in 1 .. n : kernel[i].kind = "bar"})
MadeBefore == Barriers(MadeAt - 1) = 0
LastRetired(w) == IF warp[w].reach_end THEN Len(kernel)
                  ELSE IF w \notin Started THEN 0
                  ELSE IF RobOf(w).uops # <<>> THEN RobOf(w).uops[1].num - 1
                  ELSE LET F == {i \in DOMAIN m_frontend_q : m_frontend_q[i][1] = w}
                       IN  IF F = {} THEN warp[w].pc - 1 ELSE m_frontend_q[Min(F)][2] - 1
BarrierHeld ==
    /\ \A w, v \in Warps : BlockOf[w] = BlockOf[v] =>
           \A n \in 1 .. warp[w].pc - 2 :
               kernel[n].kind = "bar" /\ v \in Made(n)
               /\ (MadeBefore \/ n < MadeAt) => LastRetired(v) >= n
    /\ \A b \in Blocks : sync[b] # NoSync /\ MadeBefore =>
           LET most == Max({Barriers(warp[w].pc - 1) : w \in {w \in Warps : BlockOf[w] = b}})
           IN  sync[b].count = Cardinality({w \in Warps : BlockOf[w] = b
                                            /\ Barriers(LastRetired(w)) = most})

(* What waits in the scheduler is what its list holds, once each, and the  *)
(* reorder buffers and their registers are neither lost nor shared.        *)
Listed == {s \in Slots : schlist.list[s] # <<>>}
InRange(s) == IF schlist.first <= schlist.last
              THEN schlist.first <= s /\ s < schlist.last
              ELSE schlist.first <= s \/ s < schlist.last
WarpsAccounted ==
    /\ schlist.num_in_sched = Cardinality(Listed)
    /\ \A s \in Listed : InRange(s)
    /\ \A w \in Started : m_thread_to_rob_map[w] # None =>
         /\ \A u \in ToSet(RobOf(w).uops) : ~u.issued =>
              Cardinality({s \in Listed : schlist.list[s] = <<w, u.num>>}
                  \cup {-i : i \in {i \in DOMAIN m_gpu_alloc_q :
                                        m_gpu_alloc_q[i] = <<w, u.num>>}}) = 1
         /\ \A c \in Classes : RobOf(w).free[c] + Cardinality(
              {u \in ToSet(RobOf(w).uops) : c \in ClassOf(kernel[u.num].kind)}) = Registers
    /\ IsInjective(m_free_list \o InOrder({m_thread_to_rob_map[w] : w \in
              {w \in Warps : m_thread_to_rob_map[w] # None}}))
    /\ arbiter.mem = Cardinality({w \in Warps : warp[w].load_waiting # {}})

(* The uops of a warp retire in its program's order, and one executes only *)
(* when those it reads from are done.                                      *)
SourcesFirst ==
    \A w \in Warps : \A u \in Waiting(w) :
        ~u.issued /\ m_thread_to_rob_map'[w] # None
        /\ (\E v \in Waiting(w)' : v.num = u.num /\ v.issued) =>
            \A n \in kernel[u.num].src : LastRetired(w) < n => Uop(w, n).done = 0

=============================================================================
