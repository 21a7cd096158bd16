--------------------------- MODULE ProcessManager ---------------------------
(***************************************************************************)
(* Applications, their kernels and their threads on the cores of MacSim    *)
(* (IntegrationWithMacSim/src/process_manager.cc, with the parts of        *)
(* core.cc, trace_read.cc, retire.cc and macsim.cc that keep its state).   *)
(* A CPU application is threads that wait in one queue; a GPU application  *)
(* is kernels, run one after another, of blocks of warps, with a queue per *)
(* block.  A thread is started on a core by sim_thread_schedule, which is  *)
(* called by everything that may make room, from inside of one another:    *)
(* the operations are functions from a state s to a state.  What the core  *)
(* does for a thread is reading its trace, one record at a time, and       *)
(* retiring its uops, one for a record.                                    *)
(***************************************************************************)
EXTENDS Integers, Sequences, FiniteSets, SequencesExt

CONSTANTS
    CoreType,          (* a sequence of "ptx" and "x86": the cores, from 0 *)
    MaxThreads,        (* KNOB_MAX_THREADS_PER_CORE, one ROB for each      *)
    Applications,      (* the trace list, each [ptx, kernels]: a kernel is *)
                       (* [max_block, threads], a thread [block, the       *)
                       (* record of thread 0 that it starts at, length]    *)
    MaxCorePerAppl,    (* KNOB_MAX_NUM_CORE_PER_APPL, 0: no maximum        *)
    GreedilyInitially, (* KNOB_ASSIGN_BLOCKS_GREEDILY_INITIALLY            *)
    RepeatTrace, RepeatTraceN, MaxInsts,            (* KNOBs of that name  *)
    GpuSched,          (* KNOB_GPU_SCHED: a reorder buffer per warp        *)
    MaxProcesses,      (* bound: processes with the repeated ones          *)
    Divisor            (* m_clock_divisor of "x86" and "ptx" cores         *)

Cores == 0 .. Len(CoreType) - 1
Type(c) == CoreType[c + 1]
Robs(c) == GpuSched /\ Type(c) = "ptx"
Appls == 0 .. Len(Applications) - 1
Kernels(p) == Applications[p + 1].kernels
Ptx(p) == Applications[p + 1].ptx

ManagerAssumption ==
    /\ \A c \in Cores : Type(c) \in {"ptx", "x86"}
    /\ \A p \in Appls : \A k \in DOMAIN Kernels(p) :
           Kernels(p)[k].threads # <<>>
    /\ MaxThreads > 0 /\ MaxInsts > 0
    /\ \A t \in {"ptx", "x86"} : Divisor[t] > 0

VARIABLES
    sim,      (* the state of the manager, the processes and the cores     *)
    cycle,    (* macsim_c::run_a_cycle: how far it is, and its clock       *)
    over      (* it has returned 0                                         *)

managerVars == <<sim, cycle, over>>

-----------------------------------------------------------------------------
(* A core after core_c::init.  m_thread_trace_info is thread, by the       *)
(* number that the thread got on the core; rob are the threads that hold a *)
(* reorder buffer of smc_rob_c.                                            *)
init(core) ==
    [core EXCEPT !.unique = 0, !.last = 0, !.running = 0, !.fetching = 0,
                 !.blocks = 0, !.block = -1, !.reach_end = 0, !.appl = 0,
                 !.thread = <<>>, !.finished = {}, !.fetch_ended = {},
                 !.terminated = {}]
NewCore ==
    init([unique |-> 0, last |-> 0, running |-> 0, fetching |-> 0,
          blocks |-> 0, block |-> -1, reach_end |-> 0, appl |-> 0,
          thread |-> <<>>, finished |-> {}, fetch_ended |-> {},
          terminated |-> {}, rob |-> {}, uops |-> <<>>,
          sim_end |-> FALSE, started |-> FALSE])

(* The threads of the kernel that process p runs.                          *)
Kernel(s, p) == Kernels(p)[s.process[p].index]
Threads(s, p) == Kernel(s, p).threads

(* insert_thread; insert_block, which makes the block known if it is not.  *)
insert_thread(s, node) ==
    [s EXCEPT !.waiting = @ + 1, !.thread_queue = Append(@, node)]
insert_block(s, node, b) ==
    LET known == b \in DOMAIN s.block
        old == IF known THEN s.block[b]
               ELSE [started |-> FALSE, core |-> -1, dispatched |-> 0,
                     retired |-> 0, total |-> 0, queue |-> <<>>]
    IN [s EXCEPT !.waiting = @ + 1,
                 !.block = [x \in DOMAIN @ \cup {b} |->
                     IF x # b THEN @[x]
                     ELSE [old EXCEPT !.total = @ + 1,
                                      !.queue = Append(@, node)]]]

(* multi_key_map_c: a number for a block of a process, never given twice.  *)
find(s, p, b) ==
    LET known == SelectInSeq(s.mapper, LAMBDA key :
                     key = <<s.process[p].id, b + s.process[p].start>>)
    IN known - 1

(* create_thread_node: a thread becomes ready to be scheduled.             *)
create_thread_node(s, p, tid) ==
    LET b == Threads(s, p)[tid + 1].block
        new == find(s, p, b) = -1
        s1 == IF ~new THEN s
              ELSE [s EXCEPT !.mapper = Append(@,
                                 <<s.process[p].id, b + s.process[p].start>>),
                             !.process[p].block_count = @ + 1]
        id == find(s1, p, b)
        s2 == [s1 EXCEPT !.process[p].blocks = @ \cup {id},
                         !.active = @ + 1]
        node == [p |-> p, tid |-> tid]
    IN IF Ptx(p) THEN insert_block(s2, node, id) ELSE insert_thread(s2, node)

(* setup_process: the next kernel.  A GPU application takes cores from the *)
(* pool, all of them or as many as it may have, and has them initialised.  *)
setup_process(s, p) ==
    LET pool == IF ~Ptx(p) THEN <<>>
                ELSE IF MaxCorePerAppl = 0 THEN s.pool
                ELSE SubSeq(s.pool, 1, IF Len(s.pool) < MaxCorePerAppl
                                       THEN Len(s.pool) ELSE MaxCorePerAppl)
        taken == Range(pool)
    IN create_thread_node(
        [s EXCEPT
            !.process[p] = [@ EXCEPT !.start = s.process[p].block_count,
                                     !.index = @ + 1,
                                     !.created = 1, !.terminated = 0,
                                     !.cores = @ \cup taken],
            !.pool = SubSeq(@, Len(pool) + 1, Len(@)),
            !.core = [c \in Cores |-> IF c \in taken
                                      THEN [init(@[c]) EXCEPT !.appl = p]
                                      ELSE @[c]]],
        p, 0)

(* create_process: m_sim_processes has the last one of an application.     *)
create_process(s, p, repeat) ==
    setup_process(
        [s EXCEPT
            !.process[p] = [id |-> s.process_count, repeat |-> repeat,
                            index |-> 0, start |-> 0, block_count |-> 0,
                            created |-> 0, terminated |-> 0,
                            cores |-> {}, blocks |-> {}],
            !.process_count = @ + 1,
            !.without_repeat = IF repeat = 0 THEN @ + 1 ELSE @],
        p)

-----------------------------------------------------------------------------
(* create_thread, core_c::add_application, create_trace_info and           *)
(* allocate_thread_data: the thread gets the next number of the core.      *)
(* reserve_rob asserts that a reorder buffer is free: if not, no_rob says  *)
(* whose buffers they are.                                                 *)
NoRob(s, c) ==
    IF ~Robs(c) \/ s.no_rob # "" \/ Cardinality(s.core[c].rob) < MaxThreads
    THEN s.no_rob
    ELSE IF s.core[c].rob \cap s.core[c].finished = {} THEN "running" ELSE "ending"
create_trace_info(s, c, node) ==
    LET tid == s.core[c].unique
        thread == [p |-> node.p, tid |-> node.tid, read |-> 0, retired |-> 0,
                   block |-> find(s, node.p, Threads(s, node.p)
                                                 [node.tid + 1].block)]
        With(f, x) == [t \in DOMAIN f \cup {tid} |-> IF t = tid THEN x ELSE f[t]]
    IN [s EXCEPT !.core[c] =
            [@ EXCEPT !.unique = @ + 1, !.running = @ + 1,
                      !.fetching = @ + 1, !.appl = node.p,
                      !.thread = With(@, thread),
                      !.uops = IF tid \in DOMAIN @ THEN @ ELSE With(@, <<>>),
                      !.finished = @ \ {tid}, !.fetch_ended = @ \ {tid},
                      !.rob = IF Robs(c) THEN @ \cup {tid} ELSE @,
                      !.sim_end = FALSE, !.started = TRUE],
                 !.no_rob = NoRob(s, c)]

(* sim_schedule_thread_block: the block that core c takes its next warp    *)
(* from: the one it is at as long as that has more, or else the first that *)
(* no core has begun, in the first round only of this core's share.        *)
FetchesOn(s, c) ==
    LET b == s.core[c].block
    IN b \in DOMAIN s.block /\ s.block[b].total > s.block[b].dispatched
Share(s, c, p, b) ==
    LET cores == s.process[p].cores
        least == IF MaxCorePerAppl = 0 THEN 0
                 ELSE CHOOSE m \in cores : \A x \in cores : m <= x
    IN (b - find(s, p, 0)) % Cardinality(cores) = c - least
NextBlocks(s, c, initial) ==
    LET p == s.core[c].appl
    IN IF s.core[c].blocks + 1 > Kernel(s, p).max_block THEN {}
       ELSE {b \in s.process[p].blocks :
                /\ (initial /\ ~GreedilyInitially) => Share(s, c, p, b)
                /\ ~s.block[b].started}
Begin(s, c, b) ==
    [s EXCEPT !.block[b].started = TRUE, !.block[b].core = c,
              !.core[c].blocks = @ + 1, !.core[c].block = b]
FirstBlock(s, c, blocks) ==
    IF blocks = {} THEN [s |-> s, block |-> -1]
    ELSE LET new == CHOOSE b \in blocks : \A x \in blocks : b <= x
         IN [s |-> Begin(s, c, new), block |-> new]
sim_schedule_thread_block(s, c, initial) ==
    IF FetchesOn(s, c) THEN [s |-> s, block |-> s.core[c].block]
    ELSE FirstBlock(s, c, NextBlocks(s, c, initial))

(* sim_thread_schedule on a GPU core: warps until there is no more room.   *)
StartWarp(s, c, b) ==
    create_trace_info([s EXCEPT !.waiting = @ - 1,
                                !.block[b].queue = Tail(@),
                                !.block[b].dispatched = @ + 1],
                      c, Head(s.block[b].queue))
RECURSIVE ScheduleWarps(_, _, _)
ScheduleOn(s, c, initial) ==
    IF s.core[c].running = MaxThreads THEN s ELSE ScheduleWarps(s, c, initial)
ScheduleFrom(found, c, initial) ==
    IF found.block = -1 THEN found.s
    ELSE IF found.s.block[found.block].queue = <<>> THEN found.s
    ELSE ScheduleOn(StartWarp(found.s, c, found.block), c, initial)
ScheduleWarps(s, c, initial) ==
    ScheduleFrom(sim_schedule_thread_block(s, c, initial), c, initial)

(* sim_thread_schedule on one core: fetch_thread for a CPU core.           *)
ScheduleCore(s, c, initial) ==
    IF s.core[c].running >= MaxThreads THEN s
    ELSE IF Type(c) = "ptx" THEN ScheduleWarps(s, c, initial)
    ELSE IF s.thread_queue = <<>> THEN s
    ELSE create_trace_info([s EXCEPT !.waiting = @ - 1,
                                     !.thread_queue = Tail(@)],
                           c, Head(s.thread_queue))
sim_thread_schedule(s, initial) ==
    FoldLeft(LAMBDA t, c : ScheduleCore(t, c, initial), s,
             [i \in 1 .. Len(CoreType) |-> i - 1])

-----------------------------------------------------------------------------
(* core_c::deallocate_thread_data: m_last_terminated_tid moves over all    *)
(* that have ended.                                                        *)
deallocate_thread_data(core, tid) ==
    LET ended == core.terminated \cup {tid}
        last == CHOOSE n \in core.last .. core.unique :
                    /\ core.last .. n - 1 \subseteq ended
                    /\ n \notin ended
    IN [core EXCEPT !.terminated = ended \ (core.last .. last - 1),
                    !.last = last, !.rob = @ \ {tid}]

(* The end of a warp, and with the last one that is known that of a block. *)
RetireBlock(s, c, p, b) ==
    IF ~Ptx(p) THEN s
    ELSE IF s.block[b].retired + 1 # s.block[b].total
    THEN [s EXCEPT !.block[b].retired = @ + 1]
    ELSE [s EXCEPT !.core[c].blocks = @ - 1,
                   !.block = [x \in DOMAIN @ \ {b} |-> @[x]],
                   !.process[p].blocks = @ \ {b}]

(* terminate_thread.  final_heartbeat schedules a thread in place of this  *)
(* one before its data are given back.                                     *)
FreeThread(s, c, p, tid) ==
    [s EXCEPT !.core[c] = deallocate_thread_data(@, tid),
              !.process[p].terminated = @ + 1,
              !.active = @ - 1]
ScheduleWaiting(s) ==
    IF s.waiting > 0 THEN sim_thread_schedule(s, FALSE) ELSE s
terminate_thread(s, c, tid) ==
    LET p == s.core[c].thread[tid].p
        left == [s EXCEPT !.core[c].running = @ - 1,
                          !.core[c].finished = @ \cup {tid}]
        freed == FreeThread(sim_thread_schedule(left, FALSE), c, p, tid)
    IN ScheduleWaiting(RetireBlock(freed, c, p, s.core[c].thread[tid].block))

(* terminate_process: another kernel, or its cores go back to the pool.    *)
terminate_process(s, p) ==
    LET cores == s.process[p].cores
    IN IF s.process[p].index < Len(Kernels(p))
       THEN setup_process([s EXCEPT !.process[p].blocks = {}], p)
       ELSE [s EXCEPT
                !.pool = @ \o SetToSortSeq(cores, LAMBDA x, y : x < y),
                !.process[p].cores = {}, !.process[p].blocks = {},
                !.core = [c \in Cores |-> IF c \in cores
                                          THEN [@[c] EXCEPT !.appl = 0]
                                          ELSE @[c]]]

(* retire_c::update_stats and repeat_traces.                               *)
update_stats(s, c, p) ==
    LET repeat == s.process[p].repeat
        once == IF RepeatTrace /\ repeat < RepeatTraceN /\ Type(c) = "ptx"
                THEN repeat + 1 = RepeatTraceN
                ELSE repeat = 0
    IN [s EXCEPT !.without_repeat = IF once THEN @ - 1 ELSE @]
repeat_traces(s, p) ==
    IF RepeatTrace /\ s.without_repeat > 0
    THEN create_process(s, p, s.process[p].repeat + 1)
    ELSE [s EXCEPT !.repeat_done = @ \/ s.without_repeat = 0]

(* What retire_c::run_a_cycle does when the last uop of a thread retires.  *)
EndFetch(s, c, tid) ==
    [s EXCEPT !.core[c].fetching = IF tid \in s.core[c].fetch_ended THEN @
                                   ELSE @ - 1,
              !.core[c].fetch_ended = @ \cup {tid}]
EndKernel(s, c, p) ==
    IF s.process[p].terminated # s.process[p].created THEN s
    ELSE sim_thread_schedule(
             IF s.process[p].index < Len(Kernels(p)) THEN terminate_process(s, p)
             ELSE repeat_traces(terminate_process(update_stats(s, c, p), p), p),
             TRUE)
EndThread(s, c, tid) ==
    sim_thread_schedule(
        EndKernel(EndFetch(terminate_thread(s, c, tid), c, tid), c,
                  s.core[c].thread[tid].p), FALSE)

-----------------------------------------------------------------------------
(* macsim_c::macsim_c, init_cores and open_traces.                         *)
NoProcess == [id |-> -1, repeat |-> 0, index |-> 0, start |-> 0,
              block_count |-> 0, created |-> 0, terminated |-> 0,
              cores |-> {}, blocks |-> {}]
macsim_c ==
    [active |-> 0, waiting |-> 0, process_count |-> 0, without_repeat |-> 0,
     repeat_done |-> FALSE, no_rob |-> "", thread_queue |-> <<>>, block |-> <<>>,
     mapper |-> <<>>, process |-> [p \in Appls |-> NoProcess],
     core |-> [c \in Cores |-> NewCore],
     pool |-> SelectSeq([i \in 1 .. Len(CoreType) |-> i - 1],
                        LAMBDA c : Type(c) = "ptx")]
open_traces ==
    FoldLeft(LAMBDA s, p : sim_thread_schedule(create_process(s, p, 0), TRUE),
             macsim_c, [i \in 1 .. Len(Applications) |-> i - 1])

Lcm == CHOOSE n \in 1 .. Divisor["x86"] * Divisor["ptx"] :
           /\ n % Divisor["x86"] = 0 /\ n % Divisor["ptx"] = 0
           /\ \A m \in 1 .. n - 1 :
                  m % Divisor["x86"] # 0 \/ m % Divisor["ptx"] # 0

Init ==
    /\ sim = open_traces
    /\ cycle = [at |-> "begin", k |-> 0, pivot |-> 0, core0 |-> 0, clock |-> 0,
                check |-> {}, ran |-> TRUE]
    /\ over = FALSE

(* run_a_cycle: the end of the simulation is looked at when both kinds of  *)
(* cores have had a cycle; core_cycle[0] counts modulo the cores.          *)
Checked == cycle.check = {"x86", "ptx"}
return_0 ==
    /\ cycle.at = "begin" /\ ~over
    /\ Checked
    /\ sim.active = 0 \/ sim.repeat_done \/ ~cycle.ran
    /\ over' = TRUE
    /\ UNCHANGED <<sim, cycle>>

begin_cycle ==
    /\ cycle.at = "begin" /\ ~over
    /\ ~(Checked /\ (sim.active = 0 \/ sim.repeat_done \/ ~cycle.ran))
    /\ cycle' = [cycle EXCEPT
                     !.at = "core", !.k = 0,
                     !.pivot = (cycle.core0 + 1) % Len(CoreType),
                     !.check = IF Checked THEN {} ELSE @,
                     !.ran = IF Checked THEN FALSE ELSE @]
    /\ UNCHANGED <<sim, over>>

TheCore == (cycle.k + cycle.pivot) % Len(CoreType)
Ticks(t) == cycle.clock % Divisor[t] = 0
Counted(r) ==
    IF TheCore = 0 /\ Ticks(Type(0))
    THEN [r EXCEPT !.core0 = (@ + 1) % Len(CoreType)] ELSE r
Drained(core) == core.running = 0 /\ core.unique >= 1 /\ sim.waiting = 0
Ending(core) == core.sim_end \/ Drained(core)

(* A core that has no cycle now, has not started or has ended.             *)
skip_core ==
    /\ cycle.at = "core" /\ cycle.k < Len(CoreType)
    /\ LET c == TheCore
           core == sim.core[c]
       IN /\ ~Ticks(Type(c)) \/ ~core.started \/ Ending(core)
          /\ sim' = [sim EXCEPT !.core[c].sim_end =
                         @ \/ (Ticks(Type(c)) /\ core.started /\ Drained(core))]
    /\ cycle' = Counted([cycle EXCEPT !.k = @ + 1])
    /\ UNCHANGED over

run_core ==
    /\ cycle.at = "core" /\ cycle.k < Len(CoreType)
    /\ LET core == sim.core[TheCore]
       IN Ticks(Type(TheCore)) /\ core.started /\ ~Ending(core)
    /\ cycle' = Counted([cycle EXCEPT !.at = "run", !.ran = TRUE])
    /\ UNCHANGED <<sim, over>>

(* An ASSERT that failed on the way ends the program there.                *)
Asserted(s) == IF s.no_rob = "" THEN s ELSE [sim EXCEPT !.no_rob = s.no_rob]

(* The frontend reads a record of thread tid and sends its uop; after      *)
(* KNOB_MAX_INSTS of them it sends one more, as the last.  Reading on in   *)
(* thread 0 makes the other threads: the start of the first of them that   *)
(* is due decides for all (no_created_thread stays as it is).              *)
RECURSIVE SpawnAll(_, _)
SpawnAll(s, p) ==
    IF s.process[p].created >= Len(Threads(s, p)) THEN s
    ELSE SpawnAll(sim_thread_schedule(
             create_thread_node([s EXCEPT !.process[p].created = @ + 1],
                                p, s.process[p].created), FALSE), p)
Spawn(s, p, read) ==
    LET n == s.process[p].created
    IN IF n < Len(Threads(s, p)) /\ Threads(s, p)[n + 1].start \in {0, read}
       THEN SpawnAll(s, p) ELSE s

read_trace(tid) ==
    LET c == TheCore
        thread == sim.core[c].thread[tid]
        last == \/ thread.read + 1 = Threads(sim, thread.p)[thread.tid + 1].length
                \/ thread.read = MaxInsts
        s == [sim EXCEPT
                 !.core[c].thread[tid].read = @ + 1,
                 !.core[c].uops[tid] = Append(@, last),
                 !.core[c].fetch_ended = IF last THEN @ \cup {tid} ELSE @,
                 !.core[c].fetching = IF last THEN @ - 1 ELSE @]
    IN /\ cycle.at = "run"
       /\ tid \in DOMAIN sim.core[c].thread
       /\ tid \notin sim.core[c].fetch_ended
       /\ sim' = IF thread.tid = 0 /\ thread.read < MaxInsts
                 THEN Asserted(Spawn(s, thread.p, thread.read + 1)) ELSE s
       /\ UNCHANGED <<cycle, over>>

(* The oldest uop of thread tid retires.  The uops that are in the core    *)
(* when its thread ends at KNOB_MAX_INSTS retire as well.                  *)
retire(tid) ==
    LET c == TheCore
        core == sim.core[c]
    IN /\ cycle.at = "run"
       /\ tid \in DOMAIN core.uops /\ core.uops[tid] # <<>>
       /\ LET end == \/ Head(core.uops[tid])
                     \/ core.thread[tid].retired + 1 >= MaxInsts
              s == [sim EXCEPT !.core[c].uops[tid] = Tail(@),
                               !.core[c].thread[tid].retired = @ + 1,
                               !.core[c].reach_end = IF end THEN @ + 1 ELSE @]
          IN /\ RepeatTrace /\ end => sim.process_count < MaxProcesses
             /\ sim' = IF end /\ tid \notin core.finished
                       THEN Asserted(EndThread(s, c, tid)) ELSE s
       /\ UNCHANGED <<cycle, over>>

(* The rest of run_a_cycle for a core that ran.                            *)
end_core ==
    /\ cycle.at = "run"
    /\ sim' = [sim EXCEPT !.core[TheCore].sim_end =
                   sim.core[TheCore].reach_end = sim.core[TheCore].unique]
    /\ cycle' = [cycle EXCEPT !.at = "core", !.k = @ + 1]
    /\ UNCHANGED over

end_cycle ==
    /\ cycle.at = "core" /\ cycle.k = Len(CoreType)
    /\ cycle' = [cycle EXCEPT
                     !.at = "begin",
                     !.check = @ \cup {t \in {"x86", "ptx"} : Ticks(t)},
                     !.clock = (@ + 1) % Lcm]
    /\ UNCHANGED <<sim, over>>

Aborted == sim.no_rob # ""
Done == (over \/ Aborted) /\ UNCHANGED managerVars

Tids == UNION {DOMAIN sim.core[c].uops : c \in Cores}
run_a_cycle ==
    return_0 \/ begin_cycle \/ skip_core \/ run_core \/ end_core \/ end_cycle
Next ==
    \/ ~Aborted /\ run_a_cycle
    \/ ~Aborted /\ \E tid \in Tids : read_trace(tid) \/ retire(tid)
    \/ Done

Spec == Init /\ [][Next]_managerVars

-----------------------------------------------------------------------------
Running(c) == DOMAIN sim.core[c].thread \ sim.core[c].finished
Blocks == DOMAIN sim.block

(* Every counter that an end or a start is decided by counts what is       *)
(* there, although scheduling happens inside of the end of a thread.       *)
CountersMatch ==
    /\ sim.waiting = Len(sim.thread_queue)
                     + FoldLeft(LAMBDA n, b : n + Len(sim.block[b].queue), 0,
                                SetToSeq(Blocks))
    /\ sim.active = sim.waiting
                    + FoldLeft(LAMBDA n, c : n + Cardinality(Running(c)), 0,
                               SetToSeq(Cores))
    /\ \A c \in Cores :
           /\ sim.core[c].running = Cardinality(Running(c))
           /\ sim.core[c].running <= MaxThreads
           /\ sim.core[c].fetching =
                  Cardinality(DOMAIN sim.core[c].thread
                              \ sim.core[c].fetch_ended)
           /\ sim.core[c].blocks = Cardinality({b \in Blocks :
                                                   sim.block[b].core = c})

(* The warps of a block run on the core that began it, and none of them is *)
(* left behind: as long as one waits that core still fetches from it.      *)
BlockOnOneCore ==
    /\ \A c \in Cores : \A t \in Running(c) :
           LET b == sim.core[c].thread[t].block
           IN Type(c) = "ptx" => b \in Blocks /\ sim.block[b].core = c
    /\ \A b \in Blocks :
           sim.block[b].started /\ sim.block[b].queue # <<>>
           => sim.core[sim.block[b].core].block = b

(* What is looked at for the heartbeat, the fetch and the barrier, from    *)
(* m_last_terminated_tid on, are all the threads that run, and the first   *)
(* of them has not ended.                                                  *)
WindowCoversRunning ==
    \A c \in Cores :
        LET core == sim.core[c]
        IN /\ Running(c) \subseteq core.last .. core.unique - 1
           /\ core.last < core.unique => core.last \in Running(c)

(* ASSERT(m_free_list.size()) (rob_smc.cc, reserve_rob).  A warp that is   *)
(* started finds a reorder buffer among those of the warps that run.  The  *)
(* simulator aborts where it is started in the place of one that ends, as  *)
(* that one still holds its buffer.                                        *)
RobForEveryWarp == sim.no_rob # "running"

(* A kernel ends when all of its threads have run, not only those that     *)
(* thread 0 has made so far.                                               *)
KernelsRunToTheEnd ==
    \A p \in Appls :
        LET old == sim.process[p]
            new == sim'.process[p]
        IN (\/ new.terminated = new.created
            \/ <<new.index, new.id>> # <<old.index, old.id>>)
           => old.created = Len(Threads(sim, p))

(* "when KNOB_MAX_INSTS is set, execute each thread for KNOB_MAX_INSTS     *)
(* instructions": run_a_cycle returns 0 when every thread has ended, or    *)
(* when every application has ended once.                                  *)
EndsWhenDone == over => sim.active = 0 \/ sim.repeat_done

=============================================================================
