----------------------------- MODULE MacSimParts -----------------------------
(***************************************************************************)
(* The parts of MacSim, the processor simulator that drives MCsim          *)
(* (IntegrationWithMacSim/), as one specification.  Each is an instance of *)
(* its module, with what it calls in the others left to chance, and one of *)
(* them runs at a time: part.                                              *)
(***************************************************************************)
EXTENDS Integers, Sequences, FiniteSets, SequencesExt, TLC

CONSTANTS
    Parts,                       (* the parts to choose from               *)
    Mshr2, Mshr3, Wbs            (* the request entries of the hierarchy   *)

VARIABLES
    part,
    cycle,             (* of SetCache and of ProcessManager                *)
    stage,             (* of Router and of Pipeline                        *)
    (* SetCache *)
    m_entry, num, used,
    (* MemoryHierarchy *)
    req, q, cache, noc, dram, owed,
    (* Router *)
    turn, slot, clock, m_cycle, m_injection_buffer, m_req_buffer, input, output,
    m_route, m_route_fixed, m_output_vc_id, m_output_vc_avail, m_credit,
    returned, underway, m_link_avail, stamp,
    (* DRAMController *)
    phase, info, bank, channel, arrived, m_tmp_output_buffer, m_output_buffer,
    m_total_req, completed, m_starvation_cycle, unset,
    (* Pipeline *)
    trace, at, uop, pool, fetch, m_q_frontend, m_q_iaq, map, rob, sched, retired,
    (* ProcessManager *)
    sim, over,
    (* TraceReader *)
    program, thread, htable, sent, failed,
    (* GPUCore *)
    kernel, m_unique_scheduled_thread_num, m_thread_to_rob_map, m_free_list,
    warp, m_thread_robs, m_frontend_q, m_gpu_alloc_q, schlist, sync,
    m_sync_done, arbiter, step,
    (* Prefetcher *)
    table, newest, m_l2req_queue, m_l2req_queue_req_pos, m_l2req_queue_send_pos

cacheVars == <<m_entry, num, used>>
hierarchyVars == <<req, q, cache, noc, dram, owed>>
networkVars == <<turn, slot, clock, m_cycle, m_injection_buffer, m_req_buffer, input,
                 output, m_route, m_route_fixed, m_output_vc_id,
                 m_output_vc_avail, m_credit, returned, underway,
                 m_link_avail, stamp>>
dramVars == <<phase, info, bank, channel, arrived, m_tmp_output_buffer,
              m_output_buffer, m_total_req, completed, m_starvation_cycle, unset>>
pipelineVars == <<trace, at, uop, pool, fetch, m_q_frontend, m_q_iaq, map, rob,
                  sched, retired>>
managerVars == <<sim, over>>
readerVars == <<program, thread, htable, sent, failed>>
coreVars == <<kernel, m_unique_scheduled_thread_num, m_thread_to_rob_map,
              m_free_list, warp, m_thread_robs, m_frontend_q, m_gpu_alloc_q,
              schlist, sync, m_sync_done, arbiter, step>>
prefVars == <<table, newest, m_l2req_queue, m_l2req_queue_req_pos,
              m_l2req_queue_send_pos>>
memoryVars == <<cacheVars, hierarchyVars, networkVars, dramVars>>
processorVars == <<pipelineVars, managerVars, readerVars, coreVars, prefVars>>
vars == <<part, cycle, stage, memoryVars, processorVars>>

-----------------------------------------------------------------------------
(* A tile of a last-level cache of three tiles, on the network and with    *)
(* another memory type; and a GPU's data cache with the pseudo LRU, whose  *)
(* lines stores take out.                                                  *)
tile == INSTANCE SetCache WITH
    Addresses <- {0, 1, 8, 12, 14, 24}, m_line_size <- 2, m_num_sets <- 2,
    m_assoc <- 2, m_num_tiles <- 3, m_interleave_factor <- 4, Tile <- 0,
    Network <- TRUE, PseudoLRU <- FALSE, WriteEvict <- FALSE, MaxCycle <- 3,
    MaxCount <- 8
banked == INSTANCE SetCache WITH
    Addresses <- {0, 3, 8, 24}, m_line_size <- 2, m_num_sets <- 2,
    m_assoc <- 2, m_num_tiles <- 3, m_interleave_factor <- 4, Tile <- 0,
    Network <- FALSE, PseudoLRU <- FALSE, WriteEvict <- FALSE, MaxCycle <- 2,
    MaxCount <- 3
gpu == INSTANCE SetCache WITH
    Addresses <- {0, 2, 5}, m_line_size <- 2, m_num_sets <- 1,
    m_assoc <- 2, m_num_tiles <- 1, m_interleave_factor <- 4, Tile <- 0,
    Network <- FALSE, PseudoLRU <- TRUE, WriteEvict <- TRUE, MaxCycle <- 2, MaxCount <- 3

(* One core on caches of one line each: its stores, through coupled        *)
(* caches, also with MCsim for memory; its loads, fetches and prefetches;  *)
(* its stores, with decoupled caches; and with the L2 cache on the network.*)
AllHome0 == [a \in {"a", "b"} |-> 0]
OneWay == [l \in 1 .. 3 |-> 1]
stores == INSTANCE MemoryHierarchy WITH
    Topology <- "l3_coupled_network", Types <- {"DSTORE"}, Mshr <- {0},
    Cores <- {0}, Slices <- {0}, Lines <- {"a", "b"}, Home <- AllHome0,
    QueueSize <- 3, OutSize <- 1, DRAMSize <- 1, Ways <- OneWay,
    MCsim <- FALSE
merge == INSTANCE MemoryHierarchy WITH
    Topology <- "l3_decoupled_network", Types <- {"DFETCH", "IFETCH", "DPRF"},
    Mshr <- Mshr3,
    Cores <- {0}, Slices <- {0}, Lines <- {"a", "b"}, Home <- AllHome0,
    QueueSize <- 4, OutSize <- 1, DRAMSize <- 1, Ways <- OneWay,
    MCsim <- FALSE
misses == INSTANCE MemoryHierarchy WITH
    Topology <- "l3_decoupled_network", Types <- {"DSTORE"},
    Mshr <- Mshr2, Wbs <- {1},
    Cores <- {0}, Slices <- {0}, Lines <- {"a", "b"}, Home <- AllHome0,
    QueueSize <- 3, OutSize <- 1, DRAMSize <- 1, Ways <- OneWay,
    MCsim <- FALSE
external == INSTANCE MemoryHierarchy WITH
    Topology <- "l3_coupled_network", Types <- {"DSTORE"}, Mshr <- {0},
    Wbs <- {1},
    Cores <- {0}, Slices <- {0}, Lines <- {"a", "b"}, Home <- AllHome0,
    QueueSize <- 2, OutSize <- 1, DRAMSize <- 2, Ways <- OneWay,
    MCsim <- TRUE
network == INSTANCE MemoryHierarchy WITH
    Topology <- "l2_decoupled_network", Types <- {"DSTORE"}, Mshr <- Mshr2,
    Cores <- {0}, Slices <- {0}, Lines <- {"a", "b"}, Home <- AllHome0,
    QueueSize <- 3, OutSize <- 1, DRAMSize <- 1, Ways <- OneWay,
    MCsim <- FALSE

(* The network: a ring with packets that wait for each other's channels,   *)
(* one of which crosses the dateline, with the clocks as they may be; and  *)
(* a mesh.                                                                 *)
Packet(src, dst, len) == [src |-> src, dst |-> dst, len |-> len]
RingPackets == <<Packet(3, 1, 2), Packet(0, 1, 2)>>
MeshPackets == <<Packet(0, 3, 2)>>
ring == INSTANCE Router WITH
    Topology <- "ring", NumRouters <- 4, Width <- 2, m_num_vc <- 2,
    m_buffer_max_size <- 2, m_injection_buffer_max_size <- 1,
    m_link_latency <- 1, Messages <- Range(RingPackets),
    Clocks <- {[r \in 0 .. 3 |-> 0], [r \in 0 .. 3 |-> IF r = 0 THEN 1 ELSE 0]}
mesh == INSTANCE Router WITH
    Topology <- "mesh", NumRouters <- 4, Width <- 2, m_num_vc <- 2,
    m_buffer_max_size <- 2, m_injection_buffer_max_size <- 1,
    m_link_latency <- 1, Messages <- Range(MeshPackets),
    Clocks <- {[r \in 0 .. 3 |-> 0]}

(* MacSim's own memory controller: one bank with prefetches, one with what *)
(* the constructor leaves uninitialised, two banks with write-backs; and   *)
(* one bank for what must be answered.                                     *)
frfcfs == INSTANCE DRAMController WITH
    Policy <- "FRFCFS", Requests <- Mshr3, Addresses <- {0, 1, 2},
    Types <- {"DFETCH", "DPRF"}, Size <- 2, m_num_channel <- 1,
    m_num_bank_per_channel <- 1, BufferSize <- 2, RowSize <- 2, NumMC <- 1,
    XorShift <- 0, Merge <- TRUE, m_precharge_latency <- 1,
    m_activate_latency <- 1, m_column_latency <- 1, m_bus_width <- 2,
    AdditionalLatency <- 1, StarvationLimit <- 12, Garbage <- {0}
leftover == INSTANCE DRAMController WITH
    Policy <- "FRFCFS", Requests <- Mshr2, Addresses <- {0, 1},
    Types <- {"DFETCH"}, Size <- 2, m_num_channel <- 1,
    m_num_bank_per_channel <- 1, BufferSize <- 2, RowSize <- 1, NumMC <- 1,
    XorShift <- 0, Merge <- FALSE, m_precharge_latency <- 1,
    m_activate_latency <- 1, m_column_latency <- 1, m_bus_width <- 2,
    AdditionalLatency <- 0, StarvationLimit <- 12, Garbage <- {0, 12}
fcfs == INSTANCE DRAMController WITH
    Policy <- "FCFS", Requests <- Mshr2, Addresses <- {0, 3, 8},
    Types <- {"DFETCH", "WB"}, Size <- 3, m_num_channel <- 1,
    m_num_bank_per_channel <- 2, BufferSize <- 3, RowSize <- 3, NumMC <- 1,
    XorShift <- 8, Merge <- FALSE, m_precharge_latency <- 1,
    m_activate_latency <- 1, m_column_latency <- 1, m_bus_width <- 2,
    AdditionalLatency <- 0, StarvationLimit <- 12, Garbage <- {0}
requests == INSTANCE DRAMController WITH
    Policy <- "FRFCFS", Requests <- Mshr2, Addresses <- {0, 1, 2},
    Types <- {"DFETCH", "DPRF"}, Size <- 2, m_num_channel <- 1,
    m_num_bank_per_channel <- 1, BufferSize <- 2, RowSize <- 2, NumMC <- 1,
    XorShift <- 0, Merge <- TRUE, m_precharge_latency <- 1,
    m_activate_latency <- 1, m_column_latency <- 1, m_bus_width <- 2,
    AdditionalLatency <- 1, StarvationLimit <- 12, Garbage <- {0}

(* The stages of an x86 core, out of order and in order, on every trace of *)
(* a few uops that depend on each other through a register and two bytes.  *)
Uop(kind, src, dst, addr, size, lat) ==
    [kind |-> kind, src |-> src, dst |-> dst, addr |-> addr, size |-> size,
     lat |-> lat]
Uops == {Uop("int", {1}, {1}, 0, 1, 2), Uop("st", {1}, {}, 0, 2, 1),
         Uop("ld", {}, {1}, 1, 1, 1), Uop("ld", {1}, {}, 1, 1, 1),
         Uop("br", {1}, {}, 0, 1, 1)}
ooo == INSTANCE Pipeline WITH
    Schedule <- "ooo", Alphabet <- Uops, TraceLen <- 3, Regs <- {1},
    Quads <- {0}, QuadSize <- 2, m_knob_width <- 2, m_knob_fetch_width <- 1,
    FeSize <- 2, FeLatency <- 0, RobSize <- 2, NumSB <- 1, NumLB <- 1,
    NumInt <- 2, NumFp <- 1, IaqSize <- 2, IaqLatency <- 0,
    MaxSchedSize <- 3, m_sched_rate <- 2, m_sched_size <- 2, m_max_port <- 1,
    ExecRetireLatency <- 1, RecoveryCycles <- 0, OOOStores <- TRUE,
    MemLatencies <- {-1, 0, 1}, Uninitialised <- {FALSE}
io == INSTANCE Pipeline WITH
    Schedule <- "io", Alphabet <- Uops \ {Uop("br", {1}, {}, 0, 1, 1)},
    TraceLen <- 3, Regs <- {1},
    Quads <- {0}, QuadSize <- 2, m_knob_width <- 2, m_knob_fetch_width <- 1,
    FeSize <- 2, FeLatency <- 0, RobSize <- 2, NumSB <- 1, NumLB <- 1,
    NumInt <- 2, NumFp <- 1, IaqSize <- 2, IaqLatency <- 0,
    MaxSchedSize <- 3, m_sched_rate <- 2, m_sched_size <- 2, m_max_port <- 1,
    ExecRetireLatency <- 1, RecoveryCycles <- 0, OOOStores <- FALSE,
    MemLatencies <- {-1, 0, 1}, Uninitialised <- BOOLEAN
stall == INSTANCE Pipeline WITH
    Schedule <- "ooo", Alphabet <- {u \in Uops : u.kind # "ld"},
    TraceLen <- 3, Regs <- {1},
    Quads <- {0}, QuadSize <- 2, m_knob_width <- 2, m_knob_fetch_width <- 1,
    FeSize <- 2, FeLatency <- 0, RobSize <- 2, NumSB <- 1, NumLB <- 1,
    NumInt <- 2, NumFp <- 1, IaqSize <- 2, IaqLatency <- 0,
    MaxSchedSize <- 3, m_sched_rate <- 2, m_sched_size <- 2, m_max_port <- 1,
    ExecRetireLatency <- 1, RecoveryCycles <- 0, OOOStores <- TRUE,
    MemLatencies <- {-1, 1}, Uninitialised <- {FALSE}

(* A GPU application of two kernels and an x86 one of three threads on     *)
(* three cores; one of each on two; and a block with more warps than the   *)
(* core has reorder buffers.                                               *)
Thread(block, start, length) ==
    [block |-> block, start |-> start, length |-> length]
TwoBlocks == [max_block |-> 1,
              threads |-> <<Thread(0, 0, 1), Thread(0, 0, 1),
                            Thread(1, 0, 1), Thread(1, 0, 1)>>]
ThreeInABlock == [max_block |-> 1,
                  threads |-> <<Thread(0, 0, 1), Thread(0, 0, 1), Thread(0, 0, 1)>>]
OneBlock == [max_block |-> 1, threads |-> <<Thread(0, 0, 1)>>]
X86(threads) ==
    [ptx |-> FALSE, kernels |-> <<[max_block |-> 0, threads |-> threads]>>]
processes == INSTANCE ProcessManager WITH
    CoreType <- <<"x86", "ptx", "ptx">>, MaxThreads <- 2,
    Applications <- <<[ptx |-> TRUE, kernels |-> <<TwoBlocks, OneBlock>>],
                      X86(<<Thread(0, 0, 2), Thread(0, 1, 1), Thread(0, 1, 1)>>)>>,
    MaxCorePerAppl <- 0, GreedilyInitially <- FALSE, RepeatTrace <- FALSE,
    RepeatTraceN <- 0, MaxInsts <- 9, GpuSched <- TRUE, MaxProcesses <- 4,
    Divisor <- [x86 |-> 1, ptx |-> 2]
crowded == INSTANCE ProcessManager WITH
    CoreType <- <<"ptx">>, MaxThreads <- 2,
    Applications <- <<[ptx |-> TRUE, kernels |-> <<OneBlock, ThreeInABlock>>]>>,
    MaxCorePerAppl <- 0, GreedilyInitially <- FALSE, RepeatTrace <- FALSE,
    RepeatTraceN <- 0, MaxInsts <- 9, GpuSched <- TRUE, MaxProcesses <- 4,
    Divisor <- [x86 |-> 1, ptx |-> 1]
repeated == INSTANCE ProcessManager WITH
    CoreType <- <<"x86", "ptx">>, MaxThreads <- 1,
    Applications <- <<[ptx |-> TRUE, kernels |-> <<TwoBlocks>>],
                      X86(<<Thread(0, 0, 2), Thread(0, 1, 2)>>)>>,
    MaxCorePerAppl <- 1, GreedilyInitially <- TRUE, RepeatTrace <- TRUE,
    RepeatTraceN <- 0, MaxInsts <- 9, GpuSched <- FALSE, MaxProcesses <- 4,
    Divisor <- [x86 |-> 1, ptx |-> 1]
ending == INSTANCE ProcessManager WITH
    CoreType <- <<"x86", "ptx">>, MaxThreads <- 1,
    Applications <- <<[ptx |-> TRUE, kernels |-> <<TwoBlocks>>],
                      X86(<<Thread(0, 0, 2), Thread(0, 1, 2)>>)>>,
    MaxCorePerAppl <- 1, GreedilyInitially <- TRUE, RepeatTrace <- FALSE,
    RepeatTraceN <- 0, MaxInsts <- 9, GpuSched <- FALSE, MaxProcesses <- 4,
    Divisor <- [x86 |-> 1, ptx |-> 1]

(* Every trace of a few instructions, of an x86 thread and of a warp whose *)
(* memory instructions are groups of records to be coalesced.              *)
Instr(op, ld, st, cf, src, dst) ==
    [op |-> op, fp |-> FALSE, ld |-> ld, st |-> st, cf |-> cf, src |-> src,
     dst |-> dst]
Rec(pc, imm, ld1, ld2, st, rsize, wsize) ==
    [pc |-> pc, imm |-> imm, ld1 |-> ld1, ld2 |-> ld2, st |-> st,
     rsize |-> rsize, wsize |-> wsize, dir |-> FALSE]
X86Code ==
    << Instr("BINARY", 0, FALSE, "NOT_CF", <<1>>, <<2>>),
       Instr("LOGICAL", 1, FALSE, "NOT_CF", <<1>>, <<2>>),
       Instr("BINARY", 1, TRUE, "NOT_CF", <<1>>, <<2>>),
       Instr("RET", 1, FALSE, "CF_RET", <<1>>, <<>>),
       Instr("PUSH", 2, TRUE, "NOT_CF", <<1>>, <<>>),
       Instr("SYSCALL", 0, FALSE, "NOT_CF", <<>>, <<>>),
       Instr("DATAXFER", 1, TRUE, "NOT_CF", <<1>>, <<2>>) >>
X86Instructions ==
    {<<Rec(1, FALSE, 0, 0, 0, 0, 0)>>, <<Rec(2, FALSE, 5, 0, 0, 2, 0)>>,
     <<Rec(3, FALSE, 5, 0, 9, 2, 2)>>, <<Rec(4, FALSE, 3, 0, 0, 2, 0)>>,
     <<Rec(5, FALSE, 3, 6, 9, 2, 1)>>, <<Rec(6, FALSE, 0, 0, 0, 0, 0)>>,
     <<Rec(7, FALSE, 5, 0, 9, 1, 2)>>}
x86 == INSTANCE TraceReader WITH
    Ptx <- FALSE, Code <- X86Code,
    Programs <- UNION {[1 .. n -> X86Instructions] : n \in 1 .. 4},
    BufferSize <- 2, MaxInsts <- 3, MaxPup <- 4, RepMax <- 2, LineSize <- 4,
    CommonCache <- FALSE, NewCoalescing <- FALSE
PtxCode ==
    << Instr("GPU", 0, FALSE, "NOT_CF", <<1>>, <<2>>),
       Instr("TR_MEM_LD_GM", 1, FALSE, "NOT_CF", <<1>>, <<2>>),
       Instr("TR_MEM_ST_SM", 0, TRUE, "NOT_CF", <<1>>, <<>>),
       Instr("SEMAPHORE", 0, FALSE, "NOT_CF", <<>>, <<>>),
       Instr("TR_DATA_XFER_GM", 1, TRUE, "NOT_CF", <<1>>, <<2>>) >>
Exit == <<Rec(1, FALSE, 0, 0, 0, 0, 0)>>
PtxInstructions ==
    {Exit, <<Rec(2, FALSE, 2, 0, 0, 5, 0)>>,
     <<Rec(2, TRUE, 1, 0, 0, 1, 0), Rec(2, TRUE, 2, 0, 0, 3, 0)>>,
     <<Rec(2, TRUE, 1, 0, 0, 1, 0), Rec(2, FALSE, 2, 0, 0, 1, 0),
       Rec(2, TRUE, 9, 0, 0, 1, 0)>>,
     <<Rec(3, TRUE, 0, 0, 1, 0, 1), Rec(3, TRUE, 0, 0, 12, 0, 1)>>,
     <<Rec(4, FALSE, 0, 0, 0, 0, 0)>>,
     <<Rec(5, FALSE, 2, 0, 2, 1, 1)>>,
     <<Rec(5, TRUE, 1, 0, 1, 1, 1), Rec(5, TRUE, 9, 0, 9, 1, 1)>>}
ptx == INSTANCE TraceReader WITH
    Ptx <- TRUE, Code <- PtxCode,
    Programs <- {Append(p, Exit) :
                     p \in UNION {[1 .. n -> PtxInstructions] : n \in 0 .. 4}},
    BufferSize <- 3, MaxInsts <- 9, MaxPup <- 4, RepMax <- 2, LineSize <- 4,
    CommonCache <- TRUE, NewCoalescing <- TRUE

(* The stages of a GPU core: two blocks, of two warps and of one, on two   *)
(* reorder buffers; one block of two warps, of which the first meets a     *)
(* barrier before it makes the second; and one where it does not.          *)
WarpUop(kind, src, acc, lat) ==
    [kind |-> kind, src |-> src, acc |-> acc, lat |-> lat]
ThreeWarps == [w \in 0 .. 2 |-> w \div 2]
TwoWarps == [w \in 0 .. 1 |-> 0]
warps == INSTANCE GPUCore WITH
    NumWarps <- 3, BlockOf <- ThreeWarps, MadeAt <- 2,
    Kernels <- {<<WarpUop("ld", {}, 1, 1), WarpUop("bar", {}, 0, 1),
                  WarpUop("int", {1}, 0, 2)>>,
                <<WarpUop("br", {}, 0, 1), WarpUop("bar", {}, 0, 1),
                  WarpUop("bar", {}, 0, 1)>>},
    MaxThreads <- 2, m_knob_width <- 1, m_knob_fetch_width <- 1, FeSize <- 2,
    AllocSize <- 2, RobSize <- 2, Registers <- 1, SchlistSize <- 4,
    m_sched_rate <- 1, m_sched_size <- 3, m_max_port <- 1,
    NumWarpScheduler <- 2, FetchRatio <- 1, ScheduleRatio <- 2,
    NoFetchBr <- TRUE, OnlyLoadReady <- TRUE, Latencies <- {1}
late == INSTANCE GPUCore WITH
    NumWarps <- 2, BlockOf <- TwoWarps, MadeAt <- 2,
    Kernels <- {<<WarpUop("bar", {}, 0, 1), WarpUop("bar", {}, 0, 1),
                  WarpUop("int", {}, 0, 1)>>},
    MaxThreads <- 2, m_knob_width <- 1, m_knob_fetch_width <- 1, FeSize <- 2,
    AllocSize <- 2, RobSize <- 2, Registers <- 1, SchlistSize <- 4,
    m_sched_rate <- 1, m_sched_size <- 3, m_max_port <- 1,
    NumWarpScheduler <- 2, FetchRatio <- 1, ScheduleRatio <- 1,
    NoFetchBr <- TRUE, OnlyLoadReady <- FALSE, Latencies <- {1}
barrier == INSTANCE GPUCore WITH
    NumWarps <- 2, BlockOf <- TwoWarps, MadeAt <- 2,
    Kernels <- {<<WarpUop("ld", {}, 1, 1), WarpUop("bar", {}, 0, 1)>>},
    MaxThreads <- 2, m_knob_width <- 1, m_knob_fetch_width <- 1, FeSize <- 2,
    AllocSize <- 2, RobSize <- 2, Registers <- 1, SchlistSize <- 4,
    m_sched_rate <- 1, m_sched_size <- 3, m_max_port <- 1,
    NumWarpScheduler <- 2, FetchRatio <- 1, ScheduleRatio <- 1,
    NoFetchBr <- TRUE, OnlyLoadReady <- FALSE, Latencies <- {1}

(* The stride prefetcher on three lines of one region.                     *)
strides == INSTANCE Prefetcher WITH
    Lines <- {1, 2, 3}, RegionLines <- 3, TableN <- 2, SingleMode <- FALSE,
    SingleThresh <- 2, MultiThresh <- 1, StartDistance <- 1, Degree <- 2,
    Distance <- 2, Size <- 2, ScheduleNum <- 1, Garbage <- {0}

ASSUME PartsAssumption ==
    /\ tile!CacheAssumption /\ banked!CacheAssumption /\ gpu!CacheAssumption
    /\ stores!HierarchyAssumption /\ stores!CoupledAssumption
    /\ merge!HierarchyAssumption
    /\ misses!HierarchyAssumption /\ external!HierarchyAssumption
    /\ network!HierarchyAssumption
    /\ ring!RouterAssumption /\ mesh!RouterAssumption
    /\ frfcfs!DRAMAssumption /\ leftover!DRAMAssumption /\ fcfs!DRAMAssumption
    /\ requests!DRAMAssumption
    /\ ooo!PipelineAssumption /\ io!PipelineAssumption /\ stall!PipelineAssumption
    /\ processes!ManagerAssumption /\ crowded!ManagerAssumption
    /\ repeated!ManagerAssumption
    /\ ending!ManagerAssumption
    /\ x86!ReaderAssumption /\ ptx!ReaderAssumption
    /\ warps!CoreAssumption /\ late!CoreAssumption /\ barrier!CoreAssumption
    /\ strides!PrefetcherAssumption

CacheParts == {"tile", "banked", "gpu"}
HierarchyParts == {"stores", "merge", "misses", "external", "network"}
RouterParts == {"ring", "mesh"}
DRAMParts == {"frfcfs", "leftover", "fcfs", "requests"}
PipelineParts == {"ooo", "io", "stall"}
ManagerParts == {"processes", "crowded", "repeated", "ending"}
ReaderParts == {"x86", "ptx"}
CoreParts == {"warps", "late", "barrier"}
PrefetcherParts == {"strides"}

Symmetry == Permutations(Mshr2) \cup Permutations(Mshr3)

-----------------------------------------------------------------------------
(* The variables of the other parts keep a value.                          *)
Unused ==
    /\ part \notin CacheParts \cup ManagerParts => cycle = 0
    /\ part \notin RouterParts \cup PipelineParts => stage = ""
    /\ part \notin CacheParts =>
           m_entry = 0 /\ num = 0 /\ used = 0
    /\ part \notin HierarchyParts =>
           req = 0 /\ q = 0 /\ cache = 0 /\ noc = 0 /\ dram = 0 /\ owed = 0
    /\ part \notin RouterParts =>
           /\ turn = 0 /\ slot = 0 /\ clock = 0 /\ m_cycle = 0
           /\ m_injection_buffer = 0
           /\ m_req_buffer = 0 /\ input = 0 /\ output = 0 /\ m_route = 0
           /\ m_route_fixed = 0 /\ m_output_vc_id = 0 /\ m_output_vc_avail = 0
           /\ m_credit = 0 /\ returned = 0 /\ underway = 0
           /\ m_link_avail = 0 /\ stamp = 0
    /\ part \notin DRAMParts =>
           /\ phase = 0 /\ info = 0 /\ bank = 0 /\ channel = 0 /\ arrived = 0
           /\ m_tmp_output_buffer = 0 /\ m_output_buffer = 0
           /\ m_total_req = 0 /\ completed = 0 /\ m_starvation_cycle = 0
           /\ unset = 0
    /\ part \notin PipelineParts =>
           /\ trace = 0 /\ at = 0 /\ uop = 0 /\ pool = 0 /\ fetch = 0
           /\ m_q_frontend = 0 /\ m_q_iaq = 0 /\ map = 0 /\ rob = 0
           /\ sched = 0 /\ retired = 0
    /\ part \notin ManagerParts => sim = 0 /\ over = FALSE
    /\ part \notin ReaderParts =>
           program = 0 /\ thread = 0 /\ htable = 0 /\ sent = 0 /\ failed = 0
    /\ part \notin CoreParts =>
           /\ kernel = 0 /\ m_unique_scheduled_thread_num = 0
           /\ m_thread_to_rob_map = 0 /\ m_free_list = 0 /\ warp = 0
           /\ m_thread_robs = 0 /\ m_frontend_q = 0 /\ m_gpu_alloc_q = 0
           /\ schlist = 0 /\ sync = 0 /\ m_sync_done = 0 /\ arbiter = 0
           /\ step = 0
    /\ part \notin PrefetcherParts =>
           /\ table = 0 /\ newest = 0 /\ m_l2req_queue = 0
           /\ m_l2req_queue_req_pos = 0 /\ m_l2req_queue_send_pos = 0

Init ==
    /\ part \in Parts
    /\ \/ part = "tile" /\ tile!Init
       \/ part = "banked" /\ banked!Init
       \/ part = "gpu" /\ gpu!Init
       \/ part = "stores" /\ stores!Init
       \/ part = "merge" /\ merge!Init
       \/ part = "misses" /\ misses!Init
       \/ part = "external" /\ external!Init
       \/ part = "network" /\ network!Init
       \/ part = "ring" /\ ring!Init
       \/ part = "mesh" /\ mesh!Init
       \/ part = "frfcfs" /\ frfcfs!Init
       \/ part = "leftover" /\ leftover!Init
       \/ part = "fcfs" /\ fcfs!Init
       \/ part = "requests" /\ requests!Init
       \/ part = "ooo" /\ ooo!Init
       \/ part = "io" /\ io!Init
       \/ part = "stall" /\ stall!Init
       \/ part = "processes" /\ processes!Init
       \/ part = "crowded" /\ crowded!Init
       \/ part = "repeated" /\ repeated!Init
       \/ part = "ending" /\ ending!Init
       \/ part = "x86" /\ x86!Init
       \/ part = "ptx" /\ ptx!Init
       \/ part = "warps" /\ warps!Init
       \/ part = "late" /\ late!Init
       \/ part = "barrier" /\ barrier!Init
       \/ part = "strides" /\ strides!Init
    /\ Unused

(* The steps that a bound of the model leaves no other step after.         *)
Bound == part \in CacheParts \cup {"repeated"} /\ UNCHANGED vars

MemoryNext ==
    \/ /\ \/ part = "tile" /\ tile!Next
          \/ part = "banked" /\ banked!Next
          \/ part = "gpu" /\ gpu!Next
       /\ UNCHANGED <<stage, hierarchyVars, networkVars, dramVars>>
    \/ /\ \/ part = "stores" /\ stores!Next
          \/ part = "merge" /\ merge!Next
          \/ part = "misses" /\ misses!Next
          \/ part = "external" /\ external!Next
          \/ part = "network" /\ network!Next
       /\ UNCHANGED <<cycle, stage, cacheVars, networkVars, dramVars>>
    \/ /\ \/ part = "ring" /\ ring!Next
          \/ part = "mesh" /\ mesh!Next
       /\ UNCHANGED <<cycle, cacheVars, hierarchyVars, dramVars>>
    \/ /\ \/ part = "frfcfs" /\ frfcfs!Next
          \/ part = "leftover" /\ leftover!Next
          \/ part = "fcfs" /\ fcfs!Next
          \/ part = "requests" /\ requests!Next
       /\ UNCHANGED <<cycle, stage, cacheVars, hierarchyVars, networkVars>>

ProcessorNext ==
    \/ /\ \/ part = "ooo" /\ ooo!Next
          \/ part = "io" /\ io!Next
          \/ part = "stall" /\ stall!Next
       /\ UNCHANGED <<cycle, managerVars, readerVars, coreVars, prefVars>>
    \/ /\ \/ part = "processes" /\ processes!Next
          \/ part = "crowded" /\ crowded!Next
          \/ part = "repeated" /\ repeated!Next
          \/ part = "ending" /\ ending!Next
       /\ UNCHANGED <<stage, pipelineVars, readerVars, coreVars, prefVars>>
    \/ /\ \/ part = "x86" /\ x86!Next
          \/ part = "ptx" /\ ptx!Next
       /\ UNCHANGED <<cycle, stage, pipelineVars, managerVars, coreVars, prefVars>>
    \/ /\ \/ part = "warps" /\ warps!Next
          \/ part = "late" /\ late!Next
          \/ part = "barrier" /\ barrier!Next
       /\ UNCHANGED <<cycle, stage, pipelineVars, managerVars, readerVars, prefVars>>
    \/ /\ part = "strides" /\ strides!Next
       /\ UNCHANGED <<cycle, stage, pipelineVars, managerVars, readerVars, coreVars>>

Next ==
    \/ UNCHANGED part /\ MemoryNext /\ UNCHANGED processorVars
    \/ UNCHANGED part /\ ProcessorNext /\ UNCHANGED memoryVars
    \/ Bound

Spec == Init /\ [][Next]_vars

(* Fairness.  The main loop gives every unit its cycle again and again     *)
(* (not for "misses", whose steps are those of Serve, nor once the         *)
(* simulation is over).                                                    *)
MemoryCycle ==
    \/ /\ \/ part = "ring" /\ ring!run_a_cycle
          \/ part = "mesh" /\ mesh!run_a_cycle
       /\ UNCHANGED <<cycle, cacheVars, hierarchyVars, dramVars>>
    \/ /\ part = "requests" /\ requests!run_a_cycle
       /\ UNCHANGED <<cycle, stage, cacheVars, hierarchyVars, networkVars>>
ProcessorCycle ==
    \/ /\ part = "stall" /\ stall!run_a_cycle
       /\ UNCHANGED <<cycle, managerVars, readerVars, coreVars, prefVars>>
    \/ /\ part = "ending" /\ ending!run_a_cycle
       /\ UNCHANGED <<stage, pipelineVars, readerVars, coreVars, prefVars>>
    \/ /\ part = "barrier" /\ barrier!run_a_cycle
       /\ UNCHANGED <<cycle, stage, pipelineVars, managerVars, readerVars, prefVars>>
    \/ /\ part = "strides" /\ strides!pref_update_queues(1)
       /\ UNCHANGED <<cycle, stage, pipelineVars, managerVars, readerVars, coreVars>>
Cycle ==
    \/ UNCHANGED part /\ MemoryCycle /\ UNCHANGED processorVars
    \/ UNCHANGED part /\ ProcessorCycle /\ UNCHANGED memoryVars

(* Every cache works on all of its queues in every cycle, the network and  *)
(* the memory controllers deliver.                                         *)
Ids == SetToSeq(misses!Ids)
MissServed(n) ==
    /\ part = "misses" /\ misses!Serve(Ids[n])
    /\ UNCHANGED <<part, cycle, stage, processorVars, cacheVars, networkVars, dramVars>>

(* What the rest of the simulator owes a unit comes.  The memory system    *)
(* takes the packets that have arrived at a router in every cycle; lines,  *)
(* data and warps come; and the data cache does not refuse, nor    *)
(* the instruction cache miss, for ever.                                   *)
Arrival ==
    /\ UNCHANGED <<part, readerVars, prefVars, cacheVars, hierarchyVars, dramVars>>
    /\ \/ /\ \/ part = "ring" /\ ring!pop_req(1)
             \/ part = "mesh" /\ mesh!pop_req(3)
          /\ UNCHANGED <<cycle, processorVars>>
       \/ /\ part = "stall"
          /\ stall!icache_fill_line \/ \E e \in stall!Entries : stall!miss_done(e)
          /\ UNCHANGED <<cycle, networkVars, managerVars, coreVars>>
       \/ /\ part = "barrier"
          /\ \/ barrier!start
             \/ \E w \in barrier!Warps :
                   \/ barrier!icache_fill_line(w)
                   \/ \E u \in barrier!Waiting(w) : barrier!answer(w, u)
          /\ UNCHANGED <<cycle, stage, networkVars, pipelineVars, managerVars>>
Acceptance ==
    /\ UNCHANGED <<part, cycle, managerVars, readerVars, prefVars, memoryVars>>
    /\ \/ /\ part = "stall" /\ stall!access_icache /\ stage' = "fetch"
          /\ UNCHANGED coreVars
       \/ /\ part = "barrier"
          /\ \/ barrier!fetch(TRUE)
             \/ \E h, m \in 0 .. 1 : h + m > 0 /\ barrier!uop_schedule_smc(h, m, 1)
          /\ UNCHANGED <<stage, pipelineVars>>

(* The steps of the threads (read_trace and retire), and when they are     *)
(* possible.                                                               *)
ThreadStep == part = "ending" /\ cycle.at = "run" /\ UNCHANGED cycle /\ sim' # sim
ThreadMay ==
    /\ part = "ending" /\ cycle.at = "run"
    /\ LET core == sim.core[ending!TheCore]
       IN  \E i \in DOMAIN core.uops :
              core.uops[i] # <<>> \/ i \in DOMAIN core.thread \ core.fetch_ended

FairSpec ==
    /\ Spec
    /\ []<>(part = "misses" \/ over) \/ []<><<Cycle>>_vars
    /\ []<>(part = "requests" => m_output_buffer = <<>>)
    /\ \A n \in 1 .. Len(Ids) : WF_vars(MissServed(n))
    /\ SF_vars(Arrival) /\ SF_vars(Acceptance)
    /\ []<>ThreadMay => []<><<ThreadStep>>_vars

-----------------------------------------------------------------------------

(* A lookup never hits on another line: the index that find_tag_and_set    *)
(* computes without the tile number still tells apart all the lines that   *)
(* the memory system sends to this tile.  With three tiles this needs the  *)
(* set_cache_id of the network type; with that of the others a line is     *)
(* taken for another, which lies in another tile by the division.          *)
HitIsOwnLine ==
    /\ part = "tile" => tile!HitIsOwnLine
    /\ part = "banked" => banked!HitIsOwnLine
    /\ part = "gpu" => gpu!HitIsOwnLine

(* insert_cache drops a line only from a full set, and only when every     *)
(* line that stays was inserted or hit in the same cycle or later.         *)
LeastRecentlyUsed == [][part = "tile" => tile!LeastRecentlyUsed]_vars

(* "If there is a victim line, we do the write-back": a line that is dirty *)
(* stays so in some cache, or has a write-back under way, until a          *)
(* write-back of it has been served by memory.  (A store that misses at    *)
(* every level leaves no dirty line: memory.cc:2170 makes its request with *)
(* m_dirty FALSE and lines 1289 and 1568 fill the caches with it, so that  *)
(* what it wrote is never written back.)  And the memory controller only   *)
(* throws away prefetches: a demand request leaves through the output      *)
(* buffer, whatever it was when it came in.                                *)
NoDirtyLost ==
    [][ /\ part = "stores" => stores!NoDirtyLost
        /\ part = "misses" => misses!NoDirtyLost
        /\ part = "external" => external!NoDirtyLost
        /\ part = "network" => network!NoDirtyLost
        /\ part = "frfcfs" => frfcfs!DemandKept
        /\ part = "fcfs" => fcfs!DemandKept ]_vars

(* Everything is in exactly one place: a request that holds an MSHR entry, *)
(* and a write-back; a request in the memory controller; the entries of    *)
(* the uop pool, the reorder buffer and its registers; a uop of a warp     *)
(* that waits to be scheduled; a line in the prefetch queue.               *)
OnePlace ==
    /\ part = "stores" => stores!OnePlace
    /\ part = "misses" => misses!OnePlace
    /\ part = "merge" => merge!OnePlace
    /\ part = "external" => external!OnePlace
    /\ part = "frfcfs" => frfcfs!RequestsConserved
    /\ part = "leftover" => leftover!RequestsConserved
    /\ part = "fcfs" => fcfs!RequestsConserved
    /\ part = "ooo" => ooo!ResourcesConserved
    /\ part = "io" => io!ResourcesConserved
    /\ part = "warps" => warps!WarpsAccounted
    /\ part = "strides" => strides!NoDoubles

(* What a unit counts on matches what there is: push never meets a full    *)
(* queue where its result is not looked at; MCsim owes a callback for      *)
(* every request that waits for one; a bank that reads has the row         *)
(* of its request open, and no traffic lets progress_check abort; the      *)
(* scheduler's count is what its list and queues hold; the threads that    *)
(* the counters of the process manager and of the cores say there are, are *)
(* there, the warps of a block on the core that began it, and              *)
(* m_last_terminated_tid passes no thread that still runs; a warp lacks a  *)
(* reorder buffer only where it takes the place of one that ends.          *)
CountsMatch ==
    /\ part = "stores" => stores!QueuesBounded
    /\ part = "misses" => misses!QueuesBounded
    /\ part = "external" => external!QueuesBounded /\ external!CallbacksCover
    /\ part = "frfcfs" => frfcfs!DataFromOpenRow /\ frfcfs!NoStarvation
    /\ part = "leftover" => leftover!NoStarvation
    /\ part = "fcfs" => fcfs!DataFromOpenRow /\ fcfs!NoStarvation
    /\ part = "ooo" => ooo!SchedulerConsistent
    /\ part = "processes" => /\ processes!CountersMatch
                             /\ processes!BlockOnOneCore
                             /\ processes!WindowCoversRunning
                             /\ processes!RobForEveryWarp
                             /\ processes!EndsWhenDone
    /\ part = "crowded" => /\ crowded!CountersMatch
                           /\ crowded!WindowCoversRunning
                           /\ crowded!RobForEveryWarp
    /\ part = "repeated" => /\ repeated!CountersMatch
                            /\ repeated!BlockOnOneCore
                            /\ repeated!WindowCoversRunning

(* No flit is lost, overtaken or sent to a full buffer, and the packets    *)
(* that share a channel do not mix: a router has a credit for every free   *)
(* place at the other end of a link, or the credit is on its way; what is  *)
(* on either side of a link is a sequence of whole packets; and what the   *)
(* memory system receives is where it was sent, and all of it, whatever    *)
(* the routers' clocks are.  And the dateline rule gives the channels of a *)
(* ring an order, so that no packets wait for each other all around it.    *)
PacketsArriveWhole ==
    /\ part = "ring" => /\ ring!CreditsMatchSpace /\ ring!PacketsInSequence
                        /\ ring!DeliveredWhole /\ ring!NoCircularWait
    /\ part = "mesh" => /\ mesh!CreditsMatchSpace /\ mesh!PacketsInSequence
                        /\ mesh!DeliveredWhole

(* What the trace says is what is executed: the instructions are sent in   *)
(* its order and once, with all of their uops and of what they access, and *)
(* a uop reads what those of its instruction before it have made; they     *)
(* retire in that order.  Two exceptions: a group of records that loads    *)
(* and stores is cut where the trace is put back by one record only        *)
(* (Rewound), and the value of a load that also stores is lost when the    *)
(* instruction comes from the table (TMP0Lost).  No warp fetches past a    *)
(* barrier that another warp of its block has not retired, of those that   *)
(* had been made when the first one met it.  Prefetches stay on the lines  *)
(* that the accesses are predicted to take.                                *)
InProgramOrder ==
    /\ part = "x86" => x86!TraceSent /\ x86!ValuesFlow /\ x86!SectionsCover
    /\ part = "ptx" => ptx!TraceSent /\ ptx!ValuesFlow /\ ptx!SectionsCover
    /\ part = "ooo" => ooo!RetiredInOrder
    /\ part = "io" => io!RetiredInOrder
    /\ part = "warps" => warps!BarrierHeld
    /\ part = "late" => late!BarrierHeld
    /\ part = "strides" => strides!OnThePattern /\ strides!WithinDistance

(* A uop is executed only when the uops whose values it reads are done; a  *)
(* kernel ends only when all of its threads have run, and not those alone  *)
(* that thread 0 has made so far.                                          *)
SourcesFirst ==
    [][ /\ part = "ooo" => ooo!DependencesHonoured
        /\ part = "io" => io!DependencesHonoured
        /\ part = "warps" => warps!SourcesFirst
        /\ part = "processes" => processes!KernelsRunToTheEnd
        /\ part = "repeated" => repeated!KernelsRunToTheEnd ]_vars

(* What begins ends.  Every load, store and instruction fetch that missed  *)
(* is answered, unless others keep being merged to it: done serves those   *)
(* first, as far as the write ports of the L1 cache go, and more may come  *)
(* in the meantime.  A packet, a demand request, a prefetch leaves the     *)
(* network, the memory controller, the queue, a packet provided that the   *)
(* routers' clocks, which no line of router.cc sets, are the simulation's: *)
(* with one ahead, its credits and flits never count.  Every uop of the    *)
(* trace retires, every warp finishes, and the simulation ends.  (The      *)
(* entries of Mshr2 are symmetric: one stands for all of them.)            *)
AllEnded ==
    /\ part = "stall" => Len(retired) = 3
    /\ part = "barrier" => \A w \in barrier!Warps : warp[w].reach_end
    /\ part = "ending" => over
Pending(n) ==
    \/ part = "ring" /\ ring!ClocksAgree /\ ring!InNetwork(RingPackets[n])
    \/ part = "mesh" /\ n = 1 /\ mesh!InNetwork(MeshPackets[n])
    \/ part = "requests" /\ info[SetToSeq(Mshr2)[n]].type = "DFETCH"
    \/ part = "strides" /\ m_l2req_queue[n - 1].valid
    \/ ~AllEnded
Missed(i) == part = "misses" /\ req[i] # misses!Free /\ req[i].type \in misses!Demand
EveryMissAnswered ==
    /\ \A i \in {0} \X {CHOOSE m \in Mshr2 : TRUE} :
           <>[]Missed(i) => []<>(Missed(i) /\ req[i].merge # <<>>)
    /\ \A n \in 1 .. 2 : []<>~Pending(n)

=============================================================================
