----------------------------- MODULE TraceReader -----------------------------
(***************************************************************************)
(* trace_read_c (IntegrationWithMacSim/src/trace_read.cc) for one thread:  *)
(* the buffered reading of its trace, one record ahead; the decoding of a  *)
(* record into uops, kept in a table for the next time; and the sending of *)
(* the uops, with the records of an access of a warp that cannot be        *)
(* coalesced gathered into one uop.  What an instruction is is given by    *)
(* its pc (Code); a record adds the addresses and sizes of its accesses.   *)
(***************************************************************************)
EXTENDS Integers, Sequences, FiniteSets, SequencesExt, TLC

CONSTANTS
    Ptx,             (* the core is a GPU's                                *)
    Code,            (* pc -> [op, fp, ld, st, cf, src, dst]               *)
    Programs,        (* sequences of instructions, each the sequence of    *)
                     (* its records [pc, imm, ld1, ld2, st, rsize, wsize,  *)
                     (* dir]                                               *)
    BufferSize,      (* k_trace_buffer_size                                *)
    MaxInsts,        (* KNOB_MAX_INSTS                                     *)
    MaxPup,          (* MAX_PUP, uops of an instruction                    *)
    RepMax,          (* REP_MOV_MEM_SIZE_MAX_NEW                           *)
    LineSize,        (* of every cache                                     *)
    CommonCache,     (* KNOB_PTX_COMMON_CACHE                              *)
    NewCoalescing    (* KNOB_USE_NEW_COALESCING                            *)

VARIABLES
    program,         (* what the trace file holds                          *)
    thread,          (* the thread_s: the file and the uops being sent     *)
    htable,          (* pc -> the uops that it was decoded to              *)
    sent,            (* the uops, in the order in which they were sent     *)
    failed           (* an ASSERT did not hold                             *)

readerVars == <<program, thread, htable, sent, failed>>

Trace == FlattenSeq(program)
NoRecord == [pc |-> 0, imm |-> FALSE, ld1 |-> 0, ld2 |-> 0, st |-> 0,
             rsize |-> 0, wsize |-> 0, dir |-> FALSE]

(* Where a record that is the first of several has imm, and so has the     *)
(* last of them; and a GPU's trace does not end in them.                   *)
ReaderAssumption ==
    \A p \in Programs : \A i \in DOMAIN p :
        /\ \A j \in DOMAIN p[i] :
               p[i][j].imm <=> Len(p[i]) > 1 /\ j \in {1, Len(p[i])}
        /\ Len(p[i]) > 1 => Ptx /\ i < Len(p)

-----------------------------------------------------------------------------
(* gzread of n records; gzseek is a change of pos.                         *)
Least(a, b) == IF a < b THEN a ELSE b
gzread(pos, n) == SubSeq(Trace, pos + 1, Least(pos + n, Len(Trace)))

(* peek_trace: the next record, from the buffer as long as that lasts, and *)
(* then from the file.                                                     *)
peek_trace(t) ==
    LET i == (t.index + 1) % BufferSize
        rest == gzread(t.pos, 1)
    IN IF ~t.exhausted
       THEN [thread |-> [t EXCEPT !.index = i, !.exhausted = i = 0],
             record |-> t.buffer[t.index + 1], read |-> i < t.max]
       ELSE [thread |-> [t EXCEPT !.pos = @ + Len(rest)],
             record |-> IF rest = <<>> THEN NoRecord ELSE rest[1],
             read |-> rest # <<>>]

(* ungetch_trace: back by n records; ok when it does not fail.             *)
ungetch_trace(t, n) ==
    IF t.index >= n THEN [thread |-> [t EXCEPT !.index = @ - n], ok |-> TRUE]
    ELSE [thread |-> [t EXCEPT !.index = 0, !.pos = @ - (n - t.index)],
          ok |-> t.pos >= n - t.index]

(* read_trace: a new chunk when the buffer has wrapped around.  At the     *)
(* last record of a chunk that is not full the trace has ended.            *)
Chunk(t) ==
    LET new == gzread(t.pos, BufferSize)
    IN IF t.index # 0 THEN t
       ELSE [t EXCEPT !.pos = @ + Len(new), !.max = Len(new),
                      !.exhausted = FALSE,
                      !.buffer = [i \in DOMAIN @ |-> IF i <= Len(new)
                                                     THEN new[i] ELSE @[i]]]

read_trace(t) ==
    LET c == Chunk(t)
        i == (c.index + 1) % BufferSize
        read == i < c.max
    IN IF t.ended THEN [thread |-> t, read |-> FALSE]
       ELSE [thread |-> [c EXCEPT !.index = i,
                                  !.exhausted = IF i = 0 THEN TRUE ELSE @,
                                  !.next = c.buffer[c.index + 1],
                                  !.ended = ~read],
             read |-> read]

-----------------------------------------------------------------------------
(* init_pin_convert: what kind of uop computes; an opcode of a GPU is a    *)
(* kind of its own, for integers and for floating point.                   *)
GpuUop == "GPU"
GpuFUop == "GPU_F"
m_int_uop_table(op) ==
    CASE op = "INVALID" -> "INV"
      [] op \in {"AES", "IOSTRINGOP", "PCLMULQDQ", "XSAVE", "XSAVEOPT",
                 "TR_MUL", "TR_DIV"} -> "IMUL"
      [] op \in {"AVX", "FCMOV", "MMX", "SSE", "X87_ALU"} -> "FADD"
      [] op = "BITBYTE" -> "BYTE"
      [] op = "CMOV" -> "CMOV"
      [] op = "LOGICAL" -> "LOGIC"
      [] op \in {"NOP", "WIDENOP", "TR_NOP"} -> "NOP"
      [] op \in {"ROTATE", "SHIFT"} -> "SHIFT"
      [] op = "TR_FMUL" -> "FMUL"
      [] op = "TR_FDIV" -> "FDIV"
      [] op = "GPU" -> GpuUop
      [] OTHER -> "IADD"
m_fp_uop_table(op) ==
    CASE op = "INVALID" -> "INV"
      [] op \in {"AES", "IOSTRINGOP", "PCLMULQDQ", "XSAVE", "XSAVEOPT",
                 "TR_FMUL"} -> "FMUL"
      [] op \in {"TR_MUL", "TR_DIV"} -> "IMUL"
      [] op = "BITBYTE" -> "BYTE"
      [] op = "CMOV" -> "CMOV"
      [] op = "LOGICAL" -> "LOGIC"
      [] op \in {"NOP", "WIDENOP", "TR_NOP"} -> "NOP"
      [] op \in {"ROTATE", "SHIFT"} -> "SHIFT"
      [] op = "TR_FDIV" -> "FDIV"
      [] op = "GPU" -> GpuFUop
      [] OTHER -> "FADD"

(* The memory that an opcode reads and writes.                             *)
Loads == {"MEM_LD", "MEM_LD_LM", "MEM_LD_SM", "MEM_LD_CM", "MEM_LD_TM"}
Stores == {"MEM_ST", "MEM_ST_LM", "MEM_ST_SM"}
LoadType(op) ==
    CASE op = "PREFETCH" -> "MEM_PF"
      [] op \in {"PREFETCH_NTA", "PREFETCH_T0", "PREFETCH_T1", "PREFETCH_T2"}
             -> "MEM_SWPREF"
      [] op \in {"TR_MEM_LD_LM", "TR_DATA_XFER_LM"} -> "MEM_LD_LM"
      [] op \in {"TR_MEM_LD_SM", "TR_DATA_XFER_SM"} -> "MEM_LD_SM"
      [] op = "TR_MEM_LD_CM" -> "MEM_LD_CM"
      [] op = "TR_MEM_LD_TM" -> "MEM_LD_TM"
      [] OTHER -> "MEM_LD"
StoreType(op) ==
    CASE op \in {"TR_MEM_ST_LM", "TR_DATA_XFER_LM"} -> "MEM_ST_LM"
      [] op \in {"TR_MEM_ST_SM", "TR_DATA_XFER_SM"} -> "MEM_ST_SM"
      [] OTHER -> "MEM_ST"
MemoryUop(fp) == IF fp THEN "FMEM" ELSE "IMEM"

(* KNOB_PTX_COMMON_CACHE: the shared memory is a part of the L1 cache.     *)
Opcode(pc) ==
    LET op == Code[pc].op
    IN IF ~(Ptx /\ CommonCache) THEN op
       ELSE CASE op = "TR_MEM_LD_SM" -> "TR_MEM_LD_LM"
              [] op = "TR_MEM_ST_SM" -> "TR_MEM_ST_LM"
              [] op = "TR_DATA_XFER_SM" -> "TR_DATA_XFER_LM"
              [] OTHER -> op

-----------------------------------------------------------------------------
(* A trace_uop_s.                                                          *)
NewUop == [op_type |-> "INV", mem |-> "NOT_MEM", cf |-> "NOT_CF",
           bar |-> FALSE, src |-> <<>>, dst |-> <<>>, second |-> FALSE,
           pc |-> 0, nr |-> 0, va |-> 0, size |-> 0, npc |-> 0,
           eom |-> FALSE, mul |-> FALSE]
TMP0 == 167
Barriers == {"SEMAPHORE", "IO", "INTERRUPT", "SYSTEM", "SYSCALL", "SYSRET"}

(* convert_pinuop_to_t_uop for a pc that is not in the table.  The value   *)
(* of a load goes through TMP0 to what computes, or without that to a      *)
(* store or branch, which else reads what was computed.                    *)
HasLoad(pc) == Code[pc].ld > 0 /\ LoadType(Opcode(pc)) \in Loads
WritesDest(pc) == Code[pc].ld > 0 /\ (Opcode(pc) = "DATAXFER" \/ Ptx)
HasALU(pc) == Code[pc].dst # <<>> /\ ~WritesDest(pc)
TmpNeeded(pc) ==
    HasLoad(pc) /\ (HasALU(pc) \/ Code[pc].st \/ Code[pc].cf # "NOT_CF")

LastReads(pc) ==
    IF TmpNeeded(pc) /\ ~HasALU(pc) THEN <<TMP0>>
    ELSE IF HasALU(pc) THEN Code[pc].dst ELSE <<>>

LoadUop(pc, second) ==
    [NewUop EXCEPT
        !.op_type = MemoryUop(Code[pc].fp), !.mem = LoadType(Opcode(pc)),
        !.second = second, !.src = Code[pc].src,
        !.dst = (IF WritesDest(pc) THEN Code[pc].dst ELSE <<>>)
                \o (IF TmpNeeded(pc) THEN <<TMP0>> ELSE <<>>)]
ALUUop(pc) ==
    [NewUop EXCEPT
        !.op_type = IF Code[pc].fp THEN m_fp_uop_table(Opcode(pc))
                    ELSE m_int_uop_table(Opcode(pc)),
        !.src = Code[pc].src \o (IF TmpNeeded(pc) THEN <<TMP0>> ELSE <<>>),
        !.dst = Code[pc].dst]
StoreUop(pc) ==
    [NewUop EXCEPT
        !.op_type = MemoryUop(Code[pc].fp), !.mem = StoreType(Opcode(pc)),
        !.src = Code[pc].src \o LastReads(pc)]
BranchUop(pc) ==
    [NewUop EXCEPT
        !.op_type = "CF", !.src = Code[pc].src \o LastReads(pc),
        !.cf = IF Code[pc].cf = "CF_SYS" THEN "CF_ICO" ELSE Code[pc].cf]

Uops(pc) ==
    (IF Code[pc].ld > 0 THEN <<LoadUop(pc, FALSE)>> ELSE <<>>)
    \o (IF Code[pc].ld = 2 THEN <<LoadUop(pc, TRUE)>> ELSE <<>>)
    \o (IF HasALU(pc) THEN <<ALUUop(pc)>> ELSE <<>>)
    \o (IF Code[pc].st THEN <<StoreUop(pc)>> ELSE <<>>)
    \o (IF Code[pc].cf # "NOT_CF" THEN <<BranchUop(pc)>> ELSE <<>>)
OrNop(uops) ==
    IF uops = <<>> THEN <<[NewUop EXCEPT !.op_type = "NOP"]>> ELSE uops
Numbered(uops, pc) ==
    LET barrier == Opcode(pc) \in Barriers /\ Last(uops).mem = "NOT_MEM"
    IN [i \in DOMAIN uops |->
           [uops[i] EXCEPT
               !.pc = pc, !.nr = i,
               !.bar = barrier /\ i = Len(uops),
               !.cf = IF barrier /\ i = Len(uops) THEN "CF_ICO" ELSE @]]
Decoded(pc) == Numbered(OrNop(Uops(pc)), pc)

(* convert_t_uop_to_info: of the destinations the first is kept.           *)
convert_t_uop_to_info(u) ==
    [u EXCEPT !.dst = IF @ = <<>> THEN <<>> ELSE <<Head(@)>>]

(* convert_dyn_uop: the address and the size of an access, and the npc.    *)
convert_dyn_uop(u, info, rec, offset) ==
    LET Size(n) == IF Ptx THEN n ELSE Least(n, RepMax)
    IN [u EXCEPT
           !.npc = rec.pc,
           !.va = IF info.cf # "NOT_CF" \/ info.mem = "NOT_MEM" THEN 0
                  ELSE IF info.mem \in Stores THEN rec.st + offset
                  ELSE IF info.second THEN rec.ld2 + offset
                  ELSE rec.ld1 + offset,
           !.size = IF info.cf # "NOT_CF" \/ info.mem = "NOT_MEM" THEN @
                    ELSE IF info.mem \in Stores THEN Size(rec.wsize)
                    ELSE Size(rec.rsize)]

(* The uops of a record, from the table or new to it; what is in the table *)
(* becomes a uop again as it is.                                           *)
convert_info_uop(table, pc) == table[pc]
Static(pc, table) ==
    IF pc \in DOMAIN table THEN convert_info_uop(table, pc) ELSE Decoded(pc)
Converted(rec, uops) ==
    [i \in DOMAIN uops |->
        [convert_dyn_uop(uops[i], uops[i], rec, 0) EXCEPT
            !.eom = i = Len(uops),
            !.mul = uops[i].mem # "NOT_MEM" /\ rec.imm]]

(* Repeat move: uops for the next addresses follow in the array; as they   *)
(* are made only from dynamic information, what a uop reads and writes is  *)
(* what it was in the array.  A repetition of nothing is a NOP, from then  *)
(* on in the table.                                                        *)
Repeats(rec) ==
    Cardinality({r \in 1 .. rec.rsize : rec.rsize - r * RepMax > 0})
RepeatedUops(rec, info, array) ==
    LET n == Len(info)
        More(k) ==
            LET i == ((k - 1) % n) + 1
                r == (k - 1) \div n
                slot == IF k <= Len(array) THEN array[k] ELSE NewUop
            IN [convert_dyn_uop(slot, info[i], rec,
                                IF rec.dir THEN -(r * RepMax) ELSE r * RepMax)
                EXCEPT !.size = Least(rec.rsize - r * RepMax, RepMax),
                       !.pc = rec.pc, !.nr = i, !.eom = FALSE]
        rounds == Least(Repeats(rec), (MaxPup - 1) \div n)
    IN [k \in 1 .. n * rounds |-> More(n + k)]

Info(rec, table, uops) ==
    IF rec.pc \in DOMAIN table THEN table[rec.pc]
    ELSE [i \in DOMAIN uops |-> convert_t_uop_to_info(uops[i])]
Nothing(rec, uops) ==
    <<[NewUop EXCEPT !.op_type = "NOP", !.pc = rec.pc, !.nr = 1,
                     !.va = convert_dyn_uop(uops[1], uops[1], rec, 0).va,
                     !.npc = rec.pc, !.eom = TRUE]>>
Ending(all, nextpc, array) ==
    [all EXCEPT ![Len(all)].eom = TRUE, ![Len(all)].npc = nextpc]
    \o SubSeq(array, Len(all) + 1, Len(array))
Instructed(rec, nextpc, table, array, uops, info) ==
    LET string == Opcode(rec.pc) = "STRINGOP"
    IN [array |-> Ending(IF string /\ rec.rsize = 0 THEN Nothing(rec, uops)
                         ELSE IF string
                         THEN Converted(rec, uops)
                              \o RepeatedUops(rec, info, array)
                         ELSE Converted(rec, uops),
                         nextpc, array),
        table |-> [pc \in DOMAIN table \cup {rec.pc} |->
                      IF pc # rec.pc THEN table[pc]
                      ELSE IF string /\ rec.rsize = 0 THEN Nothing(rec, uops)
                      ELSE info]]
WithInfo(rec, nextpc, table, array, uops) ==
    Instructed(rec, nextpc, table, array, uops, Info(rec, table, uops))
convert_pinuop_to_t_uop(rec, nextpc, table, array) ==
    WithInfo(rec, nextpc, table, array, Static(rec.pc, table))

-----------------------------------------------------------------------------
(* The accesses of size bytes at va, a line each.                          *)
Base(va) == va - (va % LineSize)
LinesOf(va, size) ==
    LET n == ((va + size - Base(va)) + (LineSize - 1)) \div LineSize
    IN [i \in 1 .. n |->
           [va |-> Base(va) + (i - 1) * LineSize,
            size |-> IF i < n THEN LineSize
                     ELSE va + size - Base(va) - (n - 1) * LineSize]]

(* With KNOB_USE_NEW_COALESCING a line is accessed once.                   *)
AddChildren(children, new) ==
    FoldLeft(LAMBDA c, x :
                 IF NewCoalescing /\ \E i \in DOMAIN c : c[i].va = x.va
                 THEN c ELSE Append(c, x),
             children, new)

(* The accesses of a uop that is one of several records: those of the      *)
(* following records are added to it up to the one that is marked.  When   *)
(* the instruction has a store after this load the records are read again  *)
(* for that; or else the record after them becomes the next.               *)
AfterGroup(t) ==
    LET p == peek_trace(t)
    IN IF t.ended THEN [thread |-> t, ok |-> TRUE]
       ELSE [thread |-> [p.thread EXCEPT !.prev = p.record,
                                         !.ended = ~p.read],
             ok |-> TRUE]

RECURSIVE Gather(_, _, _, _, _)
Gather(t, mem, children, again, n) ==
    LET p == peek_trace(t)
        more == AddChildren(children,
                    IF mem \in Stores THEN LinesOf(p.record.st, p.record.wsize)
                    ELSE LinesOf(p.record.ld1, p.record.rsize))
        back == ungetch_trace(p.thread, n + 1)
        end == IF again THEN back ELSE AfterGroup(p.thread)
    IN IF ~p.read THEN [thread |-> t, children |-> children, ok |-> FALSE]
       ELSE IF p.record.imm
       THEN [thread |-> end.thread, children |-> more, ok |-> end.ok]
       ELSE Gather(p.thread, mem, more, again, n + 1)

(* The first record of several was read one ahead of the others.           *)
Uncoalesced(t, u, again) ==
    LET back == ungetch_trace(t, 1)
        from == IF t.ended THEN t ELSE back.thread
        g == Gather(from, u.mem, AddChildren(<<>>, LinesOf(u.va, u.size)),
                    again, 0)
    IN [g EXCEPT !.ok = @ /\ (t.ended \/ back.ok)]

(* The next instruction (BOM), which was read before: the one after it is  *)
(* read now, or none when KNOB_MAX_INSTS have been.                        *)
BeginInstruction(t) ==
    LET r == IF t.fetched < MaxInsts THEN read_trace(t)
             ELSE [thread |-> [t EXCEPT !.ended = TRUE], read |-> FALSE]
        c == convert_pinuop_to_t_uop(t.prev, r.thread.next.pc, htable, t.array)
    IN [thread |-> [r.thread EXCEPT !.prev = r.thread.next,
                                    !.fetched = IF r.read THEN @ + 1 ELSE @,
                                    !.array = c.array, !.sending = 1],
        table |-> c.table]

(* What is sent: the type is that of the table, the rest is the uop's.     *)
Uop(t, table, bom) ==
    LET u == t.array[t.sending]
        info == table[u.pc][u.nr]
    IN [u EXCEPT !.op_type = info.op_type, !.cf = info.cf, !.mem = info.mem]
       @@ [bom |-> bom, last |-> t.ended /\ u.eom, children |-> <<>>]

get_uops_from_traces ==
    /\ ~thread.fetch_ended /\ ~failed
    /\ \E begin \in {IF thread.bom THEN BeginInstruction(thread)
                     ELSE [thread |-> [thread EXCEPT !.sending = @ + 1],
                           table |-> htable]} :
       \E u \in {Uop(begin.thread, begin.table, thread.bom)} :
           LET t == [begin.thread EXCEPT !.bom = u.eom, !.fetch_ended = u.last]
               several == Ptx /\ u.mem # "NOT_MEM" /\ u.mul
               lines == LinesOf(u.va, u.size)
               again == ~u.eom /\ t.array[t.sending + 1].mem # "NOT_MEM"
               g == Uncoalesced(t, u, again)
           IN /\ htable' = begin.table
              /\ \/ /\ several
                    /\ thread' = g.thread
                    /\ failed' = ~g.ok
                    /\ sent' = Append(sent, [u EXCEPT
                           !.children = g.children, !.va = 0, !.size = 0,
                           !.npc = IF again \/ g.thread.ended THEN @
                                   ELSE g.thread.prev.pc])
                 \/ /\ ~several
                    /\ thread' = t
                    /\ UNCHANGED failed
                    /\ sent' = Append(sent,
                           IF Ptx /\ u.mem # "NOT_MEM" /\ Len(lines) > 1
                           THEN [u EXCEPT !.children = lines, !.va = 0,
                                          !.size = 0, !.npc = t.prev.pc]
                           ELSE u)
    /\ UNCHANGED program

(* pre_read_trace: how long it is from one barrier, or one access to       *)
(* memory, or one of both, to the next, and how many accesses there are    *)
(* between barriers.                                                       *)
MemoryOps == {"TR_MEM_LD_LM", "TR_MEM_LD_GM", "TR_MEM_ST_LM", "TR_MEM_ST_GM",
              "TR_DATA_XFER_LM", "TR_DATA_XFER_GM"}
Sections(trace, ends, counts) ==
    LET Step(a, rec) ==
            LET n == a.count + (IF Code[rec.pc].op \in counts THEN 1 ELSE 0)
            IN IF Code[rec.pc].op \in ends
               THEN [list |-> Append(a.list, n), count |-> 0, rest |-> FALSE]
               ELSE [a EXCEPT !.count = n, !.rest = TRUE]
        all == FoldLeft(Step, [list |-> <<>>, count |-> 0, rest |-> FALSE],
                        trace)
    IN IF all.rest THEN Append(all.list, all.count) ELSE all.list
pre_read_trace(trace) ==
    LET Barrier == {"SEMAPHORE"}
        All == {Code[trace[i].pc].op : i \in DOMAIN trace}
    IN [bar |-> Sections(trace, Barrier, All),
        mem_for_bar |-> Sections(trace, Barrier, MemoryOps),
        mem |-> Sections(trace, MemoryOps, All),
        mem_bar |-> Sections(trace, MemoryOps \cup Barrier, All)]

(* process_manager_c::create_thread and setup_trace.                       *)
Init ==
    /\ program \in Programs
    /\ thread = [pos |-> 1, buffer |-> [i \in 1 .. BufferSize |-> NoRecord],
                 index |-> 0, max |-> 0, exhausted |-> TRUE, ended |-> FALSE,
                 prev |-> Trace[1], next |-> NoRecord, bom |-> TRUE,
                 array |-> <<>>, sending |-> 0, fetched |-> 0,
                 fetch_ended |-> FALSE,
                 sections |-> pre_read_trace(Trace)]
    /\ htable = <<>>
    /\ sent = <<>>
    /\ failed = FALSE

Ended == (thread.fetch_ended \/ failed) /\ UNCHANGED readerVars

Next == get_uops_from_traces \/ Ended

Spec == Init /\ [][Next]_readerVars

-----------------------------------------------------------------------------
(* The instructions that were sent, each the sequence of its uops; the     *)
(* last may still have uops to come.                                       *)
Begins == SelectSeq([i \in DOMAIN sent |-> i], LAMBDA i : sent[i].bom)
Instruction(i) ==
    SubSeq(sent, Begins[i],
           IF i = Len(Begins) THEN Len(sent) ELSE Begins[i + 1] - 1)
Bytes(va, size) == va .. va + size - 1
LinesAt(bytes) == {Base(x) : x \in bytes}
BytesOf(u) == IF u.children = <<>> THEN Bytes(u.va, u.size)
              ELSE UNION {Bytes(u.children[c].va, u.children[c].size) :
                             c \in DOMAIN u.children}
Asked(records, info) ==
    UNION {IF info.mem \in Stores THEN Bytes(records[r].st, records[r].wsize)
           ELSE Bytes(IF info.second THEN records[r].ld2 ELSE records[r].ld1,
                      records[r].rsize) : r \in DOMAIN records}

(* "rewind trace": the groups of records that are read again for a store.  *)
(* Both times one record is put back at the start, so that the second time *)
(* the first record is met again, whose mark is taken for the last one's.  *)
Rewound == {i \in DOMAIN program : /\ Len(program[i]) > 1
                                   /\ Code[program[i][1].pc].ld > 0
                                   /\ Code[program[i][1].pc].st}

(* Over the ends of chunks and the reading ahead, the instructions of the  *)
(* trace are sent in order and once, each with all of its uops up to the   *)
(* EOM and with what all of its records access; after each its npc is      *)
(* sent; and only the last may be missing.  This is so up to the first     *)
(* group that is rewound: its store lacks what the later records access,   *)
(* and these are then taken for an instruction of their own.               *)
TraceSent ==
    /\ failed => Rewound # {}
    /\ \A i \in {b \in DOMAIN Begins : \A g \in Rewound : b <= g} :
          LET uops == Instruction(i)
              pc == program[i][1].pc
              want == Decoded(pc)
          IN /\ i <= Len(program)
             /\ Len(uops) <= Len(want)
             /\ Last(uops).eom <=> Len(uops) = Len(want)
             /\ i < Len(Begins) => Last(uops).eom
             /\ i < Len(Begins) - 1 => Last(uops).npc = Instruction(i + 1)[1].pc
             /\ \A k \in DOMAIN uops :
                    /\ uops[k].pc = pc
                    /\ uops[k].mem = want[k].mem
                    /\ want[k].mem # "NOT_MEM" /\ (i \in Rewound => k = 1) =>
                          LinesAt(BytesOf(uops[k]))
                              = LinesAt(Asked(program[i], want[k]))
    /\ thread.fetch_ended /\ Rewound = {} =>
          /\ Last(sent).eom
          /\ Len(Begins) \in {Len(program) - 1, Len(program), MaxInsts + 1}

(* "temporal register rules: load->dest_reg (through tmp), load->store     *)
(* (through tmp), dest_reg->store (real reg) load->cf (through tmp),       *)
(* dest_reg->cf": a uop reads what the uops of its instruction before it   *)
(* have made for it, the first time and from the table, unless a load has  *)
(* a destination besides TMP0: the table keeps the first one only, and the *)
(* store or branch after it does not wait for it the second time.          *)
FromTable(i) == \E h \in 1 .. i - 1 : Instruction(h)[1].pc = Instruction(i)[1].pc
TMP0Lost(i) ==
    LET pc == Instruction(i)[1].pc
    IN FromTable(i) /\ TmpNeeded(pc) /\ WritesDest(pc) /\ Code[pc].dst # <<>>

ValuesFlow ==
    \A i \in DOMAIN Begins :
        LET uops == Instruction(i)
            Reads(k) == Range(uops[k].src)
            Writes(k) == Range(uops[k].dst)
        IN \A j \in DOMAIN uops : \A k \in 1 .. j - 1 :
               uops[j].mem \notin Loads /\ ~uops[k].mem \in Stores
               /\ ~(\E m \in k + 1 .. j - 1 : uops[m].mem = "NOT_MEM")
               => \/ Reads(j) \cap Writes(k) # {}
                  \/ TMP0Lost(i) /\ uops[k].mem \in Loads

(* Each way of cutting the trace into sections covers all of it.           *)
SectionsCover ==
    LET Total(list) == FoldLeft(LAMBDA n, x : n + x, 0, list)
        cut == thread.sections
    IN /\ \A list \in {cut.bar, cut.mem, cut.mem_bar} :
              Total(list) = Len(Trace)
       /\ Len(cut.mem_for_bar) = Len(cut.bar)
       /\ Total(cut.mem_for_bar) = Len(SelectSeq(Trace,
              LAMBDA rec : Code[rec.pc].op \in MemoryOps))

=============================================================================
