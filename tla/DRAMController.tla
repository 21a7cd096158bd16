--------------------------- MODULE DRAMController ---------------------------
(***************************************************************************)
(* MacSim's own memory controller, which a build without MCsim uses        *)
(* (IntegrationWithMacSim/src/dram.cc): a buffer for each bank, one        *)
(* command and as many transfers as the data bus carries per channel and   *)
(* cycle.  A cycle takes the steps of run_a_cycle in their order: phase.   *)
(* Times are counted down to zero; the time stamps of the entries are      *)
(* their order in arrived, those of the banks are ranks.  The network and  *)
(* the caches are the environment: requests come and are accepted when     *)
(* they like, and a demand miss may turn a prefetch into a demand request  *)
(* at any time.                                                            *)
(***************************************************************************)
EXTENDS Integers, Sequences, FiniteSets, SequencesExt, Bitwise

CONSTANTS
    Policy,            (* "FCFS", or "FRFCFS" of dc_frfcfs_c               *)
    Requests,          (* the request entries of the memory system         *)
    Addresses, Types, Size,  (* what they may ask for                      *)
    m_num_channel, m_num_bank_per_channel,
    BufferSize,        (* KNOB_DRAM_BUFFER_SIZE                            *)
    RowSize, NumMC,    (* KNOB_DRAM_ROWBUFFER_SIZE, KNOB_DRAM_NUM_MC       *)
    XorShift,          (* m_bid_xor_shift as a factor, 0 without xor       *)
    Merge,             (* KNOB_DRAM_MERGE_REQUESTS                         *)
    m_precharge_latency, m_activate_latency, m_column_latency,
    m_bus_width,
    AdditionalLatency, (* KNOB_DRAM_ADDITIONAL_LATENCY                     *)
    StarvationLimit,   (* the 5000 cycles of progress_check                *)
    Garbage            (* what members hold that the constructor leaves out *)

NumBanks == m_num_channel * m_num_bank_per_channel
Banks == 0 .. NumBanks - 1
ChannelIds == 0 .. m_num_channel - 1
BanksOf(ch) == {b \in Banks : b \div m_num_bank_per_channel = ch}
Never == -1            (* ULLONG_MAX, and the row and entry that is none   *)

DRAMAssumption ==
    /\ Policy \in {"FCFS", "FRFCFS"} /\ Merge \in BOOLEAN
    /\ Types \subseteq {"DFETCH", "DPRF", "WB"} /\ Addresses \subseteq Nat
    /\ {Size, m_num_channel, m_num_bank_per_channel, BufferSize, RowSize, NumMC,
        m_bus_width, m_precharge_latency, m_activate_latency, m_column_latency,
        StarvationLimit} \subseteq Nat \ {0}
    /\ {XorShift, AdditionalLatency} \subseteq Nat /\ Garbage \subseteq Int

VARIABLES
    phase,           (* "aborted" after progress_check's ASSERT            *)
    info,            (* what a request asks for: address and m_type        *)
    bank,            (* buffer, current, state of the current entry,       *)
                     (* m_current_rid, m_bank_ready, m_data_avail,         *)
                     (* m_data_ready, m_bank_timestamp                     *)
    channel,         (* m_byte_avail, m_dbus_ready                         *)
    arrived,         (* the requests in the controller by time stamp       *)
    m_tmp_output_buffer, m_output_buffer,
    m_total_req,
    completed,       (* m_num_completed_in_last_cycle # 0                  *)
    m_starvation_cycle,
    unset            (* history: what the last three held at the start     *)

dramVars == <<phase, info, bank, channel, arrived, m_tmp_output_buffer,
              m_output_buffer, m_total_req, completed, m_starvation_cycle,
              unset>>
outputs == <<m_tmp_output_buffer, m_output_buffer>>
progress == <<m_total_req, completed, m_starvation_cycle, unset>>

NoRequest == [addr |-> 0, type |-> "none"]

(* The constructor sets everything but the members of progress_check.      *)
Init ==
    /\ phase = "send"
    /\ info = [r \in Requests |-> NoRequest]
    /\ bank = [b \in Banks |-> [buffer |-> <<>>, current |-> Never, state |-> "INIT",
                                rid |-> Never, ready |-> Never, avail |-> Never,
                                data |-> Never, stamp |-> 0]]
    /\ channel = [c \in ChannelIds |-> [bytes |-> m_bus_width, busy |-> 0]]
    /\ arrived = <<>>
    /\ m_tmp_output_buffer = <<>> /\ m_output_buffer = <<>>
    /\ m_total_req \in Garbage /\ m_starvation_cycle \in Garbage
    /\ completed = FALSE     (* set by the first cycle before it is read   *)
    /\ unset = <<m_total_req, m_starvation_cycle>>

-----------------------------------------------------------------------------
(* The address parsing of insert_new_req.                                  *)
Cut(addr) == (addr \div RowSize) \div NumMC
Bid(addr) ==
    LET bid == Cut(addr) % NumBanks
    IN  IF XorShift = 0 THEN bid ELSE bid ^^ ((addr \div XorShift) % NumBanks)
Rid(addr) == Cut(addr) \div NumBanks

RidOf(r) == Rid(info[r].addr)
Buffered(b) == ToSet(bank[b].buffer)
Without(s, S) == SelectSeq(s, LAMBDA x : x \notin S)

-----------------------------------------------------------------------------
(* send_packet: requests go out in order until the network takes no more;  *)
(* then delay_packet refills the output buffer.                            *)
send_packet(n) ==
    /\ phase = "send"
    /\ phase' = "cmd"
    /\ LET sent == ToSet(SubSeq(m_output_buffer, 1, n))
           rest == SubSeq(m_output_buffer, n + 1, Len(m_output_buffer))
           early == SelectSeq(m_tmp_output_buffer, LAMBDA x : x.rdy > 0)
           first == Len(m_tmp_output_buffer) - Len(early)
       IN
       /\ m_output_buffer' =
             rest \o [i \in 1 .. first |-> m_tmp_output_buffer[i].req]
       /\ m_tmp_output_buffer' = early
       /\ info' = [r \in Requests |-> IF r \in sent THEN NoRequest ELSE info[r]]
    /\ UNCHANGED <<bank, channel, arrived, progress>>

(* channel_schedule_cmd: in each channel the bank that has waited longest  *)
(* for a command gets the one that its row asks for.                       *)
Waiting(ch) == {b \in BanksOf(ch) : bank[b].state = "CMD"}
First(S) == CHOOSE b \in S : \A c \in S :
                \/ bank[b].stamp < bank[c].stamp
                \/ bank[b].stamp = bank[c].stamp /\ b <= c

Command(k) ==
    IF k.rid = Never
    THEN [k EXCEPT !.rid = RidOf(k.current), !.ready = m_activate_latency,
                   !.avail = Never, !.state = "CMD_WAIT"]
    ELSE IF k.rid = RidOf(k.current)
    THEN [k EXCEPT !.ready = m_column_latency, !.avail = m_column_latency,
                   !.state = "DATA"]
    ELSE [k EXCEPT !.rid = Never, !.ready = m_precharge_latency,
                   !.avail = Never, !.state = "CMD_WAIT"]

channel_schedule_cmd ==
    /\ phase = "cmd"
    /\ phase' = "data"
    /\ \E chosen \in {{First(Waiting(ch)) :
                        ch \in {c \in ChannelIds : Waiting(c) # {}}}} :
          bank' = [b \in Banks |-> IF b \in chosen THEN Command(bank[b]) ELSE bank[b]]
    /\ UNCHANGED <<info, channel, arrived, outputs, progress>>

(* channel_schedule_data: while the bus of a channel is available, the     *)
(* oldest bank with data takes it; acquire_data_bus.                       *)
DataReady(ch) == {b \in BanksOf(ch) : bank[b].state = "DATA" /\ bank[b].avail = 0}
Transfers(ch) == channel[ch].busy = 0 /\ DataReady(ch) # {}

acquire_data_bus(k) ==
    IF Size < k.bytes
    THEN [bytes |-> k.bytes - Size, busy |-> 0]
    ELSE [bytes |-> m_bus_width - ((Size - k.bytes) % m_bus_width),
          busy |-> ((Size - k.bytes) \div m_bus_width) + 1]

channel_schedule_data(ch) ==
    /\ phase = "data"
    /\ Transfers(ch) /\ \A c \in 0 .. ch - 1 : ~Transfers(c)
    /\ LET b == First(DataReady(ch))
           k == acquire_data_bus(channel[ch])
       IN  /\ channel' = [channel EXCEPT ![ch] = k]
           /\ bank' = [bank EXCEPT ![b].data = k.busy, ![b].avail = Never,
                                   ![b].state = "DATA_WAIT"]
    /\ UNCHANGED <<phase, info, arrived, outputs, progress>>

channels_done ==
    /\ phase = "data"
    /\ \A ch \in ChannelIds : ~Transfers(ch)
    /\ phase' = "complete"
    /\ UNCHANGED <<info, bank, channel, arrived, outputs, progress>>

(* bank_schedule_complete: the request whose data has come, and before it  *)
(* those to the same address in the buffer, are answered, write-backs      *)
(* freed.                                                                  *)
Same(b) == {r \in Buffered(b) : Merge /\ info[r].addr = info[bank[b].current].addr}
Completed(b) == SelectSeq(bank[b].buffer, LAMBDA r : r \in Same(b))
                    \o <<bank[b].current>>

Answered(s) == SelectSeq(s, LAMBDA r : info[r].type # "WB")

bank_schedule_complete ==
    /\ phase = "complete"
    /\ phase' = "new"
    /\ LET done == SelectSeq([i \in 1 .. NumBanks |-> i - 1],
                             LAMBDA b : bank[b].data = 0)
           all == FlattenSeq([i \in DOMAIN done |-> Completed(done[i])])
           answered == Answered(all)
       IN
       /\ completed' = (done # <<>>)
       /\ bank' = [b \in Banks |->
             IF bank[b].data = 0
             THEN [bank[b] EXCEPT !.buffer = Without(@, Same(b)),
                                  !.current = Never, !.state = "INIT",
                                  !.data = Never]
             ELSE bank[b]]
       /\ m_total_req' = m_total_req - Len(all)
       /\ IF AdditionalLatency = 0
          THEN /\ m_output_buffer' = m_output_buffer \o answered
               /\ UNCHANGED m_tmp_output_buffer
          ELSE /\ m_tmp_output_buffer' = m_tmp_output_buffer \o
                     [i \in DOMAIN answered |-> [req |-> answered[i],
                                                 rdy |-> AdditionalLatency]]
               /\ UNCHANGED m_output_buffer
       /\ arrived' = Without(arrived, ToSet(all))
       /\ info' = [r \in Requests |-> IF r \in ToSet(all) \ ToSet(answered)
                                      THEN NoRequest ELSE info[r]]
    /\ UNCHANGED <<channel, m_starvation_cycle, unset>>

(* The order of dc_frfcfs_c::sort_func; with "FCFS" the buffer's own.      *)
Before(b, r, s) ==
    LET p == info[r].type = "DPRF"   q == info[s].type = "DPRF"
        h == RidOf(r) = bank[b].rid  i == RidOf(s) = bank[b].rid
    IN  \/ ~p /\ q
        \/ p = q /\ h /\ ~i
        \/ p = q /\ h = i /\ IndexFirstSubSeq(<<r>>, arrived)
                                 < IndexFirstSubSeq(<<s>>, arrived)
Sorted(b) == IF Policy = "FCFS" THEN bank[b].buffer
             ELSE SetToSortSeq(Buffered(b), LAMBDA r, s : Before(b, r, s))

(* bank_schedule_new: an idle bank takes up the next entry of its buffer,  *)
(* a bank whose command is done waits for the next one.                    *)
Scheduled(b) ==
    IF bank[b].current = Never /\ bank[b].buffer # <<>>
    THEN [bank[b] EXCEPT !.current = Head(Sorted(b)), !.state = "CMD",
                         !.buffer = Tail(Sorted(b)), !.ready = Never,
                         !.stamp = NumBanks + 1]
    ELSE IF bank[b].state = "CMD_WAIT" /\ bank[b].ready = 0
    THEN [bank[b] EXCEPT !.state = "CMD", !.ready = Never, !.stamp = NumBanks + 1]
    ELSE bank[b]

bank_schedule_new ==
    /\ phase = "new"
    /\ phase' = "receive"
    /\ bank' = [b \in Banks |-> Scheduled(b)]
    /\ UNCHANGED <<info, channel, arrived, outputs, progress>>

-----------------------------------------------------------------------------
(* The clock ticks: progress_check, and the ranks of the bank time stamps. *)
Down(n) == IF n > 0 THEN n - 1 ELSE n
Rank(banks, b) == Cardinality({banks[c].stamp : c \in
                      {c \in Banks : 0 < banks[c].stamp
                                     /\ banks[c].stamp <= banks[b].stamp}})
Ticked(banks) ==
    [b \in Banks |-> [banks[b] EXCEPT !.ready = Down(@), !.avail = Down(@),
                                      !.data = Down(@), !.stamp = Rank(banks, b)]]

(* The rest of the cycle after a buffer and the requests have changed.     *)
EndCycle(banks, total) ==
    /\ bank' = Ticked(banks)
    /\ channel' = [c \in ChannelIds |-> [channel[c] EXCEPT !.busy = Down(@)]]
    /\ m_tmp_output_buffer' = [i \in DOMAIN m_tmp_output_buffer |->
                                 [m_tmp_output_buffer[i] EXCEPT !.rdy = Down(@)]]
    /\ m_total_req' = total
    /\ m_starvation_cycle' = IF total > 0 /\ ~completed
                             THEN m_starvation_cycle + 1 ELSE 0
    /\ phase' = IF m_starvation_cycle' >= StarvationLimit THEN "aborted" ELSE "send"
    /\ UNCHANGED <<completed, m_output_buffer, unset>>

(* receive_packet, insert_new_req: a request for a full buffer first       *)
(* throws its prefetches away (flush_prefetch), and waits in the router if *)
(* that made no place.                                                     *)
Prefetches(b) == {r \in Buffered(b) : info[r].type = "DPRF"}

Flushed(b) ==
    IF Len(bank[b].buffer) + (IF bank[b].current = Never THEN 0 ELSE 1) < BufferSize
    THEN {} ELSE Prefetches(b)

receive_packet(r, addr, type) ==
    /\ phase = "receive"
    /\ info[r] = NoRequest
    /\ LET b == Bid(addr)
           gone == Flushed(b)
           kept == Without(bank[b].buffer, gone)
           room == Len(kept) + (IF bank[b].current = Never THEN 0 ELSE 1) < BufferSize
           total == m_total_req - Cardinality(gone) + (IF room THEN 1 ELSE 0)
       IN
       /\ info' = [x \in Requests |->
                     IF x \in gone THEN NoRequest
                     ELSE IF x = r /\ room THEN [addr |-> addr, type |-> type]
                     ELSE info[x]]
       /\ arrived' = Without(arrived, gone) \o (IF room THEN <<r>> ELSE <<>>)
       /\ EndCycle([bank EXCEPT ![b].buffer = kept \o (IF room THEN <<r>> ELSE <<>>)],
                   total)

nothing_received ==
    /\ phase = "receive"
    /\ EndCycle(bank, m_total_req)
    /\ UNCHANGED <<info, arrived>>

(* A demand miss has found the prefetch of its line: its type changes      *)
(* wherever it is.                                                         *)
promote(r) ==
    /\ phase = "send"
    /\ "DFETCH" \in Types
    /\ info[r].type = "DPRF"
    /\ info' = [info EXCEPT ![r].type = "DFETCH"]
    /\ UNCHANGED <<phase, bank, channel, arrived, outputs, progress>>

run_a_cycle ==
    \/ \E n \in 0 .. Len(m_output_buffer) : send_packet(n)
    \/ channel_schedule_cmd
    \/ \E ch \in ChannelIds : channel_schedule_data(ch)
    \/ channels_done
    \/ bank_schedule_complete
    \/ bank_schedule_new
    \/ \E r \in Requests, a \in Addresses, t \in Types : receive_packet(r, a, t)
    \/ nothing_received

Aborted == phase = "aborted" /\ UNCHANGED dramVars

Next == run_a_cycle \/ (\E r \in Requests : promote(r)) \/ Aborted

Spec == Init /\ [][Next]_dramVars

-----------------------------------------------------------------------------
(* Every request that was accepted is in exactly one place, no bank holds  *)
(* more than its buffer has entries, and m_total_req, which progress_check *)
(* trusts, has risen by those that wait for data since the start: it is    *)
(* off for ever by what it held then.                                      *)
Held(r) == {<<"b", b>> : b \in {b \in Banks : r \in Buffered(b)}}
           \cup {<<"c", b>> : b \in {b \in Banks : bank[b].current = r}}
           \cup {<<"t", i>> : i \in {i \in DOMAIN m_tmp_output_buffer :
                                        m_tmp_output_buffer[i].req = r}}
           \cup {<<"o", i>> : i \in {i \in DOMAIN m_output_buffer :
                                        m_output_buffer[i] = r}}
RequestsConserved ==
    /\ \A r \in Requests : Cardinality(Held(r)) = IF info[r] = NoRequest THEN 0 ELSE 1
    /\ \A b \in Banks : /\ Cardinality(Buffered(b)) = Len(bank[b].buffer)
                        /\ Len(bank[b].buffer)
                           + (IF bank[b].current = Never THEN 0 ELSE 1) <= BufferSize
    /\ m_total_req - unset[1] = Cardinality({r \in Requests :
                         \E h \in Held(r) : h[1] \in {"b", "c"}})

(* A bank that reads or transfers data has the row of its request open,    *)
(* and no two transfers of a channel take the same bytes of the bus: what  *)
(* is under way, with what is left of the last cycle, fits until the bus   *)
(* is free again.                                                          *)
DataFromOpenRow ==
    /\ \A b \in Banks : bank[b].state \in {"DATA", "DATA_WAIT"} =>
                            bank[b].rid = RidOf(bank[b].current)
    /\ \A ch \in ChannelIds :
          /\ channel[ch].bytes \in 1 .. m_bus_width
          /\ \A b \in BanksOf(ch) : bank[b].data <= channel[ch].busy

(* "if counter exceeds N, raise exception": no traffic brings the cycles   *)
(* without a completed request to the limit of progress_check.  It aborts  *)
(* only for what m_total_req or m_starvation_cycle held before anything    *)
(* was received.                                                           *)
NoStarvation == phase = "aborted" => unset[1] > 0 \/ unset[2] > 0

(* Only prefetches are thrown away: a demand request leaves through the    *)
(* output buffer, whatever it was when it came in.                         *)
DemandKept ==
    \A r \in Requests :
        info[r].type = "DFETCH" /\ info'[r] = NoRequest
        => \E i \in DOMAIN m_output_buffer : m_output_buffer[i] = r

=============================================================================
