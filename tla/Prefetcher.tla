----------------------------- MODULE Prefetcher -----------------------------
(***************************************************************************)
(* The hardware prefetcher of a MacSim core (pref_stride.cc) and the queue *)
(* that takes its requests to the L2 cache (pref_common.cc).  Every access *)
(* that reaches the L2 cache, and every miss of the L3 cache, trains the   *)
(* stride table; a trained entry puts the lines that are to come on the    *)
(* queue, and pref_update_queues sends them, some in every cycle.          *)
(*                                                                         *)
(* Only the stride prefetcher is registered, it neither trains on hits of  *)
(* the L3 cache nor uses the L1 queue, and nobody calls the handlers that  *)
(* feed the accuracy counters back; none of these is here.                 *)
(***************************************************************************)
EXTENDS Integers, Sequences, FiniteSets, FiniteSetsExt, SequencesExt

CONSTANTS
    Lines,                       (* the line numbers that are accessed     *)
    RegionLines,                 (* the lines of a stride region           *)
    TableN,                      (* KNOB_PREF_STRIDE_TABLE_N               *)
    SingleMode,                  (* KNOB_PREF_STRIDE_SINGLE_STRIDE_MODE    *)
    SingleThresh, MultiThresh,   (* ..._SINGLE_THRESH, ..._MULTI_THRESH    *)
    StartDistance, Degree, Distance,
    Size,                        (* KNOB_PREF_UL1REQ_QUEUE_SIZE            *)
    ScheduleNum,                 (* KNOB_PREF_UL1SCHEDULE_NUM              *)
    Garbage                      (* what an unused slot may hold           *)

PrefetcherAssumption ==
    /\ Lines \subseteq Nat /\ Garbage \subseteq Nat
    /\ {RegionLines, TableN, SingleThresh, MultiThresh, Degree, Distance,
        Size, ScheduleNum} \subseteq Nat \ {0}
    /\ StartDistance \in Nat
    /\ ScheduleNum <= Size
    /\ SingleMode \in BOOLEAN

VARIABLES
    table,                       (* region_table and index_table           *)
    newest,                      (* the entries of the latest last_access  *)
    m_l2req_queue,
    m_l2req_queue_req_pos,
    m_l2req_queue_send_pos

queueVars == <<m_l2req_queue, m_l2req_queue_req_pos, m_l2req_queue_send_pos>>
prefVars == <<table, newest, queueVars>>

-----------------------------------------------------------------------------

STRIDE_REGION(line) == line \div RegionLines

(* create_newentry: a valid entry for the region of the line.  The fields  *)
(* pref_count, pref_curr_state and pref_last_index are set, and read, only *)
(* once the entry is trained; until then they are 0 here.                  *)
create_newentry(line) ==
    [tag |-> STRIDE_REGION(line), valid |-> TRUE, trained |-> FALSE,
     train_count_mode |-> FALSE, num_states |-> 1, curr_state |-> 0,
     last_index |-> line, stride |-> <<0, 0>>, s_cnt |-> <<0, 0>>,
     strans |-> <<0, 0>>, recnt |-> 0, count |-> 0, pref_count |-> 0,
     pref_curr_state |-> 0, pref_last_index |-> 0, pref_sent |-> 0]

Invalid == [create_newentry(0) EXCEPT !.valid = FALSE]

(* The two states of an entry are 0 and 1.                                 *)
Of(pair, state) == pair[state + 1]

Init ==
    /\ table = [i \in 1 .. TableN |-> Invalid]
    /\ newest = {}
    /\ m_l2req_queue \in
           [0 .. Size - 1 -> [line_index : Garbage, valid : {FALSE}]]
    /\ m_l2req_queue_req_pos = -1
    /\ m_l2req_queue_send_pos = 0

-----------------------------------------------------------------------------
(* pref_addto_l2req_queue_set on a queue with its insert position.  A line *)
(* that any slot names, sent or not, counts as a request already made.     *)
Skipped(queue, line) ==
    \/ line = 0
    \/ \E i \in 0 .. Size - 1 : queue.slot[i].line_index = line

pref_addto_l2req_queue(queue, line) ==
    LET next == (queue.pos + 1) % Size
    IN  CASE Skipped(queue, line) -> [queue EXCEPT !.full = FALSE]
          [] ~Skipped(queue, line) /\ queue.slot[next].valid ->
                 [queue EXCEPT !.full = TRUE]
          [] OTHER ->
                 [slot |-> [queue.slot EXCEPT
                               ![next] = [line_index |-> line, valid |-> TRUE]],
                  pos |-> next, full |-> FALSE]

-----------------------------------------------------------------------------
(* How the pattern goes on from a place in it: the next line is a stride   *)
(* further, or a transition after s_cnt strides, which changes the state.  *)
NextPlace(e, p) ==
    IF p.count = Of(e.s_cnt, p.state)
    THEN [line |-> p.line + Of(e.strans, p.state), count |-> 0,
          state |-> 1 - p.state]
    ELSE [line |-> p.line + Of(e.stride, p.state), count |-> p.count + 1,
          state |-> p.state]

PlaceAt(e, p, n) == FoldLeft(LAMBDA q, i : NextPlace(e, q), p, [i \in 1 .. n |-> i])

(* Where the accesses are, and where the prefetches are.                   *)
Accessed(e) ==
    [line |-> e.last_index, count |-> e.count, state |-> e.curr_state]
Prefetched(e) ==
    [line |-> e.pref_last_index, count |-> e.pref_count,
     state |-> e.pref_curr_state]

(* What an access a stride after the last does to an entry that is not     *)
(* trained: it counts equal strides, with another stride as the way to the *)
(* other state, and back in the first state it checks the pattern.         *)
Observe(e, stride, line) ==
    LET c == e.curr_state + 1
        other == 1 - e.curr_state
    IN  CASE ~e.train_count_mode /\ e.stride[c] = 0 ->
                 [e EXCEPT !.stride[c] = stride, !.s_cnt[c] = 1]
          [] ~e.train_count_mode /\ e.stride[c] # 0 /\ e.stride[c] = stride ->
                 [e EXCEPT !.s_cnt[c] = @ + 1]
          [] ~e.train_count_mode /\ e.stride[c] \notin {0, stride} /\ SingleMode ->
                 [e EXCEPT !.stride[c] = stride, !.s_cnt[c] = 1]
          [] ~e.train_count_mode /\ e.stride[c] \notin {0, stride} /\ ~SingleMode ->
                 [e EXCEPT !.strans[c] = stride, !.num_states = 2,
                           !.curr_state = other,
                           !.train_count_mode = (other = 0),
                           !.count = IF other = 0 THEN 0 ELSE @,
                           !.recnt = IF other = 0 THEN 0 ELSE @]
          [] e.train_count_mode /\ stride = e.stride[c] /\ e.count < e.s_cnt[c] ->
                 [e EXCEPT !.recnt = @ + 1, !.count = @ + 1]
          [] e.train_count_mode /\ stride = e.strans[c] /\ e.count = e.s_cnt[c] ->
                 [e EXCEPT !.recnt = @ + 1, !.count = 0, !.curr_state = other]
          [] OTHER -> create_newentry(line)

(* Enough equal strides: a stream of one stride.  The state is set to 0    *)
(* before its stride is taken as the stream's, so that it is stride[0].    *)
SingleStream(e) ==
    [e EXCEPT !.trained = TRUE, !.num_states = 1, !.curr_state = 0,
              !.pref_last_index = e.last_index + e.stride[1] * StartDistance]

(* Enough checked accesses: the prefetches start StartDistance ahead.      *)
MultiStream(e) ==
    LET start == PlaceAt(e, Accessed(e), StartDistance)
    IN  [e EXCEPT !.trained = TRUE, !.pref_count = start.count,
                  !.pref_curr_state = start.state,
                  !.pref_last_index = start.line]

Learn(e, stride, line) ==
    LET o == Observe(e, stride, line)
        s == IF Of(o.s_cnt, o.curr_state) >= SingleThresh
             THEN SingleStream(o) ELSE o
    IN  IF s.recnt >= MultiThresh THEN MultiStream(s) ELSE s

(* At most Degree prefetches for an access, until Distance are ahead or    *)
(* the queue is full.                                                      *)
OnePrefetch(single, state) ==
    LET e == state.entry
        p == IF single
             THEN [line |-> e.pref_last_index + e.stride[1],
                   count |-> e.pref_count, state |-> e.pref_curr_state]
             ELSE NextPlace(e, Prefetched(e))
        queue == pref_addto_l2req_queue(state.queue, p.line)
    IN  IF state.queue.full \/ e.pref_sent >= Distance THEN state
        ELSE [queue |-> queue,
              entry |-> IF queue.full THEN e
                        ELSE [e EXCEPT !.pref_last_index = p.line,
                                       !.pref_count = p.count,
                                       !.pref_curr_state = p.state,
                                       !.pref_sent = @ + 1]]

Prefetches(e, single, queue) ==
    FoldLeft(LAMBDA state, i : OnePrefetch(single, state),
             [entry |-> e, queue |-> queue], [i \in 1 .. Degree |-> i])

(* The access goes on with the pattern of a trained entry.                 *)
Follows(e, stride) ==
    \/ stride = Of(e.stride, e.curr_state) /\ e.count < Of(e.s_cnt, e.curr_state)
    \/ stride = Of(e.strans, e.curr_state) /\ e.count = Of(e.s_cnt, e.curr_state)

Forget(e) == create_newentry(e.last_index)

Use(e, stride, queue) ==
    LET sent == [e EXCEPT !.pref_sent = IF @ = 0 THEN 0 ELSE @ - 1]
        on == NextPlace(e, Accessed(e))
    IN  CASE e.num_states = 1 /\ stride = e.stride[1] ->
                 Prefetches(sent, TRUE, queue)
          [] ~(e.num_states = 1 /\ stride = e.stride[1]) /\ Follows(e, stride) ->
                 Prefetches([sent EXCEPT !.count = on.count,
                                         !.curr_state = on.state],
                            FALSE, queue)
          [] OTHER -> [entry |-> Forget(e), queue |-> queue]

-----------------------------------------------------------------------------
(* train for a line.  A region that the table does not hold takes an       *)
(* unused entry, or else the first of the entries that were accessed last. *)
(* same: this access is in the same cycle as the last one.                 *)
Held(line) ==
    {i \in 1 .. TableN : table[i].valid /\ table[i].tag = STRIDE_REGION(line)}

Replaced ==
    LET unused == {i \in 1 .. TableN : ~table[i].valid}
    IN  IF unused # {} THEN Min(unused) ELSE Min(newest)

Touch(i, same) == newest' = IF same THEN newest \cup {i} ELSE {i}

Create(line, same) ==
    /\ Held(line) = {}
    /\ \E i \in {Replaced} :
          /\ table' = [table EXCEPT ![i] = create_newentry(line)]
          /\ Touch(i, same)
    /\ UNCHANGED queueVars

Train(line, same) ==
    \E i \in Held(line) :
        \E e \in {[table[i] EXCEPT !.last_index = line]},
           stride \in {line - table[i].last_index} :
            /\ Touch(i, same)
            /\ \/ /\ ~e.trained
                  /\ table' = [table EXCEPT ![i] = Learn(e, stride, line)]
                  /\ UNCHANGED queueVars
               \/ /\ e.trained
                  /\ \E r \in {Use(e, stride, [slot |-> m_l2req_queue,
                                               pos |-> m_l2req_queue_req_pos,
                                               full |-> FALSE])} :
                        /\ table' = [table EXCEPT ![i] = r.entry]
                        /\ m_l2req_queue' = r.queue.slot
                        /\ m_l2req_queue_req_pos' = r.queue.pos
                  /\ UNCHANGED m_l2req_queue_send_pos

train(line, same) == Create(line, same) \/ Train(line, same)

(* pref_update_queues in a cycle in which new_mem_req takes room requests: *)
(* the send position goes over ScheduleNum slots, used or not, and stops   *)
(* at the first request that is not taken.  A request whose line came out  *)
(* negative is dropped.                                                    *)
Window(n) == {(m_l2req_queue_send_pos + k) % Size : k \in 0 .. n - 1}

Asked(n) ==
    {i \in Window(n) : m_l2req_queue[i].valid /\ m_l2req_queue[i].line_index > 0}

pref_update_queues(room) ==
    \E n \in {Max({k \in 0 .. ScheduleNum : Cardinality(Asked(k)) <= room})} :
        /\ m_l2req_queue' = [i \in 0 .. Size - 1 |->
               [m_l2req_queue[i] EXCEPT !.valid = @ /\ i \notin Window(n)]]
        /\ m_l2req_queue_send_pos' = (m_l2req_queue_send_pos + n) % Size
        /\ UNCHANGED <<table, newest, m_l2req_queue_req_pos>>

(* hwp_common_c::train hands an access of the L2 cache on as one of the L1 *)
(* level, and a miss of the L3 cache as one of the L2 level, so that a     *)
(* line that misses in both trains the table twice.                        *)
pref_l1_hit(line, same) == train(line, same)
pref_l1_miss(line, same) == train(line, same)
pref_l2_miss(line, same) == train(line, same)

Trained(line, same) ==
    \/ pref_l1_hit(line, same)
    \/ pref_l1_miss(line, same)
    \/ pref_l2_miss(line, same)

Next ==
    \/ \E line \in Lines, same \in BOOLEAN : Trained(line, same)
    \/ \E room \in 0 .. ScheduleNum : pref_update_queues(room)

Spec == Init /\ [][Next]_prefVars

-----------------------------------------------------------------------------

(* The prefetches of a trained entry of two strides stay on the pattern    *)
(* that the accesses are checked against: they are a number of places      *)
(* ahead of them, at most StartDistance + Distance, or a full queue has    *)
(* let them fall behind.  The two positions advance in different branches  *)
(* of train.                                                               *)
OnThePattern ==
    \A i \in 1 .. TableN :
        LET e == table[i]
        IN  e.valid /\ e.trained /\ e.num_states = 2 =>
                \/ \E n \in 0 .. StartDistance + Distance :
                       PlaceAt(e, Accessed(e), n) = Prefetched(e)
                \/ \E n \in 1 .. 2 * Cardinality(Lines) :
                       PlaceAt(e, Prefetched(e), n) = Accessed(e)

(* The prefetches of a stream of one stride are at most StartDistance +    *)
(* Distance strides ahead, and on its lines.                               *)
WithinDistance ==
    \A i \in 1 .. TableN :
        LET e == table[i]
        IN  e.valid /\ e.trained /\ e.num_states = 1 =>
                \E n \in -Cardinality(Lines) .. StartDistance + Distance :
                    e.pref_last_index = e.last_index + n * e.stride[1]

(* The add filter keeps the queue free of doubles: no line is under        *)
(* request twice, whatever slots the send position has left behind.        *)
NoDoubles ==
    \A i, j \in 0 .. Size - 1 :
        /\ m_l2req_queue[i].valid /\ m_l2req_queue[j].valid
        /\ m_l2req_queue[i].line_index = m_l2req_queue[j].line_index
        => i = j

=============================================================================
