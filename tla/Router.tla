------------------------------- MODULE Router -------------------------------
(***************************************************************************)
(* The network of MacSim (IntegrationWithMacSim/src/router.cc): wormhole   *)
(* routers with virtual channels and credits, on a ring or a mesh.  Every  *)
(* cycle the routers run one after another, from another one each cycle,   *)
(* and each runs its stages from the last to the first: credits, link (LT),*)
(* switch (ST), switch allocation (SA), virtual channel allocation (VCA),  *)
(* route (RC) and injection.  A stage works on all ports of a router at    *)
(* once, except where a port sees what the one before it did.  Time is     *)
(* counted down, and the time stamps of the packets, which only arbitrate, *)
(* are their ranks.  No line initialises a router's clock, m_cycle: it is  *)
(* either the clock of the simulation, CYCLE, or so far ahead of it that   *)
(* no simulation gets there.                                               *)
(***************************************************************************)
EXTENDS Integers, Sequences, FiniteSets, SequencesExt

CONSTANTS
    Topology,      (* "ring" or "mesh"                                     *)
    NumRouters,
    Width,         (* of the mesh                                          *)
    m_num_vc,
    m_buffer_max_size,
    m_injection_buffer_max_size,
    m_link_latency,
    Messages,      (* the packets: [src, dst, len], len in flits           *)
    Clocks         (* what the routers' clocks may be at the start: 0 is   *)
                   (* CYCLE, and a larger one is never reached by a        *)
                   (* smaller one                                          *)

Routers == 0 .. NumRouters - 1
VCs == 0 .. m_num_vc - 1
LOCAL_ == 0
LEFT == 1
RIGHT == 2
UP == 3
DOWN == 4
Ports == IF Topology = "ring" THEN 0 .. 2 ELSE 0 .. 4
Channels == Routers \X Ports \X VCs
None == -1

RouterAssumption ==
    /\ Topology \in {"ring", "mesh"}
    /\ NumRouters \in Nat \ {0} /\ m_num_vc \in Nat \ {0, 1}
    /\ Topology = "mesh" => NumRouters = Width * Width
    /\ m_buffer_max_size \in Nat /\ m_link_latency \in Nat \ {0}
    /\ m_injection_buffer_max_size \in Nat \ {0}
    /\ \A m \in Messages : /\ m.src \in Routers /\ m.dst \in Routers
                           /\ m.src # m.dst
                           /\ m.len \in 1 .. m_buffer_max_size
    /\ Clocks \subseteq [Routers -> Nat]

VARIABLES
    turn, stage, slot,   (* how far the cycle is                           *)
    clock,               (* CYCLE, modulo what it is used modulo           *)
    m_cycle,             (* how far ahead of CYCLE each router's clock is  *)
    m_injection_buffer, m_req_buffer,
    input, output,       (* the flits of m_input_buffer, m_output_buffer   *)
    m_route,
    m_route_fixed,       (* and m_output_port_id, which is set with it     *)
    m_output_vc_id,
    m_output_vc_avail,   (* the output channels that are available         *)
    m_credit,
    returned, underway,  (* m_pending_credit, ready and not ready yet      *)
    m_link_avail,        (* the cycles a link is still busy                *)
    stamp                (* the rank of a packet's time stamp, 0 outside   *)

buffers == <<m_injection_buffer, m_req_buffer>>
routing == <<m_route, m_route_fixed, m_output_vc_id>>
credits == <<m_credit, returned, underway>>
networkVars == <<turn, stage, slot, clock, m_cycle, buffers, input, output, routing,
                 m_output_vc_avail, credits, m_link_avail, stamp>>

-----------------------------------------------------------------------------
(* The links of init_ring and init_mesh.                                   *)

m_opposite_dir(p) == CASE p = LEFT -> RIGHT [] p = RIGHT -> LEFT
                       [] p = UP -> DOWN [] p = DOWN -> UP [] OTHER -> p

m_link(r, p) ==
    IF Topology = "ring"
    THEN CASE p = LEFT -> (r - 1 + NumRouters) % NumRouters
           [] p = RIGHT -> (r + 1) % NumRouters
           [] OTHER -> None
    ELSE CASE p = UP /\ r \div Width > 0 -> r - Width
           [] p = DOWN /\ r \div Width < Width - 1 -> r + Width
           [] p = LEFT /\ r % Width # 0 -> r - 1
           [] p = RIGHT /\ r % Width # Width - 1 -> r + 1
           [] OTHER -> None

(* The output channels that lead to a router, and the other end of a       *)
(* channel, either way.                                                    *)
Linked == {c \in Channels : c[2] # LOCAL_ /\ m_link(c[1], c[2]) # None}
Far(c) == <<m_link(c[1], c[2]), m_opposite_dir(c[2]), c[3]>>

-----------------------------------------------------------------------------

Init ==
    /\ turn = 0 /\ stage = "credit" /\ slot = 0 /\ clock = 0
    /\ m_cycle \in Clocks
    /\ m_injection_buffer = [r \in Routers |-> <<>>]
    /\ m_req_buffer = [r \in Routers |-> <<>>]
    /\ input = [c \in Channels |-> <<>>]
    /\ output = [c \in Channels |-> <<>>]
    /\ m_route = [c \in Channels |-> [i \in 0 .. 1 |-> {}]]
    /\ m_route_fixed = [c \in Channels |-> None]
    /\ m_output_vc_id = [c \in Channels |-> None]
    /\ m_output_vc_avail = Channels
    /\ m_credit = [c \in Channels |-> m_buffer_max_size]
    /\ returned = [c \in Channels |-> 0]
    /\ underway = [c \in Channels |-> 0]
    /\ m_link_avail = [l \in Routers \X Ports |-> 0]
    /\ stamp = [m \in Messages |-> 0]

(* The router whose turn it is.                                            *)
me == (clock + turn) % NumRouters
Mine == {c \in Channels : c[1] = me}

IsHead(f) == f.id = 1
IsTail(f) == f.id = f.msg.len

(* The time stamp of a packet, which the router that sent it set: its rank *)
(* and the clocks' lead (the rank is at most Cardinality(Messages) + 1).   *)
m_timestamp(m) == m_cycle[m.src] * (Cardinality(Messages) + 2) + stamp[m]

(* The first of the input channels S by time stamp, port and number.       *)
Oldest(S) ==
    CHOOSE c \in S : \A d \in S :
        LET s == m_timestamp(Head(input[c]).msg)
            t == m_timestamp(Head(input[d]).msg)
        IN  s < t \/ (s = t /\ c[2] * m_num_vc + c[3] <= d[2] * m_num_vc + d[3])

(* The input channels of the router that have output port p: stage_sa and  *)
(* stage_st look at those with a flit, from other ports.                   *)
Granted(p) == {c \in Mine : /\ c[2] # p
                            /\ m_route_fixed[c] = p
                            /\ input[c] # <<>>}

SetState(S, s) ==
    input' = [c \in Channels |->
                IF c \in S THEN <<[Head(input[c]) EXCEPT !.state = s]>>
                                    \o Tail(input[c])
                           ELSE input[c]]

-----------------------------------------------------------------------------
(* What the memory system does between two cycles of the network.          *)

BetweenCycles == turn = 0 /\ stage = "credit"

InNetwork(m) == \/ stamp[m] # 0
                \/ \E r \in Routers, i \in 1 .. m_injection_buffer_max_size :
                      i <= Len(m_injection_buffer[r])
                      /\ m_injection_buffer[r][i] = m
                \/ \E i \in DOMAIN m_req_buffer[m.dst] : m_req_buffer[m.dst][i] = m

inject_packet(m) ==
    /\ BetweenCycles
    /\ ~InNetwork(m)
    /\ Len(m_injection_buffer[m.src]) < m_injection_buffer_max_size
    /\ m_injection_buffer' = [m_injection_buffer EXCEPT ![m.src] = Append(@, m)]
    /\ UNCHANGED <<turn, stage, slot, clock, m_cycle, m_req_buffer, input, output,
                   routing, m_output_vc_avail, credits, m_link_avail, stamp>>

(* receive_req and pop_req.                                                *)
pop_req(r) ==
    /\ BetweenCycles
    /\ m_req_buffer[r] # <<>>
    /\ m_req_buffer' = [m_req_buffer EXCEPT ![r] = Tail(@)]
    /\ UNCHANGED <<turn, stage, slot, clock, m_cycle, m_injection_buffer, input, output,
                   routing, m_output_vc_avail, credits, m_link_avail, stamp>>

-----------------------------------------------------------------------------
(* A router with nothing to do goes through its stages in one step.        *)
Quiet ==
    /\ stage = "credit"
    /\ m_injection_buffer[me] = <<>>
    /\ \A c \in Mine : input[c] = <<>> /\ output[c] = <<>> /\ returned[c] = 0

process_pending_credit ==
    /\ stage = "credit" /\ ~Quiet
    /\ stage' = "lt"
    /\ m_credit' = [c \in Channels |-> IF c \in Mine THEN m_credit[c] + returned[c]
                                                     ELSE m_credit[c]]
    /\ returned' = [c \in Channels |-> IF c \in Mine THEN 0 ELSE returned[c]]
    /\ UNCHANGED <<turn, slot, clock, m_cycle, buffers, input, output, routing,
                   m_output_vc_avail, underway, m_link_avail, stamp>>

(* stage_lt: the ports up to the first whose link is busy send the first   *)
(* flit of a channel that has one and a credit, from another channel each  *)
(* cycle.  A tail gives the channel up; at the local port it completes the *)
(* packet.                                                                 *)
MaySend(p) == {d \in 0 .. m_num_vc - 1 :
                LET c == <<me, p, (d + clock) % m_num_vc>>
                IN  output[c] # <<>> /\ m_credit[c] # 0}
SendingPorts == {p \in Ports : /\ \A q \in 0 .. p : m_link_avail[<<me, q>>] = 0
                               /\ MaySend(p) # {}}
Sent == {<<me, p, (Min(MaySend(p)) + clock) % m_num_vc>> : p \in SendingPorts}

(* Those whose packet has left.  A mutant: after any flit.                 *)
Mutant_Tails(sent) == sent
Tails(sent) == {c \in sent : IsTail(Head(output[c]))}

(* A flit is ready at a time of the router that sent it, by the clock of   *)
(* the one that gets it, r.                                                *)
Never == -1
Arrives(f, r) ==
    [f EXCEPT !.state = "IB",
              !.rdy = CASE ~IsHead(f) \/ m_cycle[me] < m_cycle[r] -> 0
                        [] m_cycle[me] > m_cycle[r] -> Never
                        [] OTHER -> m_link_latency + 1]

stage_lt ==
    /\ stage = "lt"
    /\ stage' = "st"
    /\ \E sent \in {Sent} :
       LET linked == sent \cap Linked
           tails == Tails(sent)
           done == {Head(output[c]).msg : c \in tails \ Linked}
       IN
       /\ output' = [c \in Channels |-> IF c \in sent THEN Tail(output[c])
                                                      ELSE output[c]]
       /\ input' = [c \in Channels |->
                        IF c \in Linked /\ Far(c) \in linked
                        THEN Append(input[c], Arrives(Head(output[Far(c)]), c[1]))
                        ELSE input[c]]
       /\ m_credit' = [c \in Channels |-> IF c \in linked THEN m_credit[c] - 1
                                                          ELSE m_credit[c]]
       /\ m_output_vc_avail' = m_output_vc_avail \cup tails
       /\ m_link_avail' = [l \in Routers \X Ports |->
                              IF \E c \in linked : l = <<c[1], c[2]>>
                              THEN m_link_latency ELSE m_link_avail[l]]
       /\ m_req_buffer' = [r \in Routers |->
                              IF r = me THEN m_req_buffer[r] \o SetToSeq(done)
                                        ELSE m_req_buffer[r]]
       /\ stamp' = [m \in Messages |-> IF m \in done THEN 0 ELSE stamp[m]]
    /\ UNCHANGED <<turn, slot, clock, m_cycle, m_injection_buffer, routing, returned,
                   underway>>

(* stage_st: for each output port the flit that was allocated the switch   *)
(* goes to the output buffer, and a credit back to where it came from.  Of *)
(* several it would be that of the last port; there is only one.           *)
Allocated(p) == {c \in Granted(p) : Head(input[c]).state = "SA"}
Switched == {CHOOSE c \in Allocated(p) : \A d \in Allocated(p) :
                 c[2] > d[2] \/ (c[2] = d[2] /\ c[3] <= d[3])
             : p \in {p \in Ports : Allocated(p) # {}}}

OutOf(c) == <<me, m_route_fixed[c], m_output_vc_id[c]>>

stage_st ==
    /\ stage = "st"
    /\ stage' = "sa"
    /\ \E moved \in {Switched} :
       LET freed == {c \in moved : IsTail(Head(input[c]))}
           into(o) == {c \in moved : OutOf(c) = o}
       IN
       /\ input' = [c \in Channels |-> IF c \in moved THEN Tail(input[c])
                                                      ELSE input[c]]
       /\ output' = [o \in Channels |->
            IF into(o) = {} THEN output[o]
            ELSE Append(output[o], [Head(input[CHOOSE c \in into(o) : TRUE])
                                        EXCEPT !.state = "ST"])]
       /\ m_route_fixed' = [c \in Channels |-> IF c \in freed THEN None
                                               ELSE m_route_fixed[c]]
       /\ m_output_vc_id' = [c \in Channels |-> IF c \in freed THEN None
                                                ELSE m_output_vc_id[c]]
       /\ underway' = [c \in Channels |->
            IF c \in Linked /\ Far(c) \in moved THEN underway[c] + 1
                                                ELSE underway[c]]
    /\ UNCHANGED <<turn, slot, clock, m_cycle, buffers, m_route, m_output_vc_avail,
                   m_credit, returned, m_link_avail, stamp>>

(* stage_sa: for each output port the oldest flit that has a channel       *)
(* there; m_sw_avail is never in the future.                               *)
Requesting(p) == {c \in Granted(p) :
                    LET f == Head(input[c])
                    IN  f.state = IF IsHead(f) THEN "VCA" ELSE "IB"}

stage_sa ==
    /\ stage = "sa"
    /\ stage' = "vca" /\ slot' = 0
    /\ SetState({Oldest(Requesting(p)) : p \in {p \in Ports : Requesting(p) # {}}},
                "SA")
    /\ UNCHANGED <<turn, clock, m_cycle, buffers, output, routing, m_output_vc_avail,
                   credits, m_link_avail, stamp>>

(* stage_vca_pick_winner: of the heads that are routed to output port p,   *)
(* the escape channel by the escape route.  On a ring the last two         *)
(* channels are for the packets before and behind the dateline.            *)
rc_index(v) == IF Topology = "ring" THEN 0 ELSE v \div (m_num_vc - 1)
Dateline(r, v, dst) ==
    Topology = "ring" =>
        /\ v = m_num_vc - 2 => r <= dst
        /\ v = m_num_vc - 1 => r >= dst

Competing(p, v) ==
    {c \in Mine : /\ c[2] # p
                  /\ input[c] # <<>>
                  /\ p \in m_route[c][rc_index(v)]
                  /\ Dateline(me, v, Head(input[c]).msg.dst)
                  /\ IsHead(Head(input[c]))
                  /\ Head(input[c]).state = "RC"}

(* stage_vca goes through the output channels: from slot on, those that    *)
(* are available and have a winner.                                        *)
OutputAt(k) == <<me, k \div m_num_vc, k % m_num_vc>>
Open == {k \in slot .. Cardinality(Ports) * m_num_vc - 1 :
            /\ OutputAt(k) \in m_output_vc_avail
            /\ Competing(k \div m_num_vc, k % m_num_vc) # {}}

stage_vca ==
    /\ stage = "vca"
    /\ \E open \in {Open} :
       /\ open # {}
       /\ \E k \in {Min(open)} :
          \E c \in {Oldest(Competing(k \div m_num_vc, k % m_num_vc))} :
             /\ SetState({c}, "VCA")
             /\ m_route_fixed' = [m_route_fixed EXCEPT ![c] = k \div m_num_vc]
             /\ m_output_vc_id' = [m_output_vc_id EXCEPT ![c] = k % m_num_vc]
             /\ m_output_vc_avail' = m_output_vc_avail \ {OutputAt(k)}
             /\ slot' = k + 1
    /\ UNCHANGED <<turn, stage, clock, m_cycle, buffers, output, m_route, credits,
                   m_link_avail, stamp>>

vca_done ==
    /\ stage = "vca"
    /\ Open = {}
    /\ stage' = "rc" /\ slot' = 0
    /\ UNCHANGED <<turn, clock, m_cycle, buffers, input, output, routing,
                   m_output_vc_avail, credits, m_link_avail, stamp>>

-----------------------------------------------------------------------------
(* rc_ring: the shorter way, as the head decided where it came in.         *)
Shorter(r, dst) ==
    LET left == IF r > dst THEN r - dst ELSE r - dst + NumRouters
        right == IF r > dst THEN dst - r + NumRouters ELSE dst - r
    IN  IF left < right THEN LEFT ELSE RIGHT
Direction(f) == IF f.dir # None THEN f.dir ELSE Shorter(me, f.msg.dst)

rc_ring(f) == IF f.msg.dst = me THEN LOCAL_ ELSE Direction(f)

(* rc_mesh: the adaptive routes, either way nearer; the escape route, x    *)
(* before y.                                                               *)
rc_mesh(f) ==
    LET dx == (f.msg.dst % Width) - (me % Width)
        dy == (f.msg.dst \div Width) - (me \div Width)
        x == IF dx < 0 THEN {LEFT} ELSE IF dx > 0 THEN {RIGHT} ELSE {}
        y == IF dy < 0 THEN {UP} ELSE IF dy > 0 THEN {DOWN} ELSE {}
    IN  IF f.msg.dst = me THEN [i \in 0 .. 1 |-> {LOCAL_}]
        ELSE [i \in 0 .. 1 |-> IF i = 0 THEN x \cup y ELSE IF x # {} THEN x ELSE y]

Routes(f) == IF Topology = "ring"
             THEN [i \in 0 .. 1 |-> IF i = 0 THEN {rc_ring(f)} ELSE {}]
             ELSE rc_mesh(f)

Routed(f) == [f EXCEPT !.state = "RC",
                       !.dir = IF Topology = "ring" /\ f.msg.dst # me
                               THEN Direction(f) ELSE @]

stage_rc ==
    /\ stage = "rc"
    /\ stage' = "inject"
    /\ \E heads \in {{c \in Mine : /\ Topology = "ring" => m_route_fixed[c] = None
                                   /\ input[c] # <<>>
                                   /\ IsHead(Head(input[c]))
                                   /\ Head(input[c]).state = "IB"
                                   /\ Head(input[c]).rdy = 0}} :
        /\ m_route' = [c \in Channels |-> IF c \in heads
                           THEN Routes(Head(input[c])) ELSE m_route[c]]
        /\ input' = [c \in Channels |-> IF c \in heads
                         THEN <<Routed(Head(input[c]))>> \o Tail(input[c])
                         ELSE input[c]]
    /\ UNCHANGED <<turn, slot, clock, m_cycle, buffers, output, m_route_fixed,
                   m_output_vc_id, m_output_vc_avail, credits, m_link_avail,
                   stamp>>

(* local_packet_injection: as long as the first packet fits in a channel.  *)
Flits(m) == [i \in 1 .. m.len |-> [msg |-> m, id |-> i, state |-> "IB",
                                   rdy |-> 0, dir |-> None]]
Fitting == {v \in VCs :
              /\ m_injection_buffer[me] # <<>>
              /\ Len(input[<<me, LOCAL_, v>>]) + Head(m_injection_buffer[me]).len
                     <= m_buffer_max_size}

local_packet_injection ==
    /\ stage = "inject"
    /\ Fitting # {}
    /\ LET m == Head(m_injection_buffer[me]) IN
       /\ input' = [input EXCEPT ![<<me, LOCAL_, Min(Fitting)>>] = @ \o Flits(m)]
       /\ m_injection_buffer' = [m_injection_buffer EXCEPT ![me] = Tail(@)]
       /\ stamp' = [stamp EXCEPT ![m] = Cardinality(Messages) + 1]
    /\ UNCHANGED <<turn, stage, slot, clock, m_cycle, m_req_buffer, output, routing,
                   m_output_vc_avail, credits, m_link_avail>>

(* The next router of run_a_cycle.                                         *)
Through == Quiet \/ (stage = "inject" /\ Fitting = {})

next_router ==
    /\ Through
    /\ turn < NumRouters - 1
    /\ turn' = turn + 1
    /\ stage' = "credit"
    /\ UNCHANGED <<slot, clock, m_cycle, buffers, input, output, routing,
                   m_output_vc_avail, credits, m_link_avail, stamp>>

(* The end of the cycle: the clocks tick.  A credit is ready a cycle later *)
(* by the clock of the router that sent it, and is taken by CYCLE.         *)
Down(n) == IF n > 0 THEN n - 1 ELSE n
Ready(c) == c \in Linked /\ m_cycle[Far(c)[1]] = 0
Tick(f) == [f EXCEPT !.rdy = Down(@)]
Rank(m) == Cardinality({stamp[x] : x \in {y \in Messages : /\ stamp[y] > 0
                                                           /\ stamp[y] <= stamp[m]}})

end_cycle ==
    /\ Through
    /\ turn = NumRouters - 1
    /\ turn' = 0
    /\ stage' = "credit"
    /\ clock' = (clock + 1) % (NumRouters * m_num_vc)
    /\ input' = [c \in Channels |-> [i \in DOMAIN input[c] |-> Tick(input[c][i])]]
    /\ m_link_avail' = [l \in Routers \X Ports |-> Down(m_link_avail[l])]
    /\ returned' = [c \in Channels |-> IF Ready(c) THEN returned[c] + underway[c]
                                                   ELSE returned[c]]
    /\ underway' = [c \in Channels |-> IF Ready(c) THEN 0 ELSE underway[c]]
    /\ stamp' = [m \in Messages |-> Rank(m)]
    /\ UNCHANGED <<slot, m_cycle, buffers, output, routing, m_output_vc_avail,
                   m_credit>>

run_a_cycle ==
    \/ process_pending_credit
    \/ stage_lt
    \/ stage_st
    \/ stage_sa
    \/ stage_vca \/ vca_done
    \/ stage_rc
    \/ local_packet_injection
    \/ next_router
    \/ end_cycle

Next ==
    \/ \E m \in Messages : inject_packet(m)
    \/ \E r \in Routers : pop_req(r)
    \/ run_a_cycle

Spec == Init /\ [][Next]_networkVars

-----------------------------------------------------------------------------
(* A router has a credit for every free place of the buffer at the other   *)
(* end of the link, or the credit is on its way: no flit is sent to a full *)
(* buffer, although insert_packet does not look.                           *)
CreditsMatchSpace ==
    \A c \in Linked :
        m_credit[c] + returned[c] + underway[c] + Len(input[Far(c)])
            = m_buffer_max_size

(* What is on either side of a link is a sequence of whole packets, the    *)
(* last one perhaps with its end still to come: packets that share a       *)
(* channel do not mix, and no flit is lost or overtaken.                   *)
Follows(f, g) == IF IsTail(f) THEN IsHead(g)
                              ELSE g.msg = f.msg /\ g.id = f.id + 1
PacketsInSequence ==
    \A c \in Channels :
        LET flits == IF c \in Linked THEN input[Far(c)] \o output[c]
                                     ELSE output[c]
        IN  \A i \in 1 .. Len(flits) - 1 : Follows(flits[i], flits[i + 1])

(* Packets that hold a channel of a ring while they wait for the next one  *)
(* cannot wait for each other all around it: on the way of every packet    *)
(* the channels that the dateline rule leaves it come in one order, the    *)
(* same for all.                                                           *)
ChannelOrder(c) ==
    LET before == IF c[2] = RIGHT THEN m_num_vc - 1 ELSE m_num_vc - 2
    IN  (IF c[3] = before THEN 0 ELSE NumRouters)
            + IF c[2] = RIGHT THEN c[1] ELSE NumRouters - 1 - c[1]
NoCircularWait ==
    \A r, dst \in Routers, v, w \in VCs :
        LET p == Shorter(r, dst)
            s == m_link(r, p)
        IN  /\ r # dst /\ s # dst
            /\ Dateline(r, v, dst) /\ Dateline(s, w, dst)
            => ChannelOrder(<<r, p, v>>) < ChannelOrder(<<s, p, w>>)

(* The routers' clocks are CYCLE.                                          *)
ClocksAgree == \A r \in Routers : m_cycle[r] = 0

(* A packet that the memory system receives is where it was sent, and all  *)
(* of it.                                                                  *)
DeliveredWhole ==
    \A r \in Routers : \A i \in DOMAIN m_req_buffer[r] :
        /\ m_req_buffer[r][i].dst = r
        /\ \A c \in Channels :
              /\ \A k \in DOMAIN input[c] : input[c][k].msg # m_req_buffer[r][i]
              /\ \A k \in DOMAIN output[c] : output[c][k].msg # m_req_buffer[r][i]

=============================================================================
