------------------------------- MODULE Round -------------------------------
(***************************************************************************)
(* The Round controller (system/Round): rounds of one direction, in which  *)
(* every requestor is served once.  A round takes in the commands of its   *)
(* direction that come while it lasts, unless waiting for an activation    *)
(* would let the data bus run dry (blockACT).  Activations come in two     *)
(* types, ACT_R and ACT_W, by the direction of their request.              *)
(*                                                                         *)
(* One command queue holds a buffer per requestor, with a bank of its own. *)
(* lastCAScounter is kept as the cycles since, and time_issued_first_ACT   *)
(* as far as it is compared; the arrays, of 16 entries in the code, have   *)
(* one for each requestor.                                                 *)
(***************************************************************************)
EXTENDS Overtaking

CONSTANT Garbage   (* what the constructor may leave in the members it     *)
                   (* does not set: 0, or 1 too                            *)

RoundAssumption == PrivatizedAssumption /\ Garbage \subseteq {0, 1}

VARIABLES
    Order,               (* the requestors whose ACT or CAS waits, and     *)
                         (* those between the two                          *)
    OrderPRE,            (* the requestors by their last precharge         *)
    closestatemap,       (* those whose ACT has entered, and not left by   *)
                         (* a CAS                                          *)
    queuePending,        (* those with a command in tempqueue              *)
    servicebuffer, consideredScheduled,
    roundType,           (* true is a round of reads                       *)
    jump,
    firstOfRound,        (* the member first                               *)
    countACT, time_issued_first_ACT, ACTtimer, CAStimer,
    sinceCAS             (* clock - lastCAScounter                         *)

arrays == <<servicebuffer, consideredScheduled>>
timers == <<countACT, time_issued_first_ACT, ACTtimer, CAStimer, sinceCAS>>
flags == <<roundType, jump, firstOfRound>>
rndVars == <<Order, OrderPRE, closestatemap, queuePending, arrays, flags,
             timers>>

tCCD == 4            (* the literals of commandSchedule                    *)
compensation == 1
tRTW == nCL + nBL + 2 - nCWL
tWtoR == nCWL + nWTR (* getTiming does not know "tBUS" and says 0          *)
SinceMax == tRTW + tWtoR

RoundInit ==
    /\ PerRequestorInit
    /\ Order = <<>>
    /\ OrderPRE = [i \in 1..8 |-> i - 1]
    /\ closestatemap = {} /\ queuePending = {}
    /\ servicebuffer \in [Requestors -> Garbage]
    /\ consideredScheduled \in [Requestors -> Garbage]
    /\ roundType = TRUE
    /\ jump \in {g = 1 : g \in Garbage}
    /\ firstOfRound = TRUE
    /\ countACT \in Garbage
    /\ time_issued_first_ACT = 0 /\ ACTtimer = 0 /\ CAStimer = 0
    /\ sinceCAS = 1
    /\ OvertakingInit

-----------------------------------------------------------------------------
(* CommandGenerator_Round: like CommandGenerator_Open, with its own types. *)
(* Its array first has eight entries (CommandGenerator.h:24), as a device  *)
(* has eight banks; with a ninth requestor both are taken to be wider.     *)
RoundCommands(q) ==
    LET act == Command(IF IsRead(q) THEN "ACT_R" ELSE "ACT_W", q)
        row == IF isRowHit(q) THEN <<>>
               ELSE IF first[q.bank] THEN <<act>>
               ELSE <<Command("PRE", q), act>>
        cas == Command(IF IsRead(q) THEN "RD" ELSE "WR", q)
    IN  row \o [i \in 1..Beats |-> cas]

(* ScheduleRequest with that generator.                                    *)
RoundRequest(r, more) ==
    LET q == Head(requestBuffer[r]) IN
    /\ phase' = IF more THEN "request" ELSE "command"
    /\ commandQueue' = [commandQueue EXCEPT ![q.bank] = @ \o RoundCommands(q)]
    /\ first' = IF isRowHit(q) THEN first ELSE [first EXCEPT ![q.bank] = FALSE]
    /\ requestBuffer' = [requestBuffer EXCEPT ![r] = Tail(@)]
    /\ bankTable' = updateRowTable(q)
    /\ UNCHANGED <<coreVars, pendingVars, cmdQueueTimer, openRow, dataVars,
                   deviceVars>>

(* RequestScheduler_DIRECT's loop, as in PerRequestor.                     *)
roundRequestSchedule ==
    LET last == requestorIndex = Len(requestorOrder)
        r == requestorOrder[requestorIndex]
    IN
    /\ phase = "request"
    /\ requestorIndex <= Len(requestorOrder)
    /\ requestorIndex' = NextIndex(requestorIndex)
    /\ \/ requestBuffer[r] # <<>> /\ RoundRequest(r, ~last)
       \/ requestBuffer[r] = <<>> /\ last /\ EndSchedule
       \/ requestBuffer[r] = <<>> /\ ~last /\ UNCHANGED vars
    /\ UNCHANGED requestorOrder

-----------------------------------------------------------------------------
TypeAt(r) == Head(commandQueue[r]).busPacketType
Entering == SelectSeq(requestorOrder, LAMBDA r :
                /\ commandQueue[r] # <<>>
                /\ r \notin queuePending
                /\ isReady(r))

(* The commands of a direction, in tempqueue.                              *)
ActOf(read) == IF read THEN "ACT_R" ELSE "ACT_W"
CasOf(read) == IF read THEN "RD" ELSE "WR"
Of(read, pending) == {r \in pending : TypeAt(r) \in {ActOf(read), CasOf(read)}}

(* The state of a round, as commandSchedule computes it before it sends:   *)
(* after the timers went down, and after the end of a round, found by the  *)
(* absence of anybody scheduled, was answered by a new round, of the other *)
(* direction if a command of it waits.                                     *)
Ticked == [service |-> servicebuffer, considered |-> consideredScheduled,
           read |-> roundType, fresh |-> firstOfRound, count |-> countACT,
           cas |-> Down(CAStimer), act |-> Down(ACTtimer)]

clean_buffers(s) ==
    [s EXCEPT !.service = [r \in Requestors |-> 0],
              !.considered = [r \in Requestors |-> 0],
              !.fresh = TRUE, !.count = 0, !.act = 0]

(* The change of direction: the last of the commands found sets the        *)
(* timers; for a round of reads CAStimer is then set to 0 all the same.    *)
Switched(s, r) ==
    LET wait == IF s.read THEN tRTW ELSE tWtoR
        cas == CASE sinceCAS < wait -> wait - sinceCAS
                 [] sinceCAS >= wait /\ TypeAt(r) \in Acts -> 0
                 [] OTHER -> tCCD
    IN  [clean_buffers(s) EXCEPT
            !.read = ~@,
            !.cas = IF s.read THEN cas ELSE 0,
            !.act = IF sinceCAS >= wait /\ TypeAt(r) \in Acts THEN nRRD ELSE 0]

Begun(s, pending) ==
    IF \E r \in Requestors : s.considered[r] = 1 THEN s
    ELSE IF Of(~s.read, pending) # {} THEN Switched(s, Max(Of(~s.read, pending)))
    ELSE IF ~jump /\ Of(s.read, pending) # {} THEN clean_buffers(s)
    ELSE s

(* blockACT: no activation of the round waits, and the CAS commands that   *)
(* do keep the bus busy for less than an activation takes.  In a round of  *)
(* writes, too, it is reads that are counted.                              *)
blockACT(s, order, pending) ==
    LET Unserved(r, c) == s.service[r] = 0 /\ s.considered[r] = c
        checkA == \E r \in Range(order) \cap pending :
                      Unserved(r, 1) /\ TypeAt(r) = ActOf(s.read)
        checkB == {r \in Range(order) : Unserved(r, 1)}
        checkD == {r \in Range(order) \cap pending :
                      Unserved(r, 0) /\ TypeAt(r) = "RD"}
    IN  /\ s.act = 0 /\ ~s.fresh /\ ~checkA
        /\ (Cardinality(checkB) + Cardinality(checkD)) * tCCD + s.cas
               < nRCD + compensation

(* Accepting: without blockACT, every command of the direction that is in  *)
(* Order and not served in this round.                                     *)
Accepted(s, order, pending, block) ==
    [s EXCEPT !.considered = [r \in Requestors |->
        IF /\ ~block /\ r \in Range(order) \cap Of(s.read, pending)
           /\ s.service[r] = 0 /\ @[r] = 0
        THEN 1 ELSE @[r]]]

-----------------------------------------------------------------------------
(* What may be sent, as places in Order and OrderPRE.  An activation goes  *)
(* before a CAS wherever they stand.                                       *)
ActPlaces(s, order, pending, block) ==
    {i \in DOMAIN order : /\ ~block /\ order[i] \in pending
                          /\ TypeAt(order[i]) = ActOf(s.read)
                          /\ s.service[order[i]] = 0
                          /\ isIssuable(order[i])}
CasPlaces(s, order, pending) ==
    {i \in DOMAIN order : /\ order[i] \in pending
                          /\ TypeAt(order[i]) = CasOf(s.read)
                          /\ s.service[order[i]] = 0
                          /\ s.considered[order[i]] = 1
                          /\ isIssuable(order[i])}
PrePlaces(pending) ==
    {i \in DOMAIN OrderPRE : /\ OrderPRE[i] \in pending
                             /\ TypeAt(OrderPRE[i]) = "PRE"
                             /\ isIssuable(OrderPRE[i])}

Since(n) == Min({n, SinceMax})
firstACT == Min({time_issued_first_ACT + 1, nFAW})

Keep(s) ==
    /\ servicebuffer' = s.service /\ consideredScheduled' = s.considered
    /\ roundType' = s.read

(* send_precedure with an activation: its place in Order is left for the   *)
(* CAS.  The fourth of a window waits for its end; if that has come, the   *)
(* count stays.                                                            *)
SendACT(s, order, pending, r) ==
    LET late == s.count = 3 /\ firstACT >= nFAW IN
    /\ sendCommand(r)
    /\ queuePending' = pending \ {r}
    /\ Keep(s)
    /\ Order' = order
    /\ countACT' = CASE late -> 3
                     [] s.count = 3 /\ ~late -> 0
                     [] OTHER -> s.count + 1
    /\ time_issued_first_ACT' = IF s.count = 0 \/ (s.count = 3 /\ ~late)
                                    THEN 0 ELSE firstACT
    /\ ACTtimer' = CASE late -> s.act
                     [] s.count = 3 /\ ~late -> nFAW - firstACT
                     [] OTHER -> nRRD
    /\ CAStimer' = s.cas
    /\ sinceCAS' = Since(sinceCAS + 1)
    /\ firstOfRound' = FALSE
    /\ UNCHANGED <<OrderPRE, overtaken>>

(* send_precedure with a CAS: the requestor is served in this round.       *)
SendCAS(s, order, pending, closing, i) ==
    LET r == order[i] IN
    /\ sendCommand(r)
    /\ queuePending' = pending \ {r}
    /\ closestatemap' = closing \ {r}
    /\ Keep([s EXCEPT !.service[r] = 1, !.considered[r] = 0])
    /\ Order' = RemoveAt(order, i)
    /\ CAStimer' = tCCD
    /\ sinceCAS' = 1
    /\ ACTtimer' = s.act /\ countACT' = s.count
    /\ time_issued_first_ACT' = firstACT
    /\ firstOfRound' = FALSE
    /\ Overtake({w \in pending : TypeAt(w) \in Cas} \ {r}, r)
    /\ UNCHANGED OrderPRE

(* Otherwise a precharge goes, of the requestor whose last is longest ago, *)
(* or nothing.                                                             *)
SendOther(s, order, pending) ==
    LET i == Min(PrePlaces(pending)) IN
    /\ IF PrePlaces(pending) = {}
           THEN NoCommand /\ queuePending' = pending /\ UNCHANGED OrderPRE
           ELSE /\ sendCommand(OrderPRE[i])
                /\ queuePending' = pending \ {OrderPRE[i]}
                /\ OrderPRE' = Append(RemoveAt(OrderPRE, i), OrderPRE[i])
    /\ Keep(s)
    /\ Order' = order
    /\ CAStimer' = s.cas /\ ACTtimer' = s.act /\ countACT' = s.count
    /\ time_issued_first_ACT' = firstACT
    /\ sinceCAS' = Since(sinceCAS + 1)
    /\ firstOfRound' = s.fresh
    /\ UNCHANGED overtaken

(* commandSchedule: the ready commands enter tempqueue, and Order unless   *)
(* they are precharges or the CAS of an activation that entered before.    *)
commandSchedule ==
    /\ phase = "command"
    /\ \E enter \in {Entering} :
       \E pending \in {queuePending \cup Range(enter)},
          order \in {Order \o SelectSeq(enter, LAMBDA r :
                        \/ TypeAt(r) \in Acts
                        \/ TypeAt(r) \in Cas /\ r \notin closestatemap)},
          closing \in {closestatemap \cup
                          {r \in Range(enter) : TypeAt(r) \in Acts}} :
       \E begun \in {Begun(Ticked, pending)} :
       \E block \in {blockACT(begun, order, pending)} :
       \E s \in {Accepted(begun, order, pending, block)} :
       \E acts \in {ActPlaces(s, order, pending, block)},
          cas \in {CasPlaces(s, order, pending)} :
            /\ jump' = (jump /\ \E r \in Requestors : consideredScheduled[r] = 1)
            /\ \/ /\ acts # {}
                  /\ SendACT(s, order, pending, order[Min(acts)])
                  /\ closestatemap' = closing
               \/ /\ acts = {} /\ cas # {}
                  /\ SendCAS(s, order, pending, closing, Min(cas))
               \/ /\ acts = {} /\ cas = {}
                  /\ SendOther(s, order, pending)
                  /\ closestatemap' = closing
    /\ UNCHANGED registerVars

RoundNext ==
    \/ \E q \in Traffic :
            RegisteringSend(q) /\ UNCHANGED <<rndVars, overtaken>>
    \/ Others /\ UNCHANGED <<registerVars, rndVars, overtaken>>
    \/ NoRequestors /\ UNCHANGED <<rndVars, overtaken>>
    \/ roundRequestSchedule /\ UNCHANGED <<rndVars, overtaken>>
    \/ commandSchedule

=============================================================================
