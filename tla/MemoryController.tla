-------------------------- MODULE MemoryController --------------------------
(***************************************************************************)
(* One channel of MCsim with the requestors that use it: the cycle of      *)
(* src/main.cpp, in which every requestor is updated in turn, then the     *)
(* memory controller (src/MemoryController.cpp: schedule requests, enqueue *)
(* their commands, issue at most one command, deliver write data, count    *)
(* the timers down), then the memory device (src/MemoryDevice.cpp: deliver *)
(* read data).                                                             *)
(*                                                                         *)
(* Which requests are scheduled and which command is issued is the choice  *)
(* of the scheduler classes.  Here it is left open: any request of the     *)
(* buffers, any command at the head of a queue that is ready and issuable. *)
(* What holds here holds for every scheduler that makes that choice.       *)
(*                                                                         *)
(* The queues are those of CommandQueue=0010 (one per bank); with one per  *)
(* requestor and a private bank for each, they are the same.  Refresh is   *)
(* off, the build's setting.                                               *)
(***************************************************************************)
EXTENDS DDR3, FiniteSets, SequencesExt

CONSTANTS
    NumRequestors,     (* the requestors are 0 .. NumRequestors-1          *)
    Traffic,           (* the requests their traces may hold               *)
    InOrder,           (* inOrder: one request at a time                   *)
    RequestBufferSize, (* the limit Requestor::update compares with        *)
    ReqPerREQ,         (* one request buffer per requestor, or one for all *)
    WriteQueue,        (* writes have a buffer of their own, the           *)
                       (* WriteQueue of the RequestQueue                   *)
    ClosePage,         (* CommandGenerator CLOSE, or OPEN                  *)
    Beats,             (* requestSize / dataBusWidth                       *)
    UIntMax,           (* what an unsigned counter wraps to below 0        *)
    NoRow              (* no row of a bank is open                         *)

Requestors == 0 .. NumRequestors - 1
(* The buffers by their index; the write queue comes after the others.     *)
writeBuffer == NumRequestors
Buffers == (IF ReqPerREQ THEN Requestors ELSE {0})
           \cup (IF WriteQueue THEN {writeBuffer} ELSE {})
Rows == {q.row : q \in Traffic}
RequestType == {"DATA_READ", "DATA_WRITE"}

ASSUME ControllerAssumption ==
    /\ NumRequestors \in Nat \ {0}
    /\ Banks \subseteq 0..15
    /\ Traffic \subseteq [requestorID : Requestors, requestType : RequestType,
                          bank : Banks, row : Nat, col : Nat]
    /\ InOrder \in BOOLEAN /\ ReqPerREQ \in BOOLEAN
    /\ WriteQueue \in BOOLEAN /\ ClosePage \in BOOLEAN
    /\ RequestBufferSize \in Nat
    /\ Beats \in Nat \ {0}
    /\ UIntMax \in Nat
    /\ NoRow \notin Nat

VARIABLES
    phase,         (* what the cycle does next                             *)
    turn,          (* the requestor whose update is next                   *)
    corePending,   (* corePendingData of each requestor                    *)
    requestBuffer, (* requestorBuffer or generalBuffer of the RequestQueue *)
    pendingRead,   (* pendingReadRequest, with the beats still to come     *)
    pendingWrite,  (* pendingWriteRequest, likewise                        *)
    bankTable,     (* bankTable: the row each bank was last scheduled for  *)
    first,         (* first[]: nothing was scheduled on the bank yet       *)
    commandQueue,  (* the command queue of each bank                       *)
    cmdQueueTimer, (* the cycles each type of a queue has to wait          *)
    sendData,      (* sendDataBuffer with its sendDataCounter              *)
    readData,      (* pendingReadData with its dataCycles                  *)
    openRow        (* history: the row a DDR3 bank has open after the      *)
                   (* commands sent to it                                  *)

coreVars == <<turn, corePending>>
requestVars == <<requestBuffer, bankTable, first>>
pendingVars == <<pendingRead, pendingWrite>>
commandVars == <<commandQueue, cmdQueueTimer, openRow>>
dataVars == <<sendData, readData>>
vars == <<phase, coreVars, requestVars, pendingVars, commandVars, dataVars,
          deviceVars>>

Init ==
    /\ phase = "core"
    /\ turn = 0
    /\ corePending = [r \in Requestors |-> <<>>]
    /\ requestBuffer = [i \in Buffers |-> <<>>]
    /\ pendingRead = <<>>
    /\ pendingWrite = <<>>
    /\ bankTable = [b \in Banks |-> NoRow]
    /\ first = [b \in Banks |-> TRUE]
    /\ commandQueue = [b \in Banks |-> <<>>]
    /\ cmdQueueTimer = [b \in Banks |-> [t \in Types |-> 0]]
    /\ sendData = <<>>
    /\ readData = <<>>
    /\ openRow = [b \in Banks |-> NoRow]
    /\ DeviceInit

-----------------------------------------------------------------------------
(* The requestors.                                                         *)

IsRead(q) == q.requestType = "DATA_READ"
SameAddress(p, q) == p.bank = q.bank /\ p.row = q.row /\ p.col = q.col
BufferOf(q) == IF WriteQueue /\ ~IsRead(q) THEN writeBuffer
               ELSE IF ReqPerREQ THEN q.requestorID ELSE 0

(* generalReadBufferSize: a per-requestor queue leaves generalBuffer empty.*)
generalBufferSize == IF ReqPerREQ THEN 0 ELSE Len(requestBuffer[0])

(* The loop of main over the requestors: the next one or, after the last,  *)
(* the controller.                                                         *)
NextRequestor ==
    IF turn + 1 < NumRequestors
        THEN turn' = turn + 1 /\ phase' = phase
        ELSE turn' = 0 /\ phase' = "request"

(* Requestor::update with a request whose time has come: readingTraceFile  *)
(* does not look at the trace while an in-order requestor waits, and the   *)
(* limits are compared with <=.  The request goes to corePendingData and,  *)
(* by MemoryController::addRequest, to its buffer and a pending list.      *)
SendRequest(q) ==
    /\ phase = "core"
    /\ turn = q.requestorID
    /\ InOrder => corePending[turn] = <<>>
    /\ generalBufferSize <= RequestBufferSize
    /\ Len(corePending[turn]) <= RequestBufferSize
    /\ corePending' = [corePending EXCEPT ![turn] = Append(@, q)]
    /\ requestBuffer' = [requestBuffer EXCEPT ![BufferOf(q)] = Append(@, q)]
    /\ LET p == [request |-> q, requestSize |-> Beats]
       IN  IF IsRead(q)
               THEN /\ pendingRead' = Append(pendingRead, p)
                    /\ pendingWrite' = pendingWrite
               ELSE /\ pendingWrite' = Append(pendingWrite, p)
                    /\ pendingRead' = pendingRead
    /\ NextRequestor
    /\ UNCHANGED <<bankTable, first, commandVars, dataVars, deviceVars>>

(* Requestor::update otherwise: the time of the next request has not come, *)
(* an answer is awaited, or a limit is reached.                            *)
Idle ==
    /\ phase = "core"
    /\ NextRequestor
    /\ UNCHANGED <<corePending, requestVars, pendingVars, commandVars,
                   dataVars, deviceVars>>

-----------------------------------------------------------------------------
(* Request scheduling and command generation.                              *)

Command(t, q) == [busPacketType |-> t, request |-> q]

Mutant_isRowHit(q) == bankTable[q.bank] # NoRow

(* RequestScheduler::isRowHit.  It looks for the bank in the table of      *)
(* request->rank and compares with the end of rank 0's: for a request of   *)
(* another rank, or with a mapping that sets none (425), a bank not yet in *)
(* the table counts as one with row 0 open.  For rows other than 0, the    *)
(* ones the instances have, and for rank 0 it comes to this.               *)
isRowHit(q) == bankTable[q.bank] = q.row

Mutant_OpenCommands(q) ==
    LET row == IF isRowHit(q) THEN <<>>
               ELSE IF first[q.bank] THEN <<Command("ACT", q)>>
               ELSE <<Command("PRE", q), Command("ACT", q)>>
        cas == Command(IF IsRead(q) THEN "RD" ELSE "WR", q)
    IN  row \o <<cas>>

(* CommandGenerator_Open: a miss precharges the bank, unless it is the     *)
(* first on it, and activates the row; then one CAS per beat.              *)
OpenCommands(q) ==
    LET row == IF isRowHit(q) THEN <<>>
               ELSE IF first[q.bank] THEN <<Command("ACT", q)>>
               ELSE <<Command("PRE", q), Command("ACT", q)>>
        cas == Command(IF IsRead(q) THEN "RD" ELSE "WR", q)
    IN  row \o [i \in 1..Beats |-> cas]

(* CommandGenerator_Close's lookupTable: over how many banks a request of  *)
(* n beats is spread, and the accesses to each; none for another n.        *)
lookupTable(n) == CASE n \in {1, 2, 4, 8} -> <<n, 1>>
                    [] n = 16 -> <<8, 2>>
                    [] OTHER -> <<0, 0>>

(* CommandGenerator_Close: an activation and an auto-precharging CAS per   *)
(* access, on each of the banks from the request's, modulo 16.             *)
CloseCommands(q, b) ==
    LET act == Command("ACT", q)
        cas == Command(IF IsRead(q) THEN "RDA" ELSE "WRA", q)
    IN  IF (b - q.bank) % 16 >= lookupTable(Beats)[1] THEN <<>>
        ELSE IF lookupTable(Beats)[2] = 1 THEN <<act, cas>>
        ELSE <<act, cas, act, cas>>

(* What commandGenerate and enqueueCommand put in the queue of bank b.     *)
commandGenerate(q, b) ==
    CASE ClosePage -> CloseCommands(q, b)
      [] ~ClosePage /\ b = q.bank -> OpenCommands(q)
      [] OTHER -> <<>>

(* One request of requestSchedule: the k-th of buffer i is turned into     *)
(* commands, which MemoryController::update moves to their queues, and     *)
(* leaves its buffer.  Whether the scheduler goes on to another one (more) *)
(* is its choice.                                                          *)
TakeRequest(i, k, more) ==
    LET q == requestBuffer[i][k] IN
    /\ phase = "request"
    /\ phase' = IF more THEN "request" ELSE "command"
    /\ commandQueue' = [b \in Banks |->
                           commandQueue[b] \o commandGenerate(q, b)]
    /\ first' = IF ClosePage \/ isRowHit(q) THEN first
                ELSE [first EXCEPT ![q.bank] = FALSE]
    /\ requestBuffer' = [requestBuffer EXCEPT ![i] = RemoveAt(@, k)]
    /\ UNCHANGED <<coreVars, pendingVars, cmdQueueTimer, openRow, dataVars,
                   deviceVars>>

(* The row table after request q.  The schedulers that are used with the   *)
(* close-page generator do not keep it.                                    *)
updateRowTable(q) == IF ClosePage THEN bankTable
                     ELSE [bankTable EXCEPT ![q.bank] = q.row]

ScheduleRequest(i, k, more) ==
    /\ TakeRequest(i, k, more)
    /\ bankTable' = updateRowTable(requestBuffer[i][k])

(* requestSchedule returns with no further request.                        *)
EndSchedule ==
    /\ phase = "request"
    /\ phase' = "command"
    /\ UNCHANGED <<coreVars, requestVars, pendingVars, commandVars, dataVars,
                   deviceVars>>

-----------------------------------------------------------------------------
(* Command scheduling.                                                     *)

(* CommandScheduler::isReady for the head of queue b.                      *)
isReady(b) == cmdQueueTimer[b][Head(commandQueue[b]).busPacketType] = 0

(* CommandScheduler::isIssuable for the head of queue b.                   *)
isIssuable(b) == command_check(Head(commandQueue[b]).busPacketType, b)

(* The row a bank is left with by command c, by the rules of init_lambda,  *)
(* auto-precharge included.  It is a history here: nothing in the code     *)
(* reads the device's row state, and update_state, cut short by the        *)
(* shifted scope array (see BankScoped), does not even reach the bank for  *)
(* ACT, RDA and WRA.                                                       *)
After(c, row) ==
    CASE c.busPacketType \in Acts -> c.request.row
      [] c.busPacketType \in {"RD", "WR"} -> row
      [] OTHER -> NoRow

(* CommandScheduler::sendCommand on the head of queue b: the timers of the *)
(* queue are raised, the command leaves it, the device takes it.  A read   *)
(* schedules its data in the device (generateData), a write its data in    *)
(* MemoryController::update.                                               *)
sendCommand(b) ==
    LET c == Head(commandQueue[b])
        t == c.busPacketType
    IN
    /\ phase = "command"
    /\ commandQueue[b] # <<>>
    /\ isIssuable(b)
    /\ phase' = "data"
    /\ commandQueue' = [commandQueue EXCEPT ![b] = Tail(@)]
    /\ cmdQueueTimer' = [cmdQueueTimer EXCEPT ![b] =
           [u \in Types |-> Later(@[u], command_timing(t, u))]]
    /\ DeviceUpdate(t, b)
    /\ openRow' = [openRow EXCEPT ![b] = After(c, @)]
    /\ readData' = IF t \in Reads
           THEN Append(readData, [request |-> c.request, counter |-> nCL + nBL])
           ELSE readData
    /\ sendData' = IF t \in Writes
           THEN Append(sendData, [request |-> c.request, counter |-> nCWL + nBL])
           ELSE sendData
    /\ UNCHANGED <<coreVars, requestVars, pendingVars>>

(* A scheduler's choice of a command that is ready and issuable.           *)
IssueCommand(b) == sendCommand(b) /\ isReady(b)

(* A scan by index that holds one member of S, which gives way to a later  *)
(* one, i, where <<i, held>> \in better: what it holds after index top,    *)
(* and -1 before the first.                                                *)
LastHeld(S, better, top) ==
    LET held[i \in -1 .. top] ==
            LET before == held[i - 1] IN
            IF i = -1 THEN -1
            ELSE IF i \in S /\ (before = -1 \/ <<i, before>> \in better) THEN i
            ELSE before
    IN  held[top]

(* commandSchedule returns NULL.                                           *)
NoCommand ==
    /\ phase = "command"
    /\ phase' = "data"
    /\ UNCHANGED <<coreVars, requestVars, pendingVars, commandVars, dataVars,
                   deviceVars>>

-----------------------------------------------------------------------------
(* Data.                                                                   *)

(* The first entry of a pending list that a beat of request q settles.     *)
Matching(pending, q) == SelectInSeq(pending, LAMBDA p : p.request = q)

Mutant_Settle(pending, q) ==
    LET i == Matching(pending, q) IN
    IF i = 0 THEN pending
    ELSE [pending EXCEPT ![i].requestSize = @ - 1]

(* receiveData and sendData: a beat of q reaches the pending list.         *)
Settle(pending, q) ==
    LET i == Matching(pending, q) IN
    IF i = 0 THEN pending
    ELSE IF pending[i].requestSize = 1 THEN RemoveAt(pending, i)
    ELSE [pending EXCEPT ![i].requestSize = @ - 1]

(* Whether that beat is the last, so that the callback is made.            *)
Completes(pending, q) ==
    LET i == Matching(pending, q) IN i # 0 /\ pending[i].requestSize = 1

Mutant_returnData(q) ==
    LET core == corePending[q.requestorID]
    IN  [corePending EXCEPT ![q.requestorID] =
            SelectSeq(core, LAMBDA p : ~SameAddress(p, q))]

(* Requestor::returnData: the first request to the address is done.        *)
returnData(q) ==
    LET core == corePending[q.requestorID]
        i == SelectInSeq(core, LAMBDA p : SameAddress(p, q))
    IN  [corePending EXCEPT ![q.requestorID] =
            IF i = 0 THEN core ELSE RemoveAt(core, i)]

(* An unsigned counter.                                                    *)
Decrement(n) == IF n = 0 THEN UIntMax ELSE n - 1
CountDown(data, step(_)) == [i \in DOMAIN data |->
                                [data[i] EXCEPT !.counter = step(@)]]

(* CommandScheduler::tick.                                                 *)
TickTimers == cmdQueueTimer' = [b \in Banks |->
                  [t \in Types |-> Down(cmdQueueTimer[b][t])]]

WriteDue == sendData # <<>> /\ Head(sendData).counter = 0

(* The end of MemoryController::update when the first write is due: its    *)
(* data go to the device, the request is acknowledged, the other counters  *)
(* and the timers count down.                                              *)
DeliverWrite ==
    LET q == Head(sendData).request IN
    /\ phase = "data"
    /\ WriteDue
    /\ phase' = "device"
    /\ pendingWrite' = Settle(pendingWrite, q)
    /\ corePending' = IF Completes(pendingWrite, q) THEN returnData(q)
                                                    ELSE corePending
    /\ sendData' = CountDown(Tail(sendData), Decrement)
    /\ TickTimers
    /\ UNCHANGED <<turn, requestVars, pendingRead, commandQueue, openRow,
                   readData, deviceVars>>

(* The end of MemoryController::update when no write is due.               *)
NoWrite ==
    /\ phase = "data"
    /\ ~WriteDue
    /\ phase' = "device"
    /\ sendData' = CountDown(sendData, Decrement)
    /\ TickTimers
    /\ UNCHANGED <<coreVars, requestVars, pendingVars, commandQueue, openRow,
                   readData, deviceVars>>

ReadDue == readData # <<>> /\ Head(readData).counter <= 1

(* MemoryDevice::update: the counters of the reads go down, and the first  *)
(* read, once its counter is 0, is received by the controller and returned *)
(* to its requestor.                                                       *)
DeliverRead ==
    LET q == Head(readData).request IN
    /\ phase = "device"
    /\ ReadDue
    /\ phase' = "core"
    /\ pendingRead' = Settle(pendingRead, q)
    /\ corePending' = IF Completes(pendingRead, q) THEN returnData(q)
                                                   ELSE corePending
    /\ readData' = CountDown(Tail(readData), Down)
    /\ DeviceTick
    /\ UNCHANGED <<turn, requestVars, pendingWrite, commandVars, sendData>>

(* MemoryDevice::update when no read is due.                               *)
NoRead ==
    /\ phase = "device"
    /\ ~ReadDue
    /\ phase' = "core"
    /\ readData' = CountDown(readData, Down)
    /\ DeviceTick
    /\ UNCHANGED <<coreVars, requestVars, pendingVars, commandVars, sendData>>

-----------------------------------------------------------------------------
Next ==
    \/ \E q \in Traffic : SendRequest(q)
    \/ Idle
    \/ \E i \in Buffers : \E k \in DOMAIN requestBuffer[i] :
            \E more \in BOOLEAN : ScheduleRequest(i, k, more)
    \/ EndSchedule
    \/ \E b \in Banks : IssueCommand(b)
    \/ NoCommand
    \/ DeliverWrite
    \/ NoWrite
    \/ DeliverRead
    \/ NoRead

Spec == Init /\ [][Next]_vars

-----------------------------------------------------------------------------
(* Every structure of the controller, the requestors and the device keeps  *)
(* its shape.                                                              *)
TypeOK ==
    /\ phase \in {"core", "request", "command", "data", "device"}
    /\ turn \in Requestors
    /\ corePending \in [Requestors -> Seq(Traffic)]
    /\ requestBuffer \in [Buffers -> Seq(Traffic)]
    /\ pendingRead \in Seq([request : Traffic, requestSize : 1..Beats])
    /\ pendingWrite \in Seq([request : Traffic, requestSize : 1..Beats])
    /\ bankTable \in [Banks -> Rows \cup {NoRow}]
    /\ first \in [Banks -> BOOLEAN]
    /\ commandQueue \in
           [Banks -> Seq([busPacketType : Types, request : Traffic])]
    /\ cmdQueueTimer \in [Banks -> [Types -> Nat]]
    /\ sendData \in Seq([request : Traffic, counter : Nat])
    /\ readData \in Seq([request : Traffic, counter : Nat])
    /\ openRow \in [Banks -> Rows \cup {NoRow}]
    /\ DeviceTypeOK

(* May command c be issued on a bank whose open row is row?                *)
Legal(c, row) ==
    CASE c.busPacketType \in Cas -> row = c.request.row
      [] c.busPacketType \in Acts -> row = NoRow
      [] OTHER -> row # NoRow

(* The device is only sent commands its row state allows: a CAS finds its  *)
(* own row open, an activation finds the bank closed, a precharge finds it *)
(* open.  The generator decides from bankTable and first when the request  *)
(* is scheduled, many cycles before the command is issued, and the device  *)
(* does not check.                                                         *)
RowLegal == [][ \A b \in Banks : sendCommand(b) =>
                    Legal(Head(commandQueue[b]), openRow[b]) ]_vars

(* A command is issued only once the bank's own constraints have passed,   *)
(* although the device's check does not look at the bank for ACT, RDA and  *)
(* WRA: the controller's timers are long enough.                           *)
BankTimingMet == [][ \A b \in Banks : sendCommand(b) =>
                        bankNext[b][Head(commandQueue[b]).busPacketType] = 0
                   ]_vars

CountIn(seq, Test(_)) == Cardinality({i \in DOMAIN seq : Test(seq[i])})

(* The beats of request q that are still to come, and where they are: not  *)
(* yet scheduled, in a command queue, or on the way as data.               *)
Owed(q) ==
    LET p == IF IsRead(q) THEN pendingRead ELSE pendingWrite
    IN  Cardinality({x \in (DOMAIN p) \X (1..Beats) :
                        p[x[1]].request = q /\ x[2] <= p[x[1]].requestSize})
Waiting(q) == Beats * CountIn(requestBuffer[BufferOf(q)], LAMBDA x : x = q)
CasFor(q, queue) == {i \in DOMAIN queue : /\ queue[i].request = q
                                         /\ queue[i].busPacketType \in Cas}
Queued(q) == Cardinality(UNION {{b} \X CasFor(q, commandQueue[b]) : b \in Banks})
InFlight(q) == CountIn(IF IsRead(q) THEN readData ELSE sendData,
                       LAMBDA d : d.request = q)

(* No beat of a request is lost or made up between addRequest, the         *)
(* generator, the queues, the device and the pending lists, although       *)
(* answers are matched by requestor and address only.                      *)
BeatsConserved == \A q \in Traffic :
    Owed(q) = Waiting(q) + Queued(q) + InFlight(q)

(* The channel implements the service MemoryService describes: the         *)
(* accesses to be made are those not scheduled and those queued, the data  *)
(* to be delivered those in flight, the open requests those pending.       *)
Service == INSTANCE MemoryService WITH
    Requests <- Traffic,
    todo <- [q \in Traffic |-> Waiting(q) + Queued(q)],
    done <- [q \in Traffic |-> InFlight(q)],
    open <- [q \in Traffic |->
                CountIn(IF IsRead(q) THEN pendingRead ELSE pendingWrite,
                        LAMBDA p : p.request = q)]
ServiceSpec == Service!Spec

(* The requestors' books agree with the controller's, address by address:  *)
(* returnData never fails to find the request it is called for (the abort  *)
(* of Requestor.cpp).                                                      *)
CoreMatches == \A r \in Requestors, q \in Traffic :
    LET Mine(x) == x.requestorID = r /\ SameAddress(x, q) IN
    CountIn(corePending[r], Mine) =
        CountIn(pendingRead, LAMBDA p : Mine(p.request))
      + CountIn(pendingWrite, LAMBDA p : Mine(p.request))

=============================================================================
