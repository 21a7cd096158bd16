---------------------------- MODULE PerRequestor ----------------------------
(***************************************************************************)
(* The part that the controllers with one request buffer per requestor     *)
(* (ReqPerREQ=1) share: RequestQueue::insertRequest registers a requestor  *)
(* with its first request, and the request schedulers go round the         *)
(* registered requestors with an index of their own.                       *)
(***************************************************************************)
EXTENDS MemoryController

VARIABLES
    requestorOrder, (* requestorOrder: the requestors by their first       *)
                    (* request in this buffer                              *)
    requestorIndex  (* the scheduler's index into it, from 1               *)

registerVars == <<requestorOrder, requestorIndex>>

PerRequestorInit ==
    /\ Init
    /\ requestorOrder = <<>>
    /\ requestorIndex = 1

(* insertRequest's registration; a request for the write queue returns     *)
(* before it.                                                              *)
Register(q) ==
    requestorOrder' =
        IF (WriteQueue /\ ~IsRead(q)) \/ Contains(requestorOrder, q.requestorID)
            THEN requestorOrder
            ELSE Append(requestorOrder, q.requestorID)

(* SendRequest, with that registration.                                    *)
RegisteringSend(q) ==
    /\ SendRequest(q)
    /\ Register(q)
    /\ UNCHANGED requestorIndex

(* What is common to a step that is neither.                               *)
Others ==
    \/ Idle
    \/ DeliverWrite
    \/ NoWrite
    \/ DeliverRead
    \/ NoRead

MutantStuck_NextIndex(i) == requestorIndex

(* The index that follows i, round the registered requestors.              *)
NextIndex(i) == IF i = Len(requestorOrder) THEN 1 ELSE i + 1

(* The place that is d after the index.                                   *)
Place(d) == ((requestorIndex - 1 + d) % Len(requestorOrder)) + 1

(* How far from the index there are requestors with a request.             *)
Found == {d \in 0 .. Len(requestorOrder) - 1 :
            requestBuffer[requestorOrder[Place(d)]] # <<>>}

-----------------------------------------------------------------------------
(* The command scheduler of generalScheduler/CommandScheduler_FCFS.h, on   *)
(* command queues that the requestors share (CmdPerREQ=0): the first queue *)
(* whose head can be issued.                                               *)

Mutant_Candidates == {b \in Banks : commandQueue[b] # <<>> /\ isIssuable(b)}

(* The queues whose head may be issued now.                                *)
Candidates == {b \in Banks : /\ commandQueue[b] # <<>>
                             /\ isReady(b)
                             /\ isIssuable(b)}

(* commandSchedule: the queues are scanned by their index.                 *)
IssueFirst(b) ==
    /\ phase = "command"
    /\ b \in Candidates
    /\ \A x \in Candidates : b <= x
    /\ sendCommand(b)

(* commandSchedule without a candidate.                                    *)
IssueNone == phase = "command" /\ Candidates = {} /\ NoCommand

-----------------------------------------------------------------------------
(* The request scheduler of generalScheduler/RequestScheduler_DIRECT.h,    *)
(* which takes the first request of every requestor each cycle, for the    *)
(* controllers whose policy is in their command scheduler.                 *)

(* requestSchedule before any requestor has registered.                    *)
NoRequestors ==
    /\ requestorOrder = <<>>
    /\ EndSchedule
    /\ UNCHANGED registerVars

(* One turn of the loop of requestSchedule: the requestor's first request, *)
(* if it has one.  After the last requestor the index is back at the first.*)
requestSchedule ==
    LET last == requestorIndex = Len(requestorOrder)
        r == requestorOrder[requestorIndex]
    IN
    /\ phase = "request"
    /\ requestorIndex <= Len(requestorOrder)
    /\ requestorIndex' = NextIndex(requestorIndex)
    /\ \/ requestBuffer[r] # <<>> /\ ScheduleRequest(r, 1, ~last)
       \/ requestBuffer[r] = <<>> /\ last /\ EndSchedule
       \/ requestBuffer[r] = <<>> /\ ~last /\ UNCHANGED vars
    /\ UNCHANGED requestorOrder

(* Every step of a cycle but the command scheduler's.                      *)
DirectCommon ==
    \/ \E q \in Traffic : RegisteringSend(q)
    \/ Others /\ UNCHANGED registerVars
    \/ NoRequestors
    \/ requestSchedule

-----------------------------------------------------------------------------
(* What the bank-privatised controllers of the README (ORP, DCmc, MAG,     *)
(* ReOrder and the rank-based ones) have in common: AddressMapping gives   *)
(* every requestor the bank of its own number, so that a command queue     *)
(* belongs to one requestor, whether the .ini asks for one per bank        *)
(* (CommandQueue=0010) or one per requestor (CmdPerREQ=1).  Every          *)
(* requestor is critical, as MemoryController's constructor has it.        *)

PrivatizedAssumption ==
    /\ ReqPerREQ
    /\ ~ClosePage /\ ~WriteQueue
    /\ Banks = Requestors
    /\ \A q \in Traffic : q.bank = q.requestorID

(* Is the first command of the queue a CAS?                                *)
IsCas(r) == Head(commandQueue[r]).busPacketType \in BeforeACT

(* The queues by their index.                                              *)
queues == [i \in 1 .. NumRequestors |-> i - 1]

=============================================================================
