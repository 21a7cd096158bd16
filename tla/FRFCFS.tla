------------------------------- MODULE FRFCFS -------------------------------
(***************************************************************************)
(* The FR-FCFS controller (system/FRFCFS/FRFCFS.ini): the request          *)
(* scheduler of system/FRFCFS/RequestScheduler_FRFCFS.h, which takes one   *)
(* request a cycle from the general buffer, the first row hit if there is  *)
(* one; the open-page generator; and the command scheduler of              *)
(* generalScheduler/CommandScheduler_PUSH.h, which issues the oldest of    *)
(* the ready and issuable heads of the per-bank queues.                    *)
(***************************************************************************)
EXTENDS MemoryControllerProofs

FRFCFSAssumption == ~ReqPerREQ /\ ~ClosePage

VARIABLE order  (* the banks of the queued commands, by their arriveTime   *)

frVars == <<vars, order>>

FRInit == Init /\ order = <<>>

Mutant_scheduleFR ==
    LET hit == SelectLastInSeq(requestBuffer[0], isRowHit)
    IN  IF hit = 0 THEN 1 ELSE hit

(* RequestScheduler::scheduleFR: the first row hit, else the first.        *)
scheduleFR ==
    LET hit == SelectInSeq(requestBuffer[0], isRowHit)
    IN  IF hit = 0 THEN 1 ELSE hit

(* requestSchedule with a request in the buffer.                           *)
requestSchedule ==
    /\ requestBuffer[0] # <<>>
    /\ ScheduleRequest(0, scheduleFR, FALSE)
    /\ LET q == requestBuffer[0][scheduleFR]
       IN  order' = order \o [i \in DOMAIN commandGenerate(q, q.bank) |-> q.bank]

(* requestSchedule with an empty buffer.                                   *)
NothingToSchedule ==
    /\ requestBuffer[0] = <<>>
    /\ EndSchedule
    /\ order' = order

(* The position in the order of arrival of the head of queue b.            *)
Arrival(b) == SelectInSeq(order, LAMBDA x : x = b)

(* Whose head may be issued now.                                           *)
Candidates == {b \in Banks : /\ commandQueue[b] # <<>>
                             /\ isReady(b)
                             /\ isIssuable(b)}

(* CommandScheduler_PUSH::commandSchedule: the candidate that arrived      *)
(* first.                                                                  *)
commandSchedule(b) ==
    /\ b \in Candidates
    /\ \A x \in Candidates : Arrival(b) <= Arrival(x)
    /\ sendCommand(b)
    /\ order' = RemoveAt(order, Arrival(b))

(* CommandScheduler_PUSH::commandSchedule without a candidate.             *)
NothingToIssue ==
    /\ Candidates = {}
    /\ NoCommand
    /\ order' = order

FRNext ==
    \/ /\ \/ \E q \in Traffic : SendRequest(q)
          \/ Idle
          \/ DeliverWrite
          \/ NoWrite
          \/ DeliverRead
          \/ NoRead
       /\ order' = order
    \/ requestSchedule
    \/ NothingToSchedule
    \/ \E b \in Banks : commandSchedule(b)
    \/ NothingToIssue

(* The simulation loop of main never stops between two steps of a cycle.   *)
FRSpec == FRInit /\ [][FRNext]_frVars /\ WF_frVars(FRNext)

-----------------------------------------------------------------------------

(* The first request of q's requestor to q's address is q itself.          *)
FirstToAddress(q) ==
    LET core == corePending[q.requestorID]
        i == SelectInSeq(core, LAMBDA p : SameAddress(p, q))
    IN  i # 0 /\ core[i] = q

(* The request that returnData removes, the first to the same address, is  *)
(* the one whose data arrived, although reads and writes of an out-of-order*)
(* requestor to that address may both be outstanding, the scheduler        *)
(* reorders requests, and a write is acknowledged by a different counter   *)
(* from the one that returns a read.                                       *)
ReturnsTheRightRequest ==
    /\ DeliverWrite => FirstToAddress(Head(sendData).request)
    /\ DeliverRead => FirstToAddress(Head(readData).request)

=============================================================================
