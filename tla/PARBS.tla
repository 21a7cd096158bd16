------------------------------- MODULE PARBS -------------------------------
(***************************************************************************)
(* The PAR-BS controller (system/PAR-BS): requests of the general buffer   *)
(* are marked in batches, and the best request of the buffer by mark, row  *)
(* hit and the rank of its requestor is scheduled, one a cycle; the        *)
(* command scheduler is that of CommandFRFCFS.                             *)
(***************************************************************************)
EXTENDS CommandFRFCFS

CONSTANTS
    MarkingCap,    (* 5 in the code                                        *)
    localBcount    (* the banks that form_batch looks at, 8                *)

PARBSAssumption ==
    /\ ~ReqPerREQ /\ ~ClosePage /\ ~WriteQueue
    /\ MarkingCap \in Nat \ {0}
    /\ Banks \subseteq 0 .. localBcount - 1

VARIABLES
    marked,     (* of each request of the buffer, by its position          *)
    markedCnt,
    maxLoad,    (* markedMaxLoadPerProc                                    *)
    totalLoad,  (* markedTotalLoadPerProc                                  *)
    passed      (* history: the requests of others that were scheduled     *)
                (* while each requestor had one in the buffer              *)

parbsOnly == <<marked, markedCnt, maxLoad, totalLoad, passed>>
parbsVars == <<vars, arrivalVars, parbsOnly>>

PARBSInit ==
    /\ Init
    /\ ArrivalsInit
    /\ marked = <<>>
    /\ markedCnt = 0
    /\ maxLoad = [p \in Requestors |-> 0]
    /\ totalLoad = [p \in Requestors |-> 0]
    /\ passed = [p \in Requestors |-> 0]

buffer == requestBuffer[0]
Of(p) == {k \in DOMAIN buffer : buffer[k].requestorID = p}

(* The request that form_batch marks for p.  earliestperBankperReq returns *)
(* the same request as often as it is asked, so that it is nominated       *)
(* MarkingCap times, and the loop over the banks then ends: one request,   *)
(* the earliest on the lowest bank.                                        *)
Nominate(p) ==
    LET bank == Min({buffer[k].bank : k \in Of(p)})
    IN  Min({k \in Of(p) : buffer[k].bank = bank})

Active == {p \in Requestors : Of(p) # {}}

Mutant_form_batch ==
    [marked |-> marked,
     cnt |-> MarkingCap * Cardinality(Active),
     max |-> [p \in Requestors |-> IF p \notin Active THEN 0
                 ELSE MarkingCap * Cardinality({x \in Active : x <= p})],
     total |-> [p \in Requestors |-> IF p \in Active THEN MarkingCap ELSE 0]]

(* form_batch, which every requestor goes through in turn: each nomination *)
(* is counted in markedCnt, and the count so far becomes the load of the   *)
(* requestor.                                                              *)
form_batch ==
    [marked |-> [k \in DOMAIN buffer |->
                    marked[k] \/ \E p \in Active : k = Nominate(p)],
     cnt |-> MarkingCap * Cardinality(Active),
     max |-> [p \in Requestors |-> IF p \notin Active THEN 0
                 ELSE MarkingCap * Cardinality({x \in Active : x <= p})],
     total |-> [p \in Requestors |-> IF p \in Active THEN MarkingCap ELSE 0]]

(* requestSchedule forms a batch when none is left.                        *)
Batch == IF markedCnt = 0 THEN form_batch
         ELSE [marked |-> marked, cnt |-> markedCnt, max |-> maxLoad,
               total |-> totalLoad]

(* BetterRequest: is request k better than request t, which is held?       *)
Better(batch, k, t) ==
    LET p == buffer[k].requestorID
        q == buffer[t].requestorID
        hit(i) == isRowHit(buffer[i])
    IN
    \/ batch.marked[k] /\ ~batch.marked[t]
    \/ /\ batch.marked[k] = batch.marked[t]
       /\ \/ hit(k) /\ ~hit(t)
          \/ /\ hit(k) = hit(t)
             /\ \/ batch.max[p] < batch.max[q]
                \/ /\ batch.max[p] = batch.max[q]
                   /\ batch.total[p] < batch.total[q]

(* The request that the scan of the buffer ends with.                      *)
Best(batch) ==
    LET places == DOMAIN buffer
    IN  LastHeld(places, {p \in places \X places : Better(batch, p[1], p[2])},
                 Len(buffer))

(* MemoryController::addRequest with a request, which is not marked.       *)
PARBSSend(q) ==
    /\ SendRequest(q)
    /\ marked' = Append(marked, FALSE)
    /\ UNCHANGED <<arrivalVars, markedCnt, maxLoad, totalLoad, passed>>

(* requestSchedule with a request in the buffer: markedCnt goes down       *)
(* whether the request was marked or not.                                  *)
requestSchedule(batch, k) ==
    /\ ScheduleRequest(0, k, FALSE)
    /\ Arrive
    /\ marked' = RemoveAt(batch.marked, k)
    /\ markedCnt' = IF batch.cnt = 0 THEN UIntMax ELSE batch.cnt - 1
    /\ maxLoad' = batch.max
    /\ totalLoad' = batch.total
    /\ passed' = [p \in Requestors |->
           IF p = buffer[k].requestorID \/ Of(p) = {} THEN 0
           ELSE passed[p] + 1]

(* requestSchedule with an empty buffer.                                   *)
NothingToSchedule ==
    /\ buffer = <<>>
    /\ EndSchedule
    /\ markedCnt' = Batch.cnt
    /\ maxLoad' = Batch.max
    /\ totalLoad' = Batch.total
    /\ UNCHANGED <<arrivalVars, marked, passed>>

PARBSNext ==
    \/ \E q \in Traffic : PARBSSend(q)
    \/ /\ \/ Idle
          \/ DeliverWrite
          \/ NoWrite
          \/ DeliverRead
          \/ NoRead
       /\ UNCHANGED <<arrivalVars, parbsOnly>>
    \/ /\ phase = "request" /\ buffer # <<>>
       /\ \E batch \in {Batch} : \E k \in {Best(batch)} :
              requestSchedule(batch, k)
    \/ NothingToSchedule
    \/ /\ (\E b \in Banks : FRIssue(b)) \/ FRIssueNone
       /\ UNCHANGED parbsOnly

(* The simulation loop of main never stops between two steps of a cycle.   *)
PARBSSpec == PARBSInit /\ [][PARBSNext]_parbsVars /\ WF_parbsVars(PARBSNext)

-----------------------------------------------------------------------------
(* A requestor with a request in the buffer is passed at most by what is   *)
(* left of a batch and by one request of each other in the next, whatever  *)
(* the row hits and the ranks: the starvation bound that batching is for,  *)
(* although markedCnt counts nominations, not requests, and goes down with *)
(* requests that are not marked.                                           *)
PassedAtMost ==
    \A p \in Requestors : passed[p] <= (MarkingCap + 1) * NumRequestors - 2

=============================================================================
