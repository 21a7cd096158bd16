------------------------------ MODULE Batching ------------------------------
(***************************************************************************)
(* The FR-FCFS controller with write batching (system/FRFCFS_Batch): reads *)
(* in the general buffer, first-ready first; writes in a queue of their    *)
(* own, which is drained from its high to its low watermark while the      *)
(* requestors are held back, and otherwise only when there is nothing else *)
(* to do.  The command scheduler is that of CommandFRFCFS.                 *)
(***************************************************************************)
EXTENDS CommandFRFCFS

CONSTANTS lowwatermark, highwatermark   (* 4 and 10 in the code            *)

BatchingAssumption ==
    /\ WriteQueue /\ ~ReqPerREQ /\ ~ClosePage
    /\ lowwatermark \in Nat \ {0} /\ highwatermark \in Nat
    /\ lowwatermark <= highwatermark

VARIABLES
    sw,         (* the writes are being drained; no constructor sets it    *)
    writeMode,  (* writeMode of the request queue: the requestors wait     *)
    quota       (* the empty command queues at the start of the cycle, and *)
                (* then those whose turn is still to come                  *)

batchVars == <<vars, arrivalVars, sw, writeMode, quota>>

BatchInit ==
    /\ Init
    /\ ArrivalsInit
    /\ sw \in BOOLEAN
    /\ writeMode = FALSE
    /\ quota = Cardinality(Banks)

writes == requestBuffer[writeBuffer]
highWatermark == Len(writes) > highwatermark
lowWatermark == Len(writes) < lowwatermark

(* Requestor::update, which does not send in write mode.                   *)
BatchSend(q) ==
    /\ ~writeMode
    /\ SendRequest(q)
    /\ UNCHANGED <<arrivalVars, sw, writeMode, quota>>

(* RequestScheduler::scheduleFR: the first row hit, else the first.        *)
scheduleFR ==
    LET hit == SelectInSeq(requestBuffer[0], isRowHit)
    IN  IF hit = 0 THEN 1 ELSE hit

Mutant_Draining == highWatermark

(* The first part of requestSchedule finds the writes to be drained.       *)
Draining == (sw \/ highWatermark) /\ ~lowWatermark

(* It schedules the first write, and then nothing else.                    *)
DrainWrite ==
    /\ Draining
    /\ ScheduleRequest(writeBuffer, 1, FALSE)
    /\ Arrive
    /\ sw' = TRUE
    /\ writeMode' = (writeMode \/ highWatermark)
    /\ UNCHANGED quota

Mutant_DrainEnds == sw' = FALSE /\ UNCHANGED writeMode

(* Below the low watermark the drain is over.                              *)
DrainEnds ==
    /\ sw' = FALSE
    /\ writeMode' = (writeMode /\ ~sw)

(* The loop over the command queues: for each that was empty when the      *)
(* cycle began, one more read, whatever its bank.                          *)
ScheduleRead ==
    /\ ~Draining
    /\ quota > 0
    /\ requestBuffer[0] # <<>>
    /\ ScheduleRequest(0, scheduleFR, quota > 1 /\ Len(requestBuffer[0]) > 1)
    /\ Arrive
    /\ DrainEnds
    /\ quota' = quota - 1

NoReads == ~Draining /\ (quota = 0 \/ requestBuffer[0] = <<>>)

(* With no command and no read anywhere, a write goes without a drain.     *)
IdleWrite ==
    /\ NoReads
    /\ quota = Cardinality(Banks)
    /\ writes # <<>>
    /\ ScheduleRequest(writeBuffer, 1, FALSE)
    /\ Arrive
    /\ DrainEnds
    /\ UNCHANGED quota

NothingToSchedule ==
    /\ NoReads
    /\ quota < Cardinality(Banks) \/ writes = <<>>
    /\ EndSchedule
    /\ DrainEnds
    /\ UNCHANGED <<arrivalVars, quota>>

(* The queues that the next cycle finds empty.                             *)
NewQuota == quota' = Cardinality({b \in Banks : commandQueue'[b] = <<>>})

BatchNext ==
    \/ \E q \in Traffic : BatchSend(q)
    \/ /\ \/ Idle
          \/ DeliverWrite
          \/ NoWrite
          \/ DeliverRead
          \/ NoRead
       /\ UNCHANGED <<arrivalVars, sw, writeMode, quota>>
    \/ DrainWrite
    \/ ScheduleRead
    \/ IdleWrite
    \/ NothingToSchedule
    \/ /\ (\E b \in Banks : FRIssue(b)) \/ FRIssueNone
       /\ NewQuota
       /\ UNCHANGED <<sw, writeMode>>

(* The simulation loop of main never stops between two steps of a cycle.   *)
BatchSpec == BatchInit /\ [][BatchNext]_batchVars /\ WF_batchVars(BatchNext)

-----------------------------------------------------------------------------
(* Once the high watermark is passed, no read is scheduled before the      *)
(* writes are below the low one, and no requestor adds to them, so that a  *)
(* drain costs one change of direction of the bus and not several.         *)
DrainIsABatch ==
    /\ writeMode /\ requestBuffer'[0] # requestBuffer[0] =>
           lowWatermark /\ ~writeMode'
    /\ writeMode => Len(requestBuffer'[writeBuffer]) <= Len(writes)

=============================================================================
