------------------------------- MODULE MEDUSA -------------------------------
(***************************************************************************)
(* The MEDUSA controller (system/MEDUSA): reads, one a cycle, round robin  *)
(* over the requestors; writes, which have a queue of their own, only in a *)
(* cycle that finds no read, and then all that lie above the watermarks at *)
(* once.  Open-page generator, first-come command scheduler.               *)
(***************************************************************************)
EXTENDS PerRequestor

CONSTANTS lowwatermark, highwatermark   (* 4 and 10 in the code            *)

MEDUSAAssumption ==
    /\ WriteQueue /\ ~ClosePage
    /\ lowwatermark \in Nat \ {0} /\ highwatermark \in Nat

VARIABLES
    loop,    (* the loop over the writes that is running; "past" when it   *)
             (* has left the vector                                        *)
    qIndex   (* its index, from 1                                          *)

writeVars == <<loop, qIndex>>
medusaVars == <<vars, registerVars, writeVars>>

MEDUSAInit == PerRequestorInit /\ loop = "none" /\ qIndex = 1

writes == requestBuffer[writeBuffer]
highWatermark == Len(writes) > highwatermark

Mutant_lowWatermark == Len(writes) <= lowwatermark

lowWatermark == Len(writes) < lowwatermark

(* The loop over the requestors finds a read, and schedules it.            *)
ScheduleRead ==
    LET d == Min(Found)
        r == requestorOrder[Place(d)]
    IN
    /\ loop = "none"
    /\ Found # {}
    /\ ScheduleRequest(r, 1, FALSE)
    /\ requestorIndex' = NextIndex(Place(d))
    /\ UNCHANGED <<requestorOrder, writeVars>>

(* It finds none: the index has gone all the way round.                    *)
writeEnable == loop = "none" /\ Found = {}

(* A step that stays within requestSchedule.                               *)
Continue(next, i) ==
    /\ phase = "request"
    /\ loop' = next
    /\ qIndex' = i
    /\ UNCHANGED <<vars, registerVars>>

EnableWrites ==
    /\ writeEnable
    /\ Continue(IF highWatermark THEN "hits" ELSE "drain", 1)

(* A write becomes commands.  Its row is not entered in the row table.     *)
popWrite ==
    /\ TakeRequest(writeBuffer, qIndex, TRUE)
    /\ qIndex' = qIndex + 1
    /\ UNCHANGED <<bankTable, registerVars, loop>>

(* Above the high watermark, a pass over the writes takes the row hits;    *)
(* the index goes on, and leaves out the write that has moved up.          *)
ScheduleHit ==
    /\ loop = "hits"
    /\ qIndex <= Len(writes)
    /\ isRowHit(writes[qIndex])
    /\ popWrite

PassMiss ==
    /\ loop = "hits"
    /\ qIndex <= Len(writes)
    /\ ~isRowHit(writes[qIndex])
    /\ Continue("hits", qIndex + 1)

HitsOver ==
    /\ loop = "hits"
    /\ qIndex > Len(writes)
    /\ Continue("drain", 1)

(* Then writes go, every other one, down to the low watermark.             *)
Drain ==
    /\ loop = "drain"
    /\ ~lowWatermark
    /\ qIndex <= Len(writes)
    /\ popWrite

(* The index is not compared with the size: getWrite reads, and popWrite   *)
(* erases, an element past the end of the vector.  What happens from there *)
(* on is undefined, and the model stops.                                   *)
Overrun ==
    /\ loop = "drain"
    /\ ~lowWatermark
    /\ qIndex > Len(writes)
    /\ Continue("past", qIndex)

Undefined == loop = "past" /\ UNCHANGED medusaVars

DrainOver ==
    /\ loop = "drain"
    /\ lowWatermark
    /\ EndSchedule
    /\ loop' = "none"
    /\ qIndex' = 1
    /\ UNCHANGED registerVars

MEDUSANext ==
    \/ \E q \in Traffic : RegisteringSend(q) /\ UNCHANGED writeVars
    \/ Others /\ UNCHANGED <<registerVars, writeVars>>
    \/ ScheduleRead
    \/ EnableWrites
    \/ ScheduleHit
    \/ PassMiss
    \/ HitsOver
    \/ Drain
    \/ Overrun
    \/ Undefined
    \/ DrainOver
    \/ /\ (\E b \in Banks : IssueFirst(b)) \/ IssueNone
       /\ UNCHANGED <<registerVars, writeVars>>

(* The simulation loop of main never stops between two steps of a cycle.   *)
MEDUSASpec == MEDUSAInit /\ [][MEDUSANext]_medusaVars
                         /\ WF_medusaVars(MEDUSANext)

-----------------------------------------------------------------------------
(* How many writes the drain found: those it has taken and those left.     *)
began == qIndex - 1 + Len(writes)

(* The drain moves its index on after taking a write, so that it leaves    *)
(* out every second one.  It reads past the end of the queue exactly when  *)
(* it begins with twice the low watermark of writes or more, whatever the  *)
(* pass over the row hits has left: with fewer it comes down to the        *)
(* watermark within the queue.                                             *)
WriteIndexInRange ==
    /\ loop = "past" => began >= 2 * lowwatermark
    /\ loop = "drain" /\ lowWatermark => began < 2 * lowwatermark

=============================================================================
