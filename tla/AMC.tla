-------------------------------- MODULE AMC --------------------------------
(***************************************************************************)
(* The AMC controller (system/AMC/AMC.ini): the time-slotted round robin   *)
(* of generalScheduler/RequestScheduler_RR.h over the requestors' buffers, *)
(* the close-page generator and the first-come command scheduler.          *)
(***************************************************************************)
EXTENDS PerRequestor

CONSTANT timeSlot   (* 42 in the code, whatever the device                 *)

AMCAssumption == timeSlot \in Nat \ {0} /\ ClosePage /\ ~WriteQueue

VARIABLE slotCounter   (* the cycles left of the slot                      *)

amcVars == <<vars, registerVars, slotCounter>>

AMCInit == PerRequestorInit /\ slotCounter = 0

Mutant_SlotTaken == slotCounter' = (timeSlot - 1) \div 2

(* A request, scheduled or refused, takes the whole slot.                  *)
SlotTaken == slotCounter' = timeSlot - 1

(* requestSchedule at the start of a slot, with a request somewhere: the   *)
(* first found round the requestors takes the slot, and goes if the        *)
(* scheduler's isSchedulable, here the parameter, lets it (no scheduler of *)
(* this family looks at the request).  If not, the slot is gone all the    *)
(* same, and the index stays at the requestor.                             *)
RRSchedule(schedulable) ==
    LET d == Min(Found)
        r == requestorOrder[Place(d)]
    IN
    /\ slotCounter = 0
    /\ Found # {}
    /\ SlotTaken
    /\ IF schedulable
           THEN /\ ScheduleRequest(r, 1, FALSE)
                /\ requestorIndex' = NextIndex(Place(d))
           ELSE /\ EndSchedule
                /\ requestorIndex' = Place(d)
    /\ UNCHANGED requestorOrder

(* requestSchedule at the start of a slot with nothing to schedule: the    *)
(* index goes all the way round.                                           *)
RRNothing ==
    /\ slotCounter = 0
    /\ Found = {}
    /\ EndSchedule
    /\ UNCHANGED <<registerVars, slotCounter>>

(* requestSchedule within a slot.                                          *)
RRWait ==
    /\ slotCounter > 0
    /\ slotCounter' = slotCounter - 1
    /\ EndSchedule
    /\ UNCHANGED registerVars

(* The steps of a cycle that are the same for every scheduler derived from *)
(* RequestScheduler_RR.                                                    *)
RRCommon ==
    \/ \E q \in Traffic : RegisteringSend(q) /\ UNCHANGED slotCounter
    \/ Others /\ UNCHANGED <<registerVars, slotCounter>>
    \/ RRNothing
    \/ RRWait

(* AMC's isSchedulable is that of RequestScheduler, which refuses nothing. *)
AMCNext ==
    \/ RRCommon
    \/ RRSchedule(TRUE)
    \/ \E b \in Banks : IssueFirst(b) /\ UNCHANGED <<registerVars, slotCounter>>
    \/ IssueNone /\ UNCHANGED <<registerVars, slotCounter>>

(* The simulation loop of main never stops between two steps of a cycle.   *)
AMCSpec == AMCInit /\ [][AMCNext]_amcVars /\ WF_amcVars(AMCNext)

-----------------------------------------------------------------------------

(* The slot is long enough that a request meets no trace of the one before *)
(* it, whoever sent it: when a slot starts, no command is left, every bank *)
(* and the rank accept an activation at once; and a command whose own bank *)
(* allows it is never held back by the rank.  The latency of a request is  *)
(* then that of an idle memory, which is what the slot is for.  The code   *)
(* has the one value 42, worked out in a comment for DDR3-1600H.           *)
SlotIsolated ==
    /\ phase = "request" /\ slotCounter = 0 =>
            \A b \in Banks : /\ commandQueue[b] = <<>>
                             /\ cmdQueueTimer[b]["ACT"] = 0
                             /\ command_check("ACT", b)
    /\ phase = "command" =>
            \A b \in Banks :
                commandQueue[b] # <<>> /\ isReady(b) => isIssuable(b)

=============================================================================
