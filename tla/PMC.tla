-------------------------------- MODULE PMC --------------------------------
(***************************************************************************)
(* The PMC controller (system/PMC): the slots of AMC, given by a schedule  *)
(* of eight places.  A place is an index into requestorOrder, which the    *)
(* code does not compare with the number of requestors that registered: a  *)
(* place beyond it reads outside the vector, and what is read is then the  *)
(* number of some requestor, or of none.                                   *)
(***************************************************************************)
EXTENDS AMC

CONSTANT numSlots   (* scheduleSlot.size(), 8 in the code                  *)

PMCAssumption == numSlots \in Nat /\ numSlots >= NumRequestors

(* The requestors that place k may stand for; none of them may be read.    *)
Readable(k) == IF k <= Len(requestorOrder) THEN {requestorOrder[k]}
               ELSE Range(requestorOrder)

(* The place d places after the current one.                               *)
SlotPlace(d) == ((requestorIndex - 1 + d) % numSlots) + 1

(* The places before the one d places on that are certain to be taken.     *)
Certain(d) == {e \in 0 .. d - 1 :
                 /\ SlotPlace(e) <= Len(requestorOrder)
                 /\ requestBuffer[requestorOrder[SlotPlace(e)]] # <<>>}

(* requestorIndex++ round the schedule.                                    *)
NextPlace(k) == IF k = numSlots THEN 1 ELSE k + 1

(* requestSchedule at the start of a slot: the first place that stands for *)
(* a requestor with a request.                                             *)
PMCSchedule(d, r) ==
    /\ slotCounter = 0
    /\ r \in Readable(SlotPlace(d))
    /\ requestBuffer[r] # <<>>
    /\ Certain(d) = {}
    /\ ScheduleRequest(r, 1, FALSE)
    /\ SlotTaken
    /\ requestorIndex' = NextPlace(SlotPlace(d))
    /\ UNCHANGED requestorOrder

(* requestSchedule at the start of a slot when no place stands for a       *)
(* requestor with a request.                                               *)
PMCNothing ==
    /\ slotCounter = 0
    /\ Certain(numSlots) = {}
    /\ EndSchedule
    /\ UNCHANGED <<registerVars, slotCounter>>

PMCNext ==
    \/ \E q \in Traffic : RegisteringSend(q) /\ UNCHANGED slotCounter
    \/ Others /\ UNCHANGED <<registerVars, slotCounter>>
    \/ \E d \in 0 .. numSlots - 1, r \in Requestors : PMCSchedule(d, r)
    \/ PMCNothing
    \/ RRWait
    \/ \E b \in Banks : IssueFirst(b) /\ UNCHANGED <<registerVars, slotCounter>>
    \/ IssueNone /\ UNCHANGED <<registerVars, slotCounter>>

(* The simulation loop of main never stops between two steps of a cycle.   *)
PMCSpec == AMCInit /\ [][PMCNext]_amcVars /\ WF_amcVars(PMCNext)

=============================================================================
