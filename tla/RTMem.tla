------------------------------- MODULE RTMem -------------------------------
(***************************************************************************)
(* The RTMem controller (system/RTMem): the slotted round robin of AMC     *)
(* with an isSchedulable of its own, which refuses a request while some    *)
(* command queue holds two commands, and a command scheduler that prefers  *)
(* the oldest ready CAS to the oldest other ready command.                 *)
(***************************************************************************)
EXTENDS AMC, Arrivals

rtVars == <<amcVars, arrivalVars>>

RTInit == AMCInit /\ ArrivalsInit

(* RequestScheduler_RTMem::isSchedulable.                                  *)
isSchedulable == \A b \in Banks : Len(commandQueue[b]) < 2

(* The queues with a ready head of a type in T.                            *)
ReadyHeads(T) == {b \in Banks : /\ commandQueue[b] # <<>>
                                /\ isReady(b)
                                /\ Head(commandQueue[b]).busPacketType \in T}
readyCAS == ReadyHeads(BeforeACT)

readyACT == ReadyHeads(Types \ BeforeACT)

(* CommandScheduler_RTMem::commandSchedule's choice, empty if it has none: *)
(* only the oldest of each kind is tried.                                  *)
Chosen ==
    LET Issuable(S) == {b \in S : isIssuable(b)}
        cas == IF readyCAS = {} THEN {} ELSE Issuable({Oldest(readyCAS)})
        act == IF readyACT = {} THEN {} ELSE Issuable({Oldest(readyACT)})
    IN  IF cas # {} THEN cas ELSE act

(* commandSchedule.                                                        *)
commandSchedule(b) ==
    /\ phase = "command"
    /\ b \in Chosen
    /\ sendCommand(b)
    /\ Leave(b)
    /\ UNCHANGED <<registerVars, slotCounter>>

(* commandSchedule without a choice.                                       *)
NothingToIssue ==
    /\ phase = "command"
    /\ Chosen = {}
    /\ NoCommand
    /\ Stay
    /\ UNCHANGED <<registerVars, slotCounter>>

RTNext ==
    \/ RRCommon /\ UNCHANGED arrivalVars
    \/ RRSchedule(isSchedulable) /\ Arrive
    \/ \E b \in Banks : commandSchedule(b)
    \/ NothingToIssue

(* The simulation loop of main never stops between two steps of a cycle.   *)
RTSpec == RTInit /\ [][RTNext]_rtVars /\ WF_rtVars(RTNext)

-----------------------------------------------------------------------------

(* Ready CAS commands are issued in the order of their arrival: a younger  *)
(* one does not overtake an older one that waits for the bus to turn       *)
(* round.  Another command is issued before a ready CAS only while that    *)
(* one, or an older one, cannot be.                                        *)
OldestCasFirst ==
    \A b, x \in Banks :
        phase = "command" /\ commandQueue'[b] # commandQueue[b]
        /\ x \in readyCAS /\ x # b
        => IF Head(commandQueue[b]).busPacketType \in BeforeACT
           THEN Arrived(b) <= Arrived(x)
           ELSE \E y \in readyCAS : Arrived(y) <= Arrived(x) /\ ~isIssuable(y)

=============================================================================
