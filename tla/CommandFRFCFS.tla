---------------------------- MODULE CommandFRFCFS ----------------------------
(***************************************************************************)
(* The command scheduler of system/FRFCFS/CommandScheduler_FRFCFS.h (and   *)
(* its copy in system/FRFCFS_Batch), on command queues that are shared by  *)
(* the requestors: one scan of the queues by index, in which the command   *)
(* held so far gives way to another by kind and age.                       *)
(***************************************************************************)
EXTENDS Arrivals

Mutant_Candidates == {b \in Banks : commandQueue[b] # <<>> /\ isIssuable(b)}

MutantNoPre_Candidates ==
    {b \in Banks : /\ commandQueue[b] # <<>>
                   /\ isReady(b)
                   /\ isIssuable(b)
                   /\ Head(commandQueue[b]).busPacketType # "PRE"}

(* The queues whose head may be issued now, by their index.                *)
Candidates == {b \in Banks : /\ commandQueue[b] # <<>>
                             /\ isReady(b)
                             /\ isIssuable(b)}

KindOf(b) == Head(commandQueue[b]).busPacketType

Mutant_GivesWay(b, a) ==
    \/ KindOf(b) \in {"RD", "WR"} /\ Arrived(b) < Arrived(a)
    \/ KindOf(b) = "ACT" /\ KindOf(a) = "ACT" /\ Arrived(b) < Arrived(a)
    \/ KindOf(b) = "PRE" /\ Arrived(b) < Arrived(a)

(* Does the command held from queue a give way to the one of queue b?      *)
GivesWay(b, a) ==
    \/ KindOf(b) \in {"RD", "WR"} /\ Arrived(b) < Arrived(a)
    \/ KindOf(b) = "ACT" /\ KindOf(a) = "ACT" /\ Arrived(b) < Arrived(a)
    \/ KindOf(b) = "ACT" /\ KindOf(a) = "PRE"
    \/ KindOf(b) = "PRE" /\ KindOf(a) = "PRE" /\ Arrived(b) < Arrived(a)

(* The queue whose head is held at the end of the scan.                    *)
Held == LastHeld(Candidates, {p \in Candidates \X Candidates :
                                 GivesWay(p[1], p[2])}, 15)

(* commandSchedule.                                                        *)
FRIssue(b) ==
    /\ Candidates # {}
    /\ b = Held
    /\ sendCommand(b)
    /\ Leave(b)

(* commandSchedule without a candidate.                                    *)
FRIssueNone ==
    /\ Candidates = {}
    /\ NoCommand
    /\ Stay

-----------------------------------------------------------------------------
(* The FCFS controller (system/FCFS): every cycle the first request of the *)
(* general buffer is turned into commands for this command scheduler.      *)

FCFSAssumption == ~ReqPerREQ /\ ~ClosePage /\ ~WriteQueue

FCFSInit == Init /\ ArrivalsInit

(* requestSchedule on the general buffer.                                  *)
fcfsSchedule ==
    /\ requestBuffer[0] # <<>>
    /\ ScheduleRequest(0, 1, FALSE)
    /\ Arrive

fcfsNothing ==
    /\ requestBuffer[0] = <<>>
    /\ EndSchedule
    /\ UNCHANGED arrivalVars

FCFSNext ==
    \/ /\ \/ \E q \in Traffic : SendRequest(q)
          \/ Idle
          \/ DeliverWrite
          \/ NoWrite
          \/ DeliverRead
          \/ NoRead
       /\ UNCHANGED arrivalVars
    \/ fcfsSchedule
    \/ fcfsNothing
    \/ \E b \in Banks : FRIssue(b)
    \/ FRIssueNone

-----------------------------------------------------------------------------
(* What the scan, whose result depends on the order of the queues, does    *)
(* promise: a CAS that is older than every other candidate is issued, and  *)
(* no precharge is while an activation could be.  It is less than the head *)
(* of CommandScheduler_FRFCFS.h says, "priotaize the CAS Commands over ACT *)
(* and PRE": a CAS replaces the command held only if it is older, so an    *)
(* older ACT or PRE is issued before a younger CAS.                        *)
CommandPriority ==
    \A b, x \in Candidates :
        phase = "command" /\ commandQueue'[b] # commandQueue[b] =>
            /\ KindOf(b) = "PRE" => KindOf(x) # "ACT"
            /\ KindOf(x) \in {"RD", "WR"} /\ x # b =>
                   \E y \in Candidates \ {x} : Arrived(y) <= Arrived(x)

=============================================================================
