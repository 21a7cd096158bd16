-------------------------------- MODULE ORP --------------------------------
(***************************************************************************)
(* The ORP controller (system/ORP/ORP.ini): generalScheduler/              *)
(* RequestScheduler_DIRECT.h, which takes the first request of every       *)
(* requestor each cycle; the open-page generator; and the command          *)
(* scheduler of system/ORP/CommandScheduler_ORP.h, a FIFO of the ready     *)
(* commands, at most one of each requestor, in which a CAS that cannot be  *)
(* issued blocks the CAS commands behind it.                               *)
(*                                                                         *)
(* Every requestor has its own command queue and, in the default build,    *)
(* its own bank, of the same number.  The command queues register their    *)
(* requestors in the order of the request queue (requestorMap).            *)
(***************************************************************************)
EXTENDS PerRequestor

VARIABLE
    cmdFIFO         (* cmdFIFO: the requestors whose first command is in   *)
                    (* it; queuePending is being in it                     *)

orpVars == <<vars, registerVars, cmdFIFO>>

ORPInit == PerRequestorInit /\ cmdFIFO = <<>>

(* The queues whose first command is ready.                                *)
Ready == {r \in Requestors : commandQueue[r] # <<>> /\ isReady(r)}

(* queuePending: the first command of r is in the FIFO.                    *)
Pending(fifo, r) == \E i \in DOMAIN fifo : fifo[i] = r

(* One turn of the scan: r enters if it may.                               *)
Enters(fifo, r, able) ==
    IF r \in able /\ ~Pending(fifo, r) THEN Append(fifo, r) ELSE fifo

(* The scan of the queues, in the order of scan, from the FIFO start.      *)
Scan(start, scan, able) ==
    LET fifo[n \in 0 .. Len(scan)] ==
            IF n = 0 THEN start ELSE Enters(fifo[n - 1], scan[n], able)
    IN  fifo[Len(scan)]

Mutant_Enter(scan) ==
    Scan(cmdFIFO, scan, {r \in Requestors : commandQueue[r] # <<>>})

(* The FIFO after the first half of commandSchedule: the first command of  *)
(* every queue that has none in it enters once it is ready, the queues     *)
(* taken in the order of scan.                                             *)
Enter(scan) == Scan(cmdFIFO, scan, Ready)

Mutant_Eligible(fifo, i) == isIssuable(fifo[i])

(* The second half: may the i-th command of the FIFO be issued?            *)
Eligible(fifo, i) ==
    /\ isIssuable(fifo[i])
    /\ IsCas(fifo[i]) =>
           \A j \in 1 .. i - 1 : IsCas(fifo[j]) => isIssuable(fifo[j])

(* commandSchedule: the first eligible command of the FIFO is issued.      *)
IssueFrom(fifo, i) ==
    /\ phase = "command"
    /\ i \in DOMAIN fifo
    /\ Eligible(fifo, i)
    /\ \A j \in 1 .. i - 1 : ~Eligible(fifo, j)
    /\ sendCommand(fifo[i])
    /\ cmdFIFO' = RemoveAt(fifo, i)
    /\ UNCHANGED registerVars

(* commandSchedule with no eligible command.                               *)
NothingToIssue(fifo) ==
    /\ phase = "command"
    /\ \A i \in DOMAIN fifo : ~Eligible(fifo, i)
    /\ NoCommand
    /\ cmdFIFO' = fifo
    /\ UNCHANGED registerVars

(* ORP takes the requestors in the order in which they registered.         *)
Filled == Enter(requestorOrder)

ORPNext ==
    \/ DirectCommon /\ UNCHANGED cmdFIFO
    \/ \E i \in 1 .. NumRequestors : IssueFrom(Filled, i)
    \/ NothingToIssue(Filled)

(* The simulation loop of main never stops between two steps of a cycle.   *)
ORPSpec == ORPInit /\ [][ORPNext]_orpVars /\ WF_orpVars(ORPNext)

-----------------------------------------------------------------------------

(* A command in the FIFO stays ready until it is issued, so that leaving   *)
(* out isReady at issue is sound, and no requestor has two in it.          *)
FIFOReady ==
    /\ \A i \in DOMAIN cmdFIFO :
            commandQueue[cmdFIFO[i]] # <<>> /\ isReady(cmdFIFO[i])
    /\ \A i, j \in DOMAIN cmdFIFO : cmdFIFO[i] = cmdFIFO[j] => i = j

(* CAS commands are issued in the order in which they became ready: none   *)
(* overtakes another one in the FIFO, whatever the direction of the bus    *)
(* favours.                                                                *)
CasInOrder(fifo) ==
    phase = "command" => \A i, j \in DOMAIN fifo :
        j < i /\ IsCas(fifo[i]) /\ IsCas(fifo[j]) /\ fifo[j] \in Range(cmdFIFO')
            => fifo[i] \in Range(cmdFIFO')

-----------------------------------------------------------------------------
(* The DCmc controller (system/DCmc): the FIFO of ready commands of ORP,   *)
(* over command queues of the banks, which are scanned by their index.     *)

(* commandSchedule's scan of the queues.                                   *)
Scanned == Enter(queues)

(* Its pass over cmdFIFO.  srtFIFO, of the requestors that are not         *)
(* critical, stays empty.                                                  *)
DCmcIssue(i) == IssueFrom(Scanned, i)
DCmcNothing == NothingToIssue(Scanned)

DCmcNext ==
    \/ DirectCommon /\ UNCHANGED cmdFIFO
    \/ \E i \in 1 .. NumRequestors : DCmcIssue(i)
    \/ DCmcNothing

(* The simulation loop of main never stops between two steps of a cycle.   *)
DCmcSpec == ORPInit /\ [][DCmcNext]_orpVars /\ WF_orpVars(DCmcNext)

=============================================================================
