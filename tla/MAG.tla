-------------------------------- MODULE MAG --------------------------------
(***************************************************************************)
(* The MAG controller (system/MAG): one pass a cycle over the bank queues, *)
(* from an index that moves on with every queue that is passed, for the    *)
(* first head that is ready and issuable.  A ready CAS that cannot be      *)
(* issued blocks the channel until it can.  The preemptive part serves     *)
(* requestors that are not critical, of which there are none, but its loop *)
(* runs all the same, on the command that the pass looked at last.         *)
(***************************************************************************)
EXTENDS PerRequestor

VARIABLES
    indexRT,      (* the queue the next pass begins with                   *)
    casBlocking   (* its CAS blocks the channel                            *)

magIndex == <<indexRT, casBlocking>>
magVars == <<vars, registerVars, magIndex>>

MAGInit == PerRequestorInit /\ indexRT = 0 /\ casBlocking = FALSE

(* The d-th queue of the pass.                                             *)
Visited(d) == (indexRT + d) % NumRequestors

Schedulable(r) == commandQueue[r] # <<>> /\ isReady(r) /\ isIssuable(r)
Blocks(r) == commandQueue[r] # <<>> /\ IsCas(r) /\ isReady(r) /\ ~isIssuable(r)

(* Where the pass ends early: at a command or at a CAS that blocks.        *)
Stops == {d \in 0 .. NumRequestors - 1 :
            Schedulable(Visited(d)) \/ Blocks(Visited(d))}

(* The queues that have a command, as the pass meets them.                 *)
Seen == {d \in 0 .. NumRequestors - 1 : commandQueue[Visited(d)] # <<>>}

(* The pass issues a command.                                              *)
IssueRT ==
    LET d == Min(Stops) IN
    /\ phase = "command"
    /\ ~casBlocking
    /\ Stops # {}
    /\ Schedulable(Visited(d))
    /\ sendCommand(Visited(d))
    /\ indexRT' = Visited(d + 1)
    /\ UNCHANGED <<casBlocking, registerVars>>

Mutant_Block ==
    LET d == Min(Stops) IN
    /\ phase = "command"
    /\ ~casBlocking
    /\ Stops # {}
    /\ Blocks(Visited(d))
    /\ NoCommand
    /\ indexRT' = Visited(d + 1)
    /\ casBlocking' = TRUE
    /\ UNCHANGED registerVars

(* The pass meets a CAS that blocks: it ends, with the index there.        *)
Block ==
    LET d == Min(Stops) IN
    /\ phase = "command"
    /\ ~casBlocking
    /\ Stops # {}
    /\ Blocks(Visited(d))
    /\ NoCommand
    /\ indexRT' = Visited(d)
    /\ casBlocking' = TRUE
    /\ UNCHANGED registerVars

(* The blocking CAS can be issued, or still cannot.                        *)
Unblock ==
    /\ phase = "command"
    /\ casBlocking
    /\ isIssuable(indexRT)
    /\ sendCommand(indexRT)
    /\ indexRT' = Visited(1)
    /\ casBlocking' = FALSE
    /\ UNCHANGED registerVars

StillBlocked ==
    /\ phase = "command"
    /\ casBlocking
    /\ ~isIssuable(indexRT)
    /\ NoCommand
    /\ UNCHANGED <<magIndex, registerVars>>

(* The pass issues nothing, and leaves the last head it has seen in        *)
(* tempCmd, which the loop for the other requestors then takes for theirs: *)
(* it only asks whether it is issuable.                                    *)
Stale == IF Seen = {} THEN {}
         ELSE {r \in {Visited(Max(Seen))} : isIssuable(r)}

IssueStale(r) ==
    /\ phase = "command"
    /\ ~casBlocking
    /\ Stops = {}
    /\ r \in Stale
    /\ sendCommand(r)
    /\ UNCHANGED <<magIndex, registerVars>>

NothingRT ==
    /\ phase = "command"
    /\ ~casBlocking
    /\ Stops = {}
    /\ Stale = {}
    /\ NoCommand
    /\ UNCHANGED <<magIndex, registerVars>>

MAGNext ==
    \/ DirectCommon /\ UNCHANGED magIndex
    \/ IssueRT
    \/ Block
    \/ Unblock
    \/ StillBlocked
    \/ \E r \in Requestors : IssueStale(r)
    \/ NothingRT

(* The simulation loop of main never stops between two steps of a cycle.   *)
MAGSpec == MAGInit /\ [][MAGNext]_magVars /\ WF_magVars(MAGNext)

-----------------------------------------------------------------------------
(* While the channel is blocked the queue of the index has its CAS at the  *)
(* head, ready: getCommand is never called on an empty queue, where it     *)
(* aborts, and issuing it without another isReady is sound.                *)
BlockedByCas ==
    casBlocking => /\ commandQueue[indexRT] # <<>>
                   /\ IsCas(indexRT)
                   /\ isReady(indexRT)

=============================================================================
