------------------------------ MODULE Arrivals ------------------------------
(***************************************************************************)
(* The arriveTime that MemoryController::enqueueCommand gives a command,   *)
(* for the command schedulers that compare it.  Only its order counts: the *)
(* times of the queued commands are kept as 0, 1, 2, ... and the current   *)
(* cycle is the next of them.                                              *)
(***************************************************************************)
EXTENDS MemoryControllerProofs

VARIABLES
    arriveTime,   (* of each command of each queue                         *)
    now           (* clockCycle                                            *)

arrivalVars == <<arriveTime, now>>

ArrivalsInit ==
    /\ arriveTime = [b \in Banks |-> <<>>]
    /\ now = 0

(* The commands that a step adds to the queues arrive now.                 *)
Arrive ==
    /\ arriveTime' = [b \in Banks |->
           arriveTime[b] \o
           [k \in 1 .. Len(commandQueue'[b]) - Len(commandQueue[b]) |-> now]]
    /\ UNCHANGED now

(* The next cycle, with the times of the commands left.                    *)
Renumber(times) ==
    LET left == UNION {Range(times[b]) : b \in Banks}
        Rank(t) == Cardinality({u \in left : u < t})
    IN  /\ arriveTime' = [b \in Banks |->
               [k \in DOMAIN times[b] |-> Rank(times[b][k])]]
        /\ now' = Cardinality(left)

(* The head of queue b leaves, or none does, and the cycle goes on.        *)
Leave(b) == Renumber([arriveTime EXCEPT ![b] = Tail(@)])
Stay == Renumber(arriveTime)

(* When the command at the head of queue b arrived.                        *)
Arrived(b) == Head(arriveTime[b])

(* The queue, of those in S, whose head arrived first; of several, the one *)
(* that the scan by index meets first.                                     *)
Oldest(S) == CHOOSE b \in S : \A x \in S \ {b} :
                 Arrived(b) < Arrived(x) \/ (Arrived(b) = Arrived(x) /\ b < x)

=============================================================================
