--------------------------- MODULE MemoryService ---------------------------
(***************************************************************************)
(* What a memory channel promises the requestors: every request they       *)
(* submit is turned into Beats accesses of the device, each access yields  *)
(* its data once, and the request is answered with the last of them.       *)
(* Nothing is answered that was not accessed, and nothing twice.           *)
(***************************************************************************)
EXTENDS Naturals

CONSTANTS Requests, Beats

VARIABLES
    todo,  (* the accesses of each request that are still to be made       *)
    done,  (* the accesses whose data have not been delivered yet          *)
    open   (* how many times each request is submitted and not answered    *)

vars == <<todo, done, open>>

Init == /\ todo = [q \in Requests |-> 0]
        /\ done = [q \in Requests |-> 0]
        /\ open = [q \in Requests |-> 0]

Submit(q) ==
    /\ todo' = [todo EXCEPT ![q] = @ + Beats]
    /\ open' = [open EXCEPT ![q] = @ + 1]
    /\ UNCHANGED done

Access(q) ==
    /\ todo[q] > 0
    /\ todo' = [todo EXCEPT ![q] = @ - 1]
    /\ done' = [done EXCEPT ![q] = @ + 1]
    /\ UNCHANGED open

(* The data of one access; those that complete a request answer it.        *)
Deliver(q) ==
    /\ done[q] > 0
    /\ done' = [done EXCEPT ![q] = @ - 1]
    /\ open' = IF (todo[q] + done[q] - 1) % Beats = 0
                   THEN [open EXCEPT ![q] = @ - 1]
                   ELSE open
    /\ UNCHANGED todo

Next == \E q \in Requests : Submit(q) \/ Access(q) \/ Deliver(q)

Spec == Init /\ [][Next]_vars
=============================================================================
