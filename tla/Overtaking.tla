----------------------------- MODULE Overtaking -----------------------------
(***************************************************************************)
(* A history for the controllers that reorder CAS commands in rounds: how  *)
(* many each other requestor issues while the ready CAS of one waits.      *)
(***************************************************************************)
EXTENDS PerRequestor

VARIABLE overtaken

OvertakingInit == overtaken = [r \in Requestors |-> [x \in Requestors |-> 0]]

(* A CAS of r leaves; the CAS commands of the requestors in waiting wait.  *)
Overtake(waiting, r) ==
    overtaken' = [w \in Requestors |-> [x \in Requestors |->
        IF w = r THEN 0
        ELSE IF x = r /\ w \in waiting THEN overtaken[w][x] + 1
        ELSE overtaken[w][x]]]


=============================================================================
