------------------------- MODULE MCMemoryController -------------------------
(* Instances of MemoryController for TLC.                                  *)
EXTENDS MemoryController

Req(r, t, b, w) == [requestorID |-> r, requestType |-> t, bank |-> b,
                    row |-> w, col |-> 0]

(* Two requestors, each with its private bank, as in the default build:    *)
(* reads of two rows and writes of one.                                    *)
Private == {Req(r, "DATA_READ", r, w) : r \in {0, 1}, w \in {1, 2}}
           \cup {Req(r, "DATA_WRITE", r, 1) : r \in {0, 1}}

(* Two requestors on one bank (the build without bank privatization): one  *)
(* reads and writes row 0, the other reads row 1.                          *)
Shared == {Req(0, "DATA_READ", 0, 1), Req(0, "DATA_WRITE", 0, 1),
           Req(1, "DATA_READ", 0, 2)}

=============================================================================
