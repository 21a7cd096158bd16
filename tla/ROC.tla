-------------------------------- MODULE ROC --------------------------------
(***************************************************************************)
(* The ROC controller (system/ROC): three levels of arbitration, of which  *)
(* the third queues the ready commands of each rank, the second takes one  *)
(* CAS and one other command of each rank, and the first issues those of   *)
(* the ranks by turns, CAS commands before the others.                     *)
(*                                                                         *)
(* One command queue holds a buffer per requestor (CmdPerREQ=1), with a    *)
(* bank of its own.  The rank is a label of the requestor                  *)
(* (MULTI_RANK_BANK_PRIVATIZATION); the device is given rank 0.  The       *)
(* timers of the second level are always at most prevEnd + tRTR, the value *)
(* they are set to and compared with: they hold no CAS back and are not    *)
(* modelled, nor the search for the smallest of them, which only runs when *)
(* no CAS is there.                                                        *)
(***************************************************************************)
EXTENDS Overtaking

CONSTANTS ranks,     (* 4 in the code                                      *)
          RankOf(_)  (* AddressMapping's rank of each requestor            *)

ROCAssumption ==
    /\ ranks \in Nat \ {0}
    /\ \A r \in Requestors : RankOf(r) \in 0 .. ranks - 1

VARIABLES
    rankFIFO_L3PA,   (* the third level: the requestors whose ACT or PRE,  *)
    rankFIFO_L3CAS,  (* or whose CAS, waits in each rank                   *)
    l2_PA, l2_CAS,   (* the second level: at most one of each rank         *)
    l2_PAindex,      (* the ranks whose turn it is                         *)
    l2_CASindex

rocVars == <<rankFIFO_L3PA, rankFIFO_L3CAS, l2_PA, l2_CAS, l2_PAindex,
             l2_CASindex>>

Empty == [k \in 0 .. ranks - 1 |-> <<>>]

ROCInit ==
    /\ PerRequestorInit
    /\ rankFIFO_L3PA = Empty /\ rankFIFO_L3CAS = Empty
    /\ l2_PA = Empty /\ l2_CAS = Empty
    /\ l2_PAindex = 0 /\ l2_CASindex = 0
    /\ OvertakingInit

(* queuePending: the requestor's command is on one of the levels.          *)
queuePending(r) == \E k \in 0 .. ranks - 1 :
    \E fifo \in {rankFIFO_L3PA, rankFIFO_L3CAS, l2_PA, l2_CAS} :
        Contains(fifo[k], r)

(* Level 3.  The requestors are scanned in the order of their first        *)
(* command, which is that of their registration.  The outer test reads the *)
(* flag of the queue's index, which is requestor 0's: while its command    *)
(* waits, nobody's enters.                                                 *)
Entering ==
    IF queuePending(0) THEN <<>>
    ELSE SelectSeq(requestorOrder, LAMBDA r : /\ commandQueue[r] # <<>>
                                              /\ ~queuePending(r)
                                              /\ isReady(r))

Enter(fifo, entering, cas) ==
    [k \in DOMAIN fifo |-> fifo[k] \o SelectSeq(entering, LAMBDA r :
                               IsCas(r) = cas /\ RankOf(r) = k)]

(* Level 2: which one of a rank's FIFO moves up, if the place is empty.    *)
(* The front CAS does; of the others, the first that is issuable.          *)
TakenCAS(fifo) ==
    [k \in DOMAIN fifo |-> IF l2_CAS[k] = <<>> /\ fifo[k] # <<>> THEN 1 ELSE 0]

TakenPA(fifo) ==
    [k \in DOMAIN fifo |-> IF l2_PA[k] = <<>>
                               THEN SelectInSeq(fifo[k], isIssuable) ELSE 0]

MoveUp(l2, fifo, taken) ==
    [k \in DOMAIN l2 |-> IF taken[k] = 0 THEN l2[k] ELSE <<fifo[k][taken[k]]>>]
Left(fifo, taken) ==
    [k \in DOMAIN fifo |->
        IF taken[k] = 0 THEN fifo[k] ELSE RemoveAt(fifo[k], taken[k])]

(* Level 1: the ranks from an index on, those that offer a command of a    *)
(* requestor in able, and the first of them.                               *)
From(index, d) == (index + d) % ranks
Offering(index, l2, able) ==
    {d \in 0 .. ranks - 1 : Range(l2[From(index, d)]) \cap able # {}}
FirstRank(index, l2, able) == From(index, Min(Offering(index, l2, able)))

(* The CAS of the first rank that has one, if it is issuable, goes and the *)
(* turn passes on.                                                         *)
IssueCAS(pa, cas) ==
    LET k == FirstRank(l2_CASindex, cas, Requestors)
        r == Head(cas[k])
    IN
    /\ Offering(l2_CASindex, cas, Requestors) # {}
    /\ isIssuable(r)
    /\ sendCommand(r)
    /\ l2_CAS' = [cas EXCEPT ![k] = <<>>]
    /\ l2_CASindex' = From(k, 1)
    /\ l2_PA' = pa
    /\ Overtake({w \in Requestors : commandQueue[w] # <<>> /\ IsCas(w)
                                        /\ isReady(w)}, r)
    /\ UNCHANGED l2_PAindex

(* Without it the turn stays at that rank, and the first issuable one of   *)
(* the other commands goes.                                                *)
IssuePA(pa, cas) ==
    LET waiting == Offering(l2_CASindex, cas, Requestors)
        k == From(l2_CASindex, Min(waiting))
        able == {r \in UNION {Range(pa[i]) : i \in DOMAIN pa} : isIssuable(r)}
        p == FirstRank(l2_PAindex, pa, able)
    IN
    /\ waiting # {} => ~isIssuable(Head(cas[k]))
    /\ l2_CASindex' = IF waiting = {} THEN l2_CASindex ELSE k
    /\ IF Offering(l2_PAindex, pa, able) = {}
           THEN /\ NoCommand
                /\ l2_PA' = pa
                /\ UNCHANGED l2_PAindex
           ELSE /\ sendCommand(Head(pa[p]))
                /\ l2_PA' = [pa EXCEPT ![p] = <<>>]
                /\ l2_PAindex' = From(p, 1)
    /\ l2_CAS' = cas
    /\ UNCHANGED overtaken

commandSchedule ==
    /\ phase = "command"
    /\ \E entering \in {Entering} :
       \E l3PA \in {Enter(rankFIFO_L3PA, entering, FALSE)},
          l3CAS \in {Enter(rankFIFO_L3CAS, entering, TRUE)} :
       \E p \in {TakenPA(l3PA)}, c \in {TakenCAS(l3CAS)} :
            /\ rankFIFO_L3PA' = Left(l3PA, p)
            /\ rankFIFO_L3CAS' = Left(l3CAS, c)
            /\ \E pa \in {MoveUp(l2_PA, l3PA, p)},
                  cas \in {MoveUp(l2_CAS, l3CAS, c)} :
                    IssueCAS(pa, cas) \/ IssuePA(pa, cas)
    /\ UNCHANGED registerVars

ROCNext ==
    \/ DirectCommon /\ UNCHANGED <<rocVars, overtaken>>
    \/ commandSchedule

-----------------------------------------------------------------------------
(* The requestors that share r's rank, r among them.                       *)
RankMates(r) == {x \in Requestors : RankOf(x) = RankOf(r)}

(* A waiting CAS has at most the rank's other requestors before it in the  *)
(* FIFO, and between two of them another rank issues one: while it waits,  *)
(* every other requestor issues at most as many as its rank has            *)
(* requestors, or two, when its own command has to wait for requestor 0's  *)
(* before it may enter.                                                    *)
RankAtMost ==
    \A r, x \in Requestors :
        overtaken[r][x] <= Max({2, Cardinality(RankMates(r))})

=============================================================================
