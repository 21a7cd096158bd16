---------------------------- MODULE RankReOrder ----------------------------
(***************************************************************************)
(* The RankReOrder controller (system/RankReOrder): CAS commands wait in a *)
(* buffer of their rank, at most one of each requestor in a round, and are *)
(* issued those of one direction first, rank after rank; the activations   *)
(* and precharges wait in a buffer of their own.                           *)
(*                                                                         *)
(* The rank is a label of the requestor, whose addresses lie in one rank;  *)
(* the device is given rank 0 for every command.                           *)
(***************************************************************************)
EXTENDS Overtaking

CONSTANTS rank_num,   (* 2 in the code                                     *)
          RankOf(_)   (* the rank of each requestor's addresses            *)

(* The code has two CAS buffers and indexes them with the request's rank   *)
(* unchecked: it runs with two ranks and the ranks that addresses of two   *)
(* have.  With MULTI_RANK_BANK_PRIVATIZATION, which gives requestor 2 rank *)
(* 2 (AddressMapping.cpp:82), it would use a third.                        *)
RankAssumption ==
    /\ rank_num \in Nat \ {0}
    /\ \A r \in Requestors : RankOf(r) \in 0 .. rank_num - 1

VARIABLES
    CASBuffer,      (* the requestors whose CAS is in the buffer of a rank *)
    ACT_PREBuffer,  (* those whose ACT or PRE is buffered; queuePending is *)
                    (* being in one of the buffers                         *)
    servedFlag,     (* the requestors served in this round                 *)
    bundlingType,   (* the CAS that is issued at present                   *)
    rankIndex       (* the rank whose turn it is                           *)

rankVars == <<CASBuffer, ACT_PREBuffer, servedFlag, bundlingType, rankIndex>>
rrVars == <<vars, registerVars, rankVars, overtaken>>

RankInit ==
    /\ PerRequestorInit
    /\ CASBuffer = [k \in 0 .. rank_num - 1 |-> <<>>]
    /\ ACT_PREBuffer = <<>>
    /\ servedFlag = {}
    /\ bundlingType = "RD"
    /\ rankIndex = 0
    /\ OvertakingInit

TypeAt(r) == Head(commandQueue[r]).busPacketType
Buffered == UNION {Range(CASBuffer[k]) : k \in DOMAIN CASBuffer}

(* A round ends with no CAS buffered.                                      *)
ServedNow == IF Buffered = {} THEN {} ELSE servedFlag

(* The direction changes when CAS commands are buffered, all of the other. *)
TypeNow ==
    IF Buffered # {} /\ \A r \in Buffered : TypeAt(r) # bundlingType
        THEN IF bundlingType = "RD" THEN "WR" ELSE "RD"
        ELSE bundlingType

(* The scan of the queues: the ready heads that are not buffered.          *)
Ready == SelectSeq(queues, LAMBDA r :
             /\ commandQueue[r] # <<>>
             /\ r \notin Buffered /\ ~Contains(ACT_PREBuffer, r)
             /\ isReady(r))

EnterCAS(served) == [k \in DOMAIN CASBuffer |->
    CASBuffer[k] \o SelectSeq(Ready, LAMBDA r :
                        IsCas(r) /\ RankOf(r) = k /\ r \notin served)]
EnterACT == ACT_PREBuffer \o SelectSeq(Ready, LAMBDA r : ~IsCas(r))

(* The CAS that each rank offers, the first of the type, if issuable.      *)
Offers(cas, type) ==
    [k \in DOMAIN cas |->
        LET i == SelectInSeq(cas[k], LAMBDA r : TypeAt(r) = type)
        IN  IF i # 0 /\ isIssuable(cas[k][i]) THEN i ELSE 0]

(* The ranks by their distance from rankIndex, and the first that offers.  *)
RankAt(d) == (rankIndex + d) % rank_num
Offering(offers) == {d \in 0 .. rank_num - 1 : offers[RankAt(d)] # 0}

IssueCAS(cas, act, served, offers) ==
    LET k == RankAt(Min(Offering(offers)))
        r == cas[k][offers[k]]
    IN
    /\ Offering(offers) # {}
    /\ sendCommand(r)
    /\ CASBuffer' = [cas EXCEPT ![k] = RemoveAt(@, offers[k])]
    /\ ACT_PREBuffer' = act
    /\ servedFlag' = served \cup {r}
    /\ rankIndex' = k
    /\ Overtake({w \in Requestors : commandQueue[w] # <<>> /\ IsCas(w)
                                        /\ isReady(w)}, r)

(* With no CAS to issue, the first issuable activation or precharge, if    *)
(* there is one.                                                           *)
IssueACT(cas, act, served, offers, i) ==
    /\ Offering(offers) = {}
    /\ IF i # 0
           THEN sendCommand(act[i]) /\ ACT_PREBuffer' = RemoveAt(act, i)
           ELSE NoCommand /\ ACT_PREBuffer' = act
    /\ CASBuffer' = cas
    /\ servedFlag' = served
    /\ UNCHANGED <<rankIndex, overtaken>>

commandSchedule ==
    /\ phase = "command"
    /\ bundlingType' = TypeNow
    /\ \E served \in {ServedNow} :
       \E cas \in {EnterCAS(served)}, act \in {EnterACT} :
       \E offers \in {Offers(cas, TypeNow)} :
            \/ IssueCAS(cas, act, served, offers)
            \/ IssueACT(cas, act, served, offers,
                        SelectInSeq(act, isIssuable))
    /\ UNCHANGED registerVars

RankNext ==
    \/ DirectCommon /\ UNCHANGED <<rankVars, overtaken>>
    \/ commandSchedule

(* The simulation loop of main never stops between two steps of a cycle.   *)
RankSpec == RankInit /\ [][RankNext]_rrVars /\ WF_rrVars(RankNext)

=============================================================================
