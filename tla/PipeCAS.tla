------------------------------ MODULE PipeCAS ------------------------------
(***************************************************************************)
(* The PipeCAS controller (system/PipeCAS): rounds, each of which serves   *)
(* one request of every requestor that has one of the round's direction,   *)
(* activations in one FIFO and auto-precharging CAS commands in another,   *)
(* and which starts only when the next activation is possible at once.     *)
(*                                                                         *)
(* Every requestor is critical, as MemoryController's constructor has it,  *)
(* so that the buffers for the others stay empty and casCounter, which     *)
(* only lets them in, has no effect.  CommandGenerator_PipeCAS makes an    *)
(* activation and a CAS, what CommandGenerator_Close makes of one beat.    *)
(***************************************************************************)
EXTENDS Overtaking

PipeCASAssumption ==
    /\ ReqPerREQ /\ ClosePage /\ ~WriteQueue /\ Beats = 1
    /\ Banks = Requestors
    /\ \A q \in Traffic : q.bank = q.requestorID

VARIABLES
    queueScheduled,   (* the snapshot: the queues this round serves        *)
    queueServed,      (* those whose CAS has gone                          *)
    roundStart,
    roundType,        (* the direction of the round; the code sets it anew *)
                      (* in every cycle and reads it when a round starts   *)
    hrtACT, hrtCAS,   (* the FIFOs; queuePending is being in one           *)
    prevCAS,          (* the direction of the last CAS                     *)
    actCounter,       (* the cycles to the next possible activation        *)
    fawCounter        (* the windows of the last activations               *)

roundVars == <<queueScheduled, queueServed, roundStart, roundType, hrtACT,
               hrtCAS, prevCAS, actCounter, fawCounter>>

PipeCASInit ==
    /\ PerRequestorInit
    /\ queueScheduled = <<>> /\ queueServed = {}
    /\ roundStart = FALSE /\ roundType = "RDA"
    /\ hrtACT = <<>> /\ hrtCAS = <<>>
    /\ prevCAS = "WRA"
    /\ actCounter = 0 /\ fawCounter = <<>>
    /\ OvertakingInit

TypesIn(r) == {commandQueue[r][i].busPacketType : i \in DOMAIN commandQueue[r]}
Holding == {r \in Requestors : commandQueue[r] # <<>>}

(* Between rounds nothing is pending.  The direction changes as soon as a  *)
(* CAS of the other one waits.                                             *)
TypeNow ==
    IF queueScheduled = <<>> /\ \E r \in Holding :
            (TypesIn(r) \ {"ACT"}) \ {prevCAS} # {}
        THEN IF prevCAS = "RDA" THEN "WRA" ELSE "RDA"
        ELSE prevCAS

StartNow == roundStart \/ (queueScheduled = <<>> /\ Holding # {})

(* The snapshot: a queue enters once for every CAS of the direction in it. *)
Snapshot ==
    LET cas(r) == SelectSeq(commandQueue[r],
                            LAMBDA c : c.busPacketType = TypeNow)
    IN  IF StartNow /\ queueScheduled = <<>> /\ actCounter = 0
            THEN FlattenSeq([i \in DOMAIN queues |->
                     [k \in DOMAIN cas(queues[i]) |-> queues[i]]])
            ELSE queueScheduled

(* The scheduled queues whose head enters a FIFO: a queue that is listed   *)
(* twice enters once.  An empty queue would make getCommand abort.         *)
Entering(scheduled, act) ==
    SelectSeq(queues, LAMBDA r :
        /\ Contains(scheduled, r)
        /\ ~Contains(hrtACT, r) /\ ~Contains(hrtCAS, r)
        /\ r \notin queueServed
        /\ isReady(r)
        /\ IsCas(r) = ~act)

(* A FIFO's front goes if it is issuable.                                  *)
Issuable(fifo) == fifo # <<>> /\ isIssuable(Head(fifo))

(* The counters at the end of the cycle, with the windows that are open.   *)
Expired(faw) ==
    LET less == [i \in DOMAIN faw |-> faw[i] - 1]
    IN  IF less # <<>> /\ less[1] = 0 THEN Tail(less) ELSE less
Counted(act, faw) == actCounter' = Down(act) /\ fawCounter' = Expired(faw)

(* The round is over when every scheduled queue has been served.           *)
EndOfRound(scheduled, served) ==
    IF scheduled # <<>> /\ Range(scheduled) \subseteq served
        THEN roundStart' = FALSE /\ queueScheduled' = <<>> /\ queueServed' = {}
        ELSE /\ roundStart' = StartNow
             /\ queueScheduled' = scheduled
             /\ queueServed' = served

IssueACT(act, cas) ==
    LET faw == Append(fawCounter, nFAW) IN
    /\ Issuable(act)
    /\ sendCommand(Head(act))
    /\ hrtACT' = Tail(act) /\ hrtCAS' = cas
    /\ Counted(IF Len(faw) = 4 THEN Max({nRRD, faw[1]}) ELSE nRRD, faw)
    /\ UNCHANGED <<prevCAS, overtaken>>

IssueCAS(act, cas) ==
    LET r == Head(cas) IN
    /\ ~Issuable(act)
    /\ Issuable(cas)
    /\ sendCommand(r)
    /\ hrtACT' = act /\ hrtCAS' = Tail(cas)
    /\ prevCAS' = Head(commandQueue[r]).busPacketType
    /\ Counted(actCounter, fawCounter)
    /\ Overtake({w \in Holding : w # r}, r)

IssueNothing(act, cas) ==
    /\ ~Issuable(act) /\ ~Issuable(cas)
    /\ NoCommand
    /\ hrtACT' = act /\ hrtCAS' = cas
    /\ Counted(actCounter, fawCounter)
    /\ UNCHANGED <<prevCAS, overtaken>>

commandSchedule ==
    /\ phase = "command"
    /\ roundType' = IF queueScheduled = <<>> THEN TypeNow ELSE roundType
    /\ \E scheduled \in {Snapshot} :
       \E act \in {hrtACT \o Entering(scheduled, TRUE)},
          cas \in {hrtCAS \o Entering(scheduled, FALSE)} :
            \/ IssueACT(act, cas) /\ EndOfRound(scheduled, queueServed)
            \/ IssueCAS(act, cas)
                   /\ EndOfRound(scheduled, queueServed \cup {Head(cas)})
            \/ IssueNothing(act, cas) /\ EndOfRound(scheduled, queueServed)
    /\ UNCHANGED registerVars

PipeCASNext ==
    \/ DirectCommon /\ UNCHANGED <<roundVars, overtaken>>
    \/ commandSchedule

-----------------------------------------------------------------------------
(* The bus turns round once per round: while a round lasts, every CAS that *)
(* is pending is of its direction.  The snapshot asks whether a queue      *)
(* holds such a CAS, and what enters is the head of the queue.             *)
OneDirection ==
    \A i \in DOMAIN hrtCAS :
        Head(commandQueue[hrtCAS[i]]).busPacketType = roundType

(* The round starts with an activation that needs not wait for the rank    *)
(* and a window: actCounter is what the device will ask for.               *)
StartsAtOnce ==
    actCounter = 0 /\ phase = "command" /\ queueScheduled = <<>> =>
        \A r \in Holding : command_check("ACT", r)

=============================================================================
