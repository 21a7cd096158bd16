------------------------- MODULE PredictableSystems -------------------------
(***************************************************************************)
(* The controllers of system/ that give each requestor a request buffer of *)
(* its own, as one specification: the .ini file names one of them, the     *)
(* registers of src/SchedulerRegister.h build it, and from then on it runs *)
(* alone.  The variable system is that choice.  Each controller is an      *)
(* instance of its module, with the traffic, the page policy and, where    *)
(* its schedule is computed for one, the device that suit it.              *)
(***************************************************************************)
EXTENDS Integers, Sequences, FiniteSets

CONSTANTS
    Systems,           (* the controllers to choose from                   *)
    PrivateTraffic, SlotTraffic, SharedTraffic, MEDUSATraffic, RoundTraffic,
    ROCTraffic,
    Banks,             (* the device, the same for most                    *)
    nBL, nCCD, nCL, nCWL, nRCD, nRP, nRAS, nRC, nRTP, nWTR, nWR, nRRD, nFAW,
    SlowRRD, ShortSlot, (* nRRD and the slot that RTMem has                *)
    NumRequestors, InOrder, RequestBufferSize, UIntMax, NoRow,
    LowWatermark,      (* of MEDUSA's write queue                          *)
    Garbage            (* what Round's constructor leaves in its arrays    *)

VARIABLES
    phase, turn, corePending, requestBuffer,            (* MemoryController *)
    pendingRead, pendingWrite, bankTable, first,
    commandQueue, cmdQueueTimer, sendData, readData, openRow,
    rankNext, bankNext, prev,                           (* DDR3            *)
    system,
    requestorOrder, requestorIndex,                     (* PerRequestor    *)
    slotCounter, arriveTime, now,                       (* AMC, PMC, RTMem *)
    cmdFIFO,                                            (* ORP, DCmc       *)
    indexRT, casBlocking,                               (* MAG             *)
    loop, qIndex,                                       (* MEDUSA          *)
    overtaken,                                          (* Overtaking      *)
    bundlingType,                                       (* both ReOrders   *)
    commandRegisters, servedFlags,                      (* ReOrder         *)
    CASBuffer, ACT_PREBuffer, servedFlag, rankIndex,    (* RankReOrder     *)
    rankFIFO_L3PA, rankFIFO_L3CAS, l2_PA, l2_CAS,       (* ROC             *)
    l2_PAindex, l2_CASindex,
    roundType,                                          (* PipeCAS, Round  *)
    queueScheduled, queueServed, roundStart, hrtACT,    (* PipeCAS         *)
    hrtCAS, prevCAS, actCounter, fawCounter,
    Order, OrderPRE, closestatemap, queuePending,       (* Round           *)
    servicebuffer, consideredScheduled, jump, firstOfRound, countACT,
    time_issued_first_ACT, ACTtimer, CAStimer, sinceCAS

controller == <<phase, turn, corePending, requestBuffer, pendingRead,
                pendingWrite, bankTable, first, commandQueue, cmdQueueTimer,
                sendData, readData, openRow, rankNext, bankNext, prev>>
registers == <<requestorOrder, requestorIndex>>
arrivals == <<arriveTime, now>>
magIndex == <<indexRT, casBlocking>>
writeLoop == <<loop, qIndex>>
reorders == <<commandRegisters, servedFlags>>
ranks == <<CASBuffer, ACT_PREBuffer, servedFlag, rankIndex>>
levels == <<rankFIFO_L3PA, rankFIFO_L3CAS, l2_PA, l2_CAS, l2_PAindex,
            l2_CASindex>>
pipe == <<queueScheduled, queueServed, roundStart, hrtACT, hrtCAS, prevCAS,
          actCounter, fawCounter>>
rounds == <<Order, OrderPRE, closestatemap, queuePending, servicebuffer,
            consideredScheduled, jump, firstOfRound, countACT,
            time_issued_first_ACT, ACTtimer, CAStimer, sinceCAS>>
slots == <<slotCounter, arrivals, cmdFIFO, magIndex, writeLoop>>
reordering == <<overtaken, bundlingType, reorders, ranks, levels, roundType,
                pipe, rounds>>
systemVars == <<controller, system, registers, slots, reordering>>

-----------------------------------------------------------------------------
(* The traffic: the requestors have private banks, or share some.          *)

Requestors == 0 .. NumRequestors - 1

Req(r, t, b, w) == [requestorID |-> r, requestType |-> t, bank |-> b,
                    row |-> w, col |-> 0]

(* Reads and writes of three requestors with a bank each, of which one     *)
(* changes its row.                                                        *)
Private == {Req(0, "DATA_READ", 0, 1), Req(0, "DATA_READ", 0, 2),
            Req(1, "DATA_WRITE", 1, 1), Req(2, "DATA_READ", 2, 1)}

(* Two of them.                                                            *)
PrivateTwo == {q \in Private : q.requestorID < 2}

(* One that reads and writes, one that reads, one that writes.             *)
OneRow == {Req(0, "DATA_READ", 0, 1), Req(0, "DATA_WRITE", 0, 1),
           Req(1, "DATA_READ", 1, 1), Req(2, "DATA_WRITE", 2, 1)}

(* Two requestors of a wider system, one that writes and one that reads.   *)
Pair == {Req(0, "DATA_WRITE", 0, 1), Req(1, "DATA_READ", 1, 1)}

(* One request of each of three.                                           *)
Three == {Req(0, "DATA_READ", 0, 1), Req(1, "DATA_WRITE", 1, 1),
          Req(2, "DATA_READ", 2, 1)}

(* One more requestor than eight, which reads two rows.                    *)
Ninth == {Req(8, "DATA_READ", 8, 1), Req(8, "DATA_READ", 8, 2)}

(* One bank is shared.                                                     *)
Shared == {Req(0, "DATA_READ", 0, 1), Req(1, "DATA_READ", 2, 1),
           Req(1, "DATA_READ", 1, 1), Req(2, "DATA_WRITE", 2, 1)}

(* Reads and writes, and rows, meet in two banks.                          *)
Meeting == {Req(0, "DATA_WRITE", 0, 1), Req(0, "DATA_READ", 0, 1),
            Req(1, "DATA_WRITE", 1, 1), Req(1, "DATA_READ", 0, 2),
            Req(2, "DATA_WRITE", 0, 2)}

(* Two requestors of one rank, and one of another.                         *)
OfTwoRanks == {Req(0, "DATA_READ", 0, 1), Req(1, "DATA_READ", 1, 1),
               Req(3, "DATA_WRITE", 3, 1)}

(* One of each.                                                            *)
OneOfARank == {q \in OfTwoRanks : q.requestorID < 2}

(* The two ranks of RankReOrder, by turns.  Its scheduler has two CAS      *)
(* buffers (RankReOrder.h:26) and takes the rank as their index unchecked: *)
(* the r % 3 of AddressMapping.cpp:82, which is for ROC, would have it use *)
(* CASBuffer[2], past the array, for requestor 2.                          *)
Alternate(r) == r % 2

(* MULTI_RANK_BANK_PRIVATIZATION's rank.                                   *)
RankOfROC(r) == IF r < 8 THEN r % 3 ELSE 3

-----------------------------------------------------------------------------
(* The controllers.  The slots of AMC and PMC are made for DDR3_1600H.     *)

amc == INSTANCE AMC WITH
    ReqPerREQ <- TRUE, WriteQueue <- FALSE, Beats <- 1,
    Traffic <- SlotTraffic, ClosePage <- TRUE, timeSlot <- 42,
    nBL <- 4, nCCD <- 4, nCL <- 9, nCWL <- 8, nRCD <- 9, nRP <- 9,
    nRAS <- 28, nRC <- 37, nRTP <- 6, nWTR <- 6, nWR <- 12, nRRD <- 5,
    nFAW <- 24

pmc == INSTANCE PMC WITH
    ReqPerREQ <- TRUE, WriteQueue <- FALSE, Beats <- 1,
    Traffic <- Pair, ClosePage <- TRUE, timeSlot <- 47, numSlots <- 8,
    nBL <- 4, nCCD <- 4, nCL <- 9, nCWL <- 8, nRCD <- 9, nRP <- 9,
    nRAS <- 28, nRC <- 37, nRTP <- 6, nWTR <- 6, nWR <- 12, nRRD <- 5,
    nFAW <- 24

(* With a slot shorter than the device needs commands wait.                *)
rtmem == INSTANCE RTMem WITH
    ReqPerREQ <- TRUE, WriteQueue <- FALSE, Beats <- 1,
    Traffic <- SharedTraffic, ClosePage <- TRUE, timeSlot <- ShortSlot, nRRD <- SlowRRD

(* ORP, DCmc and MAG.                                                      *)
private == INSTANCE PrivateProofs WITH
    ReqPerREQ <- TRUE, WriteQueue <- FALSE, ClosePage <- FALSE,
    Traffic <- PrivateTraffic, Beats <- 1

(* Watermarks that three writes pass, where the code has 4 and 10.         *)
medusa == INSTANCE MEDUSA WITH
    ReqPerREQ <- TRUE, WriteQueue <- TRUE, ClosePage <- FALSE,
    Traffic <- MEDUSATraffic, Beats <- 1,
    lowwatermark <- LowWatermark, highwatermark <- 2

(* Bursts long enough that the next CAS of a requestor is ready in time.   *)
reorder == INSTANCE ReOrder WITH
    ReqPerREQ <- TRUE, WriteQueue <- FALSE, ClosePage <- FALSE,
    Traffic <- {q \in PrivateTraffic : q.row = 1}, Beats <- 3,
    nBL <- 4, nCCD <- 4

rank == INSTANCE RankReOrder WITH
    ReqPerREQ <- TRUE, WriteQueue <- FALSE, ClosePage <- FALSE,
    Traffic <- {q \in PrivateTraffic : q.row = 1}, Beats <- 2,
    rank_num <- 2, RankOf <- Alternate

(* Enough requestors for two to have the same rank, and beats for the      *)
(* other rank to have its next CAS ready.                                  *)
roc == INSTANCE ROC WITH
    ReqPerREQ <- TRUE, WriteQueue <- FALSE, ClosePage <- FALSE,
    Traffic <- ROCTraffic, Beats <- 3, ranks <- 4, RankOf <- RankOfROC,
    NumRequestors <- 4, Banks <- 0 .. 3

pipecas == INSTANCE PipeCAS WITH
    ReqPerREQ <- TRUE, WriteQueue <- FALSE, ClosePage <- TRUE,
    Traffic <- RoundTraffic, Beats <- 1

round == INSTANCE Round WITH
    ReqPerREQ <- TRUE, WriteQueue <- FALSE, ClosePage <- FALSE,
    Traffic <- {q \in RoundTraffic : q.requestorID # 2}, Beats <- 1

ASSUME SystemsAssumption ==
    /\ amc!AMCAssumption
    /\ pmc!AMCAssumption
    /\ "PMC" \in Systems => pmc!PMCAssumption
    /\ rtmem!TimingAssumption /\ rtmem!ControllerAssumption
    /\ rtmem!AMCAssumption
    /\ private!TimingAssumption /\ private!ControllerAssumption
    /\ private!PrivatizedAssumption
    /\ medusa!MEDUSAAssumption
    /\ rank!RankAssumption /\ roc!ROCAssumption
    /\ pipecas!PipeCASAssumption /\ round!RoundAssumption

-----------------------------------------------------------------------------
(* The controllers with a history of overtakings.                          *)
Reordering == {"ReOrder", "RankReOrder", "ROC", "PipeCAS", "Round"}

(* The variables of the controllers that were not chosen keep a value.     *)
Unused ==
    /\ system \notin {"AMC", "PMC", "RTMem"} => slotCounter = 0
    /\ system # "RTMem" => arriveTime = <<>> /\ now = 0
    /\ system \notin {"ORP", "DCmc"} => cmdFIFO = <<>>
    /\ system # "MAG" => indexRT = 0 /\ casBlocking = FALSE
    /\ system # "MEDUSA" => loop = "none" /\ qIndex = 1
    /\ system # "ReOrder" => commandRegisters = <<>> /\ servedFlags = {}
    /\ system # "RankReOrder" => /\ CASBuffer = <<>> /\ ACT_PREBuffer = <<>>
                                 /\ servedFlag = {} /\ rankIndex = 0
    /\ system \notin {"ReOrder", "RankReOrder"} => bundlingType = "RD"
    /\ system \notin Reordering => overtaken = <<>>
    /\ system # "ROC" => /\ rankFIFO_L3PA = <<>> /\ rankFIFO_L3CAS = <<>>
                         /\ l2_PA = <<>> /\ l2_CAS = <<>>
                         /\ l2_PAindex = 0 /\ l2_CASindex = 0
    /\ system \notin {"PipeCAS", "Round"} => roundType = "none"
    /\ system # "PipeCAS" => /\ queueScheduled = <<>> /\ queueServed = {}
                             /\ roundStart = FALSE /\ hrtACT = <<>>
                             /\ hrtCAS = <<>> /\ prevCAS = "WRA"
                             /\ actCounter = 0 /\ fawCounter = <<>>
    /\ system # "Round" => /\ Order = <<>> /\ OrderPRE = <<>>
                           /\ closestatemap = {} /\ queuePending = {}
                           /\ servicebuffer = <<>>
                           /\ consideredScheduled = <<>>
                           /\ jump = FALSE /\ firstOfRound = TRUE
                           /\ countACT = 0 /\ time_issued_first_ACT = 0
                           /\ ACTtimer = 0 /\ CAStimer = 0 /\ sinceCAS = 0

SystemsInit ==
    /\ system \in Systems
    /\ \/ system = "AMC" /\ amc!AMCInit
       \/ system = "PMC" /\ pmc!AMCInit
       \/ system = "RTMem" /\ rtmem!RTInit
       \/ system \in {"ORP", "DCmc"} /\ private!ORPInit
       \/ system = "MAG" /\ private!MAGInit
       \/ system = "MEDUSA" /\ medusa!MEDUSAInit
       \/ system = "ReOrder" /\ reorder!ReOrderInit
       \/ system = "RankReOrder" /\ rank!RankInit
       \/ system = "ROC" /\ roc!ROCInit
       \/ system = "PipeCAS" /\ pipecas!PipeCASInit
       \/ system = "Round" /\ round!RoundInit
    /\ Unused

SystemsNext ==
    /\ UNCHANGED system
    /\ \/ /\ \/ system = "AMC" /\ amc!AMCNext
             \/ system = "PMC" /\ pmc!PMCNext
          /\ UNCHANGED <<arrivals, cmdFIFO, magIndex, writeLoop, reordering>>
       \/ /\ system = "RTMem" /\ rtmem!RTNext
          /\ UNCHANGED <<cmdFIFO, magIndex, writeLoop, reordering>>
       \/ /\ \/ system = "ORP" /\ private!ORPNext
             \/ system = "DCmc" /\ private!DCmcNext
          /\ UNCHANGED <<slotCounter, arrivals, magIndex, writeLoop,
                         reordering>>
       \/ /\ system = "MAG" /\ private!MAGNext
          /\ UNCHANGED <<slotCounter, arrivals, cmdFIFO, writeLoop, reordering>>
       \/ /\ system = "MEDUSA" /\ medusa!MEDUSANext
          /\ UNCHANGED <<slotCounter, arrivals, cmdFIFO, magIndex, reordering>>
       \/ /\ system = "ReOrder" /\ reorder!ReOrderNext
          /\ UNCHANGED <<slots, ranks, levels, roundType, pipe, rounds>>
       \/ /\ system = "RankReOrder" /\ rank!RankNext
          /\ UNCHANGED <<slots, reorders, levels, roundType, pipe, rounds>>
       \/ /\ system = "ROC" /\ roc!ROCNext
          /\ UNCHANGED <<slots, bundlingType, reorders, ranks, roundType, pipe,
                         rounds>>
       \/ /\ system = "PipeCAS" /\ pipecas!PipeCASNext
          /\ UNCHANGED <<slots, bundlingType, reorders, ranks, levels, rounds>>
       \/ /\ system = "Round" /\ round!RoundNext
          /\ UNCHANGED <<slots, bundlingType, reorders, ranks, levels, pipe>>

(* The simulation loop of main never stops between two steps of a cycle.   *)
FairSpec ==
    /\ SystemsInit
    /\ [][SystemsNext]_systemVars
    /\ WF_systemVars(SystemsNext)

(* It takes steps for ever: as no state is a deadlock this says the same,  *)
(* and TLC need not find out whether a step is possible.                   *)
SystemsSpec ==
    /\ SystemsInit
    /\ [][SystemsNext]_systemVars
    /\ []<><<SystemsNext>>_systemVars

-----------------------------------------------------------------------------
(* Every scheduler's choice is one that the any-policy controller allows:  *)
(* each of these controllers implements it, and has what is proved of it.  *)
(* MAG and MEDUSA do not (see the hazards in the README); Round has a      *)
(* generator of its own.                                                   *)
ImplementsController ==
    [][ /\ system = "AMC" => [amc!Next]_controller
        /\ system = "PMC" => [pmc!Next]_controller
        /\ system = "RTMem" => [rtmem!Next]_controller
        /\ system \in {"ORP", "DCmc"} => [private!Next]_controller
        /\ system = "ReOrder" => [reorder!Next]_controller
        /\ system = "RankReOrder" => [rank!Next]_controller
        /\ system = "ROC" => [roc!Next]_controller
        /\ system = "PipeCAS" => [pipecas!Next]_controller
      ]_systemVars

(* A slot is long enough that a request meets no trace of the one before   *)
(* it (AMC!SlotIsolated): the 42 and 47 cycles that the code has for every *)
(* device are enough for the one they were computed for.  A round of       *)
(* PipeCAS starts when its first activation can go at once, and turns the  *)
(* bus round only once.                                                    *)
SlotsIsolated ==
    /\ system = "AMC" => amc!SlotIsolated
    /\ system = "PMC" => pmc!SlotIsolated
    /\ system = "PipeCAS" => pipecas!StartsAtOnce /\ pipecas!OneDirection

(* A command in the FIFO of ORP or DCmc stays ready until it is issued.    *)
FIFOReady == system \in {"ORP", "DCmc"} => private!FIFOReady

(* ORP and DCmc issue CAS commands in the order in which they became ready *)
(* (those of one cycle by registration and by bank): none overtakes        *)
(* another one in the FIFO, whatever the direction of the bus favours.     *)
(* RTMem issues a CAS only if no older one is ready, and passes a ready    *)
(* CAS over for another command only if that one, or an older one, cannot  *)
(* be issued.                                                              *)
CasInOrder ==
    [][ /\ system = "ORP" => private!CasInOrder(private!Filled)
        /\ system = "DCmc" => private!CasInOrder(private!Scanned)
        /\ system = "RTMem" /\ phase = "command" => rtmem!OldestCasFirst
      ]_systemVars

(* While MAG's channel is blocked the queue of its index has the CAS at    *)
(* the head, ready: getCommand never meets an empty queue, where it aborts.*)
BlockedByCas == system = "MAG" => private!BlockedByCas

(* MEDUSA's drain of the writes leaves the queue it removes from exactly   *)
(* when it begins with twice the low watermark or more.                    *)
WriteIndexInRange == system = "MEDUSA" => medusa!WriteIndexInRange


(* Every request is answered: no requestor is starved by the others.       *)
(* MEDUSA answers every read; a write below the watermark may stay.        *)
EveryRequestServed ==
    \A r \in Requestors :
        (\E i \in DOMAIN corePending[r] :
            system = "MEDUSA" => corePending[r][i].requestType = "DATA_READ")
        ~> corePending[r] = <<>>

=============================================================================
