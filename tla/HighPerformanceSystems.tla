----------------------- MODULE HighPerformanceSystems -----------------------
(***************************************************************************)
(* The controllers of system/ whose requests share one buffer, as one      *)
(* specification: the .ini file names one of them, and the variable system *)
(* is that choice, as in PredictableSystems.  FR-FCFS, FCFS, FR-FCFS with  *)
(* write batching, BLISS and PAR-BS reorder requests for row hits or for   *)
(* fairness, which is what the properties are about.                       *)
(***************************************************************************)
EXTENDS Integers, Sequences, FiniteSets

CONSTANTS
    Systems,           (* the controllers to choose from                   *)
    FRTraffic, FCFSTraffic, BatchTraffic, BLISSTraffic, PARBSTraffic,
    Banks,             (* the device, the same for most                    *)
    nBL, nCCD, nCL, nCWL, nRCD, nRP, nRAS, nRC, nRTP, nWTR, nWR, nRRD, nFAW,
    SlowRRD,           (* nRRD of the device that FCFS has                 *)
    Fast,              (* the device that BLISS and PAR-BS have            *)
    NumRequestors, InOrder, (* of FR-FCFS, BLISS and PAR-BS                *)
    NumInOrder,        (* the in-order requestors of the other two         *)
    RequestBufferSize,
    LargerBufferSize,  (* RequestBufferSize of BLISS and PAR-BS            *)
    Beats, UIntMax, NoRow,
    lowwatermark, highwatermark, threshold, clearInterval, MarkingCap,
    localBcount

VARIABLES
    phase, turn, corePending, requestBuffer,            (* MemoryController *)
    pendingRead, pendingWrite, bankTable, first,
    commandQueue, cmdQueueTimer, sendData, readData, openRow,
    rankNext, bankNext, prev,                           (* DDR3            *)
    system,
    order,                                              (* FRFCFS          *)
    arriveTime, now,                                    (* the others      *)
    sw, writeMode, quota,                               (* Batching        *)
    blacklist, last_pid, counterstreak, temporal_clock, (* BLISS           *)
    served,
    marked, markedCnt, maxLoad, totalLoad, passed       (* PAR-BS          *)

controller == <<phase, turn, corePending, requestBuffer, pendingRead,
                pendingWrite, bankTable, first, commandQueue, cmdQueueTimer,
                sendData, readData, openRow, rankNext, bankNext, prev>>
arrivals == <<arriveTime, now>>
drain == <<sw, writeMode, quota>>
blacklisting == <<blacklist, last_pid, counterstreak, temporal_clock, served>>
batch == <<marked, markedCnt, maxLoad, totalLoad, passed>>
systemVars == <<controller, system, order, arrivals, drain, blacklisting,
                batch>>

-----------------------------------------------------------------------------
(* The traffic.                                                            *)

Req(r, t, b, w) == [requestorID |-> r, requestType |-> t, bank |-> b,
                    row |-> w, col |-> 0]

(* Requestor 0 reads and writes one address and reads another row of the   *)
(* bank; requestor 1 reads two rows of a bank of its own.                  *)
OneAddress == {Req(0, "DATA_READ", 0, 1), Req(0, "DATA_WRITE", 0, 1),
               Req(0, "DATA_READ", 0, 2), Req(1, "DATA_READ", 1, 1),
               Req(1, "DATA_READ", 1, 2)}

(* Two requestors read the rows of two banks.                              *)
TwoReaders == {Req(r, "DATA_READ", b, w) : r \in {0, 1}, b \in {0, 1},
                                           w \in {1, 2}}

(* Three requestors on three banks: two rows of one bank, a shared bank,   *)
(* reads and writes.                                                       *)
Mixed == {Req(0, "DATA_READ", 0, 1), Req(0, "DATA_READ", 0, 2),
          Req(1, "DATA_WRITE", 1, 1), Req(1, "DATA_READ", 0, 1),
          Req(2, "DATA_READ", 2, 1), Req(2, "DATA_READ", 2, 2)}

(* Reads only: a write may wait for ever behind the reads of two others,   *)
(* each of which keeps the bus from turning round.                         *)
ReadsOnly == {Req(0, "DATA_READ", 0, 1), Req(0, "DATA_READ", 0, 2),
              Req(1, "DATA_READ", 1, 1), Req(1, "DATA_READ", 0, 1),
              Req(2, "DATA_READ", 2, 1), Req(2, "DATA_READ", 2, 2)}

(* Three requestors, two that write and read and one that reads.           *)
Writers == {Req(0, "DATA_WRITE", 0, 1), Req(1, "DATA_WRITE", 1, 1),
            Req(1, "DATA_READ", 1, 2), Req(2, "DATA_READ", 0, 1),
            Req(2, "DATA_WRITE", 0, 2)}

(* Two requestors that share a bank, each with its own row.                *)
OneBank == {Req(0, "DATA_READ", 0, 1), Req(1, "DATA_READ", 0, 2)}

(* With a third on another bank, or with one of the two on it as well.     *)
Three == OneBank \cup {Req(2, "DATA_READ", 1, 1)}
TwoBanks == OneBank \cup {Req(0, "DATA_READ", 1, 1)}

-----------------------------------------------------------------------------
(* The controllers.                                                        *)

frfcfs == INSTANCE FRFCFS WITH
    ReqPerREQ <- FALSE, WriteQueue <- FALSE, ClosePage <- FALSE,
    Traffic <- FRTraffic

fcfs == INSTANCE CommandFRFCFS WITH
    ReqPerREQ <- FALSE, WriteQueue <- FALSE, ClosePage <- FALSE,
    Traffic <- FCFSTraffic, NumRequestors <- NumInOrder, InOrder <- TRUE,
    nRRD <- SlowRRD

batching == INSTANCE Batching WITH
    ReqPerREQ <- FALSE, WriteQueue <- TRUE, ClosePage <- FALSE,
    Traffic <- BatchTraffic, NumRequestors <- NumInOrder, InOrder <- TRUE

(* The policies of the last two look at requests: their device may be      *)
(* fast.                                                                   *)
FastDevice == [nBL |-> 1, nCCD |-> 1, nCL |-> 1, nCWL |-> 1, nRCD |-> 1,
               nRP |-> 1, nRAS |-> 2, nRC |-> 3, nRTP |-> 1, nWTR |-> 1,
               nWR |-> 1, nRRD |-> 1, nFAW |-> 3]

bliss == INSTANCE BLISS WITH
    ReqPerREQ <- FALSE, WriteQueue <- FALSE, ClosePage <- FALSE,
    Traffic <- BLISSTraffic, RequestBufferSize <- LargerBufferSize,
    nBL <- Fast.nBL, nCCD <- Fast.nCCD, nCL <- Fast.nCL, nCWL <- Fast.nCWL,
    nRCD <- Fast.nRCD, nRP <- Fast.nRP, nRAS <- Fast.nRAS, nRC <- Fast.nRC,
    nRTP <- Fast.nRTP, nWTR <- Fast.nWTR, nWR <- Fast.nWR, nRRD <- Fast.nRRD,
    nFAW <- Fast.nFAW

parbs == INSTANCE PARBS WITH
    ReqPerREQ <- FALSE, WriteQueue <- FALSE, ClosePage <- FALSE,
    Traffic <- PARBSTraffic, RequestBufferSize <- LargerBufferSize,
    nBL <- Fast.nBL, nCCD <- Fast.nCCD, nCL <- Fast.nCL, nCWL <- Fast.nCWL,
    nRCD <- Fast.nRCD, nRP <- Fast.nRP, nRAS <- Fast.nRAS, nRC <- Fast.nRC,
    nRTP <- Fast.nRTP, nWTR <- Fast.nWTR, nWR <- Fast.nWR, nRRD <- Fast.nRRD,
    nFAW <- Fast.nFAW

(* What each of the modules assumes of its constants.                      *)
ASSUME SystemsAssumption ==
    /\ frfcfs!TimingAssumption /\ frfcfs!ControllerAssumption
    /\ fcfs!TimingAssumption /\ fcfs!ControllerAssumption
    /\ batching!TimingAssumption /\ batching!ControllerAssumption
    /\ batching!BatchingAssumption
    /\ bliss!TimingAssumption /\ bliss!ControllerAssumption
    /\ bliss!BLISSAssumption
    /\ parbs!TimingAssumption /\ parbs!ControllerAssumption
    /\ parbs!PARBSAssumption

-----------------------------------------------------------------------------
(* The variables of the controllers that were not chosen keep a value.     *)
Unused ==
    /\ system # "FRFCFS" => order = <<>>
    /\ system = "FRFCFS" => arriveTime = <<>> /\ now = 0
    /\ system # "FRFCFS_Batch" => sw = FALSE /\ writeMode = FALSE /\ quota = 0
    /\ system # "BLISS" => /\ blacklist = {} /\ last_pid = 4
                           /\ counterstreak = 0 /\ temporal_clock = 0
                           /\ served = <<>>
    /\ system # "PAR-BS" => /\ marked = <<>> /\ markedCnt = 0
                            /\ maxLoad = <<>> /\ totalLoad = <<>>
                            /\ passed = <<>>

SystemsInit ==
    /\ system \in Systems
    /\ \/ system = "FRFCFS" /\ frfcfs!FRInit
       \/ system = "FCFS" /\ fcfs!FCFSInit
       \/ system = "FRFCFS_Batch" /\ batching!BatchInit
       \/ system = "BLISS" /\ bliss!BLISSInit
       \/ system = "PAR-BS" /\ parbs!PARBSInit
    /\ Unused

SystemsNext ==
    /\ UNCHANGED system
    /\ \/ /\ system = "FRFCFS" /\ frfcfs!FRNext
          /\ UNCHANGED <<arrivals, drain, blacklisting, batch>>
       \/ /\ system = "FCFS" /\ fcfs!FCFSNext
          /\ UNCHANGED <<order, drain, blacklisting, batch>>
       \/ /\ system = "FRFCFS_Batch" /\ batching!BatchNext
          /\ UNCHANGED <<order, blacklisting, batch>>
       \/ /\ system = "BLISS" /\ bliss!BLISSNext
          /\ UNCHANGED <<order, drain, batch>>
       \/ /\ system = "PAR-BS" /\ parbs!PARBSNext
          /\ UNCHANGED <<order, drain, blacklisting>>

(* The simulation loop of main never stops between two steps of a cycle:   *)
(* it takes steps for ever.  As no state is a deadlock, this is what weak  *)
(* fairness of SystemsNext says.                                           *)
SystemsSpec ==
    /\ SystemsInit
    /\ [][SystemsNext]_systemVars
    /\ []<><<SystemsNext>>_systemVars

-----------------------------------------------------------------------------
(* Every scheduler's choice is one that the any-policy controller allows:  *)
(* each of these controllers implements it, and has what is proved of it.  *)
ImplementsController ==
    [][ /\ system = "FRFCFS" => [frfcfs!Next]_controller
        /\ system = "FCFS" => [fcfs!Next]_controller
        /\ system = "FRFCFS_Batch" => [batching!Next]_controller
        /\ system = "BLISS" => [bliss!Next]_controller
        /\ system = "PAR-BS" => [parbs!Next]_controller
      ]_systemVars

(* The request that returnData removes, the first to the same address, is  *)
(* the one whose data arrived, although FR-FCFS reorders the requests of   *)
(* an out-of-order requestor, reads and writes to that address among them. *)
ReturnsTheRightRequest ==
    [][system = "FRFCFS" => frfcfs!ReturnsTheRightRequest]_systemVars

(* The scan of CommandScheduler_FRFCFS, whose result depends on the order  *)
(* of the queues, issues a CAS that is older than every other candidate,   *)
(* and no precharge while an activation could be issued.  It does not      *)
(* prefer every CAS to ACT and PRE, as the comment on its class says.      *)
CommandPriority == [][system = "FCFS" => fcfs!CommandPriority]_systemVars

(* Once the high watermark is passed, no read is scheduled before the      *)
(* writes are below the low one, and no requestor adds to them.            *)
DrainIsABatch ==
    [][system = "FRFCFS_Batch" => batching!DrainIsABatch]_systemVars

(* A requestor comes on the blacklist only with more than threshold        *)
(* requests in a row.                                                      *)
ListingIsEarned == [][system = "BLISS" => bliss!ListingIsEarned]_systemVars

(* PAR-BS: a requestor with a request in the buffer is passed at most by   *)
(* what is left of a batch and by one request of each other in the next.   *)
PassedAtMost == system = "PAR-BS" => parbs!PassedAtMost

(* Every request of an in-order requestor is answered.  With write         *)
(* batching every read is, the drains notwithstanding; a write may wait    *)
(* for as long as others read.                                             *)
EveryRequestServed ==
    \A r \in 0 .. NumRequestors - 1 :
        (\E i \in DOMAIN corePending[r] :
            system = "FRFCFS_Batch" => corePending[r][i].requestType = "DATA_READ")
        ~> corePending[r] = <<>>

(* A write drain ends: the requestors, which wait for it, are let go.      *)
DrainOver == writeMode ~> ~writeMode

=============================================================================
