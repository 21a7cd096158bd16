--------------------------- MODULE SimulatorParts ---------------------------
(***************************************************************************)
(* The parts of MCsim around the schedulers, as one specification: the     *)
(* clock domain crosser, which this module extends; the refresh machine,   *)
(* with each of its two mechanisms; the address mapping, with the formats  *)
(* and builds it is used with; the loop of main with its requestors and    *)
(* traces, in order and out of order; and the device, sent whatever its    *)
(* checks allow.  They do not meet in the build the repository has         *)
(* (refresh is off, the mapping is a function of the request, the crosser  *)
(* only calls the rest, and the device meets the controllers in their      *)
(* runs), so that one of them runs at a time: part.                        *)
(***************************************************************************)
EXTENDS ClockDomain, Integers, Sequences, FiniteSets, TLAPS

CONSTANTS
    Parts,                                       (* the parts to choose    *)
                                                 (* from                   *)
    NumRequestors, NumChannels, Traces,          (* Simulation             *)
    RequestBufferSize, MaxDelay, MaxHeld,
    DeviceBanks, Issued,                         (* DDR3Device             *)
    nBL, nCCD, nCL, nCWL, nRCD, nRP, nRAS, nRC, nRTP, nWTR, nWR, nRRD, nFAW

VARIABLES
    part,
    phase,                                              (* of the first    *)
                                                        (* and the last    *)
    commandBuffer, isRefreshingBank, isInterval, flag,  (* RefreshMachine  *)
    refreshCounting, bank_release, Round_robin, globeRefreshCountdown,
    refused, head, believedOpen, rowOpen, refreshed,
    request, index, tempA, tempB,                       (* AddressMapping  *)
    turn, simDone, line, pendingRequest, corePending,   (* Simulation      *)
    buffered, sim_done, requestRequest, completeRequest, writeMode, held,
    rankNext, bankNext, prev, issued, busy, bus, acts   (* DDR3Device      *)

refreshVars == <<commandBuffer, isRefreshingBank, isInterval, flag,
                 refreshCounting, bank_release, Round_robin,
                 globeRefreshCountdown, refused, head, believedOpen, rowOpen,
                 refreshed>>
addressVars == <<request, index, tempA, tempB>>
simulationVars == <<turn, simDone, line, pendingRequest, corePending,
                    buffered, sim_done, requestRequest, completeRequest,
                    writeMode, held>>
deviceVars == <<rankNext, bankNext, prev, issued, busy, bus, acts>>
partVars == <<vars, part, phase, refreshVars, addressVars, simulationVars,
              deviceVars>>

-----------------------------------------------------------------------------
(* The refresh machine, with a device of two banks that refuses a command  *)
(* for a cycle at most.                                                    *)
distributed == INSTANCE RefreshMachine WITH
    refresh_mechanism <- "distributed", NumBanks <- 2,
    tREFI <- 16, tRFC <- 4, tRFCpb <- 3, tRCD <- 2, MaxRefuse <- 1
perBank == INSTANCE RefreshMachine WITH
    refresh_mechanism <- "per-bank", NumBanks <- 2,
    tREFI <- 26, tRFC <- 4, tRFCpb <- 3, tRCD <- 2, MaxRefuse <- 1

(* The address mapping: the two formats of the .ini files, 012345 and 425, *)
(* on devices of one rank and of four.                                     *)
Full == <<"Rank", "BankGroup", "Bank", "SubArray", "Row", "Column">>
Short == <<"Row", "Bank", "Column">>
Org(rank, bank, row, column) ==
    [Rank |-> rank, BankGroup |-> 1, Bank |-> bank, SubArray |-> 1,
     Row |-> row, Column |-> column]
Some == (0 .. 63) \cup {77, 170, 255, 256, 341, 511, 512, 1000, 1023}
shared == INSTANCE AddressMapping WITH
    format <- Short, memTable <- Org(1, 8, 4, 8), Addresses <- Some,
    Requestors <- 0 .. 7, Privatization <- "none", Word <- 512, Junk <- 99
single == INSTANCE AddressMapping WITH
    format <- Full, memTable <- Org(1, 8, 4, 8), Addresses <- Some,
    Requestors <- 0 .. 7, Privatization <- "SINGLE_RANK", Word <- 512,
    Junk <- 99
multi == INSTANCE AddressMapping WITH
    format <- Full, memTable <- Org(4, 8, 2, 8), Addresses <- Some,
    Requestors <- 0 .. 15, Privatization <- "MULTI_RANK", Word <- 512,
    Junk <- 99

(* The loop of main: with some channels in order, with one channel and a   *)
(* limit on the cycles out of order.  TwoTraces are, for the runs, a trace *)
(* with an empty line in it and one without a last newline.                *)
TwoTraces == [r \in 0 .. 1 |-> IF r = 0 THEN <<"REQ", "EMPTY", "REQ", "EMPTY">>
                                         ELSE <<"REQ", "REQ", "REQ">>]
inOrder == INSTANCE SimulationProofs WITH InOrder <- TRUE, Limited <- FALSE
outOfOrder == INSTANCE SimulationProofs WITH
    NumChannels <- 1, InOrder <- FALSE, Limited <- TRUE

(* The device alone, driven by any of the sets Issued of command types.    *)
device == INSTANCE DDR3Device WITH Banks <- DeviceBanks

(* No controller but Round, which has the run ddr3_round_acts, activates   *)
(* with more than one type of command.                                     *)
ASSUME PartsAssumption ==
    /\ device!TimingAssumption
    /\ device!IssuedAssumption /\ device!OneActivation
    /\ distributed!RefreshAssumption /\ perBank!RefreshAssumption
    /\ shared!MappingAssumption /\ single!MappingAssumption
    /\ multi!MappingAssumption
    /\ inOrder!SimulationAssumption /\ outOfOrder!SimulationAssumption

Refreshes == {"distributed", "per-bank"}
Mappings == {"shared", "single", "multi"}
Simulations == {"in-order", "out-of-order"}

-----------------------------------------------------------------------------
(* The variables of the other parts keep a value.                          *)
Unused ==
    /\ part \in Mappings \cup {"clock", "device"} => phase = "none"
    /\ part \notin Refreshes =>
           /\ commandBuffer = <<>> /\ isRefreshingBank = {}
           /\ isInterval = FALSE /\ flag = FALSE /\ refreshCounting = 0
           /\ bank_release = 0 /\ Round_robin = 0
           /\ globeRefreshCountdown = 0 /\ refused = 0 /\ head = <<>>
           /\ believedOpen = <<>> /\ rowOpen = <<>> /\ refreshed = <<>>
    /\ part \notin Mappings =>
           request = <<>> /\ index = 0 /\ tempA = 0 /\ tempB = 0
    /\ part \notin Simulations =>
           /\ turn = 0 /\ simDone = FALSE /\ line = <<>>
           /\ pendingRequest = <<>> /\ corePending = <<>> /\ buffered = <<>>
           /\ sim_done = <<>> /\ requestRequest = <<>>
           /\ completeRequest = <<>> /\ writeMode = FALSE /\ held = 0
    /\ part # "device" =>
           /\ rankNext = <<>> /\ bankNext = <<>> /\ prev = <<>> /\ issued = {}
           /\ busy = FALSE /\ bus = {} /\ acts = <<>>

PartsInit ==
    /\ part \in Parts
    /\ Init
    /\ \/ part = "clock"
       \/ part = "distributed" /\ distributed!Init
       \/ part = "per-bank" /\ perBank!Init
       \/ part = "shared" /\ shared!Init
       \/ part = "single" /\ single!Init
       \/ part = "multi" /\ multi!Init
       \/ part = "in-order" /\ inOrder!Init
       \/ part = "out-of-order" /\ outOfOrder!Init
       \/ part = "device" /\ device!Init
    /\ Unused

(* The bound on the calls of the crosser is reached.                       *)
Bound == pc = "idle" /\ updates = MaxUpdates /\ UNCHANGED vars

PartsNext ==
    /\ UNCHANGED part
    /\ \/ /\ part = "clock"
          /\ Next \/ Bound
          /\ UNCHANGED <<phase, refreshVars, addressVars, simulationVars,
                         deviceVars>>
       \/ /\ \/ part = "distributed" /\ distributed!Next
             \/ part = "per-bank" /\ perBank!Next
          /\ UNCHANGED <<vars, addressVars, simulationVars, deviceVars>>
       \/ /\ \/ part = "shared" /\ shared!Next
             \/ part = "single" /\ single!Next
             \/ part = "multi" /\ multi!Next
          /\ UNCHANGED <<vars, phase, refreshVars, simulationVars, deviceVars>>
       \/ /\ \/ part = "in-order" /\ inOrder!Next
             \/ part = "out-of-order" /\ outOfOrder!Next
          /\ UNCHANGED <<vars, refreshVars, addressVars, deviceVars>>
       \/ /\ part = "device" /\ device!Next
          /\ UNCHANGED <<vars, phase, refreshVars, addressVars, simulationVars>>

(* The loop of main never stops between two steps.                         *)
PartsSpec ==
    /\ PartsInit /\ [][PartsNext]_partVars
    /\ WF_partVars(PartsNext)

-----------------------------------------------------------------------------

(* A bank gets no command of a queue before the refresh it has begun is    *)
(* over.                                                                   *)
RefreshTakesItsTime ==
    [][ /\ part = "distributed" => distributed!RefreshTakesItsTime
        /\ part = "per-bank" => perBank!RefreshTakesItsTime ]_partVars

(* Every bank is refreshed over and over.                                  *)
EveryBankRefreshed ==
    \A b \in 0 .. 1 : []<>(part \in Refreshes => refreshed[b] = 0)

(* The decoding of an address is one to one, up to the width of the        *)
(* format: the fields that are not reassigned give it back, and in the end *)
(* each is one that the device has, except the bank of a requestor that    *)
(* was assigned one and has too high a number.                             *)
Decoded ==
    /\ part = "shared" => shared!Reassembled /\ shared!InDevice
    /\ part = "single" => single!Reassembled /\ single!InDevice
    /\ part = "multi" => multi!Reassembled /\ multi!InDevice

(* A requestor that has ended has sent every request of its trace, also    *)
(* those behind an empty line, and every one of them was answered.         *)
EndedIsComplete ==
    /\ part = "in-order" => inOrder!EndedIsComplete
    /\ part = "out-of-order" => outOfOrder!EndedIsComplete

(* The limits that each requestor compares with <= hold up to one, for its *)
(* own requests and for the buffer that all share.                         *)
BuffersBounded ==
    /\ part = "in-order" => inOrder!BuffersBounded
    /\ part = "out-of-order" => outOfOrder!BuffersBounded

(* At most four activations, of whatever type and bank, are younger than   *)
(* nFAW: the window of DDR3.cpp, of distance 4.                            *)
FourActivateWindow == part = "device" => device!FourActivateWindow

(* Two bursts never meet on the data bus, in every mix of reads and writes *)
(* that the checks of the device let through.                              *)
BusConflictFree == [][part = "device" => device!NoBurstMeets]_partVars

(* What main's loop needs of the controller: every requestor is answered   *)
(* over and over.  Not every controller gives it for every traffic.        *)
Served == \A r \in 0 .. 1 : []<>(part = "in-order" => corePending[r] = 0)

(* With a controller that starves nobody the simulation ends, whatever the *)
(* traces hold and however the requestors' waits, answers and the write    *)
(* mode of the channel fall together.                                      *)
SimulationEnds == Served => (part = "in-order" ~> phase = "done")

(* README.md: "Upon finishing a trace file from core under analysis        *)
(* (REQ0), the simulation will end".  Without a limit on the cycles the    *)
(* simulation ends with requestor 0 finished.                              *)
EndsWithREQ0 == part = "in-order" => inOrder!EndsWithREQ0

-----------------------------------------------------------------------------
(* Proofs.  The clock domain crosser, for every pair of frequencies.       *)

(* What makes CallsKeepTheRatio inductive: the reset subtracts the same    *)
(* time from both domains, and the loop leaves the CPU domain ahead by     *)
(* less than one of its cycles.                                            *)
RatioInvariant ==
    /\ TypeOK
    /\ updates * clock1 + counter2 = calls * clock2 + counter1
    /\ counter2 < counter1 + clock2
    /\ pc = "idle" => counter1 <= counter2
    /\ updates = 0 => /\ pc = "idle"
                      /\ counter1 = 0
                      /\ counter2 = 0
                      /\ calls = 0

-----------------------------------------------------------------------------
(* Multiplication by a successor, the only nonlinear fact the proof needs: *)
(* one more update adds clock1 and one more callback adds clock2.          *)
LEMMA SuccTimes ==
    ASSUME NEW a \in Nat, NEW b \in Nat
    PROVE  /\ (a + 1) * b = a * b + b
           /\ a * b \in Nat
  OBVIOUS

(* The default crosser satisfies the inductive invariant.                  *)
LEMMA RatioInit == Init => RatioInvariant
  BY DEF Init, RatioInvariant, TypeOK

(* Every step of ClockDomainCrosser::update and of setCPUClockSpeed keeps  *)
(* the inductive invariant.                                                *)
LEMMA RatioStep == RatioInvariant /\ [Next]_vars => RatioInvariant'
<1>0. SUFFICES ASSUME RatioInvariant, [Next]_vars PROVE RatioInvariant'
  OBVIOUS
<1>1. /\ (updates + 1) * clock1 = updates * clock1 + clock1
      /\ (calls + 1) * clock2 = calls * clock2 + clock2
      /\ updates * clock1 \in Nat
      /\ calls * clock2 \in Nat
  BY <1>0, SuccTimes DEF RatioInvariant, TypeOK
<1>2. CASE \E mem \in Frequencies, cpu \in Frequencies \cup {0} :
               SetCPUClockSpeed(mem, cpu)
  <2>1. PICK mem \in Nat \ {0}, cpu \in Nat \ {0} :
                 clock1' = mem /\ clock2' = cpu
    BY <1>2, FrequencyAssumption DEF SetCPUClockSpeed
  <2>2. /\ updates' = 0
        /\ calls' = 0
        /\ counter1' = 0
        /\ counter2' = 0
        /\ pc' = "idle"
    BY <1>0, <1>2 DEF SetCPUClockSpeed, RatioInvariant
  <2> QED
    BY <2>1, <2>2 DEF RatioInvariant, TypeOK
<1>3. CASE UpdateOneToOne
  BY <1>0, <1>1, <1>3 DEF RatioInvariant, TypeOK, UpdateOneToOne, clocks
<1>4. CASE UpdateBegin
  BY <1>0, <1>1, <1>4 DEF RatioInvariant, TypeOK, UpdateBegin, clocks
<1>5. CASE UpdateLoop
  BY <1>0, <1>1, <1>5 DEF RatioInvariant, TypeOK, UpdateLoop, clocks, Behind
<1>6. CASE UpdateEnd
  BY <1>0, <1>1, <1>6 DEF RatioInvariant, TypeOK, UpdateEnd, clocks, Behind
<1>7. CASE UNCHANGED vars
  BY <1>0, <1>7 DEF RatioInvariant, TypeOK, vars
<1> QED
  BY <1>0, <1>2, <1>3, <1>4, <1>5, <1>6, <1>7 DEF Next

(* The invariant says in particular that, between two calls of update(),   *)
(* the memory cycles run are the CPU cycles scaled by the clock ratio.     *)
THEOREM CrosserKeepsTheRatio == Spec => [](TypeOK /\ CallsKeepTheRatio)
<1>1. RatioInvariant => TypeOK /\ CallsKeepTheRatio
  <2> SUFFICES ASSUME RatioInvariant PROVE TypeOK /\ CallsKeepTheRatio
    OBVIOUS
  <2>1. updates * clock1 \in Nat /\ calls * clock2 \in Nat
    BY SuccTimes DEF RatioInvariant, TypeOK
  <2> QED
    BY <2>1 DEF RatioInvariant, TypeOK, CallsKeepTheRatio
<1> QED
  BY <1>1, RatioInit, RatioStep, PTL DEF Spec

-----------------------------------------------------------------------------
(* The other parts keep what is proved of their modules.                   *)

(* A part runs alone: a step of the specification is one of the part that  *)
(* was chosen, which stays the same.                                       *)
LEMMA PartStep ==
    ASSUME [PartsNext]_partVars
    PROVE  /\ part' = part
           /\ [Next]_vars
           /\ part = "device" => [device!Next]_(device!vars)
           /\ part = "in-order" => [inOrder!Next]_(inOrder!vars)
           /\ part = "out-of-order" => [outOfOrder!Next]_(outOfOrder!vars)
<1>1. CASE PartsNext
  BY <1>1 DEF PartsNext, Bound
<1>2. CASE UNCHANGED partVars
  <2>1. /\ UNCHANGED <<part, phase, vars>>
        /\ UNCHANGED simulationVars
        /\ UNCHANGED deviceVars
    BY <1>2 DEF partVars
  <2> QED
    BY <2>1 DEF deviceVars, simulationVars, device!vars, inOrder!vars,
                inOrder!requestorVars, outOfOrder!vars, outOfOrder!requestorVars
<1> QED
  BY <1>1, <1>2

LEMMA PartStart ==
    ASSUME PartsInit
    PROVE  /\ Init
           /\ part = "device" => device!Init
           /\ part = "in-order" => inOrder!Init
           /\ part = "out-of-order" => outOfOrder!Init
  BY DEF PartsInit

LEMMA DeviceConstants ==
    device!TimingAssumption /\ device!IssuedAssumption /\ device!OneActivation
  BY PartsAssumption

(* At most four activations of the device are younger than nFAW.           *)
THEOREM WindowOfTheDevice == PartsSpec => []FourActivateWindow
<1>1. /\ device!Init /\ [][device!Next]_(device!vars) =>
             []device!FourActivateWindow
  BY DeviceConstants, device!WindowCorrect DEF device!Spec
<1>2. PartsInit /\ part = "device" => device!Init
  BY PartStart
<1>3. part = "device" /\ [PartsNext]_partVars =>
          (part = "device")' /\ [device!Next]_(device!vars)
  BY PartStep
<1>4. ~(part = "device") /\ [PartsNext]_partVars => (~(part = "device"))'
  BY PartStep
<1>5. FourActivateWindow <=> (part = "device" => device!FourActivateWindow)
  BY DEF FourActivateWindow
<1> QED
  BY <1>1, <1>2, <1>3, <1>4, <1>5, PTL DEF PartsSpec

(* Two bursts never meet on its data bus.                                  *)
THEOREM BusOfTheDevice == PartsSpec => BusConflictFree
<1> DEFINE Inv == part = "device" => device!TypeOK /\ device!BusClears
<1>1. PartsInit => Inv
  BY DeviceConstants, PartStart, device!BusStart
<1>2. Inv /\ [PartsNext]_partVars => Inv'
  BY DeviceConstants, PartStep, device!BusStep
<1>3. Inv => (part = "device" => device!NoBurstMeets)
  BY DeviceConstants, device!BusMeets
<1> QED
  BY <1>1, <1>2, <1>3, PTL DEF PartsSpec, BusConflictFree

(* A requestor that has ended has sent and got everything, in order and    *)
(* out of order.                                                           *)
THEOREM EndOfTheTraces == PartsSpec => []EndedIsComplete
<1>1. inOrder!SimulationAssumption /\ outOfOrder!SimulationAssumption
  BY PartsAssumption
<1> DEFINE Inv == /\ part = "in-order" => inOrder!BooksInv
                  /\ part = "out-of-order" => outOfOrder!BooksInv
<1>2. PartsInit => Inv
  BY <1>1, PartStart, inOrder!BooksInit, outOfOrder!BooksInit
<1>3. Inv /\ [PartsNext]_partVars => Inv'
  BY <1>1, PartStep, inOrder!BooksStep, outOfOrder!BooksStep
<1>4. Inv => EndedIsComplete
  BY <1>1, inOrder!BooksEnd, outOfOrder!BooksEnd DEF EndedIsComplete
<1> QED
  BY <1>2, <1>3, <1>4, PTL DEF PartsSpec

(* The limits that each requestor compares with <= hold up to one.         *)
THEOREM LimitsOfTheBuffers == PartsSpec => []BuffersBounded
<1>1. inOrder!SimulationAssumption /\ outOfOrder!SimulationAssumption
  BY PartsAssumption
<1> DEFINE Inv == /\ part = "in-order" => inOrder!BooksInv
                  /\ part = "out-of-order" => outOfOrder!BooksInv
                  /\ BuffersBounded
<1>2. PartsInit => Inv
  BY <1>1, PartStart, inOrder!BooksInit, outOfOrder!BooksInit,
     inOrder!LimitInit, outOfOrder!LimitInit DEF BuffersBounded
<1>3. Inv /\ [PartsNext]_partVars => Inv'
  BY <1>1, PartStep, inOrder!BooksStep, outOfOrder!BooksStep,
     inOrder!LimitStep, outOfOrder!LimitStep DEF BuffersBounded
<1> QED
  BY <1>2, <1>3, PTL DEF PartsSpec

(* The crosser of the run.                                                 *)
THEOREM RatioOfTheParts == PartsSpec => []CallsKeepTheRatio
  BY PartStart, PartStep, CrosserKeepsTheRatio, PTL DEF PartsSpec, Spec

=============================================================================
