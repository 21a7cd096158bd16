-------------------------- MODULE PredictableProofs --------------------------
(***************************************************************************)
(* What the runs of PredictableSystems check of the FIFOs of ORP and DCmc, *)
(* of MAG's blocked channel and of RTMem's order of CAS commands, for      *)
(* every device, traffic, slot and number of requestors.  The steps of     *)
(* ORP, DCmc and MAG are treated in PrivateProofs, those of RTMem here.    *)
(***************************************************************************)
EXTENDS PredictableSystems, TLAPS

LEMMA Constants ==
    /\ rtmem!TimingAssumption /\ rtmem!ControllerAssumption
    /\ private!TimingAssumption /\ private!ControllerAssumption
    /\ private!PrivatizedAssumption
  BY SystemsAssumption

(* The controller that was chosen takes the steps.                         *)
LEMMA ChosenSteps ==
    ASSUME SystemsNext \/ UNCHANGED systemVars
    PROVE  /\ system' = system
           /\ system = "ORP" => private!ORPNext \/ UNCHANGED private!orpVars
           /\ system = "DCmc" => private!DCmcNext \/ UNCHANGED private!orpVars
           /\ system = "MAG" => private!MAGNext \/ UNCHANGED private!magVars
           /\ system = "RTMem" => rtmem!RTNext \/ UNCHANGED rtmem!rtVars
<1>1. CASE SystemsNext
  BY <1>1 DEF SystemsNext
<1>2. CASE UNCHANGED systemVars
  <2>1. /\ UNCHANGED controller /\ UNCHANGED registers /\ UNCHANGED slots
        /\ system' = system
    BY <1>2 DEF systemVars
  <2>2. UNCHANGED private!vars /\ UNCHANGED rtmem!vars
    BY <2>1 DEF controller, private!vars, private!coreVars, private!requestVars,
                private!pendingVars, private!commandVars, private!dataVars,
                private!deviceVars, rtmem!vars, rtmem!coreVars,
                rtmem!requestVars, rtmem!pendingVars, rtmem!commandVars,
                rtmem!dataVars, rtmem!deviceVars
  <2> QED
    BY <2>1, <2>2 DEF registers, slots, arrivals, magIndex, private!orpVars,
                      private!registerVars, private!magVars, private!magIndex,
                      rtmem!rtVars, rtmem!amcVars, rtmem!registerVars,
                      rtmem!arrivalVars
<1> QED
  BY <1>1, <1>2

-----------------------------------------------------------------------------
(* ORP, DCmc and MAG: their inductive invariants.                          *)
PrivateInv ==
    /\ system \in {"ORP", "DCmc"} => private!ORPInv
    /\ system = "MAG" => private!MAGInv

LEMMA PrivateStart == SystemsInit => PrivateInv
<1>1. system \in {"ORP", "DCmc"} /\ SystemsInit => private!ORPInit
  BY DEF SystemsInit
<1>2. system = "MAG" /\ SystemsInit => private!MAGInit
  BY DEF SystemsInit
<1>3. private!ORPInit => private!ORPInv
  BY Constants, private!ORPInvInit, Zenon
<1>4. private!MAGInit => private!MAGInv
  BY Constants, private!MAGInvInit, Zenon
<1> QED
  BY <1>1, <1>2, <1>3, <1>4 DEF PrivateInv

(* The scans of ORP and DCmc name requestors.                              *)
LEMMA Scans ==
    ASSUME private!ORPInv
    PROVE  /\ requestorOrder \in Seq(private!Requestors)
           /\ private!queues \in Seq(private!Requestors)
<1>1. private!RegisterOK
  BY DEF private!ORPInv
<1> QED
  BY <1>1, Constants, private!ScansType, Zenon

LEMMA PrivateStep ==
    ASSUME PrivateInv, SystemsNext \/ UNCHANGED systemVars
    PROVE  PrivateInv'
<1>0. system' = system
  BY ChosenSteps
<1>1. CASE system = "ORP"
  <2>1. private!ORPInv /\ (private!ORPNext \/ UNCHANGED private!orpVars)
    BY <1>1, ChosenSteps DEF PrivateInv
  <2>2. private!FIFONext(requestorOrder) \/ UNCHANGED private!orpVars
    BY <2>1 DEF private!ORPNext, private!FIFONext, private!Filled
  <2>3. private!ORPInv'
    BY <2>1, <2>2, Scans, Constants, private!FIFOStep, Zenon
  <2> QED
    BY <1>0, <1>1, <2>3 DEF PrivateInv
<1>2. CASE system = "DCmc"
  <2>1. private!ORPInv /\ (private!DCmcNext \/ UNCHANGED private!orpVars)
    BY <1>2, ChosenSteps DEF PrivateInv
  <2>2. private!FIFONext(private!queues) \/ UNCHANGED private!orpVars
    BY <2>1 DEF private!DCmcNext, private!FIFONext, private!Scanned,
                private!DCmcIssue, private!DCmcNothing
  <2>3. private!ORPInv'
    BY <2>1, <2>2, Scans, Constants, private!FIFOStep, Zenon
  <2> QED
    BY <1>0, <1>2, <2>3 DEF PrivateInv
<1>3. CASE system = "MAG"
  <2>1. private!MAGInv /\ (private!MAGNext \/ UNCHANGED private!magVars)
    BY <1>3, ChosenSteps DEF PrivateInv
  <2>2. private!MAGInv'
    BY <2>1, Constants, private!MAGStep, Zenon
  <2> QED
    BY <1>0, <1>3, <2>2 DEF PrivateInv
<1> QED
  BY <1>0, <1>1, <1>2, <1>3 DEF PrivateInv

(* A command in the FIFO of ORP or DCmc stays ready until it is issued, so *)
(* that commandSchedule may leave out isReady when it issues one, and no   *)
(* requestor has two commands in it.                                       *)
THEOREM FIFOStaysReady == SystemsSpec => []FIFOReady
<1>1. PrivateInv /\ [SystemsNext]_systemVars => PrivateInv'
  BY PrivateStep
<1>2. PrivateInv => FIFOReady
  <2>1. private!ORPInv => private!FIFOReady
    <3>1. private!ORPInv => private!Orderly(cmdFIFO, private!Ready)
      BY DEF private!ORPInv
    <3> QED
      BY <3>1, Constants, private!OrderlyIsReady, Zenon
  <2> QED
    BY <2>1 DEF PrivateInv, FIFOReady
<1> QED
  BY <1>1, <1>2, PrivateStart, PTL DEF SystemsSpec

(* While MAG's channel is blocked the queue of its index has the CAS at    *)
(* the head, ready: getCommand never meets an empty queue.                 *)
THEOREM BlockedQueueHasCas == SystemsSpec => []BlockedByCas
<1>1. PrivateInv /\ [SystemsNext]_systemVars => PrivateInv'
  BY PrivateStep
<1>2. PrivateInv => BlockedByCas
  BY DEF PrivateInv, BlockedByCas, private!MAGInv
<1> QED
  BY <1>1, <1>2, PrivateStart, PTL DEF SystemsSpec

-----------------------------------------------------------------------------
(* RTMem: its inductive invariant.  Every queued command has an arrival    *)
(* time, by which the heads can be compared.                               *)
RegisterOK == /\ requestorOrder \in Seq(rtmem!Requestors)
              /\ requestorIndex \in Nat \ {0}
TimesOK == rtmem!Timed(arriveTime, commandQueue) /\ now \in Nat
RTInv == rtmem!TypeOK /\ RegisterOK /\ TimesOK

(* The request that takes a slot is the first of a buffer.                 *)
LEMMA FoundRequest ==
    ASSUME rtmem!TypeOK, RegisterOK, rtmem!Found # {}
    PROVE  LET d == rtmem!Min(rtmem!Found)
               r == requestorOrder[rtmem!Place(d)]
           IN  /\ rtmem!Place(d) \in 1 .. Len(requestorOrder)
               /\ r \in rtmem!Buffers /\ 1 \in DOMAIN requestBuffer[r]
<1> DEFINE d == rtmem!Min(rtmem!Found)
           L == Len(requestorOrder)
           p == rtmem!Place(d)
<1>1. rtmem!Found \in SUBSET (0 .. L - 1) /\ L \in Nat
  BY DEF rtmem!Found, RegisterOK
<1>2. rtmem!Found \in SUBSET Nat
  BY <1>1
<1>3. d \in rtmem!Found
  BY <1>2, Constants, rtmem!MinIsLeast, Zenon
<1> HIDE DEF d
<1>4. d \in Nat /\ L > 0 /\ requestBuffer[requestorOrder[p]] # <<>>
  BY <1>1, <1>3 DEF rtmem!Found
<1>5. p \in 1 .. L
  <2> DEFINE n == requestorIndex - 1 + d
  <2>1. n \in Nat
    BY <1>4 DEF RegisterOK
  <2> HIDE DEF n
  <2>2. n % L \in 0 .. L - 1
    BY <1>1, <1>4, <2>1
  <2> QED
    BY <1>1, <2>2 DEF rtmem!Place, n
<1> HIDE DEF p
<1>6. requestorOrder[p] \in rtmem!Buffers
  BY <1>5 DEF RegisterOK, rtmem!Buffers
<1>7. 1 \in DOMAIN requestBuffer[requestorOrder[p]]
  BY <1>4, <1>6, Constants, rtmem!FirstRequest, Zenon
<1> QED
  BY <1>5, <1>6, <1>7 DEF p, d

(* The oldest of the ready heads of some types is one of them.             *)
LEMMA OldestIs ==
    ASSUME rtmem!TypeOK, TimesOK, NEW T, rtmem!ReadyHeads(T) # {}
    PROVE  /\ rtmem!Oldest(rtmem!ReadyHeads(T)) \in rtmem!ReadyHeads(T)
           /\ \A x \in rtmem!ReadyHeads(T) :
                 rtmem!Arrived(rtmem!Oldest(rtmem!ReadyHeads(T))) <= rtmem!Arrived(x)
<1> DEFINE S == rtmem!ReadyHeads(T)
<1>1. S \in SUBSET Banks /\ \A b \in S : commandQueue[b] # <<>>
  BY DEF rtmem!ReadyHeads
<1>2. rtmem!Oldest(S) = rtmem!FirstCome(arriveTime, S)
  BY Zenon DEF rtmem!Oldest, rtmem!FirstCome, rtmem!Arrived
<1> HIDE DEF S
<1>3. /\ rtmem!FirstCome(arriveTime, S) \in S
      /\ \A x \in S : Head(arriveTime[rtmem!FirstCome(arriveTime, S)])
                          <= Head(arriveTime[x])
  <2>1. S # {}
    BY DEF S
  <2> QED
    BY <1>1, <2>1, Constants, rtmem!FirstComeIs, Zenon DEF TimesOK
<1> QED
  BY <1>2, <1>3 DEF S, rtmem!Arrived

(* The command that is chosen is ready.                                    *)
LEMMA ChosenIs ==
    ASSUME rtmem!TypeOK, TimesOK, NEW b \in rtmem!Chosen
    PROVE  /\ b \in Banks /\ rtmem!isReady(b)
           /\ \/ b \in rtmem!readyCAS /\ b = rtmem!Oldest(rtmem!readyCAS)
              \/ /\ Head(commandQueue[b]).busPacketType \notin rtmem!BeforeACT
                 /\ rtmem!readyCAS # {} =>
                        ~rtmem!isIssuable(rtmem!Oldest(rtmem!readyCAS))
<1>1. CASE rtmem!readyCAS # {} /\ b = rtmem!Oldest(rtmem!readyCAS)
  <2>1. b \in rtmem!readyCAS
    BY <1>1, OldestIs DEF rtmem!readyCAS
  <2> QED
    BY <1>1, <2>1 DEF rtmem!readyCAS, rtmem!ReadyHeads
<1>2. CASE /\ rtmem!readyACT # {} /\ b = rtmem!Oldest(rtmem!readyACT)
           /\ rtmem!readyCAS # {} =>
                  ~rtmem!isIssuable(rtmem!Oldest(rtmem!readyCAS))
  <2>1. b \in rtmem!readyACT
    BY <1>2, OldestIs DEF rtmem!readyACT
  <2> QED
    BY <1>2, <2>1 DEF rtmem!readyACT, rtmem!ReadyHeads
<1> QED
  BY <1>1, <1>2 DEF rtmem!Chosen

(* A step of RTMem: a slot starts with a request, a command is issued, or  *)
(* neither a request nor a command goes.                                   *)
Slot == rtmem!RRSchedule(rtmem!isSchedulable) /\ rtmem!Arrive
Quiet == rtmem!RRCommon /\ UNCHANGED rtmem!arrivalVars

(* It keeps the registered requestors.                                     *)
LEMMA RTRegister ==
    ASSUME RegisterOK, rtmem!TypeOK, rtmem!RTNext
    PROVE  RegisterOK'
<1>1. ASSUME NEW q \in SharedTraffic, rtmem!RegisteringSend(q)
      PROVE  RegisterOK'
  <2>1. q.requestorID \in rtmem!Requestors
    BY Constants DEF rtmem!ControllerAssumption
  <2> QED
    BY <1>1, <2>1 DEF rtmem!RegisteringSend, rtmem!Register, RegisterOK
<1>2. CASE UNCHANGED rtmem!registerVars
  BY <1>2 DEF rtmem!registerVars, RegisterOK
<1>3. CASE rtmem!RRSchedule(rtmem!isSchedulable)
  <2> DEFINE p == rtmem!Place(rtmem!Min(rtmem!Found))
  <2>1. p \in 1 .. Len(requestorOrder) /\ Len(requestorOrder) \in Nat
    BY <1>3, FoundRequest DEF rtmem!RRSchedule, RegisterOK
  <2>2. /\ requestorIndex' = rtmem!NextIndex(p) \/ requestorIndex' = p
        /\ requestorOrder' = requestorOrder
    BY <1>3 DEF rtmem!RRSchedule
  <2> HIDE DEF p
  <2> QED
    BY <2>1, <2>2 DEF rtmem!NextIndex, RegisterOK
<1> QED
  BY <1>1, <1>2, <1>3 DEF rtmem!RTNext, rtmem!RRCommon, rtmem!RRNothing,
     rtmem!RRWait, rtmem!commandSchedule, rtmem!NothingToIssue

(* A quiet step, or one in which a request only takes the slot, leaves the *)
(* commands alone.                                                         *)
LEMMA QuietStep ==
    ASSUME Quiet
    PROVE  /\ rtmem!Next /\ phase # "command"
           /\ UNCHANGED <<arriveTime, now, commandQueue>>
  BY DEF Quiet, rtmem!RRCommon, rtmem!RegisteringSend, rtmem!SendRequest,
         rtmem!Others, rtmem!Idle, rtmem!DeliverWrite, rtmem!NoWrite,
         rtmem!DeliverRead, rtmem!NoRead, rtmem!RRNothing, rtmem!RRWait,
         rtmem!EndSchedule, rtmem!commandVars, rtmem!arrivalVars, rtmem!Next

(* A slot starts with a request: its commands arrive.                      *)
LEMMA SlotStep ==
    ASSUME RTInv, Slot
    PROVE  rtmem!Next /\ TimesOK' /\ phase # "command"
<1> DEFINE r == requestorOrder[rtmem!Place(rtmem!Min(rtmem!Found))]
<1>0. rtmem!TypeOK /\ RegisterOK /\ TimesOK
  BY DEF RTInv
<1>1. /\ rtmem!Found # {}
      /\ rtmem!ScheduleRequest(r, 1, FALSE) \/ rtmem!EndSchedule
      /\ now' = now
      /\ arriveTime' = rtmem!TimesAfter(arriveTime, now, commandQueue, commandQueue')
  BY DEF Slot, rtmem!RRSchedule, rtmem!Arrive, rtmem!TimesAfter
<1>2. r \in rtmem!Buffers /\ 1 \in DOMAIN requestBuffer[r] /\ FALSE \in BOOLEAN
  BY <1>0, <1>1, FoundRequest
<1> HIDE DEF r
<1>3. CASE rtmem!ScheduleRequest(r, 1, FALSE)
  <2>1. rtmem!Timed(rtmem!TimesAfter(arriveTime, now, commandQueue, commandQueue'),
                    commandQueue')
    BY <1>0, <1>2, <1>3, Constants, rtmem!TimedArrivals, Zenon DEF TimesOK
  <2>2. rtmem!Next
    BY <1>2, <1>3 DEF rtmem!Next
  <2>3. phase # "command"
    BY <1>3 DEF rtmem!ScheduleRequest, rtmem!TakeRequest
  <2> QED
    BY <1>0, <1>1, <2>1, <2>2, <2>3 DEF TimesOK
<1>4. CASE rtmem!EndSchedule
  <2>1. rtmem!Next
    BY <1>4 DEF rtmem!Next
  <2>2. commandQueue' = commandQueue /\ phase # "command"
    BY <1>4 DEF rtmem!EndSchedule, rtmem!commandVars
  <2>3. arriveTime' = arriveTime
    <3>1. ASSUME NEW b \in Banks PROVE arriveTime'[b] = arriveTime[b]
      <4>1. arriveTime[b] \in Seq(Nat) /\ Len(commandQueue[b]) \in Nat
        BY <1>0 DEF TimesOK, rtmem!Timed
      <4>2. Len(commandQueue'[b]) - Len(commandQueue[b]) = 0
        BY <2>2, <4>1
      <4>3. [k \in 1 .. 0 |-> now] = <<>>
        OBVIOUS
      <4>4. arriveTime'[b] = arriveTime[b] \o <<>>
        BY <1>1, <4>2, <4>3 DEF rtmem!TimesAfter
      <4> QED
        BY <4>1, <4>4
    <3> QED
      BY <1>0, <1>1, <3>1 DEF TimesOK, rtmem!Timed, rtmem!TimesAfter
  <2> QED
    BY <1>0, <1>1, <2>1, <2>2, <2>3 DEF TimesOK, rtmem!Timed
<1> QED
  BY <1>1, <1>3, <1>4

(* The times are renumbered, and remain numbers.                           *)
LEMMA RenumberIs ==
    ASSUME NEW times, rtmem!Renumber(times)
    PROVE  /\ arriveTime' = rtmem!Ranked(times)
           /\ now' = rtmem!Cardinality(rtmem!TimesOf(times))
  BY DEF rtmem!Renumber, rtmem!Ranked, rtmem!TimesOf

(* A command is issued.                                                    *)
LEMMA RTIssueStep ==
    ASSUME RTInv, NEW b \in Banks, rtmem!commandSchedule(b)
    PROVE  rtmem!Next /\ TimesOK'
<1>1. rtmem!TypeOK /\ TimesOK /\ b \in rtmem!Chosen /\ rtmem!sendCommand(b)
  BY DEF RTInv, rtmem!commandSchedule
<1>2. rtmem!Renumber([arriveTime EXCEPT ![b] = Tail(@)])
  BY DEF rtmem!commandSchedule, rtmem!Leave
<1>3. rtmem!IssueCommand(b)
  BY <1>1, ChosenIs DEF rtmem!IssueCommand
<1>4. /\ rtmem!Timed(rtmem!Ranked([arriveTime EXCEPT ![b] = Tail(@)]),
                     commandQueue')
      /\ rtmem!Cardinality(rtmem!TimesOf([arriveTime EXCEPT ![b] = Tail(@)])) \in Nat
  BY <1>1, Constants, rtmem!TimedLeave, Zenon DEF TimesOK
<1>5. /\ arriveTime' = rtmem!Ranked([arriveTime EXCEPT ![b] = Tail(@)])
      /\ now' = rtmem!Cardinality(rtmem!TimesOf([arriveTime EXCEPT ![b] = Tail(@)]))
  BY <1>2, RenumberIs
<1>6. TimesOK'
  BY <1>4, <1>5, Zenon DEF TimesOK
<1> QED
  BY <1>3, <1>6 DEF rtmem!Next

(* None is.                                                                *)
LEMMA RTNothingStep ==
    ASSUME RTInv, rtmem!NothingToIssue
    PROVE  rtmem!Next /\ TimesOK' /\ commandQueue' = commandQueue
<1>1. /\ rtmem!NoCommand /\ commandQueue' = commandQueue
      /\ rtmem!Renumber(arriveTime)
  BY DEF rtmem!NothingToIssue, rtmem!Stay, rtmem!NoCommand, rtmem!commandVars
<1>2. TimesOK'
  BY <1>1, RenumberIs, Constants, rtmem!TimedStay, Zenon DEF RTInv, TimesOK
<1> QED
  BY <1>1, <1>2 DEF rtmem!Next

(* So every step is one of MemoryController's and keeps the invariant.     *)
LEMMA RTStep ==
    ASSUME RTInv, rtmem!RTNext \/ UNCHANGED rtmem!rtVars
    PROVE  [rtmem!Next]_rtmem!vars /\ RTInv'
<1>1. CASE rtmem!RTNext
  <2>1. ASSUME Quiet PROVE rtmem!Next /\ TimesOK'
    BY <2>1, QuietStep DEF RTInv, TimesOK, rtmem!Timed
  <2>2. rtmem!Next /\ TimesOK'
    BY <1>1, <2>1, SlotStep, RTIssueStep, RTNothingStep
       DEF rtmem!RTNext, Quiet, Slot
  <2>3. rtmem!TypeOK'
    BY <2>2, Constants, rtmem!StepType, Zenon DEF RTInv
  <2> QED
    BY <1>1, <2>2, <2>3, RTRegister DEF RTInv
<1>2. CASE UNCHANGED rtmem!rtVars
  <2>1. /\ UNCHANGED rtmem!vars /\ UNCHANGED rtmem!registerVars
        /\ UNCHANGED rtmem!arrivalVars
    BY <1>2 DEF rtmem!rtVars, rtmem!amcVars
  <2>2. rtmem!TypeOK'
    BY <2>1, Constants, rtmem!StepType, Zenon DEF RTInv
  <2>3. commandQueue' = commandQueue
    BY <2>1 DEF rtmem!vars, rtmem!commandVars
  <2>4. TimesOK'
    BY <2>1, <2>3 DEF rtmem!arrivalVars, RTInv, TimesOK, rtmem!Timed
  <2> QED
    BY <2>1, <2>2, <2>4 DEF rtmem!registerVars, RTInv, RegisterOK
<1> QED
  BY <1>1, <1>2

LEMMA RTStart == rtmem!RTInit => RTInv
<1> SUFFICES ASSUME rtmem!RTInit PROVE RTInv
  OBVIOUS
<1>1. /\ rtmem!Init /\ requestorOrder = <<>> /\ requestorIndex = 1
      /\ arriveTime = [b \in Banks |-> <<>>] /\ now = 0
  BY DEF rtmem!RTInit, rtmem!AMCInit, rtmem!PerRequestorInit, rtmem!ArrivalsInit
<1>2. rtmem!TypeOK
  BY <1>1, Constants, rtmem!InitType, Zenon
<1>3. commandQueue = [b \in Banks |-> <<>>]
  BY <1>1 DEF rtmem!Init
<1> QED
  BY <1>1, <1>2, <1>3 DEF RTInv, RegisterOK, TimesOK, rtmem!Timed

(* The command that leaves is the one that was chosen, and the oldest of   *)
(* the ready CAS commands was tried first.                                 *)
LEMMA RTOrder ==
    ASSUME RTInv, rtmem!RTNext, phase = "command"
    PROVE  rtmem!OldestCasFirst
<1> SUFFICES ASSUME NEW b \in Banks, NEW x \in Banks,
                    commandQueue'[b] # commandQueue[b],
                    x \in rtmem!readyCAS, x # b
             PROVE  IF Head(commandQueue[b]).busPacketType \in rtmem!BeforeACT
                    THEN rtmem!Arrived(b) <= rtmem!Arrived(x)
                    ELSE \E y \in rtmem!readyCAS :
                            /\ rtmem!Arrived(y) <= rtmem!Arrived(x)
                            /\ ~rtmem!isIssuable(y)
  BY DEF rtmem!OldestCasFirst
<1>0. rtmem!TypeOK /\ TimesOK
  BY DEF RTInv
<1>1. PICK c \in Banks : rtmem!commandSchedule(c)
  BY QuietStep, SlotStep, RTNothingStep DEF rtmem!RTNext, Quiet, Slot
<1>2. b = c
  <2>1. commandQueue' = [commandQueue EXCEPT ![c] = Tail(@)]
    BY <1>1 DEF rtmem!commandSchedule, rtmem!sendCommand
  <2> QED
    BY <1>0, <2>1 DEF rtmem!TypeOK
<1>3. b \in rtmem!Chosen
  BY <1>1, <1>2 DEF rtmem!commandSchedule
<1> DEFINE o == rtmem!Oldest(rtmem!readyCAS)
<1>4. o \in rtmem!readyCAS /\ rtmem!Arrived(o) <= rtmem!Arrived(x)
  BY <1>0, OldestIs DEF rtmem!readyCAS
<1>5. \/ b \in rtmem!readyCAS /\ b = o
      \/ /\ Head(commandQueue[b]).busPacketType \notin rtmem!BeforeACT
         /\ ~rtmem!isIssuable(o)
  BY <1>0, <1>3, <1>4, ChosenIs
<1> HIDE DEF o
<1>6. b \in rtmem!readyCAS => Head(commandQueue[b]).busPacketType \in rtmem!BeforeACT
  BY DEF rtmem!readyCAS, rtmem!ReadyHeads
<1> QED
  BY <1>4, <1>5, <1>6

-----------------------------------------------------------------------------
(* The CAS commands leave the FIFO of ORP and of DCmc in the order in      *)
(* which they became ready; RTMem takes them by their arrival, and passes  *)
(* one over for another command only if it, or an older one, cannot go.    *)
THEOREM CasKeepTheirOrder == SystemsSpec => CasInOrder
<1> DEFINE Inv == PrivateInv /\ (system = "RTMem" => RTInv)
           A == /\ system = "ORP" => private!CasInOrder(private!Filled)
                /\ system = "DCmc" => private!CasInOrder(private!Scanned)
                /\ system = "RTMem" /\ phase = "command" => rtmem!OldestCasFirst
<1>1. SystemsInit => Inv
  <2>1. SystemsInit /\ system = "RTMem" => rtmem!RTInit
    BY DEF SystemsInit
  <2> QED
    BY <2>1, RTStart, PrivateStart
<1>2. Inv /\ [SystemsNext]_systemVars => Inv'
  <2> SUFFICES ASSUME Inv, [SystemsNext]_systemVars PROVE Inv'
    OBVIOUS
  <2>1. PrivateInv'
    BY PrivateStep
  <2>2. system' = system
    BY ChosenSteps
  <2>3. system = "RTMem" => RTInv'
    BY ChosenSteps, RTStep
  <2> QED
    BY <2>1, <2>2, <2>3
<1>3. Inv /\ [SystemsNext]_systemVars => [A]_systemVars
  <2> SUFFICES ASSUME Inv, SystemsNext PROVE A
    OBVIOUS
  <2>0. private!ORPInv => private!Orderly(cmdFIFO, private!Ready)
    BY DEF private!ORPInv
  <2>1. CASE system = "ORP"
    <3>1. private!ORPNext /\ private!ORPInv
      BY <2>1 DEF SystemsNext, PrivateInv
    <3>2. private!FIFONext(requestorOrder)
      BY <3>1 DEF private!ORPNext, private!FIFONext, private!Filled
    <3>3. private!CasInOrder(private!Enter(requestorOrder))
      BY <2>0, <3>1, <3>2, Scans, Constants, private!FIFOOrderStep, Zenon
    <3> QED
      BY <2>1, <3>3 DEF private!Filled
  <2>2. CASE system = "DCmc"
    <3>1. private!DCmcNext /\ private!ORPInv
      BY <2>2 DEF SystemsNext, PrivateInv
    <3>2. private!FIFONext(private!queues)
      BY <3>1 DEF private!DCmcNext, private!FIFONext, private!Scanned,
                  private!DCmcIssue, private!DCmcNothing
    <3>3. private!CasInOrder(private!Enter(private!queues))
      BY <2>0, <3>1, <3>2, Scans, Constants, private!FIFOOrderStep, Zenon
    <3> QED
      BY <2>2, <3>3 DEF private!Scanned
  <2>3. CASE system = "RTMem" /\ phase = "command"
    <3>1. rtmem!RTNext /\ RTInv
      BY <2>3 DEF SystemsNext
    <3> QED
      BY <2>3, <3>1, RTOrder
  <2> QED
    BY <2>1, <2>2, <2>3
<1>4. [][A]_systemVars => CasInOrder
  BY PTL DEF CasInOrder
<1> HIDE DEF Inv, A
<1> QED
  BY <1>1, <1>2, <1>3, <1>4, PTL DEF SystemsSpec

=============================================================================
