------------------------ MODULE HighPerformanceProofs ------------------------
(***************************************************************************)
(* The controllers of HighPerformanceSystems implement MemoryController,   *)
(* so that what is proved there holds for each of them, and keep the       *)
(* promises of their own policies: for every device, every traffic, every  *)
(* number of requestors and every setting of the policies.                 *)
(***************************************************************************)
EXTENDS HighPerformanceSystems, SequenceTheorems, TLAPS

-----------------------------------------------------------------------------
(* What the modules of the controllers assume of their constants.          *)
LEMMA Constants ==
    /\ frfcfs!TimingAssumption /\ frfcfs!ControllerAssumption
    /\ fcfs!TimingAssumption /\ fcfs!ControllerAssumption
    /\ batching!TimingAssumption /\ batching!ControllerAssumption
    /\ bliss!TimingAssumption /\ bliss!ControllerAssumption
    /\ parbs!TimingAssumption /\ parbs!ControllerAssumption
  BY SystemsAssumption

(* The general buffer is one of the buffers of each.                       *)
LEMMA GeneralBuffer ==
    /\ 0 \in frfcfs!Buffers /\ 0 \in fcfs!Buffers
    /\ 0 \in batching!Buffers /\ NumInOrder \in batching!Buffers
    /\ 0 \in bliss!Buffers /\ 0 \in parbs!Buffers
  BY DEF frfcfs!Buffers, fcfs!Buffers, batching!Buffers, batching!writeBuffer,
         bliss!Buffers, parbs!Buffers

-----------------------------------------------------------------------------
(* FR-FCFS takes a request of the buffer, and only sends heads of queues   *)
(* that are ready and issuable.                                            *)
LEMMA FRFCFSStep == ASSUME frfcfs!TypeOK, frfcfs!FRNext PROVE frfcfs!Next
<1>1. CASE \/ \E q \in FRTraffic : frfcfs!SendRequest(q)
           \/ frfcfs!Idle
           \/ frfcfs!DeliverWrite
           \/ frfcfs!NoWrite
           \/ frfcfs!DeliverRead
           \/ frfcfs!NoRead
  BY <1>1 DEF frfcfs!Next
<1>2. CASE frfcfs!requestSchedule
  <2>1. requestBuffer[0] # <<>> /\ frfcfs!ScheduleRequest(0, frfcfs!scheduleFR, FALSE)
    BY <1>2, Zenon DEF frfcfs!requestSchedule
  <2>2. frfcfs!scheduleFR \in DOMAIN requestBuffer[0]
    BY <2>1, Constants, GeneralBuffer, frfcfs!RowHitType DEF frfcfs!scheduleFR
  <2> QED
    BY <2>1, <2>2, GeneralBuffer, Zenon DEF frfcfs!Next
<1>3. CASE frfcfs!NothingToSchedule
  BY <1>3 DEF frfcfs!NothingToSchedule, frfcfs!Next
<1>4. ASSUME NEW b \in Banks, frfcfs!commandSchedule(b) PROVE frfcfs!Next
  <2>1. frfcfs!isReady(b) /\ frfcfs!sendCommand(b)
    BY <1>4 DEF frfcfs!commandSchedule, frfcfs!Candidates
  <2> QED
    BY <2>1 DEF frfcfs!IssueCommand, frfcfs!Next
<1>5. CASE frfcfs!NothingToIssue
  BY <1>5 DEF frfcfs!NothingToIssue, frfcfs!Next
<1> QED
  BY <1>1, <1>2, <1>3, <1>4, <1>5 DEF frfcfs!FRNext

-----------------------------------------------------------------------------
(* The command scheduler that the others share sends the head of a queue   *)
(* that is ready: the one its scan holds at the end.                       *)

(* In the FCFS controller.                                                 *)
LEMMA FCFSIssue ==
    ASSUME (\E b \in Banks : fcfs!FRIssue(b)) \/ fcfs!FRIssueNone
    PROVE  fcfs!Next
<1> DEFINE S == fcfs!Candidates
           better == {p \in S \X S : fcfs!GivesWay(p[1], p[2])}
<1>1. CASE fcfs!FRIssueNone
  BY <1>1 DEF fcfs!FRIssueNone, fcfs!Next
<1>2. ASSUME NEW b \in Banks, fcfs!FRIssue(b) PROVE fcfs!Next
  <2>1. S # {} /\ b = fcfs!LastHeld(S, better, 15) /\ fcfs!sendCommand(b)
    BY <1>2 DEF fcfs!FRIssue, fcfs!Held
  <2>2. S \subseteq 0 .. 15
    BY Constants DEF fcfs!ControllerAssumption, fcfs!Candidates
  <2>3. b \in S
    BY <2>1, <2>2, Constants, fcfs!HeldIsMember
  <2> QED
    BY <2>1, <2>3 DEF fcfs!Candidates, fcfs!IssueCommand, fcfs!Next
<1> QED
  BY <1>1, <1>2

(* With write batching.                                                    *)
LEMMA BatchIssue ==
    ASSUME (\E b \in Banks : batching!FRIssue(b)) \/ batching!FRIssueNone
    PROVE  batching!Next
<1> DEFINE S == batching!Candidates
           better == {p \in S \X S : batching!GivesWay(p[1], p[2])}
<1>1. CASE batching!FRIssueNone
  BY <1>1 DEF batching!FRIssueNone, batching!Next
<1>2. ASSUME NEW b \in Banks, batching!FRIssue(b) PROVE batching!Next
  <2>1. S # {} /\ b = batching!LastHeld(S, better, 15) /\ batching!sendCommand(b)
    BY <1>2 DEF batching!FRIssue, batching!Held
  <2>2. S \subseteq 0 .. 15
    BY Constants, Zenon DEF batching!ControllerAssumption, batching!Candidates
  <2>3. b \in S
    BY <2>1, <2>2, Constants, batching!HeldIsMember
  <2> QED
    BY <2>1, <2>3 DEF batching!Candidates, batching!IssueCommand, batching!Next
<1> QED
  BY <1>1, <1>2

(* In BLISS.                                                               *)
LEMMA BLISSIssue ==
    ASSUME (\E b \in Banks : bliss!FRIssue(b)) \/ bliss!FRIssueNone
    PROVE  bliss!Next
<1> DEFINE S == bliss!Candidates
           better == {p \in S \X S : bliss!GivesWay(p[1], p[2])}
<1>1. CASE bliss!FRIssueNone
  BY <1>1 DEF bliss!FRIssueNone, bliss!Next
<1>2. ASSUME NEW b \in Banks, bliss!FRIssue(b) PROVE bliss!Next
  <2>1. S # {} /\ b = bliss!LastHeld(S, better, 15) /\ bliss!sendCommand(b)
    BY <1>2 DEF bliss!FRIssue, bliss!Held
  <2>2. S \subseteq 0 .. 15
    BY Constants, Zenon DEF bliss!ControllerAssumption, bliss!Candidates
  <2>3. b \in S
    BY <2>1, <2>2, Constants, bliss!HeldIsMember
  <2> QED
    BY <2>1, <2>3 DEF bliss!Candidates, bliss!IssueCommand, bliss!Next
<1> QED
  BY <1>1, <1>2

(* In PAR-BS.                                                              *)
LEMMA PARBSIssue ==
    ASSUME (\E b \in Banks : parbs!FRIssue(b)) \/ parbs!FRIssueNone
    PROVE  parbs!Next
<1> DEFINE S == parbs!Candidates
           better == {p \in S \X S : parbs!GivesWay(p[1], p[2])}
<1>1. CASE parbs!FRIssueNone
  BY <1>1 DEF parbs!FRIssueNone, parbs!Next
<1>2. ASSUME NEW b \in Banks, parbs!FRIssue(b) PROVE parbs!Next
  <2>1. S # {} /\ b = parbs!LastHeld(S, better, 15) /\ parbs!sendCommand(b)
    BY <1>2 DEF parbs!FRIssue, parbs!Held
  <2>2. S \subseteq 0 .. 15
    BY Constants, Zenon DEF parbs!ControllerAssumption, parbs!Candidates
  <2>3. b \in S
    BY <2>1, <2>2, Constants, parbs!HeldIsMember
  <2> QED
    BY <2>1, <2>3 DEF parbs!Candidates, parbs!IssueCommand, parbs!Next
<1> QED
  BY <1>1, <1>2

-----------------------------------------------------------------------------
(* Every step of each is a step of MemoryController.                       *)

(* FCFS takes the first request.                                           *)
LEMMA FCFSStep == ASSUME fcfs!TypeOK, fcfs!FCFSNext PROVE fcfs!Next
<1>1. CASE \/ \E q \in FCFSTraffic : fcfs!SendRequest(q)
           \/ fcfs!Idle
           \/ fcfs!DeliverWrite
           \/ fcfs!NoWrite
           \/ fcfs!DeliverRead
           \/ fcfs!NoRead
  BY <1>1 DEF fcfs!Next
<1>2. CASE fcfs!fcfsSchedule
  <2>1. requestBuffer[0] # <<>> /\ fcfs!ScheduleRequest(0, 1, FALSE)
    BY <1>2, Zenon DEF fcfs!fcfsSchedule
  <2>2. requestBuffer[0] \in Seq(FCFSTraffic)
    BY GeneralBuffer DEF fcfs!TypeOK
  <2>3. 1 \in DOMAIN requestBuffer[0]
    BY <2>1, <2>2
  <2> QED
    BY <2>1, <2>3, GeneralBuffer, Zenon DEF fcfs!Next
<1>3. CASE fcfs!fcfsNothing
  BY <1>3 DEF fcfs!fcfsNothing, fcfs!Next
<1> QED
  BY <1>1, <1>2, <1>3, FCFSIssue DEF fcfs!FCFSNext

(* Write batching takes the first write, of which there is one while the   *)
(* writes are drained, or a read as FR-FCFS does.                          *)
LEMMA BatchStep == ASSUME batching!TypeOK, batching!BatchNext PROVE batching!Next
<1>0. /\ NumInOrder = batching!writeBuffer
      /\ requestBuffer[NumInOrder] \in Seq(BatchTraffic)
      /\ requestBuffer[NumInOrder] = batching!writes
  BY GeneralBuffer DEF batching!TypeOK, batching!writes, batching!writeBuffer
<1>1. CASE \/ \E q \in BatchTraffic : batching!BatchSend(q)
           \/ batching!Idle
           \/ batching!DeliverWrite
           \/ batching!NoWrite
           \/ batching!DeliverRead
           \/ batching!NoRead
  BY <1>1 DEF batching!BatchSend, batching!Next
<1>2. ASSUME requestBuffer[NumInOrder] # <<>>,
             batching!ScheduleRequest(batching!writeBuffer, 1, FALSE)
      PROVE  batching!Next
  <2>1. 1 \in DOMAIN requestBuffer[NumInOrder]
    BY <1>0, <1>2
  <2> QED
    BY <1>0, <1>2, <2>1, GeneralBuffer, Zenon DEF batching!Next
<1>3. CASE batching!DrainWrite
  <2>1. Len(requestBuffer[NumInOrder]) # 0
    BY <1>0, <1>3, SystemsAssumption
       DEF batching!DrainWrite, batching!Draining, batching!highWatermark,
           batching!lowWatermark, batching!BatchingAssumption
  <2> QED
    BY <1>0, <1>2, <1>3, <2>1 DEF batching!DrainWrite
<1>4. CASE batching!ScheduleRead
  <2>1. PICK more \in BOOLEAN :
            /\ requestBuffer[0] # <<>>
            /\ batching!ScheduleRequest(0, batching!scheduleFR, more)
    BY <1>4, Zenon DEF batching!ScheduleRead
  <2>2. batching!scheduleFR \in DOMAIN requestBuffer[0]
    BY <2>1, Constants, GeneralBuffer, batching!RowHitType DEF batching!scheduleFR
  <2> QED
    BY <2>1, <2>2, GeneralBuffer DEF batching!Next
<1>5. CASE batching!IdleWrite
  BY <1>0, <1>2, <1>5 DEF batching!IdleWrite
<1>6. CASE batching!NothingToSchedule
  BY <1>6 DEF batching!NothingToSchedule, batching!Next
<1> QED
  BY <1>1, <1>3, <1>4, <1>5, <1>6, BatchIssue DEF batching!BatchNext

(* BLISS takes the first request or one that differs from it.              *)
LEMMA BLISSChoice ==
    ASSUME bliss!TypeOK, requestBuffer[0] # <<>>, NEW list,
           NEW h1 \in BOOLEAN, NEW h2 \in BOOLEAN
    PROVE  bliss!scheduleBLISS(list, h1, h2) \in DOMAIN requestBuffer[0]
<1>0. requestBuffer[0] \in Seq(BLISSTraffic)
  BY GeneralBuffer DEF bliss!TypeOK
<1>1. 1 \in DOMAIN requestBuffer[0] /\ DOMAIN requestBuffer[0] \subseteq Nat
  BY <1>0
<1>2. ASSUME NEW hits \in BOOLEAN
      PROVE  bliss!FirstApart(list, hits) \in DOMAIN requestBuffer[0]
  <2> DEFINE apart == {k \in DOMAIN requestBuffer[0] :
                         \/ bliss!Blacklisted(k, list) # bliss!Blacklisted(1, list)
                         \/ hits /\ bliss!isRowHit(requestBuffer[0][k])}
  <2>1. bliss!FirstApart(list, hits) = IF apart = {} THEN 1 ELSE bliss!Min(apart)
    BY DEF bliss!FirstApart
  <2> HIDE DEF apart
  <2>2. apart \subseteq DOMAIN requestBuffer[0]
    BY DEF apart
  <2>3. apart # {} => bliss!Min(apart) \in apart
    BY <1>1, <2>2, Constants, bliss!MinIsLeast, Zenon
  <2> QED
    BY <1>1, <2>1, <2>2, <2>3
<1>3. \/ bliss!scheduleBLISS(list, h1, h2) = 1
      \/ bliss!scheduleBLISS(list, h1, h2) = bliss!FirstApart(list, TRUE)
      \/ bliss!scheduleBLISS(list, h1, h2) = bliss!FirstApart(list, FALSE)
  BY Zenon DEF bliss!scheduleBLISS
<1> QED
  BY <1>1, <1>2, <1>3, Zenon

LEMMA BLISSStep == ASSUME bliss!TypeOK, bliss!BLISSNext PROVE bliss!Next
<1>1. CASE \/ \E q \in BLISSTraffic : bliss!SendRequest(q)
           \/ bliss!Idle
           \/ bliss!DeliverWrite
           \/ bliss!NoWrite
           \/ bliss!DeliverRead
           \/ bliss!NoRead
  BY <1>1 DEF bliss!Next
<1>2. ASSUME requestBuffer[0] # <<>>, NEW h1 \in BOOLEAN, NEW h2 \in BOOLEAN,
             bliss!requestSchedule(bliss!scheduleBLISS(bliss!Listed, h1, h2))
      PROVE  bliss!Next
  <2> DEFINE k == bliss!scheduleBLISS(bliss!Listed, h1, h2)
  <2>1. k \in DOMAIN requestBuffer[0]
    BY <1>2, BLISSChoice
  <2>2. bliss!ScheduleRequest(0, k, FALSE)
    BY <1>2, Zenon DEF bliss!requestSchedule
  <2> HIDE DEF k
  <2> QED
    BY <2>1, <2>2, GeneralBuffer, Zenon DEF bliss!Next
<1>3. CASE bliss!NothingToSchedule
  BY <1>3 DEF bliss!NothingToSchedule, bliss!Next
<1> QED
  BY <1>1, <1>2, <1>3, BLISSIssue DEF bliss!BLISSNext

(* PAR-BS takes the best request of the buffer.                            *)
LEMMA PARBSStep == ASSUME parbs!TypeOK, parbs!PARBSNext PROVE parbs!Next
<1>1. CASE \/ \E q \in PARBSTraffic : parbs!PARBSSend(q)
           \/ parbs!Idle
           \/ parbs!DeliverWrite
           \/ parbs!NoWrite
           \/ parbs!DeliverRead
           \/ parbs!NoRead
  BY <1>1, Zenon DEF parbs!PARBSSend, parbs!Next
<1>2. ASSUME requestBuffer[0] # <<>>, NEW lot,
             parbs!requestSchedule(lot, parbs!Best(lot))
      PROVE  parbs!Next
  <2> DEFINE places == DOMAIN requestBuffer[0]
             better == {p \in places \X places : parbs!Better(lot, p[1], p[2])}
             k == parbs!Best(lot)
  <2>1. k = parbs!LastHeld(places, better, Len(requestBuffer[0]))
    BY DEF parbs!Best, parbs!buffer
  <2>2. requestBuffer[0] \in Seq(PARBSTraffic)
    BY GeneralBuffer DEF parbs!TypeOK
  <2>3. /\ Len(requestBuffer[0]) \in Nat /\ places # {}
        /\ places \subseteq 0 .. Len(requestBuffer[0])
    <3>1. places = 1 .. Len(requestBuffer[0]) /\ Len(requestBuffer[0]) \in Nat
      BY <2>2
    <3>2. Len(requestBuffer[0]) # 0
      BY <1>2, <2>2
    <3> HIDE DEF places
    <3>3. 1 \in places
      BY <3>1, <3>2
    <3> QED
      BY <3>1, <3>3
  <2>4. parbs!ScheduleRequest(0, k, FALSE)
    BY <1>2, Zenon DEF parbs!requestSchedule
  <2> HIDE DEF better, k, places
  <2>5. k \in places
    BY <2>1, <2>3, Constants, parbs!HeldIsMember, Zenon
  <2> QED
    BY <2>4, <2>5, GeneralBuffer, Zenon DEF parbs!Next, places
<1>3. CASE parbs!NothingToSchedule
  BY <1>3 DEF parbs!NothingToSchedule, parbs!Next
<1> QED
  BY <1>1, <1>2, <1>3, PARBSIssue DEF parbs!PARBSNext, parbs!buffer

-----------------------------------------------------------------------------
(* The state of the chosen controller keeps its shape.                     *)
TypesOK ==
    /\ system = "FRFCFS" => frfcfs!TypeOK
    /\ system = "FCFS" => fcfs!TypeOK
    /\ system = "FRFCFS_Batch" => batching!TypeOK
    /\ system = "BLISS" => bliss!TypeOK
    /\ system = "PAR-BS" => parbs!TypeOK

(* The chosen controller starts as MemoryController does.                  *)
LEMMA TypesInit == SystemsInit => TypesOK
<1> SUFFICES ASSUME SystemsInit PROVE TypesOK
  OBVIOUS
<1>1. CASE system = "FRFCFS" /\ frfcfs!FRInit
  <2>1. frfcfs!TypeOK
    BY <1>1, Constants, frfcfs!InitType DEF frfcfs!FRInit
  <2> QED
    BY <1>1, <2>1 DEF TypesOK
<1>2. CASE system = "FCFS" /\ fcfs!FCFSInit
  <2>1. fcfs!TypeOK
    BY <1>2, Constants, fcfs!InitType DEF fcfs!FCFSInit
  <2> QED
    BY <1>2, <2>1 DEF TypesOK
<1>3. CASE system = "FRFCFS_Batch" /\ batching!BatchInit
  <2>1. batching!TypeOK
    BY <1>3, Constants, batching!InitType DEF batching!BatchInit
  <2> QED
    BY <1>3, <2>1 DEF TypesOK
<1>4. CASE system = "BLISS" /\ bliss!BLISSInit
  <2>1. bliss!TypeOK
    BY <1>4, Constants, bliss!InitType DEF bliss!BLISSInit
  <2> QED
    BY <1>4, <2>1 DEF TypesOK
<1>5. CASE system = "PAR-BS" /\ parbs!PARBSInit
  <2>1. parbs!TypeOK
    BY <1>5, Constants, parbs!InitType DEF parbs!PARBSInit
  <2> QED
    BY <1>5, <2>1 DEF TypesOK
<1> QED
  BY <1>1, <1>2, <1>3, <1>4, <1>5 DEF SystemsInit

(* A step of the chosen controller is a step of MemoryController.          *)
LEMMA SystemsStep ==
    ASSUME TypesOK, SystemsNext
    PROVE  /\ system' = system
           /\ \/ system = "FRFCFS" /\ frfcfs!Next
              \/ system = "FCFS" /\ fcfs!Next
              \/ system = "FRFCFS_Batch" /\ batching!Next
              \/ system = "BLISS" /\ bliss!Next
              \/ system = "PAR-BS" /\ parbs!Next
<1>1. CASE system = "FRFCFS" /\ frfcfs!FRNext
  BY <1>1, FRFCFSStep DEF TypesOK, SystemsNext
<1>2. CASE system = "FCFS" /\ fcfs!FCFSNext
  BY <1>2, FCFSStep DEF TypesOK, SystemsNext
<1>3. CASE system = "FRFCFS_Batch" /\ batching!BatchNext
  BY <1>3, BatchStep DEF TypesOK, SystemsNext
<1>4. CASE system = "BLISS" /\ bliss!BLISSNext
  BY <1>4, BLISSStep DEF TypesOK, SystemsNext
<1>5. CASE system = "PAR-BS" /\ parbs!PARBSNext
  BY <1>5, PARBSStep DEF TypesOK, SystemsNext
<1> QED
  BY <1>1, <1>2, <1>3, <1>4, <1>5 DEF SystemsNext

(* So the state keeps its shape.                                           *)
LEMMA TypesStep == TypesOK /\ [SystemsNext]_systemVars => TypesOK'
<1> SUFFICES ASSUME TypesOK, [SystemsNext]_systemVars PROVE TypesOK'
  OBVIOUS
<1>1. ASSUME system' = system, system = "FRFCFS", [frfcfs!Next]_(frfcfs!vars)
      PROVE  TypesOK'
  <2>1. frfcfs!TypeOK'
    BY <1>1, Constants, frfcfs!StepType DEF TypesOK
  <2> QED
    BY <1>1, <2>1 DEF TypesOK
<1>2. ASSUME system' = system, system = "FCFS", [fcfs!Next]_(fcfs!vars)
      PROVE  TypesOK'
  <2>1. fcfs!TypeOK'
    BY <1>2, Constants, fcfs!StepType DEF TypesOK
  <2> QED
    BY <1>2, <2>1 DEF TypesOK
<1>3. ASSUME system' = system, system = "FRFCFS_Batch", [batching!Next]_(batching!vars)
      PROVE  TypesOK'
  <2>1. batching!TypeOK'
    BY <1>3, Constants, batching!StepType DEF TypesOK
  <2> QED
    BY <1>3, <2>1 DEF TypesOK
<1>4. ASSUME system' = system, system = "BLISS", [bliss!Next]_(bliss!vars)
      PROVE  TypesOK'
  <2>1. bliss!TypeOK'
    BY <1>4, Constants, bliss!StepType DEF TypesOK
  <2> QED
    BY <1>4, <2>1 DEF TypesOK
<1>5. ASSUME system' = system, system = "PAR-BS", [parbs!Next]_(parbs!vars)
      PROVE  TypesOK'
  <2>1. parbs!TypeOK'
    BY <1>5, Constants, parbs!StepType DEF TypesOK
  <2> QED
    BY <1>5, <2>1 DEF TypesOK
<1>6. CASE SystemsNext
  BY <1>1, <1>2, <1>3, <1>4, <1>5, <1>6, SystemsStep
<1>7. CASE UNCHANGED systemVars
  <2>1. UNCHANGED system /\ UNCHANGED controller
    BY <1>7 DEF systemVars
  <2>2. UNCHANGED frfcfs!vars
    BY <2>1 DEF controller, frfcfs!vars, frfcfs!coreVars, frfcfs!requestVars, frfcfs!pendingVars,
                frfcfs!commandVars, frfcfs!dataVars, frfcfs!deviceVars
  <2>3. UNCHANGED fcfs!vars
    BY <2>1 DEF controller, fcfs!vars, fcfs!coreVars, fcfs!requestVars, fcfs!pendingVars,
                fcfs!commandVars, fcfs!dataVars, fcfs!deviceVars
  <2>4. UNCHANGED batching!vars
    BY <2>1 DEF controller, batching!vars, batching!coreVars, batching!requestVars, batching!pendingVars,
                batching!commandVars, batching!dataVars, batching!deviceVars
  <2>5. UNCHANGED bliss!vars
    BY <2>1 DEF controller, bliss!vars, bliss!coreVars, bliss!requestVars, bliss!pendingVars,
                bliss!commandVars, bliss!dataVars, bliss!deviceVars
  <2>6. UNCHANGED parbs!vars
    BY <2>1 DEF controller, parbs!vars, parbs!coreVars, parbs!requestVars, parbs!pendingVars,
                parbs!commandVars, parbs!dataVars, parbs!deviceVars
  <2>7. CASE system \in {"FRFCFS", "FCFS", "FRFCFS_Batch", "BLISS", "PAR-BS"}
    BY <1>1, <1>2, <1>3, <1>4, <1>5, <2>1, <2>2, <2>3, <2>4, <2>5, <2>6, <2>7
  <2>8. CASE system \notin {"FRFCFS", "FCFS", "FRFCFS_Batch", "BLISS", "PAR-BS"}
    BY <2>1, <2>8 DEF TypesOK
  <2> QED
    BY <2>7, <2>8
<1> QED
  BY <1>6, <1>7

(* Every scheduler of these controllers makes a choice that the any-policy *)
(* controller allows: it takes requests that are in the buffers and issues *)
(* heads of command queues that are ready, whatever its policy.            *)
THEOREM Implements == SystemsSpec => ImplementsController
<1> DEFINE Step ==
        /\ system = "FRFCFS" => [frfcfs!Next]_controller
        /\ system = "FCFS" => [fcfs!Next]_controller
        /\ system = "FRFCFS_Batch" => [batching!Next]_controller
        /\ system = "BLISS" => [bliss!Next]_controller
        /\ system = "PAR-BS" => [parbs!Next]_controller
<1>1. TypesOK /\ [SystemsNext]_systemVars => [Step]_systemVars
  BY SystemsStep
<1>2. [][Step]_systemVars => ImplementsController
  BY PTL DEF ImplementsController
<1> HIDE DEF Step
<1> QED
  BY <1>1, <1>2, TypesInit, TypesStep, PTL DEF SystemsSpec

(* Each of these controllers, once chosen, behaves as MemoryController.    *)
LEMMA EachImplements ==
    /\ SystemsSpec /\ system = "FRFCFS" => frfcfs!Spec
    /\ SystemsSpec /\ system = "FCFS" => fcfs!Spec
    /\ SystemsSpec /\ system = "FRFCFS_Batch" => batching!Spec
    /\ SystemsSpec /\ system = "BLISS" => bliss!Spec
    /\ SystemsSpec /\ system = "PAR-BS" => parbs!Spec
<1>1. SystemsSpec /\ system = "FRFCFS" => frfcfs!Spec
  <2> DEFINE here == system = "FRFCFS"
  <2>1. SystemsInit /\ here => frfcfs!Init
    BY DEF SystemsInit, frfcfs!FRInit
  <2>2. TypesOK /\ here /\ [SystemsNext]_systemVars => here' /\ [frfcfs!Next]_(frfcfs!vars)
    <3> SUFFICES ASSUME TypesOK, here, [SystemsNext]_systemVars
                 PROVE  here' /\ [frfcfs!Next]_(frfcfs!vars)
      OBVIOUS
    <3>1. CASE SystemsNext
      BY <3>1, SystemsStep
    <3>2. CASE UNCHANGED systemVars
      BY <3>2 DEF systemVars, controller, frfcfs!vars, frfcfs!coreVars,
                  frfcfs!requestVars, frfcfs!pendingVars, frfcfs!commandVars,
                  frfcfs!dataVars, frfcfs!deviceVars
    <3> QED
      BY <3>1, <3>2
  <2> HIDE DEF here
  <2>3. SystemsSpec /\ here => frfcfs!Spec
    BY <2>1, <2>2, TypesInit, TypesStep, PTL DEF SystemsSpec, frfcfs!Spec
  <2> QED
    BY <2>3 DEF here
<1>2. SystemsSpec /\ system = "FCFS" => fcfs!Spec
  <2> DEFINE here == system = "FCFS"
  <2>1. SystemsInit /\ here => fcfs!Init
    BY DEF SystemsInit, fcfs!FCFSInit
  <2>2. TypesOK /\ here /\ [SystemsNext]_systemVars => here' /\ [fcfs!Next]_(fcfs!vars)
    <3> SUFFICES ASSUME TypesOK, here, [SystemsNext]_systemVars
                 PROVE  here' /\ [fcfs!Next]_(fcfs!vars)
      OBVIOUS
    <3>1. CASE SystemsNext
      BY <3>1, SystemsStep
    <3>2. CASE UNCHANGED systemVars
      BY <3>2 DEF systemVars, controller, fcfs!vars, fcfs!coreVars,
                  fcfs!requestVars, fcfs!pendingVars, fcfs!commandVars,
                  fcfs!dataVars, fcfs!deviceVars
    <3> QED
      BY <3>1, <3>2
  <2> HIDE DEF here
  <2>3. SystemsSpec /\ here => fcfs!Spec
    BY <2>1, <2>2, TypesInit, TypesStep, PTL DEF SystemsSpec, fcfs!Spec
  <2> QED
    BY <2>3 DEF here
<1>3. SystemsSpec /\ system = "FRFCFS_Batch" => batching!Spec
  <2> DEFINE here == system = "FRFCFS_Batch"
  <2>1. SystemsInit /\ here => batching!Init
    BY DEF SystemsInit, batching!BatchInit
  <2>2. TypesOK /\ here /\ [SystemsNext]_systemVars => here' /\ [batching!Next]_(batching!vars)
    <3> SUFFICES ASSUME TypesOK, here, [SystemsNext]_systemVars
                 PROVE  here' /\ [batching!Next]_(batching!vars)
      OBVIOUS
    <3>1. CASE SystemsNext
      BY <3>1, SystemsStep
    <3>2. CASE UNCHANGED systemVars
      BY <3>2 DEF systemVars, controller, batching!vars, batching!coreVars,
                  batching!requestVars, batching!pendingVars, batching!commandVars,
                  batching!dataVars, batching!deviceVars
    <3> QED
      BY <3>1, <3>2
  <2> HIDE DEF here
  <2>3. SystemsSpec /\ here => batching!Spec
    BY <2>1, <2>2, TypesInit, TypesStep, PTL DEF SystemsSpec, batching!Spec
  <2> QED
    BY <2>3 DEF here
<1>4. SystemsSpec /\ system = "BLISS" => bliss!Spec
  <2> DEFINE here == system = "BLISS"
  <2>1. SystemsInit /\ here => bliss!Init
    BY DEF SystemsInit, bliss!BLISSInit
  <2>2. TypesOK /\ here /\ [SystemsNext]_systemVars => here' /\ [bliss!Next]_(bliss!vars)
    <3> SUFFICES ASSUME TypesOK, here, [SystemsNext]_systemVars
                 PROVE  here' /\ [bliss!Next]_(bliss!vars)
      OBVIOUS
    <3>1. CASE SystemsNext
      BY <3>1, SystemsStep
    <3>2. CASE UNCHANGED systemVars
      BY <3>2 DEF systemVars, controller, bliss!vars, bliss!coreVars,
                  bliss!requestVars, bliss!pendingVars, bliss!commandVars,
                  bliss!dataVars, bliss!deviceVars
    <3> QED
      BY <3>1, <3>2
  <2> HIDE DEF here
  <2>3. SystemsSpec /\ here => bliss!Spec
    BY <2>1, <2>2, TypesInit, TypesStep, PTL DEF SystemsSpec, bliss!Spec
  <2> QED
    BY <2>3 DEF here
<1>5. SystemsSpec /\ system = "PAR-BS" => parbs!Spec
  <2> DEFINE here == system = "PAR-BS"
  <2>1. SystemsInit /\ here => parbs!Init
    BY DEF SystemsInit, parbs!PARBSInit
  <2>2. TypesOK /\ here /\ [SystemsNext]_systemVars => here' /\ [parbs!Next]_(parbs!vars)
    <3> SUFFICES ASSUME TypesOK, here, [SystemsNext]_systemVars
                 PROVE  here' /\ [parbs!Next]_(parbs!vars)
      OBVIOUS
    <3>1. CASE SystemsNext
      BY <3>1, SystemsStep
    <3>2. CASE UNCHANGED systemVars
      BY <3>2 DEF systemVars, controller, parbs!vars, parbs!coreVars,
                  parbs!requestVars, parbs!pendingVars, parbs!commandVars,
                  parbs!dataVars, parbs!deviceVars
    <3> QED
      BY <3>1, <3>2
  <2> HIDE DEF here
  <2>3. SystemsSpec /\ here => parbs!Spec
    BY <2>1, <2>2, TypesInit, TypesStep, PTL DEF SystemsSpec, parbs!Spec
  <2> QED
    BY <2>3 DEF here
<1> QED
  BY <1>1, <1>2, <1>3, <1>4, <1>5

(* So in each of them only rows that are open are accessed, the timing of  *)
(* the banks is respected, the requestors' books agree with the            *)
(* controller's and no beat of a request is lost or served twice.          *)
THEOREM ControllersCorrect ==
    /\ SystemsSpec /\ system = "FRFCFS" =>
           frfcfs!RowLegal /\ frfcfs!BankTimingMet /\ [](frfcfs!CoreMatches) /\ [](frfcfs!BeatsConserved)
    /\ SystemsSpec /\ system = "FCFS" =>
           fcfs!RowLegal /\ fcfs!BankTimingMet /\ [](fcfs!CoreMatches) /\ [](fcfs!BeatsConserved)
    /\ SystemsSpec /\ system = "FRFCFS_Batch" =>
           batching!RowLegal /\ batching!BankTimingMet /\ [](batching!CoreMatches) /\ [](batching!BeatsConserved)
    /\ SystemsSpec /\ system = "BLISS" =>
           bliss!RowLegal /\ bliss!BankTimingMet /\ [](bliss!CoreMatches) /\ [](bliss!BeatsConserved)
    /\ SystemsSpec /\ system = "PAR-BS" =>
           parbs!RowLegal /\ parbs!BankTimingMet /\ [](parbs!CoreMatches) /\ [](parbs!BeatsConserved)
<1>1. frfcfs!Spec =>
          frfcfs!RowLegal /\ frfcfs!BankTimingMet /\ [](frfcfs!CoreMatches) /\ [](frfcfs!BeatsConserved)
  <2>1. frfcfs!SpreadFits
    BY DEF frfcfs!SpreadFits
  <2>2. frfcfs!Spec => frfcfs!RowLegal
    BY Constants, frfcfs!RowsCorrect
  <2>3. frfcfs!Spec => frfcfs!BankTimingMet
    BY Constants, frfcfs!BankTimingCorrect
  <2>4. frfcfs!Spec => [](frfcfs!CoreMatches)
    BY Constants, frfcfs!CoreCorrect
  <2>5. frfcfs!Spec => [](frfcfs!BeatsConserved)
    BY <2>1, Constants, frfcfs!BeatsCorrect
  <2> QED
    BY <2>2, <2>3, <2>4, <2>5
<1>2. fcfs!Spec =>
          fcfs!RowLegal /\ fcfs!BankTimingMet /\ [](fcfs!CoreMatches) /\ [](fcfs!BeatsConserved)
  <2>1. fcfs!SpreadFits
    BY DEF fcfs!SpreadFits
  <2>2. fcfs!Spec => fcfs!RowLegal
    BY Constants, fcfs!RowsCorrect
  <2>3. fcfs!Spec => fcfs!BankTimingMet
    BY Constants, fcfs!BankTimingCorrect
  <2>4. fcfs!Spec => [](fcfs!CoreMatches)
    BY Constants, fcfs!CoreCorrect
  <2>5. fcfs!Spec => [](fcfs!BeatsConserved)
    BY <2>1, Constants, fcfs!BeatsCorrect
  <2> QED
    BY <2>2, <2>3, <2>4, <2>5
<1>3. batching!Spec =>
          batching!RowLegal /\ batching!BankTimingMet /\ [](batching!CoreMatches) /\ [](batching!BeatsConserved)
  <2>1. batching!SpreadFits
    BY DEF batching!SpreadFits
  <2>2. batching!Spec => batching!RowLegal
    BY Constants, batching!RowsCorrect
  <2>3. batching!Spec => batching!BankTimingMet
    BY Constants, batching!BankTimingCorrect
  <2>4. batching!Spec => [](batching!CoreMatches)
    BY Constants, batching!CoreCorrect
  <2>5. batching!Spec => [](batching!BeatsConserved)
    BY <2>1, Constants, batching!BeatsCorrect
  <2> QED
    BY <2>2, <2>3, <2>4, <2>5
<1>4. bliss!Spec =>
          bliss!RowLegal /\ bliss!BankTimingMet /\ [](bliss!CoreMatches) /\ [](bliss!BeatsConserved)
  <2>1. bliss!SpreadFits
    BY DEF bliss!SpreadFits
  <2>2. bliss!Spec => bliss!RowLegal
    BY Constants, bliss!RowsCorrect
  <2>3. bliss!Spec => bliss!BankTimingMet
    BY Constants, bliss!BankTimingCorrect
  <2>4. bliss!Spec => [](bliss!CoreMatches)
    BY Constants, bliss!CoreCorrect
  <2>5. bliss!Spec => [](bliss!BeatsConserved)
    BY <2>1, Constants, bliss!BeatsCorrect
  <2> QED
    BY <2>2, <2>3, <2>4, <2>5
<1>5. parbs!Spec =>
          parbs!RowLegal /\ parbs!BankTimingMet /\ [](parbs!CoreMatches) /\ [](parbs!BeatsConserved)
  <2>1. parbs!SpreadFits
    BY DEF parbs!SpreadFits
  <2>2. parbs!Spec => parbs!RowLegal
    BY Constants, parbs!RowsCorrect
  <2>3. parbs!Spec => parbs!BankTimingMet
    BY Constants, parbs!BankTimingCorrect
  <2>4. parbs!Spec => [](parbs!CoreMatches)
    BY Constants, parbs!CoreCorrect
  <2>5. parbs!Spec => [](parbs!BeatsConserved)
    BY <2>1, Constants, parbs!BeatsCorrect
  <2> QED
    BY <2>2, <2>3, <2>4, <2>5
<1> QED
  BY <1>1, <1>2, <1>3, <1>4, <1>5, EachImplements

-----------------------------------------------------------------------------
(* Write batching.  The requestors wait only while the writes are drained. *)
DrainInv ==
    /\ sw \in BOOLEAN /\ writeMode \in BOOLEAN
    /\ writeMode => sw

(* What a step of the controller with write batching does to the drain and *)
(* to the two buffers.                                                     *)
LEMMA DrainStep ==
    ASSUME batching!TypeOK, DrainInv, batching!BatchNext
    PROVE  DrainInv' /\ batching!DrainIsABatch
<1> DEFINE w == NumInOrder
<1>0. /\ w = batching!writeBuffer /\ w # 0
      /\ batching!writes = requestBuffer[w]
      /\ requestBuffer \in [batching!Buffers -> Seq(BatchTraffic)]
      /\ 0 \in batching!Buffers /\ w \in batching!Buffers
  BY Constants, GeneralBuffer
     DEF batching!ControllerAssumption, batching!writes, batching!writeBuffer,
         batching!TypeOK
<1>a. Len(requestBuffer[w]) \in Nat
  BY <1>0
<1>1. CASE UNCHANGED <<requestBuffer, sw, writeMode>>
  BY <1>0, <1>1, <1>a DEF DrainInv, batching!DrainIsABatch
<1>2. ASSUME NEW q \in BatchTraffic, batching!BatchSend(q)
      PROVE  DrainInv' /\ batching!DrainIsABatch
  BY <1>2 DEF batching!BatchSend, DrainInv, batching!DrainIsABatch
<1>3. ASSUME requestBuffer[w] # <<>>,
             batching!ScheduleRequest(batching!writeBuffer, 1, FALSE)
      PROVE  /\ requestBuffer'[0] = requestBuffer[0]
             /\ Len(requestBuffer'[w]) <= Len(requestBuffer[w])
  <2>1. requestBuffer' = [requestBuffer EXCEPT ![w] =
                              batching!RemoveAt(requestBuffer[w], 1)]
    BY <1>0, <1>3 DEF batching!ScheduleRequest, batching!TakeRequest
  <2>2. requestBuffer[w] \in Seq(BatchTraffic) /\ 1 \in 1..Len(requestBuffer[w])
    BY <1>0, <1>3
  <2>3. Len(batching!RemoveAt(requestBuffer[w], 1)) = Len(requestBuffer[w]) - 1
    BY <2>2, Constants, batching!RemoveAtAt, Zenon
  <2> QED
    BY <1>0, <1>a, <2>1, <2>3
<1>4. CASE batching!DrainWrite
  <2>1. Len(requestBuffer[w]) # 0
    BY <1>0, <1>a, <1>4, SystemsAssumption
       DEF batching!DrainWrite, batching!Draining, batching!highWatermark,
           batching!lowWatermark, batching!BatchingAssumption
  <2>2. /\ requestBuffer'[0] = requestBuffer[0]
        /\ Len(requestBuffer'[w]) <= Len(requestBuffer[w])
    BY <1>0, <1>3, <1>4, <2>1 DEF batching!DrainWrite
  <2>3. DrainInv'
    BY <1>4 DEF batching!DrainWrite, batching!highWatermark, DrainInv
  <2> QED
    BY <1>0, <2>2, <2>3 DEF batching!DrainIsABatch
<1>5. ASSUME ~batching!Draining, batching!DrainEnds
      PROVE  /\ DrainInv'
             /\ writeMode => batching!lowWatermark /\ ~writeMode'
  BY <1>5, Zenon DEF batching!Draining, batching!DrainEnds, DrainInv
<1>6. CASE batching!ScheduleRead
  <2>1. DrainInv' /\ (writeMode => batching!lowWatermark /\ ~writeMode')
    BY <1>5, <1>6 DEF batching!ScheduleRead
  <2>2. requestBuffer'[w] = requestBuffer[w]
    BY <1>0, <1>6 DEF batching!ScheduleRead, batching!ScheduleRequest,
                      batching!TakeRequest
  <2> QED
    BY <1>0, <1>a, <2>1, <2>2 DEF batching!DrainIsABatch
<1>7. CASE batching!IdleWrite
  <2>1. DrainInv'
    BY <1>5, <1>7 DEF batching!IdleWrite, batching!NoReads
  <2>2. /\ requestBuffer'[0] = requestBuffer[0]
        /\ Len(requestBuffer'[w]) <= Len(requestBuffer[w])
    BY <1>0, <1>3, <1>7 DEF batching!IdleWrite
  <2> QED
    BY <1>0, <2>1, <2>2 DEF batching!DrainIsABatch
<1>8. CASE batching!NothingToSchedule
  <2>1. DrainInv' /\ requestBuffer' = requestBuffer
    BY <1>5, <1>8 DEF batching!NothingToSchedule, batching!NoReads,
                      batching!EndSchedule, batching!requestVars
  <2> QED
    BY <1>0, <1>a, <2>1 DEF batching!DrainIsABatch
<1>9. ASSUME \/ batching!Idle \/ batching!DeliverWrite \/ batching!NoWrite
             \/ batching!DeliverRead \/ batching!NoRead
             \/ \E b \in Banks : batching!FRIssue(b)
             \/ batching!FRIssueNone
      PROVE  requestBuffer' = requestBuffer
  BY <1>9, Zenon DEF batching!Idle, batching!DeliverWrite, batching!NoWrite,
              batching!DeliverRead, batching!NoRead, batching!FRIssue,
              batching!sendCommand, batching!FRIssueNone, batching!NoCommand,
              batching!requestVars
<1> QED
  BY <1>1, <1>2, <1>4, <1>6, <1>7, <1>8, <1>9 DEF batching!BatchNext

(* A drain, once the high watermark is passed, is one batch of writes: no  *)
(* read comes between them and no write is added, as the requestors wait   *)
(* exactly until the writes are below the low watermark.                   *)
THEOREM DrainsAreBatches == SystemsSpec => DrainIsABatch
<1> DEFINE I == system = "FRFCFS_Batch" => DrainInv
           A == system = "FRFCFS_Batch" => batching!DrainIsABatch
<1>1. SystemsInit => I
  BY Zenon DEF SystemsInit, batching!BatchInit, DrainInv
<1>2. ASSUME TypesOK, I, [SystemsNext]_systemVars
      PROVE  I' /\ [A]_systemVars
  <2>1. CASE UNCHANGED systemVars
    BY <1>2, <2>1 DEF systemVars, drain, DrainInv
  <2>2. CASE SystemsNext
    BY <1>2, <2>2, DrainStep DEF SystemsNext, TypesOK
  <2> QED
    BY <1>2, <2>1, <2>2
<1>3. TypesOK /\ I /\ [SystemsNext]_systemVars => I' /\ [A]_systemVars
  BY <1>2
<1>4. [][A]_systemVars => DrainIsABatch
  BY PTL DEF DrainIsABatch
<1> HIDE DEF I, A
<1> QED
  BY <1>1, <1>3, <1>4, TypesInit, TypesStep, PTL DEF SystemsSpec

-----------------------------------------------------------------------------
(* BLISS.  The streak that is counted is one of the last requests: as many *)
(* as it says, all of last_pid.  The history is long enough to hold it.    *)
StreakInv ==
    /\ served \in Seq(Nat)
    /\ counterstreak \in Nat /\ counterstreak <= threshold
    /\ counterstreak <= Len(served) /\ Len(served) <= threshold + 1
    /\ \A i \in 1 .. Len(served) :
           Len(served) - counterstreak < i => served[i] = last_pid

(* A request of r is scheduled.                                            *)
LEMMA StreakStep ==
    ASSUME StreakInv, NEW r \in Nat, NEW list, bliss!Streak(r, list),
           last_pid' = r,
           served' = Append(IF Len(served) > threshold THEN Tail(served)
                                                       ELSE served, r)
    PROVE  /\ StreakInv'
           /\ \A x \in blacklist' \ list :
                  Len(served') > threshold /\ bliss!AllFrom(served', x)
<1> DEFINE old == IF Len(served) > threshold THEN Tail(served) ELSE served
           cut == IF Len(served) > threshold THEN 1 ELSE 0
           c == counterstreak
<1>0. threshold \in Nat \ {0}
  BY SystemsAssumption DEF bliss!BLISSAssumption
<1>1. /\ served \in Seq(Nat) /\ Len(served) \in Nat /\ c \in Nat
      /\ c <= threshold /\ c <= Len(served) /\ Len(served) <= threshold + 1
  BY DEF StreakInv
<1>2. /\ old \in Seq(Nat) /\ Len(old) = Len(served) - cut
      /\ \A i \in 1 .. Len(old) : old[i] = served[i + cut]
  <2>1. CASE Len(served) > threshold
    <3>1. served # <<>>
      BY <1>0, <1>1, <2>1
    <3> QED
      BY <1>1, <2>1, <3>1
  <2>2. CASE ~(Len(served) > threshold)
    BY <1>1, <2>2
  <2> QED
    BY <2>1, <2>2
<1>3. cut \in {0, 1} /\ Len(old) <= threshold /\ c <= Len(old) /\ Len(old) \in Nat
  BY <1>0, <1>1, <1>2
<1> HIDE DEF old, cut
<1>4. \A i \in 1 .. Len(old) : Len(old) - c < i => old[i] = last_pid
  <2> SUFFICES ASSUME NEW i \in 1 .. Len(old), Len(old) - c < i
               PROVE  old[i] = last_pid
    OBVIOUS
  <2>1. i + cut \in 1 .. Len(served) /\ Len(served) - c < i + cut
    BY <1>1, <1>2, <1>3
  <2> QED
    BY <1>2, <2>1 DEF StreakInv
<1>5. /\ served' \in Seq(Nat) /\ Len(served') = Len(old) + 1
      /\ \A i \in 1 .. Len(old) : served'[i] = old[i]
      /\ served'[Len(old) + 1] = r
  <2>1. served' = Append(old, r)
    BY DEF old
  <2>2. old \in Seq(Nat)
    BY <1>2
  <2>3. /\ Append(old, r) \in Seq(Nat) /\ Len(Append(old, r)) = Len(old) + 1
        /\ \A i \in 1 .. Len(old) : Append(old, r)[i] = old[i]
        /\ Append(old, r)[Len(old) + 1] = r
    BY <2>2
  <2> QED
    BY <2>1, <2>3, Zenon
<1>6. ASSUME r = last_pid
      PROVE  \A i \in 1 .. Len(old) + 1 : Len(old) - c < i => served'[i] = r
  BY <1>3, <1>4, <1>5, <1>6
<1>7. CASE r = last_pid /\ c < threshold
  <2>1. counterstreak' = c + 1 /\ blacklist' = list
    BY <1>7 DEF bliss!Streak
  <2>2. \A i \in 1 .. Len(old) + 1 : (Len(old) + 1) - (c + 1) < i => Len(old) - c < i
    BY <1>1, <1>3
  <2> QED
    BY <1>0, <1>1, <1>3, <1>5, <1>6, <1>7, <2>1, <2>2 DEF StreakInv
<1>8. CASE ~(r = last_pid /\ c < threshold)
  <2>1. counterstreak' = 1
    BY <1>8 DEF bliss!Streak
  <2>2. StreakInv'
    BY <1>0, <1>3, <1>5, <2>1 DEF StreakInv
  <2>3. CASE r = last_pid /\ c = threshold
    <3>1. blacklist' = list \cup {r}
      BY <1>0, <1>1, <1>8, <2>3 DEF bliss!Streak
    <3>2. Len(old) = threshold
      BY <1>0, <1>1, <1>3, <2>3
    <3>3. \A i \in 1 .. Len(served') : served'[i] = r
      BY <1>0, <1>5, <1>6, <2>3, <3>2
    <3>4. Len(served') > threshold /\ bliss!AllFrom(served', r)
      BY <1>0, <1>5, <3>2, <3>3 DEF bliss!AllFrom
    <3> QED
      BY <2>2, <3>1, <3>4
  <2>4. CASE ~(r = last_pid /\ c = threshold)
    <3>1. blacklist' = list
      BY <1>8, <2>4 DEF bliss!Streak
    <3> QED
      BY <2>2, <3>1
  <2> QED
    BY <2>3, <2>4
<1> QED
  BY <1>7, <1>8

LEMMA ListingStep ==
    ASSUME bliss!TypeOK, StreakInv, bliss!BLISSNext
    PROVE  StreakInv' /\ bliss!ListingIsEarned
<1>1. CASE UNCHANGED <<served, counterstreak, last_pid>> /\ blacklist' \subseteq blacklist
  BY <1>1 DEF StreakInv, bliss!ListingIsEarned
<1>2. ASSUME requestBuffer[0] # <<>>, NEW h1 \in BOOLEAN, NEW h2 \in BOOLEAN,
             bliss!requestSchedule(bliss!scheduleBLISS(bliss!Listed, h1, h2))
      PROVE  StreakInv' /\ bliss!ListingIsEarned
  <2> DEFINE k == bliss!scheduleBLISS(bliss!Listed, h1, h2)
             r == requestBuffer[0][k].requestorID
  <2>1. k \in DOMAIN requestBuffer[0]
    BY <1>2, BLISSChoice
  <2>2. /\ bliss!Streak(r, bliss!Listed) /\ last_pid' = r
        /\ served' = Append(IF Len(served) > threshold THEN Tail(served)
                                                        ELSE served, r)
    BY <1>2 DEF bliss!requestSchedule
  <2> HIDE DEF k
  <2>3. r \in Nat
    <3>1. requestBuffer[0] \in Seq(BLISSTraffic)
      BY GeneralBuffer DEF bliss!TypeOK
    <3>2. requestBuffer[0][k] \in BLISSTraffic
      BY <2>1, <3>1
    <3>3. r \in bliss!Requestors
      BY <3>2, Constants DEF bliss!ControllerAssumption
    <3> QED
      BY <3>3, Constants DEF bliss!Requestors, bliss!ControllerAssumption
  <2> HIDE DEF r
  <2>4. /\ StreakInv'
        /\ \A x \in blacklist' \ bliss!Listed :
               Len(served') > threshold /\ bliss!AllFrom(served', x)
    BY <2>2, <2>3, StreakStep
  <2>5. bliss!Listed \subseteq blacklist
    BY DEF bliss!Listed
  <2> QED
    BY <2>4, <2>5 DEF bliss!ListingIsEarned
<1>3. CASE bliss!NothingToSchedule
  BY <1>1, <1>3 DEF bliss!NothingToSchedule, bliss!Listed
<1>4. CASE UNCHANGED bliss!blissOnly
  BY <1>1, <1>4 DEF bliss!blissOnly
<1> QED
  BY <1>2, <1>3, <1>4 DEF bliss!BLISSNext

(* Whoever BLISS puts on the blacklist did have more than threshold        *)
(* requests scheduled in a row, although the streak is counted only by     *)
(* comparing with the requestor before, and clearing does not reset it.    *)
THEOREM ListingsAreEarned == SystemsSpec => ListingIsEarned
<1> DEFINE I == system = "BLISS" => StreakInv
           A == system = "BLISS" => bliss!ListingIsEarned
<1>1. SystemsInit => I
  BY SystemsAssumption DEF SystemsInit, bliss!BLISSInit, StreakInv, bliss!BLISSAssumption
<1>2. ASSUME TypesOK, I, [SystemsNext]_systemVars
      PROVE  I' /\ [A]_systemVars
  <2>1. CASE UNCHANGED systemVars
    BY <1>2, <2>1 DEF systemVars, blacklisting, StreakInv
  <2>2. CASE SystemsNext
    BY <1>2, <2>2, ListingStep DEF SystemsNext, TypesOK
  <2> QED
    BY <1>2, <2>1, <2>2
<1>3. TypesOK /\ I /\ [SystemsNext]_systemVars => I' /\ [A]_systemVars
  BY <1>2
<1>4. [][A]_systemVars => ListingIsEarned
  BY PTL DEF ListingIsEarned
<1> HIDE DEF I, A
<1> QED
  BY <1>1, <1>3, <1>4, TypesInit, TypesStep, PTL DEF SystemsSpec

-----------------------------------------------------------------------------
(* FCFS.  Every queued command has an arrival time.                        *)
ArrivalsOK == fcfs!Timed(arriveTime, commandQueue) /\ now \in Nat

(* The times are renumbered, and remain numbers.                           *)
LEMMA RenumberIs ==
    ASSUME NEW times, fcfs!Renumber(times)
    PROVE  /\ arriveTime' = fcfs!Ranked(times)
           /\ now' = fcfs!Cardinality(fcfs!TimesOf(times))
  BY DEF fcfs!Renumber, fcfs!Ranked, fcfs!TimesOf

(* So every queued command keeps one.                                      *)
LEMMA ArrivalsStep ==
    ASSUME fcfs!TypeOK, ArrivalsOK, fcfs!FCFSNext
    PROVE  ArrivalsOK'
<1>1. CASE UNCHANGED <<arriveTime, now, commandQueue>>
  BY <1>1 DEF ArrivalsOK, fcfs!Timed
<1>2. CASE fcfs!fcfsSchedule
  <2>1. /\ requestBuffer[0] # <<>> /\ fcfs!ScheduleRequest(0, 1, FALSE)
        /\ now' = now
        /\ arriveTime' = fcfs!TimesAfter(arriveTime, now, commandQueue, commandQueue')
    BY <1>2 DEF fcfs!fcfsSchedule, fcfs!Arrive, fcfs!TimesAfter
  <2>2. 0 \in fcfs!Buffers
    BY GeneralBuffer
  <2>3. 1 \in DOMAIN requestBuffer[0]
    BY <2>1, <2>2, Constants, fcfs!FirstRequest
  <2>4. FALSE \in BOOLEAN
    OBVIOUS
  <2>5. fcfs!Timed(fcfs!TimesAfter(arriveTime, now, commandQueue, commandQueue'),
                   commandQueue')
    BY <2>1, <2>2, <2>3, <2>4, Constants, fcfs!TimedArrivals, Zenon DEF ArrivalsOK
  <2> QED
    BY <2>1, <2>5 DEF ArrivalsOK
<1>3. ASSUME NEW b \in Banks, fcfs!FRIssue(b) PROVE ArrivalsOK'
  <2>1. /\ fcfs!sendCommand(b)
        /\ fcfs!Renumber([arriveTime EXCEPT ![b] = Tail(@)])
    BY <1>3 DEF fcfs!FRIssue, fcfs!Leave
  <2>2. /\ fcfs!Timed(fcfs!Ranked([arriveTime EXCEPT ![b] = Tail(@)]),
                      commandQueue')
        /\ fcfs!Cardinality(fcfs!TimesOf([arriveTime EXCEPT ![b] = Tail(@)])) \in Nat
    BY <2>1, Constants, fcfs!TimedLeave, Zenon DEF ArrivalsOK
  <2>3. /\ arriveTime' = fcfs!Ranked([arriveTime EXCEPT ![b] = Tail(@)])
        /\ now' = fcfs!Cardinality(fcfs!TimesOf([arriveTime EXCEPT ![b] = Tail(@)]))
    BY <2>1, RenumberIs
  <2> QED
    BY <2>2, <2>3, Zenon DEF ArrivalsOK
<1>4. CASE fcfs!FRIssueNone
  <2>1. fcfs!Renumber(arriveTime) /\ commandQueue' = commandQueue
    BY <1>4 DEF fcfs!FRIssueNone, fcfs!Stay, fcfs!NoCommand, fcfs!commandVars
  <2> QED
    BY <2>1, RenumberIs, Constants, fcfs!TimedStay, Zenon DEF ArrivalsOK
<1>5. ASSUME \/ /\ \/ \E q \in FCFSTraffic : fcfs!SendRequest(q)
                   \/ fcfs!Idle \/ fcfs!DeliverWrite \/ fcfs!NoWrite
                   \/ fcfs!DeliverRead \/ fcfs!NoRead
                /\ UNCHANGED fcfs!arrivalVars
             \/ fcfs!fcfsNothing
      PROVE  UNCHANGED <<arriveTime, now, commandQueue>>
  BY <1>5, Zenon DEF fcfs!SendRequest, fcfs!Idle, fcfs!DeliverWrite, fcfs!NoWrite,
              fcfs!DeliverRead, fcfs!NoRead, fcfs!fcfsNothing, fcfs!EndSchedule,
              fcfs!commandVars, fcfs!arrivalVars
<1> QED
  BY <1>1, <1>2, <1>3, <1>4, <1>5 DEF fcfs!FCFSNext

(* What the scan holds: after each index no precharge if an activation was *)
(* met, and no CAS that was met and is not held is older than every other  *)
(* candidate.                                                              *)
LEMMA ScanPriority ==
    ASSUME fcfs!TypeOK, ArrivalsOK, fcfs!Candidates # {}
    PROVE  /\ fcfs!Held \in fcfs!Candidates
           /\ fcfs!KindOf(fcfs!Held) = "PRE" =>
                  \A x \in fcfs!Candidates : fcfs!KindOf(x) # "ACT"
           /\ \A x \in fcfs!Candidates :
                  fcfs!KindOf(x) \in {"RD", "WR"} /\ x # fcfs!Held =>
                      \E y \in fcfs!Candidates \ {x} :
                          fcfs!Arrived(y) <= fcfs!Arrived(x)
<1> DEFINE S == fcfs!Candidates
           K(x) == fcfs!KindOf(x)
           A(x) == fcfs!Arrived(x)
           better == {p \in S \X S : fcfs!GivesWay(p[1], p[2])}
<1>1. S \subseteq 0 .. 15
  BY Constants, Zenon DEF fcfs!ControllerAssumption, fcfs!Candidates
<1>2. \A x \in S : A(x) \in Nat
  <2> TAKE x \in S
  <2>1. x \in Banks /\ commandQueue[x] # <<>>
    BY DEF fcfs!Candidates
  <2>2. commandQueue[x] \in Seq(fcfs!Commands)
    BY <2>1, Zenon DEF fcfs!TypeOK, fcfs!Commands
  <2>3. arriveTime[x] \in Seq(Nat) /\ Len(arriveTime[x]) = Len(commandQueue[x])
    BY <2>1 DEF ArrivalsOK, fcfs!Timed
  <2>4. arriveTime[x] # <<>>
    BY <2>1, <2>2, <2>3
  <2>5. Head(arriveTime[x]) \in Nat
    BY <2>3, <2>4
  <2> QED
    BY <2>5 DEF fcfs!Arrived
<1>3. \A b, a \in S : <<b, a>> \in better <=>
          \/ K(b) \in {"RD", "WR"} /\ A(b) < A(a)
          \/ K(b) = "ACT" /\ K(a) = "ACT" /\ A(b) < A(a)
          \/ K(b) = "ACT" /\ K(a) = "PRE"
          \/ K(b) = "PRE" /\ K(a) = "PRE" /\ A(b) < A(a)
  BY DEF fcfs!GivesWay
<1>4. fcfs!Held = fcfs!LastHeld(S, better, 15)
  BY DEF fcfs!Held
<1> HIDE DEF S, K, A, better
<1>5. PICK f : fcfs!HeldAs(f, S, better, 15)
  <2>1. 15 \in Nat
    OBVIOUS
  <2> QED
    BY <2>1, Constants, fcfs!HeldSteps
<1>5a. /\ fcfs!LastHeld(S, better, 15) = f[15]
       /\ f[-1] = -1
       /\ \A i \in 0 .. 15 :
              f[i] = IF i \in S /\ (f[i - 1] = -1 \/ <<i, f[i - 1]>> \in better)
                         THEN i ELSE f[i - 1]
  BY <1>5 DEF fcfs!HeldAs
<1> DEFINE Good(i) ==
        /\ f[i] \in S \cup {-1}
        /\ f[i] = -1 => \A x \in S : ~(x <= i)
        /\ K(f[i]) = "PRE" /\ f[i] \in S =>
               \A x \in S : x <= i => K(x) # "ACT"
        /\ \A x \in S : x <= i /\ K(x) \in {"RD", "WR"} /\ x # f[i] =>
               \E y \in S \ {x} : A(y) <= A(x)
           Bad == {i \in 0 .. 15 : ~Good(i)}
<1>6. Good(-1)
  BY <1>1, <1>5a
<1>7. ASSUME NEW i \in 0 .. 15, Good(i - 1) PROVE Good(i)
  <2> DEFINE h == f[i - 1]
  <2>0. /\ \A x \in S : x \in Nat /\ (x <= i => x <= i - 1 \/ x = i)
        /\ -1 \notin S
    BY <1>1
  <2>1. f[i] = IF i \in S /\ (h = -1 \/ <<i, h>> \in better) THEN i ELSE h
    BY <1>5a
  <2>2. /\ h \in S \cup {-1}
        /\ h = -1 => \A x \in S : ~(x <= i - 1)
        /\ K(h) = "PRE" /\ h \in S => \A x \in S : x <= i - 1 => K(x) # "ACT"
        /\ \A x \in S : x <= i - 1 /\ K(x) \in {"RD", "WR"} /\ x # h =>
               \E y \in S \ {x} : A(y) <= A(x)
    BY <1>7
  <2> HIDE DEF h
  <2>3. CASE i \notin S
    BY <2>0, <2>1, <2>2, <2>3
  <2>4. CASE i \in S /\ h = -1
    BY <2>0, <2>1, <2>2, <2>4
  <2>5. CASE i \in S /\ h # -1 /\ <<i, h>> \in better
    <3>1. f[i] = i /\ h \in S
      BY <2>1, <2>2, <2>5
    <3>2. K(i) = "PRE" => K(h) = "PRE"
      BY <1>3, <2>5, <3>1
    <3>3. K(h) \in {"RD", "WR"} => A(i) <= A(h) /\ i # h
      BY <1>2, <1>3, <2>5, <3>1
    <3>4. ASSUME NEW x \in S, x <= i, K(x) \in {"RD", "WR"}, x # f[i]
          PROVE  \E y \in S \ {x} : A(y) <= A(x)
      <4>1. CASE x = h
        BY <2>5, <3>3, <3>4, <4>1
      <4>2. CASE x # h
        BY <2>0, <2>2, <3>1, <3>4, <4>2
      <4> QED
        BY <4>1, <4>2
    <3>5. K(i) = "PRE" => \A x \in S : x <= i => K(x) # "ACT"
      BY <2>0, <2>2, <3>1, <3>2
    <3>6. f[i] # -1
      BY <2>0, <3>1
    <3> QED
      BY <2>5, <3>1, <3>4, <3>5, <3>6
  <2>6. CASE i \in S /\ h # -1 /\ <<i, h>> \notin better
    <3>1. f[i] = h /\ h \in S
      BY <2>1, <2>2, <2>6
    <3>2. K(h) = "PRE" => K(i) # "ACT"
      BY <1>3, <2>6, <3>1
    <3>3. K(i) \in {"RD", "WR"} => A(h) <= A(i)
      BY <1>2, <1>3, <2>6, <3>1
    <3>4. ASSUME NEW x \in S, x <= i, K(x) \in {"RD", "WR"}, x # h
          PROVE  \E y \in S \ {x} : A(y) <= A(x)
      BY <2>0, <2>2, <3>1, <3>3, <3>4
    <3>5. K(h) = "PRE" => \A x \in S : x <= i => K(x) # "ACT"
      BY <2>0, <2>2, <3>1, <3>2
    <3> QED
      BY <2>6, <3>1, <3>4, <3>5
  <2> QED
    BY <2>2, <2>3, <2>4, <2>5, <2>6
<1>8. Bad = {}
  <2> SUFFICES ASSUME Bad # {} PROVE FALSE
    OBVIOUS
  <2>1. Bad \subseteq Nat
    OBVIOUS
  <2>2. PICK m \in Bad : \A k \in Bad : m <= k
    <3> HIDE DEF Bad
    <3> QED
      BY <2>1, Constants, fcfs!MinIsLeast, Zenon
  <2>3. m \in 0 .. 15 /\ ~Good(m)
    OBVIOUS
  <2>4. Good(m - 1)
    <3>1. CASE m = 0
      BY <1>6, <3>1
    <3>2. CASE m # 0
      <4>1. m - 1 \in 0 .. 15 /\ ~(m <= m - 1)
        BY <2>3, <3>2
      <4> QED
        BY <2>2, <4>1
    <3> QED
      BY <3>1, <3>2
  <2> HIDE DEF Good
  <2> QED
    BY <1>7, <2>3, <2>4
<1>9. Good(15)
  <2>1. 15 \in 0 .. 15
    OBVIOUS
  <2> HIDE DEF Good
  <2> QED
    BY <1>8, <2>1
<1>10. fcfs!Held = f[15] /\ \A x \in S : x <= 15
  BY <1>1, <1>4, <1>5a
<1>11. S # {}
  BY DEF S
<1>12. /\ fcfs!Held \in S
       /\ K(fcfs!Held) = "PRE" => \A x \in S : K(x) # "ACT"
       /\ \A x \in S : K(x) \in {"RD", "WR"} /\ x # fcfs!Held =>
              \E y \in S \ {x} : A(y) <= A(x)
  BY <1>9, <1>10, <1>11
<1> QED
  BY <1>12 DEF S, K, A

LEMMA PriorityStep ==
    ASSUME fcfs!TypeOK, ArrivalsOK, fcfs!FCFSNext
    PROVE  fcfs!CommandPriority
<1> SUFFICES ASSUME NEW b \in fcfs!Candidates, NEW x \in fcfs!Candidates,
                    phase = "command", commandQueue'[b] # commandQueue[b]
             PROVE  /\ fcfs!KindOf(b) = "PRE" => fcfs!KindOf(x) # "ACT"
                    /\ fcfs!KindOf(x) \in {"RD", "WR"} /\ x # b =>
                           \E y \in fcfs!Candidates \ {x} :
                               fcfs!Arrived(y) <= fcfs!Arrived(x)
  BY DEF fcfs!CommandPriority
<1>1. \/ \E c \in Banks : fcfs!FRIssue(c)
      \/ fcfs!FRIssueNone
  BY DEF fcfs!FCFSNext, fcfs!SendRequest, fcfs!Idle, fcfs!DeliverWrite,
         fcfs!NoWrite, fcfs!DeliverRead, fcfs!NoRead, fcfs!fcfsSchedule,
         fcfs!ScheduleRequest, fcfs!TakeRequest, fcfs!fcfsNothing,
         fcfs!EndSchedule
<1>2. ~fcfs!FRIssueNone
  BY DEF fcfs!FRIssueNone
<1>3. PICK c \in Banks : fcfs!FRIssue(c)
  BY <1>1, <1>2
<1>4. b = c
  BY <1>3 DEF fcfs!FRIssue, fcfs!sendCommand, fcfs!TypeOK, fcfs!Candidates
<1>5. b = fcfs!Held
  BY <1>3, <1>4 DEF fcfs!FRIssue
<1> QED
  BY <1>5, ScanPriority

(* The scan of CommandScheduler_FRFCFS, whose result depends on the order  *)
(* of the queues, does promise this: a CAS older than every other          *)
(* candidate is issued, and no precharge while an activation could be.     *)
THEOREM PriorityKept == SystemsSpec => CommandPriority
<1> DEFINE I == system = "FCFS" => ArrivalsOK
           A == system = "FCFS" => fcfs!CommandPriority
<1>1. SystemsInit => I
  <2> SUFFICES ASSUME SystemsInit, system = "FCFS" PROVE ArrivalsOK
    OBVIOUS
  <2>1. fcfs!Init /\ fcfs!ArrivalsInit
    BY DEF SystemsInit, fcfs!FCFSInit
  <2>2. /\ commandQueue = [b \in Banks |-> <<>>] /\ now = 0
        /\ arriveTime = [b \in Banks |-> <<>>]
    BY <2>1 DEF fcfs!Init, fcfs!ArrivalsInit
  <2> QED
    BY <2>2 DEF ArrivalsOK, fcfs!Timed
<1>2. ASSUME TypesOK, I, [SystemsNext]_systemVars
      PROVE  I' /\ [A]_systemVars
  <2>1. CASE UNCHANGED systemVars
    BY <1>2, <2>1 DEF systemVars, arrivals, controller, ArrivalsOK,
                            fcfs!Timed
  <2>2. CASE SystemsNext
    BY <1>2, <2>2, ArrivalsStep, PriorityStep DEF SystemsNext, TypesOK
  <2> QED
    BY <1>2, <2>1, <2>2
<1>3. TypesOK /\ I /\ [SystemsNext]_systemVars => I' /\ [A]_systemVars
  BY <1>2
<1>4. [][A]_systemVars => CommandPriority
  BY PTL DEF CommandPriority
<1> HIDE DEF I, A
<1> QED
  BY <1>1, <1>3, <1>4, TypesInit, TypesStep, PTL DEF SystemsSpec

-----------------------------------------------------------------------------
(* PAR-BS.  The buffer and its marks are a batch as MemoryControllerProofs *)
(* describes it, of which something is missing, and who has no request in  *)
(* the buffer is not passed.                                               *)
FullBatch == MarkingCap * NumRequestors

MarksInv ==
    /\ parbs!BatchKept(requestBuffer[0], marked, markedCnt, passed, FullBatch)
    /\ markedCnt # FullBatch
    /\ parbs!FreshIn(requestBuffer[0], passed)

(* What the cap makes of it.                                               *)
LEMMA FullBatchIs ==
    /\ FullBatch \in Nat \ {0} /\ NumRequestors \in Nat \ {0}
    /\ (MarkingCap + 1) * NumRequestors = FullBatch + NumRequestors
    /\ \A a \in 0 .. NumRequestors : MarkingCap * a \in a .. FullBatch
<1>1. MarkingCap \in Nat \ {0} /\ NumRequestors \in Nat \ {0}
  BY SystemsAssumption DEF parbs!PARBSAssumption, parbs!ControllerAssumption
<1> QED
  BY <1>1 DEF FullBatch

(* How many there are of some of its requestors.                           *)
LEMMA PARBSRequestors ==
    \A S \in SUBSET parbs!Requestors :
        /\ parbs!Cardinality(S) \in 0 .. NumRequestors
        /\ parbs!Cardinality(S) = 0 <=> S = {}
  BY Constants, parbs!SomeRequestors

(* The buffer, and the requests of a requestor in it.                      *)
LEMMA PARBSBuffer ==
    ASSUME parbs!TypeOK
    PROVE  /\ requestBuffer[0] \in Seq(PARBSTraffic)
           /\ DOMAIN requestBuffer[0] = 1 .. Len(requestBuffer[0])
           /\ \A i \in DOMAIN requestBuffer[0] :
                  requestBuffer[0][i].requestorID \in parbs!Requestors
           /\ \A p : \A i : i \in parbs!Of(p) <=>
                  /\ i \in DOMAIN requestBuffer[0]
                  /\ requestBuffer[0][i].requestorID = p
           /\ parbs!Active = parbs!OwnersIn(requestBuffer[0])
<1>1. requestBuffer[0] \in Seq(PARBSTraffic)
  BY GeneralBuffer DEF parbs!TypeOK
<1>2. \A q \in PARBSTraffic : q.requestorID \in parbs!Requestors
  BY Constants DEF parbs!ControllerAssumption
<1>3. \A p : \A i : i \in parbs!Of(p) <=>
          /\ i \in DOMAIN requestBuffer[0]
          /\ requestBuffer[0][i].requestorID = p
  BY DEF parbs!Of, parbs!buffer
<1>4. parbs!Active = parbs!OwnersIn(requestBuffer[0])
  BY <1>3 DEF parbs!Active, parbs!OwnersIn
<1> QED
  BY <1>1, <1>2, <1>3, <1>4

(* The request that is nominated for a requestor is one of its requests.   *)
LEMMA NominateType ==
    ASSUME parbs!TypeOK, NEW p \in parbs!Active
    PROVE  parbs!Nominate(p) \in parbs!Of(p)
<1> DEFINE banks == {requestBuffer[0][k].bank : k \in parbs!Of(p)}
           bank == parbs!Min(banks)
           these == {k \in parbs!Of(p) : requestBuffer[0][k].bank = bank}
<1>1. parbs!Of(p) # {} /\ parbs!Of(p) \subseteq Nat
  BY PARBSBuffer DEF parbs!Active
<1>2. banks \subseteq Nat /\ banks # {}
  <2>1. \A q \in PARBSTraffic : q.bank \in Banks
    BY Constants DEF parbs!ControllerAssumption
  <2>2. Banks \subseteq Nat
    BY Constants DEF parbs!ControllerAssumption
  <2>3. \A k \in parbs!Of(p) : requestBuffer[0][k] \in PARBSTraffic
    BY PARBSBuffer
  <2>4. \A k \in parbs!Of(p) : requestBuffer[0][k].bank \in Nat
    BY <2>1, <2>2, <2>3, Zenon
  <2> QED
    BY <1>1, <2>4
<1>3. bank \in banks
  BY <1>2, Constants, parbs!MinIsLeast, Zenon
<1>4. these # {} /\ these \subseteq parbs!Of(p)
  BY <1>3, Zenon
<1>5. parbs!Min(these) \in these
  <2> HIDE DEF these
  <2> QED
    BY <1>1, <1>4, Constants, parbs!MinIsLeast
<1>6. parbs!Nominate(p) = parbs!Min(these)
  BY DEF parbs!Nominate, parbs!buffer
<1> QED
  BY <1>4, <1>5, <1>6

(* The scan ends with a marked request if there is one.                    *)
LEMMA BestIsMarked ==
    ASSUME parbs!TypeOK, requestBuffer[0] # <<>>, NEW lot,
           lot.marked \in Seq(BOOLEAN),
           Len(lot.marked) = Len(requestBuffer[0])
    PROVE  /\ parbs!Best(lot) \in DOMAIN requestBuffer[0]
           /\ parbs!MarkedIn(requestBuffer[0], lot.marked) # {}
                  => lot.marked[parbs!Best(lot)]
<1> DEFINE S == DOMAIN requestBuffer[0]
           T == {i \in S : lot.marked[i]}
           better == {p \in S \X S : parbs!Better(lot, p[1], p[2])}
           top == Len(requestBuffer[0])
           best == parbs!Best(lot)
<1>1. best = parbs!LastHeld(S, better, top)
  BY DEF parbs!Best, parbs!buffer
<1>2. top \in Nat /\ S = 1 .. top /\ S # {}
  <2>1. top \in Nat /\ S = 1 .. top
    BY PARBSBuffer
  <2>2. top # 0
    BY PARBSBuffer
  <2>3. 1 \in S
    BY <2>1, <2>2
  <2> QED
    BY <2>1, <2>3
<1>3. \A i \in S : lot.marked[i] \in BOOLEAN
  BY <1>2
<1>4. \A t \in T, s \in S \ T : <<t, s>> \in better /\ <<s, t>> \notin better
  <2> TAKE t \in T, s \in S \ T
  <2>1. lot.marked[t] /\ ~lot.marked[s] /\ lot.marked[t] # lot.marked[s]
    BY <1>3
  <2>2. parbs!Better(lot, t, s) /\ ~parbs!Better(lot, s, t)
    BY <2>1, Zenon DEF parbs!Better
  <2> QED
    BY <2>2
<1>5. T \subseteq S
  OBVIOUS
<1>6. S \subseteq 0 .. top
  BY <1>2
<1>7. parbs!MarkedIn(requestBuffer[0], lot.marked) # {} => T # {}
  BY DEF parbs!MarkedIn
<1> HIDE DEF S, T, better, top, best
<1>8. best \in S
  BY <1>1, <1>2, <1>6, Constants, parbs!HeldIsMember, Zenon
<1>9. T # {} => best \in T
  BY <1>1, <1>2, <1>4, <1>5, <1>6, Constants, parbs!HeldPrefers, Zenon
<1> QED
  BY <1>7, <1>8, <1>9 DEF S, T, best

(* The batch that a request is taken from, a new one or what is left of    *)
(* the last one, is one that still counts.                                 *)
LEMMA BatchToTake ==
    ASSUME parbs!TypeOK, MarksInv, requestBuffer[0] # <<>>
    PROVE  /\ parbs!BatchKept(requestBuffer[0], parbs!Batch.marked, parbs!Batch.cnt,
                              passed, FullBatch)
           /\ parbs!Batch.cnt # 0
<1> DEFINE b == requestBuffer[0]
           A == parbs!OwnersIn(b)
           cnt == MarkingCap * parbs!Cardinality(A)
           new == [k \in DOMAIN b |->
                     marked[k] \/ \E p \in A : k = parbs!Nominate(p)]
<1>1. CASE markedCnt # 0
  <2>1. parbs!Batch.marked = marked /\ parbs!Batch.cnt = markedCnt
    BY <1>1 DEF parbs!Batch
  <2> QED
    BY <1>1, <2>1 DEF MarksInv
<1>2. CASE markedCnt = 0
  <2>0. parbs!BatchKept(b, marked, 0, passed, FullBatch)
    BY <1>2 DEF MarksInv
  <2>1. parbs!Batch.marked = new /\ parbs!Batch.cnt = cnt
    BY <1>2, PARBSBuffer DEF parbs!Batch, parbs!form_batch, parbs!buffer
  <2>2. \A k \in DOMAIN b : ~marked[k]
    <3>1. parbs!MarkedIn(b, marked) \in SUBSET parbs!Requestors
      BY DEF parbs!MarkedIn
    <3>2. /\ parbs!Cardinality(parbs!MarkedIn(b, marked)) \in Nat
          /\ parbs!Cardinality(parbs!MarkedIn(b, marked)) <= 0
          /\ parbs!Cardinality(parbs!MarkedIn(b, marked)) = 0
                 => parbs!MarkedIn(b, marked) = {}
      BY <2>0, <3>1, PARBSRequestors, FullBatchIs DEF parbs!BatchKept
    <3>3. parbs!MarkedIn(b, marked) = {}
      BY <3>2
    <3> QED
      BY <3>3, PARBSBuffer DEF parbs!MarkedIn
  <2>3. new \in Seq(BOOLEAN) /\ Len(new) = Len(b)
    <3>1. new \in [DOMAIN b -> BOOLEAN]
      BY Zenon
    <3> HIDE DEF new
    <3> QED
      BY <3>1, PARBSBuffer
  <2>4. \A k \in DOMAIN b : new[k] <=> \E p \in A : k = parbs!Nominate(p)
    BY <2>2, Zenon
  <2>5. /\ \A p \in A : /\ parbs!Nominate(p) \in DOMAIN b
                         /\ b[parbs!Nominate(p)].requestorID = p
        /\ A \in SUBSET parbs!Requestors
    BY NominateType, PARBSBuffer DEF parbs!OwnersIn
  <2> HIDE DEF new
  <2>6. parbs!MarkedIn(b, new) = A
    BY <2>4, <2>5 DEF parbs!MarkedIn
  <2>7. \A i, k \in DOMAIN b :
            new[i] /\ new[k] /\ b[i].requestorID = b[k].requestorID => i = k
    BY <2>4, <2>5
  <2>8. A # {}
    <3>1. 1 \in DOMAIN b
      BY PARBSBuffer
    <3> QED
      BY <3>1, PARBSBuffer DEF parbs!OwnersIn
  <2> HIDE DEF A
  <2>9. parbs!Cardinality(A) \in 1 .. NumRequestors
    BY <2>5, <2>8, FullBatchIs, PARBSRequestors
  <2>10. cnt \in parbs!Cardinality(A) .. FullBatch /\ cnt # 0
    BY <2>9, FullBatchIs
  <2> HIDE DEF cnt
  <2>11. parbs!BatchKept(b, new, cnt, passed, FullBatch)
    BY <2>0, <2>3, <2>6, <2>7, <2>10, Constants, parbs!BatchFormed, Zenon DEF A
  <2> QED
    BY <2>1, <2>10, <2>11
<1> QED
  BY <1>1, <1>2

(* Taking the best request of it leaves the invariant.                     *)
LEMMA MarksSchedule ==
    ASSUME parbs!TypeOK, MarksInv, requestBuffer[0] # <<>>, NEW lot,
           lot = parbs!Batch, parbs!requestSchedule(lot, parbs!Best(lot))
    PROVE  MarksInv'
<1> DEFINE b == requestBuffer[0]
           k == parbs!Best(lot)
<1>1. parbs!BatchKept(b, lot.marked, lot.cnt, passed, FullBatch) /\ lot.cnt # 0
  BY BatchToTake
<1>2. /\ k \in DOMAIN b
      /\ parbs!MarkedIn(b, lot.marked) # {} => lot.marked[k]
  BY <1>1, BestIsMarked, Zenon DEF parbs!BatchKept
<1>3. \A p \in parbs!Requestors : parbs!Of(p) = {} <=> p \notin parbs!OwnersIn(b)
  BY PARBSBuffer, Zenon DEF parbs!OwnersIn
<1>4. /\ requestBuffer'[0] = parbs!RemoveAt(b, k)
      /\ marked' = parbs!RemoveAt(lot.marked, k)
      /\ markedCnt' = lot.cnt - 1
      /\ passed' = parbs!PassesAfter(b, k, passed)
  <2>1. 0 \in DOMAIN requestBuffer
    BY GeneralBuffer DEF parbs!TypeOK
  <2> QED
    BY <1>1, <1>3, <2>1 DEF parbs!requestSchedule, parbs!ScheduleRequest,
                            parbs!TakeRequest, parbs!buffer,
                            parbs!PassesAfter
<1>5. lot.cnt \in 0 .. FullBatch /\ lot.cnt - 1 # FullBatch
  BY <1>1, FullBatchIs DEF parbs!BatchKept
<1> HIDE DEF k, b
<1>6. /\ parbs!BatchKept(parbs!RemoveAt(b, k), parbs!RemoveAt(lot.marked, k),
                         lot.cnt - 1, parbs!PassesAfter(b, k, passed), FullBatch)
      /\ parbs!FreshIn(parbs!RemoveAt(b, k), parbs!PassesAfter(b, k, passed))
  BY <1>1, <1>2, Constants, parbs!BatchTaken, Zenon
<1>7. /\ parbs!BatchKept(requestBuffer[0], marked, markedCnt, passed, FullBatch)'
      /\ parbs!FreshIn(requestBuffer[0], passed)'
  BY <1>4, <1>6 DEF parbs!BatchKept, parbs!FreshIn
<1> QED
  BY <1>4, <1>5, <1>7 DEF MarksInv, FullBatch

(* So do the other steps.                                                  *)
LEMMA MarksStep ==
    ASSUME parbs!TypeOK, MarksInv, parbs!PARBSNext
    PROVE  MarksInv'
<1>1. CASE UNCHANGED <<requestBuffer, marked, markedCnt, passed>>
  BY <1>1 DEF MarksInv, FullBatch, parbs!BatchKept, parbs!MarkedIn,
              parbs!OwnersIn, parbs!FreshIn
<1>2. ASSUME NEW q \in PARBSTraffic, parbs!PARBSSend(q) PROVE MarksInv'
  <2>1. 0 \in DOMAIN requestBuffer /\ parbs!BufferOf(q) = 0
    BY GeneralBuffer DEF parbs!TypeOK, parbs!BufferOf
  <2>2. /\ requestBuffer'[0] = Append(requestBuffer[0], q)
        /\ marked' = parbs!MarksAfter(marked)
        /\ markedCnt' = markedCnt /\ passed' = passed
    BY <1>2, <2>1 DEF parbs!PARBSSend, parbs!SendRequest, parbs!MarksAfter
  <2>3. /\ parbs!BatchKept(Append(requestBuffer[0], q), parbs!MarksAfter(marked),
                           markedCnt, passed, FullBatch)
        /\ parbs!FreshIn(Append(requestBuffer[0], q), passed)
    BY <1>2, Constants, parbs!BatchJoined, Zenon DEF MarksInv
  <2>4. /\ parbs!BatchKept(requestBuffer[0], marked, markedCnt, passed, FullBatch)'
        /\ parbs!FreshIn(requestBuffer[0], passed)'
    BY <2>2, <2>3, Zenon DEF parbs!BatchKept, parbs!FreshIn
  <2> QED
    BY <2>2, <2>4 DEF MarksInv, FullBatch
<1>3. ASSUME NEW lot, lot = parbs!Batch, requestBuffer[0] # <<>>,
             NEW k, k = parbs!Best(lot), parbs!requestSchedule(lot, k)
      PROVE  MarksInv'
  BY <1>3, MarksSchedule
<1>4. CASE parbs!NothingToSchedule
  <2>1. requestBuffer[0] = <<>>
    BY <1>4 DEF parbs!NothingToSchedule, parbs!buffer
  <2>2. parbs!Active = {}
    BY <2>1, PARBSBuffer DEF parbs!OwnersIn
  <2>3. MarkingCap * parbs!Cardinality(parbs!Active) = 0
    <3>1. parbs!Active \in SUBSET parbs!Requestors
      BY DEF parbs!Active
    <3>2. parbs!Cardinality(parbs!Active) = 0
      BY <2>2, <3>1, PARBSRequestors
    <3> QED
      BY <3>2, SystemsAssumption DEF parbs!PARBSAssumption
  <2>4. parbs!Batch.cnt = markedCnt
    BY <2>3 DEF parbs!Batch, parbs!form_batch
  <2> QED
    BY <1>1, <1>4, <2>4 DEF parbs!NothingToSchedule, parbs!EndSchedule,
                            parbs!requestVars
<1>5. ASSUME \/ parbs!Idle \/ parbs!DeliverWrite \/ parbs!NoWrite
             \/ parbs!DeliverRead \/ parbs!NoRead
             \/ \E b \in Banks : parbs!FRIssue(b)
             \/ parbs!FRIssueNone
      PROVE  requestBuffer' = requestBuffer
  BY <1>5, Zenon DEF parbs!Idle, parbs!DeliverWrite, parbs!NoWrite,
              parbs!DeliverRead,
              parbs!NoRead, parbs!FRIssue, parbs!sendCommand, parbs!FRIssueNone,
              parbs!NoCommand, parbs!requestVars
<1> QED
  BY <1>1, <1>2, <1>3, <1>4, <1>5
     DEF parbs!PARBSNext, parbs!parbsOnly, parbs!buffer

LEMMA MarksInit == ASSUME parbs!PARBSInit PROVE MarksInv
<1>1. requestBuffer[0] = <<>> /\ marked = <<>> /\ markedCnt = 0
  BY GeneralBuffer DEF parbs!PARBSInit, parbs!Init
<1>2. parbs!MarkedIn(requestBuffer[0], marked) = {} /\ parbs!OwnersIn(requestBuffer[0]) = {}
  BY <1>1 DEF parbs!MarkedIn, parbs!OwnersIn
<1>3. parbs!Cardinality(parbs!MarkedIn(requestBuffer[0], marked)) = 0
  BY <1>2, PARBSRequestors
<1>4. passed = [p \in parbs!Requestors |-> 0]
  BY DEF parbs!PARBSInit
<1> QED
  BY <1>1, <1>2, <1>3, <1>4, FullBatchIs
     DEF MarksInv, parbs!BatchKept, parbs!FreshIn

(* PAR-BS starves nobody, whatever the row hits and the ranks: a requestor *)
(* with a request in the buffer is passed at most by what is left of a     *)
(* batch and by one request of each other in the next, although markedCnt  *)
(* counts nominations and goes down with requests that are not marked.     *)
THEOREM NobodyStarves == SystemsSpec => []PassedAtMost
<1> DEFINE I == system = "PAR-BS" => MarksInv
<1>1. SystemsInit => I
  BY MarksInit DEF SystemsInit
<1>2. ASSUME TypesOK, I, [SystemsNext]_systemVars PROVE I'
  <2>1. CASE UNCHANGED systemVars
    <3>1. UNCHANGED <<system, requestBuffer, marked, markedCnt, passed>>
      BY <2>1 DEF systemVars, controller, batch
    <3> QED
      BY <1>2, <3>1 DEF MarksInv, FullBatch, parbs!BatchKept, parbs!MarkedIn,
                        parbs!OwnersIn, parbs!FreshIn
  <2>2. CASE SystemsNext
    BY <1>2, <2>2, MarksStep DEF SystemsNext, TypesOK
  <2> QED
    BY <1>2, <2>1, <2>2
<1>3. I => PassedAtMost
  <2> SUFFICES ASSUME MarksInv PROVE parbs!PassedAtMost
    BY DEF PassedAtMost
  <2> DEFINE most == (MarkingCap + 1) * NumRequestors
  <2>1. \A p \in parbs!Requestors : passed[p] <= FullBatch + NumRequestors - 2
    BY Constants, FullBatchIs, parbs!BatchBound DEF MarksInv
  <2>2. /\ most = FullBatch + NumRequestors
        /\ FullBatch \in Nat /\ NumRequestors \in Nat
    BY FullBatchIs
  <2> HIDE DEF most
  <2>3. \A p \in parbs!Requestors : passed[p] <= most - 2
    BY <2>1, <2>2
  <2> QED
    BY <2>3 DEF parbs!PassedAtMost, most
<1>4. TypesOK /\ I /\ [SystemsNext]_systemVars => I'
  BY <1>2
<1> QED
  BY <1>1, <1>3, <1>4, TypesInit, TypesStep, PTL DEF SystemsSpec

=============================================================================
