----------------------- MODULE MemoryControllerProofs -----------------------
(***************************************************************************)
(* Proofs about MemoryController, for every set of banks, every timing of  *)
(* the device, every traffic and every choice of the schedulers: the       *)
(* timers, the rows, the requestors' books, the beats of every request and *)
(* the service that the channel implements.                                *)
(***************************************************************************)
EXTENDS MemoryController, TLAPS, SequenceTheorems, FiniteSetTheorems,
        WellFoundedInduction

Commands == [busPacketType : Types, request : Traffic]
PendingEntries == [request : Traffic, requestSize : 1..Beats]
DataEntries == [request : Traffic, counter : Nat]

-----------------------------------------------------------------------------
(* Helpers on sequences and counters.                                      *)

(* Min is the least element, which exists.                                 *)
LEMMA MinIsLeast ==
    ASSUME NEW S \in SUBSET Nat, S # {}
    PROVE  Min(S) \in S /\ \A y \in S : Min(S) <= y
<1>1. PICK x \in S : \A y \in S : ~ (<<y, x>> \in OpToRel(<, Nat))
  BY WFMin, NatLessThanWellFounded
<1>2. \A y \in S : ~ (y < x)
  BY <1>1, Zenon DEF OpToRel
<1>3. \A y \in S : x <= y
  BY <1>2
<1> QED
  BY <1>3 DEF Min

(* What a scan holds after each index.                                     *)
HeldBy(f, S, better, top) ==
    f = [i \in -1 .. top |->
            LET before == f[i - 1] IN
            IF i = -1 THEN -1
            ELSE IF i \in S /\ (before = -1 \/ <<i, before>> \in better) THEN i
            ELSE before]

(* There is such a function for every last index: the one for the index    *)
(* before can be extended.                                                 *)
LEMMA HeldExists ==
    ASSUME NEW S, NEW better, NEW top \in Nat
    PROVE  \E f : HeldBy(f, S, better, top)
<1> DEFINE Bad == {m \in Nat : ~ \E f : HeldBy(f, S, better, m - 1)}
           Holds(before, i) ==
               IF i = -1 THEN -1
               ELSE IF i \in S /\ (before = -1 \/ <<i, before>> \in better) THEN i
               ELSE before
<1>1. Bad = {}
  <2> SUFFICES ASSUME Bad # {} PROVE FALSE
    OBVIOUS
  <2> DEFINE m == Min(Bad)
  <2>1. m \in Bad /\ \A k \in Bad : m <= k
    BY MinIsLeast
  <2>2. m \in Nat /\ ~ \E f : HeldBy(f, S, better, m - 1)
    BY <2>1
  <2> HIDE DEF m
  <2>3. CASE m = 0
    <3> DEFINE f == [i \in -1 .. -1 |-> -1]
    <3>1. HeldBy(f, S, better, -1)
      BY DEF HeldBy
    <3> QED
      BY <2>2, <2>3, <3>1
  <2>4. CASE m # 0
    <3>1. m - 1 \in Nat /\ m - 1 \notin Bad /\ (m - 1) - 1 = m - 2
      BY <2>1, <2>2, <2>4
    <3>2. PICK f : HeldBy(f, S, better, m - 2)
      BY <3>1
    <3> DEFINE g == [i \in -1 .. m - 1 |->
                        IF i = m - 1 THEN Holds(f[m - 2], m - 1) ELSE f[i]]
    <3>3. \A i \in -1 .. m - 2 : f[i] = Holds(f[i - 1], i)
      BY <3>2 DEF HeldBy
    <3>4. ASSUME NEW i \in -1 .. m - 1 PROVE g[i] = Holds(g[i - 1], i)
      <4>1. CASE i = -1
        <5>1. -1 \in -1 .. m - 2 /\ -1 # m - 1 /\ -1 \in -1 .. m - 1
          BY <2>2, <2>4
        <5> QED
          BY <3>3, <4>1, <5>1
      <4>2. CASE i # -1
        <5>1. i - 1 \in -1 .. m - 2 /\ i - 1 \in -1 .. m - 1 /\ i - 1 # m - 1
          BY <2>2, <4>2
        <5>2. g[i - 1] = f[i - 1]
          BY <5>1
        <5>3. CASE i = m - 1
          <6>1. i - 1 = m - 2
            BY <2>2, <5>3
          <6> QED
            BY <4>2, <5>2, <5>3, <6>1
        <5>4. CASE i # m - 1
          <6>1. i \in -1 .. m - 2
            BY <2>2, <5>4
          <6> QED
            BY <3>3, <4>2, <5>2, <5>4, <6>1
        <5> QED
          BY <5>3, <5>4
      <4> QED
        BY <4>1, <4>2
    <3>5. g = [i \in -1 .. m - 1 |-> g[i]]
      OBVIOUS
    <3> HIDE DEF g
    <3>6. HeldBy(g, S, better, m - 1)
      BY <3>4, <3>5 DEF HeldBy
    <3> QED
      BY <2>2, <3>6
  <2> QED
    BY <2>3, <2>4
<1>2. top + 1 \in Nat /\ (top + 1) - 1 = top
  OBVIOUS
<1> QED
  BY <1>1, <1>2

(* f records what a scan to top holds after each index, and LastHeld is    *)
(* what it holds at the end.                                               *)
HeldAs(f, S, better, top) ==
    /\ LastHeld(S, better, top) = f[top]
    /\ f[-1] = -1
    /\ \A i \in 0 .. top :
           f[i] = IF i \in S /\ (f[i - 1] = -1 \/ <<i, f[i - 1]>> \in better)
                      THEN i ELSE f[i - 1]

(* The scan step by step.                                                  *)
LEMMA HeldSteps ==
    ASSUME NEW S, NEW better, NEW top \in Nat
    PROVE  \E f : HeldAs(f, S, better, top)
<1> DEFINE held == CHOOSE f : HeldBy(f, S, better, top)
<1>1. LastHeld(S, better, top) = held[top]
  BY DEF LastHeld, HeldBy
<1>2. HeldBy(held, S, better, top)
  BY HeldExists
<1> HIDE DEF held
<1>3. held[-1] = -1 /\ -1 \in -1 .. top
  BY <1>2 DEF HeldBy
<1>4. \A i \in 0 .. top : i \in -1 .. top /\ i # -1
  OBVIOUS
<1>5. \A i \in 0 .. top :
          held[i] = IF i \in S /\ (held[i - 1] = -1 \/ <<i, held[i - 1]>> \in better)
                        THEN i ELSE held[i - 1]
  BY <1>2, <1>4 DEF HeldBy
<1> QED
  BY <1>1, <1>3, <1>5 DEF HeldAs

(* A scan that meets a member of T, whose members give way to none of the  *)
(* others while every other one gives way to them, ends with one of T.     *)
LEMMA HeldPrefers ==
    ASSUME NEW top \in Nat, NEW S \in SUBSET (0 .. top), NEW T \in SUBSET S,
           T # {}, NEW better,
           \A t \in T, s \in S \ T : <<t, s>> \in better /\ <<s, t>> \notin better
    PROVE  LastHeld(S, better, top) \in T
<1>1. PICK f : /\ LastHeld(S, better, top) = f[top]
               /\ f[-1] = -1
               /\ \A i \in 0 .. top :
                      f[i] = IF i \in S /\ (f[i - 1] = -1
                                              \/ <<i, f[i - 1]>> \in better)
                                 THEN i ELSE f[i - 1]
  BY HeldSteps DEF HeldAs
<1> DEFINE Good(i) == /\ f[i] \in S \cup {-1}
                      /\ \A t \in T : t <= i => f[i] \in T
           Bad == {i \in 0 .. top : ~Good(i)}
<1>2. Bad = {}
  <2> SUFFICES ASSUME Bad # {} PROVE FALSE
    OBVIOUS
  <2> DEFINE m == Min(Bad)
  <2>1. m \in Bad /\ \A k \in Bad : m <= k
    BY MinIsLeast
  <2>2. m \in 0 .. top /\ ~Good(m)
    BY <2>1
  <2> HIDE DEF m
  <2>3. Good(m - 1)
    <3>1. CASE m = 0
      <4>1. m - 1 = -1 /\ \A s \in S : ~(s <= -1)
        BY <3>1
      <4> QED
        BY <1>1, <4>1
    <3>2. CASE m # 0
      <4>1. m - 1 \in 0 .. top /\ m - 1 \notin Bad
        BY <2>1, <2>2, <3>2
      <4> QED
        BY <4>1
    <3> QED
      BY <3>1, <3>2
  <2>4. f[m] = IF m \in S /\ (f[m - 1] = -1 \/ <<m, f[m - 1]>> \in better)
                   THEN m ELSE f[m - 1]
    BY <1>1, <2>2
  <2>5. -1 \notin S /\ S \subseteq Nat
    OBVIOUS
  <2>6. \A t \in T : t <= m => t <= m - 1 \/ t = m
    BY <2>2, <2>5
  <2>7. CASE m \in T
    BY <2>2, <2>3, <2>4, <2>5, <2>7
  <2>8. CASE m \notin T
    BY <2>2, <2>3, <2>4, <2>5, <2>6, <2>8
  <2> QED
    BY <2>7, <2>8
<1>3. Good(top)
  BY <1>2
<1>4. PICK t \in T : TRUE
  OBVIOUS
<1>5. t <= top
  OBVIOUS
<1> QED
  BY <1>1, <1>3, <1>5

(* If there is a member of S to be met, one of them is held at the end.    *)
LEMMA HeldIsMember ==
    ASSUME NEW top \in Nat, NEW S \in SUBSET (0 .. top), S # {}, NEW better
    PROVE  LastHeld(S, better, top) \in S
  BY HeldPrefers

(* RemoveAt, which takes a request out of a list, leaves a list.           *)
LEMMA RemoveAtType ==
    ASSUME NEW S, NEW s \in Seq(S), NEW i \in 1..Len(s)
    PROVE  RemoveAt(s, i) \in Seq(S)
<1>1. SubSeq(s, 1, i - 1) \in Seq(S) /\ SubSeq(s, i + 1, Len(s)) \in Seq(S)
  OBVIOUS
<1> QED
  BY <1>1 DEF RemoveAt

(* The matching entry of a pending list is one of its entries, or none.    *)
LEMMA MatchingType ==
    ASSUME NEW s \in Seq(PendingEntries), NEW q
    PROVE  Matching(s, q) \in 0..Len(s)
<1> DEFINE I == {i \in 1..Len(s) : s[i].request = q}
<1>1. Matching(s, q) = IF I # {} THEN Min(I) ELSE 0
  BY DEF Matching, SelectInSeq
<1>2. I \subseteq Nat
  OBVIOUS
<1>3. I # {} => Min(I) \in I
  BY <1>2, MinIsLeast
<1> QED
  BY <1>1, <1>3

(* Settling a beat keeps a pending list of requests with beats to come.    *)
LEMMA SettleType ==
    ASSUME NEW s \in Seq(PendingEntries), NEW q
    PROVE  Settle(s, q) \in Seq(PendingEntries)
<1> DEFINE i == Matching(s, q)
<1>1. i \in 0..Len(s)
  BY MatchingType
<1>2. CASE i = 0
  BY <1>2 DEF Settle
<1>3. CASE i # 0 /\ s[i].requestSize = 1
  <2>1. i \in 1..Len(s)
    BY <1>1, <1>3
  <2>2. RemoveAt(s, i) \in Seq(PendingEntries)
    BY <2>1, RemoveAtType
  <2> QED
    BY <1>3, <2>2 DEF Settle
<1>4. CASE i # 0 /\ s[i].requestSize # 1
  <2>1. i \in 1..Len(s) /\ s[i] \in PendingEntries
    BY <1>1, <1>4
  <2>2. s[i].requestSize - 1 \in 1..Beats
    BY <2>1, <1>4, ControllerAssumption, SMTT(20) DEF PendingEntries
  <2>3. [s[i] EXCEPT !.requestSize = @ - 1] \in PendingEntries
    BY <2>1, <2>2 DEF PendingEntries
  <2>4. [s EXCEPT ![i].requestSize = @ - 1] \in Seq(PendingEntries)
    BY <2>1, <2>3, ExceptSeq
  <2> QED
    BY <1>4, <2>4 DEF Settle
<1> QED
  BY <1>2, <1>3, <1>4

(* Counting data down keeps a list of data.                                *)
LEMMA CountDownType ==
    ASSUME NEW s \in Seq(DataEntries)
    PROVE  /\ CountDown(s, Decrement) \in Seq(DataEntries)
           /\ CountDown(s, Down) \in Seq(DataEntries)
<1>1. \A i \in 1..Len(s) : s[i] \in DataEntries
  OBVIOUS
<1>2. \A x \in DataEntries : x.counter \in Nat
  BY DEF DataEntries
<1>3. \A i \in 1..Len(s) : [s[i] EXCEPT !.counter = Decrement(@)] \in DataEntries
  <2> TAKE i \in 1..Len(s)
  <2>1. Decrement(s[i].counter) \in Nat
    BY <1>1, <1>2, ControllerAssumption DEF Decrement
  <2> QED
    BY <1>1, <2>1 DEF DataEntries
<1>4. \A i \in 1..Len(s) : [s[i] EXCEPT !.counter = Down(@)] \in DataEntries
  <2> TAKE i \in 1..Len(s)
  <2>1. Down(s[i].counter) \in Nat
    BY <1>1, <1>2 DEF Down
  <2> QED
    BY <1>1, <2>1 DEF DataEntries
<1>5. DOMAIN s = 1..Len(s) /\ Len(s) \in Nat
  BY LenProperties
<1>6. CountDown(s, Decrement) \in Seq(DataEntries)
  BY <1>3, <1>5, IsASeq DEF CountDown
<1>7. CountDown(s, Down) \in Seq(DataEntries)
  BY <1>4, <1>5, IsASeq DEF CountDown
<1> QED
  BY <1>6, <1>7

(* returnData leaves every requestor a list of requests.                   *)
LEMMA ReturnDataType ==
    ASSUME corePending \in [Requestors -> Seq(Traffic)], NEW q \in Traffic
    PROVE  returnData(q) \in [Requestors -> Seq(Traffic)]
<1> DEFINE core == corePending[q.requestorID]
           I == {i \in 1..Len(core) : SameAddress(core[i], q)}
           n == SelectInSeq(core, LAMBDA p : SameAddress(p, q))
<1>1. q.requestorID \in Requestors /\ core \in Seq(Traffic)
  BY ControllerAssumption
<1>2. n = IF I # {} THEN Min(I) ELSE 0
  BY DEF SelectInSeq
<1>3. I # {} => Min(I) \in I
  <2>1. I \subseteq Nat
    OBVIOUS
  <2> QED
    BY <2>1, MinIsLeast
<1>4. n = 0 \/ n \in 1..Len(core)
  BY <1>2, <1>3
<1>5. n # 0 => RemoveAt(core, n) \in Seq(Traffic)
  BY <1>1, <1>4, RemoveAtType
<1>6. returnData(q) = [corePending EXCEPT ![q.requestorID] =
                          IF n = 0 THEN core ELSE RemoveAt(core, n)]
  BY DEF returnData
<1> HIDE DEF n, core, I
<1> QED
  BY <1>1, <1>5, <1>6

(* The generators make lists of commands.                                  *)
LEMMA CommandsType ==
    ASSUME NEW q \in Traffic, NEW b \in Banks
    PROVE  commandGenerate(q, b) \in Seq(Commands)
<1>1. \A t \in Types : Command(t, q) \in Commands
  BY DEF Command, Commands
<1>2. OpenCommands(q) \in Seq(Commands)
  <2> DEFINE row == IF isRowHit(q) THEN <<>>
                    ELSE IF first[q.bank] THEN <<Command("ACT", q)>>
                    ELSE <<Command("PRE", q), Command("ACT", q)>>
             cas == Command(IF IsRead(q) THEN "RD" ELSE "WR", q)
  <2>1. cas \in Commands /\ Command("ACT", q) \in Commands
                         /\ Command("PRE", q) \in Commands
    BY <1>1 DEF Types, Cas, Reads, Writes, Acts
  <2>2. row \in Seq(Commands)
    BY <2>1
  <2>3. [i \in 1..Beats |-> cas] \in Seq(Commands)
    BY <2>1, ControllerAssumption, IsASeq
  <2>4. OpenCommands(q) = row \o [i \in 1..Beats |-> cas]
    BY DEF OpenCommands
  <2> HIDE DEF row, cas
  <2> QED
    BY <2>2, <2>3, <2>4
<1>3. CloseCommands(q, b) \in Seq(Commands)
  BY <1>1 DEF CloseCommands, Types, Cas, Reads, Writes, Acts
<1> QED
  BY <1>2, <1>3, ControllerAssumption DEF commandGenerate

-----------------------------------------------------------------------------
(* Type correctness.                                                       *)

(* The initial state has the right shape.                                  *)
LEMMA InitType == Init => TypeOK
<1> SUFFICES ASSUME Init PROVE TypeOK
  OBVIOUS
<1>1. 0 \in Requestors
  BY ControllerAssumption DEF Requestors
<1>2. DeviceTypeOK
  BY EntriesAreNat DEF Init, DeviceInit, DeviceTypeOK
<1> QED
  BY <1>1, <1>2 DEF Init, TypeOK

(* The loop over the requestors stays within them.                         *)
LEMMA NextRequestorType ==
    ASSUME turn \in Requestors, phase = "core", NextRequestor
    PROVE  turn' \in Requestors /\ phase' \in {"core", "request"}
  BY ControllerAssumption DEF NextRequestor, Requestors

(* The head of a queue is sent, and the rest keeps its shape.              *)
LEMMA SendType ==
    ASSUME TypeOK, NEW b \in Banks, sendCommand(b)
    PROVE  TypeOK'
<1> DEFINE c == Head(commandQueue[b])
           t == c.busPacketType
<1>1. c \in Commands /\ Tail(commandQueue[b]) \in Seq(Commands)
  <2>1. commandQueue[b] \in Seq(Commands) /\ commandQueue[b] # <<>>
    BY DEF sendCommand, TypeOK, Commands
  <2> QED
    BY <2>1
<1>2. t \in Types /\ c.request \in Traffic
  BY <1>1 DEF Commands
<1>3. commandQueue' \in [Banks -> Seq(Commands)]
  BY <1>1 DEF sendCommand, TypeOK, Commands
<1>4. cmdQueueTimer' \in [Banks -> [Types -> Nat]]
  <2>1. \A u \in Types : Later(cmdQueueTimer[b][u], command_timing(t, u)) \in Nat
    BY <1>2, TimingsAreNat DEF Later, TypeOK
  <2>2. cmdQueueTimer' = [cmdQueueTimer EXCEPT ![b] =
           [u \in Types |-> Later(cmdQueueTimer[b][u], command_timing(t, u))]]
    BY DEF sendCommand
  <2> QED
    BY <2>1, <2>2 DEF TypeOK
<1>5. DeviceTypeOK'
  BY <1>2, DeviceUpdateType DEF sendCommand, TypeOK
<1>6. openRow' \in [Banks -> Rows \cup {NoRow}]
  <2>1. After(c, openRow[b]) \in Rows \cup {NoRow}
    BY <1>2 DEF After, TypeOK, Rows
  <2>2. openRow' = [openRow EXCEPT ![b] = After(c, openRow[b])]
    BY DEF sendCommand
  <2> QED
    BY <2>1, <2>2 DEF TypeOK
<1>7. readData' \in Seq(DataEntries)
  <2>1. [request |-> c.request, counter |-> nCL + nBL] \in DataEntries
    BY <1>2, EntriesAreNat DEF DataEntries
  <2>2. readData \in Seq(DataEntries)
    BY DEF TypeOK, DataEntries
  <2>3. readData' \in {readData,
            Append(readData, [request |-> c.request, counter |-> nCL + nBL])}
    BY DEF sendCommand
  <2> QED
    BY <2>1, <2>2, <2>3
<1>8. sendData' \in Seq(DataEntries)
  <2>1. [request |-> c.request, counter |-> nCWL + nBL] \in DataEntries
    BY <1>2, EntriesAreNat DEF DataEntries
  <2>2. sendData \in Seq(DataEntries)
    BY DEF TypeOK, DataEntries
  <2>3. sendData' \in {sendData,
            Append(sendData, [request |-> c.request, counter |-> nCWL + nBL])}
    BY DEF sendCommand
  <2> QED
    BY <2>1, <2>2, <2>3
<1>9. phase' = "data" /\ UNCHANGED <<coreVars, requestVars, pendingVars>>
  BY DEF sendCommand
<1> QED
  BY <1>3, <1>4, <1>5, <1>6, <1>7, <1>8, <1>9
     DEF TypeOK, Commands, DataEntries, coreVars, requestVars, pendingVars

(* Every step keeps the shape of the state.                                *)
LEMMA StepType == TypeOK /\ [Next]_vars => TypeOK'
<1> SUFFICES ASSUME TypeOK, [Next]_vars PROVE TypeOK'
  OBVIOUS
<1>1. ASSUME NEW q \in Traffic, SendRequest(q) PROVE TypeOK'
  <2>1. turn' \in Requestors /\ phase' \in {"core", "request"}
    BY <1>1, NextRequestorType DEF SendRequest, TypeOK
  <2>2. corePending' \in [Requestors -> Seq(Traffic)]
    BY <1>1 DEF SendRequest, TypeOK
  <2>3. requestBuffer' \in [Buffers -> Seq(Traffic)]
    <3>1. BufferOf(q) \in Buffers
      BY ControllerAssumption DEF BufferOf, Buffers, writeBuffer
    <3> QED
      BY <1>1, <3>1 DEF SendRequest, TypeOK
  <2> DEFINE p == [request |-> q, requestSize |-> Beats]
  <2>4. p \in PendingEntries
    BY ControllerAssumption DEF PendingEntries
  <2>5. pendingRead' \in Seq(PendingEntries) /\ pendingWrite' \in Seq(PendingEntries)
    <3>1. pendingRead \in Seq(PendingEntries) /\ pendingWrite \in Seq(PendingEntries)
      BY DEF TypeOK, PendingEntries
    <3>2. /\ pendingRead' \in {pendingRead, Append(pendingRead, p)}
          /\ pendingWrite' \in {pendingWrite, Append(pendingWrite, p)}
      BY <1>1 DEF SendRequest
    <3>3. /\ Append(pendingRead, p) \in Seq(PendingEntries)
          /\ Append(pendingWrite, p) \in Seq(PendingEntries)
      BY <2>4, <3>1, AppendProperties
    <3> QED
      BY <3>1, <3>2, <3>3
  <2>6. UNCHANGED <<bankTable, first, commandVars, dataVars, deviceVars>>
    BY <1>1 DEF SendRequest
  <2> QED
    BY <2>1, <2>2, <2>3, <2>5, <2>6
       DEF TypeOK, PendingEntries, commandVars, dataVars, deviceVars, DeviceTypeOK
<1>2. CASE Idle
  <2>1. turn' \in Requestors /\ phase' \in {"core", "request"}
    BY <1>2, NextRequestorType DEF Idle, TypeOK
  <2>2. UNCHANGED <<corePending, requestVars, pendingVars, commandVars,
                    dataVars, deviceVars>>
    BY <1>2 DEF Idle
  <2> QED
    BY <2>1, <2>2 DEF TypeOK, requestVars, pendingVars, commandVars, dataVars,
                      deviceVars, DeviceTypeOK
<1>3. ASSUME NEW i \in Buffers, NEW k \in DOMAIN requestBuffer[i],
             NEW more \in BOOLEAN, ScheduleRequest(i, k, more)
      PROVE  TypeOK'
  <2> DEFINE q == requestBuffer[i][k]
  <2>1. requestBuffer[i] \in Seq(Traffic) /\ k \in 1..Len(requestBuffer[i])
    BY DEF TypeOK
  <2>2. q \in Traffic
    BY <2>1
  <2>3. commandQueue' \in [Banks -> Seq(Commands)]
    <3>1. \A b \in Banks : commandQueue[b] \in Seq(Commands)
      BY DEF TypeOK, Commands
    <3>2. \A b \in Banks : commandGenerate(q, b) \in Seq(Commands)
      BY <2>2, CommandsType
    <3>3. \A b \in Banks : commandQueue[b] \o commandGenerate(q, b) \in Seq(Commands)
      BY <3>1, <3>2, ConcatProperties
    <3>4. commandQueue' = [b \in Banks |-> commandQueue[b] \o commandGenerate(q, b)]
      BY <1>3 DEF ScheduleRequest, TakeRequest, updateRowTable
    <3> QED
      BY <3>3, <3>4
  <2>4. first' \in [Banks -> BOOLEAN]
    BY <1>3 DEF ScheduleRequest, TakeRequest, updateRowTable, TypeOK
  <2>5. bankTable' \in [Banks -> Rows \cup {NoRow}]
    <3>1. q.row \in Rows
      BY <2>2 DEF Rows
    <3> QED
      BY <1>3, <3>1 DEF ScheduleRequest, TakeRequest, updateRowTable, TypeOK
  <2>6. requestBuffer' \in [Buffers -> Seq(Traffic)]
    <3>1. RemoveAt(requestBuffer[i], k) \in Seq(Traffic)
      BY <2>1, RemoveAtType
    <3> QED
      BY <1>3, <3>1 DEF ScheduleRequest, TakeRequest, updateRowTable, TypeOK
  <2>7. phase' \in {"request", "command"} /\
        UNCHANGED <<coreVars, pendingVars, cmdQueueTimer, openRow, dataVars,
                    deviceVars>>
    BY <1>3 DEF ScheduleRequest, TakeRequest, updateRowTable
  <2> QED
    BY <2>3, <2>4, <2>5, <2>6, <2>7
       DEF TypeOK, Commands, coreVars, pendingVars, dataVars, deviceVars,
           DeviceTypeOK
<1>4. CASE EndSchedule
  BY <1>4 DEF EndSchedule, TypeOK, coreVars, requestVars, pendingVars,
              commandVars, dataVars, deviceVars, DeviceTypeOK
<1>5. ASSUME NEW b \in Banks, IssueCommand(b) PROVE TypeOK'
  BY <1>5, SendType DEF IssueCommand
<1>6. CASE NoCommand
  BY <1>6 DEF NoCommand, TypeOK, coreVars, requestVars, pendingVars,
              commandVars, dataVars, deviceVars, DeviceTypeOK
<1>7. ASSUME TickTimers PROVE cmdQueueTimer' \in [Banks -> [Types -> Nat]]
  BY <1>7 DEF TickTimers, TypeOK, Down
<1>8. CASE DeliverWrite
  <2> DEFINE q == Head(sendData).request
  <2>1. sendData \in Seq(DataEntries) /\ pendingWrite \in Seq(PendingEntries)
    BY DEF TypeOK, DataEntries, PendingEntries
  <2>2. Head(sendData) \in DataEntries /\ Tail(sendData) \in Seq(DataEntries)
    BY <1>8, <2>1 DEF DeliverWrite, WriteDue
  <2>3. q \in Traffic
    BY <2>2 DEF DataEntries
  <2>4. pendingWrite' \in Seq(PendingEntries)
    BY <1>8, <2>1, SettleType DEF DeliverWrite
  <2>5. corePending' \in [Requestors -> Seq(Traffic)]
    BY <1>8, <2>3, ReturnDataType DEF DeliverWrite, TypeOK
  <2>6. sendData' \in Seq(DataEntries)
    BY <1>8, <2>2, CountDownType DEF DeliverWrite
  <2>7. phase' = "device" /\ TickTimers /\
        UNCHANGED <<turn, requestVars, pendingRead, commandQueue, openRow,
                    readData, deviceVars>>
    BY <1>8 DEF DeliverWrite
  <2> QED
    BY <1>7, <2>4, <2>5, <2>6, <2>7
       DEF TypeOK, PendingEntries, DataEntries, requestVars, deviceVars,
           DeviceTypeOK
<1>9. CASE NoWrite
  <2>1. sendData \in Seq(DataEntries)
    BY DEF TypeOK, DataEntries
  <2>2. sendData' \in Seq(DataEntries)
    BY <1>9, <2>1, CountDownType DEF NoWrite
  <2>3. phase' = "device" /\ TickTimers /\
        UNCHANGED <<coreVars, requestVars, pendingVars, commandQueue, openRow,
                    readData, deviceVars>>
    BY <1>9 DEF NoWrite
  <2> QED
    BY <1>7, <2>2, <2>3 DEF TypeOK, DataEntries, coreVars, requestVars,
                            pendingVars, deviceVars, DeviceTypeOK
<1>10. CASE DeliverRead
  <2> DEFINE q == Head(readData).request
  <2>1. readData \in Seq(DataEntries) /\ pendingRead \in Seq(PendingEntries)
    BY DEF TypeOK, DataEntries, PendingEntries
  <2>2. Head(readData) \in DataEntries /\ Tail(readData) \in Seq(DataEntries)
    BY <1>10, <2>1 DEF DeliverRead, ReadDue
  <2>3. q \in Traffic
    BY <2>2 DEF DataEntries
  <2>4. pendingRead' \in Seq(PendingEntries)
    BY <1>10, <2>1, SettleType DEF DeliverRead
  <2>5. corePending' \in [Requestors -> Seq(Traffic)]
    BY <1>10, <2>3, ReturnDataType DEF DeliverRead, TypeOK
  <2>6. readData' \in Seq(DataEntries)
    BY <1>10, <2>2, CountDownType DEF DeliverRead
  <2>7. DeviceTypeOK'
    BY <1>10, DeviceTickType DEF DeliverRead, TypeOK
  <2>8. phase' = "core" /\
        UNCHANGED <<turn, requestVars, pendingWrite, commandVars, sendData>>
    BY <1>10 DEF DeliverRead
  <2> QED
    BY <2>4, <2>5, <2>6, <2>7, <2>8
       DEF TypeOK, PendingEntries, DataEntries, requestVars, commandVars
<1>11. CASE NoRead
  <2>1. readData \in Seq(DataEntries)
    BY DEF TypeOK, DataEntries
  <2>2. readData' \in Seq(DataEntries)
    BY <1>11, <2>1, CountDownType DEF NoRead
  <2>3. DeviceTypeOK'
    BY <1>11, DeviceTickType DEF NoRead, TypeOK
  <2>4. phase' = "core" /\
        UNCHANGED <<coreVars, requestVars, pendingVars, commandVars, sendData>>
    BY <1>11 DEF NoRead
  <2> QED
    BY <2>2, <2>3, <2>4 DEF TypeOK, DataEntries, coreVars, requestVars,
                            pendingVars, commandVars
<1>12. CASE UNCHANGED vars
  BY <1>12 DEF vars, TypeOK, coreVars, requestVars, pendingVars, commandVars,
               dataVars, deviceVars, DeviceTypeOK
<1> QED
  BY <1>1, <1>2, <1>3, <1>4, <1>5, <1>6, <1>8, <1>9, <1>10, <1>11, <1>12
     DEF Next

(* The first request of a buffer may be the one to schedule.               *)
LEMMA FirstRequest ==
    ASSUME TypeOK, NEW i \in Buffers, requestBuffer[i] # <<>>
    PROVE  1 \in DOMAIN requestBuffer[i]
<1>1. requestBuffer[i] \in Seq(Traffic)
  BY DEF TypeOK
<1> QED
  BY <1>1

(* Until commandSchedule runs, the head of a queue stays where it is and,  *)
(* if it is ready, so: commands are only appended to the queues, and the   *)
(* timers only count down.                                                 *)
LEMMA HeadStays ==
    ASSUME TypeOK, [Next]_vars, phase # "command" \/ NoCommand,
           NEW b \in Banks, commandQueue[b] # <<>>
    PROVE  /\ commandQueue'[b] # <<>>
           /\ Head(commandQueue'[b]) = Head(commandQueue[b])
           /\ isReady(b) => isReady(b)'
<1> DEFINE t == Head(commandQueue[b]).busPacketType
<1>0. commandQueue[b] \in Seq(Commands) /\ t \in Types
  <2>1. commandQueue[b] \in Seq(Commands)
    BY DEF TypeOK, Commands
  <2>2. Head(commandQueue[b]) \in Commands
    BY <2>1
  <2> QED
    BY <2>1, <2>2 DEF Commands
<1>1. CASE UNCHANGED <<commandQueue, cmdQueueTimer>>
  BY <1>1 DEF isReady
<1>2. CASE TickTimers /\ UNCHANGED commandQueue
  <2>1. cmdQueueTimer'[b][t] = Down(cmdQueueTimer[b][t])
    BY <1>0, <1>2 DEF TickTimers
  <2> QED
    BY <1>2, <2>1 DEF Down, isReady
<1>3. ASSUME NEW i \in Buffers, NEW k \in DOMAIN requestBuffer[i],
             NEW more \in BOOLEAN, ScheduleRequest(i, k, more)
      PROVE  /\ commandQueue'[b] # <<>>
             /\ Head(commandQueue'[b]) = Head(commandQueue[b])
             /\ isReady(b) => isReady(b)'
  <2> DEFINE q == requestBuffer[i][k]
             x == commandGenerate(q, b)
  <2>1. commandQueue'[b] = commandQueue[b] \o x /\ UNCHANGED cmdQueueTimer
    BY <1>3 DEF ScheduleRequest, TakeRequest
  <2>2. requestBuffer[i] \in Seq(Traffic)
    BY DEF TypeOK
  <2>3. q \in Traffic
    BY <2>2
  <2> HIDE DEF q
  <2>4. x \in Seq(Commands)
    BY <2>3, CommandsType
  <2> HIDE DEF x
  <2>5. /\ commandQueue[b] \o x # <<>>
        /\ Head(commandQueue[b] \o x) = Head(commandQueue[b])
    BY <1>0, <2>4
  <2> QED
    BY <2>1, <2>5 DEF isReady
<1>4. CASE (\E q \in Traffic : SendRequest(q)) \/ Idle \/ EndSchedule
             \/ DeliverRead \/ NoRead \/ NoCommand \/ UNCHANGED vars
  <2>1. UNCHANGED <<commandQueue, cmdQueueTimer>>
    BY <1>4 DEF SendRequest, Idle, EndSchedule, DeliverRead, NoRead, NoCommand,
                vars, commandVars
  <2> QED
    BY <1>1, <2>1
<1>5. CASE DeliverWrite \/ NoWrite
  BY <1>2, <1>5 DEF DeliverWrite, NoWrite
<1>6. ASSUME NEW x \in Banks, IssueCommand(x) PROVE NoCommand
  BY <1>6 DEF IssueCommand, sendCommand
<1> QED
  BY <1>3, <1>4, <1>5, <1>6 DEF Next

(* The first row hit of the general buffer or else the first request, as  *)
(* scheduleFR has it, is one of its requests.                              *)
LEMMA RowHitType ==
    ASSUME 0 \in Buffers, TypeOK, requestBuffer[0] # <<>>
    PROVE  (IF SelectInSeq(requestBuffer[0], isRowHit) = 0 THEN 1
            ELSE SelectInSeq(requestBuffer[0], isRowHit))
               \in DOMAIN requestBuffer[0]
<1> DEFINE s == requestBuffer[0]
           I == {i \in 1..Len(s) : isRowHit(s[i])}
           n == SelectInSeq(s, isRowHit)
<1>1. s \in Seq(Traffic)
  BY DEF TypeOK
<1>2. n = IF I # {} THEN Min(I) ELSE 0
  BY DEF SelectInSeq
<1>3. I \subseteq Nat
  OBVIOUS
<1>4. I # {} => Min(I) \in I
  BY <1>3, MinIsLeast
<1>5. DOMAIN s = 1..Len(s) /\ Len(s) \in Nat /\ Len(s) # 0
  BY <1>1, EmptySeq, LenProperties
<1>6. n \in 0..Len(s)
  <2> HIDE DEF n
  <2> QED
    BY <1>2, <1>4, <1>5
<1> HIDE DEF n, s
<1>7. (IF n = 0 THEN 1 ELSE n) \in DOMAIN s
  BY <1>5, <1>6
<1> QED
  BY <1>7 DEF n, s

(* Type correctness of the channel: the lists of the requestors and the    *)
(* controller hold requests, the pending lists only requests with beats    *)
(* to come, the timers natural numbers.                                    *)
THEOREM TypeCorrect == Spec => []TypeOK
  BY InitType, StepType, PTL DEF Spec

-----------------------------------------------------------------------------
(* The bank's constraints.                                                 *)

(* What the bank still requires of a command type its check does not look  *)
(* at, the queue's timer requires too.  Between the tick of the controller *)
(* and that of the device the timer is one ahead.                          *)
TimersCover ==
    \A b \in Banks : \A t \in Types \ BankScoped :
        IF phase = "device" THEN bankNext[b][t] <= cmdQueueTimer[b][t] + 1
                            ELSE bankNext[b][t] <= cmdQueueTimer[b][t]

(* A step of the controller or the requestors that leaves the timers and   *)
(* the device alone, outside the device's phase.                           *)
LEMMA TimersFrame ==
    ASSUME TypeOK, TimersCover, phase # "device", phase' # "device",
           UNCHANGED <<bankNext, cmdQueueTimer>>
    PROVE  TimersCover'
  BY DEF TimersCover

(* The timers cover the bank after every step.                             *)
LEMMA TimersCoverStep ==
    TypeOK /\ TimersCover /\ [Next]_vars => TimersCover'
<1> SUFFICES ASSUME TypeOK, TimersCover, [Next]_vars PROVE TimersCover'
  OBVIOUS
<1>1. ASSUME NEW q \in Traffic, SendRequest(q) PROVE TimersCover'
  <2>1. phase' # "device"
    BY <1>1 DEF SendRequest, NextRequestor
  <2> QED
    BY <1>1, <2>1, TimersFrame DEF SendRequest, commandVars, deviceVars
<1>2. CASE Idle
  <2>1. phase' # "device"
    BY <1>2 DEF Idle, NextRequestor
  <2> QED
    BY <1>2, <2>1, TimersFrame DEF Idle, commandVars, deviceVars
<1>3. ASSUME NEW i \in Buffers, NEW k \in DOMAIN requestBuffer[i],
             NEW more \in BOOLEAN, ScheduleRequest(i, k, more)
      PROVE  TimersCover'
  <2>1. phase' # "device"
    BY <1>3 DEF ScheduleRequest, TakeRequest, updateRowTable
  <2> QED
    BY <1>3, <2>1, TimersFrame DEF ScheduleRequest, TakeRequest, updateRowTable, deviceVars
<1>4. CASE EndSchedule
  BY <1>4, TimersFrame DEF EndSchedule, commandVars, deviceVars
<1>5. ASSUME NEW b \in Banks, IssueCommand(b) PROVE TimersCover'
  <2> DEFINE c == Head(commandQueue[b]).busPacketType
  <2>1. c \in Types
    <3>1. commandQueue[b] \in Seq(Commands) /\ commandQueue[b] # <<>>
      BY <1>5 DEF IssueCommand, sendCommand, TypeOK, Commands
    <3>2. Head(commandQueue[b]) \in Commands
      BY <3>1
    <3> QED
      BY <3>2 DEF Commands
  <2>2. /\ phase = "command"
        /\ phase' = "data"
        /\ cmdQueueTimer' = [cmdQueueTimer EXCEPT ![b] =
               [u \in Types |-> Later(cmdQueueTimer[b][u], command_timing(c, u))]]
        /\ bankNext' = [bankNext EXCEPT ![b] =
               [u \in Types |-> Later(bankNext[b][u], BankTiming(c, u))]]
    BY <1>5 DEF IssueCommand, sendCommand, DeviceUpdate
  <2> SUFFICES ASSUME NEW a \in Banks, NEW t \in Types \ BankScoped
               PROVE  bankNext'[a][t] <= cmdQueueTimer'[a][t]
    BY <2>2 DEF TimersCover
  <2>3. bankNext[a][t] <= cmdQueueTimer[a][t]
    BY <2>2 DEF TimersCover
  <2>4. bankNext[a][t] \in Nat /\ cmdQueueTimer[a][t] \in Nat
    BY DEF TypeOK, DeviceTypeOK
  <2>5. CASE a # b
    <3>1. bankNext'[a][t] = bankNext[a][t] /\ cmdQueueTimer'[a][t] = cmdQueueTimer[a][t]
      BY <2>2, <2>5 DEF TypeOK, DeviceTypeOK
    <3> QED
      BY <2>3, <3>1
  <2>6. CASE a = b
    <3>1. /\ bankNext'[a][t] = Later(bankNext[a][t], BankTiming(c, t))
          /\ cmdQueueTimer'[a][t] = Later(cmdQueueTimer[a][t], command_timing(c, t))
      BY <2>2, <2>6 DEF TypeOK, DeviceTypeOK
    <3>2. BankTiming(c, t) <= command_timing(c, t)
      BY <2>1, TimersCoverTheBank
    <3>3. BankTiming(c, t) \in Nat /\ command_timing(c, t) \in Nat
      BY <2>1, TimingsAreNat
    <3> HIDE DEF c
    <3> QED
      BY <2>3, <2>4, <3>1, <3>2, <3>3 DEF Later
  <2> QED
    BY <2>5, <2>6
<1>6. CASE NoCommand
  BY <1>6, TimersFrame DEF NoCommand, commandVars, deviceVars
<1>7. CASE DeliverWrite \/ NoWrite
  <2>1. /\ phase = "data"
        /\ phase' = "device"
        /\ bankNext' = bankNext
        /\ cmdQueueTimer' = [b \in Banks |->
                                [t \in Types |-> Down(cmdQueueTimer[b][t])]]
    BY <1>7 DEF DeliverWrite, NoWrite, TickTimers, deviceVars
  <2> SUFFICES ASSUME NEW a \in Banks, NEW t \in Types \ BankScoped
               PROVE  bankNext[a][t] <= Down(cmdQueueTimer[a][t]) + 1
    BY <2>1 DEF TimersCover
  <2>2. bankNext[a][t] <= cmdQueueTimer[a][t]
    BY <2>1 DEF TimersCover
  <2>3. bankNext[a][t] \in Nat /\ cmdQueueTimer[a][t] \in Nat
    BY DEF TypeOK, DeviceTypeOK
  <2> QED
    BY <2>2, <2>3 DEF Down
<1>8. CASE DeliverRead \/ NoRead
  <2>1. /\ phase = "device"
        /\ phase' = "core"
        /\ cmdQueueTimer' = cmdQueueTimer
        /\ bankNext' = [b \in Banks |-> [t \in Types |-> Down(bankNext[b][t])]]
    BY <1>8 DEF DeliverRead, NoRead, DeviceTick, commandVars
  <2> SUFFICES ASSUME NEW a \in Banks, NEW t \in Types \ BankScoped
               PROVE  Down(bankNext[a][t]) <= cmdQueueTimer[a][t]
    BY <2>1 DEF TimersCover
  <2>2. bankNext[a][t] <= cmdQueueTimer[a][t] + 1
    BY <2>1 DEF TimersCover
  <2>3. bankNext[a][t] \in Nat /\ cmdQueueTimer[a][t] \in Nat
    BY DEF TypeOK, DeviceTypeOK
  <2> QED
    BY <2>2, <2>3 DEF Down
<1>9. CASE UNCHANGED vars
  BY <1>9 DEF vars, TimersCover, commandVars, deviceVars
<1> QED
  BY <1>1, <1>2, <1>3, <1>4, <1>5, <1>6, <1>7, <1>8, <1>9 DEF Next

(* In a step that sends the command of bank b, that command was ready: no  *)
(* other action takes a command from the queue.                            *)
LEMMA SentIsReady ==
    ASSUME TypeOK, Next, NEW b \in Banks, sendCommand(b)
    PROVE  isReady(b)
<1>1. commandQueue[b] \in Seq(Commands) /\ commandQueue[b] # <<>>
  BY DEF sendCommand, TypeOK, Commands
<1>2. commandQueue'[b] = Tail(commandQueue[b])
  BY DEF sendCommand, TypeOK
<1>3. commandQueue'[b] # commandQueue[b]
  <2>1. Len(Tail(commandQueue[b])) = Len(commandQueue[b]) - 1
    BY <1>1, HeadTailProperties
  <2>2. Len(commandQueue[b]) \in Nat
    BY <1>1
  <2>3. Len(commandQueue[b]) # Len(commandQueue[b]) - 1
    BY <2>2
  <2>4. Tail(commandQueue[b]) # commandQueue[b]
    BY <2>1, <2>3, Zenon
  <2> QED
    BY <1>2, <2>4
<1>4. phase = "command"
  BY DEF sendCommand
<1>5. PICK a \in Banks : IssueCommand(a)
  BY <1>3, <1>4 DEF Next, SendRequest, Idle, ScheduleRequest, TakeRequest, EndSchedule,
       NoCommand, commandVars, DeliverWrite, NoWrite, DeliverRead, NoRead
<1>6. a = b
  BY <1>3, <1>5 DEF IssueCommand, sendCommand, TypeOK
<1> QED
  BY <1>5, <1>6 DEF IssueCommand

(* A command that is sent meets the constraints of its bank: by the        *)
(* device's check if its scope reaches the bank, by the timers if not.     *)
LEMMA SentMeetsBank ==
    ASSUME TypeOK, TimersCover, [Next]_vars
    PROVE  \A b \in Banks : sendCommand(b) =>
               bankNext[b][Head(commandQueue[b]).busPacketType] = 0
<1> SUFFICES ASSUME NEW b \in Banks, sendCommand(b)
             PROVE  bankNext[b][Head(commandQueue[b]).busPacketType] = 0
  OBVIOUS
<1> DEFINE t == Head(commandQueue[b]).busPacketType
<1>1. phase = "command" /\ phase' = "data"
  BY DEF sendCommand
<1>2. Next
  BY <1>1 DEF vars
<1>3. cmdQueueTimer[b][t] = 0
  BY <1>2, SentIsReady DEF isReady
<1>4. t \in Types
  <2>1. commandQueue[b] \in Seq(Commands) /\ commandQueue[b] # <<>>
    BY DEF sendCommand, TypeOK, Commands
  <2>2. Head(commandQueue[b]) \in Commands
    BY <2>1
  <2> QED
    BY <2>2 DEF Commands
<1>5. CASE t \in BankScoped
  BY <1>5 DEF sendCommand, isIssuable, command_check
<1>6. CASE t \notin BankScoped
  <2>1. bankNext[b][t] <= cmdQueueTimer[b][t]
    BY <1>1, <1>4, <1>6 DEF TimersCover
  <2>2. bankNext[b][t] \in Nat
    BY <1>4 DEF TypeOK, DeviceTypeOK
  <2> QED
    BY <1>3, <2>1, <2>2
<1> QED
  BY <1>5, <1>6

(* Whatever the schedulers choose, a command is sent only once the         *)
(* constraints of its bank have passed, although the device's check skips  *)
(* the bank for ACT, RDA and WRA.                                          *)
THEOREM BankTimingCorrect == Spec => BankTimingMet
<1>1. Init => TimersCover
  <2> SUFFICES ASSUME Init PROVE TimersCover
    OBVIOUS
  <2> QED
    BY DEF Init, DeviceInit, TimersCover
<1>2. TypeOK /\ TimersCover /\ [Next]_vars =>
        [\A b \in Banks : sendCommand(b) =>
             bankNext[b][Head(commandQueue[b]).busPacketType] = 0]_vars
  BY SentMeetsBank
<1> QED
  BY <1>1, <1>2, InitType, StepType, TimersCoverStep, PTL
     DEF Spec, BankTimingMet

-----------------------------------------------------------------------------
(* The rows.                                                               *)

(* The row a bank is left with by a legal command.                         *)
RowAfter(c) == IF c.busPacketType \in Acts \cup {"RD", "WR"}
                   THEN c.request.row ELSE NoRow

(* Each command of a queue is legal after the one before it; its first one *)
(* is legal on a bank with this row open; the row it leaves open.          *)
Chain(s) == \A i \in 1 .. Len(s) - 1 : Legal(s[i + 1], RowAfter(s[i]))
Starts(s, row) == s # <<>> => Legal(s[1], row)
Ends(s, row) == IF s = <<>> THEN row ELSE RowAfter(s[Len(s)])

(* The queued commands of every bank form a legal sequence from the row    *)
(* that is open, and bankTable and first, from which the next commands are *)
(* generated, describe the bank as it will be after the last of them.      *)
BankConsistent(queue, open, table, unused) ==
    /\ Chain(queue)
    /\ Starts(queue, open)
    /\ IF ClosePage
           THEN Ends(queue, open) = NoRow
           ELSE /\ Ends(queue, open) = table
                /\ unused <=> table = NoRow
RowsConsistent ==
    \A b \in Banks :
        BankConsistent(commandQueue[b], openRow[b], bankTable[b], first[b])

(* Where After and RowAfter agree.                                         *)
LEMMA AfterLegal ==
    ASSUME NEW c \in Commands, NEW row, Legal(c, row)
    PROVE  After(c, row) = RowAfter(c)
<1>1. c.busPacketType \in Types
  BY DEF Commands
<1> QED
  BY <1>1 DEF After, RowAfter, Legal, Types, Cas, Reads, Writes, Acts, RoundActs

(* Appending a legal continuation to a legal sequence.                     *)
LEMMA ChainConcat ==
    ASSUME NEW s \in Seq(Commands), NEW t \in Seq(Commands), NEW row,
           Chain(s), Starts(s, row), Chain(t), Starts(t, Ends(s, row))
    PROVE  /\ Chain(s \o t)
           /\ Starts(s \o t, row)
           /\ Ends(s \o t, row) = Ends(t, Ends(s, row))
<1>1. /\ s \o t \in Seq(Commands)
      /\ Len(s \o t) = Len(s) + Len(t)
      /\ \A i \in 1 .. Len(s) + Len(t) :
            (s \o t)[i] = IF i <= Len(s) THEN s[i] ELSE t[i - Len(s)]
  BY ConcatProperties
<1>2. Len(s) \in Nat /\ Len(t) \in Nat
  OBVIOUS
<1>3. (s = <<>> <=> Len(s) = 0) /\ (t = <<>> <=> Len(t) = 0)
      /\ (s \o t = <<>> <=> Len(s \o t) = 0)
  BY <1>1, EmptySeq
<1> DEFINE u == s \o t
<1> HIDE DEF u
<1>4. Chain(u)
  <2> SUFFICES ASSUME NEW i \in 1 .. Len(u) - 1
               PROVE  Legal(u[i + 1], RowAfter(u[i]))
    BY DEF Chain
  <2>0. /\ Len(u) = Len(s) + Len(t)
        /\ \A j \in 1 .. Len(s) + Len(t) :
              u[j] = IF j <= Len(s) THEN s[j] ELSE t[j - Len(s)]
    BY <1>1 DEF u
  <2>1. CASE i + 1 <= Len(s)
    <3>1. u[i] = s[i] /\ u[i + 1] = s[i + 1] /\ i \in 1 .. Len(s) - 1
      BY <2>0, <2>1, <1>2
    <3> QED
      BY <3>1 DEF Chain
  <2>2. CASE i = Len(s)
    <3>1. u[i] = s[Len(s)] /\ u[i + 1] = t[1] /\ s # <<>> /\ t # <<>>
      BY <2>0, <2>2, <1>2, <1>3
    <3> QED
      BY <3>1 DEF Starts, Ends
  <2>3. CASE i > Len(s)
    <3>1. /\ u[i] = t[i - Len(s)] /\ u[i + 1] = t[(i - Len(s)) + 1]
          /\ i - Len(s) \in 1 .. Len(t) - 1
      BY <2>0, <2>3, <1>2
    <3> QED
      BY <3>1 DEF Chain
  <2> QED
    BY <2>0, <2>1, <2>2, <2>3, <1>2
<1>5. Starts(u, row)
  <2>1. CASE s = <<>>
    <3>1. u = t
      BY <2>1, ConcatEmptySeq DEF u
    <3> QED
      BY <2>1, <3>1 DEF Starts, Ends
  <2>2. CASE s # <<>>
    <3>1. u[1] = s[1]
      BY <2>2, <1>1, <1>2, <1>3 DEF u
    <3> QED
      BY <2>2, <3>1 DEF Starts
  <2> QED
    BY <2>1, <2>2
<1>6. Ends(u, row) = Ends(t, Ends(s, row))
  <2>1. CASE t = <<>>
    <3>1. u = s
      BY <2>1, ConcatEmptySeq DEF u
    <3> QED
      BY <2>1, <3>1 DEF Ends
  <2>2. CASE t # <<>>
    <3>1. u # <<>> /\ u[Len(u)] = t[Len(t)]
      BY <2>2, <1>1, <1>2, <1>3 DEF u
    <3> QED
      BY <2>2, <3>1 DEF Ends
  <2> QED
    BY <2>1, <2>2
<1> QED
  BY <1>4, <1>5, <1>6 DEF u

(* Taking the first command off a legal sequence and executing it.         *)
LEMMA ChainTail ==
    ASSUME NEW s \in Seq(Commands), NEW row, s # <<>>, Chain(s), Starts(s, row)
    PROVE  /\ Legal(Head(s), row)
           /\ Chain(Tail(s))
           /\ Starts(Tail(s), After(Head(s), row))
           /\ Ends(Tail(s), After(Head(s), row)) = Ends(s, row)
<1>1. /\ Head(s) \in Commands /\ Head(s) = s[1]
      /\ Tail(s) \in Seq(Commands)
      /\ Len(Tail(s)) = Len(s) - 1
      /\ \A i \in 1 .. Len(Tail(s)) : Tail(s)[i] = s[i + 1]
  BY HeadTailProperties
<1>2. Len(s) \in Nat /\ Len(s) # 0
  BY EmptySeq
<1>3. Legal(Head(s), row)
  BY <1>1 DEF Starts
<1>4. After(Head(s), row) = RowAfter(s[1])
  BY <1>1, <1>3, AfterLegal
<1> DEFINE u == Tail(s)
<1>5. u = <<>> <=> Len(u) = 0
  BY <1>1, EmptySeq
<1>6. /\ Len(u) = Len(s) - 1
      /\ \A i \in 1 .. Len(u) : u[i] = s[i + 1]
  BY <1>1
<1> HIDE DEF u
<1>7. Chain(u)
  <2> SUFFICES ASSUME NEW i \in 1 .. Len(u) - 1
               PROVE  Legal(u[i + 1], RowAfter(u[i]))
    BY DEF Chain
  <2>1. u[i] = s[i + 1] /\ u[i + 1] = s[(i + 1) + 1] /\ i + 1 \in 1 .. Len(s) - 1
    BY <1>2, <1>6
  <2> QED
    BY <2>1 DEF Chain
<1>8. Starts(u, RowAfter(s[1]))
  <2> SUFFICES ASSUME u # <<>> PROVE Legal(u[1], RowAfter(s[1]))
    BY DEF Starts
  <2>1. u[1] = s[1 + 1] /\ 1 \in 1 .. Len(s) - 1
    BY <1>2, <1>5, <1>6
  <2> QED
    BY <2>1 DEF Chain
<1>9. Ends(u, RowAfter(s[1])) = Ends(s, row)
  <2>1. CASE u = <<>>
    <3>1. Len(s) = 1
      BY <2>1, <1>2, <1>5, <1>6
    <3>2. Ends(s, row) = RowAfter(s[1])
      BY <3>1 DEF Ends
    <3> QED
      BY <2>1, <3>2 DEF Ends
  <2>2. CASE u # <<>>
    <3>1. u[Len(u)] = s[Len(s)]
      BY <2>2, <1>2, <1>5, <1>6
    <3> QED
      BY <2>2, <3>1 DEF Ends
  <2> QED
    BY <2>1, <2>2
<1> QED
  BY <1>3, <1>4, <1>7, <1>8, <1>9 DEF u

(* What the open-page generator appends continues from the row bankTable   *)
(* names and leaves the request's own row open.                            *)
LEMMA OpenChain ==
    ASSUME TypeOK, NEW q \in Traffic,
           first[q.bank] <=> bankTable[q.bank] = NoRow
    PROVE  /\ Chain(OpenCommands(q))
           /\ Starts(OpenCommands(q), bankTable[q.bank])
           /\ Ends(OpenCommands(q), bankTable[q.bank]) = q.row
<1> DEFINE row == bankTable[q.bank]
           opening == IF isRowHit(q) THEN <<>>
                      ELSE IF first[q.bank] THEN <<Command("ACT", q)>>
                      ELSE <<Command("PRE", q), Command("ACT", q)>>
           cas == Command(IF IsRead(q) THEN "RD" ELSE "WR", q)
           burst == [i \in 1..Beats |-> cas]
<1>1. q.row \in Nat /\ q.row # NoRow /\ Beats \in Nat \ {0}
  BY ControllerAssumption
<1>2. OpenCommands(q) = opening \o burst
  BY DEF OpenCommands
<1>3. /\ Command("ACT", q) \in Commands /\ Command("PRE", q) \in Commands
      /\ cas \in Commands
  BY DEF Command, Commands, Types, Cas, Reads, Writes, Acts, RoundActs
<1>4. opening \in Seq(Commands)
  BY <1>3
<1>5. burst \in Seq(Commands) /\ Len(burst) = Beats
      /\ \A i \in 1..Beats : burst[i] = cas
  BY <1>1, <1>3, IsASeq
<1>6. /\ RowAfter(cas) = q.row /\ Legal(cas, q.row)
      /\ RowAfter(Command("ACT", q)) = q.row /\ Legal(Command("ACT", q), NoRow)
      /\ RowAfter(Command("PRE", q)) = NoRow
      /\ row # NoRow => Legal(Command("PRE", q), row)
  BY DEF RowAfter, Legal, Command, Cas, Reads, Writes, Acts, RoundActs
<1>7. Chain(opening) /\ Starts(opening, row) /\ Ends(opening, row) = q.row
  <2>1. CASE isRowHit(q)
    <3>1. opening = <<>> /\ row = q.row
      BY <2>1 DEF isRowHit
    <3> HIDE DEF opening, row
    <3> QED
      BY <3>1 DEF Chain, Starts, Ends
  <2>2. CASE ~isRowHit(q) /\ first[q.bank]
    <3>1. opening = <<Command("ACT", q)>> /\ row = NoRow
      BY <2>2
    <3> HIDE DEF opening, row
    <3>2. Len(opening) = 1 /\ opening[1] = Command("ACT", q) /\ opening # <<>>
      BY <3>1
    <3> QED
      BY <3>1, <3>2, <1>6 DEF Chain, Starts, Ends
  <2>3. CASE ~isRowHit(q) /\ ~first[q.bank]
    <3>1. opening = <<Command("PRE", q), Command("ACT", q)>> /\ row # NoRow
      BY <2>3
    <3> HIDE DEF opening, row
    <3>2. /\ Len(opening) = 2 /\ opening # <<>>
          /\ opening[1] = Command("PRE", q) /\ opening[2] = Command("ACT", q)
      BY <3>1
    <3>3. Chain(opening)
      <4> SUFFICES ASSUME NEW i \in 1 .. Len(opening) - 1
                   PROVE  Legal(opening[i + 1], RowAfter(opening[i]))
        BY DEF Chain
      <4>1. i = 1 /\ i + 1 = 2
        BY <3>2
      <4> QED
        BY <4>1, <3>2, <1>6
    <3> QED
      BY <3>1, <3>2, <3>3, <1>6 DEF Starts, Ends
  <2> QED
    BY <2>1, <2>2, <2>3
<1> HIDE DEF opening, burst, row, cas
<1>8. Chain(burst) /\ Starts(burst, q.row) /\ Ends(burst, q.row) = q.row
  <2>1. Chain(burst)
    <3> SUFFICES ASSUME NEW i \in 1 .. Len(burst) - 1
                 PROVE  Legal(burst[i + 1], RowAfter(burst[i]))
      BY DEF Chain
    <3>1. burst[i] = cas /\ burst[i + 1] = cas
      BY <1>1, <1>5
    <3> QED
      BY <3>1, <1>6
  <2>2. burst[1] = cas /\ burst[Len(burst)] = cas /\ burst # <<>>
    BY <1>1, <1>5
  <2> QED
    BY <2>1, <2>2, <1>6 DEF Starts, Ends
<1>9. /\ Chain(opening \o burst)
      /\ Starts(opening \o burst, row)
      /\ Ends(opening \o burst, row) = q.row
  BY <1>4, <1>5, <1>7, <1>8, ChainConcat
<1> QED
  BY <1>2, <1>9 DEF row

(* What the close-page generator appends to a queue starts and ends with   *)
(* the bank closed.                                                        *)
LEMMA CloseChain ==
    ASSUME NEW q \in Traffic, NEW b \in Banks
    PROVE  /\ Chain(CloseCommands(q, b))
           /\ Starts(CloseCommands(q, b), NoRow)
           /\ Ends(CloseCommands(q, b), NoRow) = NoRow
<1> DEFINE t == CloseCommands(q, b)
           act == Command("ACT", q)
           cas == Command(IF IsRead(q) THEN "RDA" ELSE "WRA", q)
<1>1. t = <<>> \/ t = <<act, cas>> \/ t = <<act, cas, act, cas>>
  BY DEF CloseCommands
<1>2. /\ Legal(act, NoRow) /\ RowAfter(act) = q.row
      /\ Legal(cas, q.row) /\ RowAfter(cas) = NoRow
  BY DEF RowAfter, Legal, Command, Cas, Reads, Writes, Acts, RoundActs
<1> HIDE DEF t, act, cas
<1>3. CASE t = <<>>
  BY <1>3 DEF Chain, Starts, Ends, t
<1>4. CASE t = <<act, cas>> \/ t = <<act, cas, act, cas>>
  <2>1. /\ Len(t) \in {2, 4} /\ t # <<>> /\ t[1] = act /\ t[2] = cas
        /\ Len(t) = 4 => t[3] = act /\ t[4] = cas
    BY <1>4
  <2>2. t[Len(t)] = cas
    BY <2>1
  <2>3. Chain(t)
    <3> SUFFICES ASSUME NEW i \in 1 .. Len(t) - 1
                 PROVE  Legal(t[i + 1], RowAfter(t[i]))
      BY DEF Chain
    <3> DEFINE n == Len(t)
    <3>0. n = 2 \/ n = 4
      BY <2>1
    <3>1. (i = 1 /\ i + 1 = 2) \/ (n = 4 /\ i = 2 /\ i + 1 = 3)
          \/ (n = 4 /\ i = 3 /\ i + 1 = 4)
      <4>1. i \in 1 .. n - 1
        OBVIOUS
      <4> HIDE DEF n
      <4> QED
        BY <3>0, <4>1
    <3> QED
      BY <3>1, <2>1, <1>2
  <2> QED
    BY <2>1, <2>2, <2>3, <1>2 DEF Starts, Ends, t
<1> QED
  BY <1>1, <1>3, <1>4

(* A step that leaves the queues, the rows and the row table alone.        *)
LEMMA RowsFrame ==
    ASSUME RowsConsistent, UNCHANGED <<commandQueue, openRow, bankTable, first>>
    PROVE  RowsConsistent'
  BY DEF RowsConsistent

(* Scheduling a request appends commands that continue the queue legally.  *)
LEMMA RowsScheduled ==
    ASSUME TypeOK, RowsConsistent,
           NEW i \in Buffers, NEW k \in DOMAIN requestBuffer[i],
           NEW more \in BOOLEAN, ScheduleRequest(i, k, more)
    PROVE  RowsConsistent'
<1> DEFINE q == requestBuffer[i][k]
<1>1. q \in Traffic
  <2>1. requestBuffer[i] \in Seq(Traffic)
    BY DEF TypeOK
  <2> QED
    BY <2>1
<1> HIDE DEF q
<1>2. q.bank \in Banks /\ q.row \in Nat /\ q.row # NoRow
  BY <1>1, ControllerAssumption
<1>3. /\ commandQueue' = [b \in Banks |->
             commandQueue[b] \o commandGenerate(q, b)]
      /\ first' = IF ClosePage \/ isRowHit(q) THEN first
                  ELSE [first EXCEPT ![q.bank] = FALSE]
      /\ bankTable' = IF ClosePage THEN bankTable
                      ELSE [bankTable EXCEPT ![q.bank] = q.row]
      /\ openRow' = openRow
  BY DEF ScheduleRequest, TakeRequest, updateRowTable, q
<1> SUFFICES ASSUME NEW b \in Banks
             PROVE  BankConsistent(commandQueue'[b], openRow[b],
                                   bankTable'[b], first'[b])
  BY <1>3 DEF RowsConsistent
<1>0. BankConsistent(commandQueue[b], openRow[b], bankTable[b], first[b])
  BY DEF RowsConsistent
<1> DEFINE s == commandQueue[b]
           t == commandGenerate(q, b)
<1>4. s \in Seq(Commands) /\ t \in Seq(Commands)
  BY <1>1, CommandsType DEF TypeOK, Commands
<1>5. commandQueue'[b] = s \o t
  BY <1>3
<1>6. Chain(s) /\ Starts(s, openRow[b])
  BY <1>0 DEF BankConsistent
<1> HIDE DEF s, t
<1>7. CASE ClosePage
  <2>1. Ends(s, openRow[b]) = NoRow
    BY <1>0, <1>7 DEF BankConsistent, s
  <2>2. t = CloseCommands(q, b)
    BY <1>7 DEF commandGenerate, t
  <2>3. Chain(t) /\ Starts(t, NoRow) /\ Ends(t, NoRow) = NoRow
    BY <1>1, <2>2, CloseChain
  <2>4. /\ Chain(s \o t) /\ Starts(s \o t, openRow[b])
        /\ Ends(s \o t, openRow[b]) = NoRow
    BY <1>4, <1>6, <2>1, <2>3, ChainConcat
  <2> QED
    BY <1>5, <1>7, <2>4 DEF BankConsistent
<1>8. CASE ~ClosePage /\ b = q.bank
  <2>1. /\ Ends(s, openRow[b]) = bankTable[b]
        /\ first[b] <=> bankTable[b] = NoRow
    BY <1>0, <1>8 DEF BankConsistent, s
  <2>2. t = OpenCommands(q)
    BY <1>8 DEF commandGenerate, t
  <2>3. Chain(t) /\ Starts(t, bankTable[b]) /\ Ends(t, bankTable[b]) = q.row
    BY <1>1, <1>8, <2>1, <2>2, OpenChain
  <2>4. /\ Chain(s \o t) /\ Starts(s \o t, openRow[b])
        /\ Ends(s \o t, openRow[b]) = q.row
    BY <1>4, <1>6, <2>1, <2>3, ChainConcat
  <2>5. bankTable'[b] = q.row
    BY <1>2, <1>3, <1>8 DEF TypeOK
  <2>6. first'[b] = FALSE
    <3>1. CASE isRowHit(q)
      <4>1. bankTable[b] = q.row
        BY <3>1, <1>8 DEF isRowHit
      <4>2. first[b] \in BOOLEAN
        BY DEF TypeOK
      <4> QED
        BY <3>1, <4>1, <4>2, <1>2, <1>3, <2>1
    <3>2. CASE ~isRowHit(q)
      BY <3>2, <1>2, <1>3, <1>8 DEF TypeOK
    <3> QED
      BY <3>1, <3>2
  <2> QED
    BY <1>2, <1>5, <1>8, <2>4, <2>5, <2>6 DEF BankConsistent
<1>9. CASE ~ClosePage /\ b # q.bank
  <2>1. t = <<>>
    BY <1>9 DEF commandGenerate, t
  <2>2. s \o t = s
    BY <1>4, <2>1, ConcatEmptySeq
  <2>3. bankTable'[b] = bankTable[b] /\ first'[b] = first[b]
    BY <1>2, <1>3, <1>9 DEF TypeOK
  <2>4. /\ Ends(s, openRow[b]) = bankTable[b]
        /\ first[b] <=> bankTable[b] = NoRow
    BY <1>0, <1>9 DEF BankConsistent, s
  <2> QED
    BY <1>5, <1>6, <1>9, <2>2, <2>3, <2>4 DEF BankConsistent
<1> QED
  BY <1>7, <1>8, <1>9

(* Issuing the first command of a queue leaves the rest legal on the row   *)
(* that the command leaves open.                                           *)
LEMMA RowsIssued ==
    ASSUME TypeOK, RowsConsistent, NEW a \in Banks, sendCommand(a)
    PROVE  RowsConsistent' /\ Legal(Head(commandQueue[a]), openRow[a])
<1> DEFINE s == commandQueue[a]
           row == openRow[a]
<1>1. s \in Seq(Commands) /\ s # <<>>
  BY DEF sendCommand, TypeOK, Commands
<1>2. /\ commandQueue' = [commandQueue EXCEPT ![a] = Tail(s)]
      /\ openRow' = [openRow EXCEPT ![a] = After(Head(s), row)]
      /\ bankTable' = bankTable /\ first' = first
  BY DEF sendCommand, requestVars
<1>3. Chain(s) /\ Starts(s, row)
  BY DEF RowsConsistent, BankConsistent
<1> HIDE DEF s, row
<1>4. /\ Legal(Head(s), row)
      /\ Chain(Tail(s))
      /\ Starts(Tail(s), After(Head(s), row))
      /\ Ends(Tail(s), After(Head(s), row)) = Ends(s, row)
  BY <1>1, <1>3, ChainTail
<1>5. ASSUME NEW b \in Banks
      PROVE  BankConsistent(commandQueue'[b], openRow'[b],
                            bankTable[b], first[b])
  <2>0. BankConsistent(commandQueue[b], openRow[b], bankTable[b], first[b])
    BY DEF RowsConsistent
  <2>1. CASE b = a
    <3>1. commandQueue'[b] = Tail(s) /\ openRow'[b] = After(Head(s), row)
      BY <1>2, <2>1 DEF TypeOK
    <3>2. IF ClosePage THEN Ends(s, row) = NoRow
          ELSE Ends(s, row) = bankTable[b] /\ (first[b] <=> bankTable[b] = NoRow)
      BY <2>0, <2>1 DEF BankConsistent, s, row
    <3> QED
      BY <1>4, <3>1, <3>2 DEF BankConsistent
  <2>2. CASE b # a
    <3>1. commandQueue'[b] = commandQueue[b] /\ openRow'[b] = openRow[b]
      BY <1>2, <2>2 DEF TypeOK
    <3> QED
      BY <2>0, <3>1
  <2> QED
    BY <2>1, <2>2
<1>6. RowsConsistent'
  BY <1>2, <1>5 DEF RowsConsistent
<1> QED
  BY <1>4, <1>6 DEF s, row

(* The queues and the row table stay consistent.                           *)
LEMMA RowsStep == TypeOK /\ RowsConsistent /\ [Next]_vars => RowsConsistent'
<1> SUFFICES ASSUME TypeOK, RowsConsistent, [Next]_vars PROVE RowsConsistent'
  OBVIOUS
<1>1. ASSUME NEW q \in Traffic, SendRequest(q) PROVE RowsConsistent'
  BY <1>1, RowsFrame DEF SendRequest, commandVars
<1>2. CASE Idle
  BY <1>2, RowsFrame DEF Idle, requestVars, commandVars
<1>3. ASSUME NEW i \in Buffers, NEW k \in DOMAIN requestBuffer[i],
             NEW more \in BOOLEAN, ScheduleRequest(i, k, more)
      PROVE  RowsConsistent'
  BY <1>3, RowsScheduled
<1>4. CASE EndSchedule
  BY <1>4, RowsFrame DEF EndSchedule, requestVars, commandVars
<1>5. ASSUME NEW b \in Banks, IssueCommand(b) PROVE RowsConsistent'
  BY <1>5, RowsIssued DEF IssueCommand
<1>6. CASE NoCommand
  BY <1>6, RowsFrame DEF NoCommand, requestVars, commandVars
<1>7. CASE DeliverWrite
  BY <1>7, RowsFrame DEF DeliverWrite, requestVars
<1>8. CASE NoWrite
  BY <1>8, RowsFrame DEF NoWrite, requestVars
<1>9. CASE DeliverRead
  BY <1>9, RowsFrame DEF DeliverRead, requestVars, commandVars
<1>10. CASE NoRead
  BY <1>10, RowsFrame DEF NoRead, requestVars, commandVars
<1>11. CASE UNCHANGED vars
  BY <1>11, RowsFrame DEF vars, requestVars, commandVars
<1> QED
  BY <1>1, <1>2, <1>3, <1>4, <1>5, <1>6, <1>7, <1>8, <1>9, <1>10, <1>11
     DEF Next

(* Whatever the schedulers choose, a CAS finds its own row open, an        *)
(* activation a closed bank and a precharge an open one: the row table the *)
(* generators consult when a request is scheduled is right for the moment  *)
(* its commands are issued.                                                *)
THEOREM RowsCorrect == Spec => RowLegal
<1>1. Init => RowsConsistent
  <2> SUFFICES ASSUME Init PROVE RowsConsistent
    OBVIOUS
  <2>1. \A b \in Banks : /\ commandQueue[b] = <<>> /\ openRow[b] = NoRow
                         /\ bankTable[b] = NoRow /\ first[b] = TRUE
    BY DEF Init
  <2>2. BankConsistent(<<>>, NoRow, NoRow, TRUE)
    BY DEF BankConsistent, Chain, Starts, Ends
  <2> QED
    BY <2>1, <2>2 DEF RowsConsistent
<1>2. TypeOK /\ RowsConsistent /\ [Next]_vars =>
        [\A b \in Banks : sendCommand(b) =>
             Legal(Head(commandQueue[b]), openRow[b])]_vars
  BY RowsIssued
<1> QED
  BY <1>1, <1>2, InitType, StepType, RowsStep, PTL DEF Spec, RowLegal

-----------------------------------------------------------------------------
(* Counting in lists: entry x of a list stands for m[x] tokens, and the    *)
(* weight of the list is the number of its tokens.                         *)
Toks(s, m) == {t \in (1..Len(s)) \X (1..Beats) : t[2] <= m[s[t[1]]]}
Weight(s, m) == Cardinality(Toks(s, m))

(* Two sets of which one maps one to one onto the other have as many       *)
(* elements.                                                               *)
LEMMA SameSize ==
    ASSUME NEW S, NEW T, IsFiniteSet(S), NEW f \in [S -> T],
           \A x, y \in S : f[x] = f[y] => x = y,
           \A t \in T : \E x \in S : f[x] = t
    PROVE  IsFiniteSet(T) /\ Cardinality(T) = Cardinality(S)
<1>1. f \in Bijection(S, T)
  BY DEF Bijection, Injection, Surjection, IsInjective
<1> QED
  BY <1>1, FS_Bijection DEF ExistsBijection

(* How many there are of some of the requestors.                           *)
LEMMA SomeRequestors ==
    ASSUME NEW S \in SUBSET Requestors
    PROVE  /\ Cardinality(S) \in 0 .. NumRequestors
           /\ Cardinality(S) = 0 <=> S = {}
           /\ \A p \in S : Cardinality(S \ {p}) = Cardinality(S) - 1
<1>1. IsFiniteSet(Requestors) /\ Cardinality(Requestors) = NumRequestors
  BY FS_Interval, ControllerAssumption DEF Requestors
<1>2. IsFiniteSet(S) /\ Cardinality(S) <= NumRequestors
  BY <1>1, FS_Subset
<1>3. Cardinality(S) \in Nat
  BY <1>2, FS_CardinalityType
<1> QED
  BY <1>2, <1>3, FS_EmptySet, FS_RemoveElement, ControllerAssumption

(* The values of a function on a finite set are finitely many.             *)
LEMMA FiniteValues ==
    ASSUME NEW S, IsFiniteSet(S), NEW f, DOMAIN f = S
    PROVE  IsFiniteSet({f[x] : x \in S})
<1> DEFINE T == {f[x] : x \in S}
           g == [x \in S |-> f[x]]
<1>1. g \in Surjection(S, T)
  BY DEF Surjection
<1> QED
  BY <1>1, FS_Surjection

(* The times of the queued commands, and the rank of each among them.      *)
TimesOf(times) == UNION {Range(times[b]) : b \in Banks}
Ranked(times) ==
    [b \in Banks |-> [k \in DOMAIN times[b] |->
        Cardinality({u \in TimesOf(times) : u < times[b][k]})]]

(* The ranks, which the schedulers that compare arrival times go by, are   *)
(* numbers.                                                                *)
LEMMA RankedType ==
    ASSUME NEW times \in [Banks -> Seq(Nat)]
    PROVE  /\ Ranked(times) \in [Banks -> Seq(Nat)]
           /\ Cardinality(TimesOf(times)) \in Nat
           /\ \A b \in Banks : Len(Ranked(times)[b]) = Len(times[b])
<1> DEFINE left == TimesOf(times)
           Below(t) == Cardinality({u \in left : u < t})
           rank(b) == [k \in DOMAIN times[b] |-> Below(times[b][k])]
<1>1. IsFiniteSet(Banks)
  <2>1. Banks \subseteq 0 .. 15
    BY ControllerAssumption
  <2>2. IsFiniteSet(0 .. 15)
    <3>1. 0 \in Int /\ 15 \in Int
      OBVIOUS
    <3> QED
      BY <3>1, FS_Interval, Zenon
  <2> QED
    BY <2>1, <2>2, FS_Subset
<1>2. ASSUME NEW b \in Banks PROVE IsFiniteSet(Range(times[b]))
  <2>1. DOMAIN times[b] = 1 .. Len(times[b]) /\ Len(times[b]) \in Nat
    OBVIOUS
  <2>2. IsFiniteSet(DOMAIN times[b])
    BY <2>1, FS_Interval
  <2> QED
    BY <2>2, FiniteValues DEF Range
<1>3. IsFiniteSet(left)
  <2> DEFINE ranges == [b \in Banks |-> Range(times[b])]
  <2>1. IsFiniteSet({ranges[b] : b \in Banks})
    BY <1>1, FiniteValues
  <2>2. {ranges[b] : b \in Banks} = {Range(times[b]) : b \in Banks}
    OBVIOUS
  <2>3. \A x \in {Range(times[b]) : b \in Banks} : IsFiniteSet(x)
    BY <1>2
  <2> QED
    BY <2>1, <2>2, <2>3, FS_UNION DEF TimesOf
<1> HIDE DEF left
<1>4. \A t : Below(t) \in Nat
  <2> TAKE t
  <2>1. {u \in left : u < t} \subseteq left
    OBVIOUS
  <2>2. IsFiniteSet({u \in left : u < t})
    BY <1>3, <2>1, FS_Subset
  <2> QED
    BY <2>2, FS_CardinalityType
<1> HIDE DEF Below
<1>5. ASSUME NEW b \in Banks
      PROVE  rank(b) \in Seq(Nat) /\ Len(rank(b)) = Len(times[b])
  <2> DEFINE s == [k \in 1 .. Len(times[b]) |-> Below(times[b][k])]
  <2>1. DOMAIN times[b] = 1 .. Len(times[b]) /\ Len(times[b]) \in Nat
    OBVIOUS
  <2>2. s \in Seq(Nat) /\ Len(s) = Len(times[b])
    BY <1>4, <2>1, IsASeq, LenProperties
  <2> QED
    BY <2>1, <2>2
<1>6. Cardinality(left) \in Nat
  BY <1>3, FS_CardinalityType
<1>7. [b \in Banks |-> rank(b)] \in [Banks -> Seq(Nat)]
  BY <1>5
<1>8. Ranked(times) = [b \in Banks |-> rank(b)]
  BY DEF Ranked, left, Below
<1> HIDE DEF rank
<1> QED
  BY <1>5, <1>6, <1>7, <1>8 DEF left

(* Every command of the queues cq has an arrival time, in at.              *)
Timed(at, cq) ==
    /\ at \in [Banks -> Seq(Nat)]
    /\ \A b \in Banks : Len(at[b]) = Len(cq[b])

(* The times, when the commands by which queues new exceeds queues old     *)
(* arrive at time n.                                                       *)
TimesAfter(at, n, old, new) ==
    [b \in Banks |-> at[b] \o [k \in 1 .. Len(new[b]) - Len(old[b]) |-> n]]

(* The commands of a request get theirs.                                   *)
LEMMA TimedArrivals ==
    ASSUME TypeOK, NEW i \in Buffers, NEW k \in DOMAIN requestBuffer[i],
           NEW more \in BOOLEAN, ScheduleRequest(i, k, more),
           NEW at, Timed(at, commandQueue), NEW n \in Nat
    PROVE  Timed(TimesAfter(at, n, commandQueue, commandQueue'), commandQueue')
<1> DEFINE q == requestBuffer[i][k]
           T(b) == at[b] \o [j \in 1 .. Len(commandQueue'[b]) -
                                        Len(commandQueue[b]) |-> n]
<1>1. requestBuffer[i] \in Seq(Traffic)
  BY DEF TypeOK
<1>2. q \in Traffic
  BY <1>1
<1> HIDE DEF q
<1>3. ASSUME NEW b \in Banks
      PROVE  T(b) \in Seq(Nat) /\ Len(T(b)) = Len(commandQueue'[b])
  <2> DEFINE x == commandGenerate(q, b)
             m == Len(x)
             new == [j \in 1 .. m |-> n]
  <2>1. x \in Seq(Commands) /\ commandQueue[b] \in Seq(Commands)
    BY <1>2, CommandsType DEF TypeOK, Commands
  <2>2. commandQueue'[b] = commandQueue[b] \o x
    BY DEF ScheduleRequest, TakeRequest, q
  <2> HIDE DEF x
  <2>3. /\ m \in Nat /\ Len(commandQueue[b]) \in Nat
        /\ Len(commandQueue'[b]) = Len(commandQueue[b]) + m
    BY <2>1, <2>2
  <2>4. Len(commandQueue'[b]) - Len(commandQueue[b]) = m
    BY <2>3
  <2>5. new \in Seq(Nat) /\ Len(new) = m
    <3>1. new \in [1 .. m -> Nat]
      OBVIOUS
    <3> QED
      BY <2>3, <3>1
  <2>6. T(b) = at[b] \o new
    BY <2>4
  <2>7. at[b] \in Seq(Nat) /\ Len(at[b]) = Len(commandQueue[b])
    BY DEF Timed
  <2> HIDE DEF new, m, T
  <2>8. at[b] \o new \in Seq(Nat) /\ Len(at[b] \o new) = Len(at[b]) + m
    BY <2>5, <2>7, ConcatProperties
  <2> QED
    BY <2>3, <2>6, <2>7, <2>8
<1>4. TimesAfter(at, n, commandQueue, commandQueue') = [b \in Banks |-> T(b)]
  BY DEF TimesAfter
<1> HIDE DEF T
<1> QED
  BY <1>3, <1>4 DEF Timed

(* The head of a queue leaves with its time, or none does.                 *)
LEMMA TimedLeave ==
    ASSUME TypeOK, NEW b \in Banks, sendCommand(b),
           NEW at, Timed(at, commandQueue)
    PROVE  /\ Timed(Ranked([at EXCEPT ![b] = Tail(@)]), commandQueue')
           /\ Cardinality(TimesOf([at EXCEPT ![b] = Tail(@)])) \in Nat
<1> DEFINE times == [at EXCEPT ![b] = Tail(@)]
<1>1. /\ commandQueue[b] # <<>>
      /\ commandQueue' = [commandQueue EXCEPT ![b] = Tail(@)]
  BY DEF sendCommand
<1>2. /\ commandQueue[b] \in Seq(Commands)
      /\ commandQueue \in [Banks -> Seq(Commands)]
      /\ at[b] \in Seq(Nat) /\ Len(at[b]) = Len(commandQueue[b])
  BY DEF TypeOK, Commands, Timed
<1>3. /\ Tail(at[b]) \in Seq(Nat)
      /\ Len(Tail(at[b])) = Len(Tail(commandQueue[b]))
  <2>1. at[b] # <<>>
    BY <1>1, <1>2
  <2> QED
    BY <1>1, <1>2, <2>1
<1>4. times \in [Banks -> Seq(Nat)]
  BY <1>3 DEF Timed
<1>5. \A x \in Banks : Len(times[x]) = Len(commandQueue'[x])
  BY <1>1, <1>2, <1>3 DEF Timed
<1> HIDE DEF times
<1>6. Timed(Ranked(times), commandQueue') /\ Cardinality(TimesOf(times)) \in Nat
  BY <1>4, <1>5, RankedType DEF Timed
<1> QED
  BY <1>6 DEF times

LEMMA TimedStay ==
    ASSUME NEW at, NEW cq, Timed(at, cq)
    PROVE  Timed(Ranked(at), cq) /\ Cardinality(TimesOf(at)) \in Nat
  BY RankedType DEF Timed

(* The queue, of those in S, whose head came first; of several, the first. *)
FirstCome(at, S) ==
    CHOOSE b \in S : \A x \in S \ {b} :
        Head(at[b]) < Head(at[x]) \/ (Head(at[b]) = Head(at[x]) /\ b < x)

(* There is such a queue.                                                  *)
LEMMA FirstComeIs ==
    ASSUME TypeOK, NEW at, Timed(at, commandQueue), NEW S \in SUBSET Banks,
           S # {}, \A b \in S : commandQueue[b] # <<>>
    PROVE  /\ FirstCome(at, S) \in S
           /\ \A x \in S : Head(at[FirstCome(at, S)]) <= Head(at[x])
<1>1. \A b \in S : b \in Nat /\ Head(at[b]) \in Nat
  <2> TAKE b \in S
  <2>0. commandQueue[b] \in Seq(Commands) /\ commandQueue[b] # <<>>
    BY DEF TypeOK, Commands
  <2>1. at[b] \in Seq(Nat) /\ Len(at[b]) # 0
    BY <2>0 DEF Timed
  <2>2. Head(at[b]) \in Nat
    BY <2>1
  <2>3. Banks \subseteq Nat
    BY ControllerAssumption
  <2> QED
    BY <2>2, <2>3
<1> DEFINE H == {Head(at[b]) : b \in S}
           h == Min(H)
<1>2. H \in SUBSET Nat /\ H # {}
  BY <1>1
<1>3. h \in H /\ \A u \in H : h <= u
  BY <1>2, MinIsLeast
<1> HIDE DEF h
<1> DEFINE F == {b \in S : Head(at[b]) = h}
           o == Min(F)
<1>4. F \in SUBSET Nat /\ F # {}
  BY <1>1, <1>3
<1>5. o \in F /\ \A x \in F : o <= x
  BY <1>4, MinIsLeast
<1> HIDE DEF o
<1>6. \A x \in S \ {o} :
          Head(at[o]) < Head(at[x]) \/ (Head(at[o]) = Head(at[x]) /\ o < x)
  <2> TAKE x \in S \ {o}
  <2>1. Head(at[x]) \in H /\ Head(at[o]) = h /\ o \in Nat /\ x \in Nat
        /\ Head(at[x]) \in Nat /\ Head(at[o]) \in Nat
    BY <1>1, <1>5
  <2>2. h <= Head(at[x])
    BY <1>3, <2>1
  <2>3. CASE Head(at[x]) = h
    BY <1>5, <2>1, <2>3
  <2>4. CASE Head(at[x]) # h
    BY <2>1, <2>2, <2>4
  <2> QED
    BY <2>3, <2>4
<1>7. o \in S
  BY <1>5
<1> DEFINE p == FirstCome(at, S)
<1>8. p \in S /\ \A x \in S \ {p} :
          Head(at[p]) < Head(at[x]) \/ (Head(at[p]) = Head(at[x]) /\ p < x)
  BY <1>6, <1>7 DEF FirstCome
<1> HIDE DEF p
<1>9. \A x \in S : Head(at[p]) <= Head(at[x])
  BY <1>1, <1>8
<1> QED
  BY <1>8, <1>9 DEF p

(* A column of tokens.                                                     *)
LEMMA ColumnSize ==
    ASSUME NEW x, NEW n \in Nat
    PROVE  IsFiniteSet({x} \X (1..n)) /\ Cardinality({x} \X (1..n)) = n
<1>1. IsFiniteSet({x}) /\ Cardinality({x}) = 1
  BY FS_Singleton
<1>2. IsFiniteSet(1..n) /\ Cardinality(1..n) = n
  BY FS_Interval
<1>3. /\ IsFiniteSet({x} \X (1..n))
      /\ Cardinality({x} \X (1..n)) = Cardinality({x}) * Cardinality(1..n)
  BY <1>1, <1>2, FS_Product
<1> QED
  BY <1>1, <1>2, <1>3

(* A list of finitely many entries has a finite number of tokens.          *)
LEMMA ToksFinite ==
    ASSUME NEW S, NEW s \in Seq(S), NEW m
    PROVE  IsFiniteSet(Toks(s, m)) /\ Weight(s, m) \in Nat
<1>1. IsFiniteSet(1..Len(s)) /\ IsFiniteSet(1..Beats)
  BY FS_Interval, ControllerAssumption
<1>2. IsFiniteSet((1..Len(s)) \X (1..Beats))
  BY <1>1, FS_Product
<1>3. IsFiniteSet(Toks(s, m))
  BY <1>2, FS_Subset DEF Toks
<1> QED
  BY <1>3, FS_CardinalityType DEF Weight

(* An entry more at the end of a list: its tokens more.                    *)
LEMMA WeightAppend ==
    ASSUME NEW S, NEW s \in Seq(S), NEW x \in S, NEW m \in [S -> 0..Beats]
    PROVE  Weight(Append(s, x), m) = Weight(s, m) + m[x]
<1> DEFINE new == {Len(s) + 1} \X (1..m[x])
<1>1. /\ Len(s) \in Nat /\ Len(Append(s, x)) = Len(s) + 1
      /\ \A i \in 1..Len(s) : Append(s, x)[i] = s[i]
      /\ Append(s, x)[Len(s) + 1] = x
  OBVIOUS
<1>2. m[x] \in Nat /\ m[x] <= Beats /\ Beats \in Nat
  BY ControllerAssumption
<1>3. Toks(Append(s, x), m) = Toks(s, m) \cup new
  BY <1>1, <1>2 DEF Toks
<1>4. Toks(s, m) \cap new = {}
  BY <1>1 DEF Toks
<1>5. IsFiniteSet(new) /\ Cardinality(new) = m[x]
  BY <1>2, ColumnSize
<1>6. IsFiniteSet(Toks(s, m)) /\ Weight(s, m) \in Nat
  BY ToksFinite
<1>7. Cardinality(Toks(s, m) \cap new) = 0
  BY <1>4, FS_EmptySet
<1> HIDE DEF new
<1>8. Cardinality(Toks(s, m) \cup new)
          = Cardinality(Toks(s, m)) + Cardinality(new)
            - Cardinality(Toks(s, m) \cap new)
  BY <1>5, <1>6, FS_Union
<1> QED
  BY <1>2, <1>3, <1>5, <1>6, <1>7, <1>8 DEF Weight

(* What RemoveAt leaves and where.                                         *)
LEMMA RemoveAtAt ==
    ASSUME NEW S, NEW s \in Seq(S), NEW j \in 1..Len(s)
    PROVE  /\ RemoveAt(s, j) \in Seq(S)
           /\ Len(RemoveAt(s, j)) = Len(s) - 1
           /\ \A i \in 1 .. Len(s) - 1 :
                  RemoveAt(s, j)[i] = IF i < j THEN s[i] ELSE s[i + 1]
<1> DEFINE a == SubSeq(s, 1, j - 1)
           b == SubSeq(s, j + 1, Len(s))
<1>1. /\ a \in Seq(S) /\ Len(a) = j - 1
      /\ \A i \in 1 .. j - 1 : a[i] = s[i]
  OBVIOUS
<1>2. /\ b \in Seq(S) /\ Len(b) = Len(s) - j
      /\ \A i \in 1 .. Len(s) - j : b[i] = s[j + i]
  OBVIOUS
<1>3. RemoveAt(s, j) = a \o b
  BY DEF RemoveAt
<1> HIDE DEF a, b
<1>4. /\ a \o b \in Seq(S) /\ Len(a \o b) = Len(a) + Len(b)
      /\ \A i \in 1 .. Len(a) + Len(b) :
            (a \o b)[i] = IF i <= Len(a) THEN a[i] ELSE b[i - Len(a)]
  BY <1>1, <1>2, ConcatProperties
<1>5. /\ Len(s) \in Nat /\ Len(a) + Len(b) = Len(s) - 1
      /\ Len(a) = j - 1 /\ Len(b) = Len(s) - j
  BY <1>1, <1>2
<1> QED
  BY <1>1, <1>2, <1>3, <1>4, <1>5

(* An entry less: its tokens less.                                         *)
LEMMA WeightRemove ==
    ASSUME NEW S, NEW s \in Seq(S), NEW m \in [S -> 0..Beats],
           NEW j \in 1..Len(s)
    PROVE  Weight(s, m) = Weight(RemoveAt(s, j), m) + m[s[j]]
<1> DEFINE r == RemoveAt(s, j)
           gone == {j} \X (1..m[s[j]])
           A == Toks(s, m) \ gone
           f == [t \in A |-> <<IF t[1] < j THEN t[1] ELSE t[1] - 1, t[2]>>]
<1>1. /\ r \in Seq(S) /\ Len(r) = Len(s) - 1
      /\ \A i \in 1 .. Len(s) - 1 : r[i] = IF i < j THEN s[i] ELSE s[i + 1]
  BY RemoveAtAt
<1>2. m[s[j]] \in Nat /\ m[s[j]] <= Beats /\ Beats \in Nat /\ Len(s) \in Nat
  BY ControllerAssumption
<1> HIDE DEF r
<1>a. /\ \A i \in 1..Len(s) : i < j => i \in 1..Len(r) /\ r[i] = s[i]
      /\ \A i \in 1..Len(s) : i > j => i - 1 \in 1..Len(r) /\ r[i - 1] = s[i]
  <2>1. ASSUME NEW i \in 1..Len(s), i > j
        PROVE  i - 1 \in 1..Len(r) /\ r[i - 1] = s[i]
    <3>1. i - 1 \in 1 .. Len(s) - 1 /\ ~(i - 1 < j) /\ (i - 1) + 1 = i
      BY <1>2, <2>1
    <3> QED
      BY <1>1, <3>1
  <2>2. ASSUME NEW i \in 1..Len(s), i < j
        PROVE  i \in 1..Len(r) /\ r[i] = s[i]
    <3>1. i \in 1 .. Len(s) - 1
      BY <1>2, <2>2
    <3> QED
      BY <1>1, <2>2, <3>1
  <2> QED
    BY <2>1, <2>2
<1>3. A = {t \in Toks(s, m) : t[1] # j}
  BY <1>2 DEF Toks
<1>4. \A t \in A : /\ t = <<t[1], t[2]>>
                   /\ t[1] \in 1..Len(s) /\ t[1] # j
                   /\ t[2] \in 1..Beats /\ t[2] <= m[s[t[1]]]
  BY <1>3 DEF Toks
<1>5. ASSUME NEW i \in 1..Len(s), i # j, NEW k \in 1..Beats
      PROVE  <<i, k>> \in A <=> k <= m[s[i]]
  BY <1>3, <1>5 DEF Toks
<1>6. ASSUME NEW i \in 1..Len(r), NEW k \in 1..Beats
      PROVE  <<i, k>> \in Toks(r, m) <=> k <= m[r[i]]
  BY <1>6 DEF Toks
<1>7. \A t \in Toks(r, m) : /\ t = <<t[1], t[2]>>
                            /\ t[1] \in 1..Len(r) /\ t[2] \in 1..Beats
                            /\ t[2] <= m[r[t[1]]]
  BY DEF Toks
<1>8. IsFiniteSet(Toks(s, m)) /\ Weight(s, m) \in Nat
  BY ToksFinite
<1>9. /\ IsFiniteSet(A)
      /\ Cardinality(A) = Weight(s, m) - Cardinality(Toks(s, m) \cap gone)
  BY <1>8, FS_Difference DEF Weight
<1>10. Toks(s, m) \cap gone = gone
  BY <1>2 DEF Toks
<1>11. Cardinality(gone) = m[s[j]]
  BY <1>2, ColumnSize
<1> HIDE DEF A, gone
<1>12. f \in [A -> Toks(r, m)]
  <2> SUFFICES ASSUME NEW t \in A PROVE f[t] \in Toks(r, m)
    OBVIOUS
  <2> DEFINE i == IF t[1] < j THEN t[1] ELSE t[1] - 1
  <2>1. i \in 1..Len(r) /\ r[i] = s[t[1]]
    <3>1. t[1] \in 1..Len(s) /\ t[1] # j
      BY <1>4
    <3>2. CASE t[1] < j
      BY <1>a, <3>1, <3>2
    <3>3. CASE t[1] > j
      BY <1>a, <1>2, <3>1, <3>3
    <3> QED
      BY <1>2, <3>1, <3>2, <3>3
  <2>2. f[t] = <<i, t[2]>>
    OBVIOUS
  <2> HIDE DEF i
  <2> QED
    BY <1>4, <1>6, <2>1, <2>2
<1>13. \A x, y \in A : f[x] = f[y] => x = y
  <2> SUFFICES ASSUME NEW x \in A, NEW y \in A, f[x] = f[y] PROVE x = y
    OBVIOUS
  <2>1. x[2] = y[2] /\ x[1] = y[1]
    BY <1>4
  <2> QED
    BY <1>4, <2>1
<1>14. \A t \in Toks(r, m) : \E x \in A : f[x] = t
  <2> SUFFICES ASSUME NEW t \in Toks(r, m) PROVE \E x \in A : f[x] = t
    OBVIOUS
  <2> DEFINE i == IF t[1] < j THEN t[1] ELSE t[1] + 1
  <2>1. /\ i \in 1..Len(s) /\ i # j /\ r[t[1]] = s[i]
        /\ (IF i < j THEN i ELSE i - 1) = t[1]
    <3>1. t[1] \in 1 .. Len(s) - 1
      BY <1>1, <1>7
    <3>2. r[t[1]] = IF t[1] < j THEN s[t[1]] ELSE s[t[1] + 1]
      BY <1>1, <3>1
    <3>3. CASE t[1] < j
      <4>1. i = t[1]
        BY <3>3
      <4> QED
        BY <1>2, <3>1, <3>2, <3>3, <4>1
    <3>4. CASE ~(t[1] < j)
      <4>1. i = t[1] + 1
        BY <3>4
      <4> QED
        BY <1>2, <3>1, <3>2, <3>4, <4>1, SMTT(20)
    <3> QED
      BY <3>3, <3>4
  <2> HIDE DEF i
  <2>2. <<i, t[2]>> \in A
    BY <1>5, <1>7, <2>1
  <2>3. f[<<i, t[2]>>] = t
    BY <1>7, <2>1, <2>2
  <2> QED
    BY <2>2, <2>3
<1> HIDE DEF f
<1>15. Cardinality(Toks(r, m)) = Cardinality(A)
  BY <1>9, <1>12, <1>13, <1>14, SameSize
<1>16. Weight(r, m) = Weight(s, m) - m[s[j]]
  BY <1>9, <1>10, <1>11, <1>15 DEF Weight
<1> QED
  BY <1>2, <1>8, <1>16 DEF r

(* Two lists that differ in their j-th entry only.                         *)
DifferAt(s, t, j) == /\ Len(t) = Len(s)
                     /\ \A i \in 1..Len(s) : i # j => t[i] = s[i]

(* An entry replaced: its tokens replaced.                                 *)
LEMMA WeightReplace ==
    ASSUME NEW S, NEW s \in Seq(S), NEW m \in [S -> 0..Beats],
           NEW j \in 1..Len(s), NEW t \in Seq(S), DifferAt(s, t, j)
    PROVE  Weight(t, m) + m[s[j]] = Weight(s, m) + m[t[j]]
<1>0. Len(t) = Len(s) /\ \A i \in 1..Len(s) : i # j => t[i] = s[i]
  BY DEF DifferAt
<1>1. t[j] \in S /\ s[j] \in S /\ Len(s) \in Nat /\ j \in 1..Len(t)
  BY <1>0
<1>2. RemoveAt(t, j) = RemoveAt(s, j)
  <2>1. /\ RemoveAt(s, j) \in Seq(S) /\ Len(RemoveAt(s, j)) = Len(s) - 1
        /\ \A i \in 1 .. Len(s) - 1 :
              RemoveAt(s, j)[i] = IF i < j THEN s[i] ELSE s[i + 1]
    BY RemoveAtAt
  <2>2. /\ RemoveAt(t, j) \in Seq(S) /\ Len(RemoveAt(t, j)) = Len(s) - 1
        /\ \A i \in 1 .. Len(s) - 1 :
              RemoveAt(t, j)[i] = IF i < j THEN t[i] ELSE t[i + 1]
    BY <1>0, <1>1, RemoveAtAt
  <2>3. \A i \in 1 .. Len(s) - 1 : RemoveAt(t, j)[i] = RemoveAt(s, j)[i]
    <3> SUFFICES ASSUME NEW i \in 1 .. Len(s) - 1
                 PROVE  RemoveAt(t, j)[i] = RemoveAt(s, j)[i]
      OBVIOUS
    <3>1. CASE i < j
      BY <1>0, <1>1, <2>1, <2>2, <3>1
    <3>2. CASE ~(i < j)
      <4>1. i + 1 \in 1..Len(s) /\ i + 1 # j
        BY <1>1, <3>2
      <4> QED
        BY <1>0, <1>1, <2>1, <2>2, <3>2, <4>1
    <3> QED
      BY <3>1, <3>2
  <2> QED
    BY <2>1, <2>2, <2>3, SeqEqual
<1>3. Weight(t, m) = Weight(RemoveAt(t, j), m) + m[t[j]]
  BY <1>1, WeightRemove
<1>4. Weight(s, m) = Weight(RemoveAt(s, j), m) + m[s[j]]
  BY WeightRemove
<1>5. RemoveAt(s, j) \in Seq(S)
  BY RemoveAtAt
<1>6. /\ Weight(RemoveAt(s, j), m) \in Nat
      /\ m[t[j]] \in Nat /\ m[s[j]] \in Nat
  BY <1>1, <1>5, ToksFinite
<1>7. Weight(t, m) + m[s[j]] = Weight(s, m) + m[t[j]]
  BY <1>2, <1>3, <1>4, <1>6
<1> QED
  BY <1>1, <1>7

(* The first entry less.                                                   *)
LEMMA TailIsRemove ==
    ASSUME NEW S, NEW s \in Seq(S), s # <<>>
    PROVE  /\ 1 \in 1..Len(s) /\ s[1] = Head(s) /\ Head(s) \in S
           /\ Tail(s) \in Seq(S) /\ Tail(s) = RemoveAt(s, 1)
<1>1. /\ Len(s) \in Nat /\ Len(s) # 0 /\ Head(s) = s[1] /\ Head(s) \in S
      /\ Tail(s) \in Seq(S) /\ Len(Tail(s)) = Len(s) - 1
      /\ \A i \in 1 .. Len(s) - 1 : Tail(s)[i] = s[i + 1]
  BY EmptySeq, HeadTailProperties
<1>2. 1 \in 1..Len(s)
  BY <1>1
<1>3. /\ RemoveAt(s, 1) \in Seq(S) /\ Len(RemoveAt(s, 1)) = Len(s) - 1
      /\ \A i \in 1 .. Len(s) - 1 :
            RemoveAt(s, 1)[i] = IF i < 1 THEN s[i] ELSE s[i + 1]
  BY <1>2, RemoveAtAt
<1>4. \A i \in 1 .. Len(s) - 1 : RemoveAt(s, 1)[i] = s[i + 1]
  BY <1>1, <1>3
<1>5. Tail(s) = RemoveAt(s, 1)
  BY <1>1, <1>3, <1>4, SeqEqual
<1> QED
  BY <1>1, <1>2, <1>5

(* Entries of the same weight in the same places.                          *)
LEMMA WeightSame ==
    ASSUME NEW s, NEW t, NEW m, Len(s) = Len(t),
           \A i \in 1..Len(s) : m[s[i]] = m[t[i]]
    PROVE  Weight(s, m) = Weight(t, m)
<1>1. Toks(s, m) = Toks(t, m)
  BY DEF Toks
<1> QED
  BY <1>1 DEF Weight

(* When every entry counts for w tokens or none, w times the entries that  *)
(* count.                                                                  *)
LEMMA WeightOfCount ==
    ASSUME NEW S, NEW s \in Seq(S), NEW w \in 1..Beats,
           NEW m \in [S -> {0, w}], NEW I,
           I = {i \in DOMAIN s : m[s[i]] = w}
    PROVE  /\ IsFiniteSet(I) /\ Cardinality(I) \in Nat
           /\ Weight(s, m) = w * Cardinality(I)
<1>1. DOMAIN s = 1..Len(s) /\ Len(s) \in Nat /\ w \in Nat /\ Beats \in Nat
  BY ControllerAssumption
<1>2. \A i \in 1..Len(s) : m[s[i]] \in {0, w}
  BY <1>1
<1>3. Toks(s, m) = I \X (1..w)
  BY <1>1, <1>2 DEF Toks
<1>4. IsFiniteSet(1..Len(s))
  BY <1>1, FS_Interval
<1>5. IsFiniteSet(I) /\ Cardinality(I) \in Nat
  BY <1>1, <1>4, FS_Subset, FS_CardinalityType
<1>6. IsFiniteSet(1..w) /\ Cardinality(1..w) = w
  BY <1>1, FS_Interval
<1>7. Cardinality(I \X (1..w)) = Cardinality(I) * Cardinality(1..w)
  BY <1>5, <1>6, FS_Product
<1>8. Weight(s, m) = Cardinality(I) * w
  BY <1>3, <1>6, <1>7 DEF Weight
<1> QED
  BY <1>1, <1>5, <1>8

(* No entry counts.                                                        *)
LEMMA WeightZero ==
    ASSUME NEW s, NEW m, \A i \in 1..Len(s) : m[s[i]] = 0
    PROVE  Weight(s, m) = 0
<1>1. Toks(s, m) = {}
  BY ControllerAssumption DEF Toks
<1> QED
  BY <1>1, FS_EmptySet DEF Weight

(* The entry a beat settles is the first of its request, if there is any.  *)
LEMMA MatchingFirst ==
    ASSUME NEW s \in Seq(PendingEntries), NEW q, NEW i, i = Matching(s, q)
    PROVE  \/ /\ i = 0
              /\ \A k \in 1..Len(s) : s[k].request # q
           \/ /\ i \in 1..Len(s) /\ i # 0 /\ s[i].request = q
              /\ \A k \in 1..Len(s) : k < i => s[k].request # q
<1> DEFINE I == {k \in 1..Len(s) : s[k].request = q}
<1>1. i = IF I # {} THEN Min(I) ELSE 0
  BY DEF Matching, SelectInSeq
<1>2. I \in SUBSET Nat
  OBVIOUS
<1>3. CASE I = {}
  BY <1>1, <1>3
<1>4. CASE I # {}
  <2>1. i \in I /\ \A k \in I : i <= k
    BY <1>1, <1>2, <1>4, MinIsLeast
  <2>2. i \in 1..Len(s) /\ i # 0 /\ s[i].request = q
    BY <2>1
  <2>3. ASSUME NEW k \in 1..Len(s), k < i PROVE s[k].request # q
    BY <2>1, <2>2, <2>3
  <2> QED
    BY <2>2, <2>3
<1> QED
  BY <1>3, <1>4

(* What settling a beat does to the list.                                  *)
LEMMA SettleCases ==
    ASSUME NEW s \in Seq(PendingEntries), NEW q, NEW i, i = Matching(s, q),
           i # 0
    PROVE  /\ s[i].requestSize \in 1..Beats
           /\ Completes(s, q) <=> s[i].requestSize = 1
           /\ s[i].requestSize = 1 => Settle(s, q) = RemoveAt(s, i)
           /\ s[i].requestSize # 1 =>
                 \E y \in PendingEntries :
                    /\ y.request = s[i].request
                    /\ y.requestSize = s[i].requestSize - 1
                    /\ Settle(s, q) = [s EXCEPT ![i] = y]
<1>1. i \in 1..Len(s)
  BY MatchingFirst
<1>2. s[i] \in PendingEntries
  BY <1>1
<1>3. s[i].requestSize \in 1..Beats
  BY <1>2 DEF PendingEntries
<1>4. Completes(s, q) <=> s[i].requestSize = 1
  BY DEF Completes
<1>5. ASSUME s[i].requestSize # 1
      PROVE  \E y \in PendingEntries :
                    /\ y.request = s[i].request
                    /\ y.requestSize = s[i].requestSize - 1
                    /\ Settle(s, q) = [s EXCEPT ![i] = y]
  <2> DEFINE y == [s[i] EXCEPT !.requestSize = @ - 1]
  <2>1. s[i].requestSize - 1 \in 1..Beats
    BY <1>3, <1>5, ControllerAssumption
  <2>2. /\ y \in PendingEntries /\ y.request = s[i].request
        /\ y.requestSize = s[i].requestSize - 1
    BY <1>2, <2>1 DEF PendingEntries
  <2>3. Settle(s, q) = [s EXCEPT ![i] = y]
    BY <1>5 DEF Settle
  <2> QED
    BY <2>2, <2>3
<1>6. s[i].requestSize = 1 => Settle(s, q) = RemoveAt(s, i)
  BY DEF Settle
<1> QED
  BY <1>3, <1>4, <1>5, <1>6

-----------------------------------------------------------------------------
(* The requestors' books.                                                  *)

(* The requests of r to the address of q, among requests and among pending *)
(* entries.                                                                *)
Mine(r, q) == [x \in Traffic |->
    IF x.requestorID = r /\ SameAddress(x, q) THEN 1 ELSE 0]
MinePending(r, q) == [p \in PendingEntries |->
    IF p.request.requestorID = r /\ SameAddress(p.request, q) THEN 1 ELSE 0]

(* A requestor's list agrees with two lists of pending entries.            *)
Agrees(core, a, b) == \A r \in Requestors, q \in Traffic :
    Weight(core[r], Mine(r, q))
        = Weight(a, MinePending(r, q)) + Weight(b, MinePending(r, q))

(* Every requestor waits for requests of its own.                          *)
OwnOnly(core) == \A r \in Requestors : \A i \in 1..Len(core[r]) :
    core[r][i].requestorID = r

(* Both count every entry for one or for nothing.                          *)
LEMMA MineType ==
    ASSUME NEW r, NEW q
    PROVE  /\ Mine(r, q) \in [Traffic -> {0, 1}]
           /\ Mine(r, q) \in [Traffic -> 0..Beats]
           /\ MinePending(r, q) \in [PendingEntries -> {0, 1}]
           /\ MinePending(r, q) \in [PendingEntries -> 0..Beats]
           /\ 1 \in 1..Beats
<1>1. 0 \in 0..Beats /\ 1 \in 0..Beats /\ 1 \in 1..Beats
  BY ControllerAssumption
<1> QED
  BY <1>1 DEF Mine, MinePending

(* Agrees is CoreMatches, with the sets that CountIn counts as tokens.     *)
LEMMA AgreesIsCoreMatches ==
    ASSUME TypeOK
    PROVE  CoreMatches <=> Agrees(corePending, pendingRead, pendingWrite)
<1> SUFFICES ASSUME NEW r \in Requestors, NEW q \in Traffic
             PROVE  /\ Cardinality({i \in DOMAIN corePending[r] :
                                      /\ corePending[r][i].requestorID = r
                                      /\ SameAddress(corePending[r][i], q)})
                         = Weight(corePending[r], Mine(r, q))
                    /\ Cardinality({i \in DOMAIN pendingRead :
                                      /\ pendingRead[i].request.requestorID = r
                                      /\ SameAddress(pendingRead[i].request, q)})
                         = Weight(pendingRead, MinePending(r, q))
                    /\ Cardinality({i \in DOMAIN pendingWrite :
                                      /\ pendingWrite[i].request.requestorID = r
                                      /\ SameAddress(pendingWrite[i].request, q)})
                         = Weight(pendingWrite, MinePending(r, q))
  BY DEF CoreMatches, CountIn, Agrees
<1>1. ASSUME NEW s \in Seq(PendingEntries)
      PROVE  Cardinality({i \in DOMAIN s : /\ s[i].request.requestorID = r
                                          /\ SameAddress(s[i].request, q)})
                 = Weight(s, MinePending(r, q))
  <2> DEFINE I == {i \in DOMAIN s : MinePending(r, q)[s[i]] = 1}
  <2>1. I = {i \in DOMAIN s : /\ s[i].request.requestorID = r
                              /\ SameAddress(s[i].request, q)}
    BY <1>1 DEF MinePending
  <2>a. I = {i \in DOMAIN s : MinePending(r, q)[s[i]] = 1}
    OBVIOUS
  <2> HIDE DEF I
  <2>b. 1 \in 1..Beats /\ MinePending(r, q) \in [PendingEntries -> {0, 1}]
    BY MineType
  <2>2. Cardinality(I) \in Nat /\ Weight(s, MinePending(r, q)) = 1 * Cardinality(I)
    BY <2>a, <2>b, WeightOfCount
  <2> QED
    BY <2>1, <2>2
<1>2. ASSUME NEW s \in Seq(Traffic)
      PROVE  Cardinality({i \in DOMAIN s : /\ s[i].requestorID = r
                                          /\ SameAddress(s[i], q)})
                 = Weight(s, Mine(r, q))
  <2> DEFINE I == {i \in DOMAIN s : Mine(r, q)[s[i]] = 1}
  <2>1. I = {i \in DOMAIN s : s[i].requestorID = r /\ SameAddress(s[i], q)}
    BY <1>2 DEF Mine
  <2>a. I = {i \in DOMAIN s : Mine(r, q)[s[i]] = 1}
    OBVIOUS
  <2> HIDE DEF I
  <2>b. 1 \in 1..Beats /\ Mine(r, q) \in [Traffic -> {0, 1}]
    BY MineType
  <2>2. Cardinality(I) \in Nat /\ Weight(s, Mine(r, q)) = 1 * Cardinality(I)
    BY <2>a, <2>b, WeightOfCount
  <2> QED
    BY <2>1, <2>2
<1>3. /\ corePending[r] \in Seq(Traffic)
      /\ pendingRead \in Seq(PendingEntries)
      /\ pendingWrite \in Seq(PendingEntries)
  BY DEF TypeOK, PendingEntries
<1> QED
  BY <1>1, <1>2, <1>3

(* A new request enters the requestor's list and one of the pending lists. *)
Sent(core, q) == [core EXCEPT ![q.requestorID] = Append(@, q)]

(* It keeps the books of the requestors and of the controller in           *)
(* agreement.                                                              *)
LEMMA AgreesAfterSend ==
    ASSUME NEW core \in [Requestors -> Seq(Traffic)],
           NEW a \in Seq(PendingEntries), NEW b \in Seq(PendingEntries),
           NEW q \in Traffic, Agrees(core, a, b), OwnOnly(core),
           NEW p \in PendingEntries, p.request = q,
           NEW new, new = Sent(core, q)
    PROVE  Agrees(new, Append(a, p), b) /\ Agrees(new, a, Append(b, p))
           /\ OwnOnly(new)
<1>1. q.requestorID \in Requestors
  BY ControllerAssumption
<1>0. new = [core EXCEPT ![q.requestorID] = Append(@, q)]
  BY DEF Sent
<1>2. OwnOnly(new)
  BY <1>0, <1>1 DEF OwnOnly
<1>3. ASSUME NEW r \in Requestors, NEW x \in Traffic
      PROVE  LET one == IF q.requestorID = r /\ SameAddress(q, x) THEN 1 ELSE 0
                 m == MinePending(r, x)
             IN  /\ Weight(new[r], Mine(r, x)) = Weight(core[r], Mine(r, x)) + one
                 /\ Weight(Append(a, p), m) = Weight(a, m) + one
                 /\ Weight(Append(b, p), m) = Weight(b, m) + one
                 /\ one \in Nat /\ Weight(a, m) \in Nat /\ Weight(b, m) \in Nat
                 /\ Weight(core[r], Mine(r, x)) \in Nat
  <2> DEFINE one == IF q.requestorID = r /\ SameAddress(q, x) THEN 1 ELSE 0
             m == MinePending(r, x)
  <2>1. m[p] = one /\ Mine(r, x)[q] = one
    BY DEF Mine, MinePending
  <2>2. one \in Nat
    OBVIOUS
  <2> HIDE DEF one
  <2>3. /\ Weight(Append(a, p), m) = Weight(a, m) + one
        /\ Weight(Append(b, p), m) = Weight(b, m) + one
    BY <2>1, MineType, WeightAppend
  <2>4. /\ Weight(a, m) \in Nat /\ Weight(b, m) \in Nat
        /\ Weight(core[r], Mine(r, x)) \in Nat
    BY ToksFinite
  <2>5. Weight(new[r], Mine(r, x)) = Weight(core[r], Mine(r, x)) + one
    <3>1. CASE r = q.requestorID
      <4>1. new[r] = Append(core[r], q)
        BY <1>0, <1>1, <3>1
      <4> QED
        BY <2>1, <4>1, MineType, WeightAppend
    <3>2. CASE r # q.requestorID
      <4>1. new[r] = core[r] /\ one = 0
        BY <1>0, <1>1, <3>2 DEF one
      <4> QED
        BY <2>4, <4>1
    <3> QED
      BY <3>1, <3>2
  <2> QED
    BY <2>2, <2>3, <2>4, <2>5 DEF one
<1>4. ASSUME NEW r \in Requestors, NEW x \in Traffic
      PROVE  LET m == MinePending(r, x)
             IN  /\ Weight(new[r], Mine(r, x))
                        = Weight(Append(a, p), m) + Weight(b, m)
                 /\ Weight(new[r], Mine(r, x))
                        = Weight(a, m) + Weight(Append(b, p), m)
  <2>1. Weight(core[r], Mine(r, x))
            = Weight(a, MinePending(r, x)) + Weight(b, MinePending(r, x))
    BY DEF Agrees
  <2> DEFINE one == IF q.requestorID = r /\ SameAddress(q, x) THEN 1 ELSE 0
             m == MinePending(r, x)
  <2>2. /\ Weight(new[r], Mine(r, x)) = Weight(core[r], Mine(r, x)) + one
        /\ Weight(Append(a, p), m) = Weight(a, m) + one
        /\ Weight(Append(b, p), m) = Weight(b, m) + one
        /\ one \in Nat /\ Weight(a, m) \in Nat /\ Weight(b, m) \in Nat
    BY <1>3
  <2> HIDE DEF one
  <2> QED
    BY <2>1, <2>2
<1>5. Agrees(new, Append(a, p), b) /\ Agrees(new, a, Append(b, p))
  BY <1>4 DEF Agrees
<1> QED
  BY <1>2, <1>5

(* It does not matter which of the pending lists is which.                 *)
LEMMA AgreesSym ==
    ASSUME NEW core, NEW a \in Seq(PendingEntries),
           NEW b \in Seq(PendingEntries), Agrees(core, a, b)
    PROVE  Agrees(core, b, a)
<1>1. ASSUME NEW r \in Requestors, NEW q \in Traffic
      PROVE  Weight(core[r], Mine(r, q))
                 = Weight(b, MinePending(r, q)) + Weight(a, MinePending(r, q))
  <2>1. Weight(a, MinePending(r, q)) \in Nat /\ Weight(b, MinePending(r, q)) \in Nat
    BY ToksFinite
  <2>2. Weight(core[r], Mine(r, q))
            = Weight(a, MinePending(r, q)) + Weight(b, MinePending(r, q))
    BY DEF Agrees
  <2> QED
    BY <2>1, <2>2
<1> QED
  BY <1>1 DEF Agrees

(* The first request of its requestor to the address of q, which is there. *)
LEMMA ReturnDataFinds ==
    ASSUME corePending \in [Requestors -> Seq(Traffic)], NEW q \in Traffic,
           NEW r, r = q.requestorID, OwnOnly(corePending),
           Weight(corePending[r], Mine(r, q)) # 0
    PROVE  \E n \in 1..Len(corePending[r]) :
              /\ SameAddress(corePending[r][n], q)
              /\ corePending[r][n].requestorID = r
              /\ returnData(q) = [corePending EXCEPT ![r] =
                                     RemoveAt(corePending[r], n)]
<1> DEFINE core == corePending[r]
           I == {i \in 1..Len(core) : SameAddress(core[i], q)}
           n == SelectInSeq(core, LAMBDA p : SameAddress(p, q))
<1>1. r \in Requestors /\ core \in Seq(Traffic)
  BY ControllerAssumption
<1>2. n = IF I # {} THEN Min(I) ELSE 0
  BY DEF SelectInSeq
<1>3. I # {}
  <2> SUFFICES ASSUME I = {} PROVE FALSE
    OBVIOUS
  <2>1. \A i \in 1..Len(core) : core[i] \in Traffic /\ ~SameAddress(core[i], q)
    BY <1>1
  <2>2. \A i \in 1..Len(core) : Mine(r, q)[core[i]] = 0
    BY <2>1 DEF Mine
  <2> HIDE DEF core
  <2>3. Weight(core, Mine(r, q)) = 0
    BY <2>2, WeightZero
  <2> QED
    BY <2>3 DEF core
<1>4. I \in SUBSET Nat
  OBVIOUS
<1> HIDE DEF I, n
<1>5. n \in I
  BY <1>2, <1>3, <1>4, MinIsLeast
<1>6. n \in 1..Len(core) /\ n # 0 /\ SameAddress(core[n], q)
  BY <1>5 DEF I
<1>7. core[n].requestorID = r
  BY <1>1, <1>6 DEF OwnOnly
<1>8. returnData(q) = [corePending EXCEPT ![r] = IF n = 0 THEN core
                                                 ELSE RemoveAt(core, n)]
  BY DEF returnData, n
<1> QED
  BY <1>6, <1>7, <1>8

(* An entry that keeps its request counts as before.                       *)
LEMMA MineReplace ==
    ASSUME NEW a \in Seq(PendingEntries), NEW i \in 1..Len(a),
           NEW y \in PendingEntries, y.request = a[i].request,
           NEW r, NEW q
    PROVE  Weight([a EXCEPT ![i] = y], MinePending(r, q))
               = Weight(a, MinePending(r, q))
<1> DEFINE t == [a EXCEPT ![i] = y]
<1>1. /\ t \in Seq(PendingEntries) /\ Len(t) = Len(a) /\ t[i] = y
      /\ \A k \in 1..Len(a) : k # i => t[k] = a[k]
  BY ExceptSeq
<1> HIDE DEF t
<1>2. a[i] \in PendingEntries /\ Len(a) \in Nat
  OBVIOUS
<1>3. MinePending(r, q)[y] = MinePending(r, q)[a[i]]
  BY <1>2 DEF MinePending
<1>4. \A k \in 1..Len(a) : MinePending(r, q)[t[k]] = MinePending(r, q)[a[k]]
  BY <1>1, <1>3
<1>5. Weight(t, MinePending(r, q)) = Weight(a, MinePending(r, q))
  BY <1>1, <1>4, WeightSame
<1> QED
  BY <1>5 DEF t

(* Nor does a beat that is not the last of its request change what counts. *)
LEMMA MineSettle ==
    ASSUME NEW a \in Seq(PendingEntries), NEW q, NEW i, i = Matching(a, q),
           i # 0, a[i].requestSize # 1
    PROVE  \A r, z : Weight(Settle(a, q), MinePending(r, z))
                         = Weight(a, MinePending(r, z))
<1> TAKE r, z
<1>0. \E y \in PendingEntries :
                    /\ y.request = a[i].request
                    /\ y.requestSize = a[i].requestSize - 1
                    /\ Settle(a, q) = [a EXCEPT ![i] = y]
  BY SettleCases
<1>1. PICK y \in PendingEntries :
                    /\ y.request = a[i].request
                    /\ Settle(a, q) = [a EXCEPT ![i] = y]
  BY <1>0
<1>2. i \in 1..Len(a)
  BY MatchingFirst
<1>3. y \in PendingEntries /\ y.request = a[i].request
  BY <1>1
<1>4. Weight([a EXCEPT ![i] = y], MinePending(r, z))
         = Weight(a, MinePending(r, z))
  BY <1>2, <1>3, MineReplace
<1> QED
  BY <1>1, <1>4

(* A beat settled: on the last one the requestor is told.                  *)
LEMMA AgreesAfterDelivery ==
    ASSUME corePending \in [Requestors -> Seq(Traffic)],
           NEW a \in Seq(PendingEntries), NEW b \in Seq(PendingEntries),
           NEW q \in Traffic, Agrees(corePending, a, b), OwnOnly(corePending),
           NEW new, new = IF Completes(a, q) THEN returnData(q) ELSE corePending
    PROVE  Agrees(new, Settle(a, q), b) /\ OwnOnly(new)
<1> DEFINE i == Matching(a, q)
           r == q.requestorID
<1>0. i = Matching(a, q) /\ r = q.requestorID /\ r \in Requestors
  BY ControllerAssumption
<1> HIDE DEF i, r
<1>1. CASE i = 0
  BY <1>0, <1>1 DEF Settle, Completes
<1>2. CASE i # 0 /\ a[i].requestSize # 1
  <2>2. ~Completes(a, q)
    BY <1>0, <1>2, SettleCases
  <2>4. \A x, z : Weight(Settle(a, q), MinePending(x, z))
                      = Weight(a, MinePending(x, z))
    BY <1>0, <1>2, MineSettle
  <2> QED
    BY <2>2, <2>4 DEF Agrees
<1>3. CASE i # 0 /\ a[i].requestSize = 1
  <2>1. Settle(a, q) = RemoveAt(a, i) /\ Completes(a, q)
    BY <1>0, <1>3, SettleCases
  <2>2. i \in 1..Len(a) /\ a[i] \in PendingEntries /\ a[i].request = q
    BY <1>0, <1>3, MatchingFirst
  <2>3. ASSUME NEW x \in Requestors, NEW z \in Traffic
        PROVE  /\ Weight(a, MinePending(x, z))
                      = Weight(RemoveAt(a, i), MinePending(x, z))
                        + (IF r = x /\ SameAddress(q, z) THEN 1 ELSE 0)
               /\ Weight(RemoveAt(a, i), MinePending(x, z)) \in Nat
               /\ Weight(b, MinePending(x, z)) \in Nat
    <3>1. MinePending(x, z) \in [PendingEntries -> 0..Beats]
      BY MineType
    <3>2. MinePending(x, z)[a[i]] = IF r = x /\ SameAddress(q, z) THEN 1 ELSE 0
      BY <1>0, <2>2 DEF MinePending
    <3>3. Weight(a, MinePending(x, z))
              = Weight(RemoveAt(a, i), MinePending(x, z)) + MinePending(x, z)[a[i]]
      BY <2>2, <3>1, WeightRemove
    <3>4. RemoveAt(a, i) \in Seq(PendingEntries)
      BY <2>2, RemoveAtType
    <3>5. /\ Weight(RemoveAt(a, i), MinePending(x, z)) \in Nat
          /\ Weight(b, MinePending(x, z)) \in Nat
      BY <3>4, ToksFinite
    <3> QED
      BY <3>2, <3>3, <3>5
  <2>4. Weight(corePending[r], Mine(r, q)) # 0
    <3>1. Weight(corePending[r], Mine(r, q))
             = Weight(a, MinePending(r, q)) + Weight(b, MinePending(r, q))
      BY <1>0 DEF Agrees
    <3>2. Weight(a, MinePending(r, q)) = Weight(RemoveAt(a, i), MinePending(r, q)) + 1
      BY <1>0, <2>3 DEF SameAddress
    <3> QED
      BY <1>0, <2>3, <3>1, <3>2
  <2>5. PICK n \in 1..Len(corePending[r]) :
              /\ SameAddress(corePending[r][n], q)
              /\ corePending[r][n].requestorID = r
              /\ returnData(q) = [corePending EXCEPT ![r] =
                                     RemoveAt(corePending[r], n)]
    BY <1>0, <2>4, ReturnDataFinds, ZenonT(30)
  <2> DEFINE core == corePending[r]
             left == RemoveAt(core, n)
  <2>6. core \in Seq(Traffic) /\ core[n] \in Traffic
    BY <1>0, <2>5
  <2>7. /\ left \in Seq(Traffic) /\ Len(left) = Len(core) - 1
        /\ \A k \in 1 .. Len(core) - 1 :
              left[k] = IF k < n THEN core[k] ELSE core[k + 1]
    <3>1. n \in 1..Len(core)
      BY <2>5
    <3> QED
      BY <2>6, <3>1, RemoveAtAt
  <2>8. new = [corePending EXCEPT ![r] = left]
    BY <2>1, <2>5
  <2> HIDE DEF left
  <2>9. OwnOnly(new)
    <3> SUFFICES ASSUME NEW x \in Requestors, NEW k \in 1..Len(new[x])
                 PROVE  new[x][k].requestorID = x
      BY DEF OwnOnly
    <3>1. CASE x # r
      BY <1>0, <2>8, <3>1 DEF OwnOnly
    <3>2. CASE x = r
      <4>1. new[x] = left
        BY <1>0, <2>8, <3>2
      <4>2. Len(core) \in Nat /\ k \in 1 .. Len(core) - 1
        BY <2>6, <2>7, <4>1
      <4>3. k \in 1..Len(core) /\ k + 1 \in 1..Len(core)
        BY <4>2
      <4>4. \A j \in 1..Len(core) : core[j].requestorID = r
        BY <1>0 DEF OwnOnly
      <4>5. left[k] = core[k] \/ left[k] = core[k + 1]
        BY <2>7, <4>2
      <4> QED
        BY <3>2, <4>1, <4>3, <4>4, <4>5
    <3> QED
      BY <3>1, <3>2
  <2>10. ASSUME NEW x \in Requestors, NEW z \in Traffic
         PROVE  /\ Weight(corePending[x], Mine(x, z)) = Weight(new[x], Mine(x, z))
                       + (IF r = x /\ SameAddress(q, z) THEN 1 ELSE 0)
                /\ Weight(new[x], Mine(x, z)) \in Nat
    <3>1. CASE x # r
      <4>1. new[x] = corePending[x] /\ corePending[x] \in Seq(Traffic)
        BY <1>0, <2>8, <3>1
      <4>2. Weight(corePending[x], Mine(x, z)) \in Nat
        BY <4>1, ToksFinite
      <4> QED
        BY <3>1, <4>1, <4>2
    <3>2. CASE x = r
      <4>1. new[x] = left
        BY <1>0, <2>8, <3>2
      <4>2. Mine(x, z) \in [Traffic -> 0..Beats]
        BY MineType
      <4>0. n \in 1..Len(core)
        BY <2>5
      <4> DEFINE m == Mine(x, z)
      <4> HIDE DEF core, m
      <4>a. Weight(core, m) = Weight(RemoveAt(core, n), m) + m[core[n]]
        BY <2>6, <4>0, <4>2, WeightRemove DEF m
      <4>3. Weight(core, Mine(x, z)) = Weight(left, Mine(x, z)) + Mine(x, z)[core[n]]
        BY <4>a DEF left, m
      <4>4. Mine(x, z)[core[n]] = IF r = x /\ SameAddress(q, z) THEN 1 ELSE 0
        BY <2>5, <2>6, <3>2 DEF Mine, SameAddress, core
      <4>5. Weight(left, Mine(x, z)) \in Nat
        BY <2>7, ToksFinite
      <4> QED
        BY <3>2, <4>1, <4>3, <4>4, <4>5 DEF core
    <3> QED
      BY <3>1, <3>2
  <2> HIDE DEF core
  <2>11. ASSUME NEW x \in Requestors, NEW z \in Traffic
         PROVE  Weight(new[x], Mine(x, z))
                    = Weight(RemoveAt(a, i), MinePending(x, z))
                      + Weight(b, MinePending(x, z))
    <3>1. Weight(corePending[x], Mine(x, z))
             = Weight(a, MinePending(x, z)) + Weight(b, MinePending(x, z))
      BY DEF Agrees
    <3>2. CASE r = x /\ SameAddress(q, z)
      BY <2>3, <2>10, <3>1, <3>2, SMTT(20)
    <3>3. CASE ~(r = x /\ SameAddress(q, z))
      <4>1. /\ Weight(a, MinePending(x, z)) = Weight(RemoveAt(a, i), MinePending(x, z)) + 0
            /\ Weight(corePending[x], Mine(x, z)) = Weight(new[x], Mine(x, z)) + 0
        BY <2>3, <2>10, <3>3
      <4> QED
        BY <2>3, <2>10, <3>1, <4>1
    <3> QED
      BY <3>2, <3>3
  <2> QED
    BY <2>1, <2>9, <2>11 DEF Agrees
<1> QED
  BY <1>1, <1>2, <1>3

(* The inductive invariant behind CoreMatches.                             *)
CoreInv == /\ Agrees(corePending, pendingRead, pendingWrite)
           /\ OwnOnly(corePending)

(* A step that leaves the three books alone.                               *)
LEMMA CoreFrame ==
    ASSUME CoreInv, UNCHANGED <<corePending, pendingRead, pendingWrite>>
    PROVE  CoreInv'
  BY DEF CoreInv, Agrees, OwnOnly

(* Every step of the channel keeps the books in agreement.                 *)
LEMMA CoreStep == TypeOK /\ CoreInv /\ [Next]_vars => CoreInv'
<1> SUFFICES ASSUME TypeOK, CoreInv, [Next]_vars PROVE CoreInv'
  OBVIOUS
<1>0. /\ corePending \in [Requestors -> Seq(Traffic)]
      /\ pendingRead \in Seq(PendingEntries)
      /\ pendingWrite \in Seq(PendingEntries)
      /\ sendData \in Seq(DataEntries) /\ readData \in Seq(DataEntries)
  BY DEF TypeOK, PendingEntries, DataEntries
<1>a. Agrees(corePending, pendingRead, pendingWrite) /\ OwnOnly(corePending)
  BY DEF CoreInv
<1>1. ASSUME NEW q \in Traffic, SendRequest(q) PROVE CoreInv'
  <2> DEFINE p == [request |-> q, requestSize |-> Beats]
  <2>1. p \in PendingEntries /\ p.request = q
    BY ControllerAssumption DEF PendingEntries
  <2> DEFINE new == corePending'
  <2>2. new = Sent(corePending, q)
    BY <1>1 DEF SendRequest, Sent
  <2>3. \/ /\ pendingRead' = Append(pendingRead, p)
           /\ pendingWrite' = pendingWrite
        \/ /\ pendingWrite' = Append(pendingWrite, p)
           /\ pendingRead' = pendingRead
    BY <1>1 DEF SendRequest
  <2> HIDE DEF p, new
  <2>4. /\ Agrees(new, Append(pendingRead, p), pendingWrite)
        /\ Agrees(new, pendingRead, Append(pendingWrite, p))
        /\ OwnOnly(new)
    BY <1>0, <1>a, <2>1, <2>2, AgreesAfterSend
  <2> QED
    BY <2>3, <2>4 DEF CoreInv, Agrees, OwnOnly, new
<1>2. CASE Idle
  BY <1>2, CoreFrame DEF Idle, pendingVars
<1>3. ASSUME NEW i \in Buffers, NEW k \in DOMAIN requestBuffer[i],
             NEW more \in BOOLEAN, ScheduleRequest(i, k, more)
      PROVE  CoreInv'
  BY <1>3, CoreFrame DEF ScheduleRequest, TakeRequest, coreVars, pendingVars
<1>4. CASE EndSchedule
  BY <1>4, CoreFrame DEF EndSchedule, coreVars, pendingVars
<1>5. ASSUME NEW b \in Banks, IssueCommand(b) PROVE CoreInv'
  BY <1>5, CoreFrame DEF IssueCommand, sendCommand, coreVars, pendingVars
<1>6. CASE NoCommand
  BY <1>6, CoreFrame DEF NoCommand, coreVars, pendingVars
<1>7. CASE DeliverWrite
  <2> DEFINE q == Head(sendData).request
  <2>1. q \in Traffic
    <3>1. Head(sendData) \in DataEntries
      BY <1>0, <1>7 DEF DeliverWrite, WriteDue
    <3> QED
      BY <3>1 DEF DataEntries
  <2>2. /\ pendingWrite' = Settle(pendingWrite, q) /\ pendingRead' = pendingRead
        /\ corePending' = IF Completes(pendingWrite, q) THEN returnData(q)
                          ELSE corePending
    BY <1>7 DEF DeliverWrite
  <2> HIDE DEF q
  <2>3. Agrees(corePending, pendingWrite, pendingRead)
    BY <1>0, <1>a, AgreesSym
  <2>4. Agrees(corePending', Settle(pendingWrite, q), pendingRead)
        /\ OwnOnly(corePending')
    BY <1>0, <1>a, <2>1, <2>2, <2>3, AgreesAfterDelivery
  <2>5. Settle(pendingWrite, q) \in Seq(PendingEntries)
    BY <1>0, SettleType
  <2>6. Agrees(corePending', pendingRead, Settle(pendingWrite, q))
    BY <1>0, <2>4, <2>5, AgreesSym
  <2> QED
    BY <2>2, <2>4, <2>6 DEF CoreInv, Agrees, OwnOnly
<1>8. CASE NoWrite
  BY <1>8, CoreFrame DEF NoWrite, coreVars, pendingVars
<1>9. CASE DeliverRead
  <2> DEFINE q == Head(readData).request
  <2>1. q \in Traffic
    <3>1. Head(readData) \in DataEntries
      BY <1>0, <1>9 DEF DeliverRead, ReadDue
    <3> QED
      BY <3>1 DEF DataEntries
  <2>2. /\ pendingRead' = Settle(pendingRead, q) /\ pendingWrite' = pendingWrite
        /\ corePending' = IF Completes(pendingRead, q) THEN returnData(q)
                          ELSE corePending
    BY <1>9 DEF DeliverRead
  <2> HIDE DEF q
  <2>4. Agrees(corePending', Settle(pendingRead, q), pendingWrite)
        /\ OwnOnly(corePending')
    BY <1>0, <1>a, <2>1, <2>2, AgreesAfterDelivery
  <2> QED
    BY <2>2, <2>4 DEF CoreInv, Agrees, OwnOnly
<1>10. CASE NoRead
  BY <1>10, CoreFrame DEF NoRead, coreVars, pendingVars
<1>11. CASE UNCHANGED vars
  BY <1>11, CoreFrame DEF vars, coreVars, pendingVars
<1> QED
  BY <1>1, <1>2, <1>3, <1>4, <1>5, <1>6, <1>7, <1>8, <1>9, <1>10, <1>11
     DEF Next

(* Whatever the schedulers choose and however the answers of equal         *)
(* requests are mixed up, a requestor's corePendingData holds as many      *)
(* requests to an address as the controller's pending lists: returnData    *)
(* finds what it is called for.                                            *)
THEOREM CoreCorrect == Spec => []CoreMatches
<1>1. Init => CoreInv
  <2> SUFFICES ASSUME Init PROVE CoreInv
    OBVIOUS
  <2>1. /\ \A r \in Requestors : corePending[r] = <<>>
        /\ pendingRead = <<>> /\ pendingWrite = <<>>
    BY DEF Init
  <2>2. \A m : Weight(<<>>, m) = 0
    <3> TAKE m
    <3>1. \A i \in 1..Len(<<>>) : m[<<>>[i]] = 0
      OBVIOUS
    <3> QED
      BY <3>1, WeightZero
  <2>3. Agrees(corePending, pendingRead, pendingWrite)
    BY <2>1, <2>2 DEF Agrees
  <2> QED
    BY <2>1, <2>3 DEF CoreInv, OwnOnly
<1>2. TypeOK /\ CoreInv => CoreMatches
  BY AgreesIsCoreMatches DEF CoreInv
<1> QED
  BY <1>1, <1>2, InitType, StepType, CoreStep, PTL DEF Spec

-----------------------------------------------------------------------------
(* The CAS commands of a request in the queues.                            *)

(* Where they are: the bank and the place in its queue.                    *)
CasSet(q, queues) == UNION {{b} \X CasFor(q, queues[b]) : b \in Banks}

(* Its elements are pairs of a bank and a place.                           *)
LEMMA CasSetIs ==
    ASSUME NEW q, NEW queues
    PROVE  /\ \A b, i : <<b, i>> \in CasSet(q, queues) <=>
                            b \in Banks /\ i \in CasFor(q, queues[b])
           /\ \A t \in CasSet(q, queues) : t = <<t[1], t[2]>>
  BY DEF CasSet

(* There are finitely many.                                                *)
LEMMA CasSetFinite ==
    ASSUME NEW q, NEW queues \in [Banks -> Seq(Commands)]
    PROVE  /\ IsFiniteSet(CasSet(q, queues))
           /\ Cardinality(CasSet(q, queues)) \in Nat
<1>1. IsFiniteSet(Banks)
  <2>1. IsFiniteSet(0..15)
    <3>1. 0 \in Int /\ 15 \in Int
      OBVIOUS
    <3> QED
      BY <3>1, FS_Interval
  <2>2. Banks \in SUBSET (0..15)
    BY ControllerAssumption
  <2> QED
    BY <2>1, <2>2, FS_Subset
<1>2. ASSUME NEW b \in Banks PROVE IsFiniteSet({b} \X CasFor(q, queues[b]))
  <2>1. DOMAIN queues[b] = 1..Len(queues[b]) /\ Len(queues[b]) \in Nat
    OBVIOUS
  <2>2. IsFiniteSet(1..Len(queues[b]))
    BY <2>1, FS_Interval
  <2>3. CasFor(q, queues[b]) \subseteq 1..Len(queues[b])
    BY <2>1 DEF CasFor
  <2>4. IsFiniteSet(CasFor(q, queues[b])) /\ IsFiniteSet({b})
    BY <2>2, <2>3, FS_Subset, FS_Singleton
  <2> QED
    BY <2>4, FS_Product
<1> DEFINE f == [b \in Banks |-> {b} \X CasFor(q, queues[b])]
           T == {f[b] : b \in Banks}
<1>3. IsFiniteSet(T)
  <2>1. f \in Surjection(Banks, T)
    BY DEF Surjection
  <2> QED
    BY <1>1, <2>1, FS_Surjection DEF ExistsSurjection
<1>4. \A x \in T : IsFiniteSet(x)
  BY <1>2
<1>5. IsFiniteSet(UNION T)
  BY <1>3, <1>4, FS_UNION
<1>6. CasSet(q, queues) = UNION T
  BY DEF CasSet
<1> QED
  BY <1>5, <1>6, FS_CardinalityType

(* The first command of bank a leaves its queue.                           *)
FirstLeaves(queues, new, a) ==
    /\ queues[a] # <<>> /\ new[a] = Tail(queues[a])
    /\ \A b \in Banks : b # a => new[b] = queues[b]

(* Then the CAS commands of q are one fewer if that was one of them, and   *)
(* as many otherwise.                                                      *)
LEMMA CasSetTail ==
    ASSUME NEW q, NEW queues \in [Banks -> Seq(Commands)], NEW a \in Banks,
           NEW new \in [Banks -> Seq(Commands)], FirstLeaves(queues, new, a)
    PROVE  Cardinality(CasSet(q, queues))
              = Cardinality(CasSet(q, new))
                + (IF 1 \in CasFor(q, queues[a]) THEN 1 ELSE 0)
<1> DEFINE C == CasSet(q, queues)
           D == CasSet(q, new)
           A == C \ {<<a, 1>>}
           f == [t \in A |-> IF t[1] = a THEN <<a, t[2] - 1>> ELSE t]
<1>0. /\ \A b, i : <<b, i>> \in C <=> b \in Banks /\ i \in CasFor(q, queues[b])
      /\ \A b, i : <<b, i>> \in D <=> b \in Banks /\ i \in CasFor(q, new[b])
      /\ \A t \in C : t = <<t[1], t[2]>>
      /\ \A t \in D : t = <<t[1], t[2]>>
  BY CasSetIs
<1>1. /\ \A i \in CasFor(q, queues[a]) : i \in Nat \ {0}
      /\ \A i \in CasFor(q, queues[a]) : i # 1 => i - 1 \in CasFor(q, new[a])
      /\ \A i \in CasFor(q, new[a]) : /\ i \in Nat \ {0}
                                      /\ i + 1 \in CasFor(q, queues[a])
  <2> DEFINE s == queues[a]
             r == new[a]
  <2>1. /\ Len(s) \in Nat /\ Len(s) # 0 /\ Len(r) = Len(s) - 1
        /\ DOMAIN s = 1..Len(s) /\ DOMAIN r = 1..Len(r)
        /\ \A i \in 1 .. Len(s) - 1 : r[i] = s[i + 1]
    <3>1. s \in Seq(Commands) /\ s # <<>> /\ r = Tail(s) /\ r \in Seq(Commands)
      BY DEF FirstLeaves
    <3> HIDE DEF s, r
    <3> QED
      BY <3>1, EmptySeq, HeadTailProperties, LenProperties
  <2> HIDE DEF s, r
  <2>2. ASSUME NEW i \in DOMAIN s, i # 1
        PROVE  i - 1 \in DOMAIN r /\ r[i - 1] = s[i]
    <3>1. i - 1 \in 1 .. Len(s) - 1 /\ (i - 1) + 1 = i
      BY <2>1, <2>2
    <3> QED
      BY <2>1, <3>1
  <2>3. ASSUME NEW i \in DOMAIN r
        PROVE  i + 1 \in DOMAIN s /\ r[i] = s[i + 1]
    BY <2>1
  <2>4. /\ \A i \in CasFor(q, s) : i \in Nat \ {0}
        /\ \A i \in CasFor(q, s) : i # 1 => i - 1 \in CasFor(q, r)
    BY <2>1, <2>2 DEF CasFor
  <2>5. \A i \in CasFor(q, r) : i \in Nat \ {0} /\ i + 1 \in CasFor(q, s)
    BY <2>1, <2>3 DEF CasFor
  <2> QED
    BY <2>4, <2>5 DEF s, r
<1>2. \A b \in Banks : b # a => CasFor(q, new[b]) = CasFor(q, queues[b])
  BY DEF FirstLeaves
<1>3. IsFiniteSet(C) /\ Cardinality(C) \in Nat
  BY CasSetFinite
<1>4. f \in [A -> D]
  <2> SUFFICES ASSUME NEW t \in A PROVE f[t] \in D
    OBVIOUS
  <2> HIDE DEF C, D
  <2>1. t = <<t[1], t[2]>> /\ t[1] \in Banks /\ t[2] \in CasFor(q, queues[t[1]])
    BY <1>0
  <2>2. CASE t[1] = a
    <3>1. t[2] # 1
      BY <2>1, <2>2
    <3>2. t[2] - 1 \in CasFor(q, new[a])
      BY <1>1, <2>1, <2>2, <3>1
    <3>3. f[t] = <<a, t[2] - 1>>
      BY <2>2
    <3> QED
      BY <1>0, <3>2, <3>3
  <2>3. CASE t[1] # a
    <3>1. f[t] = t
      BY <2>3
    <3> QED
      BY <1>0, <1>2, <2>1, <2>3, <3>1
  <2> QED
    BY <2>2, <2>3
<1>5. \A x, y \in A : f[x] = f[y] => x = y
  <2> SUFFICES ASSUME NEW x \in A, NEW y \in A, f[x] = f[y] PROVE x = y
    OBVIOUS
  <2> HIDE DEF C, D
  <2>1. /\ x = <<x[1], x[2]>> /\ x[1] \in Banks /\ x[2] \in CasFor(q, queues[x[1]])
        /\ y = <<y[1], y[2]>> /\ y[1] \in Banks /\ y[2] \in CasFor(q, queues[y[1]])
    BY <1>0
  <2>2. /\ x[1] = a => f[x] = <<a, x[2] - 1>> /\ x[2] \in Nat
        /\ y[1] = a => f[y] = <<a, y[2] - 1>> /\ y[2] \in Nat
        /\ x[1] # a => f[x] = <<x[1], x[2]>>
        /\ y[1] # a => f[y] = <<y[1], y[2]>>
    BY <1>1, <2>1
  <2> HIDE DEF f
  <2>3. x[1] = y[1] /\ x[2] = y[2]
    <3>1. CASE x[1] = a /\ y[1] = a
      BY <2>2, <3>1
    <3>2. CASE x[1] = a /\ y[1] # a
      BY <2>2, <3>2
    <3>3. CASE x[1] # a /\ y[1] = a
      BY <2>2, <3>3
    <3>4. CASE x[1] # a /\ y[1] # a
      BY <2>2, <3>4
    <3> QED
      BY <3>1, <3>2, <3>3, <3>4
  <2> QED
    BY <2>1, <2>3
<1>6. \A t \in D : \E x \in A : f[x] = t
  <2> SUFFICES ASSUME NEW t \in D PROVE \E x \in A : f[x] = t
    OBVIOUS
  <2> HIDE DEF C, D
  <2>1. t = <<t[1], t[2]>> /\ t[1] \in Banks /\ t[2] \in CasFor(q, new[t[1]])
    BY <1>0
  <2>2. CASE t[1] = a
    <3>1. t[2] \in Nat \ {0} /\ t[2] + 1 \in CasFor(q, queues[a])
      BY <1>1, <2>1, <2>2
    <3>2. <<a, t[2] + 1>> \in A
      BY <1>0, <3>1
    <3>3. f[<<a, t[2] + 1>>] = <<a, (t[2] + 1) - 1>>
      BY <3>2
    <3>4. (t[2] + 1) - 1 = t[2]
      BY <3>1
    <3>5. f[<<a, t[2] + 1>>] = t
      BY <2>1, <2>2, <3>3, <3>4
    <3> QED
      BY <3>2, <3>5
  <2>3. CASE t[1] # a
    <3>1. t \in A
      BY <1>0, <1>2, <2>1, <2>3
    <3>2. f[t] = t
      BY <2>3, <3>1
    <3> QED
      BY <3>1, <3>2
  <2> QED
    BY <2>2, <2>3
<1>7. IsFiniteSet(A)
  BY <1>3, FS_Subset
<1> HIDE DEF f
<1>8. Cardinality(D) = Cardinality(A)
  <2> HIDE DEF A, D
  <2> QED
    BY <1>4, <1>5, <1>6, <1>7, SameSize
<1>9. Cardinality(A) = IF <<a, 1>> \in C THEN Cardinality(C) - 1
                       ELSE Cardinality(C)
  <2> HIDE DEF C
  <2> QED
    BY <1>3, FS_RemoveElement
<1>10. <<a, 1>> \in C <=> 1 \in CasFor(q, queues[a])
  BY <1>0
<1> HIDE DEF A, C, D
<1>11. CASE 1 \in CasFor(q, queues[a])
  <2>1. Cardinality(C) = Cardinality(D) + 1
    BY <1>3, <1>8, <1>9, <1>10, <1>11
  <2> QED
    BY <1>11, <2>1 DEF C, D
<1>12. CASE 1 \notin CasFor(q, queues[a])
  <2>1. Cardinality(C) = Cardinality(D) + 0
    BY <1>3, <1>8, <1>9, <1>10, <1>12
  <2> QED
    BY <1>12, <2>1 DEF C, D
<1> QED
  BY <1>11, <1>12

(* Commands are appended to every queue.                                   *)
LEMMA CasSetConcat ==
    ASSUME NEW q, NEW queues \in [Banks -> Seq(Commands)],
           NEW g \in [Banks -> Seq(Commands)],
           NEW new \in [Banks -> Seq(Commands)],
           \A b \in Banks : new[b] = queues[b] \o g[b]
    PROVE  Cardinality(CasSet(q, new))
              = Cardinality(CasSet(q, queues)) + Cardinality(CasSet(q, g))
<1> DEFINE C == CasSet(q, queues)
           D == CasSet(q, new)
           G == CasSet(q, g)
           L(b) == Len(queues[b])
           N == {t \in D : t[2] > L(t[1])}
           f == [t \in G |-> <<t[1], L(t[1]) + t[2]>>]
<1>0. /\ \A b, i : <<b, i>> \in C <=> b \in Banks /\ i \in CasFor(q, queues[b])
      /\ \A b, i : <<b, i>> \in D <=> b \in Banks /\ i \in CasFor(q, new[b])
      /\ \A b, i : <<b, i>> \in G <=> b \in Banks /\ i \in CasFor(q, g[b])
      /\ \A t \in C : t = <<t[1], t[2]>>
      /\ \A t \in D : t = <<t[1], t[2]>>
      /\ \A t \in G : t = <<t[1], t[2]>>
  BY CasSetIs
<1>1. ASSUME NEW b \in Banks
      PROVE  /\ L(b) \in Nat
             /\ \A i \in CasFor(q, queues[b]) : /\ i \in Nat /\ i <= L(b)
                                                 /\ i \in CasFor(q, new[b])
             /\ \A i \in CasFor(q, g[b]) : /\ i \in Nat \ {0}
                                            /\ L(b) + i \in CasFor(q, new[b])
             /\ \A i \in CasFor(q, new[b]) :
                    /\ i \in Nat
                    /\ i <= L(b) => i \in CasFor(q, queues[b])
                    /\ i > L(b) => i - L(b) \in CasFor(q, g[b])
  <2> DEFINE s == queues[b]
             r == g[b]
             n == new[b]
  <2>1. /\ s \in Seq(Commands) /\ r \in Seq(Commands) /\ n = s \o r
        /\ n \in Seq(Commands)
    OBVIOUS
  <2> HIDE DEF s, r, n
  <2>2. /\ Len(n) = Len(s) + Len(r) /\ Len(s) \in Nat /\ Len(r) \in Nat
        /\ \A i \in 1 .. Len(s) + Len(r) :
              n[i] = IF i <= Len(s) THEN s[i] ELSE r[i - Len(s)]
        /\ DOMAIN s = 1..Len(s) /\ DOMAIN r = 1..Len(r) /\ DOMAIN n = 1..Len(n)
    BY <2>1, ConcatProperties, LenProperties
  <2>3. ASSUME NEW i \in DOMAIN s
        PROVE  i \in Nat /\ i <= Len(s) /\ i \in DOMAIN n /\ n[i] = s[i]
    <3>1. i \in Nat /\ i <= Len(s) /\ i \in 1 .. Len(s) + Len(r)
      BY <2>2
    <3> QED
      BY <2>2, <3>1
  <2>4. ASSUME NEW i \in DOMAIN r
        PROVE  /\ i \in Nat \ {0} /\ Len(s) + i \in DOMAIN n
               /\ n[Len(s) + i] = r[i]
    <3>1. /\ i \in Nat \ {0} /\ Len(s) + i \in 1 .. Len(s) + Len(r)
          /\ ~(Len(s) + i <= Len(s)) /\ (Len(s) + i) - Len(s) = i
      BY <2>2
    <3> QED
      BY <2>2, <3>1
  <2>5. ASSUME NEW i \in DOMAIN n
        PROVE  /\ i \in Nat
               /\ i <= Len(s) => i \in DOMAIN s
               /\ i > Len(s) => i - Len(s) \in DOMAIN r /\ n[i] = r[i - Len(s)]
    <3>1. i \in 1 .. Len(s) + Len(r) /\ i \in Nat
      BY <2>2
    <3>2. CASE i <= Len(s)
      BY <2>2, <3>1, <3>2
    <3>3. CASE i > Len(s)
      <4>1. i - Len(s) \in 1..Len(r) /\ ~(i <= Len(s))
        BY <2>2, <3>1, <3>3
      <4> QED
        BY <2>2, <3>1, <4>1
    <3> QED
      BY <2>2, <3>1, <3>2, <3>3
  <2>6. \A i \in CasFor(q, s) : i \in Nat /\ i <= Len(s) /\ i \in CasFor(q, n)
    BY <2>3 DEF CasFor
  <2>7. \A i \in CasFor(q, r) : i \in Nat \ {0} /\ Len(s) + i \in CasFor(q, n)
    BY <2>4 DEF CasFor
  <2>8. \A i \in CasFor(q, n) : /\ i \in Nat
                                /\ i <= Len(s) => i \in CasFor(q, s)
                                /\ i > Len(s) => i - Len(s) \in CasFor(q, r)
    BY <2>3, <2>5 DEF CasFor
  <2> QED
    BY <2>2, <2>6, <2>7, <2>8 DEF s, r, n
<1>2. /\ IsFiniteSet(C) /\ Cardinality(C) \in Nat
      /\ IsFiniteSet(G) /\ Cardinality(G) \in Nat
      /\ IsFiniteSet(D)
  BY CasSetFinite
<1> HIDE DEF C, D, G, L
<1>3. D = C \cup N /\ C \cap N = {}
  <2>1. ASSUME NEW t \in C PROVE t \in D /\ t \notin N
    <3>1. t = <<t[1], t[2]>> /\ t[1] \in Banks /\ t[2] \in CasFor(q, queues[t[1]])
      BY <1>0
    <3>2. /\ t[2] \in Nat /\ t[2] <= L(t[1]) /\ t[2] \in CasFor(q, new[t[1]])
          /\ L(t[1]) \in Nat
      BY <1>1, <3>1
    <3>3. t \in D
      BY <1>0, <3>1, <3>2
    <3>4. ~(t[2] > L(t[1]))
      BY <3>2
    <3> QED
      BY <3>3, <3>4
  <2>2. ASSUME NEW t \in D, t \notin N PROVE t \in C
    <3>1. t = <<t[1], t[2]>> /\ t[1] \in Banks /\ t[2] \in CasFor(q, new[t[1]])
      BY <1>0
    <3>2. ~(t[2] > L(t[1]))
      BY <2>2
    <3>3. t[2] \in CasFor(q, queues[t[1]])
      BY <1>1, <3>1, <3>2
    <3> QED
      BY <1>0, <3>1, <3>3
  <2> QED
    BY <2>1, <2>2
<1>4. f \in [G -> N]
  <2> SUFFICES ASSUME NEW t \in G PROVE f[t] \in N
    OBVIOUS
  <2>1. t[1] \in Banks /\ t[2] \in CasFor(q, g[t[1]])
    BY <1>0
  <2>2. /\ t[2] \in Nat \ {0} /\ L(t[1]) \in Nat
        /\ L(t[1]) + t[2] \in CasFor(q, new[t[1]])
    BY <1>1, <2>1
  <2>3. <<t[1], L(t[1]) + t[2]>> \in D /\ L(t[1]) + t[2] > L(t[1])
    BY <1>0, <2>1, <2>2
  <2> QED
    BY <2>3
<1>5. \A x, y \in G : f[x] = f[y] => x = y
  <2> SUFFICES ASSUME NEW x \in G, NEW y \in G, f[x] = f[y] PROVE x = y
    OBVIOUS
  <2>1. /\ x = <<x[1], x[2]>> /\ x[1] \in Banks /\ x[2] \in CasFor(q, g[x[1]])
        /\ y = <<y[1], y[2]>> /\ y[1] \in Banks /\ y[2] \in CasFor(q, g[y[1]])
    BY <1>0
  <2>2. x[2] \in Nat /\ y[2] \in Nat /\ L(x[1]) \in Nat /\ L(y[1]) \in Nat
    BY <1>1, <2>1
  <2>3. /\ f[x] = <<x[1], L(x[1]) + x[2]>>
        /\ f[y] = <<y[1], L(y[1]) + y[2]>>
    OBVIOUS
  <2> DEFINE u == L(x[1]) + x[2]
             v == L(y[1]) + y[2]
  <2>a. <<x[1], u>> = <<y[1], v>>
    BY <2>3
  <2> HIDE DEF f, u, v
  <2>4. x[1] = y[1] /\ u = v
    BY <2>a
  <2>5. x[2] = y[2]
    BY <2>2, <2>4 DEF u, v
  <2> QED
    BY <2>1, <2>4, <2>5
<1>6. \A t \in N : \E x \in G : f[x] = t
  <2> SUFFICES ASSUME NEW t \in N PROVE \E x \in G : f[x] = t
    OBVIOUS
  <2>1. t = <<t[1], t[2]>> /\ t[1] \in Banks /\ t[2] \in CasFor(q, new[t[1]])
    BY <1>0
  <2>2. /\ t[2] \in Nat /\ L(t[1]) \in Nat
        /\ t[2] - L(t[1]) \in CasFor(q, g[t[1]])
    BY <1>1, <2>1
  <2> DEFINE x == <<t[1], t[2] - L(t[1])>>
  <2>3. x \in G
    BY <1>0, <2>1, <2>2
  <2>4. L(t[1]) + (t[2] - L(t[1])) = t[2]
    BY <2>2
  <2>5. f[x] = <<t[1], L(t[1]) + (t[2] - L(t[1]))>>
    BY <2>3
  <2>6. f[x] = t
    BY <2>1, <2>4, <2>5
  <2> QED
    BY <2>3, <2>6
<1>7. IsFiniteSet(N)
  BY <1>2, FS_Subset
<1> HIDE DEF f, N
<1>8. Cardinality(N) = Cardinality(G)
  BY <1>2, <1>4, <1>5, <1>6, SameSize
<1>9. Cardinality(C \cup N)
          = Cardinality(C) + Cardinality(N) - Cardinality(C \cap N)
  BY <1>2, <1>7, FS_Union
<1>10. Cardinality(C \cap N) = 0
  BY <1>3, FS_EmptySet
<1>11. Cardinality(D) = Cardinality(C) + Cardinality(G)
  BY <1>2, <1>3, <1>8, <1>9, <1>10
<1> QED
  BY <1>11 DEF C, D, G

-----------------------------------------------------------------------------
(* What the generators append.                                             *)

(* The close-page generator has a line of its lookup table for the size of *)
(* a request, and the banks it spreads a request over are banks of the     *)
(* device.  (For another size its table has no line; beyond the device's   *)
(* banks there is no queue.)                                               *)
SpreadFits ==
    ClosePage => /\ Beats \in {1, 2, 4, 8, 16}
                 /\ \A q \in Traffic : \A j \in 0..15 :
                       j < lookupTable(Beats)[1] => (q.bank + j) % 16 \in Banks

(* The commands generated for a request, bank by bank.                     *)
Generated(q) == [b \in Banks |-> commandGenerate(q, b)]

(* They are sequences of commands.                                         *)
LEMMA GeneratedType ==
    ASSUME NEW q \in Traffic
    PROVE  Generated(q) \in [Banks -> Seq(Commands)]
  BY CommandsType DEF Generated

(* A read command belongs to a read, a write command to a write.           *)
CommandRouted(c) == /\ c.busPacketType \in Reads => IsRead(c.request)
                    /\ c.busPacketType \in Writes => ~IsRead(c.request)

(* They are all its own, reads or writes as it is.                         *)
LEMMA GeneratedOwn ==
    ASSUME NEW q \in Traffic, NEW b \in Banks,
           NEW i \in DOMAIN commandGenerate(q, b)
    PROVE  /\ commandGenerate(q, b)[i].request = q
           /\ CommandRouted(commandGenerate(q, b)[i])
<1> DEFINE Own == {c \in Commands : c.request = q /\ CommandRouted(c)}
           act == Command("ACT", q)
           pre == Command("PRE", q)
           rd == Command(IF IsRead(q) THEN "RD" ELSE "WR", q)
           rda == Command(IF IsRead(q) THEN "RDA" ELSE "WRA", q)
<1>1. act \in Own /\ pre \in Own /\ rd \in Own /\ rda \in Own
  BY DEF Command, Commands, CommandRouted, Types, Cas, Reads, Writes, Acts, RoundActs
<1> HIDE DEF Own
<1>2. CloseCommands(q, b) \in Seq(Own)
  <2> DEFINE t == CloseCommands(q, b)
  <2>1. t = <<>> \/ t = <<act, rda>> \/ t = <<act, rda, act, rda>>
    BY DEF CloseCommands
  <2> HIDE DEF act, rda, t
  <2>2. CASE t = <<>>
    BY <2>2 DEF t
  <2>3. CASE t = <<act, rda>>
    BY <1>1, <2>3 DEF t
  <2>4. CASE t = <<act, rda, act, rda>>
    BY <1>1, <2>4 DEF t
  <2> QED
    BY <2>1, <2>2, <2>3, <2>4 DEF t
<1>3. OpenCommands(q) \in Seq(Own)
  <2> DEFINE row == IF isRowHit(q) THEN <<>>
                    ELSE IF first[q.bank] THEN <<act>> ELSE <<pre, act>>
             burst == [k \in 1..Beats |-> rd]
  <2>1. OpenCommands(q) = row \o burst
    BY DEF OpenCommands
  <2> HIDE DEF act, pre, rd
  <2>2. row \in Seq(Own)
    <3>1. <<>> \in Seq(Own) /\ <<act>> \in Seq(Own) /\ <<pre, act>> \in Seq(Own)
      BY <1>1
    <3> QED
      BY <3>1
  <2>3. burst \in Seq(Own)
    <3>1. Beats \in Nat
      BY ControllerAssumption
    <3> QED
      BY <1>1, <3>1, IsASeq
  <2> HIDE DEF row, burst
  <2> QED
    BY <2>1, <2>2, <2>3
<1>4. commandGenerate(q, b) \in Seq(Own)
  <2>1. <<>> \in Seq(Own)
    OBVIOUS
  <2> QED
    BY <1>2, <1>3, <2>1, ControllerAssumption DEF commandGenerate
<1>5. commandGenerate(q, b)[i] \in Own
  BY <1>4
<1> QED
  BY <1>5 DEF Own

(* Nothing is generated for another request.                               *)
LEMMA GeneratedForOthers ==
    ASSUME NEW q \in Traffic, NEW x, x # q
    PROVE  Cardinality(CasSet(x, Generated(q))) = 0
<1>1. ASSUME NEW b \in Banks PROVE CasFor(x, Generated(q)[b]) = {}
  <2>1. Generated(q)[b] = commandGenerate(q, b)
    BY DEF Generated
  <2>2. \A i \in DOMAIN commandGenerate(q, b) : commandGenerate(q, b)[i].request = q
    BY GeneratedOwn
  <2> QED
    BY <2>1, <2>2 DEF CasFor
<1>2. CasSet(x, Generated(q)) = {}
  BY <1>1, CasSetIs
<1> QED
  BY <1>2, FS_EmptySet

(* The open-page generator: as many CAS as beats.                          *)
LEMMA OpenCas ==
    ASSUME NEW q \in Traffic, ~ClosePage
    PROVE  Cardinality(CasSet(q, Generated(q))) = Beats
<1> DEFINE row == IF isRowHit(q) THEN <<>>
                  ELSE IF first[q.bank] THEN <<Command("ACT", q)>>
                  ELSE <<Command("PRE", q), Command("ACT", q)>>
           cas == Command(IF IsRead(q) THEN "RD" ELSE "WR", q)
           burst == [k \in 1..Beats |-> cas]
           n == Len(row)
           P == (n + 1) .. (n + Beats)
<1>1. /\ q.bank \in Banks /\ Beats \in Nat \ {0}
  BY ControllerAssumption
<1>2. /\ cas \in Commands /\ cas.request = q /\ cas.busPacketType \in Cas
      /\ Command("ACT", q) \in Commands /\ Command("PRE", q) \in Commands
      /\ Command("ACT", q).busPacketType \notin Cas
      /\ Command("PRE", q).busPacketType \notin Cas
  BY DEF Command, Commands, Types, Cas, Reads, Writes, Acts, RoundActs
<1>3. /\ row \in Seq(Commands) /\ n \in Nat
      /\ \A i \in 1..n : row[i].busPacketType \notin Cas
  <2>1. row = <<>> \/ row = <<Command("ACT", q)>>
        \/ row = <<Command("PRE", q), Command("ACT", q)>>
    OBVIOUS
  <2> DEFINE act == Command("ACT", q)
             pre == Command("PRE", q)
  <2>2. /\ act.busPacketType \notin Cas /\ pre.busPacketType \notin Cas
        /\ act \in Commands /\ pre \in Commands
    BY <1>2
  <2> HIDE DEF row, act, pre
  <2>3. CASE row = <<>>
    BY <2>3
  <2>4. CASE row = <<act>>
    BY <2>2, <2>4
  <2>5. CASE row = <<pre, act>>
    BY <2>2, <2>5
  <2> QED
    BY <2>1, <2>3, <2>4, <2>5 DEF act, pre
<1>4. /\ burst \in Seq(Commands) /\ Len(burst) = Beats
      /\ \A i \in 1..Beats : burst[i] = cas
  BY <1>1, <1>2, IsASeq
<1>5. OpenCommands(q) = row \o burst
  BY DEF OpenCommands
<1> HIDE DEF row, cas, burst
<1>6. CasFor(q, OpenCommands(q)) = P
  <2> DEFINE s == row \o burst
  <2>1. /\ DOMAIN s = 1 .. n + Beats
        /\ \A i \in 1 .. n + Beats : s[i] = IF i <= n THEN row[i] ELSE burst[i - n]
    <3>1. /\ s \in Seq(Commands) /\ Len(s) = Len(row) + Len(burst)
          /\ \A i \in 1 .. Len(row) + Len(burst) :
                s[i] = IF i <= Len(row) THEN row[i] ELSE burst[i - Len(row)]
      BY <1>3, <1>4, ConcatProperties
    <3> HIDE DEF s
    <3>2. DOMAIN s = 1..Len(s)
      BY <3>1, LenProperties
    <3> QED
      BY <1>4, <3>1, <3>2
  <2> HIDE DEF s, n
  <2>2. ASSUME NEW i \in DOMAIN s
        PROVE  i \in CasFor(q, s) <=> i \in P
    <3>1. i \in 1 .. n + Beats
      BY <2>1
    <3>2. CASE i <= n
      <4>1. s[i] = row[i] /\ i \in 1..n
        BY <1>1, <1>3, <2>1, <3>1, <3>2
      <4>2. i \notin P
        BY <1>1, <1>3, <3>2
      <4> QED
        BY <1>3, <4>1, <4>2 DEF CasFor
    <3>3. CASE i > n
      <4>1. s[i] = burst[i - n] /\ i - n \in 1..Beats /\ i \in P
        BY <1>1, <1>3, <2>1, <3>1, <3>3
      <4>2. s[i] = cas
        BY <1>4, <4>1
      <4> QED
        BY <1>2, <4>1, <4>2 DEF CasFor
    <3> QED
      BY <1>1, <1>3, <3>1, <3>2, <3>3
  <2>3. P \subseteq DOMAIN s
    BY <1>1, <1>3, <2>1
  <2>4. CasFor(q, s) \subseteq DOMAIN s
    BY DEF CasFor
  <2>5. CasFor(q, s) = P
    BY <2>2, <2>3, <2>4
  <2> QED
    BY <1>5, <2>5 DEF s
<1>7. CasSet(q, Generated(q)) = {q.bank} \X P
  <2>1. CasFor(q, Generated(q)[q.bank]) = P
    BY <1>1, <1>6 DEF Generated, commandGenerate
  <2>2. ASSUME NEW b \in Banks, b # q.bank
        PROVE  CasFor(q, Generated(q)[b]) = {}
    <3>1. Generated(q)[b] = <<>>
      BY <2>2 DEF Generated, commandGenerate
    <3> QED
      BY <3>1 DEF CasFor
  <2> HIDE DEF P
  <2>3. \A b, i : <<b, i>> \in CasSet(q, Generated(q)) <=>
                     b = q.bank /\ i \in P
    BY <1>1, <2>1, <2>2, CasSetIs
  <2> QED
    BY <2>3, CasSetIs
<1>8. IsFiniteSet(P) /\ Cardinality(P) = Beats
  <2> HIDE DEF n
  <2>1. n + 1 \in Int /\ n + Beats \in Int /\ ~(n + 1 > n + Beats)
    BY <1>1, <1>3
  <2>2. IsFiniteSet(P) /\ Cardinality(P) = (n + Beats) - (n + 1) + 1
    BY <2>1, FS_Interval
  <2> QED
    BY <1>1, <1>3, <2>2
<1> HIDE DEF P
<1>9. IsFiniteSet({q.bank}) /\ Cardinality({q.bank}) = 1
  BY FS_Singleton
<1>10. Cardinality({q.bank} \X P) = Cardinality({q.bank}) * Cardinality(P)
  BY <1>8, <1>9, FS_Product
<1> QED
  BY <1>1, <1>7, <1>8, <1>9, <1>10

(* n banks from bank a on, modulo 16, are n banks.                         *)
LEMMA SpreadSize ==
    ASSUME NEW a \in 0..15, NEW n \in 0..16, NEW B \in SUBSET (0..15),
           \A j \in 0..15 : j < n => (a + j) % 16 \in B
    PROVE  LET J == {b \in B : (b - a) % 16 < n}
           IN  IsFiniteSet(J) /\ Cardinality(J) = n
<1> DEFINE J == {b \in B : (b - a) % 16 < n}
           S == 0 .. n - 1
           f == [j \in S |-> (a + j) % 16]
<1>1. IsFiniteSet(S) /\ Cardinality(S) = n
  <2>1. 0 \in Int /\ n - 1 \in Int /\ n \in Nat
    OBVIOUS
  <2>2. IsFiniteSet(S) /\ Cardinality(S) = IF 0 > n - 1 THEN 0 ELSE (n - 1) - 0 + 1
    BY <2>1, FS_Interval
  <2> QED
    BY <2>1, <2>2
<1>2. \A j \in S : j \in 0..15 /\ j < n /\ f[j] = (a + j) % 16
  OBVIOUS
<1>3. \A j \in 0..15 : (((a + j) % 16) - a) % 16 = j
  OBVIOUS
<1>4. \A b \in 0..15 : (a + ((b - a) % 16)) % 16 = b /\ (b - a) % 16 \in 0..15
  OBVIOUS
<1>5. f \in [S -> J]
  <2> SUFFICES ASSUME NEW j \in S PROVE f[j] \in J
    OBVIOUS
  <2>1. (a + j) % 16 \in B
    BY <1>2
  <2>2. (((a + j) % 16) - a) % 16 < n
    BY <1>2, <1>3
  <2> QED
    BY <1>2, <2>1, <2>2
<1>6. \A x, y \in S : f[x] = f[y] => x = y
  <2> SUFFICES ASSUME NEW x \in S, NEW y \in S, f[x] = f[y] PROVE x = y
    OBVIOUS
  <2>1. (a + x) % 16 = (a + y) % 16
    BY <1>2
  <2> QED
    BY <1>2, <1>3, <2>1
<1>7. \A b \in J : \E j \in S : f[j] = b
  <2> SUFFICES ASSUME NEW b \in J PROVE \E j \in S : f[j] = b
    OBVIOUS
  <2>1. b \in 0..15 /\ (b - a) % 16 < n
    OBVIOUS
  <2> DEFINE j == (b - a) % 16
  <2>2. j \in 0..15 /\ j < n /\ (a + j) % 16 = b
    BY <1>4, <2>1
  <2> HIDE DEF j
  <2>3. j \in S
    BY <2>2
  <2>4. f[j] = b
    BY <1>2, <2>2, <2>3
  <2> QED
    BY <2>3, <2>4
<1> HIDE DEF f, S
<1>8. IsFiniteSet(J) /\ Cardinality(J) = n
  <2> HIDE DEF J
  <2> QED
    BY <1>1, <1>5, <1>6, <1>7, SameSize
<1> QED
  BY <1>8

(* The close-page generator: as many CAS as beats.                         *)
LEMMA CloseCas ==
    ASSUME NEW q \in Traffic, ClosePage, SpreadFits
    PROVE  Cardinality(CasSet(q, Generated(q))) = Beats
<1> DEFINE banks == lookupTable(Beats)[1]
           times == lookupTable(Beats)[2]
           J == {b \in Banks : (b - q.bank) % 16 < banks}
           P == IF times = 1 THEN {2} ELSE {2, 4}
           act == Command("ACT", q)
           cas == Command(IF IsRead(q) THEN "RDA" ELSE "WRA", q)
<1>1. q.bank \in 0..15 /\ Banks \in SUBSET (0..15)
  BY ControllerAssumption
<1>2. /\ banks \in 0..16 /\ times \in {1, 2} /\ banks * times = Beats
  BY DEF SpreadFits, lookupTable
<1>3. \A j \in 0..15 : j < banks => (q.bank + j) % 16 \in Banks
  BY DEF SpreadFits
<1>4. /\ cas.request = q /\ cas.busPacketType \in Cas
      /\ act.busPacketType \notin Cas
  BY DEF Command, Cas, Reads, Writes
<1>5. ASSUME NEW b \in Banks
      PROVE  Generated(q)[b] = IF (b - q.bank) % 16 >= banks THEN <<>>
                               ELSE IF times = 1 THEN <<act, cas>>
                               ELSE <<act, cas, act, cas>>
  BY DEF Generated, commandGenerate, CloseCommands
<1> HIDE DEF banks, times, act, cas
<1>6. CasFor(q, <<act, cas>>) = {2} /\ CasFor(q, <<act, cas, act, cas>>) = {2, 4}
      /\ CasFor(q, <<>>) = {}
  <2>1. CasFor(q, <<act, cas>>) = {2}
    BY <1>4 DEF CasFor
  <2>2. CasFor(q, <<act, cas, act, cas>>) = {2, 4}
    BY <1>4 DEF CasFor
  <2>3. CasFor(q, <<>>) = {}
    BY DEF CasFor
  <2> QED
    BY <2>1, <2>2, <2>3
<1>7. ASSUME NEW b \in Banks
      PROVE  CasFor(q, Generated(q)[b]) = IF b \in J THEN P ELSE {}
  <2>1. (b - q.bank) % 16 \in Int /\ banks \in Int
    BY <1>1, <1>2
  <2>2. (b - q.bank) % 16 >= banks <=> b \notin J
    BY <2>1
  <2> HIDE DEF J
  <2>3. CASE b \notin J
    <3>1. Generated(q)[b] = <<>>
      BY <1>5, <2>2, <2>3
    <3> QED
      BY <1>6, <2>3, <3>1
  <2>4. CASE b \in J /\ times = 1
    <3>1. Generated(q)[b] = <<act, cas>>
      BY <1>5, <2>2, <2>4
    <3> QED
      BY <1>6, <2>4, <3>1
  <2>5. CASE b \in J /\ times # 1
    <3>1. Generated(q)[b] = <<act, cas, act, cas>>
      BY <1>5, <2>2, <2>5
    <3> QED
      BY <1>6, <2>5, <3>1
  <2> QED
    BY <2>3, <2>4, <2>5
<1>8. IsFiniteSet(J) /\ Cardinality(J) = banks
  BY <1>1, <1>2, <1>3, SpreadSize
<1>9. IsFiniteSet(P) /\ Cardinality(P) = times
  <2>1. IsFiniteSet({2}) /\ Cardinality({2}) = 1
    BY FS_Singleton
  <2>2. IsFiniteSet({2} \cup {4}) /\ Cardinality({2} \cup {4}) = 1 + 1
    BY <2>1, FS_AddElement
  <2>3. {2} \cup {4} = {2, 4}
    OBVIOUS
  <2> QED
    BY <1>2, <2>1, <2>2, <2>3
<1>10. J \subseteq Banks
  OBVIOUS
<1> HIDE DEF J, P
<1>11. \A b, i : <<b, i>> \in CasSet(q, Generated(q)) <=> b \in J /\ i \in P
  <2> TAKE b, i
  <2>1. <<b, i>> \in CasSet(q, Generated(q)) <=>
           b \in Banks /\ i \in CasFor(q, Generated(q)[b])
    BY CasSetIs
  <2>2. CASE b \in J
    BY <1>7, <1>10, <2>1, <2>2
  <2>3. CASE b \notin J
    BY <1>7, <2>1, <2>3
  <2> QED
    BY <2>2, <2>3
<1>12. CasSet(q, Generated(q)) = J \X P
  BY <1>11, CasSetIs
<1>13. Cardinality(J \X P) = Cardinality(J) * Cardinality(P)
  BY <1>8, <1>9, FS_Product
<1>14. Cardinality(J \X P) = banks * times
  BY <1>8, <1>9, <1>13
<1> QED
  BY <1>2, <1>12, <1>14

-----------------------------------------------------------------------------
(* The beats of a request, counted.                                        *)

(* What an entry of a list counts for request q: its beats to come in a    *)
(* pending list, and itself; the beats of an unscheduled request; a datum. *)
OwedBy(q) == [p \in PendingEntries |-> IF p.request = q THEN p.requestSize ELSE 0]
OpenBy(q) == [p \in PendingEntries |-> IF p.request = q THEN 1 ELSE 0]
WaitBy(q) == [x \in Traffic |-> IF x = q THEN Beats ELSE 0]
DataBy(q) == [d \in DataEntries |-> IF d.request = q THEN 1 ELSE 0]

(* None of these counts is above the beats of a request.                   *)
LEMMA CountsType ==
    ASSUME NEW q
    PROVE  /\ OwedBy(q) \in [PendingEntries -> 0..Beats]
           /\ OpenBy(q) \in [PendingEntries -> {0, 1}]
           /\ OpenBy(q) \in [PendingEntries -> 0..Beats]
           /\ WaitBy(q) \in [Traffic -> {0, Beats}]
           /\ WaitBy(q) \in [Traffic -> 0..Beats]
           /\ DataBy(q) \in [DataEntries -> {0, 1}]
           /\ DataBy(q) \in [DataEntries -> 0..Beats]
           /\ Beats \in 1..Beats /\ 1 \in 1..Beats
<1>1. 0 \in 0..Beats /\ 1 \in 0..Beats /\ 1 \in 1..Beats
      /\ Beats \in 1..Beats /\ Beats \in 0..Beats
  BY ControllerAssumption
<1>2. \A p \in PendingEntries : p.requestSize \in 0..Beats
  BY <1>1 DEF PendingEntries
<1> QED
  BY <1>1, <1>2 DEF OwedBy, OpenBy, WaitBy, DataBy

(* A beat of q settles one beat of q, and one request of q if it completes *)
(* it.                                                                     *)
LEMMA SettleEffect ==
    ASSUME NEW s \in Seq(PendingEntries), NEW q, Matching(s, q) # 0, NEW x
    PROVE  /\ Weight(s, OwedBy(x)) = Weight(Settle(s, q), OwedBy(x))
                                        + (IF x = q THEN 1 ELSE 0)
           /\ Weight(s, OpenBy(x)) = Weight(Settle(s, q), OpenBy(x))
                  + (IF x = q /\ Completes(s, q) THEN 1 ELSE 0)
<1> DEFINE i == Matching(s, q)
           size == s[i].requestSize
<1>1. i \in 1..Len(s) /\ s[i].request = q
  BY MatchingFirst
<1>2. /\ size \in 1..Beats
      /\ Completes(s, q) <=> size = 1
      /\ size = 1 => Settle(s, q) = RemoveAt(s, i)
      /\ size # 1 => \E y \in PendingEntries :
            /\ y.request = s[i].request
            /\ y.requestSize = size - 1
            /\ Settle(s, q) = [s EXCEPT ![i] = y]
  BY SettleCases
<1>3. s[i] \in PendingEntries
  BY <1>1
<1>4. /\ OwedBy(x)[s[i]] = IF x = q THEN size ELSE 0
      /\ OpenBy(x)[s[i]] = IF x = q THEN 1 ELSE 0
  BY <1>1, <1>3 DEF OwedBy, OpenBy
<1>5. /\ OwedBy(x) \in [PendingEntries -> 0..Beats]
      /\ OpenBy(x) \in [PendingEntries -> 0..Beats]
  BY CountsType
<1>6. Settle(s, q) \in Seq(PendingEntries)
  BY SettleType
<1>7. /\ Weight(s, OwedBy(x)) \in Nat /\ Weight(Settle(s, q), OwedBy(x)) \in Nat
      /\ Weight(s, OpenBy(x)) \in Nat /\ Weight(Settle(s, q), OpenBy(x)) \in Nat
  BY <1>6, ToksFinite
<1> HIDE DEF i, size
<1>8. CASE size = 1
  <2>1. Settle(s, q) = RemoveAt(s, i) /\ Completes(s, q)
    BY <1>2, <1>8
  <2>2. /\ Weight(s, OwedBy(x)) = Weight(RemoveAt(s, i), OwedBy(x)) + OwedBy(x)[s[i]]
        /\ Weight(s, OpenBy(x)) = Weight(RemoveAt(s, i), OpenBy(x)) + OpenBy(x)[s[i]]
    BY <1>1, <1>5, WeightRemove
  <2> QED
    BY <1>4, <1>8, <2>1, <2>2
<1>9. CASE size # 1
  <2>1. PICK y \in PendingEntries : /\ y.request = s[i].request
                                    /\ y.requestSize = size - 1
                                    /\ Settle(s, q) = [s EXCEPT ![i] = y]
    BY <1>2, <1>9
  <2> DEFINE t == Settle(s, q)
  <2>2. /\ t \in Seq(PendingEntries) /\ Len(t) = Len(s) /\ t[i] = y
        /\ \A k \in 1..Len(s) : k # i => t[k] = s[k]
    BY <1>1, <1>6, <2>1
  <2>b. /\ Weight(s, OwedBy(x)) \in Nat /\ Weight(t, OwedBy(x)) \in Nat
        /\ Weight(s, OpenBy(x)) \in Nat /\ Weight(t, OpenBy(x)) \in Nat
    BY <1>7
  <2>3. ~Completes(s, q)
    BY <1>2, <1>9
  <2>4. /\ OwedBy(x)[y] = IF x = q THEN size - 1 ELSE 0
        /\ OpenBy(x)[y] = IF x = q THEN 1 ELSE 0
    BY <1>1, <2>1 DEF OwedBy, OpenBy
  <2> HIDE DEF t
  <2>a. \A m \in [PendingEntries -> 0..Beats] :
           Weight(t, m) + m[s[i]] = Weight(s, m) + m[t[i]]
    <3>1. t \in Seq(PendingEntries)
      BY <2>2
    <3>2. DifferAt(s, t, i)
      BY <2>2 DEF DifferAt
    <3>3. i \in 1..Len(s)
      BY <1>1
    <3> TAKE m \in [PendingEntries -> 0..Beats]
    <3> QED
      BY <3>1, <3>2, <3>3, WeightReplace, SMTT(20)
  <2>5. Weight(t, OwedBy(x)) + OwedBy(x)[s[i]] = Weight(s, OwedBy(x)) + OwedBy(x)[t[i]]
    BY <1>5, <2>a
  <2>6. Weight(t, OpenBy(x)) + OpenBy(x)[s[i]] = Weight(s, OpenBy(x)) + OpenBy(x)[t[i]]
    BY <1>5, <2>a
  <2>7. t[i] = y
    BY <2>2
  <2>8. CASE x = q
    <3>1. /\ Weight(t, OwedBy(x)) + size = Weight(s, OwedBy(x)) + (size - 1)
          /\ Weight(t, OpenBy(x)) + 1 = Weight(s, OpenBy(x)) + 1
      BY <1>4, <2>4, <2>5, <2>6, <2>7, <2>8
    <3>2. /\ Weight(s, OwedBy(x)) = Weight(t, OwedBy(x)) + 1
          /\ Weight(s, OpenBy(x)) = Weight(t, OpenBy(x)) + 0
      <4>1. size \in Nat
        BY <1>2
      <4> QED
        BY <2>b, <3>1, <4>1
    <3> QED
      BY <2>3, <2>8, <3>2 DEF t
  <2>9. CASE x # q
    <3>1. /\ Weight(t, OwedBy(x)) + 0 = Weight(s, OwedBy(x)) + 0
          /\ Weight(t, OpenBy(x)) + 0 = Weight(s, OpenBy(x)) + 0
      BY <1>4, <2>4, <2>5, <2>6, <2>7, <2>9
    <3>2. /\ Weight(s, OwedBy(x)) = Weight(t, OwedBy(x)) + 0
          /\ Weight(s, OpenBy(x)) = Weight(t, OpenBy(x)) + 0
      BY <2>b, <3>1
    <3> QED
      BY <2>9, <3>2 DEF t
  <2> QED
    BY <2>8, <2>9
<1> QED
  BY <1>8, <1>9

-----------------------------------------------------------------------------
(* Beats are matched to the first entry of their request, so that only the *)
(* first is ever partly answered.                                          *)
PartialFirst(s) == \A i, j \in 1..Len(s) :
    i < j /\ s[i].request = s[j].request => s[j].requestSize = Beats

(* A new request, none of whose beats has come, may be appended.           *)
LEMMA PartialFirstAppend ==
    ASSUME NEW s \in Seq(PendingEntries), PartialFirst(s),
           NEW p \in PendingEntries, p.requestSize = Beats
    PROVE  PartialFirst(Append(s, p))
<1> DEFINE t == Append(s, p)
<1>1. /\ Len(s) \in Nat /\ Len(t) = Len(s) + 1 /\ t[Len(s) + 1] = p
      /\ \A i \in 1..Len(s) : t[i] = s[i]
  OBVIOUS
<1> HIDE DEF t
<1>2. ASSUME NEW i \in 1..Len(t), NEW j \in 1..Len(t), i < j,
             t[i].request = t[j].request
      PROVE  t[j].requestSize = Beats
  <2>1. CASE j = Len(s) + 1
    BY <1>1, <2>1
  <2>2. CASE j # Len(s) + 1
    <3>1. j \in 1..Len(s) /\ i \in 1..Len(s)
      BY <1>1, <1>2, <2>2
    <3> QED
      BY <1>1, <1>2, <3>1 DEF PartialFirst
  <2> QED
    BY <2>1, <2>2
<1> QED
  BY <1>2 DEF PartialFirst, t

(* A beat goes to the first entry of its request.                          *)
LEMMA PartialFirstSettle ==
    ASSUME NEW s \in Seq(PendingEntries), PartialFirst(s), NEW q
    PROVE  PartialFirst(Settle(s, q))
<1> DEFINE n == Matching(s, q)
           t == Settle(s, q)
<1>1. CASE n = 0
  BY <1>1 DEF Settle
<1>2. CASE n # 0
  <2>1. /\ n \in 1..Len(s) /\ s[n].request = q
        /\ \A k \in 1..Len(s) : k < n => s[k].request # q
    BY <1>2, MatchingFirst
  <2>2. /\ s[n].requestSize = 1 => t = RemoveAt(s, n)
        /\ s[n].requestSize # 1 => \E y \in PendingEntries :
              y.request = s[n].request /\ t = [s EXCEPT ![n] = y]
    BY <1>2, SettleCases
  <2>3. Len(s) \in Nat
    OBVIOUS
  <2> HIDE DEF n, t
  <2>4. CASE s[n].requestSize = 1
    <3>1. /\ Len(t) = Len(s) - 1
          /\ \A i \in 1 .. Len(s) - 1 : t[i] = IF i < n THEN s[i] ELSE s[i + 1]
      <4>1. t = RemoveAt(s, n) /\ n \in 1..Len(s)
        BY <2>1, <2>2, <2>4
      <4>2. /\ Len(RemoveAt(s, n)) = Len(s) - 1
            /\ \A i \in 1 .. Len(s) - 1 :
                   RemoveAt(s, n)[i] = IF i < n THEN s[i] ELSE s[i + 1]
        BY <4>1, RemoveAtAt
      <4> QED
        BY <4>1, <4>2
    <3> DEFINE Old(i) == IF i < n THEN i ELSE i + 1
    <3>2. ASSUME NEW i \in 1..Len(t)
          PROVE  Old(i) \in 1..Len(s) /\ t[i] = s[Old(i)]
      <4>1. i \in 1 .. Len(s) - 1
        BY <3>1
      <4>2. CASE i < n
        BY <2>3, <3>1, <4>1, <4>2
      <4>3. CASE ~(i < n)
        BY <2>3, <3>1, <4>1, <4>3
      <4> QED
        BY <4>2, <4>3
    <3>3. ASSUME NEW i \in 1..Len(t), NEW j \in 1..Len(t), i < j
          PROVE  Old(i) < Old(j)
      BY <2>1, <3>3
    <3> HIDE DEF Old
    <3>4. ASSUME NEW i \in 1..Len(t), NEW j \in 1..Len(t), i < j,
                 t[i].request = t[j].request
          PROVE  t[j].requestSize = Beats
      <4>1. Old(i) < Old(j)
        BY <3>3, <3>4
      <4>2. /\ Old(i) \in 1..Len(s) /\ t[i] = s[Old(i)]
            /\ Old(j) \in 1..Len(s) /\ t[j] = s[Old(j)]
        BY <3>2
      <4>3. s[Old(i)].request = s[Old(j)].request
        BY <3>4, <4>2
      <4>4. s[Old(j)].requestSize = Beats
        BY <4>1, <4>2, <4>3 DEF PartialFirst
      <4> QED
        BY <4>2, <4>4
    <3> QED
      BY <3>4 DEF PartialFirst, t
  <2>5. CASE s[n].requestSize # 1
    <3>1. PICK y \in PendingEntries :
             y.request = s[n].request /\ t = [s EXCEPT ![n] = y]
      BY <2>2, <2>5
    <3>2. /\ Len(t) = Len(s) /\ t[n] = y
          /\ \A k \in 1..Len(s) : k # n => t[k] = s[k]
      BY <2>1, <3>1
    <3>3. ASSUME NEW i \in 1..Len(t), NEW j \in 1..Len(t), i < j,
                 t[i].request = t[j].request
          PROVE  t[j].requestSize = Beats
      <4>1. i \in 1..Len(s) /\ j \in 1..Len(s)
        BY <3>2
      <4>2. s[i].request = t[i].request /\ s[j].request = t[j].request
        BY <3>1, <3>2, <4>1
      <4>3. j # n
        BY <2>1, <3>3, <4>1, <4>2
      <4>4. t[j] = s[j]
        BY <3>2, <4>1, <4>3
      <4> QED
        BY <3>3, <4>1, <4>2, <4>4 DEF PartialFirst
    <3> QED
      BY <3>3 DEF PartialFirst, t
  <2> QED
    BY <2>4, <2>5
<1> QED
  BY <1>1, <1>2

(* The beats to come are those of the first entry and all those of the     *)
(* others.                                                                 *)
LEMMA OwedShape ==
    ASSUME NEW s \in Seq(PendingEntries), PartialFirst(s), NEW q,
           NEW n, n = Matching(s, q), n # 0
    PROVE  \E k \in Nat :
              /\ Weight(s, OpenBy(q)) = k + 1
              /\ Weight(s, OwedBy(q)) = Beats * k + s[n].requestSize
<1> DEFINE r == RemoveAt(s, n)
           full == [p \in PendingEntries |-> IF p.request = q THEN Beats ELSE 0]
           I == {i \in DOMAIN r : OpenBy(q)[r[i]] = 1}
<1>1. /\ n \in 1..Len(s) /\ s[n].request = q
      /\ \A k \in 1..Len(s) : k < n => s[k].request # q
  BY MatchingFirst
<1>2. /\ r \in Seq(PendingEntries) /\ Len(r) = Len(s) - 1
      /\ \A i \in 1 .. Len(s) - 1 : r[i] = IF i < n THEN s[i] ELSE s[i + 1]
  BY <1>1, RemoveAtAt
<1>3. s[n] \in PendingEntries /\ Len(s) \in Nat
  BY <1>1
<1>4. /\ OwedBy(q) \in [PendingEntries -> 0..Beats]
      /\ OpenBy(q) \in [PendingEntries -> 0..Beats]
      /\ OpenBy(q) \in [PendingEntries -> {0, 1}]
      /\ Beats \in 1..Beats /\ 1 \in 1..Beats
  BY CountsType
<1>5. /\ Weight(s, OwedBy(q)) = Weight(r, OwedBy(q)) + OwedBy(q)[s[n]]
      /\ Weight(s, OpenBy(q)) = Weight(r, OpenBy(q)) + OpenBy(q)[s[n]]
  BY <1>1, <1>4, WeightRemove
<1>6. OwedBy(q)[s[n]] = s[n].requestSize /\ OpenBy(q)[s[n]] = 1
  BY <1>1, <1>3 DEF OwedBy, OpenBy
<1>7. I = {i \in DOMAIN r : full[r[i]] = Beats}
  <2>1. \A i \in DOMAIN r : r[i] \in PendingEntries
    BY <1>2
  <2>2. Beats # 0
    BY ControllerAssumption
  <2> QED
    BY <2>1, <2>2 DEF OpenBy
<1>8. full \in [PendingEntries -> {0, Beats}]
  OBVIOUS
<1>a. ASSUME NEW i \in 1..Len(r) PROVE OwedBy(q)[r[i]] = full[r[i]]
  <2>1. r[i] \in PendingEntries /\ i \in 1 .. Len(s) - 1
    BY <1>2
  <2>2. CASE r[i].request # q
    BY <2>1, <2>2 DEF OwedBy
  <2>3. CASE r[i].request = q
    <3>1. CASE i < n
      BY <1>1, <1>2, <1>3, <2>1, <2>3, <3>1
    <3>2. CASE ~(i < n)
      <4>1. r[i] = s[i + 1] /\ i + 1 \in 1..Len(s) /\ n < i + 1
        BY <1>1, <1>2, <1>3, <2>1, <3>2
      <4>2. r[i].requestSize = Beats
        BY <1>1, <2>3, <4>1 DEF PartialFirst
      <4> QED
        BY <2>1, <2>3, <4>2 DEF OwedBy
    <3> QED
      BY <3>1, <3>2
  <2> QED
    BY <2>2, <2>3
<1>b. I = {i \in DOMAIN r : OpenBy(q)[r[i]] = 1}
  OBVIOUS
<1> HIDE DEF r, full, I
<1>9. Weight(r, OwedBy(q)) = Weight(r, full)
  <2>1. Toks(r, OwedBy(q)) = Toks(r, full)
    BY <1>a DEF Toks
  <2> QED
    BY <2>1 DEF Weight
<1>10. Cardinality(I) \in Nat /\ Weight(r, full) = Beats * Cardinality(I)
  <2>1. r \in Seq(PendingEntries)
    BY <1>2
  <2>2. Beats \in 1..Beats /\ full \in [PendingEntries -> {0, Beats}]
    BY <1>4, <1>8
  <2> QED
    BY <1>7, <2>1, <2>2, WeightOfCount
<1>11. Weight(r, OpenBy(q)) = 1 * Cardinality(I)
  <2>1. r \in Seq(PendingEntries)
    BY <1>2
  <2>2. 1 \in 1..Beats /\ OpenBy(q) \in [PendingEntries -> {0, 1}]
    BY <1>4
  <2> QED
    BY <1>b, <2>1, <2>2, WeightOfCount
<1>12. /\ Weight(s, OpenBy(q)) = Cardinality(I) + 1
       /\ Weight(s, OwedBy(q)) = Beats * Cardinality(I) + s[n].requestSize
  BY <1>5, <1>6, <1>9, <1>10, <1>11
<1> QED
  BY <1>10, <1>12

(* A request's last beat is the one after which what is owed is a multiple *)
(* of the beats of a request.                                              *)
LEMMA LastBeat ==
    ASSUME NEW k \in Nat, NEW size \in 1..Beats
    PROVE  (Beats * k + size - 1) % Beats = 0 <=> size = 1
<1>1. Beats \in Nat /\ Beats > 0
  BY ControllerAssumption
<1>2. ASSUME NEW b \in Nat, b > 0, NEW a \in 0 .. b - 1
      PROVE  (b * k + a) % b = a
  BY <1>2
<1>3. size - 1 \in 0 .. Beats - 1
  BY <1>1
<1>4. (Beats * k + (size - 1)) % Beats = size - 1
  BY <1>1, <1>2, <1>3
<1> DEFINE m == Beats * k
<1>5. m \in Int /\ size \in Int
  BY <1>1
<1> HIDE DEF m
<1>6. m + (size - 1) = m + size - 1
  BY <1>5
<1>7. (m + size - 1) % Beats = size - 1
  BY <1>4, <1>6 DEF m
<1>8. size - 1 = 0 <=> size = 1
  BY <1>5
<1> QED
  BY <1>7, <1>8 DEF m

-----------------------------------------------------------------------------
(* Where the beats of request q are.                                       *)
ListOf(q) == IF IsRead(q) THEN pendingRead ELSE pendingWrite
DataOf(q) == IF IsRead(q) THEN readData ELSE sendData
OwedNow(q) == Weight(ListOf(q), OwedBy(q))
OpenNow(q) == Weight(ListOf(q), OpenBy(q))
WaitNow(q) == Weight(requestBuffer[BufferOf(q)], WaitBy(q))
QueuedNow(q) == Cardinality(CasSet(q, commandQueue))
FlightNow(q) == Weight(DataOf(q), DataBy(q))

(* The same numbers as the model's definitions give.                       *)
CountsOf == \A q \in Traffic :
    /\ Owed(q) = OwedNow(q) /\ Waiting(q) = WaitNow(q)
    /\ Queued(q) = QueuedNow(q) /\ InFlight(q) = FlightNow(q)
    /\ CountIn(ListOf(q), LAMBDA p : p.request = q) = OpenNow(q)
    /\ {OwedNow(q), WaitNow(q), QueuedNow(q), FlightNow(q), OpenNow(q)} \subseteq Nat

(* A request has a buffer of the request queue.                            *)
LEMMA BufferOfType == ASSUME NEW q \in Traffic PROVE BufferOf(q) \in Buffers
<1>1. q.requestorID \in Requestors
  BY ControllerAssumption
<1> QED
  BY <1>1, ControllerAssumption DEF BufferOf, Buffers

(* What TypeOK says of the lists in which the beats of q are.              *)
LEMMA ListTypes ==
    ASSUME TypeOK, NEW q \in Traffic
    PROVE  /\ ListOf(q) \in Seq(PendingEntries)
           /\ DataOf(q) \in Seq(DataEntries)
           /\ requestBuffer[BufferOf(q)] \in Seq(Traffic)
           /\ commandQueue \in [Banks -> Seq(Commands)]
<1>1. /\ pendingRead \in Seq(PendingEntries) /\ pendingWrite \in Seq(PendingEntries)
      /\ readData \in Seq(DataEntries) /\ sendData \in Seq(DataEntries)
  BY DEF TypeOK, PendingEntries, DataEntries
<1>2. requestBuffer[BufferOf(q)] \in Seq(Traffic)
  BY BufferOfType DEF TypeOK
<1>3. commandQueue \in [Banks -> Seq(Commands)]
  BY DEF TypeOK, Commands
<1> QED
  BY <1>1, <1>2, <1>3 DEF ListOf, DataOf

(* The definitions of the model count the same.                            *)
LEMMA CountedOK == TypeOK => CountsOf
<1> SUFFICES ASSUME TypeOK, NEW q \in Traffic
             PROVE  /\ Owed(q) = OwedNow(q) /\ Waiting(q) = WaitNow(q)
                    /\ Queued(q) = QueuedNow(q) /\ InFlight(q) = FlightNow(q)
                    /\ CountIn(ListOf(q), LAMBDA p : p.request = q) = OpenNow(q)
                    /\ {OwedNow(q), WaitNow(q), QueuedNow(q), FlightNow(q),
                         OpenNow(q)} \subseteq Nat
  BY DEF CountsOf
<1>1. /\ ListOf(q) \in Seq(PendingEntries)
      /\ DataOf(q) \in Seq(DataEntries)
      /\ requestBuffer[BufferOf(q)] \in Seq(Traffic)
      /\ commandQueue \in [Banks -> Seq(Commands)]
  BY ListTypes
<1>2. OwedNow(q) \in Nat /\ OpenNow(q) \in Nat /\ FlightNow(q) \in Nat
      /\ WaitNow(q) \in Nat
  BY <1>1, ToksFinite DEF OwedNow, OpenNow, FlightNow, WaitNow
<1>3. QueuedNow(q) \in Nat
  BY <1>1, CasSetFinite DEF QueuedNow
<1>4. Queued(q) = QueuedNow(q)
  BY DEF Queued, QueuedNow, CasSet
<1>5. ASSUME NEW s \in Seq(PendingEntries)
      PROVE  /\ Cardinality({x \in (DOMAIN s) \X (1..Beats) :
                    s[x[1]].request = q /\ x[2] <= s[x[1]].requestSize})
                  = Weight(s, OwedBy(q))
             /\ Cardinality({i \in DOMAIN s : s[i].request = q})
                  = Weight(s, OpenBy(q))
  <2>0. DOMAIN s = 1..Len(s) /\ Len(s) \in Nat /\ Beats \in Nat
    BY ControllerAssumption
  <2>1. \A i \in 1..Len(s) : s[i] \in PendingEntries
    OBVIOUS
  <2>2. \A i \in 1..Len(s) :
           /\ OwedBy(q)[s[i]] = IF s[i].request = q THEN s[i].requestSize ELSE 0
           /\ OpenBy(q)[s[i]] = IF s[i].request = q THEN 1 ELSE 0
           /\ s[i].requestSize \in Nat
    BY <2>1 DEF OwedBy, OpenBy, PendingEntries
  <2>3. {x \in (DOMAIN s) \X (1..Beats) :
            s[x[1]].request = q /\ x[2] <= s[x[1]].requestSize} = Toks(s, OwedBy(q))
    <3>1. ASSUME NEW x \in (1..Len(s)) \X (1..Beats)
          PROVE  (s[x[1]].request = q /\ x[2] <= s[x[1]].requestSize)
                    <=> x[2] <= OwedBy(q)[s[x[1]]]
      <4>1. x[1] \in 1..Len(s) /\ x[2] \in 1..Beats
        BY <3>1
      <4>2. OwedBy(q)[s[x[1]]]
               = IF s[x[1]].request = q THEN s[x[1]].requestSize ELSE 0
        BY <2>2, <4>1
      <4>3. CASE s[x[1]].request = q
        BY <4>2, <4>3
      <4>4. CASE s[x[1]].request # q
        BY <2>0, <4>1, <4>2, <4>4
      <4> QED
        BY <4>3, <4>4
    <3> QED
      BY <2>0, <3>1 DEF Toks
  <2> DEFINE I == {i \in DOMAIN s : OpenBy(q)[s[i]] = 1}
  <2>4. I = {i \in DOMAIN s : s[i].request = q}
    BY <2>0, <2>2
  <2>5. I = {i \in DOMAIN s : OpenBy(q)[s[i]] = 1}
    OBVIOUS
  <2>6. 1 \in 1..Beats /\ OpenBy(q) \in [PendingEntries -> {0, 1}]
    BY CountsType
  <2> HIDE DEF I
  <2>7. Cardinality(I) \in Nat /\ Weight(s, OpenBy(q)) = 1 * Cardinality(I)
    BY <2>5, <2>6, WeightOfCount
  <2>8. Weight(s, OpenBy(q)) = Cardinality(I)
    BY <2>7
  <2>9. Weight(s, OwedBy(q)) = Cardinality(Toks(s, OwedBy(q)))
    BY DEF Weight
  <2> QED
    BY <2>3, <2>4, <2>8, <2>9
<1>6. ASSUME NEW s \in Seq(DataEntries)
      PROVE  Cardinality({i \in DOMAIN s : s[i].request = q}) = Weight(s, DataBy(q))
  <2> DEFINE I == {i \in DOMAIN s : DataBy(q)[s[i]] = 1}
  <2>1. I = {i \in DOMAIN s : s[i].request = q}
    BY DEF DataBy
  <2>2. I = {i \in DOMAIN s : DataBy(q)[s[i]] = 1}
    OBVIOUS
  <2>3. 1 \in 1..Beats /\ DataBy(q) \in [DataEntries -> {0, 1}]
    BY CountsType
  <2> HIDE DEF I
  <2>4. Cardinality(I) \in Nat /\ Weight(s, DataBy(q)) = 1 * Cardinality(I)
    BY <2>2, <2>3, WeightOfCount
  <2> QED
    BY <2>1, <2>4
<1>7. ASSUME NEW s \in Seq(Traffic)
      PROVE  Beats * Cardinality({i \in DOMAIN s : s[i] = q}) = Weight(s, WaitBy(q))
  <2> DEFINE I == {i \in DOMAIN s : WaitBy(q)[s[i]] = Beats}
  <2>0. Beats # 0
    BY ControllerAssumption
  <2>1. I = {i \in DOMAIN s : s[i] = q}
    BY <2>0 DEF WaitBy
  <2>2. I = {i \in DOMAIN s : WaitBy(q)[s[i]] = Beats}
    OBVIOUS
  <2>3. Beats \in 1..Beats /\ WaitBy(q) \in [Traffic -> {0, Beats}]
    BY CountsType
  <2> HIDE DEF I
  <2>4. Cardinality(I) \in Nat /\ Weight(s, WaitBy(q)) = Beats * Cardinality(I)
    BY <2>2, <2>3, WeightOfCount
  <2> QED
    BY <2>1, <2>4
<1>8. Owed(q) = OwedNow(q)
  BY <1>1, <1>5 DEF Owed, OwedNow, ListOf
<1>9. CountIn(ListOf(q), LAMBDA p : p.request = q) = OpenNow(q)
  BY <1>1, <1>5 DEF CountIn, OpenNow
<1>10. InFlight(q) = FlightNow(q)
  BY <1>1, <1>6 DEF InFlight, CountIn, FlightNow, DataOf
<1>11. Waiting(q) = WaitNow(q)
  BY <1>1, <1>7 DEF Waiting, CountIn, WaitNow
<1> QED
  BY <1>2, <1>3, <1>4, <1>8, <1>9, <1>10, <1>11

-----------------------------------------------------------------------------
(* What each step does to these numbers.                                   *)

(* A request's beats are looked for where they are: requests are in their  *)
(* own buffer, read commands and read data belong to reads, write commands *)
(* and write data to writes.                                               *)
BuffersRouted(buffers) ==
    \A i \in Buffers : \A k \in 1..Len(buffers[i]) : BufferOf(buffers[i][k]) = i
QueuesRouted(queues) ==
    \A b \in Banks : \A k \in 1..Len(queues[b]) : CommandRouted(queues[b][k])
ReadsRouted(data) == \A k \in 1..Len(data) : IsRead(data[k].request)
WritesRouted(data) == \A k \in 1..Len(data) : ~IsRead(data[k].request)
Routed == /\ BuffersRouted(requestBuffer) /\ QueuesRouted(commandQueue)
          /\ ReadsRouted(readData) /\ WritesRouted(sendData)

(* A step that changes none of the lists.                                  *)
Same(q) == /\ OwedNow(q)' = OwedNow(q) /\ OpenNow(q)' = OpenNow(q)
           /\ WaitNow(q)' = WaitNow(q) /\ QueuedNow(q)' = QueuedNow(q)
           /\ FlightNow(q)' = FlightNow(q)

(* A request that is sent owes all of its beats, which wait in its buffer. *)
LEMMA SendEffect ==
    ASSUME TypeOK, NEW x \in Traffic, SendRequest(x), NEW q \in Traffic
    PROVE  LET n == IF q = x THEN Beats ELSE 0
           IN  /\ OwedNow(q)' = OwedNow(q) + n
               /\ WaitNow(q)' = WaitNow(q) + n
               /\ OpenNow(q)' = OpenNow(q) + (IF q = x THEN 1 ELSE 0)
               /\ QueuedNow(q)' = QueuedNow(q)
               /\ FlightNow(q)' = FlightNow(q)
<1> DEFINE n == IF q = x THEN Beats ELSE 0
           one == IF q = x THEN 1 ELSE 0
           p == [request |-> x, requestSize |-> Beats]
           s == ListOf(q)
           r == requestBuffer[BufferOf(q)]
<1>1. /\ s \in Seq(PendingEntries) /\ r \in Seq(Traffic)
  BY ListTypes
<1>2. p \in PendingEntries
  BY ControllerAssumption DEF PendingEntries
<1>3. /\ OwedBy(q)[p] = n /\ OpenBy(q)[p] = one
      /\ WaitBy(q)[x] = n
  BY <1>2 DEF OwedBy, OpenBy, WaitBy
<1>4. /\ OwedBy(q) \in [PendingEntries -> 0..Beats]
      /\ OpenBy(q) \in [PendingEntries -> 0..Beats]
      /\ WaitBy(q) \in [Traffic -> 0..Beats]
  BY CountsType
<1>5. /\ Weight(s, OwedBy(q)) \in Nat /\ Weight(s, OpenBy(q)) \in Nat
      /\ Weight(r, WaitBy(q)) \in Nat
  BY <1>1, ToksFinite
<1>6. ListOf(q)' = Append(s, p) \/ (ListOf(q)' = s /\ q # x)
  BY DEF SendRequest, ListOf
<1>7. requestBuffer[BufferOf(q)]' = Append(r, x)
      \/ (requestBuffer[BufferOf(q)]' = r /\ q # x)
  <2>1. requestBuffer \in [Buffers -> Seq(Traffic)] /\ BufferOf(q) \in Buffers
    BY BufferOfType DEF TypeOK
  <2>2. requestBuffer' = [requestBuffer EXCEPT ![BufferOf(x)] = Append(@, x)]
    BY DEF SendRequest
  <2>3. CASE BufferOf(q) = BufferOf(x)
    BY <2>1, <2>2, <2>3
  <2>4. CASE BufferOf(q) # BufferOf(x)
    BY <2>1, <2>2, <2>4
  <2> QED
    BY <2>3, <2>4
<1>8. UNCHANGED <<commandQueue, readData, sendData>>
  BY DEF SendRequest, commandVars, dataVars
<1>9. n \in Nat /\ one \in Nat /\ (q # x => n = 0 /\ one = 0)
  BY ControllerAssumption
<1> HIDE DEF n, one, p, s, r
<1>10. /\ Weight(Append(s, p), OwedBy(q)) = Weight(s, OwedBy(q)) + n
       /\ Weight(Append(s, p), OpenBy(q)) = Weight(s, OpenBy(q)) + one
  BY <1>1, <1>2, <1>3, <1>4, WeightAppend
<1>11. Weight(Append(r, x), WaitBy(q)) = Weight(r, WaitBy(q)) + n
  BY <1>1, <1>3, <1>4, WeightAppend
<1>12. OwedNow(q)' = OwedNow(q) + n /\ OpenNow(q)' = OpenNow(q) + one
  <2>1. /\ OwedNow(q) = Weight(s, OwedBy(q)) /\ OpenNow(q) = Weight(s, OpenBy(q))
        /\ OwedNow(q)' = Weight(ListOf(q)', OwedBy(q))
        /\ OpenNow(q)' = Weight(ListOf(q)', OpenBy(q))
    BY DEF OwedNow, OpenNow, s
  <2>2. CASE ListOf(q)' = Append(s, p)
    BY <1>10, <2>1, <2>2
  <2>3. CASE ListOf(q)' = s /\ q # x
    <3>1. n = 0 /\ one = 0
      BY <1>9, <2>3
    <3>2. OwedNow(q)' = OwedNow(q) /\ OpenNow(q)' = OpenNow(q)
      BY <2>1, <2>3
    <3> QED
      BY <1>5, <2>1, <3>1, <3>2
  <2> QED
    BY <1>6, <2>2, <2>3
<1>13. WaitNow(q)' = WaitNow(q) + n
  <2>1. /\ WaitNow(q) = Weight(r, WaitBy(q))
        /\ WaitNow(q)' = Weight(requestBuffer[BufferOf(q)]', WaitBy(q))
    BY DEF WaitNow, r
  <2>2. CASE requestBuffer[BufferOf(q)]' = Append(r, x)
    BY <1>11, <2>1, <2>2
  <2>3. CASE requestBuffer[BufferOf(q)]' = r /\ q # x
    <3>1. n = 0
      BY <1>9, <2>3
    <3>2. WaitNow(q)' = WaitNow(q)
      BY <2>1, <2>3
    <3> QED
      BY <1>5, <2>1, <3>1, <3>2
  <2> QED
    BY <1>7, <2>2, <2>3
<1>14. QueuedNow(q)' = QueuedNow(q) /\ FlightNow(q)' = FlightNow(q)
  BY <1>8 DEF QueuedNow, FlightNow, DataOf
<1> QED
  BY <1>12, <1>13, <1>14 DEF n, one

(* A scheduled request's beats move from its buffer to the queues.         *)
LEMMA ScheduleEffect ==
    ASSUME TypeOK, Routed, SpreadFits,
           NEW i \in Buffers, NEW k \in DOMAIN requestBuffer[i],
           NEW more \in BOOLEAN, ScheduleRequest(i, k, more),
           commandQueue' \in [Banks -> Seq(Commands)], NEW q \in Traffic
    PROVE  LET n == IF q = requestBuffer[i][k] THEN Beats ELSE 0
           IN  /\ OwedNow(q)' = OwedNow(q) /\ OpenNow(q)' = OpenNow(q)
               /\ WaitNow(q) = WaitNow(q)' + n
               /\ QueuedNow(q)' = QueuedNow(q) + n
               /\ FlightNow(q)' = FlightNow(q)
<1> DEFINE x == requestBuffer[i][k]
           n == IF q = x THEN Beats ELSE 0
           s == requestBuffer[i]
           r == requestBuffer[BufferOf(q)]
<1>1. /\ requestBuffer \in [Buffers -> Seq(Traffic)]
      /\ s \in Seq(Traffic) /\ k \in 1..Len(s) /\ x \in Traffic
      /\ BufferOf(q) \in Buffers
  <2>1. requestBuffer \in [Buffers -> Seq(Traffic)] /\ BufferOf(q) \in Buffers
    BY BufferOfType DEF TypeOK
  <2> QED
    BY <2>1
<1>2. BufferOf(x) = i
  BY <1>1 DEF Routed, BuffersRouted
<1>3. /\ requestBuffer' = [requestBuffer EXCEPT ![i] = RemoveAt(@, k)]
      /\ commandQueue' = [b \in Banks |-> commandQueue[b] \o commandGenerate(x, b)]
      /\ UNCHANGED <<coreVars, pendingVars, dataVars>>
  BY DEF ScheduleRequest, TakeRequest
<1>4. n \in Nat /\ (q # x => n = 0) /\ (q = x => n = Beats)
  BY ControllerAssumption
<1>5. WaitNow(q) = WaitNow(q)' + n
  <2>0. /\ WaitNow(q) = Weight(r, WaitBy(q))
        /\ WaitNow(q)' = Weight(requestBuffer[BufferOf(q)]', WaitBy(q))
        /\ Weight(r, WaitBy(q)) \in Nat
    BY <1>1, ToksFinite DEF WaitNow
  <2>1. CASE BufferOf(q) = i
    <3>1. requestBuffer[BufferOf(q)]' = RemoveAt(s, k) /\ r = s
      BY <1>1, <1>3, <2>1
    <3>2. WaitBy(q) \in [Traffic -> 0..Beats]
      BY CountsType
    <3>3. WaitBy(q)[s[k]] = n
      BY <1>1 DEF WaitBy
    <3> HIDE DEF n, s, r
    <3>4. Weight(s, WaitBy(q)) = Weight(RemoveAt(s, k), WaitBy(q)) + WaitBy(q)[s[k]]
      BY <1>1, <3>2, WeightRemove
    <3> QED
      BY <2>0, <3>1, <3>3, <3>4
  <2>2. CASE BufferOf(q) # i
    <3>1. requestBuffer[BufferOf(q)]' = r
      BY <1>1, <1>3, <2>2
    <3>2. q # x
      BY <1>2, <2>2
    <3> HIDE DEF n, r, x
    <3> QED
      BY <1>4, <2>0, <3>1, <3>2
  <2> QED
    BY <2>1, <2>2
<1>6. QueuedNow(q)' = QueuedNow(q) + n
  <2>1. commandQueue \in [Banks -> Seq(Commands)]
    BY ListTypes
  <2> HIDE DEF x
  <2>2. Generated(x) \in [Banks -> Seq(Commands)]
    BY <1>1, GeneratedType
  <2>3. \A b \in Banks : commandQueue'[b] = commandQueue[b] \o Generated(x)[b]
    BY <1>3 DEF Generated
  <2>4. Cardinality(CasSet(q, commandQueue'))
           = Cardinality(CasSet(q, commandQueue)) + Cardinality(CasSet(q, Generated(x)))
    BY <2>1, <2>2, <2>3, CasSetConcat
  <2>5. Cardinality(CasSet(q, Generated(x))) = n
    <3>1. CASE q = x
      BY <1>1, <1>4, <3>1, OpenCas, CloseCas
    <3>2. CASE q # x
      BY <1>1, <1>4, <3>2, GeneratedForOthers
    <3> QED
      BY <3>1, <3>2
  <2> QED
    BY <2>4, <2>5 DEF QueuedNow
<1>7. /\ OwedNow(q)' = OwedNow(q) /\ OpenNow(q)' = OpenNow(q)
      /\ FlightNow(q)' = FlightNow(q)
  BY <1>3 DEF OwedNow, OpenNow, FlightNow, ListOf, DataOf, pendingVars, dataVars
<1> QED
  BY <1>5, <1>6, <1>7

(* A CAS that is issued becomes data on their way.                         *)
LEMMA IssueEffect ==
    ASSUME TypeOK, Routed, NEW b \in Banks, IssueCommand(b),
           commandQueue' \in [Banks -> Seq(Commands)], NEW q \in Traffic
    PROVE  LET one == IF 1 \in CasFor(q, commandQueue[b]) THEN 1 ELSE 0
           IN  /\ OwedNow(q)' = OwedNow(q) /\ OpenNow(q)' = OpenNow(q)
               /\ WaitNow(q)' = WaitNow(q)
               /\ QueuedNow(q) = QueuedNow(q)' + one
               /\ FlightNow(q)' = FlightNow(q) + one
<1> DEFINE s == commandQueue[b]
           c == Head(s)
           one == IF 1 \in CasFor(q, s) THEN 1 ELSE 0
           rd == [request |-> c.request, counter |-> nCL + nBL]
           wd == [request |-> c.request, counter |-> nCWL + nBL]
<1>1. commandQueue \in [Banks -> Seq(Commands)] /\ s \in Seq(Commands)
  BY ListTypes
<1>2. /\ s # <<>>
      /\ commandQueue' = [commandQueue EXCEPT ![b] = Tail(@)]
      /\ readData' = IF c.busPacketType \in Reads THEN Append(readData, rd)
                     ELSE readData
      /\ sendData' = IF c.busPacketType \in Writes THEN Append(sendData, wd)
                     ELSE sendData
      /\ UNCHANGED <<requestBuffer, pendingRead, pendingWrite>>
  BY DEF IssueCommand, sendCommand, requestVars, pendingVars
<1>3. s[1] = c /\ c \in Commands /\ 1 \in DOMAIN s /\ 1 \in 1..Len(s)
  BY <1>1, <1>2
<1>4. 1 \in CasFor(q, s) <=> c.request = q /\ c.busPacketType \in Cas
  BY <1>3 DEF CasFor
<1>5. /\ c.busPacketType \in Reads => IsRead(c.request)
      /\ c.busPacketType \in Writes => ~IsRead(c.request)
  BY <1>3 DEF Routed, QueuesRouted, CommandRouted
<1>6. /\ rd \in DataEntries /\ wd \in DataEntries
      /\ rd.request = c.request /\ wd.request = c.request
  BY <1>3, EntriesAreNat DEF Commands, DataEntries
<1>7. QueuedNow(q) = QueuedNow(q)' + one
  <2>1. FirstLeaves(commandQueue, commandQueue', b)
    BY <1>1, <1>2 DEF FirstLeaves
  <2>2. Cardinality(CasSet(q, commandQueue))
           = Cardinality(CasSet(q, commandQueue')) + one
    BY <1>1, <2>1, CasSetTail
  <2> QED
    BY <2>2 DEF QueuedNow
<1>8. \/ \E d \in DataEntries : /\ d.request = c.request
                              /\ DataOf(q)' = Append(DataOf(q), d)
                              /\ c.busPacketType \in Cas
      \/ DataOf(q)' = DataOf(q) /\ one = 0
  <2> HIDE DEF s, c, rd, wd
  <2>1. CASE IsRead(q)
    <3>1. DataOf(q)' = readData' /\ DataOf(q) = readData
      BY <2>1 DEF DataOf
    <3>2. CASE c.busPacketType \in Reads
      BY <1>2, <1>6, <3>1, <3>2 DEF Cas
    <3>3. CASE c.busPacketType \notin Reads
      <4>1. ~(c.request = q /\ c.busPacketType \in Cas)
        BY <1>5, <2>1, <3>3 DEF Cas
      <4> QED
        BY <1>2, <1>4, <3>1, <3>3, <4>1
    <3> QED
      BY <3>2, <3>3
  <2>2. CASE ~IsRead(q)
    <3>1. DataOf(q)' = sendData' /\ DataOf(q) = sendData
      BY <2>2 DEF DataOf
    <3>2. CASE c.busPacketType \in Writes
      BY <1>2, <1>6, <3>1, <3>2 DEF Cas
    <3>3. CASE c.busPacketType \notin Writes
      <4>1. ~(c.request = q /\ c.busPacketType \in Cas)
        BY <1>5, <2>2, <3>3 DEF Cas
      <4> QED
        BY <1>2, <1>4, <3>1, <3>3, <4>1
    <3> QED
      BY <3>2, <3>3
  <2> QED
    BY <2>1, <2>2
<1>9. FlightNow(q)' = FlightNow(q) + one
  <2>1. DataOf(q) \in Seq(DataEntries)
    BY ListTypes
  <2>2. /\ FlightNow(q)' = Weight(DataOf(q)', DataBy(q))
        /\ FlightNow(q) = Weight(DataOf(q), DataBy(q)) /\ FlightNow(q) \in Nat
    BY <2>1, ToksFinite DEF FlightNow
  <2>3. CASE DataOf(q)' = DataOf(q) /\ one = 0
    <3> HIDE DEF one
    <3> QED
      BY <2>2, <2>3
  <2>4. ASSUME NEW d \in DataEntries, d.request = c.request,
               DataOf(q)' = Append(DataOf(q), d), c.busPacketType \in Cas
        PROVE  FlightNow(q)' = FlightNow(q) + one
    <3>1. DataBy(q)[d] = one
      BY <1>4, <2>4 DEF DataBy
    <3>2. DataBy(q) \in [DataEntries -> 0..Beats]
      BY CountsType
    <3> HIDE DEF one
    <3>3. Weight(Append(DataOf(q), d), DataBy(q)) = Weight(DataOf(q), DataBy(q)) + one
      BY <2>1, <3>1, <3>2, WeightAppend
    <3> QED
      BY <2>2, <2>4, <3>3
  <2> HIDE DEF one, c
  <2> QED
    BY <1>8, <2>3, <2>4
<1>10. /\ OwedNow(q)' = OwedNow(q) /\ OpenNow(q)' = OpenNow(q)
       /\ WaitNow(q)' = WaitNow(q)
  BY <1>2 DEF OwedNow, OpenNow, WaitNow, ListOf
<1> QED
  BY <1>7, <1>9, <1>10

(* Counting down leaves the requests of the data.                          *)
LEMMA CountDownKeeps ==
    ASSUME NEW s \in Seq(DataEntries)
    PROVE  /\ Len(CountDown(s, Down)) = Len(s)
           /\ Len(CountDown(s, Decrement)) = Len(s)
           /\ \A i \in 1..Len(s) : CountDown(s, Down)[i].request = s[i].request
           /\ \A i \in 1..Len(s) : CountDown(s, Decrement)[i].request = s[i].request
<1> DEFINE t == CountDown(s, Decrement)
           u == CountDown(s, Down)
<1>1. t \in Seq(DataEntries) /\ u \in Seq(DataEntries)
  BY CountDownType
<1>2. /\ DOMAIN s = 1..Len(s) /\ DOMAIN t = 1..Len(s) /\ DOMAIN u = 1..Len(s)
      /\ \A i \in 1..Len(s) : t[i] = [s[i] EXCEPT !.counter = Decrement(@)]
      /\ \A i \in 1..Len(s) : u[i] = [s[i] EXCEPT !.counter = Down(@)]
  BY LenProperties DEF CountDown
<1>3. \A i \in 1..Len(s) : s[i] \in DataEntries
  OBVIOUS
<1>4. /\ \A i \in 1..Len(s) : t[i].request = s[i].request
      /\ \A i \in 1..Len(s) : u[i].request = s[i].request
  BY <1>2, <1>3 DEF DataEntries
<1> HIDE DEF t, u
<1>5. Len(t) = Len(s) /\ Len(u) = Len(s)
  BY <1>1, <1>2, LenProperties
<1> QED
  BY <1>4, <1>5 DEF t, u

(* So what is in flight is as much as before.                              *)
LEMMA CountDownWeight ==
    ASSUME NEW s \in Seq(DataEntries), NEW q
    PROVE  /\ Weight(CountDown(s, Decrement), DataBy(q)) = Weight(s, DataBy(q))
           /\ Weight(CountDown(s, Down), DataBy(q)) = Weight(s, DataBy(q))
<1> DEFINE t == CountDown(s, Decrement)
           u == CountDown(s, Down)
<1>1. t \in Seq(DataEntries) /\ u \in Seq(DataEntries)
  BY CountDownType
<1>2. /\ Len(t) = Len(s) /\ Len(u) = Len(s)
      /\ \A i \in 1..Len(s) : t[i].request = s[i].request
      /\ \A i \in 1..Len(s) : u[i].request = s[i].request
  BY CountDownKeeps
<1> HIDE DEF t, u
<1>3. \A i \in 1..Len(s) : /\ DataBy(q)[t[i]] = DataBy(q)[s[i]]
                            /\ DataBy(q)[u[i]] = DataBy(q)[s[i]]
  <2> TAKE i \in 1..Len(s)
  <2>1. s[i] \in DataEntries /\ t[i] \in DataEntries /\ u[i] \in DataEntries
    BY <1>1, <1>2
  <2> QED
    BY <1>2, <2>1 DEF DataBy
<1>4. Weight(t, DataBy(q)) = Weight(s, DataBy(q))
  BY <1>2, <1>3, WeightSame
<1>5. Weight(u, DataBy(q)) = Weight(s, DataBy(q))
  BY <1>2, <1>3, WeightSame
<1> QED
  BY <1>4, <1>5 DEF t, u

(* The first of the data is delivered: there is an entry it belongs to.    *)
LEMMA DeliverEffect ==
    ASSUME NEW s \in Seq(PendingEntries), NEW data \in Seq(DataEntries),
           data # <<>>, NEW x, x = Head(data).request,
           Weight(s, OwedBy(x)) >= Weight(data, DataBy(x)), NEW q
    PROVE  LET one == IF q = x THEN 1 ELSE 0
           IN  /\ Matching(s, x) # 0
               /\ Weight(data, DataBy(q))
                     = Weight(CountDown(Tail(data), Decrement), DataBy(q)) + one
               /\ Weight(data, DataBy(q))
                     = Weight(CountDown(Tail(data), Down), DataBy(q)) + one
<1>1. /\ 1 \in 1..Len(data) /\ data[1] = Head(data) /\ Head(data) \in DataEntries
      /\ Tail(data) \in Seq(DataEntries) /\ Tail(data) = RemoveAt(data, 1)
  BY TailIsRemove
<1>2. ASSUME NEW y
      PROVE  Weight(data, DataBy(y))
                = Weight(Tail(data), DataBy(y)) + (IF y = x THEN 1 ELSE 0)
  <2>1. DataBy(y) \in [DataEntries -> 0..Beats]
    BY CountsType
  <2>2. Weight(data, DataBy(y)) = Weight(RemoveAt(data, 1), DataBy(y)) + DataBy(y)[data[1]]
    BY <1>1, <2>1, WeightRemove
  <2>3. DataBy(y)[data[1]] = IF y = x THEN 1 ELSE 0
    BY <1>1 DEF DataBy
  <2> QED
    BY <1>1, <2>2, <2>3
<1>3. Matching(s, x) # 0
  <2> SUFFICES ASSUME Matching(s, x) = 0 PROVE FALSE
    OBVIOUS
  <2>1. \A k \in 1..Len(s) : s[k].request # x
    BY MatchingFirst
  <2>2. \A k \in 1..Len(s) : OwedBy(x)[s[k]] = 0
    <3> TAKE k \in 1..Len(s)
    <3>1. s[k] \in PendingEntries
      OBVIOUS
    <3> QED
      BY <2>1, <3>1 DEF OwedBy
  <2>3. Weight(s, OwedBy(x)) = 0
    BY <2>2, WeightZero
  <2>4. Weight(Tail(data), DataBy(x)) \in Nat
    BY <1>1, ToksFinite
  <2>5. Weight(data, DataBy(x)) = Weight(Tail(data), DataBy(x)) + 1
    BY <1>2
  <2> QED
    BY <2>3, <2>4, <2>5
<1>4. /\ Weight(CountDown(Tail(data), Decrement), DataBy(q)) = Weight(Tail(data), DataBy(q))
      /\ Weight(CountDown(Tail(data), Down), DataBy(q)) = Weight(Tail(data), DataBy(q))
  BY <1>1, CountDownWeight
<1> QED
  BY <1>2, <1>3, <1>4

-----------------------------------------------------------------------------
(* Beats stay where they are looked for.                                   *)

(* A request that leaves its buffer.                                       *)
LEMMA RemoveRouted ==
    ASSUME NEW buffers \in [Buffers -> Seq(Traffic)], BuffersRouted(buffers),
           NEW i \in Buffers, NEW k \in 1..Len(buffers[i])
    PROVE  BuffersRouted([buffers EXCEPT ![i] = RemoveAt(@, k)])
<1> DEFINE s == buffers[i]
           r == RemoveAt(s, k)
           new == [buffers EXCEPT ![i] = RemoveAt(@, k)]
<1>1. /\ s \in Seq(Traffic) /\ k \in 1..Len(s) /\ Len(s) \in Nat
  OBVIOUS
<1>2. new[i] = r /\ \A j \in Buffers : j # i => new[j] = buffers[j]
  OBVIOUS
<1>3. \A n \in 1..Len(s) : BufferOf(s[n]) = i
  BY DEF BuffersRouted
<1>a. BuffersRouted(new) => BuffersRouted([buffers EXCEPT ![i] = RemoveAt(@, k)])
  OBVIOUS
<1> HIDE DEF s, new
<1>4. /\ Len(r) = Len(s) - 1
      /\ \A n \in 1 .. Len(s) - 1 : r[n] = IF n < k THEN s[n] ELSE s[n + 1]
  BY <1>1, RemoveAtAt
<1> HIDE DEF r
<1>5. ASSUME NEW n \in 1..Len(r) PROVE BufferOf(r[n]) = i
  <2>1. n \in 1 .. Len(s) - 1
    BY <1>4
  <2>2. CASE n < k
    BY <1>1, <1>3, <1>4, <2>1, <2>2
  <2>3. CASE ~(n < k)
    BY <1>1, <1>3, <1>4, <2>1, <2>3
  <2> QED
    BY <2>2, <2>3
<1>6. BuffersRouted(new)
  <2> SUFFICES ASSUME NEW j \in Buffers, NEW n \in 1..Len(new[j])
               PROVE  BufferOf(new[j][n]) = j
    BY DEF BuffersRouted
  <2>1. CASE j = i
    BY <1>2, <1>5, <2>1
  <2>2. CASE j # i
    BY <1>2, <2>2 DEF BuffersRouted
  <2> QED
    BY <2>1, <2>2
<1> QED
  BY <1>a, <1>6

(* A request that is sent goes to its own buffer.                          *)
LEMMA AppendRouted ==
    ASSUME NEW buffers \in [Buffers -> Seq(Traffic)], BuffersRouted(buffers),
           NEW q \in Traffic
    PROVE  BuffersRouted([buffers EXCEPT ![BufferOf(q)] = Append(@, q)])
<1> DEFINE i == BufferOf(q)
           new == [buffers EXCEPT ![i] = Append(@, q)]
<1>1. i \in Buffers
  BY BufferOfType
<1>2. new[i] = Append(buffers[i], q) /\ \A j \in Buffers : j # i => new[j] = buffers[j]
  BY <1>1
<1>a. BuffersRouted(new) => BuffersRouted([buffers EXCEPT ![BufferOf(q)] = Append(@, q)])
  OBVIOUS
<1> HIDE DEF new
<1>3. BuffersRouted(new)
  <2> SUFFICES ASSUME NEW j \in Buffers, NEW n \in 1..Len(new[j])
               PROVE  BufferOf(new[j][n]) = j
    BY DEF BuffersRouted
  <2>1. CASE j = i
    <3> DEFINE s == buffers[i]
    <3>1. s \in Seq(Traffic) /\ \A k \in 1..Len(s) : BufferOf(s[k]) = i
      BY <1>1 DEF BuffersRouted
    <3>2. new[j] = Append(s, q)
      BY <1>2, <2>1
    <3> HIDE DEF s
    <3>3. (n \in 1..Len(s) /\ Append(s, q)[n] = s[n]) \/ Append(s, q)[n] = q
      BY <3>1, <3>2
    <3> QED
      BY <2>1, <3>1, <3>2, <3>3
  <2>2. CASE j # i
    BY <1>2, <2>2 DEF BuffersRouted
  <2> QED
    BY <2>1, <2>2
<1> QED
  BY <1>a, <1>3

(* The commands that are generated for a request go to it.                 *)
LEMMA ConcatRouted ==
    ASSUME NEW queues \in [Banks -> Seq(Commands)], QueuesRouted(queues),
           NEW q \in Traffic
    PROVE  QueuesRouted([b \in Banks |-> queues[b] \o commandGenerate(q, b)])
<1> DEFINE new == [b \in Banks |-> queues[b] \o commandGenerate(q, b)]
<1> SUFFICES ASSUME NEW b \in Banks, NEW k \in 1..Len(new[b])
             PROVE  CommandRouted(new[b][k])
  BY DEF QueuesRouted
<1> DEFINE s == queues[b]
           g == commandGenerate(q, b)
<1>1. s \in Seq(Commands) /\ g \in Seq(Commands) /\ new[b] = s \o g
  BY CommandsType
<1>2. /\ \A n \in 1..Len(s) : CommandRouted(s[n])
      /\ \A n \in DOMAIN g : CommandRouted(g[n])
  BY GeneratedOwn DEF QueuesRouted
<1> HIDE DEF s, g, new
<1>3. /\ Len(s \o g) = Len(s) + Len(g) /\ Len(s) \in Nat /\ Len(g) \in Nat
      /\ \A n \in 1 .. Len(s) + Len(g) :
            (s \o g)[n] = IF n <= Len(s) THEN s[n] ELSE g[n - Len(s)]
      /\ DOMAIN g = 1..Len(g)
  BY <1>1, ConcatProperties, LenProperties
<1>4. k \in 1 .. Len(s) + Len(g)
  BY <1>1, <1>3
<1>5. CASE k <= Len(s)
  BY <1>1, <1>2, <1>3, <1>4, <1>5
<1>6. CASE ~(k <= Len(s))
  <2>1. k - Len(s) \in DOMAIN g
    BY <1>3, <1>4, <1>6
  <2> QED
    BY <1>1, <1>2, <1>3, <1>4, <1>6, <2>1
<1> QED
  BY <1>5, <1>6

(* Data that count down, or of which the first is delivered.               *)
LEMMA DataRouted ==
    ASSUME NEW s \in Seq(DataEntries)
    PROVE  /\ ReadsRouted(s) => ReadsRouted(CountDown(s, Down))
           /\ WritesRouted(s) => WritesRouted(CountDown(s, Decrement))
           /\ s # <<>> => /\ ReadsRouted(s) => ReadsRouted(Tail(s))
                          /\ WritesRouted(s) => WritesRouted(Tail(s))
<1>1. /\ Len(CountDown(s, Down)) = Len(s)
      /\ Len(CountDown(s, Decrement)) = Len(s)
      /\ \A i \in 1..Len(s) : CountDown(s, Down)[i].request = s[i].request
      /\ \A i \in 1..Len(s) : CountDown(s, Decrement)[i].request = s[i].request
  BY CountDownKeeps
<1>2. s # <<>> => /\ Len(s) \in Nat /\ Len(Tail(s)) = Len(s) - 1
                  /\ \A i \in 1 .. Len(s) - 1 : Tail(s)[i] = s[i + 1]
  BY HeadTailProperties
<1>3. s # <<>> => \A i \in 1..Len(Tail(s)) : i + 1 \in 1..Len(s) /\ Tail(s)[i] = s[i + 1]
  BY <1>2
<1> QED
  BY <1>1, <1>3 DEF ReadsRouted, WritesRouted

(* A step that leaves the buffers, the queues and the data alone.          *)
LEMMA RoutedFrame ==
    ASSUME Routed, UNCHANGED <<requestBuffer, commandQueue, readData, sendData>>
    PROVE  Routed'
  BY DEF Routed, BuffersRouted, QueuesRouted, ReadsRouted, WritesRouted

(* Every step keeps the beats where they are looked for.                   *)
LEMMA RoutedStep == TypeOK /\ Routed /\ [Next]_vars => Routed'
<1> SUFFICES ASSUME TypeOK, Routed, [Next]_vars PROVE Routed'
  OBVIOUS
<1>0. /\ requestBuffer \in [Buffers -> Seq(Traffic)]
      /\ commandQueue \in [Banks -> Seq(Commands)]
      /\ sendData \in Seq(DataEntries) /\ readData \in Seq(DataEntries)
  BY DEF TypeOK, Commands, DataEntries
<1>a. /\ BuffersRouted(requestBuffer) /\ QueuesRouted(commandQueue)
      /\ ReadsRouted(readData) /\ WritesRouted(sendData)
  BY DEF Routed
<1>b. ASSUME BuffersRouted(requestBuffer'), QueuesRouted(commandQueue'),
             ReadsRouted(readData'), WritesRouted(sendData')
      PROVE  Routed'
  BY <1>b DEF Routed, BuffersRouted, QueuesRouted, ReadsRouted, WritesRouted
<1>1. ASSUME NEW q \in Traffic, SendRequest(q) PROVE Routed'
  <2>1. /\ requestBuffer' = [requestBuffer EXCEPT ![BufferOf(q)] = Append(@, q)]
        /\ UNCHANGED <<commandQueue, readData, sendData>>
    BY <1>1 DEF SendRequest, commandVars, dataVars
  <2>2. BuffersRouted(requestBuffer')
    BY <1>0, <1>a, <2>1, AppendRouted
  <2>3. QueuesRouted(commandQueue') /\ ReadsRouted(readData') /\ WritesRouted(sendData')
    BY <1>a, <2>1
  <2> QED
    BY <1>b, <2>2, <2>3
<1>2. CASE Idle
  BY <1>2, RoutedFrame DEF Idle, requestVars, commandVars, dataVars
<1>3. ASSUME NEW i \in Buffers, NEW k \in DOMAIN requestBuffer[i],
             NEW more \in BOOLEAN, ScheduleRequest(i, k, more)
      PROVE  Routed'
  <2> DEFINE q == requestBuffer[i][k]
  <2>1. /\ requestBuffer' = [requestBuffer EXCEPT ![i] = RemoveAt(@, k)]
        /\ commandQueue' = [b \in Banks |-> commandQueue[b] \o commandGenerate(q, b)]
        /\ UNCHANGED <<readData, sendData>>
    BY <1>3 DEF ScheduleRequest, TakeRequest, dataVars
  <2>2. k \in 1..Len(requestBuffer[i]) /\ q \in Traffic
    BY <1>0
  <2>3. BuffersRouted(requestBuffer')
    BY <1>0, <1>a, <2>1, <2>2, RemoveRouted
  <2> HIDE DEF q
  <2>4. QueuesRouted(commandQueue')
    BY <1>0, <1>a, <2>1, <2>2, ConcatRouted
  <2>5. ReadsRouted(readData') /\ WritesRouted(sendData')
    BY <1>a, <2>1
  <2> QED
    BY <1>b, <2>3, <2>4, <2>5
<1>4. CASE EndSchedule
  BY <1>4, RoutedFrame DEF EndSchedule, requestVars, commandVars, dataVars
<1>5. ASSUME NEW b \in Banks, IssueCommand(b) PROVE Routed'
  <2> DEFINE s == commandQueue[b]
             c == Head(s)
  <2>1. /\ s # <<>>
        /\ commandQueue' = [commandQueue EXCEPT ![b] = Tail(@)]
        /\ requestBuffer' = requestBuffer
        /\ readData' = IF c.busPacketType \in Reads
             THEN Append(readData, [request |-> c.request, counter |-> nCL + nBL])
             ELSE readData
        /\ sendData' = IF c.busPacketType \in Writes
             THEN Append(sendData, [request |-> c.request, counter |-> nCWL + nBL])
             ELSE sendData
    BY <1>5 DEF IssueCommand, sendCommand, requestVars
  <2>2. /\ s \in Seq(Commands) /\ \A n \in 1..Len(s) : CommandRouted(s[n])
        /\ commandQueue'[b] = Tail(s)
        /\ \A a \in Banks : a # b => commandQueue'[a] = commandQueue[a]
    BY <1>0, <1>a, <2>1 DEF QueuesRouted
  <2> HIDE DEF s
  <2>3. /\ \A n \in 1..Len(Tail(s)) : n + 1 \in 1..Len(s) /\ Tail(s)[n] = s[n + 1]
        /\ 1 \in 1..Len(s) /\ s[1] = c
    BY <2>1, <2>2, HeadTailProperties
  <2>4. QueuesRouted(commandQueue')
    <3> SUFFICES ASSUME NEW a \in Banks, NEW n \in 1..Len(commandQueue'[a])
                 PROVE  CommandRouted(commandQueue'[a][n])
      BY DEF QueuesRouted
    <3>1. CASE a = b
      BY <2>2, <2>3, <3>1
    <3>2. CASE a # b
      BY <1>a, <2>2, <3>2 DEF QueuesRouted
    <3> QED
      BY <3>1, <3>2
  <2>5. CommandRouted(c)
    BY <2>2, <2>3
  <2>6. ReadsRouted(readData')
    <3>1. CASE c.busPacketType \notin Reads
      BY <1>a, <2>1, <3>1
    <3>2. CASE c.busPacketType \in Reads
      <4> DEFINE d == [request |-> c.request, counter |-> nCL + nBL]
      <4>1. readData' = Append(readData, d) /\ IsRead(d.request)
        BY <2>1, <2>5, <3>2 DEF CommandRouted
      <4> HIDE DEF d, c
      <4> QED
        BY <1>0, <1>a, <4>1 DEF ReadsRouted
    <3> QED
      BY <3>1, <3>2
  <2>7. WritesRouted(sendData')
    <3>1. CASE c.busPacketType \notin Writes
      BY <1>a, <2>1, <3>1
    <3>2. CASE c.busPacketType \in Writes
      <4> DEFINE d == [request |-> c.request, counter |-> nCWL + nBL]
      <4>1. sendData' = Append(sendData, d) /\ ~IsRead(d.request)
        BY <2>1, <2>5, <3>2 DEF CommandRouted
      <4> HIDE DEF d, c
      <4> QED
        BY <1>0, <1>a, <4>1 DEF WritesRouted
    <3> QED
      BY <3>1, <3>2
  <2>8. BuffersRouted(requestBuffer')
    BY <1>a, <2>1
  <2> QED
    BY <1>b, <2>4, <2>6, <2>7, <2>8
<1>6. CASE NoCommand
  BY <1>6, RoutedFrame DEF NoCommand, requestVars, commandVars, dataVars
<1>c. ASSUME UNCHANGED <<requestBuffer, commandQueue>>,
             ReadsRouted(readData'), WritesRouted(sendData')
      PROVE  Routed'
  BY <1>a, <1>b, <1>c
<1>7. CASE DeliverWrite
  <2>1. /\ sendData # <<>> /\ sendData' = CountDown(Tail(sendData), Decrement)
        /\ UNCHANGED <<requestBuffer, commandQueue, readData>>
    BY <1>7 DEF DeliverWrite, WriteDue, requestVars
  <2>2. Tail(sendData) \in Seq(DataEntries)
    BY <1>0, <2>1
  <2>3. WritesRouted(Tail(sendData))
    BY <1>0, <1>a, <2>1, DataRouted
  <2>4. WritesRouted(sendData')
    BY <2>1, <2>2, <2>3, DataRouted
  <2>5. ReadsRouted(readData')
    BY <1>a, <2>1
  <2> QED
    BY <1>c, <2>1, <2>4, <2>5
<1>8. CASE NoWrite
  <2>1. /\ sendData' = CountDown(sendData, Decrement)
        /\ UNCHANGED <<requestBuffer, commandQueue, readData>>
    BY <1>8 DEF NoWrite, requestVars
  <2>2. WritesRouted(sendData') /\ ReadsRouted(readData')
    BY <1>0, <1>a, <2>1, DataRouted
  <2> QED
    BY <1>c, <2>1, <2>2
<1>9. CASE DeliverRead
  <2>1. /\ readData # <<>> /\ readData' = CountDown(Tail(readData), Down)
        /\ UNCHANGED <<requestBuffer, commandQueue, sendData>>
    BY <1>9 DEF DeliverRead, ReadDue, requestVars, commandVars
  <2>2. Tail(readData) \in Seq(DataEntries)
    BY <1>0, <2>1
  <2>3. ReadsRouted(Tail(readData))
    BY <1>0, <1>a, <2>1, DataRouted
  <2>4. ReadsRouted(readData')
    BY <2>1, <2>2, <2>3, DataRouted
  <2>5. WritesRouted(sendData')
    BY <1>a, <2>1
  <2> QED
    BY <1>c, <2>1, <2>4, <2>5
<1>10. CASE NoRead
  <2>1. /\ readData' = CountDown(readData, Down)
        /\ UNCHANGED <<requestBuffer, commandQueue, sendData>>
    BY <1>10 DEF NoRead, requestVars, commandVars
  <2>2. WritesRouted(sendData') /\ ReadsRouted(readData')
    BY <1>0, <1>a, <2>1, DataRouted
  <2> QED
    BY <1>c, <2>1, <2>2
<1>11. CASE UNCHANGED vars
  BY <1>11, RoutedFrame DEF vars, requestVars, commandVars, dataVars
<1> QED
  BY <1>1, <1>2, <1>3, <1>4, <1>5, <1>6, <1>7, <1>8, <1>9, <1>10, <1>11
     DEF Next

-----------------------------------------------------------------------------
(* The inductive invariant behind BeatsConserved and ServiceSpec.          *)
Balanced(q) == OwedNow(q) = WaitNow(q) + QueuedNow(q) + FlightNow(q)
PendingInOrder == PartialFirst(pendingRead) /\ PartialFirst(pendingWrite)
ServiceInv == /\ \A q \in Traffic : Balanced(q)
              /\ Routed
              /\ PendingInOrder

(* What the delivery of a datum of x does: it settles a beat of a pending  *)
(* entry of x, which there is.                                             *)
Delivers(x) ==
    /\ Matching(ListOf(x), x) # 0
    /\ \A q \in Traffic :
          /\ OwedNow(q) = OwedNow(q)' + (IF q = x THEN 1 ELSE 0)
          /\ FlightNow(q) = FlightNow(q)' + (IF q = x THEN 1 ELSE 0)
          /\ OpenNow(q) = OpenNow(q)'
                + (IF q = x /\ Completes(ListOf(x), x) THEN 1 ELSE 0)
          /\ WaitNow(q)' = WaitNow(q) /\ QueuedNow(q)' = QueuedNow(q)

(* Data in flight are owed.                                                *)
LEMMA FlightBelowOwed ==
    ASSUME TypeOK, \A q \in Traffic : Balanced(q), NEW x \in Traffic
    PROVE  OwedNow(x) >= FlightNow(x)
<1>1. {OwedNow(x), WaitNow(x), QueuedNow(x), FlightNow(x)} \subseteq Nat
  BY CountedOK DEF CountsOf
<1>2. OwedNow(x) = WaitNow(x) + QueuedNow(x) + FlightNow(x)
  BY DEF Balanced
<1> QED
  BY <1>1, <1>2

(* MemoryController::update delivers the data of a write.                  *)
LEMMA DeliverWriteEffect ==
    ASSUME TypeOK, ServiceInv, DeliverWrite
    PROVE  \E x \in Traffic : Delivers(x)
<1> DEFINE x == Head(sendData).request
<1>0. /\ sendData \in Seq(DataEntries) /\ pendingWrite \in Seq(PendingEntries)
  BY DEF TypeOK, DataEntries, PendingEntries
<1>1. /\ sendData # <<>>
      /\ pendingWrite' = Settle(pendingWrite, x)
      /\ sendData' = CountDown(Tail(sendData), Decrement)
      /\ UNCHANGED <<requestBuffer, pendingRead, commandQueue, readData>>
  BY DEF DeliverWrite, WriteDue, requestVars
<1>2. x \in Traffic /\ ~IsRead(x)
  <2>1. Head(sendData) \in DataEntries /\ Head(sendData) = sendData[1]
        /\ 1 \in 1..Len(sendData)
    BY <1>0, <1>1
  <2> QED
    BY <2>1 DEF DataEntries, ServiceInv, Routed, WritesRouted
<1>a. x = Head(sendData).request
  OBVIOUS
<1> HIDE DEF x
<1>3. Weight(pendingWrite, OwedBy(x)) >= Weight(sendData, DataBy(x))
  <2>1. OwedNow(x) >= FlightNow(x)
    BY <1>2, FlightBelowOwed DEF ServiceInv
  <2> QED
    BY <1>2, <2>1 DEF OwedNow, FlightNow, ListOf, DataOf
<1>4. Matching(pendingWrite, x) # 0
  BY <1>0, <1>1, <1>3, <1>a, DeliverEffect
<1>5. ListOf(x) = pendingWrite
  BY <1>2 DEF ListOf
<1>6. ASSUME NEW q \in Traffic
      PROVE  /\ OwedNow(q) = OwedNow(q)' + (IF q = x THEN 1 ELSE 0)
             /\ FlightNow(q) = FlightNow(q)' + (IF q = x THEN 1 ELSE 0)
             /\ OpenNow(q) = OpenNow(q)'
                   + (IF q = x /\ Completes(ListOf(x), x) THEN 1 ELSE 0)
             /\ WaitNow(q)' = WaitNow(q) /\ QueuedNow(q)' = QueuedNow(q)
  <2>1. WaitNow(q)' = WaitNow(q) /\ QueuedNow(q)' = QueuedNow(q)
    BY <1>1 DEF WaitNow, QueuedNow
  <2>2. CASE IsRead(q)
    <3>1. /\ OwedNow(q)' = OwedNow(q) /\ OpenNow(q)' = OpenNow(q)
          /\ FlightNow(q)' = FlightNow(q)
      BY <1>1, <2>2 DEF OwedNow, OpenNow, FlightNow, ListOf, DataOf
    <3>2. q # x
      BY <1>2, <2>2
    <3>3. OwedNow(q) \in Nat /\ OpenNow(q) \in Nat /\ FlightNow(q) \in Nat
      BY CountedOK DEF CountsOf
    <3> QED
      BY <2>1, <3>1, <3>2, <3>3
  <2>3. CASE ~IsRead(q)
    <3>1. /\ Weight(pendingWrite, OwedBy(q))
               = Weight(Settle(pendingWrite, x), OwedBy(q)) + (IF q = x THEN 1 ELSE 0)
          /\ Weight(pendingWrite, OpenBy(q))
               = Weight(Settle(pendingWrite, x), OpenBy(q))
                  + (IF q = x /\ Completes(pendingWrite, x) THEN 1 ELSE 0)
      BY <1>0, <1>4, SettleEffect
    <3>2. Weight(sendData, DataBy(q))
             = Weight(CountDown(Tail(sendData), Decrement), DataBy(q))
               + (IF q = x THEN 1 ELSE 0)
      BY <1>0, <1>1, <1>3, <1>a, DeliverEffect
    <3>3. /\ OwedNow(q) = Weight(pendingWrite, OwedBy(q))
          /\ OwedNow(q)' = Weight(pendingWrite', OwedBy(q))
          /\ OpenNow(q) = Weight(pendingWrite, OpenBy(q))
          /\ OpenNow(q)' = Weight(pendingWrite', OpenBy(q))
          /\ FlightNow(q) = Weight(sendData, DataBy(q))
          /\ FlightNow(q)' = Weight(sendData', DataBy(q))
      BY <2>3 DEF OwedNow, OpenNow, FlightNow, ListOf, DataOf
    <3> QED
      BY <1>1, <1>5, <2>1, <3>1, <3>2, <3>3
  <2> QED
    BY <2>2, <2>3
<1> QED
  BY <1>2, <1>4, <1>5, <1>6 DEF Delivers

(* MemoryDevice::update delivers the data of a read.                       *)
LEMMA DeliverReadEffect ==
    ASSUME TypeOK, ServiceInv, DeliverRead
    PROVE  \E x \in Traffic : Delivers(x)
<1> DEFINE x == Head(readData).request
<1>0. /\ readData \in Seq(DataEntries) /\ pendingRead \in Seq(PendingEntries)
  BY DEF TypeOK, DataEntries, PendingEntries
<1>1. /\ readData # <<>>
      /\ pendingRead' = Settle(pendingRead, x)
      /\ readData' = CountDown(Tail(readData), Down)
      /\ UNCHANGED <<requestBuffer, pendingWrite, commandQueue, sendData>>
  BY DEF DeliverRead, ReadDue, requestVars, commandVars
<1>2. x \in Traffic /\ IsRead(x)
  <2>1. Head(readData) \in DataEntries /\ Head(readData) = readData[1]
        /\ 1 \in 1..Len(readData)
    BY <1>0, <1>1
  <2> QED
    BY <2>1 DEF DataEntries, ServiceInv, Routed, ReadsRouted
<1>a. x = Head(readData).request
  OBVIOUS
<1> HIDE DEF x
<1>3. Weight(pendingRead, OwedBy(x)) >= Weight(readData, DataBy(x))
  <2>1. OwedNow(x) >= FlightNow(x)
    BY <1>2, FlightBelowOwed DEF ServiceInv
  <2> QED
    BY <1>2, <2>1 DEF OwedNow, FlightNow, ListOf, DataOf
<1>4. Matching(pendingRead, x) # 0
  BY <1>0, <1>1, <1>3, <1>a, DeliverEffect
<1>5. ListOf(x) = pendingRead
  BY <1>2 DEF ListOf
<1>6. ASSUME NEW q \in Traffic
      PROVE  /\ OwedNow(q) = OwedNow(q)' + (IF q = x THEN 1 ELSE 0)
             /\ FlightNow(q) = FlightNow(q)' + (IF q = x THEN 1 ELSE 0)
             /\ OpenNow(q) = OpenNow(q)'
                   + (IF q = x /\ Completes(ListOf(x), x) THEN 1 ELSE 0)
             /\ WaitNow(q)' = WaitNow(q) /\ QueuedNow(q)' = QueuedNow(q)
  <2>1. WaitNow(q)' = WaitNow(q) /\ QueuedNow(q)' = QueuedNow(q)
    BY <1>1 DEF WaitNow, QueuedNow
  <2>2. CASE ~IsRead(q)
    <3>1. /\ OwedNow(q)' = OwedNow(q) /\ OpenNow(q)' = OpenNow(q)
          /\ FlightNow(q)' = FlightNow(q)
      BY <1>1, <2>2 DEF OwedNow, OpenNow, FlightNow, ListOf, DataOf
    <3>2. q # x
      BY <1>2, <2>2
    <3>3. OwedNow(q) \in Nat /\ OpenNow(q) \in Nat /\ FlightNow(q) \in Nat
      BY CountedOK DEF CountsOf
    <3> QED
      BY <2>1, <3>1, <3>2, <3>3
  <2>3. CASE IsRead(q)
    <3>1. /\ Weight(pendingRead, OwedBy(q))
               = Weight(Settle(pendingRead, x), OwedBy(q)) + (IF q = x THEN 1 ELSE 0)
          /\ Weight(pendingRead, OpenBy(q))
               = Weight(Settle(pendingRead, x), OpenBy(q))
                  + (IF q = x /\ Completes(pendingRead, x) THEN 1 ELSE 0)
      BY <1>0, <1>4, SettleEffect
    <3>2. Weight(readData, DataBy(q))
             = Weight(CountDown(Tail(readData), Down), DataBy(q))
               + (IF q = x THEN 1 ELSE 0)
      BY <1>0, <1>1, <1>3, <1>a, DeliverEffect
    <3>3. /\ OwedNow(q) = Weight(pendingRead, OwedBy(q))
          /\ OwedNow(q)' = Weight(pendingRead', OwedBy(q))
          /\ OpenNow(q) = Weight(pendingRead, OpenBy(q))
          /\ OpenNow(q)' = Weight(pendingRead', OpenBy(q))
          /\ FlightNow(q) = Weight(readData, DataBy(q))
          /\ FlightNow(q)' = Weight(readData', DataBy(q))
      BY <2>3 DEF OwedNow, OpenNow, FlightNow, ListOf, DataOf
    <3> QED
      BY <1>1, <1>5, <2>1, <3>1, <3>2, <3>3
  <2> QED
    BY <2>2, <2>3
<1> QED
  BY <1>2, <1>4, <1>5, <1>6 DEF Delivers

(* The steps that move no beat.                                            *)
Quiet == Idle \/ EndSchedule \/ NoCommand \/ NoWrite \/ NoRead \/ UNCHANGED vars

(* They change none of the numbers.                                        *)
LEMMA QuietEffect ==
    ASSUME TypeOK, Quiet, NEW q \in Traffic
    PROVE  Same(q)
<1>0. sendData \in Seq(DataEntries) /\ readData \in Seq(DataEntries)
  BY DEF TypeOK, DataEntries
<1>1. UNCHANGED <<requestBuffer, commandQueue, pendingRead, pendingWrite>>
  BY DEF Quiet, Idle, EndSchedule, NoCommand, NoWrite, NoRead, vars, requestVars,
         commandVars, pendingVars
<1>2. /\ sendData' = sendData \/ sendData' = CountDown(sendData, Decrement)
      /\ readData' = readData \/ readData' = CountDown(readData, Down)
  BY DEF Quiet, Idle, EndSchedule, NoCommand, NoWrite, NoRead, vars, dataVars
<1>3. /\ Weight(sendData', DataBy(q)) = Weight(sendData, DataBy(q))
      /\ Weight(readData', DataBy(q)) = Weight(readData, DataBy(q))
  BY <1>0, <1>2, CountDownWeight
<1>4. FlightNow(q)' = FlightNow(q)
  <2>1. CASE IsRead(q)
    BY <1>3, <2>1 DEF FlightNow, DataOf
  <2>2. CASE ~IsRead(q)
    BY <1>3, <2>2 DEF FlightNow, DataOf
  <2> QED
    BY <2>1, <2>2
<1>5. /\ OwedNow(q)' = OwedNow(q) /\ OpenNow(q)' = OpenNow(q)
      /\ WaitNow(q)' = WaitNow(q) /\ QueuedNow(q)' = QueuedNow(q)
  BY <1>1 DEF OwedNow, OpenNow, WaitNow, QueuedNow, ListOf
<1> QED
  BY <1>4, <1>5 DEF Same

(* The steps, by what they do.                                             *)
LEMMA StepCases ==
    ASSUME [Next]_vars
    PROVE  \/ \E x \in Traffic : SendRequest(x)
           \/ \E i \in Buffers : \E k \in DOMAIN requestBuffer[i] :
                \E more \in BOOLEAN : ScheduleRequest(i, k, more)
           \/ \E b \in Banks : IssueCommand(b)
           \/ DeliverWrite
           \/ DeliverRead
           \/ Quiet
  BY DEF Next, Quiet

(* Every step keeps all but the first entry of a request whole.            *)
LEMMA OrderStep == TypeOK /\ PendingInOrder /\ [Next]_vars => PendingInOrder'
<1> SUFFICES ASSUME TypeOK, PendingInOrder, [Next]_vars PROVE PendingInOrder'
  OBVIOUS
<1>0. pendingRead \in Seq(PendingEntries) /\ pendingWrite \in Seq(PendingEntries)
  BY DEF TypeOK, PendingEntries
<1>a. PartialFirst(pendingRead) /\ PartialFirst(pendingWrite)
  BY DEF PendingInOrder
<1>b. ASSUME PartialFirst(pendingRead'), PartialFirst(pendingWrite')
      PROVE  PendingInOrder'
  BY <1>b DEF PendingInOrder, PartialFirst
<1>c. ASSUME UNCHANGED <<pendingRead, pendingWrite>> PROVE PendingInOrder'
  BY <1>a, <1>b, <1>c
<1>1. ASSUME NEW q \in Traffic, SendRequest(q) PROVE PendingInOrder'
  <2> DEFINE p == [request |-> q, requestSize |-> Beats]
  <2>1. p \in PendingEntries /\ p.requestSize = Beats
    BY ControllerAssumption DEF PendingEntries
  <2>2. /\ pendingRead' \in {pendingRead, Append(pendingRead, p)}
        /\ pendingWrite' \in {pendingWrite, Append(pendingWrite, p)}
    BY <1>1 DEF SendRequest
  <2> HIDE DEF p
  <2>3. PartialFirst(Append(pendingRead, p)) /\ PartialFirst(Append(pendingWrite, p))
    BY <1>0, <1>a, <2>1, PartialFirstAppend
  <2> QED
    BY <1>a, <1>b, <2>2, <2>3
<1>2. ASSUME NEW i \in Buffers, NEW k \in DOMAIN requestBuffer[i],
             NEW more \in BOOLEAN, ScheduleRequest(i, k, more)
      PROVE  PendingInOrder'
  BY <1>2, <1>c DEF ScheduleRequest, TakeRequest, pendingVars
<1>3. ASSUME NEW b \in Banks, IssueCommand(b) PROVE PendingInOrder'
  BY <1>3, <1>c DEF IssueCommand, sendCommand, pendingVars
<1>4. CASE DeliverWrite
  <2>1. /\ pendingWrite' = Settle(pendingWrite, Head(sendData).request)
        /\ pendingRead' = pendingRead
    BY <1>4 DEF DeliverWrite
  <2>2. PartialFirst(pendingWrite') /\ PartialFirst(pendingRead')
    BY <1>0, <1>a, <2>1, PartialFirstSettle
  <2> QED
    BY <1>b, <2>2
<1>5. CASE DeliverRead
  <2>1. /\ pendingRead' = Settle(pendingRead, Head(readData).request)
        /\ pendingWrite' = pendingWrite
    BY <1>5 DEF DeliverRead
  <2>2. PartialFirst(pendingWrite') /\ PartialFirst(pendingRead')
    BY <1>0, <1>a, <2>1, PartialFirstSettle
  <2> QED
    BY <1>b, <2>2
<1>6. CASE Quiet
  BY <1>6, <1>c DEF Quiet, Idle, EndSchedule, NoCommand, NoWrite, NoRead, vars,
                    pendingVars
<1> QED
  BY <1>1, <1>2, <1>3, <1>4, <1>5, <1>6, StepCases

(* Every step keeps the balance of every request.                          *)
LEMMA BalanceStep ==
    ASSUME SpreadFits, TypeOK, TypeOK', ServiceInv, [Next]_vars,
           NEW q \in Traffic
    PROVE  Balanced(q)'
<1> DEFINE o == OwedNow(q)
           w == WaitNow(q)
           u == QueuedNow(q)
           f == FlightNow(q)
<1>0. o \in Nat /\ w \in Nat /\ u \in Nat /\ f \in Nat
  BY CountedOK DEF CountsOf
<1>a. o = w + u + f
  BY DEF ServiceInv, Balanced
<1>b. /\ WaitNow(q)' \in Nat /\ QueuedNow(q)' \in Nat /\ FlightNow(q)' \in Nat
      /\ OwedNow(q)' \in Nat
  <2>1. /\ ListOf(q)' \in Seq(PendingEntries)
        /\ DataOf(q)' \in Seq(DataEntries)
        /\ requestBuffer[BufferOf(q)]' \in Seq(Traffic)
        /\ commandQueue' \in [Banks -> Seq(Commands)]
    <3>1. /\ pendingRead' \in Seq(PendingEntries)
          /\ pendingWrite' \in Seq(PendingEntries)
          /\ readData' \in Seq(DataEntries) /\ sendData' \in Seq(DataEntries)
      BY DEF TypeOK, PendingEntries, DataEntries
    <3>2. requestBuffer[BufferOf(q)]' \in Seq(Traffic)
      BY BufferOfType DEF TypeOK
    <3>3. commandQueue' \in [Banks -> Seq(Commands)]
      BY DEF TypeOK, Commands
    <3> QED
      BY <3>1, <3>2, <3>3 DEF ListOf, DataOf
  <2>2. /\ OwedNow(q)' = Weight(ListOf(q)', OwedBy(q))
        /\ FlightNow(q)' = Weight(DataOf(q)', DataBy(q))
        /\ WaitNow(q)' = Weight(requestBuffer[BufferOf(q)]', WaitBy(q))
        /\ QueuedNow(q)' = Cardinality(CasSet(q, commandQueue'))
    BY DEF OwedNow, FlightNow, WaitNow, QueuedNow
  <2> QED
    BY <2>1, <2>2, ToksFinite, CasSetFinite
<1>c. commandQueue' \in [Banks -> Seq(Commands)]
  BY DEF TypeOK, Commands
<1>d. OwedNow(q)' = WaitNow(q)' + QueuedNow(q)' + FlightNow(q)' => Balanced(q)'
  BY DEF Balanced
<1>e. Routed
  BY DEF ServiceInv
<1>1. ASSUME NEW x \in Traffic, SendRequest(x) PROVE Balanced(q)'
  <2> DEFINE n == IF q = x THEN Beats ELSE 0
  <2>1. OwedNow(q)' = o + n /\ WaitNow(q)' = w + n /\ QueuedNow(q)' = u
        /\ FlightNow(q)' = f
    BY <1>1, SendEffect
  <2>2. n \in Nat
    BY ControllerAssumption
  <2> HIDE DEF n, o, w, u, f
  <2> QED
    BY <1>0, <1>a, <1>d, <2>1, <2>2
<1>2. ASSUME NEW i \in Buffers, NEW k \in DOMAIN requestBuffer[i],
             NEW more \in BOOLEAN, ScheduleRequest(i, k, more)
      PROVE  Balanced(q)'
  <2> DEFINE n == IF q = requestBuffer[i][k] THEN Beats ELSE 0
  <2>1. OwedNow(q)' = o /\ w = WaitNow(q)' + n /\ QueuedNow(q)' = u + n
        /\ FlightNow(q)' = f
    BY <1>2, <1>c, <1>e, ScheduleEffect
  <2>2. n \in Nat
    BY ControllerAssumption
  <2> HIDE DEF n, o, w, u, f
  <2> QED
    BY <1>0, <1>a, <1>b, <1>d, <2>1, <2>2
<1>3. ASSUME NEW b \in Banks, IssueCommand(b) PROVE Balanced(q)'
  <2> DEFINE one == IF 1 \in CasFor(q, commandQueue[b]) THEN 1 ELSE 0
  <2>1. OwedNow(q)' = o /\ WaitNow(q)' = w /\ u = QueuedNow(q)' + one
        /\ FlightNow(q)' = f + one
    BY <1>3, <1>c, <1>e, IssueEffect
  <2>2. one \in Nat
    OBVIOUS
  <2> HIDE DEF one, o, w, u, f
  <2> QED
    BY <1>0, <1>a, <1>b, <1>d, <2>1, <2>2
<1>4. ASSUME NEW x \in Traffic, Delivers(x) PROVE Balanced(q)'
  <2> DEFINE one == IF q = x THEN 1 ELSE 0
  <2>1. o = OwedNow(q)' + one /\ f = FlightNow(q)' + one
        /\ WaitNow(q)' = w /\ QueuedNow(q)' = u
    BY <1>4 DEF Delivers
  <2>2. one \in Nat
    OBVIOUS
  <2> HIDE DEF one, o, w, u, f
  <2> QED
    BY <1>0, <1>a, <1>b, <1>d, <2>1, <2>2
<1>5. CASE Quiet
  BY <1>5, <1>a, <1>d, QuietEffect DEF Same
<1> HIDE DEF o, w, u, f
<1> QED
  BY <1>1, <1>2, <1>3, <1>4, <1>5, StepCases, DeliverWriteEffect, DeliverReadEffect

(* The three parts of the invariant together are inductive.                *)
LEMMA ServiceStep ==
    SpreadFits /\ TypeOK /\ TypeOK' /\ ServiceInv /\ [Next]_vars => ServiceInv'
<1> SUFFICES ASSUME SpreadFits, TypeOK, TypeOK', ServiceInv, [Next]_vars
             PROVE  ServiceInv'
  OBVIOUS
<1>1. \A q \in Traffic : Balanced(q)'
  BY BalanceStep
<1>2. Routed' /\ PendingInOrder'
  BY RoutedStep, OrderStep DEF ServiceInv
<1> QED
  BY <1>1, <1>2 DEF ServiceInv

(* At first there is no beat anywhere.                                     *)
LEMMA InitCounts ==
    ASSUME Init, NEW q \in Traffic
    PROVE  /\ OwedNow(q) = 0 /\ OpenNow(q) = 0 /\ WaitNow(q) = 0
           /\ QueuedNow(q) = 0 /\ FlightNow(q) = 0
<1>1. /\ requestBuffer[BufferOf(q)] = <<>>
      /\ \A b \in Banks : commandQueue[b] = <<>>
      /\ ListOf(q) = <<>> /\ DataOf(q) = <<>>
  BY BufferOfType DEF Init, ListOf, DataOf
<1>2. \A m : Weight(<<>>, m) = 0
  <2> TAKE m
  <2>1. \A i \in 1..Len(<<>>) : m[<<>>[i]] = 0
    OBVIOUS
  <2> QED
    BY <2>1, WeightZero
<1>3. CasSet(q, commandQueue) = {}
  <2>0. CasFor(q, <<>>) = {}
    BY DEF CasFor
  <2>1. \A b \in Banks : CasFor(q, commandQueue[b]) = {}
    BY <1>1, <2>0
  <2> QED
    BY <2>1, CasSetIs
<1>4. QueuedNow(q) = 0
  BY <1>3, FS_EmptySet DEF QueuedNow
<1> QED
  BY <1>1, <1>2, <1>4 DEF OwedNow, OpenNow, WaitNow, FlightNow

(* They hold at first, when everything is empty.                           *)
LEMMA ServiceInit == Init => ServiceInv
<1> SUFFICES ASSUME Init PROVE ServiceInv
  OBVIOUS
<1>1. /\ \A i \in Buffers : requestBuffer[i] = <<>>
      /\ \A b \in Banks : commandQueue[b] = <<>>
      /\ pendingRead = <<>> /\ pendingWrite = <<>>
      /\ readData = <<>> /\ sendData = <<>>
  BY DEF Init
<1>3. \A q \in Traffic : Balanced(q)
  BY InitCounts DEF Balanced
<1>4. Routed
  BY <1>1 DEF Routed, BuffersRouted, QueuesRouted, ReadsRouted, WritesRouted
<1>5. PendingInOrder
  BY <1>1 DEF PendingInOrder, PartialFirst
<1> QED
  BY <1>3, <1>4, <1>5 DEF ServiceInv

(* No beat of a request is lost or made up: whatever the schedulers        *)
(* choose, what a request is still owed is what waits in its buffer, what  *)
(* is queued as CAS commands and what is on its way as data.  With the     *)
(* close-page generator this needs a request size its lookup table knows   *)
(* and banks enough to spread a request over.                              *)
THEOREM BeatsCorrect ==
    ASSUME SpreadFits
    PROVE  Spec => []BeatsConserved
<1>1. TypeOK /\ ServiceInv => BeatsConserved
  <2> SUFFICES ASSUME TypeOK, ServiceInv, NEW q \in Traffic
               PROVE  Owed(q) = Waiting(q) + Queued(q) + InFlight(q)
    BY DEF BeatsConserved
  <2> QED
    BY CountedOK DEF CountsOf, ServiceInv, Balanced
<1>2. TypeOK /\ TypeOK' /\ ServiceInv /\ [Next]_vars => ServiceInv'
  BY ServiceStep
<1> QED
  BY <1>1, <1>2, InitType, StepType, ServiceInit, PTL DEF Spec

-----------------------------------------------------------------------------
(* The state of the service in those numbers.                              *)
TodoNow == [q \in Traffic |-> WaitNow(q) + QueuedNow(q)]
DoneNow == [q \in Traffic |-> FlightNow(q)]
AnswersNow == [q \in Traffic |-> OpenNow(q)]

(* That state is the one ServiceSpec gives the service.                    *)
Mapped ==
    /\ [q \in Traffic |-> Waiting(q) + Queued(q)] = TodoNow
    /\ [q \in Traffic |-> InFlight(q)] = DoneNow
    /\ [q \in Traffic |->
          CountIn(IF IsRead(q) THEN pendingRead ELSE pendingWrite,
                  LAMBDA p : p.request = q)] = AnswersNow

(* It is, by the bridge between the two ways of counting.                  *)
LEMMA MappedOK == CountsOf => Mapped
<1> SUFFICES ASSUME CountsOf PROVE Mapped
  OBVIOUS
<1>1. \A q \in Traffic : Waiting(q) + Queued(q) = WaitNow(q) + QueuedNow(q)
  BY DEF CountsOf
<1>2. \A q \in Traffic : InFlight(q) = FlightNow(q)
  BY DEF CountsOf
<1>3. \A q \in Traffic :
         CountIn(IF IsRead(q) THEN pendingRead ELSE pendingWrite,
                 LAMBDA p : p.request = q) = OpenNow(q)
  BY DEF CountsOf, ListOf
<1> QED
  BY <1>1, <1>2, <1>3 DEF Mapped, TodoNow, DoneNow, AnswersNow

(* LastBeat, for a number that is known to be such a sum.                  *)
LEMMA LastBeatOf ==
    ASSUME NEW k \in Nat, NEW size \in 1..Beats, NEW n, n = Beats * k + size
    PROVE  n \in Nat /\ ((n - 1) % Beats = 0 <=> size = 1)
<1> DEFINE m == Beats * k
<1>1. m \in Nat
  BY ControllerAssumption
<1>2. (m + size - 1) % Beats = 0 <=> size = 1
  BY LastBeat
<1>3. n = m + size
  OBVIOUS
<1> HIDE DEF m
<1>4. n \in Nat /\ n - 1 = m + size - 1
  BY <1>1, <1>3
<1> QED
  BY <1>2, <1>4

(* The beat that answers a request is the one that MemoryService says:     *)
(* after it, what the request is owed is a multiple of its beats.          *)
LEMMA AnsweredBeat ==
    ASSUME TypeOK, ServiceInv, NEW x \in Traffic, Matching(ListOf(x), x) # 0,
           NEW total, total = WaitNow(x) + QueuedNow(x) + FlightNow(x)
    PROVE  (total - 1) % Beats = 0 <=> Completes(ListOf(x), x)
<1> DEFINE s == ListOf(x)
           n == Matching(s, x)
<1>1. s \in Seq(PendingEntries)
  BY ListTypes
<1>2. PartialFirst(s)
  BY DEF ServiceInv, PendingInOrder, ListOf
<1>3. n = Matching(s, x) /\ n # 0
  OBVIOUS
<1>a. OwedNow(x) = Weight(s, OwedBy(x))
  BY DEF OwedNow
<1>b. OwedNow(x) = WaitNow(x) + QueuedNow(x) + FlightNow(x)
  BY DEF ServiceInv, Balanced
<1> HIDE DEF s, n
<1>4. s[n].requestSize \in 1..Beats /\ (Completes(s, x) <=> s[n].requestSize = 1)
  BY <1>1, <1>3, SettleCases
<1>5. PICK k \in Nat : Weight(s, OwedBy(x)) = Beats * k + s[n].requestSize
  BY <1>1, <1>2, <1>3, OwedShape
<1>6. total = Beats * k + s[n].requestSize
  BY <1>5, <1>a, <1>b
<1>7. (total - 1) % Beats = 0 <=> s[n].requestSize = 1
  BY <1>4, <1>6, LastBeatOf
<1> QED
  BY <1>4, <1>7 DEF s

(* What a step of the channel is to the service.                           *)
ServiceSteps ==
    \/ \E x \in Traffic :
          \/ /\ TodoNow' = [TodoNow EXCEPT ![x] = @ + Beats]
             /\ AnswersNow' = [AnswersNow EXCEPT ![x] = @ + 1]
             /\ DoneNow' = DoneNow
          \/ /\ TodoNow[x] > 0
             /\ TodoNow' = [TodoNow EXCEPT ![x] = @ - 1]
             /\ DoneNow' = [DoneNow EXCEPT ![x] = @ + 1]
             /\ AnswersNow' = AnswersNow
          \/ /\ DoneNow[x] > 0
             /\ DoneNow' = [DoneNow EXCEPT ![x] = @ - 1]
             /\ AnswersNow' = IF (TodoNow[x] + DoneNow[x] - 1) % Beats = 0
                                THEN [AnswersNow EXCEPT ![x] = @ - 1]
                                ELSE AnswersNow
             /\ TodoNow' = TodoNow
    \/ UNCHANGED <<TodoNow, DoneNow, AnswersNow>>

(* Two functions that agree but for one argument.                          *)
LEMMA PointUpdate ==
    ASSUME NEW S, NEW x \in S, NEW f, NEW g, NEW v,
           f = [q \in S |-> f[q]], g = [q \in S |-> g[q]],
           \A q \in S : q # x => g[q] = f[q], g[x] = v
    PROVE  g = [f EXCEPT ![x] = v]
  OBVIOUS

(* A request that is sent is a Submit, a CAS command an Access, a datum    *)
(* that is delivered a Deliver; any other step is none of the service.     *)
LEMMA ServiceStepCases ==
    ASSUME SpreadFits, TypeOK, TypeOK', ServiceInv, [Next]_vars
    PROVE  ServiceSteps
<1>0. \A q \in Traffic : {OwedNow(q), WaitNow(q), QueuedNow(q), FlightNow(q),
                          OpenNow(q)} \subseteq Nat
  BY CountedOK DEF CountsOf
<1>0p. \A q \in Traffic : {WaitNow(q)', QueuedNow(q)', FlightNow(q)',
                          OpenNow(q)'} \subseteq Nat
  <2>1. CountsOf'
    BY CountedOK, PTL
  <2> QED
    BY <2>1 DEF CountsOf
<1>a. /\ TodoNow = [q \in Traffic |-> WaitNow(q) + QueuedNow(q)]
      /\ DoneNow = [q \in Traffic |-> FlightNow(q)]
      /\ AnswersNow = [q \in Traffic |-> OpenNow(q)]
      /\ TodoNow' = [q \in Traffic |-> WaitNow(q)' + QueuedNow(q)']
      /\ DoneNow' = [q \in Traffic |-> FlightNow(q)']
      /\ AnswersNow' = [q \in Traffic |-> OpenNow(q)']
  BY DEF TodoNow, DoneNow, AnswersNow
<1>b. commandQueue' \in [Banks -> Seq(Commands)] /\ Routed
  BY DEF TypeOK, Commands, ServiceInv
<1>c. Beats \in Nat
  BY ControllerAssumption
<1>1. ASSUME NEW x \in Traffic, SendRequest(x) PROVE ServiceSteps
  <2>1. \A q \in Traffic :
          /\ WaitNow(q)' = WaitNow(q) + (IF q = x THEN Beats ELSE 0)
          /\ OpenNow(q)' = OpenNow(q) + (IF q = x THEN 1 ELSE 0)
          /\ QueuedNow(q)' = QueuedNow(q)
          /\ FlightNow(q)' = FlightNow(q)
    BY <1>1, SendEffect
  <2>2. TodoNow' = [TodoNow EXCEPT ![x] = @ + Beats]
    BY <1>0, <1>a, <1>c, <2>1
  <2>3. AnswersNow' = [AnswersNow EXCEPT ![x] = @ + 1]
    BY <1>0, <1>a, <2>1
  <2>4. DoneNow' = DoneNow
    BY <1>a, <2>1
  <2> QED
    BY <2>2, <2>3, <2>4 DEF ServiceSteps
<1>2. ASSUME NEW i \in Buffers, NEW k \in DOMAIN requestBuffer[i],
             NEW more \in BOOLEAN, ScheduleRequest(i, k, more)
      PROVE  ServiceSteps
  <2> DEFINE n(q) == IF q = requestBuffer[i][k] THEN Beats ELSE 0
  <2>1. \A q \in Traffic :
          /\ WaitNow(q) = WaitNow(q)' + n(q)
          /\ QueuedNow(q)' = QueuedNow(q) + n(q)
          /\ OpenNow(q)' = OpenNow(q)
          /\ FlightNow(q)' = FlightNow(q)
    BY <1>2, <1>b, ScheduleEffect
  <2>2. \A q \in Traffic : n(q) \in Nat
    BY <1>c
  <2> HIDE DEF n
  <2>3. \A q \in Traffic : WaitNow(q)' + QueuedNow(q)' = WaitNow(q) + QueuedNow(q)
    BY <1>0, <1>0p, <2>1, <2>2
  <2> QED
    BY <1>a, <2>1, <2>3 DEF ServiceSteps
<1>3. ASSUME NEW b \in Banks, IssueCommand(b) PROVE ServiceSteps
  <2> DEFINE one(q) == IF 1 \in CasFor(q, commandQueue[b]) THEN 1 ELSE 0
  <2>1. \A q \in Traffic :
          /\ WaitNow(q)' = WaitNow(q) /\ OpenNow(q)' = OpenNow(q)
          /\ QueuedNow(q) = QueuedNow(q)' + one(q)
          /\ FlightNow(q)' = FlightNow(q) + one(q)
    BY <1>3, <1>b, IssueEffect
  <2>2. AnswersNow' = AnswersNow
    BY <1>a, <2>1
  <2>4. CASE \E y \in Traffic : 1 \in CasFor(y, commandQueue[b])
    <3>a. PICK x \in Traffic : 1 \in CasFor(x, commandQueue[b])
      BY <2>4
    <3>1. \A q \in Traffic : 1 \in CasFor(q, commandQueue[b]) => q = x
      BY <3>a DEF CasFor
    <3>2. \A q \in Traffic : one(q) = IF q = x THEN 1 ELSE 0
      BY <3>1, <3>a
    <3> HIDE DEF one
    <3>3. \A q \in Traffic : q # x =>
             WaitNow(q)' + QueuedNow(q)' = WaitNow(q) + QueuedNow(q)
      BY <1>0, <1>0p, <2>1, <3>2
    <3>4. /\ WaitNow(x) + QueuedNow(x) > 0
          /\ WaitNow(x)' + QueuedNow(x)' = WaitNow(x) + QueuedNow(x) - 1
      BY <1>0, <1>0p, <2>1, <3>2
    <3>5. TodoNow[x] > 0
      BY <1>a, <3>4
    <3>6. TodoNow' = [TodoNow EXCEPT ![x] = @ - 1]
      <4>1. /\ TodoNow = [q \in Traffic |-> TodoNow[q]]
            /\ TodoNow' = [q \in Traffic |-> TodoNow'[q]]
        BY <1>a
      <4>2. \A q \in Traffic : q # x => TodoNow'[q] = TodoNow[q]
        BY <1>a, <3>3
      <4>3. TodoNow'[x] = TodoNow[x] - 1
        <5>1. /\ TodoNow[x] = WaitNow(x) + QueuedNow(x)
              /\ TodoNow'[x] = WaitNow(x)' + QueuedNow(x)'
          BY <1>a
        <5>2. /\ WaitNow(x) \in Nat /\ QueuedNow(x) \in Nat
              /\ WaitNow(x)' \in Nat /\ QueuedNow(x)' \in Nat
          BY <1>0, <1>0p
        <5> QED
          BY <3>4, <5>1, <5>2
      <4> QED
        BY <4>1, <4>2, <4>3, PointUpdate
    <3>7. \A q \in Traffic : q # x => FlightNow(q)' = FlightNow(q)
      BY <1>0, <2>1, <3>2
    <3>8. FlightNow(x)' = FlightNow(x) + 1
      BY <2>1, <3>2
    <3>9. DoneNow' = [DoneNow EXCEPT ![x] = @ + 1]
      BY <1>a, <3>7, <3>8, PointUpdate
    <3> QED
      BY <2>2, <3>5, <3>6, <3>9 DEF ServiceSteps
  <2>5. CASE \A y \in Traffic : 1 \notin CasFor(y, commandQueue[b])
    <3>1. \A q \in Traffic : one(q) = 0
      BY <2>5
    <3> HIDE DEF one
    <3>2. \A q \in Traffic : WaitNow(q)' + QueuedNow(q)' = WaitNow(q) + QueuedNow(q)
      BY <1>0, <1>0p, <2>1, <3>1
    <3>3. \A q \in Traffic : FlightNow(q)' = FlightNow(q)
      BY <1>0, <2>1, <3>1
    <3> QED
      BY <1>a, <2>2, <3>2, <3>3 DEF ServiceSteps
  <2> QED
    BY <2>4, <2>5
<1>4. ASSUME NEW x \in Traffic, Delivers(x) PROVE ServiceSteps
  <2>1. /\ Matching(ListOf(x), x) # 0
        /\ \A q \in Traffic :
            /\ FlightNow(q) = FlightNow(q)' + (IF q = x THEN 1 ELSE 0)
            /\ OpenNow(q) = OpenNow(q)'
                  + (IF q = x /\ Completes(ListOf(x), x) THEN 1 ELSE 0)
            /\ WaitNow(q)' = WaitNow(q) /\ QueuedNow(q)' = QueuedNow(q)
    BY <1>4 DEF Delivers
  <2>2. TodoNow' = TodoNow
    BY <1>a, <2>1
  <2>3. DoneNow[x] > 0 /\ DoneNow' = [DoneNow EXCEPT ![x] = @ - 1]
    BY <1>0, <1>0p, <1>a, <2>1
  <2>4. (TodoNow[x] + DoneNow[x] - 1) % Beats = 0 <=> Completes(ListOf(x), x)
    <3>1. TodoNow[x] + DoneNow[x] = WaitNow(x) + QueuedNow(x) + FlightNow(x)
      BY <1>a
    <3> DEFINE total == TodoNow[x] + DoneNow[x]
    <3>2. total = WaitNow(x) + QueuedNow(x) + FlightNow(x)
      BY <3>1
    <3> HIDE DEF total
    <3>3. (total - 1) % Beats = 0 <=> Completes(ListOf(x), x)
      BY <2>1, <3>2, AnsweredBeat
    <3>4. TodoNow[x] \in Nat /\ DoneNow[x] \in Nat /\ Beats \in Nat /\ Beats > 0
      BY <1>0, <1>a, ControllerAssumption
    <3>5. total = TodoNow[x] + DoneNow[x]
      BY DEF total
    <3> QED
      BY <3>3, <3>4, <3>5
  <2>5. CASE Completes(ListOf(x), x)
    <3>1. AnswersNow' = [AnswersNow EXCEPT ![x] = @ - 1]
      BY <1>0, <1>0p, <1>a, <2>1, <2>5
    <3> QED
      BY <2>2, <2>3, <2>4, <2>5, <3>1 DEF ServiceSteps
  <2>6. CASE ~Completes(ListOf(x), x)
    <3>1. \A q \in Traffic : OpenNow(q)' = OpenNow(q)
      BY <1>0, <1>0p, <2>1, <2>6
    <3>2. AnswersNow' = AnswersNow
      BY <1>a, <3>1
    <3> QED
      BY <2>2, <2>3, <2>4, <2>6, <3>2 DEF ServiceSteps
  <2> QED
    BY <2>5, <2>6
<1>5. CASE Quiet
  <2>1. \A q \in Traffic : Same(q)
    BY <1>5, QuietEffect
  <2>2. TodoNow' = TodoNow /\ DoneNow' = DoneNow /\ AnswersNow' = AnswersNow
    BY <1>a, <2>1 DEF Same
  <2> QED
    BY <2>2 DEF ServiceSteps
<1> QED
  BY <1>1, <1>2, <1>3, <1>4, <1>5, StepCases, DeliverWriteEffect, DeliverReadEffect

(* The channel implements the service: whatever the schedulers choose,     *)
(* each beat of a request is accessed once and delivered once, and the     *)
(* request is answered with its last beat, neither earlier nor twice.      *)
THEOREM ImplementsService ==
    ASSUME SpreadFits
    PROVE  Spec => ServiceSpec
<1>1. ASSUME Init, CountsOf PROVE Service!Init
  <2>1. \A q \in Traffic : WaitNow(q) + QueuedNow(q) = 0 /\ FlightNow(q) = 0
                           /\ OpenNow(q) = 0
    <3> SUFFICES ASSUME NEW q \in Traffic
                 PROVE  WaitNow(q) = 0 /\ QueuedNow(q) = 0 /\ FlightNow(q) = 0
                        /\ OpenNow(q) = 0
      OBVIOUS
    <3> QED
      BY <1>1, InitCounts
  <2>2. /\ TodoNow = [q \in Traffic |-> 0] /\ DoneNow = [q \in Traffic |-> 0]
        /\ AnswersNow = [q \in Traffic |-> 0]
    BY <2>1 DEF TodoNow, DoneNow, AnswersNow
  <2> QED
    BY <1>1, <2>2, MappedOK DEF Mapped, Service!Init
<1>2. ASSUME TypeOK, TypeOK', CountsOf, CountsOf', ServiceInv, [Next]_vars
      PROVE  [Service!Next]_(Service!vars)
  <2>1. ServiceSteps
    BY <1>2, ServiceStepCases
  <2>2. Mapped /\ Mapped'
    BY <1>2, MappedOK, PTL
  <2> QED
    BY <2>1, <2>2
    DEF Mapped, ServiceSteps, Service!Next, Service!Submit, Service!Access,
        Service!Deliver, Service!vars
<1> QED
  BY <1>1, <1>2, InitType, StepType, CountedOK, ServiceInit, ServiceStep, PTL
  DEF Spec, ServiceSpec, Service!Spec

-----------------------------------------------------------------------------
(* A batch of marked requests, as PAR-BS keeps one: mk tells which of the  *)
(* requests of buffer b are marked, cnt how many requests the batch is     *)
(* still good for, and passes how often each requestor was passed by       *)
(* another one since it has had a request in b.                            *)

(* The requestors that have a request in b, and a marked one.              *)
OwnersIn(b) == {p \in Requestors : \E i \in DOMAIN b : b[i].requestorID = p}
MarkedIn(b, mk) ==
    {p \in Requestors : \E i \in DOMAIN b : b[i].requestorID = p /\ mk[i]}

(* At most one request of a requestor is marked, and the count covers the  *)
(* marked ones.  It goes down with every request, so that a requestor with *)
(* none of them is passed by what is left of the batch at most; one that   *)
(* has is passed by the other marked requests at most.                     *)
BatchKept(b, mk, cnt, passes, full) ==
    /\ b \in Seq(Traffic) /\ mk \in Seq(BOOLEAN) /\ Len(mk) = Len(b)
    /\ full \in Nat /\ cnt \in 0 .. full
    /\ passes \in [Requestors -> Nat]
    /\ \A i, k \in DOMAIN b :
           mk[i] /\ mk[k] /\ b[i].requestorID = b[k].requestorID => i = k
    /\ Cardinality(MarkedIn(b, mk)) <= cnt
    /\ \A p \in OwnersIn(b) \ MarkedIn(b, mk) : passes[p] + cnt <= full - 1
    /\ \A p \in MarkedIn(b, mk) :
           passes[p] + Cardinality(MarkedIn(b, mk) \ {p})
               <= full + NumRequestors - 2

(* Who has no request in b was not passed since.                           *)
FreshIn(b, passes) == \A p \in Requestors \ OwnersIn(b) : passes[p] = 0

(* How often each was passed when the k-th request of b is taken.          *)
PassesAfter(b, k, passes) ==
    [p \in Requestors |-> IF p = b[k].requestorID \/ p \notin OwnersIn(b) THEN 0
                          ELSE passes[p] + 1]

(* The marks when a request arrives.                                       *)
MarksAfter(mk) == Append(mk, FALSE)

(* A new batch, formed when nothing is left of the old one, marks one      *)
(* request of every requestor that has one.                                *)
LEMMA BatchFormed ==
    ASSUME NEW b, NEW mk, NEW passes, NEW full, BatchKept(b, mk, 0, passes, full),
           NEW new \in Seq(BOOLEAN), Len(new) = Len(b),
           MarkedIn(b, new) = OwnersIn(b),
           \A i, k \in DOMAIN b :
               new[i] /\ new[k] /\ b[i].requestorID = b[k].requestorID => i = k,
           NEW cnt \in Cardinality(OwnersIn(b)) .. full
    PROVE  BatchKept(b, new, cnt, passes, full)
<1> DEFINE A == OwnersIn(b)
           N == NumRequestors
<1>1. A \subseteq Requestors /\ N \in Nat \ {0}
  BY ControllerAssumption DEF OwnersIn
<1>2. MarkedIn(b, mk) \in SUBSET Requestors
  BY DEF MarkedIn
<1>3. Cardinality(MarkedIn(b, mk)) <= 0 /\ Cardinality(MarkedIn(b, mk)) \in Nat
  BY <1>2, SomeRequestors DEF BatchKept
<1>4. MarkedIn(b, mk) = {}
  BY <1>2, <1>3, SomeRequestors
<1>5. \A p \in A : passes[p] \in Nat /\ passes[p] <= full - 1 /\ full \in Nat
  BY <1>1, <1>4 DEF BatchKept
<1>6. Cardinality(A) \in 0 .. N /\ \A p \in A : Cardinality(A \ {p}) = Cardinality(A) - 1
  BY <1>1, SomeRequestors
<1>7. \A p \in A : passes[p] + Cardinality(A \ {p}) <= full + N - 2
  BY <1>1, <1>5, <1>6
<1>8. cnt \in 0 .. full /\ Cardinality(A) <= cnt
  BY <1>6 DEF BatchKept
<1> HIDE DEF A, N
<1> QED
  BY <1>7, <1>8 DEF BatchKept, A, N

(* A request that arrives is not marked; its requestor was not passed if   *)
(* it had none.                                                            *)
LEMMA BatchJoined ==
    ASSUME NEW b, NEW mk, NEW cnt, NEW passes, NEW full, NEW q \in Traffic,
           BatchKept(b, mk, cnt, passes, full), cnt # full, FreshIn(b, passes)
    PROVE  /\ BatchKept(Append(b, q), MarksAfter(mk), cnt, passes, full)
           /\ FreshIn(Append(b, q), passes)
<1> DEFINE n == Len(b)
           c == Append(b, q)
           m == MarksAfter(mk)
           M == MarkedIn(b, mk)
<1>1. b \in Seq(Traffic) /\ n \in Nat /\ DOMAIN b = 1 .. n
  BY DEF BatchKept
<1>2. /\ c \in Seq(Traffic) /\ DOMAIN c = 1 .. n + 1 /\ Len(c) = n + 1
      /\ \A i \in 1 .. n : c[i] = b[i]
  BY <1>1
<1>3. /\ m \in Seq(BOOLEAN) /\ Len(m) = n + 1
      /\ \A i \in 1 .. n : m[i] = mk[i]
      /\ ~m[n + 1]
  <2> DEFINE two == BOOLEAN
             no == FALSE
  <2>1. mk \in Seq(two) /\ Len(mk) = n /\ no \in two
    BY DEF BatchKept
  <2>2. m = Append(mk, no)
    BY DEF MarksAfter
  <2> HIDE DEF two, no, m, n
  <2>3. /\ m \in Seq(two) /\ Len(m) = n + 1
        /\ \A i \in 1 .. n : m[i] = mk[i]
        /\ m[n + 1] = no
    BY <2>1, <2>2, AppendProperties
  <2> QED
    BY <2>3, Zenon DEF two, no
<1>4. \A i \in 1 .. n + 1 : i \in 1 .. n \/ i = n + 1
  BY <1>1
<1>5. 1 .. n \subseteq 1 .. n + 1
  BY <1>1
<1> HIDE DEF n, c, m
<1>6. \A i \in 1 .. n + 1 : m[i] => i \in 1 .. n /\ mk[i] /\ c[i] = b[i]
  BY <1>2, <1>3, <1>4
<1>7. MarkedIn(c, m) = M
  <2>1. \A p : (\E i \in 1 .. n + 1 : c[i].requestorID = p /\ m[i])
               <=> \E i \in 1 .. n : b[i].requestorID = p /\ mk[i]
    BY <1>2, <1>3, <1>5, <1>6
  <2>2. /\ \A p : p \in MarkedIn(c, m) <=> p \in Requestors /\
               \E i \in 1 .. n + 1 : c[i].requestorID = p /\ m[i]
        /\ \A p : p \in M <=> p \in Requestors /\
               \E i \in 1 .. n : b[i].requestorID = p /\ mk[i]
    BY <1>1, <1>2 DEF MarkedIn
  <2> HIDE DEF M
  <2> QED
    BY <2>1, <2>2
<1>8. OwnersIn(b) \subseteq OwnersIn(c)
  BY <1>1, <1>2, <1>5 DEF OwnersIn
<1>9. \A i, k \in DOMAIN c :
          m[i] /\ m[k] /\ c[i].requestorID = c[k].requestorID => i = k
  <2>1. \A i, k \in 1 .. n :
            mk[i] /\ mk[k] /\ b[i].requestorID = b[k].requestorID => i = k
    BY <1>1 DEF BatchKept
  <2> QED
    BY <1>2, <1>6, <2>1
<1>10. \A p \in OwnersIn(c) \ M : passes[p] + cnt <= full - 1
  <2> TAKE p \in OwnersIn(c) \ M
  <2>1. CASE p \in OwnersIn(b)
    BY <2>1 DEF BatchKept
  <2>2. CASE p \notin OwnersIn(b)
    <3>1. passes[p] = 0
      BY <2>2 DEF OwnersIn, FreshIn
    <3> QED
      BY <3>1 DEF BatchKept
  <2> QED
    BY <2>1, <2>2
<1>11. BatchKept(c, m, cnt, passes, full)
  BY <1>2, <1>3, <1>7, <1>9, <1>10 DEF BatchKept
<1> QED
  BY <1>8, <1>11 DEF c, m, FreshIn

(* A request is taken, a marked one if there is any.                       *)
LEMMA BatchTaken ==
    ASSUME NEW b, NEW mk, NEW cnt, NEW passes, NEW full, NEW k \in DOMAIN b,
           BatchKept(b, mk, cnt, passes, full), cnt # 0,
           MarkedIn(b, mk) # {} => mk[k]
    PROVE  /\ BatchKept(RemoveAt(b, k), RemoveAt(mk, k), cnt - 1,
                        PassesAfter(b, k, passes), full)
           /\ FreshIn(RemoveAt(b, k), PassesAfter(b, k, passes))
<1> DEFINE after == PassesAfter(b, k, passes)
           N == NumRequestors
           C(S) == Cardinality(S)
           r == b[k].requestorID
           n == Len(b)
           c == RemoveAt(b, k)
           m == RemoveAt(mk, k)
           From(j) == IF j < k THEN j ELSE j + 1
           M == MarkedIn(b, mk)
<1>0. /\ N \in Nat \ {0}
      /\ \A S \in SUBSET Requestors :
             /\ C(S) \in 0 .. N
             /\ C(S) = 0 <=> S = {}
             /\ \A p \in S : C(S \ {p}) = C(S) - 1
  BY ControllerAssumption, SomeRequestors
<1>1. /\ n \in Nat /\ b \in Seq(Traffic) /\ DOMAIN b = 1 .. n /\ k \in 1 .. n
      /\ r \in Requestors
      /\ mk \in Seq(BOOLEAN) /\ Len(mk) = n
  <2>1. \A q \in Traffic : q.requestorID \in Requestors
    BY ControllerAssumption
  <2> QED
    BY <2>1 DEF BatchKept
<1>2. /\ Len(c) = n - 1 /\ c \in Seq(Traffic) /\ DOMAIN c = 1 .. n - 1
      /\ \A j \in 1 .. n - 1 : c[j] = b[From(j)]
  <2>1. /\ Len(c) = n - 1 /\ c \in Seq(Traffic)
        /\ \A j \in 1 .. n - 1 : c[j] = b[From(j)]
    BY <1>1, RemoveAtAt
  <2> HIDE DEF c, n
  <2> QED
    BY <1>1, <2>1
<1>3. /\ Len(m) = n - 1 /\ m \in Seq(BOOLEAN)
      /\ \A j \in 1 .. n - 1 : m[j] = mk[From(j)]
  <2> HIDE DEF n
  <2>1. /\ RemoveAt(mk, k) \in Seq(BOOLEAN)
        /\ Len(RemoveAt(mk, k)) = Len(mk) - 1
        /\ \A i \in 1 .. Len(mk) - 1 :
               RemoveAt(mk, k)[i] = IF i < k THEN mk[i] ELSE mk[i + 1]
    BY <1>1, RemoveAtAt, Zenon
  <2> QED
    BY <1>1, <2>1, Zenon
<1>4. /\ \A j \in 1 .. n - 1 : From(j) \in 1 .. n /\ From(j) # k
      /\ \A i \in 1 .. n : i # k => \E j \in 1 .. n - 1 : From(j) = i
      /\ \A i, j \in 1 .. n - 1 : From(i) = From(j) => i = j
  <2>1. \A j \in 1 .. n - 1 : From(j) \in 1 .. n /\ From(j) # k
    BY <1>1
  <2>2. \A i \in 1 .. n : i < k => i \in 1 .. n - 1 /\ From(i) = i
    BY <1>1
  <2>3. \A i \in 1 .. n : i > k => i - 1 \in 1 .. n - 1 /\ From(i - 1) = i
    BY <1>1
  <2>4. \A i, j \in 1 .. n - 1 : From(i) = From(j) => i = j
    BY <1>1
  <2> HIDE DEF From
  <2>5. \A i \in 1 .. n : i # k => i < k \/ i > k
    BY <1>1
  <2> QED
    BY <2>1, <2>2, <2>3, <2>4, <2>5
<1> HIDE DEF From, n, c, m, r
<1>5. \A p : p \in MarkedIn(c, m) <=>
          p \in Requestors /\ \E j \in 1 .. n - 1 :
              b[From(j)].requestorID = p /\ mk[From(j)]
  BY <1>2, <1>3 DEF MarkedIn
<1>6. /\ M \subseteq Requestors
      /\ \A p : p \in M <=>
             p \in Requestors /\ \E i \in 1 .. n : b[i].requestorID = p /\ mk[i]
      /\ \A i, j \in 1 .. n :
             mk[i] /\ mk[j] /\ b[i].requestorID = b[j].requestorID => i = j
  BY <1>1 DEF MarkedIn, BatchKept
<1>7. (\E i \in 1 .. n : mk[i]) => mk[k]
  <2>1. \A i \in 1 .. n : b[i].requestorID \in Requestors
    BY <1>1, ControllerAssumption
  <2> QED
    BY <1>6, <2>1
<1>8. MarkedIn(c, m) = M \ {r}
  <2>1. ASSUME NEW p \in MarkedIn(c, m) PROVE p \in M \ {r}
    <3>1. PICK j \in 1 .. n - 1 : b[From(j)].requestorID = p /\ mk[From(j)]
      BY <1>5, <2>1
    <3>2. From(j) \in 1 .. n /\ From(j) # k /\ p \in Requestors
      BY <1>4, <1>5, <2>1
    <3>3. mk[k]
      BY <1>7, <3>1, <3>2
    <3>4. p # r
      BY <1>1, <1>6, <3>1, <3>2, <3>3 DEF r
    <3> QED
      BY <1>6, <3>1, <3>2, <3>4
  <2>2. ASSUME NEW p \in M \ {r} PROVE p \in MarkedIn(c, m)
    <3>1. PICK i \in 1 .. n : b[i].requestorID = p /\ mk[i]
      BY <1>6
    <3>2. i # k
      BY <3>1 DEF r
    <3>3. PICK j \in 1 .. n - 1 : From(j) = i
      BY <1>4, <3>2
    <3> QED
      BY <1>5, <1>6, <3>1, <3>3
  <2> QED
    BY <2>1, <2>2
<1>9. M # {} => r \in M
  BY <1>1, <1>6 DEF r
<1>10. /\ \A p \in OwnersIn(c) : p \in OwnersIn(b)
       /\ \A p \in OwnersIn(b) : p = r \/ p \in OwnersIn(c)
       /\ OwnersIn(b) \subseteq Requestors /\ M \subseteq OwnersIn(b)
  <2>1. \A p : p \in OwnersIn(c) <=>
            p \in Requestors /\ \E j \in 1 .. n - 1 : b[From(j)].requestorID = p
    BY <1>2 DEF OwnersIn
  <2>2. \A p : p \in OwnersIn(b) <=>
            p \in Requestors /\ \E i \in 1 .. n : b[i].requestorID = p
    BY <1>1 DEF OwnersIn
  <2>3. \A p \in OwnersIn(c) : p \in OwnersIn(b)
    BY <1>4, <2>1, <2>2
  <2>4. \A p \in OwnersIn(b) : p = r \/ p \in OwnersIn(c)
    BY <1>4, <2>1, <2>2 DEF r
  <2> HIDE DEF M
  <2> QED
    BY <1>6, <2>2, <2>3, <2>4
<1>11. \A i, j \in DOMAIN c :
           m[i] /\ m[j] /\ c[i].requestorID = c[j].requestorID => i = j
  BY <1>2, <1>3, <1>4, <1>6
<1> HIDE DEF M
<1>12. /\ cnt \in 1 .. full /\ full \in Nat /\ C(M) <= cnt
       /\ \A p \in OwnersIn(b) \ M : passes[p] + cnt <= full - 1
       /\ \A p \in M : passes[p] + C(M \ {p}) <= full + N - 2
       /\ \A p \in Requestors : passes[p] \in Nat
  <2>1. cnt \in 1 .. full /\ full \in Nat /\ \A p \in Requestors : passes[p] \in Nat
    BY DEF BatchKept
  <2> QED
    BY <2>1 DEF BatchKept, M
<1>13. \A p \in Requestors : after[p] = IF p = r \/ p \notin OwnersIn(b) THEN 0
                                        ELSE passes[p] + 1
  BY DEF r, PassesAfter
<1>14. after \in [Requestors -> Nat]
  BY <1>12 DEF PassesAfter
<1> HIDE DEF C, N, after
<1>15. C(M \ {r}) <= cnt - 1
  <2>1. CASE M = {}
    <3>1. M \ {r} = {}
      BY <2>1
    <3>2. C(M \ {r}) = 0
      BY <1>0, <3>1
    <3> QED
      BY <1>12, <3>2
  <2>2. CASE M # {}
    <3>1. C(M \ {r}) = C(M) - 1 /\ C(M) \in Nat
      BY <1>0, <1>6, <1>9, <2>2
    <3> QED
      BY <1>12, <3>1
  <2> QED
    BY <2>1, <2>2
<1>16. ASSUME NEW p \in OwnersIn(c) \ (M \ {r})
       PROVE  after[p] + (cnt - 1) <= full - 1
  <2>1. p \in OwnersIn(b) /\ p \in Requestors /\ passes[p] \in Nat
    BY <1>10, <1>12
  <2>2. CASE p = r
    BY <1>12, <1>13, <2>1, <2>2
  <2>3. CASE p # r
    BY <1>12, <1>13, <2>1, <2>3
  <2> QED
    BY <2>2, <2>3
<1>17. ASSUME NEW p \in M \ {r}
       PROVE  after[p] + C((M \ {r}) \ {p}) <= full + N - 2
  <2>1. p \in Requestors /\ passes[p] \in Nat
    BY <1>6, <1>12
  <2>2. after[p] = passes[p] + 1
    BY <1>10, <1>13, <2>1
  <2>3. (M \ {r}) \ {p} = (M \ {p}) \ {r} /\ r \in M \ {p}
    BY <1>9
  <2>4. ASSUME NEW Q \in SUBSET Requestors, r \in Q
        PROVE  C(Q \ {r}) = C(Q) - 1 /\ C(Q) \in Nat
    BY <1>0, <2>4
  <2>5. C((M \ {p}) \ {r}) = C(M \ {p}) - 1 /\ C(M \ {p}) \in Nat
    <3>1. M \ {p} \in SUBSET Requestors
      BY <1>6
    <3> QED
      BY <2>3, <2>4, <3>1
  <2>6. C((M \ {r}) \ {p}) = C(M \ {p}) - 1
    BY <2>3, <2>5
  <2>7. passes[p] + C(M \ {p}) <= full + N - 2
    BY <1>12
  <2> QED
    BY <1>0, <1>12, <2>1, <2>2, <2>5, <2>6, <2>7
<1>18. BatchKept(c, m, cnt - 1, after, full)
  <2>1. cnt - 1 \in 0 .. full
    BY <1>12
  <2>2. /\ Cardinality(MarkedIn(c, m)) <= cnt - 1
        /\ \A p \in OwnersIn(c) \ MarkedIn(c, m) : after[p] + (cnt - 1) <= full - 1
        /\ \A p \in MarkedIn(c, m) :
               after[p] + Cardinality(MarkedIn(c, m) \ {p}) <= full + NumRequestors - 2
    BY <1>8, <1>15, <1>16, <1>17 DEF C, N
  <2> QED
    BY <1>2, <1>3, <1>11, <1>12, <1>14, <2>1, <2>2 DEF BatchKept
<1>19. FreshIn(c, after)
  BY <1>10, <1>13 DEF FreshIn
<1> QED
  BY <1>18, <1>19 DEF c, m, after

(* How often a requestor is passed at most.                                *)
LEMMA BatchBound ==
    ASSUME NEW b, NEW mk, NEW cnt, NEW passes, NEW full,
           BatchKept(b, mk, cnt, passes, full), full # 0, FreshIn(b, passes)
    PROVE  \A p \in Requestors : passes[p] <= full + NumRequestors - 2
<1> TAKE p \in Requestors
<1>1. /\ passes[p] \in Nat /\ full \in Nat \ {0} /\ cnt \in Nat
      /\ NumRequestors \in Nat \ {0}
  BY ControllerAssumption DEF BatchKept
<1>2. CASE p \in MarkedIn(b, mk)
  <2>1. MarkedIn(b, mk) \ {p} \in SUBSET Requestors
    BY DEF MarkedIn
  <2>2. Cardinality(MarkedIn(b, mk) \ {p}) \in Nat
    BY <2>1, SomeRequestors
  <2> QED
    BY <1>1, <1>2, <2>2 DEF BatchKept
<1>3. CASE p \in OwnersIn(b) \ MarkedIn(b, mk)
  BY <1>1, <1>3 DEF BatchKept
<1>4. CASE p \notin OwnersIn(b)
  BY <1>1, <1>4 DEF FreshIn
<1> QED
  BY <1>2, <1>3, <1>4

=============================================================================
