---------------------------- MODULE PrivateProofs ----------------------------
(***************************************************************************)
(* Controllers that give every requestor a bank of its own.                *)
(*                                                                         *)
(* ORP and DCmc issue what is in a FIFO without looking whether it is      *)
(* still ready.  It is, so that they are two of the controllers            *)
(* MemoryController describes and all that is proved there holds for them. *)
(*                                                                         *)
(* MAG blocks its channel for a CAS, and takes it later without looking    *)
(* whether its queue still has it.  It has.                                *)
(***************************************************************************)
EXTENDS ORP, MAG, MemoryControllerProofs

-----------------------------------------------------------------------------
(* The scan of the queues.                                                 *)

(* The first n turns of a scan, as the values of one function.             *)
Turns(f, start, scan, able, n) ==
    f = [i \in 0 .. n |->
            IF i = 0 THEN start ELSE Enters(f[i - 1], scan[i], able)]

(* There is such a function for every number of turns: the one for n - 1   *)
(* turns can be extended.                                                  *)
LEMMA TurnsExist ==
    ASSUME NEW start, NEW scan, NEW able, NEW n \in Nat
    PROVE  \E f : Turns(f, start, scan, able, n)
<1> DEFINE Bad == {m \in Nat : ~ \E f : Turns(f, start, scan, able, m)}
<1>1. Bad = {}
  <2> SUFFICES ASSUME Bad # {} PROVE FALSE
    OBVIOUS
  <2> DEFINE m == Min(Bad)
  <2>1. m \in Bad /\ \A k \in Bad : m <= k
    BY MinIsLeast
  <2>2. m \in Nat /\ ~ \E f : Turns(f, start, scan, able, m)
    BY <2>1
  <2> HIDE DEF m
  <2>3. CASE m = 0
    <3> DEFINE f == [i \in 0..0 |-> start]
    <3>1. Turns(f, start, scan, able, 0)
      BY DEF Turns
    <3> QED
      BY <2>2, <2>3, <3>1
  <2>4. CASE m # 0
    <3>1. m - 1 \in Nat /\ m - 1 \notin Bad
      BY <2>1, <2>2, <2>4
    <3>2. PICK f : Turns(f, start, scan, able, m - 1)
      BY <3>1
    <3> DEFINE g == [i \in 0 .. m |->
                        IF i = m THEN Enters(f[m - 1], scan[m], able) ELSE f[i]]
    <3>3. \A i \in 0 .. m - 1 :
             f[i] = IF i = 0 THEN start ELSE Enters(f[i - 1], scan[i], able)
      BY <3>2 DEF Turns
    <3>4. ASSUME NEW i \in 0 .. m
          PROVE  g[i] = IF i = 0 THEN start ELSE Enters(g[i - 1], scan[i], able)
      <4>1. CASE i = 0
        <5>1. 0 \in 0 .. m - 1 /\ 0 # m /\ 0 \in 0 .. m
          BY <2>2, <2>4
        <5> QED
          BY <3>3, <4>1, <5>1
      <4>2. CASE i # 0
        <5>1. i - 1 \in 0 .. m - 1 /\ i - 1 \in 0 .. m /\ i - 1 # m
          BY <2>2, <4>2
        <5>2. g[i - 1] = f[i - 1]
          BY <5>1
        <5>3. CASE i = m
          BY <4>2, <5>2, <5>3
        <5>4. CASE i # m
          <6>1. i \in 0 .. m - 1
            BY <2>2, <5>4
          <6> QED
            BY <3>3, <4>2, <5>2, <5>4, <6>1
        <5> QED
          BY <5>3, <5>4
      <4> QED
        BY <4>1, <4>2
    <3>5. g = [i \in 0 .. m |-> g[i]]
      OBVIOUS
    <3> HIDE DEF g
    <3>6. Turns(g, start, scan, able, m)
      BY <3>4, <3>5 DEF Turns
    <3> QED
      BY <2>2, <3>6
  <2> QED
    BY <2>3, <2>4
<1> QED
  BY <1>1

(* A FIFO of distinct requestors, each of which is able.                   *)
Orderly(fifo, able) ==
    /\ fifo \in Seq(Requestors)
    /\ \A i \in DOMAIN fifo : fifo[i] \in able
    /\ \A i, j \in DOMAIN fifo : fifo[i] = fifo[j] => i = j

(* One turn of the scan keeps it so.                                       *)
LEMMA EntersOrderly ==
    ASSUME NEW fifo, NEW r \in Requestors, NEW able, Orderly(fifo, able)
    PROVE  Orderly(Enters(fifo, r, able), able)
<1>1. CASE ~(r \in able /\ ~Pending(fifo, r))
  BY <1>1 DEF Enters
<1>2. CASE r \in able /\ ~Pending(fifo, r)
  <2> DEFINE t == Append(fifo, r)
  <2>0. /\ fifo \in Seq(Requestors) /\ DOMAIN fifo = 1..Len(fifo)
        /\ Len(fifo) \in Nat
    BY DEF Orderly
  <2>1. /\ t \in Seq(Requestors) /\ DOMAIN t = 1..Len(fifo) + 1
        /\ t[Len(fifo) + 1] = r /\ \A i \in 1..Len(fifo) : t[i] = fifo[i]
    BY <2>0
  <2>2. \A i \in 1..Len(fifo) : fifo[i] # r /\ fifo[i] \in able
    BY <1>2, <2>0 DEF Orderly, Pending
  <2>a. Enters(fifo, r, able) = t
    BY <1>2 DEF Enters
  <2> HIDE DEF t
  <2>3. \A i \in DOMAIN t : t[i] \in able
    BY <1>2, <2>0, <2>1, <2>2
  <2>4. ASSUME NEW i \in DOMAIN t, NEW j \in DOMAIN t, t[i] = t[j] PROVE i = j
    <3>1. CASE i \in 1..Len(fifo) /\ j \in 1..Len(fifo)
      BY <2>0, <2>1, <2>4, <3>1 DEF Orderly
    <3>2. CASE i = Len(fifo) + 1 \/ j = Len(fifo) + 1
      BY <2>0, <2>1, <2>2, <2>4, <3>2
    <3> QED
      BY <2>0, <2>1, <3>1, <3>2
  <2> QED
    BY <2>1, <2>3, <2>4, <2>a DEF Orderly
<1> QED
  BY <1>1, <1>2

(* So the whole scan does.                                                 *)
LEMMA ScanOrderly ==
    ASSUME NEW start, NEW scan \in Seq(Requestors), NEW able,
           Orderly(start, able)
    PROVE  Orderly(Scan(start, scan, able), able)
<1> DEFINE L == Len(scan)
           f == CHOOSE g : Turns(g, start, scan, able, L)
<1>1. L \in Nat /\ \A i \in 1..L : scan[i] \in Requestors
  OBVIOUS
<1>2. Turns(f, start, scan, able, L)
  BY <1>1, TurnsExist
<1>3. Scan(start, scan, able) = f[L]
  BY DEF Scan, Turns
<1> HIDE DEF f, L
<1>4. \A i \in 0 .. L :
         f[i] = IF i = 0 THEN start ELSE Enters(f[i - 1], scan[i], able)
  BY <1>2 DEF Turns
<1> DEFINE Bad == {m \in 0 .. L : ~Orderly(f[m], able)}
<1>5. Bad = {}
  <2> SUFFICES ASSUME Bad # {} PROVE FALSE
    OBVIOUS
  <2> DEFINE m == Min(Bad)
  <2>0. Bad \in SUBSET Nat
    BY <1>1
  <2>1. m \in Bad /\ \A k \in Bad : m <= k
    BY <2>0, MinIsLeast
  <2>2. m \in 0 .. L /\ ~Orderly(f[m], able)
    BY <2>1
  <2> HIDE DEF m
  <2>3. m # 0
    BY <1>1, <1>4, <2>2
  <2>4. m - 1 \in 0 .. L /\ m - 1 \notin Bad /\ m \in 1 .. L
    BY <1>1, <2>1, <2>2, <2>3
  <2>5. Orderly(f[m - 1], able) /\ scan[m] \in Requestors
    BY <1>1, <2>4
  <2>6. f[m] = Enters(f[m - 1], scan[m], able)
    BY <1>4, <2>2, <2>3
  <2> QED
    BY <2>2, <2>5, <2>6, EntersOrderly
<1>6. L \in 0 .. L
  BY <1>1
<1> QED
  BY <1>3, <1>5, <1>6

-----------------------------------------------------------------------------
(* The inductive invariant: the registered requestors and the index are    *)
(* what they are taken for, and the FIFO holds distinct requestors whose   *)
(* first command is ready.                                                 *)

RegisterOK == /\ requestorOrder \in Seq(Requestors)
              /\ requestorIndex \in Nat \ {0}
ORPInv == TypeOK /\ RegisterOK /\ Orderly(cmdFIFO, Ready)

(* What the FIFO is required to be.                                        *)
LEMMA OrderlyIsReady ==
    ASSUME Orderly(cmdFIFO, Ready)
    PROVE  FIFOReady
  BY DEF Orderly, Ready, FIFOReady

(* The requestors have a buffer and a bank each.                           *)
LEMMA PrivateTypes ==
    ASSUME PrivatizedAssumption
    PROVE  /\ Buffers = Requestors /\ Banks = Requestors
           /\ SpreadFits
  BY ControllerAssumption DEF PrivatizedAssumption, Buffers, SpreadFits

(* The two orders of the scan name requestors.                             *)
LEMMA ScansType ==
    ASSUME RegisterOK
    PROVE  requestorOrder \in Seq(Requestors) /\ queues \in Seq(Requestors)
<1>1. queues \in [1 .. NumRequestors -> Requestors] /\ NumRequestors \in Nat
  BY ControllerAssumption DEF queues, Requestors
<1>2. queues \in Seq(Requestors)
  BY <1>1, IsASeq
<1> QED
  BY <1>2 DEF RegisterOK

(* A FIFO stays as it is when what was ready stays ready.                  *)
LEMMA OrderlyGrows ==
    ASSUME NEW fifo, NEW able, NEW more, able \subseteq more,
           Orderly(fifo, able)
    PROVE  Orderly(fifo, more)
  BY DEF Orderly

(* The first request of a requestor in the order of its registration, and  *)
(* the other steps of a cycle but commandSchedule, are steps of            *)
(* MemoryController.                                                       *)
LEMMA DirectStep ==
    ASSUME PrivatizedAssumption, TypeOK, RegisterOK, DirectCommon
    PROVE  [Next]_vars
<1>1. CASE \E q \in Traffic : RegisteringSend(q)
  BY <1>1 DEF RegisteringSend, Next
<1>2. CASE Others
  BY <1>2 DEF Others, Next
<1>3. CASE NoRequestors
  BY <1>3 DEF NoRequestors, Next
<1>4. CASE requestSchedule
  <2> DEFINE r == requestorOrder[requestorIndex]
             last == requestorIndex = Len(requestorOrder)
  <2>1. \/ requestBuffer[r] # <<>> /\ ScheduleRequest(r, 1, ~last)
        \/ EndSchedule
        \/ UNCHANGED vars
    BY <1>4 DEF requestSchedule
  <2>2. requestorIndex \in 1..Len(requestorOrder)
    BY <1>4 DEF requestSchedule, RegisterOK
  <2>3. r \in Buffers
    BY <2>2, PrivateTypes DEF RegisterOK
  <2>4. (~last) \in BOOLEAN
    OBVIOUS
  <2> HIDE DEF r, last
  <2>5. requestBuffer[r] # <<>> => 1 \in DOMAIN requestBuffer[r]
    <3>1. requestBuffer[r] \in Seq(Traffic)
      BY <2>3 DEF TypeOK
    <3> QED
      BY <3>1
  <2>6. CASE requestBuffer[r] # <<>> /\ ScheduleRequest(r, 1, ~last)
    BY <2>3, <2>4, <2>5, <2>6 DEF Next
  <2> QED
    BY <2>1, <2>6 DEF Next
<1> QED
  BY <1>1, <1>2, <1>3, <1>4 DEF DirectCommon

(* They keep the register in order.                                        *)
LEMMA DirectRegister ==
    ASSUME RegisterOK, DirectCommon
    PROVE  RegisterOK'
<1>1. ASSUME NEW q \in Traffic, RegisteringSend(q) PROVE RegisterOK'
  <2>1. q.requestorID \in Requestors
    BY ControllerAssumption
  <2> QED
    BY <1>1, <2>1 DEF RegisteringSend, Register, RegisterOK
<1>2. CASE Others /\ UNCHANGED registerVars
  BY <1>2 DEF registerVars, RegisterOK
<1>3. CASE NoRequestors
  BY <1>3 DEF NoRequestors, registerVars, RegisterOK
<1>4. CASE requestSchedule
  BY <1>4 DEF requestSchedule, NextIndex, RegisterOK
<1> QED
  BY <1>1, <1>2, <1>3, <1>4 DEF DirectCommon

(* And what is ready stays ready.                                          *)
LEMMA DirectReady ==
    ASSUME PrivatizedAssumption, TypeOK, RegisterOK, DirectCommon
    PROVE  Ready \subseteq Ready'
<1>1. [Next]_vars /\ phase # "command"
  BY DirectStep DEF DirectCommon, RegisteringSend, SendRequest, Others, Idle,
                    DeliverWrite, NoWrite, DeliverRead, NoRead, NoRequestors,
                    EndSchedule, requestSchedule
<1>2. Banks = Requestors
  BY PrivateTypes
<1>3. ASSUME NEW r \in Requestors, commandQueue[r] # <<>>, isReady(r)
      PROVE  commandQueue'[r] # <<>> /\ isReady(r)'
  BY <1>1, <1>2, <1>3, HeadStays
<1> QED
  BY <1>3 DEF Ready

(* A command of a FIFO whose commands are ready is issued: a step of       *)
(* MemoryController, after which the rest of the FIFO is as before.        *)
LEMMA IssueStep ==
    ASSUME PrivatizedAssumption, TypeOK, NEW fifo, Orderly(fifo, Ready),
           NEW i, IssueFrom(fifo, i)
    PROVE  Next /\ Orderly(cmdFIFO, Ready)'
<1> DEFINE b == fifo[i]
<1>1. /\ i \in DOMAIN fifo /\ sendCommand(b) /\ cmdFIFO' = RemoveAt(fifo, i)
  BY DEF IssueFrom
<1>2. /\ fifo \in Seq(Requestors) /\ DOMAIN fifo = 1..Len(fifo)
      /\ Len(fifo) \in Nat /\ i \in 1..Len(fifo)
  BY <1>1 DEF Orderly
<1>3. b \in Ready /\ b \in Requestors /\ b \in Banks
  BY <1>1, <1>2, PrivateTypes DEF Orderly
<1>4. Next
  <2>1. IssueCommand(b)
    BY <1>1, <1>3 DEF IssueCommand, Ready
  <2> QED
    BY <1>3, <2>1 DEF Next
<1>5. ASSUME NEW r \in Ready, r # b PROVE r \in Ready'
  <2>0. r \in Requestors /\ r \in Banks /\ commandQueue[r] # <<>> /\ isReady(r)
    BY PrivateTypes DEF Ready
  <2>1. commandQueue'[r] = commandQueue[r] /\ cmdQueueTimer'[r] = cmdQueueTimer[r]
    BY <1>1, <1>3, <1>5, <2>0 DEF sendCommand, TypeOK
  <2> QED
    BY <2>0, <2>1 DEF Ready, isReady
<1> DEFINE t == RemoveAt(fifo, i)
<1>6. /\ t \in Seq(Requestors) /\ Len(t) = Len(fifo) - 1
      /\ \A j \in 1..Len(t) : t[j] = IF j < i THEN fifo[j] ELSE fifo[j + 1]
  BY <1>2, RemoveAtType, RemoveAtAt
<1> HIDE DEF t, b
<1>7. ASSUME NEW j \in 1..Len(t)
      PROVE  \E n \in 1..Len(fifo) : t[j] = fifo[n] /\ n # i
                /\ n = IF j < i THEN j ELSE j + 1
  BY <1>2, <1>6
<1>8. \A j \in 1..Len(t) : t[j] \in Ready'
  <2> TAKE j \in 1..Len(t)
  <2>1. PICK n \in 1..Len(fifo) : t[j] = fifo[n] /\ n # i
    BY <1>7
  <2>2. fifo[n] \in Ready /\ fifo[n] # b
    BY <1>2, <2>1 DEF Orderly, b
  <2> QED
    BY <1>5, <2>1, <2>2
<1>9. \A j, k \in 1..Len(t) : t[j] = t[k] => j = k
  <2> SUFFICES ASSUME NEW j \in 1..Len(t), NEW k \in 1..Len(t), t[j] = t[k]
               PROVE  j = k
    OBVIOUS
  <2>1. PICK n \in 1..Len(fifo) : t[j] = fifo[n] /\ n = IF j < i THEN j ELSE j + 1
    BY <1>7
  <2>2. PICK m \in 1..Len(fifo) : t[k] = fifo[m] /\ m = IF k < i THEN k ELSE k + 1
    BY <1>7
  <2>3. n = m
    BY <1>2, <2>1, <2>2 DEF Orderly
  <2> QED
    BY <1>2, <1>6, <2>1, <2>2, <2>3
<1>10. cmdFIFO' = t /\ DOMAIN t = 1..Len(t)
  BY <1>1, <1>6 DEF t
<1>11. Orderly(cmdFIFO, Ready)' <=> Orderly(cmdFIFO', Ready')
  BY DEF Orderly
<1>12. Orderly(t, Ready')
  BY <1>6, <1>8, <1>9, <1>10 DEF Orderly
<1> QED
  BY <1>4, <1>10, <1>11, <1>12

(* Nothing of the FIFO is issued.                                          *)
LEMMA NoIssueStep ==
    ASSUME NEW fifo, Orderly(fifo, Ready), NothingToIssue(fifo)
    PROVE  Next /\ Orderly(cmdFIFO, Ready)'
<1>1. NoCommand /\ cmdFIFO' = fifo
  BY DEF NothingToIssue
<1>2. UNCHANGED <<commandQueue, cmdQueueTimer>>
  BY <1>1 DEF NoCommand, commandVars
<1>3. Ready' = Ready
  BY <1>2 DEF Ready, isReady
<1>4. Orderly(cmdFIFO, Ready)' <=> Orderly(cmdFIFO', Ready')
  BY DEF Orderly
<1> QED
  BY <1>1, <1>3, <1>4 DEF Next

(* A step of ORP, or of DCmc, whose scan takes the queues in the order     *)
(* of scan.                                                                *)
FIFONext(scan) ==
    \/ DirectCommon /\ UNCHANGED cmdFIFO
    \/ \E i \in 1 .. NumRequestors : IssueFrom(Enter(scan), i)
    \/ NothingToIssue(Enter(scan))

(* It is a step of MemoryController and keeps the invariant.               *)
LEMMA FIFOStep ==
    ASSUME PrivatizedAssumption, NEW scan \in Seq(Requestors),
           ORPInv, FIFONext(scan) \/ UNCHANGED orpVars
    PROVE  [Next]_vars /\ ORPInv'
<1>0. TypeOK /\ RegisterOK /\ Orderly(cmdFIFO, Ready)
  BY DEF ORPInv
<1>1. ASSUME [Next]_vars PROVE TypeOK'
  BY <1>0, <1>1, StepType
<1>2. Orderly(Enter(scan), Ready)
  BY <1>0, ScanOrderly DEF Enter
<1>3. CASE DirectCommon /\ UNCHANGED cmdFIFO
  <2>1. [Next]_vars /\ RegisterOK' /\ Ready \subseteq Ready'
    BY <1>0, <1>3, DirectStep, DirectRegister, DirectReady
  <2>2. Orderly(cmdFIFO, Ready')
    BY <1>0, <2>1, OrderlyGrows
  <2>3. Orderly(cmdFIFO, Ready)'
    BY <1>3, <2>2 DEF Orderly
  <2> QED
    BY <1>1, <2>1, <2>3 DEF ORPInv
<1>4. ASSUME NEW i \in 1 .. NumRequestors, IssueFrom(Enter(scan), i)
      PROVE  [Next]_vars /\ ORPInv'
  <2>1. Next /\ Orderly(cmdFIFO, Ready)'
    BY <1>0, <1>2, <1>4, IssueStep
  <2>2. RegisterOK'
    BY <1>0, <1>4 DEF IssueFrom, registerVars, RegisterOK
  <2> QED
    BY <1>1, <2>1, <2>2 DEF ORPInv
<1>5. CASE NothingToIssue(Enter(scan))
  <2>1. Next /\ Orderly(cmdFIFO, Ready)'
    BY <1>2, <1>5, NoIssueStep
  <2>2. RegisterOK'
    BY <1>0, <1>5 DEF NothingToIssue, registerVars, RegisterOK
  <2> QED
    BY <1>1, <2>1, <2>2 DEF ORPInv
<1>6. CASE UNCHANGED orpVars
  <2>1. UNCHANGED vars /\ UNCHANGED registerVars /\ UNCHANGED cmdFIFO
    BY <1>6 DEF orpVars
  <2>2. Ready' = Ready
    BY <2>1 DEF vars, commandVars, Ready, isReady
  <2>3. Orderly(cmdFIFO, Ready)'
    BY <1>0, <2>1, <2>2 DEF Orderly
  <2>4. RegisterOK'
    BY <1>0, <2>1 DEF registerVars, RegisterOK
  <2> QED
    BY <1>1, <2>1, <2>3, <2>4 DEF ORPInv
<1> QED
  BY <1>3, <1>4, <1>5, <1>6 DEF FIFONext

(* The FIFO is empty at first.                                             *)
LEMMA ORPInvInit == ORPInit => Init /\ ORPInv
<1> SUFFICES ASSUME ORPInit PROVE Init /\ ORPInv
  OBVIOUS
<1>1. Init /\ requestorOrder = <<>> /\ requestorIndex = 1 /\ cmdFIFO = <<>>
  BY DEF ORPInit, PerRequestorInit
<1>2. RegisterOK
  BY <1>1 DEF RegisterOK
<1>3. Orderly(cmdFIFO, Ready)
  BY <1>1 DEF Orderly
<1> QED
  BY <1>1, <1>2, <1>3, InitType DEF ORPInv

(* CAS commands leave the FIFO in its order: the first eligible command is *)
(* issued, and before an eligible CAS there is none that is not issuable.  *)
LEMMA OrderKept ==
    ASSUME NEW fifo, Orderly(fifo, Ready),
           (\E n \in 1 .. NumRequestors : IssueFrom(fifo, n)) \/ NothingToIssue(fifo)
    PROVE  CasInOrder(fifo)
<1> SUFFICES ASSUME NEW i \in DOMAIN fifo, NEW j \in DOMAIN fifo, j < i,
                    IsCas(fifo[i]), IsCas(fifo[j]), fifo[j] \in Range(cmdFIFO')
             PROVE  fifo[i] \in Range(cmdFIFO')
  BY DEF CasInOrder
<1>0. /\ fifo \in Seq(Requestors) /\ DOMAIN fifo = 1..Len(fifo)
      /\ Len(fifo) \in Nat
  BY DEF Orderly
<1>1. CASE NothingToIssue(fifo)
  BY <1>1 DEF NothingToIssue, Range
<1>2. ASSUME NEW n \in 1 .. NumRequestors, IssueFrom(fifo, n)
      PROVE  fifo[i] \in Range(cmdFIFO')
  <2> DEFINE t == RemoveAt(fifo, n)
  <2>1. /\ n \in DOMAIN fifo /\ cmdFIFO' = t /\ Eligible(fifo, n)
        /\ \A k \in 1 .. n - 1 : ~Eligible(fifo, k)
    BY <1>2 DEF IssueFrom
  <2>2. /\ Len(t) = Len(fifo) - 1 /\ DOMAIN t = 1..Len(t)
        /\ \A k \in 1..Len(t) : t[k] = IF k < n THEN fifo[k] ELSE fifo[k + 1]
    <3>1. n \in 1..Len(fifo)
      BY <1>0, <2>1
    <3>2. /\ t \in Seq(Requestors) /\ Len(t) = Len(fifo) - 1
          /\ \A k \in 1 .. Len(fifo) - 1 :
                 t[k] = IF k < n THEN fifo[k] ELSE fifo[k + 1]
      BY <1>0, <3>1, RemoveAtAt
    <3> HIDE DEF t
    <3>3. DOMAIN t = 1..Len(t)
      BY <3>2
    <3> QED
      BY <3>2, <3>3
  <2> HIDE DEF t
  <2>3. i # n
    <3> SUFFICES ASSUME i = n PROVE FALSE
      OBVIOUS
    <3>1. \A k \in 1 .. i - 1 : IsCas(fifo[k]) => isIssuable(fifo[k])
      BY <2>1 DEF Eligible
    <3>2. j \in 1 .. i - 1 /\ \A k \in 1 .. j - 1 : k \in 1 .. i - 1
      BY <1>0
    <3>3. Eligible(fifo, j)
      BY <3>1, <3>2 DEF Eligible
    <3> QED
      BY <2>1, <3>2, <3>3
  <2>4. \E k \in DOMAIN t : t[k] = fifo[i]
    <3>1. CASE i < n
      <4>1. i \in 1..Len(t)
        BY <1>0, <2>1, <2>2, <3>1
      <4> QED
        BY <2>2, <3>1, <4>1
    <3>2. CASE i > n
      <4>1. i - 1 \in 1..Len(t) /\ ~(i - 1 < n) /\ (i - 1) + 1 = i
        BY <1>0, <2>1, <2>2, <3>2
      <4> QED
        BY <2>2, <4>1
    <3> QED
      BY <1>0, <2>1, <2>3, <3>1, <3>2
  <2> QED
    BY <2>1, <2>4 DEF Range
<1> QED
  BY <1>1, <1>2

(* So a step of either keeps the order.                                    *)
LEMMA FIFOOrderStep ==
    ASSUME NEW scan \in Seq(Requestors), Orderly(cmdFIFO, Ready), FIFONext(scan)
    PROVE  CasInOrder(Enter(scan))
<1>1. CASE DirectCommon
  <2>1. phase # "command"
    BY <1>1 DEF DirectCommon, RegisteringSend, SendRequest, Others, Idle,
                DeliverWrite, NoWrite, DeliverRead, NoRead, NoRequestors,
                EndSchedule, requestSchedule
  <2> QED
    BY <2>1 DEF CasInOrder
<1>2. CASE (\E n \in 1 .. NumRequestors : IssueFrom(Enter(scan), n))
             \/ NothingToIssue(Enter(scan))
  <2>1. Orderly(Enter(scan), Ready)
    BY ScanOrderly DEF Enter
  <2> QED
    BY <1>2, <2>1, OrderKept
<1> QED
  BY <1>1, <1>2 DEF FIFONext

-----------------------------------------------------------------------------
(* MAG.                                                                    *)

(* Its inductive invariant: the index names a queue, and what blocks the   *)
(* channel is at the head of it.                                           *)
MAGInv == TypeOK /\ RegisterOK /\ indexRT \in Requestors /\ BlockedByCas

(* The index stays within the queues.                                      *)
LEMMA VisitedType ==
    ASSUME indexRT \in Requestors, NEW d \in Nat
    PROVE  Visited(d) \in Requestors
  BY ControllerAssumption DEF Visited, Requestors

(* The pass stops at the first of the queues that stop it.                 *)
LEMMA StopsAt ==
    ASSUME Stops # {}
    PROVE  Min(Stops) \in Nat
<1>1. Stops \in SUBSET Nat
  BY ControllerAssumption DEF Stops
<1> QED
  BY <1>1, MinIsLeast

(* While the channel is blocked only the blocking CAS leaves its queue.    *)
LEMMA MAGStep ==
    ASSUME PrivatizedAssumption, MAGInv, MAGNext \/ UNCHANGED magVars
    PROVE  MAGInv'
<1>0. TypeOK /\ RegisterOK /\ indexRT \in Requestors /\ BlockedByCas
  BY DEF MAGInv
<1>1. Banks = Requestors
  BY PrivateTypes
<1>2. ASSUME [Next]_vars, phase # "command" \/ NoCommand, UNCHANGED magIndex
      PROVE  TypeOK' /\ (indexRT \in Requestors)' /\ BlockedByCas'
  <2>1. TypeOK' /\ (indexRT \in Requestors)'
    BY <1>0, <1>2, StepType DEF magIndex
  <2>2. CASE casBlocking
    <3>1. commandQueue[indexRT] # <<>> /\ IsCas(indexRT) /\ isReady(indexRT)
      BY <1>0, <2>2 DEF BlockedByCas
    <3>2. /\ commandQueue'[indexRT] # <<>>
          /\ Head(commandQueue'[indexRT]) = Head(commandQueue[indexRT])
          /\ isReady(indexRT)'
      <4> DEFINE b == indexRT
      <4>1. b \in Banks /\ commandQueue[b] # <<>> /\ isReady(b)
        BY <1>0, <1>1, <3>1
      <4>2. indexRT' = indexRT
        BY <1>2 DEF magIndex
      <4>3. /\ commandQueue'[b] # <<>>
            /\ Head(commandQueue'[b]) = Head(commandQueue[b])
            /\ cmdQueueTimer'[b][Head(commandQueue'[b]).busPacketType] = 0
        BY <1>0, <1>2, <4>1, HeadStays DEF isReady
      <4> QED
        BY <4>2, <4>3 DEF isReady
    <3> QED
      BY <1>2, <2>1, <3>1, <3>2 DEF BlockedByCas, IsCas, magIndex
  <2>3. CASE ~casBlocking
    BY <1>2, <2>1, <2>3 DEF BlockedByCas, magIndex
  <2> QED
    BY <2>2, <2>3
<1>3. ASSUME NEW r \in Requestors, sendCommand(r), casBlocking' = FALSE,
             indexRT' \in Requestors
      PROVE  TypeOK' /\ (indexRT \in Requestors)' /\ BlockedByCas'
  BY <1>0, <1>1, <1>3, SendType DEF BlockedByCas
<1>4. CASE DirectCommon /\ UNCHANGED magIndex
  <2>1. [Next]_vars /\ RegisterOK'
    BY <1>0, <1>4, DirectStep, DirectRegister
  <2>2. phase # "command"
    BY <1>4 DEF DirectCommon, RegisteringSend, SendRequest, Others, Idle,
                DeliverWrite, NoWrite, DeliverRead, NoRead, NoRequestors,
                EndSchedule, requestSchedule
  <2> QED
    BY <1>2, <1>4, <2>1, <2>2 DEF MAGInv
<1>5. ASSUME UNCHANGED registerVars PROVE RegisterOK'
  BY <1>0, <1>5 DEF registerVars, RegisterOK
<1>6. CASE IssueRT
  <2> DEFINE d == Min(Stops)
  <2>1. /\ Stops # {} /\ sendCommand(Visited(d)) /\ indexRT' = Visited(d + 1)
        /\ casBlocking' = FALSE /\ UNCHANGED registerVars
    BY <1>6 DEF IssueRT
  <2>2. d \in Nat /\ d + 1 \in Nat
    BY <2>1, StopsAt
  <2> HIDE DEF d
  <2>3. Visited(d) \in Requestors /\ Visited(d + 1) \in Requestors
    BY <1>0, <2>2, VisitedType
  <2> QED
    BY <1>3, <1>5, <2>1, <2>3 DEF MAGInv
<1>7. CASE Block
  <2> DEFINE d == Min(Stops)
  <2>1. /\ Stops # {} /\ Blocks(Visited(d)) /\ NoCommand
        /\ indexRT' = Visited(d) /\ UNCHANGED registerVars
    BY <1>7 DEF Block
  <2>2. d \in Nat
    BY <2>1, StopsAt
  <2> HIDE DEF d
  <2>3. Visited(d) \in Requestors
    BY <1>0, <2>2, VisitedType
  <2>4. TypeOK'
    BY <1>0, <2>1, StepType DEF Next
  <2>5. UNCHANGED <<commandQueue, cmdQueueTimer>>
    BY <2>1 DEF NoCommand, commandVars
  <2>6. BlockedByCas'
    BY <2>1, <2>5 DEF BlockedByCas, Blocks, IsCas, isReady
  <2> QED
    BY <1>5, <2>1, <2>3, <2>4, <2>6 DEF MAGInv
<1>8. CASE Unblock
  <2>1. /\ sendCommand(indexRT) /\ indexRT' = Visited(1)
        /\ casBlocking' = FALSE /\ UNCHANGED registerVars
    BY <1>8 DEF Unblock
  <2>2. Visited(1) \in Requestors
    BY <1>0, VisitedType
  <2> QED
    BY <1>0, <1>3, <1>5, <2>1, <2>2 DEF MAGInv
<1>9. CASE StillBlocked \/ NothingRT
  <2>1. NoCommand /\ UNCHANGED magIndex /\ UNCHANGED registerVars
    BY <1>9 DEF StillBlocked, NothingRT
  <2> QED
    BY <1>2, <1>5, <2>1 DEF MAGInv, Next
<1>10. ASSUME NEW r \in Requestors, IssueStale(r) PROVE MAGInv'
  <2>1. /\ sendCommand(r) /\ indexRT' = indexRT /\ casBlocking' = FALSE
        /\ UNCHANGED registerVars
    BY <1>10 DEF IssueStale, magIndex
  <2> QED
    BY <1>0, <1>3, <1>5, <2>1 DEF MAGInv
<1>11. CASE UNCHANGED magVars
  <2>1. UNCHANGED vars /\ UNCHANGED registerVars /\ UNCHANGED magIndex
    BY <1>11 DEF magVars
  <2>2. UNCHANGED <<commandQueue, cmdQueueTimer>>
    BY <2>1 DEF vars, commandVars
  <2>3. BlockedByCas' /\ (indexRT \in Requestors)'
    BY <1>0, <2>1, <2>2 DEF BlockedByCas, IsCas, isReady, magIndex
  <2> QED
    BY <1>0, <1>5, <2>1, <2>3, StepType DEF MAGInv
<1> QED
  BY <1>4, <1>6, <1>7, <1>8, <1>9, <1>10, <1>11 DEF MAGNext

LEMMA MAGInvInit == ASSUME PrivatizedAssumption PROVE MAGInit => MAGInv
<1> SUFFICES ASSUME MAGInit PROVE MAGInv
  OBVIOUS
<1>1. /\ Init /\ requestorOrder = <<>> /\ requestorIndex = 1
      /\ indexRT = 0 /\ casBlocking = FALSE
  BY DEF MAGInit, PerRequestorInit
<1>2. 0 \in Requestors
  BY ControllerAssumption DEF Requestors
<1> QED
  BY <1>1, <1>2, InitType DEF MAGInv, RegisterOK, BlockedByCas

-----------------------------------------------------------------------------
(* What ORP promises: a command of its FIFO is still ready when it is      *)
(* issued, although commandSchedule does not look, and no requestor has    *)
(* two commands in it.                                                     *)
THEOREM ORPReady ==
    ASSUME PrivatizedAssumption
    PROVE  ORPSpec => []FIFOReady
<1>1. ORPInv /\ [ORPNext]_orpVars => ORPInv'
  BY FIFOStep, ScansType DEF ORPInv, ORPNext, FIFONext, Filled
<1>2. ORPInv => FIFOReady
  BY OrderlyIsReady DEF ORPInv
<1> QED
  BY <1>1, <1>2, ORPInvInit, PTL DEF ORPSpec

(* DCmc promises the same.                                                 *)
THEOREM DCmcReady ==
    ASSUME PrivatizedAssumption
    PROVE  DCmcSpec => []FIFOReady
<1>1. ORPInv /\ [DCmcNext]_orpVars => ORPInv'
  BY FIFOStep, ScansType DEF ORPInv, DCmcNext, FIFONext, Scanned, DCmcIssue, DCmcNothing
<1>2. ORPInv => FIFOReady
  BY OrderlyIsReady DEF ORPInv
<1> QED
  BY <1>1, <1>2, ORPInvInit, PTL DEF DCmcSpec

(* No CAS overtakes another one in the FIFO.                               *)
THEOREM ORPInOrder ==
    ASSUME PrivatizedAssumption
    PROVE  ORPSpec => [][CasInOrder(Filled)]_orpVars
<1>1. ORPInv /\ [ORPNext]_orpVars => ORPInv'
  BY FIFOStep, ScansType DEF ORPInv, ORPNext, FIFONext, Filled
<1>2. ORPInv /\ [ORPNext]_orpVars => [CasInOrder(Filled)]_orpVars
  BY FIFOOrderStep, ScansType DEF ORPInv, ORPNext, FIFONext, Filled
<1> QED
  BY <1>1, <1>2, ORPInvInit, PTL DEF ORPSpec

(* Nor in DCmc's.                                                          *)
THEOREM DCmcInOrder ==
    ASSUME PrivatizedAssumption
    PROVE  DCmcSpec => [][CasInOrder(Scanned)]_orpVars
<1>1. ORPInv /\ [DCmcNext]_orpVars => ORPInv'
  BY FIFOStep, ScansType DEF ORPInv, DCmcNext, FIFONext, Scanned, DCmcIssue, DCmcNothing
<1>2. ORPInv /\ [DCmcNext]_orpVars => [CasInOrder(Scanned)]_orpVars
  BY FIFOOrderStep, ScansType DEF ORPInv, DCmcNext, FIFONext, Scanned, DCmcIssue, DCmcNothing
<1> QED
  BY <1>1, <1>2, ORPInvInit, PTL DEF DCmcSpec

(* ORP is one of the controllers MemoryController describes.               *)
THEOREM ORPImplements ==
    ASSUME PrivatizedAssumption
    PROVE  ORPSpec => Spec
<1>1. ORPInv /\ [ORPNext]_orpVars => [Next]_vars /\ ORPInv'
  BY FIFOStep, ScansType DEF ORPInv, ORPNext, FIFONext, Filled
<1> QED
  BY <1>1, ORPInvInit, PTL DEF ORPSpec, Spec

(* So is DCmc.                                                             *)
THEOREM DCmcImplements ==
    ASSUME PrivatizedAssumption
    PROVE  DCmcSpec => Spec
<1>1. ORPInv /\ [DCmcNext]_orpVars => [Next]_vars /\ ORPInv'
  BY FIFOStep, ScansType DEF ORPInv, DCmcNext, FIFONext, Scanned, DCmcIssue, DCmcNothing
<1> QED
  BY <1>1, ORPInvInit, PTL DEF DCmcSpec, Spec

(* They respect the rows and the timings of the banks, keep the books of   *)
(* the requestors and serve every beat as MemoryService says.              *)
THEOREM PrivateCorrect ==
    ASSUME PrivatizedAssumption
    PROVE  ORPSpec \/ DCmcSpec =>
              RowLegal /\ BankTimingMet /\ []CoreMatches /\ ServiceSpec
<1>1. SpreadFits
  BY PrivateTypes
<1>2. Spec => ServiceSpec
  BY <1>1, ImplementsService
<1> QED
  BY <1>2, ORPImplements, DCmcImplements, RowsCorrect, BankTimingCorrect,
     CoreCorrect, PTL

(* MAG's command queue has the CAS that blocks the channel, ready, when   *)
(* commandSchedule calls getCommand on it, which aborts on an empty queue. *)
THEOREM MAGBlockedByCas ==
    ASSUME PrivatizedAssumption
    PROVE  MAGSpec => []BlockedByCas
<1>1. MAGInv /\ [MAGNext]_magVars => MAGInv'
  BY MAGStep
<1>2. MAGInv => BlockedByCas
  BY DEF MAGInv
<1> QED
  BY <1>1, <1>2, MAGInvInit, PTL DEF MAGSpec

=============================================================================
