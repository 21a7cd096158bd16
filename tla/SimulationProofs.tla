-------------------------- MODULE SimulationProofs --------------------------
(***************************************************************************)
(* The loop of main with any number of requestors, channels and lines of   *)
(* the traces: a requestor that has ended has sent and got everything, and *)
(* the buffers stay within their limits.                                   *)
(***************************************************************************)
EXTENDS Simulation, FiniteSetTheorems, WellFoundedInduction, TLAPS

-----------------------------------------------------------------------------
(* What makes the two invariants inductive: the books of a requestor.      *)
Bit == {0, 1}

TypeOK ==
    /\ turn \in Requestors
    /\ line \in [Requestors -> Nat]
    /\ pendingRequest \in [Requestors -> Nat \cup {None}]
    /\ corePending \in [Requestors -> Nat]
    /\ buffered \in [Requestors -> Nat]
    /\ sim_done \in [Requestors -> BOOLEAN]
    /\ requestRequest \in [Requestors -> Nat]
    /\ completeRequest \in [Requestors -> Nat]

(* The requests among the first n lines of the trace of r.                 *)
RequestLines(r, n) == {i \in 1 .. n : Traces[r][i] = "REQ"}

(* The requests read are those sent and the one held back; those sent are  *)
(* those answered and those pending; a buffered request is pending.  A     *)
(* requestor that has ended holds nothing back and awaits no answer.       *)
Books(r) ==
    /\ line[r] <= Len(Traces[r])
    /\ Cardinality(RequestLines(r, line[r])) =
           requestRequest[r] + (IF pendingRequest[r] = None THEN 0 ELSE 1)
    /\ requestRequest[r] = completeRequest[r] + corePending[r]
    /\ buffered[r] <= corePending[r]
    /\ sim_done[r] => /\ line[r] = Len(Traces[r])
                      /\ pendingRequest[r] = None
                      /\ corePending[r] = 0

BooksInv == TypeOK /\ \A r \in Requestors : Books(r)

-----------------------------------------------------------------------------
(* The size of the buffer of channel 0.                                    *)

(* A set of numbers that is not empty has a least element.                 *)
LEMMA LeastExists ==
    ASSUME NEW S \in SUBSET Nat, S # {}
    PROVE  \E x \in S : \A y \in S : x <= y
<1>1. PICK x \in S : \A y \in S : ~ (<<y, x>> \in OpToRel(<, Nat))
  BY WFMin, NatLessThanWellFounded
<1>2. \A y \in S : ~ (y < x)
  BY <1>1, Zenon DEF OpToRel
<1> QED
  BY <1>2

(* The sizes for the first n requestors, as the values of one function.    *)
Sizes(f, b, n) ==
    f = [i \in 0 .. n |-> IF i = 0 THEN 0 ELSE f[i - 1] + InChannel0(b, i - 1)]

(* There is such a function for every n.                                   *)
LEMMA SizesExist ==
    ASSUME NEW b, NEW n \in Nat
    PROVE  \E f : Sizes(f, b, n)
<1> DEFINE Bad == {m \in Nat : ~ \E f : Sizes(f, b, m)}
<1>1. ASSUME Bad # {} PROVE FALSE
  <2>1. PICK m \in Bad : \A k \in Bad : m <= k
    BY <1>1, LeastExists
  <2>2. m \in Nat /\ ~ \E f : Sizes(f, b, m)
    OBVIOUS
  <2>3. CASE m = 0
    <3> DEFINE f == [i \in 0..0 |-> 0]
    <3>1. Sizes(f, b, 0)
      BY DEF Sizes
    <3> QED
      BY <2>2, <2>3, <3>1
  <2>4. CASE m # 0
    <3>1. m - 1 \in Nat /\ m - 1 \notin Bad
      BY <2>1, <2>2, <2>4
    <3>2. PICK f : Sizes(f, b, m - 1)
      BY <3>1
    <3> DEFINE g == [i \in 0 .. m |->
                        IF i = m THEN f[m - 1] + InChannel0(b, m - 1) ELSE f[i]]
    <3>3. \A i \in 0 .. m - 1 :
             f[i] = IF i = 0 THEN 0 ELSE f[i - 1] + InChannel0(b, i - 1)
      BY <3>2 DEF Sizes
    <3>4. ASSUME NEW i \in 0 .. m
          PROVE  g[i] = IF i = 0 THEN 0 ELSE g[i - 1] + InChannel0(b, i - 1)
      <4>1. CASE i = 0
        <5>1. 0 \in 0 .. m - 1 /\ 0 # m /\ 0 \in 0 .. m
          BY <2>2, <2>4
        <5> QED
          BY <3>3, <4>1, <5>1
      <4>2. CASE i # 0
        <5>1. i - 1 \in 0 .. m - 1 /\ i - 1 \in 0 .. m /\ i - 1 # m
          BY <2>2, <4>2
        <5>2. g[i - 1] = f[i - 1]
          BY <5>1
        <5>3. CASE i = m
          BY <4>2, <5>2, <5>3
        <5>4. CASE i # m
          <6>1. i \in 0 .. m - 1
            BY <2>2, <5>4
          <6> QED
            BY <3>3, <4>2, <5>2, <5>4, <6>1
        <5> QED
          BY <5>3, <5>4
      <4> QED
        BY <4>1, <4>2
    <3>5. g = [i \in 0 .. m |-> g[i]]
      OBVIOUS
    <3> HIDE DEF g
    <3>6. Sizes(g, b, m)
      BY <3>4, <3>5 DEF Sizes
    <3> QED
      BY <2>2, <3>6
  <2> QED
    BY <2>3, <2>4
<1> QED
  BY <1>1

(* So the size of the buffer is the last value of such a function.         *)
LEMMA SizeIsSum ==
    ASSUME SimulationAssumption, NEW b
    PROVE  \E f : /\ SizeOf(b) = f[NumRequestors]
                  /\ f[0] = 0
                  /\ \A i \in 1 .. NumRequestors :
                         f[i] = f[i - 1] + InChannel0(b, i - 1)
<1> DEFINE f == CHOOSE g : Sizes(g, b, NumRequestors)
<1>1. NumRequestors \in Nat
  BY DEF SimulationAssumption
<1>2. Sizes(f, b, NumRequestors)
  BY <1>1, SizesExist
<1>3. SizeOf(b) = f[NumRequestors]
  BY DEF SizeOf, Sizes
<1> HIDE DEF f
<1>4. \A i \in 0 .. NumRequestors :
         f[i] = IF i = 0 THEN 0 ELSE f[i - 1] + InChannel0(b, i - 1)
  BY <1>2 DEF Sizes
<1>5. f[0] = 0
  BY <1>1, <1>4
<1>6. ASSUME NEW i \in 1 .. NumRequestors
      PROVE  f[i] = f[i - 1] + InChannel0(b, i - 1)
  <2>1. i \in 0 .. NumRequestors /\ i # 0
    BY <1>1
  <2> QED
    BY <1>4, <2>1
<1> QED
  BY <1>3, <1>5, <1>6

(* The size of the buffer is a number; d more requests of r are d more in  *)
(* it if r is on channel 0, and none otherwise.                            *)
LEMMA SizeStep ==
    ASSUME SimulationAssumption, NEW b \in [Requestors -> Nat],
           NEW c \in [Requestors -> Nat], NEW r \in Requestors, NEW d \in Nat,
           c[r] = b[r] + d, \A i \in Requestors \ {r} : c[i] = b[i]
    PROVE  /\ SizeOf(b) \in Nat
           /\ SizeOf(c) = SizeOf(b) + (IF findChannelNumber(r) = 0 THEN d ELSE 0)
<1> DEFINE e == IF findChannelNumber(r) = 0 THEN d ELSE 0
           Late(i) == IF r < i THEN e ELSE 0
<1>0. /\ NumRequestors \in Nat /\ NumRequestors # 0 /\ r \in Nat
      /\ r < NumRequestors /\ e \in Int
      /\ \A i \in 1 .. NumRequestors : i - 1 \in Requestors
  BY DEF SimulationAssumption, Requestors
<1>1. PICK f : /\ SizeOf(b) = f[NumRequestors]
               /\ f[0] = 0
               /\ \A i \in 1 .. NumRequestors :
                      f[i] = f[i - 1] + InChannel0(b, i - 1)
  BY SizeIsSum
<1>2. PICK g : /\ SizeOf(c) = g[NumRequestors]
               /\ g[0] = 0
               /\ \A i \in 1 .. NumRequestors :
                      g[i] = g[i - 1] + InChannel0(c, i - 1)
  BY SizeIsSum
<1>3. ASSUME NEW i \in Requestors
      PROVE  /\ InChannel0(b, i) \in Nat
             /\ InChannel0(c, i) = InChannel0(b, i) + (IF i = r THEN e ELSE 0)
  <2>1. b[i] \in Nat /\ c[i] = IF i = r THEN b[i] + d ELSE b[i]
    OBVIOUS
  <2> QED
    BY <2>1 DEF InChannel0
<1> HIDE DEF e
<1> DEFINE Bad == {i \in 0 .. NumRequestors :
                      ~ (f[i] \in Nat /\ g[i] = f[i] + Late(i))}
<1>4. ASSUME Bad # {} PROVE FALSE
  <2>0. Bad \in SUBSET Nat
    BY <1>0
  <2>1. PICK m \in Bad : \A k \in Bad : m <= k
    BY <1>4, <2>0, LeastExists
  <2>2. m \in 0 .. NumRequestors /\ ~ (f[m] \in Nat /\ g[m] = f[m] + Late(m))
    OBVIOUS
  <2>3. m # 0
    BY <1>0, <1>1, <1>2, <2>2
  <2>4. m \in 1 .. NumRequestors /\ m - 1 \in 0 .. NumRequestors /\ m - 1 \notin Bad
    BY <1>0, <2>1, <2>2, <2>3
  <2>5. f[m - 1] \in Nat /\ g[m - 1] = f[m - 1] + Late(m - 1)
    BY <2>4
  <2>6. /\ f[m] = f[m - 1] + InChannel0(b, m - 1)
        /\ g[m] = g[m - 1] + InChannel0(c, m - 1)
    BY <1>1, <1>2, <2>4
  <2>7. /\ m - 1 \in Requestors
        /\ InChannel0(b, m - 1) \in Nat
        /\ InChannel0(c, m - 1) = InChannel0(b, m - 1)
                                      + (IF m - 1 = r THEN e ELSE 0)
    BY <1>0, <1>3, <2>4
  <2>8. Late(m) = Late(m - 1) + (IF m - 1 = r THEN e ELSE 0)
    BY <1>0, <2>4
  <2>9. Late(m - 1) \in Int /\ (IF m - 1 = r THEN e ELSE 0) \in Int
    BY <1>0
  <2> HIDE DEF Late
  <2> QED
    BY <2>2, <2>5, <2>6, <2>7, <2>8, <2>9
<1>5. NumRequestors \in 0 .. NumRequestors /\ NumRequestors \notin Bad
  BY <1>0, <1>4
<1>6. f[NumRequestors] \in Nat /\ g[NumRequestors] = f[NumRequestors] + Late(NumRequestors)
  BY <1>5
<1> QED
  BY <1>0, <1>1, <1>2, <1>6 DEF e

-----------------------------------------------------------------------------
(* The books.                                                              *)

(* One more line is one more request if it holds one.                      *)
LEMMA NextLine ==
    ASSUME NEW r, NEW n \in Nat
    PROVE  /\ Cardinality(RequestLines(r, n)) \in Nat
           /\ Cardinality(RequestLines(r, n + 1)) =
                  Cardinality(RequestLines(r, n))
                + (IF Traces[r][n + 1] = "REQ" THEN 1 ELSE 0)
<1>1. IsFiniteSet(1 .. n)
  BY FS_Interval
<1>2. IsFiniteSet(RequestLines(r, n)) /\ n + 1 \notin RequestLines(r, n)
  BY <1>1, FS_Subset DEF RequestLines
<1>3. Cardinality(RequestLines(r, n)) \in Nat
  BY <1>2, FS_CardinalityType
<1>4. CASE Traces[r][n + 1] = "REQ"
  <2>1. RequestLines(r, n + 1) = RequestLines(r, n) \cup {n + 1}
    BY <1>4 DEF RequestLines
  <2> QED
    BY <1>2, <1>3, <1>4, <2>1, FS_AddElement
<1>5. CASE Traces[r][n + 1] # "REQ"
  <2>1. RequestLines(r, n + 1) = RequestLines(r, n)
    BY <1>5 DEF RequestLines
  <2> QED
    BY <1>3, <1>5, <2>1
<1> QED
  BY <1>4, <1>5

(* At first no line is read and nothing is sent.                           *)
LEMMA BooksInit == SimulationAssumption /\ Init => BooksInv
<1> SUFFICES ASSUME SimulationAssumption, Init PROVE BooksInv
  OBVIOUS
<1>1. TypeOK
  BY DEF Init, TypeOK, SimulationAssumption, Requestors
<1>2. ASSUME NEW r \in Requestors PROVE Books(r)
  <2>1. Traces[r] \in Seq({"REQ", "EMPTY"}) /\ Len(Traces[r]) \in Nat
    BY DEF SimulationAssumption
  <2>2. RequestLines(r, 0) = {}
    BY DEF RequestLines
  <2>3. Cardinality(RequestLines(r, 0)) = 0
    BY <2>2, FS_EmptySet
  <2> QED
    BY <2>1, <2>3 DEF Init, Books
<1> QED
  BY <1>1, <1>2 DEF BooksInv

(* What one requestor's update does to its own entries.                    *)
Updated(r, p, sent, lineN, pendingN, coreN, bufferedN, doneN, requestN) ==
    /\ p \in Nat \cup {None} /\ p \in Read(r)
    /\ sent = IF p # None /\ MaySend(r, p) THEN 1 ELSE 0
    /\ lineN = IF MayRead(r) /\ ~eof(r) THEN line[r] + 1 ELSE line[r]
    /\ pendingN = IF sent = 1 THEN None ELSE IF p > 0 THEN p - 1 ELSE p
    /\ coreN = corePending[r] + sent
    /\ bufferedN = buffered[r] + sent
    /\ requestN = requestRequest[r] + sent
    /\ doneN = Finished(r, coreN)

(* update keeps the types, and leaves the books of the others alone.       *)
LEMMA UpdateEntries ==
    ASSUME SimulationAssumption, TypeOK, NEW p \in None .. MaxDelay, update(p)
    PROVE  /\ TypeOK'
           /\ \A r \in Requestors \ {turn} :
                  /\ line'[r] = line[r] /\ pendingRequest'[r] = pendingRequest[r]
                  /\ corePending'[r] = corePending[r]
                  /\ buffered'[r] = buffered[r] /\ sim_done'[r] = sim_done[r]
                  /\ requestRequest'[r] = requestRequest[r]
           /\ completeRequest' = completeRequest
           /\ \E sent \in Bit :
                 /\ Updated(turn, p, sent, line'[turn], pendingRequest'[turn],
                            corePending'[turn], buffered'[turn],
                            sim_done'[turn], requestRequest'[turn])
                 /\ corePending' = [corePending EXCEPT ![turn] = @ + sent]
                 /\ buffered' = [buffered EXCEPT ![turn] = @ + sent]
<1> DEFINE sent == IF p # None /\ MaySend(turn, p) THEN 1 ELSE 0
<1>1. turn \in Requestors /\ sent \in Bit /\ p \in Nat \cup {None}
  BY DEF TypeOK, Bit, SimulationAssumption, None
<1>2. /\ p \in Read(turn)
      /\ line' = [line EXCEPT ![turn] =
                     IF MayRead(turn) /\ ~eof(turn) THEN @ + 1 ELSE @]
      /\ pendingRequest' = [pendingRequest EXCEPT ![turn] =
             IF sent = 1 THEN None ELSE IF p > 0 THEN p - 1 ELSE p]
      /\ corePending' = [corePending EXCEPT ![turn] = @ + sent]
      /\ buffered' = [buffered EXCEPT ![turn] = @ + sent]
      /\ requestRequest' = [requestRequest EXCEPT ![turn] = @ + sent]
      /\ sim_done' = [sim_done EXCEPT ![turn] = Finished(turn, corePending'[turn])]
      /\ turn' = (turn + 1) % NumRequestors
      /\ completeRequest' = completeRequest
  BY DEF update
<1>3. turn' \in Requestors
  BY <1>1, <1>2 DEF SimulationAssumption, Requestors
<1>4. (IF sent = 1 THEN None ELSE IF p > 0 THEN p - 1 ELSE p) \in Nat \cup {None}
  BY <1>1 DEF None
<1>5. Finished(turn, corePending'[turn]) \in BOOLEAN
  BY DEF Finished
<1> HIDE DEF sent
<1>6. TypeOK'
  BY <1>1, <1>2, <1>3, <1>4, <1>5 DEF TypeOK, Bit
<1>7. \A r \in Requestors \ {turn} :
         /\ line'[r] = line[r] /\ pendingRequest'[r] = pendingRequest[r]
         /\ corePending'[r] = corePending[r]
         /\ buffered'[r] = buffered[r] /\ sim_done'[r] = sim_done[r]
         /\ requestRequest'[r] = requestRequest[r]
  BY <1>1, <1>2 DEF TypeOK
<1>8. Updated(turn, p, sent, line'[turn], pendingRequest'[turn],
              corePending'[turn], buffered'[turn], sim_done'[turn],
              requestRequest'[turn])
  <2>1. sent = IF p # None /\ MaySend(turn, p) THEN 1 ELSE 0
    BY DEF sent
  <2> QED
    BY <1>1, <1>2, <2>1 DEF TypeOK, Updated
<1> QED
  BY <1>1, <1>2, <1>6, <1>7, <1>8

(* A turn of a requestor keeps its books: a line that is read is sent or   *)
(* held back, and sim_done is set only with nothing left.                  *)
LEMMA UpdateBooks ==
    ASSUME SimulationAssumption, TypeOK, NEW r \in Requestors, Books(r),
           NEW p, NEW sent \in Bit, NEW lineN, NEW pendingN, NEW coreN,
           NEW bufferedN, NEW doneN, NEW requestN,
           Updated(r, p, sent, lineN, pendingN, coreN, bufferedN, doneN, requestN)
    PROVE  /\ lineN <= Len(Traces[r])
           /\ Cardinality(RequestLines(r, lineN)) =
                  requestN + (IF pendingN = None THEN 0 ELSE 1)
           /\ requestN = completeRequest[r] + coreN
           /\ bufferedN <= coreN
           /\ doneN => /\ lineN = Len(Traces[r])
                       /\ pendingN = None
                       /\ coreN = 0
<1>1. /\ line[r] \in Nat /\ pendingRequest[r] \in Nat \cup {None}
      /\ corePending[r] \in Nat /\ buffered[r] \in Nat
      /\ requestRequest[r] \in Nat /\ completeRequest[r] \in Nat
  BY DEF TypeOK
<1>2. Traces[r] \in Seq({"REQ", "EMPTY"}) /\ Len(Traces[r]) \in Nat
  BY DEF SimulationAssumption
<1> DEFINE count == Cardinality(RequestLines(r, line[r]))
           waiting == IF pendingRequest[r] = None THEN 0 ELSE 1
           held1 == IF p = None THEN 0 ELSE 1
<1>3. /\ count \in Nat /\ count = requestRequest[r] + waiting
      /\ line[r] <= Len(Traces[r])
  BY <1>1, NextLine DEF Books
<1>4. /\ p \in Nat \cup {None} /\ (sent = 1 => p # None)
      /\ pendingN = IF sent = 1 THEN None ELSE IF p > 0 THEN p - 1 ELSE p
      /\ coreN = corePending[r] + sent /\ bufferedN = buffered[r] + sent
      /\ requestN = requestRequest[r] + sent
      /\ doneN = Finished(r, coreN)
  BY DEF Updated
<1>5. (IF pendingN = None THEN 0 ELSE 1) = held1 - sent
  BY <1>4 DEF None, Bit
<1>6. lineN <= Len(Traces[r]) /\ Cardinality(RequestLines(r, lineN)) =
                                     requestRequest[r] + held1
  <2>1. CASE MayRead(r) /\ ~eof(r)
    <3>1. lineN = line[r] + 1 /\ pendingRequest[r] = None
      BY <2>1 DEF Updated, MayRead
    <3>2. p \in IF Traces[r][line[r] + 1] = "REQ" THEN Delay ELSE {None}
      BY <2>1 DEF Updated, Read
    <3>3. held1 = IF Traces[r][line[r] + 1] = "REQ" THEN 1 ELSE 0
      BY <3>2 DEF Delay, None
    <3>4. Cardinality(RequestLines(r, lineN)) =
             count + (IF Traces[r][line[r] + 1] = "REQ" THEN 1 ELSE 0)
      BY <1>1, <3>1, NextLine
    <3>5. lineN <= Len(Traces[r])
      BY <1>1, <1>2, <1>3, <2>1, <3>1 DEF eof
    <3> HIDE DEF count
    <3> QED
      BY <1>1, <1>3, <3>1, <3>3, <3>4, <3>5
  <2>2. CASE ~ (MayRead(r) /\ ~eof(r))
    <3>1. lineN = line[r] /\ p = pendingRequest[r]
      BY <2>2 DEF Updated, Read
    <3> QED
      BY <1>3, <3>1
  <2> QED
    BY <2>1, <2>2
<1>7. ASSUME doneN PROVE lineN = Len(Traces[r]) /\ pendingN = None /\ coreN = 0
  <2>1. MayRead(r) /\ eof(r) /\ coreN = 0
    BY <1>4, <1>7 DEF Finished
  <2>2. lineN = line[r] /\ p = pendingRequest[r]
    BY <2>1 DEF Updated, Read
  <2>3. line[r] = Len(Traces[r]) /\ pendingRequest[r] = None
    BY <2>1 DEF eof, MayRead
  <2> QED
    BY <1>4, <2>1, <2>2, <2>3 DEF None
<1> HIDE DEF count, held1
<1>8. held1 \in Nat /\ sent \in Nat
  BY DEF held1, Bit
<1>9. Cardinality(RequestLines(r, lineN)) =
          requestN + (IF pendingN = None THEN 0 ELSE 1)
  BY <1>1, <1>4, <1>5, <1>6, <1>8
<1>10. requestN = completeRequest[r] + coreN /\ bufferedN <= coreN
  <2>1. /\ requestRequest[r] = completeRequest[r] + corePending[r]
        /\ buffered[r] <= corePending[r]
    BY DEF Books
  <2> QED
    BY <1>1, <1>4, <1>8, <2>1
<1> QED
  BY <1>6, <1>7, <1>9, <1>10

(* Every step of the loop, of the requestors and of the channels keeps the *)
(* books.                                                                  *)
LEMMA BooksStep ==
    ASSUME SimulationAssumption
    PROVE  BooksInv /\ [Next]_vars => BooksInv'
<1> SUFFICES ASSUME BooksInv, [Next]_vars PROVE BooksInv'
  OBVIOUS
<1>0. TypeOK /\ \A r \in Requestors : Books(r)
  BY DEF BooksInv
<1>1. CASE \/ Loop \/ EndCycle \/ Exit \/ UNCHANGED vars
  <2>1. UNCHANGED <<turn, requestorVars>>
    BY <1>1 DEF Loop, EndCycle, Exit, vars
  <2> QED
    BY <1>0, <2>1 DEF BooksInv, TypeOK, Books, requestorVars
<1>2. ASSUME NEW p \in None .. MaxDelay, update(p) PROVE BooksInv'
  <2>1. TypeOK' /\ turn \in Requestors
    BY <1>0, <1>2, UpdateEntries DEF TypeOK
  <2>2. ASSUME NEW r \in Requestors, r # turn PROVE Books(r)'
    BY <1>0, <1>2, <2>2, UpdateEntries DEF Books
  <2>3. PICK sent \in Bit :
           Updated(turn, p, sent, line'[turn], pendingRequest'[turn],
                   corePending'[turn], buffered'[turn], sim_done'[turn],
                   requestRequest'[turn])
    BY <1>0, <1>2, UpdateEntries
  <2>4. completeRequest' = completeRequest
    BY <1>2 DEF update
  <2>5. ASSUME NEW r \in Requestors, r = turn PROVE Books(r)'
    <3>1. Updated(r, p, sent, line'[r], pendingRequest'[r], corePending'[r],
                  buffered'[r], sim_done'[r], requestRequest'[r])
      BY <2>3, <2>5
    <3>2. Books(r)
      BY <1>0
    <3>3. /\ line'[r] <= Len(Traces[r])
          /\ Cardinality(RequestLines(r, line'[r])) =
                 requestRequest'[r] + (IF pendingRequest'[r] = None THEN 0 ELSE 1)
          /\ requestRequest'[r] = completeRequest[r] + corePending'[r]
          /\ buffered'[r] <= corePending'[r]
          /\ sim_done'[r] => /\ line'[r] = Len(Traces[r])
                             /\ pendingRequest'[r] = None
                             /\ corePending'[r] = 0
      BY <1>0, <3>1, <3>2, UpdateBooks
    <3>4. RequestLines(r, line[r])' = RequestLines(r, line'[r])
      BY DEF RequestLines
    <3> QED
      BY <2>4, <3>3, <3>4 DEF Books
  <2> QED
    BY <2>1, <2>2, <2>5 DEF BooksInv
<1>3. ASSUME NEW s \in Requestors, Schedule(s) PROVE BooksInv'
  <2>1. /\ buffered[s] > 0 /\ buffered' = [buffered EXCEPT ![s] = @ - 1]
        /\ UNCHANGED <<turn, line, pendingRequest, corePending, sim_done,
                       requestRequest, completeRequest>>
    BY <1>3 DEF Schedule
  <2>2. TypeOK'
    BY <1>0, <2>1 DEF TypeOK
  <2>3. ASSUME NEW r \in Requestors PROVE Books(r)'
    <3>1. buffered[r] \in Nat /\ corePending[r] \in Nat
      BY <1>0 DEF TypeOK
    <3>2. buffered'[r] <= corePending[r]
      BY <1>0, <2>1, <3>1 DEF TypeOK, Books
    <3> QED
      BY <1>0, <2>1, <3>2 DEF Books
  <2> QED
    BY <2>2, <2>3 DEF BooksInv
<1>4. ASSUME NEW s \in Requestors, returnData(s) PROVE BooksInv'
  <2>1. /\ corePending[s] > buffered[s]
        /\ corePending' = [corePending EXCEPT ![s] = @ - 1]
        /\ completeRequest' = [completeRequest EXCEPT ![s] = @ + 1]
        /\ UNCHANGED <<turn, line, pendingRequest, buffered, sim_done,
                       requestRequest>>
    BY <1>4 DEF returnData
  <2>2. \A r \in Requestors : /\ buffered[r] \in Nat /\ corePending[r] \in Nat
                              /\ completeRequest[r] \in Nat
                              /\ requestRequest[r] \in Nat
    BY <1>0 DEF TypeOK
  <2>3. TypeOK'
    BY <1>0, <2>1, <2>2 DEF TypeOK
  <2>4. ASSUME NEW r \in Requestors PROVE Books(r)'
    <3>1. CASE r # s
      <4>1. corePending'[r] = corePending[r] /\ completeRequest'[r] = completeRequest[r]
        BY <1>0, <2>1, <3>1 DEF TypeOK
      <4> QED
        BY <1>0, <2>1, <4>1 DEF Books
    <3>2. CASE r = s
      <4>1. /\ corePending'[r] = corePending[r] - 1
            /\ completeRequest'[r] = completeRequest[r] + 1
        BY <1>0, <2>1, <3>2 DEF TypeOK
      <4>2. ~sim_done[r]
        BY <1>0, <2>1, <2>2, <3>2 DEF Books
      <4>3. buffered[r] <= corePending'[r]
        BY <2>1, <2>2, <3>2, <4>1
      <4>4. requestRequest[r] = completeRequest'[r] + corePending'[r]
        <5>1. requestRequest[r] = completeRequest[r] + corePending[r]
          BY <1>0 DEF Books
        <5> QED
          BY <2>2, <4>1, <5>1
      <4> QED
        BY <1>0, <2>1, <4>2, <4>3, <4>4 DEF Books
    <3> QED
      BY <3>1, <3>2
  <2> QED
    BY <2>3, <2>4 DEF BooksInv
<1> QED
  BY <1>1, <1>2, <1>3, <1>4 DEF Next

(* What the books say of a requestor that has ended.                       *)
LEMMA BooksEnd ==
    ASSUME SimulationAssumption
    PROVE  BooksInv => EndedIsComplete
<1> SUFFICES ASSUME BooksInv, NEW r \in Requestors, sim_done[r]
             PROVE  requestRequest[r] = Lines(r) /\ completeRequest[r] = Lines(r)
  BY DEF EndedIsComplete
<1>1. Traces[r] \in Seq({"REQ", "EMPTY"}) /\ DOMAIN Traces[r] = 1 .. Len(Traces[r])
  BY DEF SimulationAssumption
<1>2. Lines(r) = Cardinality(RequestLines(r, Len(Traces[r])))
  BY <1>1 DEF Lines, RequestLines
<1>3. requestRequest[r] \in Nat /\ completeRequest[r] \in Nat
  BY DEF BooksInv, TypeOK
<1> QED
  BY <1>2, <1>3 DEF BooksInv, Books

(* For every number of requestors and every trace: a requestor that has    *)
(* ended (sim_end) has sent all of its trace and has got every answer.     *)
THEOREM EndCorrect ==
    ASSUME SimulationAssumption
    PROVE  Spec => []EndedIsComplete
  BY BooksInit, BooksStep, BooksEnd, PTL DEF Spec

(* A step of update adds at most one request, after comparing with the     *)
(* limits; the others add none.                                            *)
LEMMA LimitStep ==
    ASSUME SimulationAssumption
    PROVE  BooksInv /\ BuffersBounded /\ [Next]_vars => BuffersBounded'
<1> SUFFICES ASSUME BooksInv, BuffersBounded, [Next]_vars PROVE BuffersBounded'
  OBVIOUS
<1>0. /\ TypeOK /\ TypeOK' /\ RequestBufferSize \in Nat
      /\ buffered \in [Requestors -> Nat] /\ buffered' \in [Requestors -> Nat]
      /\ \A r \in Requestors : corePending[r] \in Nat
  BY BooksStep DEF BooksInv, TypeOK, SimulationAssumption
<1>a. generalBufferSize = SizeOf(buffered) /\ generalBufferSize' = SizeOf(buffered')
  BY DEF generalBufferSize, SizeOf, InChannel0, findChannelNumber
<1>1. CASE \/ Loop \/ EndCycle \/ Exit \/ UNCHANGED vars
  <2>1. UNCHANGED <<corePending, buffered>>
    BY <1>1 DEF Loop, EndCycle, Exit, vars, requestorVars
  <2> QED
    BY <1>a, <2>1 DEF BuffersBounded
<1>2. ASSUME NEW p \in None .. MaxDelay, update(p) PROVE BuffersBounded'
  <2>1. PICK sent \in Bit :
           /\ Updated(turn, p, sent, line'[turn], pendingRequest'[turn],
                      corePending'[turn], buffered'[turn], sim_done'[turn],
                      requestRequest'[turn])
           /\ corePending' = [corePending EXCEPT ![turn] = @ + sent]
           /\ buffered' = [buffered EXCEPT ![turn] = @ + sent]
    BY <1>0, <1>2, UpdateEntries
  <2>2. sent = 1 => /\ SizeOf(buffered) <= RequestBufferSize
                    /\ corePending[turn] <= RequestBufferSize
    BY <1>a, <2>1 DEF Updated, MaySend
  <2>3. /\ SizeOf(buffered) \in Nat
        /\ SizeOf(buffered') = SizeOf(buffered)
               + (IF findChannelNumber(turn) = 0 THEN sent ELSE 0)
    <3>1. turn \in Requestors /\ sent \in Nat
      BY <1>0 DEF TypeOK, Bit
    <3>2. /\ buffered'[turn] = buffered[turn] + sent
          /\ \A i \in Requestors \ {turn} : buffered'[i] = buffered[i]
      BY <1>0, <2>1, <3>1
    <3> QED
      BY <1>0, <3>1, <3>2, SizeStep
  <2>4. SizeOf(buffered') <= RequestBufferSize + 1
    BY <1>0, <1>a, <2>2, <2>3 DEF BuffersBounded, Bit
  <2>5. ASSUME NEW r \in Requestors
        PROVE  corePending'[r] <= RequestBufferSize + 1
    <3>1. corePending'[r] = IF r = turn THEN corePending[r] + sent ELSE corePending[r]
      BY <1>0, <2>1 DEF TypeOK
    <3> QED
      BY <1>0, <2>2, <3>1 DEF BuffersBounded, Bit
  <2> QED
    BY <1>a, <2>4, <2>5 DEF BuffersBounded
<1>3. ASSUME NEW s \in Requestors, Schedule(s) PROVE BuffersBounded'
  <2>1. corePending' = corePending /\ buffered' = [buffered EXCEPT ![s] = @ - 1]
    BY <1>3 DEF Schedule
  <2>2. /\ buffered[s] = buffered'[s] + 1
        /\ \A i \in Requestors \ {s} : buffered[i] = buffered'[i]
    BY <1>0, <2>1
  <2>3. /\ SizeOf(buffered') \in Nat
        /\ SizeOf(buffered) = SizeOf(buffered')
               + (IF findChannelNumber(s) = 0 THEN 1 ELSE 0)
    BY <1>0, <2>2, SizeStep
  <2>4. SizeOf(buffered') <= RequestBufferSize + 1
    BY <1>0, <1>a, <2>3 DEF BuffersBounded
  <2> QED
    BY <1>a, <2>1, <2>4 DEF BuffersBounded
<1>4. ASSUME NEW s \in Requestors, returnData(s) PROVE BuffersBounded'
  <2>1. buffered' = buffered /\ corePending' = [corePending EXCEPT ![s] = @ - 1]
    BY <1>4 DEF returnData
  <2>2. ASSUME NEW r \in Requestors
        PROVE  corePending'[r] <= RequestBufferSize + 1
    <3>1. corePending'[r] = IF r = s THEN corePending[r] - 1 ELSE corePending[r]
      BY <1>0, <2>1 DEF TypeOK
    <3> QED
      BY <1>0, <3>1 DEF BuffersBounded
  <2> QED
    BY <1>a, <2>1, <2>2 DEF BuffersBounded
<1> QED
  BY <1>1, <1>2, <1>3, <1>4 DEF Next

(* An empty buffer has size 0.                                             *)
LEMMA SizeOfNone ==
    ASSUME SimulationAssumption
    PROVE  SizeOf([r \in Requestors |-> 0]) = 0
<1> DEFINE b == [r \in Requestors |-> 0]
<1>0. NumRequestors \in Nat /\ \A i \in 1 .. NumRequestors : i - 1 \in Requestors
  BY DEF SimulationAssumption, Requestors
<1>1. PICK f : /\ SizeOf(b) = f[NumRequestors]
               /\ f[0] = 0
               /\ \A i \in 1 .. NumRequestors :
                      f[i] = f[i - 1] + InChannel0(b, i - 1)
  BY SizeIsSum
<1>2. \A i \in Requestors : InChannel0(b, i) = 0
  BY DEF InChannel0
<1> HIDE DEF b
<1> DEFINE Bad == {i \in 0 .. NumRequestors : f[i] # 0}
<1>3. ASSUME Bad # {} PROVE FALSE
  <2>0. Bad \in SUBSET Nat
    BY <1>0
  <2>1. PICK m \in Bad : \A k \in Bad : m <= k
    BY <1>3, <2>0, LeastExists
  <2>2. m \in 0 .. NumRequestors /\ f[m] # 0 /\ m # 0
    BY <1>1
  <2>3. m \in 1 .. NumRequestors /\ m - 1 \in 0 .. NumRequestors /\ m - 1 \notin Bad
    BY <1>0, <2>1, <2>2
  <2>4. f[m - 1] = 0 /\ f[m] = f[m - 1] + InChannel0(b, m - 1)
    BY <1>1, <2>3
  <2> QED
    BY <1>0, <1>2, <2>2, <2>3, <2>4
<1>4. NumRequestors \in 0 .. NumRequestors
  BY <1>0
<1> QED
  BY <1>1, <1>3, <1>4 DEF b

(* At first the buffers are empty.                                         *)
LEMMA LimitInit ==
    ASSUME SimulationAssumption
    PROVE  Init => BuffersBounded
<1> SUFFICES ASSUME Init PROVE BuffersBounded
  OBVIOUS
<1>1. RequestBufferSize \in Nat
  BY DEF SimulationAssumption
<1>2. generalBufferSize = 0
  BY SizeOfNone DEF Init, generalBufferSize
<1> QED
  BY <1>1, <1>2 DEF Init, BuffersBounded

(* The limits compared with <= hold up to one for every number of          *)
(* requestors and of channels.                                             *)
THEOREM LimitCorrect ==
    ASSUME SimulationAssumption
    PROVE  Spec => []BuffersBounded
  BY BooksInit, BooksStep, LimitInit, LimitStep, PTL DEF Spec

=============================================================================
