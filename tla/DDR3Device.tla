----------------------------- MODULE DDR3Device -----------------------------
(***************************************************************************)
(* The DDR3 device on its own, driven by a controller that sends any       *)
(* command whose check passes, at most one a cycle: what the device's      *)
(* check guarantees by itself, whatever the controller adds.               *)
(***************************************************************************)
EXTENDS DDR3

CONSTANT Issued        (* the sets of command types that a controller      *)
                       (* sends: a generator has its own                   *)

IssuedAssumption == Issued \subseteq SUBSET Types

VARIABLES
    issued, (* the types that this controller sends                        *)
    busy,   (* has this cycle's command been sent?                         *)
    bus,    (* history: the cycles, counted from now, at which the data    *)
            (* bus carries a burst                                         *)
    acts    (* history: the ages of the last five activations, of any      *)
            (* type, latest first, at most nFAW                            *)

vars == <<rankNext, bankNext, prev, issued, busy, bus, acts>>

(* The cycles in which the data of a CAS issued now are on the bus: tRL    *)
(* (nCL) or tWL (nCWL) after the command, for tBus (nBL).                  *)
Latency(t) == IF t \in Reads THEN nCL ELSE nCWL
Burst(t) == Latency(t) .. (Latency(t) + nBL - 1)

(* The activations after a command of type t.                              *)
Recent(t) == IF t \in Acts
                 THEN [i \in 1..5 |-> IF i = 1 THEN 0 ELSE acts[i - 1]]
                 ELSE acts

Init == /\ DeviceInit
        /\ issued \in Issued
        /\ busy = FALSE
        /\ bus = {}
        /\ acts = [i \in 1..5 |-> nFAW]

Mutant_receiveFromBus(t, b) ==
    /\ ~busy
    /\ command_check(t, b)
    /\ rankNext' = [u \in Types |-> Later(rankNext[u], RankTiming(t, u))]
    /\ bankNext' = [bankNext EXCEPT ![b] =
                        [u \in Types |-> Later(@[u], BankTiming(t, u))]]
    /\ prev' = prev
    /\ busy' = TRUE
    /\ bus' = bus \cup (IF t \in Cas THEN Burst(t) ELSE {})
    /\ acts' = Recent(t)
    /\ UNCHANGED issued

(* isIssuable and receiveFromBus for a command of type t on bank b.        *)
receiveFromBus(t, b) ==
    /\ ~busy
    /\ command_check(t, b)
    /\ DeviceUpdate(t, b)
    /\ busy' = TRUE
    /\ bus' = bus \cup (IF t \in Cas THEN Burst(t) ELSE {})
    /\ acts' = Recent(t)
    /\ UNCHANGED issued

(* The end of the cycle.                                                   *)
Tick ==
    /\ DeviceTick
    /\ busy' = FALSE
    /\ bus' = {c - 1 : c \in bus \ {0}}
    /\ acts' = [i \in 1..5 |-> Older(acts[i])]
    /\ UNCHANGED issued

Next == Tick \/ \E t \in issued, b \in Banks : receiveFromBus(t, b)

Spec == Init /\ [][Next]_vars

-----------------------------------------------------------------------------
(* The rank is never overdriven: at most four activations, of whatever     *)
(* type and bank, are younger than nFAW, as DDR3.cpp's constraints of      *)
(* distance 4 are there to ensure.                                         *)
FourActivateWindow == acts[5] = nFAW

(* Two bursts never meet on the data bus, in every mix of reads and writes *)
(* that the checks of the device let through.                              *)
NoBurstMeets == \A t \in issued \cap Cas, b \in Banks :
                    receiveFromBus(t, b) => Burst(t) \cap bus = {}
BusConflictFree == [][NoBurstMeets]_vars

(* The device's tables and the histories keep their shape.                 *)
TypeOK ==
    /\ DeviceTypeOK
    /\ issued \in Issued
    /\ busy \in BOOLEAN
    /\ bus \subseteq 0 .. (nCL + nBL - 1)
    /\ acts \in [1..5 -> 0..nFAW]

-----------------------------------------------------------------------------
(* The device's tables are sound for every timing of a device.             *)

(* What is still on the bus is gone when the next CAS the rank lets        *)
(* through starts its burst.                                               *)
BusClears == \A c \in bus, t \in Cas : c < rankNext[t] + Latency(t)

LEMMA TypeInit == ASSUME IssuedAssumption, Init PROVE TypeOK
<1>1. DeviceTypeOK
  <2>1. <<nFAW, nFAW, nFAW>> \in (0..nFAW) \X (0..nFAW) \X (0..nFAW)
    BY EntriesAreNat
  <2> QED
    BY <2>1 DEF Init, DeviceInit, DeviceTypeOK
<1>2. acts \in [1..5 -> 0..nFAW]
  BY EntriesAreNat DEF Init
<1> QED
  BY <1>1, <1>2 DEF Init, TypeOK

LEMMA TypeCommand ==
    ASSUME IssuedAssumption, TypeOK,
           NEW t \in issued, NEW b \in Banks, receiveFromBus(t, b)
    PROVE  TypeOK'
<1>1. t \in Types
  BY DEF IssuedAssumption, TypeOK
<1>2. DeviceTypeOK'
  BY <1>1, DeviceUpdateType DEF receiveFromBus, TypeOK
<1>3. bus' \subseteq 0 .. (nCL + nBL - 1)
  BY EntriesAreNat, TimingAssumption DEF receiveFromBus, TypeOK, Burst, Latency
<1>4. acts' \in [1..5 -> 0..nFAW]
  BY EntriesAreNat DEF receiveFromBus, TypeOK, Recent
<1> QED
  BY <1>2, <1>3, <1>4 DEF receiveFromBus, TypeOK

LEMMA TypeTick == ASSUME TypeOK, Tick PROVE TypeOK'
<1>1. DeviceTypeOK'
  BY DeviceTickType DEF Tick, TypeOK
<1>2. bus' \subseteq 0 .. (nCL + nBL - 1)
  BY EntriesAreNat, TimingAssumption DEF Tick, TypeOK
<1>3. acts' \in [1..5 -> 0..nFAW]
  BY EntriesAreNat DEF Tick, TypeOK, Older
<1> QED
  BY <1>1, <1>2, <1>3 DEF Tick, TypeOK

(* The cycle of a command: the rank holds back every CAS until its burst   *)
(* would start after the one just begun.                                   *)
LEMMA BusCommand ==
    ASSUME IssuedAssumption, TypeOK, BusClears,
           NEW t \in issued, NEW b \in Banks, receiveFromBus(t, b)
    PROVE  BusClears'
<1> SUFFICES ASSUME NEW c \in bus', NEW u \in Cas
             PROVE  c < rankNext'[u] + Latency(u)
  BY DEF BusClears
<1>1. /\ t \in Types /\ u \in Types
      /\ rankNext[u] \in Nat /\ Latency(u) \in Nat /\ c \in Int
  BY EntriesAreNat DEF IssuedAssumption, TypeOK, DeviceTypeOK, Types, Latency,
                       receiveFromBus, Burst
<1>2. FourActivateTargets(t) \cap Cas = {}
  BY DEF FourActivateTargets, Cas, Reads, Writes, RoundActs
<1>3. rankNext'[u] = Later(rankNext[u], RankTiming(t, u))
  BY <1>1, <1>2 DEF receiveFromBus, DeviceUpdate, RankConstraint
<1>4. RankTiming(t, u) \in Nat
  BY <1>1, TimingsAreNat
<1>5. CASE c \in bus
  BY <1>1, <1>3, <1>4, <1>5 DEF BusClears, Later
<1>6. CASE c \notin bus
  <2>1. t \in Cas /\ c < Latency(t) + nBL
    BY <1>6, EntriesAreNat DEF receiveFromBus, Burst, Latency
  <2>2. Latency(t) + nBL <= RankTiming(t, u) + Latency(u)
    BY <2>1, EntriesAreNat, TimingAssumption
       DEF RankTiming, Latency, Cas, Reads, Writes, Acts, RoundActs
  <2>3. Latency(t) \in Nat
    BY EntriesAreNat DEF Latency
  <2> QED
    BY <1>1, <1>3, <1>4, <2>1, <2>2, <2>3, EntriesAreNat DEF Later
<1> QED
  BY <1>5, <1>6

LEMMA BusTick == ASSUME TypeOK, BusClears, Tick PROVE BusClears'
<1> SUFFICES ASSUME NEW c \in bus', NEW u \in Cas
             PROVE  c < rankNext'[u] + Latency(u)
  BY DEF BusClears
<1>1. PICK d \in bus \ {0} : c = d - 1
  BY DEF Tick
<1>2. d < rankNext[u] + Latency(u)
  BY DEF BusClears
<1>3. rankNext'[u] = Down(rankNext[u])
  BY DEF Tick, DeviceTick, Types
<1>4. rankNext[u] \in Nat /\ Latency(u) \in Nat /\ d \in Int
  BY EntriesAreNat DEF TypeOK, DeviceTypeOK, Types, Latency
<1> QED
  BY <1>1, <1>2, <1>3, <1>4 DEF Down

(* So it is at first, and no step of the device changes it.                *)
LEMMA BusStart == ASSUME IssuedAssumption PROVE Init => TypeOK /\ BusClears
  BY TypeInit DEF Init, BusClears

LEMMA BusStep ==
    ASSUME IssuedAssumption
    PROVE  TypeOK /\ BusClears /\ [Next]_vars => (TypeOK /\ BusClears)'
<1> SUFFICES ASSUME TypeOK, BusClears, [Next]_vars
             PROVE  (TypeOK /\ BusClears)'
  OBVIOUS
<1>1. CASE Tick
  BY <1>1, TypeTick, BusTick
<1>2. CASE \E t \in issued, b \in Banks : receiveFromBus(t, b)
  BY <1>2, TypeCommand, BusCommand
<1>3. CASE UNCHANGED vars
  BY <1>3 DEF vars, TypeOK, DeviceTypeOK, BusClears, Latency
<1> QED
  BY <1>1, <1>2, <1>3 DEF Next

(* A CAS that the rank lets through then finds the bus free.               *)
LEMMA BusMeets == ASSUME IssuedAssumption PROVE TypeOK /\ BusClears => NoBurstMeets
<1> SUFFICES ASSUME TypeOK, BusClears, NEW t \in issued \cap Cas,
                    NEW b \in Banks, receiveFromBus(t, b),
                    NEW c \in Burst(t) \cap bus
             PROVE  FALSE
  BY DEF NoBurstMeets
<1>1. rankNext[t] = 0
  BY DEF receiveFromBus, command_check
<1>2. c < Latency(t) /\ c >= Latency(t)
  BY <1>1, EntriesAreNat DEF BusClears, Burst, Latency
<1> QED
  BY <1>2, EntriesAreNat DEF Burst, Latency

(* For every timing that meets TimingAssumption, and whatever commands the *)
(* controller sends, two bursts never meet on the data bus: the rank's     *)
(* distances between CAS commands of DDR3.cpp are long enough.             *)
THEOREM BusCorrect == ASSUME IssuedAssumption PROVE Spec => BusConflictFree
  BY BusStart, BusStep, BusMeets, PTL DEF Spec, BusConflictFree

-----------------------------------------------------------------------------
(* A controller that activates with commands of one type only; Round alone *)
(* uses two (ACT_R and ACT_W).                                             *)
OneActivation == \A S \in Issued : \E a \in Acts : S \cap Acts \subseteq {a}

(* The device knows the last three activations, and the rank holds back    *)
(* the next until the fourth last is nFAW old.                             *)
Window == \A a \in issued \cap Acts :
              /\ \A i \in 1..3 : prev[a][i] = acts[i]
              /\ nFAW <= acts[4] + rankNext[a]

LEMMA WindowCommand ==
    ASSUME IssuedAssumption, OneActivation, TypeOK, Window, FourActivateWindow,
           NEW t \in issued, NEW b \in Banks, receiveFromBus(t, b)
    PROVE  Window' /\ FourActivateWindow'
<1>1. t \in Types
  BY DEF IssuedAssumption, TypeOK
<1>2. /\ issued' = issued
      /\ acts' = Recent(t)
      /\ DeviceUpdate(t, b)
      /\ rankNext[t] = 0
  BY DEF receiveFromBus, command_check
<1>3. CASE t \notin Acts
  <2>1. acts' = acts /\ prev' = prev
    BY <1>2, <1>3 DEF Recent, DeviceUpdate
  <2>2. \A a \in Acts : rankNext'[a] >= rankNext[a]
    <3> TAKE a \in Acts
    <3>1. rankNext'[a] = Later(rankNext[a], RankTiming(t, a))
      BY <1>2, <1>3 DEF DeviceUpdate, RankConstraint, FourActivateTargets,
                        Types, Acts, RoundActs
    <3>2. a \in Types
      BY DEF Types
    <3>3. RankTiming(t, a) \in Nat /\ rankNext[a] \in Nat
      BY <3>2, <1>1, TimingsAreNat DEF TypeOK, DeviceTypeOK
    <3> QED
      BY <3>1, <3>3 DEF Later
  <2>3. \A a \in Acts : rankNext[a] \in Nat /\ rankNext'[a] \in Nat
    BY <1>1, <1>2, DeviceUpdateType DEF TypeOK, DeviceTypeOK, Types
  <2> QED
    BY <1>2, <2>1, <2>2, <2>3, EntriesAreNat
       DEF Window, FourActivateWindow, TypeOK
<1>4. CASE t \in Acts
  <2>1. /\ acts'[1] = 0 /\ acts'[2] = acts[1] /\ acts'[3] = acts[2]
        /\ acts'[4] = acts[3] /\ acts'[5] = acts[4]
    BY <1>2, <1>4 DEF Recent
  <2>2. /\ prev[t][1] = acts[1] /\ prev[t][2] = acts[2] /\ prev[t][3] = acts[3]
        /\ nFAW <= acts[4] + rankNext[t]
    BY <1>4 DEF Window
  <2>3. acts[3] \in 0..nFAW /\ acts[4] \in 0..nFAW
    BY DEF TypeOK
  <2>4. FourActivateWindow'
    BY <1>2, <2>1, <2>2, <2>3, EntriesAreNat DEF FourActivateWindow
  <2>5. \A a \in issued \cap Acts : a = t
    BY <1>4 DEF OneActivation, TypeOK
  <2>6. prev'[t] = <<0, prev[t][1], prev[t][2]>>
    BY <1>2, <1>4 DEF DeviceUpdate, TypeOK, DeviceTypeOK
  <2>7. nFAW <= acts'[4] + rankNext'[t]
    <3>1. rankNext'[t] = Later(rankNext[t],
                               Later(RankTiming(t, t), nFAW - prev[t][3]))
      BY <1>1, <1>2, <1>4 DEF DeviceUpdate, RankConstraint,
                              FourActivateTargets, Acts, RoundActs
    <3>2. RankTiming(t, t) \in Nat
      BY <1>1, TimingsAreNat
    <3> QED
      BY <3>1, <3>2, <1>2, <2>1, <2>2, <2>3, EntriesAreNat DEF Later
  <2>8. \A i \in 1..3 : prev'[t][i] = acts'[i]
    BY <2>1, <2>2, <2>6
  <2> QED
    BY <1>2, <2>4, <2>5, <2>7, <2>8 DEF Window
<1> QED
  BY <1>3, <1>4

LEMMA WindowTick ==
    ASSUME TypeOK, Window, FourActivateWindow, Tick
    PROVE  Window' /\ FourActivateWindow'
<1>1. FourActivateWindow'
  BY EntriesAreNat DEF FourActivateWindow, Tick, Older
<1>2. SUFFICES ASSUME NEW a \in issued \cap Acts
               PROVE  /\ \A i \in 1..3 : prev'[a][i] = acts'[i]
                      /\ nFAW <= acts'[4] + rankNext'[a]
  BY <1>1 DEF Window, Tick
<1>3. \A i \in 1..3 : prev'[a][i] = acts'[i]
  BY DEF Window, Tick, DeviceTick
<1>4. /\ nFAW <= acts[4] + rankNext[a]
      /\ acts[4] \in 0..nFAW /\ rankNext[a] \in Nat
      /\ acts'[4] = Older(acts[4]) /\ rankNext'[a] = Down(rankNext[a])
  BY DEF Window, TypeOK, DeviceTypeOK, Types, Tick, DeviceTick
<1> QED
  BY <1>3, <1>4, EntriesAreNat DEF Older, Down

(* For every timing and every controller that activates with one type of   *)
(* command, at most four activations are younger than nFAW: the constraint *)
(* of distance 4 that DRAM::update computes from prev[] is the four        *)
(* activate window.  ACT_R and ACT_W together break it: see the run        *)
(* ddr3_round_acts.                                                        *)
THEOREM WindowCorrect ==
    IssuedAssumption /\ OneActivation /\ Spec => []FourActivateWindow
<1> SUFFICES ASSUME IssuedAssumption, OneActivation
             PROVE  Spec => []FourActivateWindow
  OBVIOUS
<1> DEFINE IInv == TypeOK /\ Window /\ FourActivateWindow
<1>1. Init => IInv
  <2>1. Init => Window
    BY EntriesAreNat DEF Init, DeviceInit, Window, Types
  <2>2. Init => FourActivateWindow
    BY DEF Init, FourActivateWindow
  <2> QED
    BY <2>1, <2>2, TypeInit
<1>2. IInv /\ [Next]_vars => IInv'
  <2> SUFFICES ASSUME IInv, [Next]_vars
               PROVE  IInv'
    OBVIOUS
  <2>1. CASE Tick
    BY <2>1, TypeTick, WindowTick
  <2>2. CASE \E t \in issued, b \in Banks : receiveFromBus(t, b)
    BY <2>2, TypeCommand, WindowCommand
  <2>3. CASE UNCHANGED vars
    BY <2>3 DEF vars, TypeOK, DeviceTypeOK, Window, FourActivateWindow
  <2> QED
    BY <2>1, <2>2, <2>3 DEF Next
<1> QED
  BY <1>1, <1>2, PTL DEF Spec

=============================================================================
