-------------------------------- MODULE DDR3 --------------------------------
(***************************************************************************)
(* The DDR3 device as the controller sees it: the timing tables of         *)
(* dram/DDR3.cpp, the tree of "earliest next cycle" tables that            *)
(* dram/DRAM.h keeps from them, and the command_timing table that          *)
(* src/Ramulator_DDR3.h gives the controller.                              *)
(*                                                                         *)
(* A next[] entry, an absolute cycle in the code, is kept as the number of *)
(* cycles left until it, 0 when it has passed.  Ramulator_DDR3 sends every *)
(* command to channel 0, rank 0, so the channel's and the rank's tables    *)
(* are one table here, and the constraints between sibling ranks never     *)
(* apply.  Refresh and power-down commands are left out.                   *)
(***************************************************************************)
EXTENDS Integers, Sequences, TLAPS

CONSTANTS
    Banks,                                       (* the banks of the rank  *)
    nBL, nCCD, nCL, nCWL, nRCD, nRP, nRAS, nRC,  (* the SpeedEntry of the  *)
    nRTP, nWTR, nWR, nRRD, nFAW                  (* device, in cycles      *)

(* The entries are non-negative; a burst lasts at least a cycle and at     *)
(* most the four cycles command_timing takes for granted, and the          *)
(* read-to-write distance is not negative.  Every entry of DDR3's speed    *)
(* table meets this.                                                       *)
ASSUME TimingAssumption ==
    /\ \A n \in {nBL, nCCD, nCL, nCWL, nRCD, nRP, nRAS, nRC, nRTP, nWTR,
                 nWR, nRRD, nFAW} : n \in Nat
    /\ 1 <= nBL /\ nBL <= 4 /\ nBL <= nCCD
    /\ nCWL <= nCL

-----------------------------------------------------------------------------
(* The command types of the BusPacketType enum.                            *)
Reads  == {"RD", "RDA"}
Writes == {"WR", "WRA"}
Cas    == Reads \cup Writes
RoundActs == {"ACT_R", "ACT_W"}
Acts   == RoundActs \cup {"ACT"}
Types  == Cas \cup Acts \cup {"PRE"}

(* The types whose scope reaches the bank.  The scope array has an entry   *)
(* for each command except ACT_R and ACT_W, which come first in the enum,  *)
(* so every command gets the scope of the one two places before it: ACT,   *)
(* RDA and WRA are checked down to the rank only.                          *)
BankScoped == Types \ {"ACT", "RDA", "WRA"}

(* busPacketType < ACT, by which the schedulers tell a CAS.                *)
BeforeACT == Cas \cup RoundActs

-----------------------------------------------------------------------------
Mutant_command_timing(c, t) ==
    CASE c = "PRE" /\ t \in RoundActs -> nRP
      [] c = "PRE" /\ t \notin RoundActs -> 0
      [] c \in Acts /\ t \in Cas -> nRCD
      [] c \in Acts /\ t = "PRE" -> nRAS
      [] c = "RD" /\ t \in Reads -> 4
      [] c = "RD" /\ t \in Writes -> nCL + nBL + 2 - nCWL
      [] c = "RD" /\ t = "PRE" -> nRTP
      [] c = "WR" /\ t \in Reads -> nCWL + 4 + 6
      [] c = "WR" /\ t \in Writes -> 4
      [] c = "WR" /\ t = "PRE" -> nCWL + 4 + nWR
      [] c = "RDA" /\ t = "ACT" -> nRTP
      [] c = "WRA" /\ t = "ACT" -> nCWL + 4 + nWR
      [] OTHER -> 1

(* Ramulator_DDR3::command_timing: the cycles the controller waits between *)
(* a command of type c and the next of type t of the same queue.  The      *)
(* burst length and the write-to-read turnaround are the literals 4 and 6. *)
command_timing(c, t) ==
    CASE c = "PRE" /\ t \in Acts -> nRP
      [] c = "PRE" /\ t \notin Acts -> 0
      [] c \in Acts /\ t \in Acts /\ (c = "ACT") = (t = "ACT") -> nRC
      [] c \in Acts /\ t \in Cas -> nRCD
      [] c \in Acts /\ t = "PRE" -> nRAS
      [] c = "RD" /\ t \in Reads -> 4
      [] c = "RD" /\ t \in Writes -> nCL + nBL + 2 - nCWL
      [] c = "RD" /\ t = "PRE" -> nRTP
      [] c = "WR" /\ t \in Reads -> nCWL + 4 + 6
      [] c = "WR" /\ t \in Writes -> 4
      [] c = "WR" /\ t = "PRE" -> nCWL + 4 + nWR
      [] c = "RDA" /\ t = "ACT" -> nRTP + nRP
      [] c = "WRA" /\ t = "ACT" -> nCWL + 4 + nWR + nRP
      [] OTHER -> 1

Mutant_RankTiming(c, t) ==
    CASE c \in Reads /\ t \in Reads  -> nBL
      [] c \in Reads /\ t \in Writes -> nCCD + 2
      [] c \in Writes /\ t \in Reads -> nCWL + nBL + nWTR
      [] c \in Writes /\ t \in Writes -> nCCD
      [] c \in Acts /\ t \in Acts /\ (c = "ACT") = (t = "ACT") -> nRRD
      [] OTHER -> 0

(* init_timing, channel and rank: the constraints of distance 1.           *)
RankTiming(c, t) ==
    CASE c \in Reads /\ t \in Reads  -> IF nBL > nCCD THEN nBL ELSE nCCD
      [] c \in Reads /\ t \in Writes -> nCL + nCCD + 2 - nCWL
      [] c \in Writes /\ t \in Reads -> nCWL + nBL + nWTR
      [] c \in Writes /\ t \in Writes -> IF nBL > nCCD THEN nBL ELSE nCCD
      [] c \in Acts /\ t \in Acts /\ (c = "ACT") = (t = "ACT") -> nRRD
      [] OTHER -> 0

(* init_timing, rank: the commands a fourth activation of type c delays    *)
(* by nFAW from the first.                                                 *)
FourActivateTargets(c) ==
    CASE c = "ACT" -> {"ACT"}
      [] c \in RoundActs -> RoundActs
      [] OTHER -> {}

(* init_timing, bank.                                                      *)
BankTiming(c, t) ==
    CASE c \in Acts /\ t \in Cas -> nRCD
      [] c \in Acts /\ t = "PRE" -> nRAS
      [] c \in Acts /\ t \in Acts /\ (c = "ACT") = (t = "ACT") -> nRC
      [] c = "RD" /\ t = "PRE" -> nRTP
      [] c = "WR" /\ t = "PRE" -> nCWL + nBL + nWR
      [] c = "RDA" /\ t \in Acts -> nRTP + nRP
      [] c = "WRA" /\ t \in Acts -> nCWL + nBL + nWR + nRP
      [] c = "PRE" /\ t \in Acts -> nRP
      [] OTHER -> 0

VARIABLES
    rankNext,  (* next[] of the rank (and channel), in cycles to go        *)
    bankNext,  (* next[] of each bank, in cycles to go                     *)
    prev       (* prev[] of each activation type: the ages of its last     *)
               (* three commands, latest first, at most nFAW               *)

deviceVars == <<rankNext, bankNext, prev>>

(* A device on which nothing has been issued: every next[] and prev[] is   *)
(* -1, no constraint.                                                      *)
DeviceInit ==
    /\ rankNext = [t \in Types |-> 0]
    /\ bankNext = [b \in Banks |-> [t \in Types |-> 0]]
    /\ prev = [a \in Acts |-> <<nFAW, nFAW, nFAW>>]

DeviceTypeOK ==
    /\ rankNext \in [Types -> Nat]
    /\ bankNext \in [Banks -> [Types -> Nat]]
    /\ prev \in [Acts -> (0..nFAW) \X (0..nFAW) \X (0..nFAW)]

(* DRAM::check: has the command's cycle come at every level in its scope?  *)
command_check(t, b) ==
    /\ rankNext[t] = 0
    /\ t \in BankScoped => bankNext[b][t] = 0

Later(m, n) == IF m >= n THEN m ELSE n
Down(n) == IF n > 0 THEN n - 1 ELSE 0
Older(n) == IF n < nFAW THEN n + 1 ELSE nFAW

(* The rank constraint a command of type c puts on type t: the one of      *)
(* distance 1 and, for an activation, the one of distance 4, measured from *)
(* the third last before it.                                               *)
RankConstraint(c, t) ==
    IF t \in FourActivateTargets(c)
        THEN Later(RankTiming(c, t), nFAW - prev[c][3])
        ELSE RankTiming(c, t)

(* DRAM::update (receiveFromBus): the command of type c on bank b pushes   *)
(* back the next[] of every type it constrains, on the rank and on the     *)
(* bank, and enters the history of its type.                               *)
DeviceUpdate(c, b) ==
    /\ rankNext' = [t \in Types |-> Later(rankNext[t], RankConstraint(c, t))]
    /\ bankNext' = [bankNext EXCEPT ![b] =
                        [t \in Types |-> Later(@[t], BankTiming(c, t))]]
    /\ prev' = IF c \in Acts
                   THEN [prev EXCEPT ![c] = <<0, @[1], @[2]>>]
                   ELSE prev

(* MemoryDevice::update, its clockCycle++: one cycle less to wait for      *)
(* everything.                                                             *)
DeviceTick ==
    /\ rankNext' = [t \in Types |-> Down(rankNext[t])]
    /\ bankNext' = [b \in Banks |-> [t \in Types |-> Down(bankNext[b][t])]]
    /\ prev' = [a \in Acts |-> <<Older(prev[a][1]), Older(prev[a][2]),
                                 Older(prev[a][3])>>]

-----------------------------------------------------------------------------
(* Facts about the tables, for every timing that meets TimingAssumption.   *)

(* The timing entries are natural numbers.                                 *)
LEMMA EntriesAreNat ==
    /\ nBL \in Nat /\ nCCD \in Nat /\ nCL \in Nat /\ nCWL \in Nat
    /\ nRCD \in Nat /\ nRP \in Nat /\ nRAS \in Nat /\ nRC \in Nat
    /\ nRTP \in Nat /\ nWTR \in Nat /\ nWR \in Nat /\ nRRD \in Nat
    /\ nFAW \in Nat /\ nCWL <= nCL /\ nBL <= 4
  BY TimingAssumption

(* Every constraint is a number of cycles; none is negative.               *)
LEMMA TimingsAreNat ==
    ASSUME NEW c \in Types, NEW t \in Types
    PROVE  /\ command_timing(c, t) \in Nat
           /\ RankTiming(c, t) \in Nat
           /\ BankTiming(c, t) \in Nat
<1>1. command_timing(c, t) \in Nat
  BY EntriesAreNat DEF command_timing, Types, Cas, Reads, Writes, Acts, RoundActs
<1>2. RankTiming(c, t) \in Nat
  BY EntriesAreNat DEF RankTiming, Types, Cas, Reads, Writes, Acts, RoundActs
<1>3. BankTiming(c, t) \in Nat
  BY EntriesAreNat DEF BankTiming, Types, Cas, Reads, Writes, Acts, RoundActs
<1> QED
  BY <1>1, <1>2, <1>3

(* For the types whose check stops at the rank, the controller's own       *)
(* timers wait at least as long as the bank requires.                      *)
LEMMA TimersCoverTheBank ==
    ASSUME NEW c \in Types, NEW t \in Types \ BankScoped
    PROVE  BankTiming(c, t) <= command_timing(c, t)
  BY EntriesAreNat DEF BankTiming, command_timing, BankScoped, Types, Cas,
                       Reads, Writes, Acts, RoundActs

(* The device keeps its shape when it takes a command.                     *)
LEMMA DeviceUpdateType ==
    ASSUME DeviceTypeOK, NEW c \in Types, NEW b \in Banks, DeviceUpdate(c, b)
    PROVE  DeviceTypeOK'
<1>1. \A t \in Types : RankConstraint(c, t) \in Nat
  <2> TAKE t \in Types
  <2>1. RankTiming(c, t) \in Nat
    BY TimingsAreNat
  <2>2. t \in FourActivateTargets(c) => c \in Acts
    BY DEF FourActivateTargets, Acts, RoundActs
  <2>3. c \in Acts => prev[c][3] \in 0..nFAW
    BY DEF DeviceTypeOK
  <2> QED
    BY <2>1, <2>2, <2>3, EntriesAreNat DEF RankConstraint, Later
<1>2. rankNext' \in [Types -> Nat]
  <2>1. \A t \in Types : Later(rankNext[t], RankConstraint(c, t)) \in Nat
    BY <1>1 DEF Later, DeviceTypeOK
  <2> QED
    BY <2>1 DEF DeviceUpdate
<1>3. bankNext' \in [Banks -> [Types -> Nat]]
  <2>1. \A t \in Types : Later(bankNext[b][t], BankTiming(c, t)) \in Nat
    BY TimingsAreNat DEF Later, DeviceTypeOK
  <2> QED
    BY <2>1 DEF DeviceUpdate, DeviceTypeOK
<1>4. prev' \in [Acts -> (0..nFAW) \X (0..nFAW) \X (0..nFAW)]
  BY EntriesAreNat DEF DeviceUpdate, DeviceTypeOK
<1> QED
  BY <1>2, <1>3, <1>4 DEF DeviceTypeOK

(* The device keeps its shape when a cycle ends.                           *)
LEMMA DeviceTickType ==
    ASSUME DeviceTypeOK, DeviceTick
    PROVE  DeviceTypeOK'
<1>1. rankNext' \in [Types -> Nat]
  BY DEF DeviceTick, DeviceTypeOK, Down
<1>2. bankNext' \in [Banks -> [Types -> Nat]]
  BY DEF DeviceTick, DeviceTypeOK, Down
<1>3. prev' \in [Acts -> (0..nFAW) \X (0..nFAW) \X (0..nFAW)]
  <2>1. \A n \in 0..nFAW : Older(n) \in 0..nFAW
    BY EntriesAreNat DEF Older
  <2>2. \A a \in Acts : /\ prev[a][1] \in 0..nFAW
                        /\ prev[a][2] \in 0..nFAW
                        /\ prev[a][3] \in 0..nFAW
    BY DEF DeviceTypeOK
  <2> QED
    BY <2>1, <2>2 DEF DeviceTick
<1> QED
  BY <1>1, <1>2, <1>3 DEF DeviceTypeOK
=============================================================================
