--------------------------- MODULE RefreshMachine ---------------------------
(***************************************************************************)
(* The refresh machine (src/RefreshMachine.h) with what calls it: every    *)
(* cycle MemoryController::update calls CommandScheduler::refresh, then    *)
(* the command scheduler, which leaves alone the banks that are busy with  *)
(* a refresh, then CommandScheduler::tick, which steps the machine.        *)
(*                                                                         *)
(* Of the command queues only the type of the head counts.  The device     *)
(* may refuse a refresh command for a while, the other commands it takes   *)
(* whenever a scheduler chooses.  The mechanism is a constant in the code  *)
(* too, where it is "none" unless it is edited.                            *)
(***************************************************************************)
EXTENDS Integers, Sequences, FiniteSets, SequencesExt

CONSTANTS
    refresh_mechanism, (* "none", "distributed" or "per-bank"              *)
    NumBanks,          (* 8 in the code                                    *)
    tREFI, tRFC, tRFCpb, tRCD,
    MaxRefuse          (* the cycles a refresh command may be refused      *)

RefreshAssumption ==
    /\ refresh_mechanism \in {"none", "distributed", "per-bank"}
    /\ NumBanks \in Nat \ {0}
    /\ tREFI \in Nat /\ tRFC \in Nat /\ tRFCpb \in Nat /\ tRCD \in Nat
    /\ tREFI >= NumBanks
    /\ MaxRefuse \in Nat

Banks == 0 .. NumBanks - 1
interval_pb == tREFI \div NumBanks

VARIABLES
    phase,            (* what the cycle does next                          *)
    commandBuffer,
    isRefreshingBank, (* the banks that are busy                           *)
    isInterval,       (* isRefreshing is set and reset with it             *)
    flag,             (* a refresh is under way                            *)
    refreshCounting,  (* the cycles it still takes                         *)
    bank_release,     (* the bank it is for                                *)
    Round_robin,
    globeRefreshCountdown,
    refused,          (* how long the device has refused the front         *)
    head,             (* the head of the command queue of each bank        *)
    believedOpen,     (* bankTable: the row of the next hit                *)
    rowOpen,          (* history: the row that the head needs is open      *)
    refreshed         (* history: the cycles since a refresh of the bank   *)
                      (* began, up to the longest                          *)

machineVars == <<commandBuffer, isRefreshingBank, isInterval, flag,
                 refreshCounting, bank_release, Round_robin,
                 globeRefreshCountdown, refused>>
bankVars == <<head, believedOpen, rowOpen, refreshed>>
vars == <<phase, machineVars, bankVars>>

Longest == IF refresh_mechanism = "distributed" THEN tRFC ELSE tRFCpb

Init ==
    /\ phase = "refresh"
    /\ commandBuffer = <<>>
    /\ isRefreshingBank = {}
    /\ isInterval = FALSE
    /\ flag = FALSE
    /\ refreshCounting \in {0, tRFC}   (* not initialised                  *)
    /\ bank_release = 0
    /\ Round_robin = 0
    /\ globeRefreshCountdown = interval_pb
    /\ refused = 0
    /\ head = [b \in Banks |-> "none"]
    /\ believedOpen = [b \in Banks |-> FALSE]
    /\ rowOpen = [b \in Banks |-> FALSE]
    /\ refreshed = [b \in Banks |-> Longest]

-----------------------------------------------------------------------------
(* CommandScheduler::refresh.                                              *)

Packet(t, b) == [type |-> t, bank |-> b]

finished == refreshCounting = 0 /\ flag

(* The banks that the end of a refresh releases.                           *)
released == IF refresh_mechanism = "per-bank" THEN {bank_release} ELSE Banks

(* RefreshMachine::refresh: the end of a refresh is noticed, and the       *)
(* interval is over with it, whatever the buffer still holds.              *)
Notice ==
    IF finished
        THEN /\ flag' = FALSE
             /\ isInterval' = FALSE
             /\ isRefreshingBank' = isRefreshingBank \ released
        ELSE UNCHANGED <<flag, isInterval, isRefreshingBank>>

(* The command it hands out is the front of the buffer, while no refresh   *)
(* is under way.                                                           *)
Offered == isInterval /\ commandBuffer # <<>> /\ (finished \/ ~flag)

Mutant_Counting(c) ==
    IF c.type \in {"REF", "REFPB"} THEN {tRCD} ELSE {refreshCounting}

(* popCommand's counter.  It is longer when an ACT follows; behind the     *)
(* last command it reads past the end of the vector.                       *)
Counting(c) ==
    LET base == CASE c.type = "REFPB" -> tRFCpb
                  [] c.type = "REF" -> tRFC
                  [] OTHER -> refreshCounting
    IN  CASE Len(commandBuffer) = 1 -> {base, base + tRCD}
          [] Len(commandBuffer) > 1 /\ commandBuffer[2].type = "ACT"
                 -> {base + tRCD}
          [] OTHER -> {base}

(* What a refresh command does to the banks.                               *)
Refreshes(c, b) == c.type = "REF" \/ (c.type = "REFPB" /\ b = c.bank)
Closes(c, b) == c.type = "PREA" \/ (c.type = "PRE" /\ b = c.bank)
                \/ Refreshes(c, b)

(* refresh with a command that the device takes, and popCommand.           *)
IssueRefresh ==
    LET c == Head(commandBuffer) IN
    /\ phase = "refresh"
    /\ Offered
    /\ phase' = "issue"
    /\ isInterval' = ~finished
    /\ isRefreshingBank' = isRefreshingBank \ (IF finished THEN released ELSE {})
    /\ refreshCounting' \in Counting(c)
    /\ flag' = (c.type \in {"REF", "REFPB"})
    /\ bank_release' = IF flag' THEN c.bank ELSE bank_release
    /\ commandBuffer' = Tail(commandBuffer)
    /\ refused' = 0
    /\ rowOpen' = [b \in Banks |-> IF Closes(c, b) THEN FALSE
                                   ELSE rowOpen[b] \/ c = Packet("ACT", b)]
    /\ refreshed' = [b \in Banks |-> IF Refreshes(c, b) THEN 0
                                     ELSE refreshed[b]]
    /\ UNCHANGED <<Round_robin, globeRefreshCountdown, head, believedOpen>>

(* refresh with a command that the device does not take yet.               *)
Refuse ==
    /\ phase = "refresh"
    /\ Offered
    /\ refused < MaxRefuse
    /\ phase' = "issue"
    /\ refused' = refused + 1
    /\ Notice
    /\ UNCHANGED <<commandBuffer, refreshCounting, bank_release, Round_robin,
                   globeRefreshCountdown, bankVars>>

(* refresh without a command.                                              *)
NoRefresh ==
    /\ phase = "refresh"
    /\ ~Offered
    /\ phase' = "issue"
    /\ IF isInterval THEN Notice
                     ELSE UNCHANGED <<flag, isInterval, isRefreshingBank>>
    /\ UNCHANGED <<commandBuffer, refreshCounting, bank_release, Round_robin,
                   globeRefreshCountdown, refused, bankVars>>

-----------------------------------------------------------------------------
(* The rest of the controller.                                             *)

(* A request is scheduled on bank b: by the row table it is a hit, or the  *)
(* row of the bank has to be opened first.                                 *)
Arrival(b) ==
    /\ phase = "issue"
    /\ head[b] = "none"
    /\ \/ believedOpen[b] /\ head' = [head EXCEPT ![b] = "CAS"]
       \/ believedOpen[b] /\ head' = [head EXCEPT ![b] = "PRE"]
       \/ ~believedOpen[b] /\ head' = [head EXCEPT ![b] = "ACT"]
    /\ believedOpen' = [believedOpen EXCEPT ![b] = TRUE]
    /\ UNCHANGED <<phase, machineVars, rowOpen, refreshed>>

(* isIssuable: the bank is not busy.  The scheduler issues its head.       *)
Issue(b) ==
    /\ phase = "issue"
    /\ head[b] # "none"
    /\ b \notin isRefreshingBank
    /\ phase' = "tick"
    /\ head' = [head EXCEPT ![b] =
           CASE @ = "PRE" -> "ACT" [] @ = "ACT" -> "CAS" [] OTHER -> "none"]
    /\ rowOpen' = [rowOpen EXCEPT ![b] =
           CASE head[b] = "PRE" -> FALSE [] head[b] = "ACT" -> TRUE
             [] OTHER -> @]
    /\ UNCHANGED <<machineVars, believedOpen, refreshed>>

NoIssue ==
    /\ phase = "issue"
    /\ phase' = "tick"
    /\ UNCHANGED <<machineVars, bankVars>>

-----------------------------------------------------------------------------
(* The commands and the busy banks of commandGenerate.  The banks whose    *)
(* head is a CAS get an ACT to compensate for the precharge.               *)
Compensated == SetToSortSeq({b \in Banks : head[b] = "CAS"}, <)

Mutant_Generated ==
    <<Packet("PRE", 0), Packet("REFPB", 0), Packet("ACT", 0)>>

Generated ==
    CASE refresh_mechanism = "distributed" ->
            <<Packet("PREA", 0), Packet("REF", 0)>>
            \o [i \in DOMAIN Compensated |-> Packet("ACT", Compensated[i])]
      [] refresh_mechanism = "per-bank" /\ head[Round_robin] = "CAS" ->
            <<Packet("PRE", Round_robin), Packet("REFPB", Round_robin),
              Packet("ACT", Round_robin)>>
      [] OTHER -> <<Packet("REFPB", Round_robin)>>

Busy == IF refresh_mechanism = "distributed" THEN Banks ELSE {Round_robin}

(* The countdown is set again.                                             *)
Reload == IF refresh_mechanism = "per-bank" THEN interval_pb ELSE tREFI

(* tick and RefreshMachine::step.                                          *)
step ==
    LET due == refresh_mechanism # "none" /\ globeRefreshCountdown = 1 IN
    /\ phase = "tick"
    /\ phase' = "refresh"
    /\ globeRefreshCountdown' =
           IF due THEN Reload
           ELSE IF refresh_mechanism = "none" THEN globeRefreshCountdown
           ELSE globeRefreshCountdown - 1
    /\ isInterval' = (isInterval \/ due)
    /\ commandBuffer' = commandBuffer \o (IF due THEN Generated ELSE <<>>)
    /\ isRefreshingBank' = isRefreshingBank \cup (IF due THEN Busy ELSE {})
    /\ Round_robin' = IF due /\ refresh_mechanism = "per-bank"
                          THEN (Round_robin + 1) % NumBanks ELSE Round_robin
    /\ refreshCounting' = IF refreshCounting > 0 THEN refreshCounting - 1 ELSE 0
    /\ refreshed' = [b \in Banks |->
           IF refreshed[b] < Longest THEN refreshed[b] + 1 ELSE Longest]
    /\ UNCHANGED <<flag, bank_release, refused, head, believedOpen, rowOpen>>

-----------------------------------------------------------------------------
Next ==
    \/ IssueRefresh
    \/ Refuse
    \/ NoRefresh
    \/ \E b \in Banks : Arrival(b) \/ Issue(b)
    \/ NoIssue
    \/ step

(* The simulation loop of main never stops between two steps of a cycle.   *)
Spec == Init /\ [][Next]_vars /\ WF_vars(Next)

-----------------------------------------------------------------------------
(* Every structure of the machine keeps its shape, and the buffer holds at *)
(* most what one refresh leaves behind and what the next one adds.         *)
TypeOK ==
    /\ commandBuffer \in Seq([type : {"PRE", "PREA", "REF", "REFPB", "ACT"},
                              bank : Banks])
    /\ Len(commandBuffer) <= 2 + 2 * NumBanks
    /\ isRefreshingBank \subseteq Banks
    /\ refreshCounting \in 0 .. tRFC + tRFCpb + 2 * tRCD
    /\ globeRefreshCountdown \in 1 .. tREFI

(* A bank gets no command of a queue before the refresh it has begun is    *)
(* over, although the end is told by one counter, one flag and the last    *)
(* bank, and refreshes of several banks may be waiting in the buffer.      *)
RefreshTakesItsTime ==
    \A b \in Banks : head'[b] # head[b] /\ head[b] # "none" =>
        refreshed[b] = Longest

=============================================================================
