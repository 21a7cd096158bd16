----------------------------- MODULE Simulation -----------------------------
(***************************************************************************)
(* The simulation loop of src/main.cpp with the requestors                 *)
(* (src/Requestor.cpp), which read traces, and the channels                *)
(* (src/MultiChannelMemorySystem.cpp), of which only this much is kept:    *)
(* requests are added to a buffer, leave it when they are scheduled, and   *)
(* are answered after that.  What happens in between is the subject of     *)
(* MemoryController and of the modules of the controllers.                 *)
(***************************************************************************)
EXTENDS Integers, Sequences, FiniteSets

CONSTANTS
    NumRequestors, NumChannels,
    Traces,            (* what getline returns for each requestor: a       *)
                       (* request, or an empty line, which is also what    *)
                       (* follows the last newline                         *)
    InOrder,           (* whether a requestor waits for its answers        *)
    RequestBufferSize, (* 32 in the code                                   *)
    MaxDelay,          (* the longest time between two requests            *)
    MaxHeld,           (* how long the controller may be in write mode     *)
    Limited            (* main has a limit on the cycles                   *)

Requestors == 0 .. NumRequestors - 1

SimulationAssumption ==
    /\ NumRequestors \in Nat \ {0} /\ NumChannels \in Nat \ {0}
    /\ Traces \in [Requestors -> Seq({"REQ", "EMPTY"})]
    /\ InOrder \in BOOLEAN /\ Limited \in BOOLEAN
    /\ RequestBufferSize \in Nat /\ MaxDelay \in Nat /\ MaxHeld \in Nat

None == -1

VARIABLES
    phase,           (* what the loop does next                            *)
    turn,            (* the requestor whose update is next                 *)
    simDone,         (* main's flag                                        *)
    line,            (* the lines each requestor has read                  *)
    pendingRequest,  (* the cycles until it may be sent, or None           *)
    corePending,     (* how many requests wait for an answer               *)
    buffered,        (* how many of them are in the channel's buffer       *)
    sim_done,
    requestRequest,
    completeRequest,
    writeMode,       (* of the controller of channel 0                     *)
    held             (* for how long                                       *)

requestorVars == <<line, pendingRequest, corePending, buffered, sim_done,
                   requestRequest, completeRequest>>
vars == <<phase, turn, simDone, requestorVars, writeMode, held>>

Init ==
    /\ phase = "loop"
    /\ turn = 0
    /\ simDone = FALSE
    /\ line = [r \in Requestors |-> 0]
    /\ pendingRequest = [r \in Requestors |-> None]
    /\ corePending = [r \in Requestors |-> 0]
    /\ buffered = [r \in Requestors |-> 0]
    /\ sim_done = [r \in Requestors |-> FALSE]
    /\ requestRequest = [r \in Requestors |-> 0]
    /\ completeRequest = [r \in Requestors |-> 0]
    /\ writeMode = FALSE
    /\ held = 0

(* findChannelNumber.                                                      *)
findChannelNumber(r) == r % NumChannels

(* MultiChannelMemorySystem::generalBufferSize, which asks channel 0.      *)
InChannel0(b, r) == IF findChannelNumber(r) = 0 THEN b[r] ELSE 0
SizeOf(b) ==
    LET size[n \in 0 .. NumRequestors] ==
            IF n = 0 THEN 0 ELSE size[n - 1] + InChannel0(b, n - 1)
    IN  size[NumRequestors]
generalBufferSize == SizeOf(buffered)

-----------------------------------------------------------------------------
(* The start of the loop; the limit on the cycles may be reached.          *)
Loop ==
    /\ phase = "loop"
    /\ phase' = IF simDone THEN "done" ELSE "core"
    /\ simDone' \in {simDone, simDone \/ Limited}
    /\ UNCHANGED <<turn, requestorVars, writeMode, held>>

Mutant_eof(r) == line[r] + 1 >= Len(Traces[r])

(* The last getline has set the end of the file.                           *)
eof(r) == line[r] = Len(Traces[r])

(* readingTraceFile is at a new line.                                      *)
MayRead(r) ==
    /\ InOrder => corePending[r] = 0
    /\ pendingRequest[r] = None

(* parseTraceFileLine: the arriveTime is the delay of the trace after the  *)
(* last answer or, out of order, after the last arriveTime.  How many      *)
(* cycles that still leaves can be anything.                               *)
Delay == 0 .. MaxDelay

(* pendingRequest after readingTraceFile: with a request of the trace it   *)
(* is the time until its arriveTime.  An empty line sets bypass_read, which*)
(* sets a switch of the request scheduler that nothing reads.              *)
Read(r) ==
    IF MayRead(r) /\ ~eof(r)
        THEN IF Traces[r][line[r] + 1] = "REQ" THEN Delay ELSE {None}
        ELSE {pendingRequest[r]}

Mutant_MaySend(r, p) == p = 0 /\ ~writeMode

(* Requestor::update's conditions for sending the request p.               *)
MaySend(r, p) ==
    /\ p = 0
    /\ ~writeMode
    /\ generalBufferSize <= RequestBufferSize
    /\ corePending[r] <= RequestBufferSize

MutantNever_Finished(r, pending) == MayRead(r) /\ eof(r) /\ pending # 0

(* The sim_done that update leaves: readingTraceFile is at the end of the  *)
(* file, and no answer is awaited.                                         *)
Finished(r, pending) == MayRead(r) /\ eof(r) /\ pending = 0

(* One turn of main's loop over the requestors: update and sim_end.        *)
update(p) ==
    LET r == turn
        sent == IF p # None /\ MaySend(r, p) THEN 1 ELSE 0
    IN
    /\ phase = "core"
    /\ p \in Read(r)
    /\ line' = [line EXCEPT ![r] = IF MayRead(r) /\ ~eof(r) THEN @ + 1 ELSE @]
    /\ pendingRequest' = [pendingRequest EXCEPT ![r] =
           IF sent = 1 THEN None ELSE IF p > 0 THEN p - 1 ELSE p]
    /\ corePending' = [corePending EXCEPT ![r] = @ + sent]
    /\ buffered' = [buffered EXCEPT ![r] = @ + sent]
    /\ requestRequest' = [requestRequest EXCEPT ![r] = @ + sent]
    /\ sim_done' = [sim_done EXCEPT ![r] = Finished(r, corePending'[r])]
    /\ simDone' = (simDone \/ sim_done'[r])
    /\ turn' = (turn + 1) % NumRequestors
    /\ phase' = IF turn' = 0 THEN "memory" ELSE "core"
    /\ UNCHANGED <<completeRequest, writeMode, held>>

-----------------------------------------------------------------------------
(* The channels: the scheduler of a channel takes a request of r.          *)
Schedule(r) ==
    /\ phase = "memory"
    /\ buffered[r] > 0
    /\ buffered' = [buffered EXCEPT ![r] = @ - 1]
    /\ UNCHANGED <<phase, turn, simDone, line, pendingRequest, corePending,
                   sim_done, requestRequest, completeRequest, writeMode, held>>

(* The callback of main: Requestor::returnData.                            *)
returnData(r) ==
    /\ phase = "memory"
    /\ corePending[r] > buffered[r]
    /\ corePending' = [corePending EXCEPT ![r] = @ - 1]
    /\ completeRequest' = [completeRequest EXCEPT ![r] = @ + 1]
    /\ UNCHANGED <<phase, turn, simDone, line, pendingRequest, buffered,
                   sim_done, requestRequest, writeMode, held>>

(* The end of memorySystem->update; the controller of channel 0 may enter  *)
(* or leave write mode.                                                    *)
EndCycle ==
    /\ phase = "memory"
    /\ phase' = "loop"
    /\ \/ writeMode' = FALSE /\ held' = 0
       \/ held < MaxHeld /\ writeMode' = TRUE /\ held' = held + 1
    /\ UNCHANGED <<turn, simDone, requestorVars>>

(* main prints the statistics and exits.                                   *)
Exit == phase = "done" /\ UNCHANGED vars

Next ==
    \/ Loop
    \/ \E p \in None .. MaxDelay : update(p)
    \/ \E r \in Requestors : Schedule(r) \/ returnData(r)
    \/ EndCycle
    \/ Exit

(* The loop never stops between two steps.  Nothing is said of when a      *)
(* channel schedules or answers: that is the controller's affair.          *)
Spec == Init /\ [][Next]_vars /\ WF_vars(Next)

-----------------------------------------------------------------------------
Lines(r) == Cardinality({i \in DOMAIN Traces[r] : Traces[r][i] = "REQ"})

(* A requestor that has ended has sent every request of its trace, also    *)
(* those behind an empty line, and every one of them was answered.         *)
EndedIsComplete ==
    \A r \in Requestors : sim_done[r] =>
        requestRequest[r] = Lines(r) /\ completeRequest[r] = Lines(r)

(* The limits, which each requestor compares with <= before it sends, hold *)
(* up to one: for the requests of a requestor, and for the buffer of       *)
(* channel 0, which several share, however many channels there are.        *)
BuffersBounded ==
    /\ \A r \in Requestors : corePending[r] <= RequestBufferSize + 1
    /\ generalBufferSize <= RequestBufferSize + 1

(* README.md: "Upon finishing a trace file from core under analysis        *)
(* (REQ0), the simulation will end".  Without a limit on the cycles the    *)
(* simulation ends with requestor 0 finished.                              *)
EndsWithREQ0 == phase = "done" /\ ~Limited => sim_done[0]

=============================================================================
