------------------------------ MODULE ReOrder ------------------------------
(***************************************************************************)
(* The ReOrder controller (system/ReOrder): the first command of every     *)
(* bank queue enters a register once it is ready; CAS commands are issued  *)
(* in rounds, at most one of each requestor, those of one direction before *)
(* those of the other; then activations, then precharges.                  *)
(***************************************************************************)
EXTENDS Overtaking

VARIABLES
    commandRegisters, (* the requestors whose first command is registered; *)
                      (* queuePending is being among them                  *)
    servedFlags,      (* the requestors served in this round               *)
    bundlingType      (* the CAS that is issued at present                 *)

reorderVars == <<commandRegisters, servedFlags, bundlingType, overtaken>>
rVars == <<vars, registerVars, reorderVars>>

ReOrderInit ==
    /\ PerRequestorInit
    /\ commandRegisters = <<>>
    /\ servedFlags = {}
    /\ bundlingType = "WR"
    /\ OvertakingInit

TypeAt(r) == Head(commandQueue[r]).busPacketType

(* The registers after the scan of the queues.                             *)
Registers == commandRegisters \o SelectSeq(queues, LAMBDA r :
                 /\ commandQueue[r] # <<>>
                 /\ ~Contains(commandRegisters, r)
                 /\ isReady(r))

(* The requestors with a CAS in registers regs.                            *)
CasIn(regs) == {r \in Range(regs) : IsCas(r)}

(* Those whose requestor has not had its turn in the round.                *)
Unserved(regs) == CasIn(regs) \ servedFlags

(* A round ends when there is none, even if there is no CAS at all.        *)
ServedNow(regs) ==
    IF regs # <<>> /\ Unserved(regs) = {} THEN {} ELSE servedFlags

(* The direction changes when there are some, but none of this direction.  *)
TypeNow(regs) ==
    IF Unserved(regs) # {} /\ \A r \in Unserved(regs) : TypeAt(r) # bundlingType
        THEN IF bundlingType = "WR" THEN "RD" ELSE "WR"
        ELSE bundlingType

(* The first issuable command of type t, by its register, or 0.            *)
FirstOf(regs, t) ==
    SelectInSeq(regs, LAMBDA r : TypeAt(r) = t /\ isIssuable(r))

FirstCas(regs, served, type) ==
    SelectInSeq(regs, LAMBDA r :
        r \notin served /\ TypeAt(r) = type /\ isIssuable(r))

(* The command to issue: a CAS of the round, else an ACT, else a PRE.      *)
Choice(regs, served, type) ==
    LET cas == FirstCas(regs, served, type)
        act == FirstOf(regs, "ACT")
    IN  IF cas # 0 THEN cas ELSE IF act # 0 THEN act ELSE FirstOf(regs, "PRE")


(* The requestor has had its turn.                                         *)
Serve(served, r) == served \cup {r}

(* commandSchedule, which issues a command or finds none to issue.         *)
Schedule(regs, served, type, i) ==
    /\ bundlingType' = type
    /\ UNCHANGED registerVars
    /\ \/ /\ i # 0
          /\ sendCommand(regs[i])
          /\ commandRegisters' = RemoveAt(regs, i)
          /\ IF IsCas(regs[i])
                 THEN /\ servedFlags' = Serve(served, regs[i])
                      /\ Overtake(CasIn(regs), regs[i])
                 ELSE servedFlags' = served /\ UNCHANGED overtaken
       \/ /\ i = 0
          /\ NoCommand
          /\ commandRegisters' = regs
          /\ servedFlags' = served
          /\ UNCHANGED overtaken

commandSchedule ==
    /\ phase = "command"
    /\ \E regs \in {Registers} :
       \E served \in {ServedNow(regs)}, type \in {TypeNow(regs)} :
       \E i \in {Choice(regs, served, type)} : Schedule(regs, served, type, i)

ReOrderNext ==
    \/ DirectCommon /\ UNCHANGED reorderVars
    \/ commandSchedule

(* The simulation loop of main never stops between two steps of a cycle.   *)
ReOrderSpec == ReOrderInit /\ [][ReOrderNext]_rVars /\ WF_rVars(ReOrderNext)

=============================================================================
