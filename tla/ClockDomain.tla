---------------------------- MODULE ClockDomain ----------------------------
(***************************************************************************)
(* The clock domain crosser of src/ClockDomain.cpp, which decides how many *)
(* memory cycles one CPU cycle is worth.  MultiChannelMemorySystem::update *)
(* calls ClockDomainCrosser::update once per CPU cycle; the callback is    *)
(* MultiChannelMemorySystem::actual_update, one memory cycle of every      *)
(* channel.                                                                *)
(***************************************************************************)
EXTENDS Naturals

CONSTANTS Frequencies, (* clock frequencies of the memory and of the CPU   *)
          MaxUpdates   (* bound on the number of CPU cycles                *)

ASSUME FrequencyAssumption == Frequencies \subseteq Nat \ {0}
ASSUME UpdatesAssumption == MaxUpdates \in Nat

VARIABLES
    clock1,    (* clock1: the frequency of the memory                      *)
    clock2,    (* clock2: the frequency of the CPU                         *)
    pc,        (* "idle" between two calls, "loop" in the while of update  *)
    counter1,  (* counter1, time of the memory domain since the last reset *)
    counter2,  (* counter2, time of the CPU domain since the last reset    *)
    updates,   (* history: calls of update() that have started             *)
    calls      (* history: memory cycles run, calls of the callback        *)

clocks == <<clock1, clock2>>
vars == <<clock1, clock2, pc, counter1, counter2, updates, calls>>

(* The default crosser, with a 1:1 ratio.                                  *)
Init == /\ clock1 = 1
        /\ clock2 = 1
        /\ pc = "idle"
        /\ counter1 = 0
        /\ counter2 = 0
        /\ updates = 0
        /\ calls = 0

(* setCPUClockSpeed(cpu) on a memory of frequency mem; a CPU frequency of  *)
(* 0 stands for the memory's own.  It is a set-up call: the counters are   *)
(* not rescaled, so it is made before the first update.                    *)
SetCPUClockSpeed(mem, cpu) ==
    /\ updates = 0
    /\ clock1' = mem
    /\ clock2' = IF cpu = 0 THEN mem ELSE cpu
    /\ UNCHANGED <<pc, counter1, counter2, updates, calls>>

(* update() with equal clocks: the short circuit, one memory cycle.        *)
UpdateOneToOne ==
    /\ pc = "idle"
    /\ updates < MaxUpdates
    /\ clock1 = clock2
    /\ updates' = updates + 1
    /\ calls' = calls + 1
    /\ UNCHANGED <<clocks, pc, counter1, counter2>>

(* update() with different clocks: advance counter1 and enter the loop.    *)
UpdateBegin ==
    /\ pc = "idle"
    /\ updates < MaxUpdates
    /\ clock1 # clock2
    /\ pc' = "loop"
    /\ updates' = updates + 1
    /\ counter1' = counter1 + clock1
    /\ UNCHANGED <<clocks, counter2, calls>>

Mutant_Behind == counter2 <= counter1

(* The condition of the while: the CPU domain is behind.                   *)
Behind == counter2 < counter1

(* One iteration of the while of update(), with the callback it makes.     *)
UpdateLoop ==
    /\ pc = "loop"
    /\ Behind
    /\ counter2' = counter2 + clock2
    /\ calls' = calls + 1
    /\ UNCHANGED <<clocks, pc, counter1, updates>>

(* The end of update(): both counters restart when they meet.              *)
UpdateEnd ==
    /\ pc = "loop"
    /\ ~Behind
    /\ pc' = "idle"
    /\ IF counter1 = counter2
       THEN counter1' = 0 /\ counter2' = 0
       ELSE UNCHANGED <<counter1, counter2>>
    /\ UNCHANGED <<clocks, updates, calls>>

Next ==
    \/ \E mem \in Frequencies, cpu \in Frequencies \cup {0} :
           SetCPUClockSpeed(mem, cpu)
    \/ UpdateOneToOne
    \/ UpdateBegin
    \/ UpdateLoop
    \/ UpdateEnd

Spec == Init /\ [][Next]_vars

-----------------------------------------------------------------------------
TypeOK ==
    /\ clock1 \in Nat \ {0}
    /\ clock2 \in Nat \ {0}
    /\ pc \in {"idle", "loop"}
    /\ counter1 \in Nat
    /\ counter2 \in Nat
    /\ updates \in Nat
    /\ calls \in Nat

(* Between two calls of update() the number of memory cycles run is the    *)
(* CPU cycles times clock1/clock2, rounded up: resetting the two counters  *)
(* (ClockDomain.cpp:75) never loses or adds a memory cycle, however long   *)
(* the run is.                                                             *)
CallsKeepTheRatio ==
    pc = "idle" => /\ updates * clock1 <= calls * clock2
                   /\ calls * clock2 < updates * clock1 + clock2

=============================================================================
