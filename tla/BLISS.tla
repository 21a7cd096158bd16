------------------------------- MODULE BLISS -------------------------------
(***************************************************************************)
(* The BLISS controller (system/BLISS): one request a cycle from the       *)
(* general buffer, chosen by RequestScheduler::scheduleBLISS from a        *)
(* blacklist of the requestors that had several requests scheduled in a    *)
(* row; the command scheduler is that of CommandFRFCFS.                    *)
(***************************************************************************)
EXTENDS CommandFRFCFS

CONSTANTS
    threshold,      (* the requests in a row that are allowed, 4           *)
    clearInterval   (* the cycles between two clearings, 10000             *)

BLISSAssumption ==
    /\ ~ReqPerREQ /\ ~ClosePage /\ ~WriteQueue
    /\ threshold \in Nat \ {0} /\ clearInterval \in Nat \ {0}

VARIABLES
    blacklist,      (* the requestors whose entry is 1                     *)
    last_pid,       (* whose request was scheduled last                    *)
    counterstreak,
    temporal_clock, (* modulo clearInterval                                *)
    served          (* history: the last requestors that were scheduled    *)

blissOnly == <<blacklist, last_pid, counterstreak, temporal_clock, served>>
blissVars == <<vars, arrivalVars, blissOnly>>

BLISSInit ==
    /\ Init
    /\ ArrivalsInit
    /\ blacklist = {}
    /\ last_pid = 4
    /\ counterstreak = 0
    /\ temporal_clock = 0
    /\ served = <<>>

Blacklisted(k, list) == requestBuffer[0][k].requestorID \in list

(* The first request after the first that differs from it in being         *)
(* blacklisted, or, when hits count, is a row hit; else the first.         *)
FirstApart(list, hits) ==
    LET buffer == requestBuffer[0]
        apart == {k \in DOMAIN buffer :
                    \/ Blacklisted(k, list) # Blacklisted(1, list)
                    \/ hits /\ isRowHit(buffer[k])}
    IN  IF apart = {} THEN 1 ELSE Min(apart)

(* scheduleBLISS: hit_1 and hit_2 are not initialised, h1 and h2 is what   *)
(* they hold.  Of a blacklisted and another request the later one is       *)
(* taken, whichever of them it is.                                         *)
scheduleBLISS(list, h1, h2) ==
    LET hit == isRowHit(requestBuffer[0][1]) IN
    CASE ~hit /\ h1 # h2 -> 1
      [] ~hit /\ ~h1 /\ ~h2 -> FirstApart(list, TRUE)
      [] OTHER -> FirstApart(list, FALSE)

Mutant_Streak(r, list) ==
    IF r = last_pid /\ counterstreak < threshold
        THEN counterstreak' = counterstreak + 1 /\ blacklist' = list
    ELSE IF r = last_pid /\ counterstreak = threshold
        THEN counterstreak' = 1 /\ blacklist' = list \cup {r}
    ELSE UNCHANGED counterstreak /\ blacklist' = list

(* A request of r is scheduled: its streak is counted.                     *)
Streak(r, list) ==
    IF r = last_pid /\ counterstreak < threshold
        THEN counterstreak' = counterstreak + 1 /\ blacklist' = list
    ELSE IF r = last_pid /\ counterstreak = threshold
        THEN counterstreak' = 1 /\ blacklist' = list \cup {r}
    ELSE counterstreak' = 1 /\ blacklist' = list

clearing == (temporal_clock + 1) % clearInterval = 0

(* The blacklist after clear_marking, when its time has come.              *)
Listed == IF clearing THEN {} ELSE blacklist

(* requestSchedule with a request in the buffer.                           *)
requestSchedule(k) ==
    LET r == requestBuffer[0][k].requestorID IN
    /\ ScheduleRequest(0, k, FALSE)
    /\ Arrive
    /\ Streak(r, Listed)
    /\ last_pid' = r
    /\ temporal_clock' = (temporal_clock + 1) % clearInterval
    /\ served' = Append(IF Len(served) > threshold THEN Tail(served)
                                                   ELSE served, r)

(* requestSchedule with an empty buffer.                                   *)
NothingToSchedule ==
    /\ requestBuffer[0] = <<>>
    /\ EndSchedule
    /\ blacklist' = Listed
    /\ temporal_clock' = (temporal_clock + 1) % clearInterval
    /\ UNCHANGED <<arrivalVars, last_pid, counterstreak, served>>

BLISSNext ==
    \/ /\ \/ \E q \in Traffic : SendRequest(q)
          \/ Idle
          \/ DeliverWrite
          \/ NoWrite
          \/ DeliverRead
          \/ NoRead
       /\ UNCHANGED <<arrivalVars, blissOnly>>
    \/ /\ phase = "request" /\ requestBuffer[0] # <<>>
       /\ \E h1, h2 \in BOOLEAN : requestSchedule(scheduleBLISS(Listed, h1, h2))
    \/ NothingToSchedule
    \/ /\ (\E b \in Banks : FRIssue(b)) \/ FRIssueNone
       /\ UNCHANGED blissOnly

(* The simulation loop of main never stops between two steps of a cycle.   *)
BLISSSpec == BLISSInit /\ [][BLISSNext]_blissVars /\ WF_blissVars(BLISSNext)

-----------------------------------------------------------------------------
AllFrom(seq, r) == \A i \in DOMAIN seq : seq[i] = r

(* A requestor comes on the blacklist only with more than threshold        *)
(* requests in a row.                                                      *)
ListingIsEarned ==
    \A r \in blacklist' \ blacklist :
        Len(served') > threshold /\ AllFrom(served', r)

=============================================================================
