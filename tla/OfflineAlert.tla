---------------------------- MODULE OfflineAlert ----------------------------
(***************************************************************************)
(* The heartbeats of the worker and the alert for a printer that has been  *)
(* unreachable too long.  A heartbeat is a task of its own: it lists the   *)
(* printers, asks one after the other, posts the report, then goes through *)
(* the report, and posts the alerts one by one.  With many printers down   *)
(* it is still at it when the next one begins.  What the worker remembers  *)
(* of a printer, it remembers by its id.                                   *)
(*                                                                         *)
(* A tick of the clock is the time between two heartbeats.                 *)
(***************************************************************************)
EXTENDS Integers

CONSTANTS
    MaxPrinterId,        \* bound: ids of printers are 1..MaxPrinterId
    Heartbeats,   \* tasks
    Threshold,    \* printer_offline_alert_minutes, in ticks
    MaxTicks,     \* bound: the clock
    MaxOutages,   \* bound: printers that come up or go down
    MaxChanges    \* bound: printers created or deleted, restarts

ASSUME OfflineAssumption ==
    /\ {MaxPrinterId, Threshold} \subseteq Nat \ {0}
    /\ {MaxTicks, MaxOutages, MaxChanges} \subseteq Nat

VARIABLES
    known,      \* ids of the printers there are
    highest,    \* the id counter of the printers table
    online,     \* printers that answer
    beat,       \* beat[h]: what the task has found and has yet to go through
    since,      \* _offline_since, -1: not in it
    alerted,    \* _offline_alerted
    clock,
    lastBeat,   \* _last_heartbeat
    alerts,     \* history: alerts[p], since a check last found p reachable
    seenUp,     \* history: when p last answered a heartbeat, or was created
    apart,      \* history: no two heartbeats overlapped, no id was used twice
    outages, changes

offlineVars == <<known, highest, online, beat, since, alerted, clock, lastBeat, alerts, seenUp,
                 apart, outages, changes>>

PrinterIds == 1..MaxPrinterId

\* listing: the printers listed, in order of id; next: those below have been asked,
\* or gone through; report: who answered; now: when the check began.
Beats ==
    [at : {"idle", "probing", "posting", "alerting"}, listing : SUBSET PrinterIds, next : Nat,
     report : [PrinterIds -> BOOLEAN], now : Nat]

NoBeat ==
    [at |-> "idle", listing |-> {}, next |-> 1, report |-> [p \in PrinterIds |-> FALSE], now |-> 0]

OfflineInit ==
    /\ highest \in PrinterIds /\ known = 1..highest
    /\ online \in SUBSET PrinterIds
    /\ beat = [h \in Heartbeats |-> NoBeat]
    /\ since = [p \in PrinterIds |-> -1] /\ alerted = {}
    /\ clock = 0 /\ lastBeat = -1
    /\ alerts = [p \in PrinterIds |-> 0] /\ seenUp = [p \in PrinterIds |-> 0]
    /\ apart = TRUE
    /\ outages = 0 /\ changes = 0

-----------------------------------------------------------------------------
(* A heartbeat, from one await to the next.                                *)

\* _run(): the task is created; it lists the printers.
BeginBeat(h) ==
    /\ beat[h].at = "idle" /\ lastBeat < clock
    /\ lastBeat' = clock
    /\ apart' = (apart /\ \A g \in Heartbeats : beat[g].at = "idle")
    /\ beat' = [beat EXCEPT ![h] =
         [NoBeat EXCEPT !.at = "probing", !.listing = known]]
    /\ UNCHANGED <<known, highest, online, since, alerted, clock, alerts, seenUp, outages, changes>>

\* The printers still to be asked, or to be gone through.
Left(h) == {p \in beat[h].listing : beat[h].next <= p}

\* _probe_printers(): the printer answers, or it does not within three seconds.
Probe(h) ==
    /\ beat[h].at = "probing"
    /\ \E p \in Left(h) :
         /\ \A q \in Left(h) : p <= q
         /\ beat' = [beat EXCEPT ![h].next = p + 1, ![h].report[p] = p \in online]
         /\ seenUp' = [seenUp EXCEPT ![p] = IF p \in online THEN clock ELSE @]
    /\ UNCHANGED <<known, highest, online, since, alerted, clock, lastBeat, alerts, apart, outages, changes>>

\* The report is posted, best effort.
PostReport(h) ==
    /\ beat[h].at = "probing" /\ Left(h) = {}
    /\ beat' = [beat EXCEPT ![h].at = "posting", ![h].next = 1]
    /\ UNCHANGED <<known, highest, online, since, alerted, clock, lastBeat, alerts, seenUp, apart, outages, changes>>

\* Seeded fault: an alert is noted when it has been posted.
Noted_Late(p, posted) == IF posted THEN {p} ELSE {}

\* What is noted of an alert before, and after it has been posted.
Noted(p, posted) == IF posted THEN {} ELSE {p}

\* Seeded fault: a printer that answers again keeps the time it went down.
Down_Remembered(p, reachable, now) == IF since[p] = -1 /\ ~reachable THEN now ELSE since[p]

\* setdefault() and pop() of _offline_since.
Down(p, reachable, now) ==
    IF reachable THEN -1 ELSE IF since[p] = -1 THEN now ELSE since[p]

\* _check_offline(), from its beginning or from the post of an alert to the post
\* of the next one or to its end.
GoThrough(h, now, noted) ==
    LET b == beat[h]
        Alarming(p) ==
            ~b.report[p] /\ p \notin noted /\ now - Down(p, FALSE, now) >= Threshold
        alarms == {p \in Left(h) : Alarming(p)}
        alarm == {p \in alarms : \A q \in alarms : p <= q}
        passed == {p \in Left(h) : \A q \in alarm : p <= q}
        reached == {p \in passed : b.report[p]}
    IN  /\ since' = [p \in PrinterIds |-> IF p \in passed THEN Down(p, b.report[p], now) ELSE since[p]]
        /\ alerted' = (noted \ reached) \cup UNION {Noted(p, FALSE) : p \in alarm}
        /\ alerts' = [p \in PrinterIds |-> IF p \in reached THEN 0
                                    ELSE IF p \in alarm THEN alerts[p] + 1 ELSE alerts[p]]
        /\ beat' = [beat EXCEPT ![h] =
             IF alarm = {} THEN NoBeat
             ELSE [b EXCEPT !.at = "alerting", !.next = (CHOOSE p \in alarm : TRUE) + 1, !.now = now]]
        /\ UNCHANGED <<known, highest, online, clock, lastBeat, seenUp, apart, outages, changes>>

BeginCheck(h) == beat[h].at = "posting" /\ GoThrough(h, clock, alerted)

\* The one whose alert is being posted.
AlertedPrinter(h) == beat[h].next - 1

CheckOn(h) ==
    /\ beat[h].at = "alerting"
    /\ GoThrough(h, beat[h].now, alerted \cup Noted(AlertedPrinter(h), TRUE))

-----------------------------------------------------------------------------
(* Meanwhile.                                                              *)

Outage(p) ==
    /\ outages < MaxOutages
    /\ outages' = outages + 1
    /\ online' = IF p \in online THEN online \ {p} ELSE online \cup {p}
    /\ UNCHANGED <<known, highest, beat, since, alerted, clock, lastBeat, alerts, seenUp, apart, changes>>

\* delete_printer(): with the last printer the id counter goes; the worker is not told.
DeletePrinter(p) ==
    /\ p \in known /\ changes < MaxChanges
    /\ changes' = changes + 1
    /\ known' = known \ {p}
    /\ highest' = IF known = {p} THEN 0 ELSE highest
    /\ apart' = (apart /\ known # {p})
    /\ UNCHANGED <<online, beat, since, alerted, clock, lastBeat, alerts, seenUp, outages>>

CreatePrinter ==
    /\ highest < MaxPrinterId /\ changes < MaxChanges
    /\ changes' = changes + 1
    /\ highest' = highest + 1
    /\ known' = known \cup {highest + 1}
    /\ seenUp' = [seenUp EXCEPT ![highest + 1] = clock]
    /\ UNCHANGED <<online, beat, since, alerted, clock, lastBeat, alerts, apart, outages>>

\* A new process remembers no outage, and alerts again.
RestartWorker ==
    /\ changes < MaxChanges
    /\ changes' = changes + 1
    /\ beat' = [h \in Heartbeats |-> NoBeat]
    /\ since' = [p \in PrinterIds |-> -1] /\ alerted' = {} /\ alerts' = [p \in PrinterIds |-> 0]
    /\ lastBeat' = -1
    /\ UNCHANGED <<known, highest, online, clock, seenUp, apart, outages>>

OfflineTick ==
    /\ clock < MaxTicks
    /\ clock' = clock + 1
    /\ UNCHANGED <<known, highest, online, beat, since, alerted, lastBeat, alerts, seenUp, apart,
                   outages, changes>>

OfflineNext ==
    \/ \E h \in Heartbeats : BeginBeat(h) \/ Probe(h) \/ PostReport(h) \/ BeginCheck(h) \/ CheckOn(h)
    \/ \E p \in PrinterIds : Outage(p) \/ DeletePrinter(p)
    \/ CreatePrinter \/ RestartWorker \/ OfflineTick

OfflineSpec == OfflineInit /\ [][OfflineNext]_offlineVars

-----------------------------------------------------------------------------
(* Properties.                                                             *)

\* Every variable has its type.
OfflineTypeOK ==
    /\ known \subseteq PrinterIds /\ highest \in 0..MaxPrinterId
    /\ online \subseteq PrinterIds
    /\ beat \in [Heartbeats -> Beats]
    /\ since \in [PrinterIds -> Nat \cup {-1}] /\ alerted \subseteq PrinterIds
    /\ clock \in Nat /\ lastBeat \in Nat \cup {-1}
    /\ alerts \in [PrinterIds -> Nat] /\ seenUp \in [PrinterIds -> Nat]
    /\ apart \in BOOLEAN
    /\ {outages, changes} \subseteq Nat

\* A printer that stays unreachable is alerted of once, however the checks of
\* several heartbeats overlap: until a check finds it reachable again, or the
\* worker is restarted, no second alert is posted.
OneAlertPerOutage == \A p \in PrinterIds : alerts[p] <= 1

\* When an alert is posted, the printer has answered no heartbeat for as long as
\* the threshold, provided that heartbeats did not overlap and no id came back.
AlertMeansOutage ==
    apart => \A h \in Heartbeats :
        beat[h].at = "alerting" => beat[h].now - seenUp[AlertedPrinter(h)] >= Threshold
=============================================================================
