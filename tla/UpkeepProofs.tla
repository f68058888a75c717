---------------------------- MODULE UpkeepProofs -----------------------------
(****************************************************************************)
(* What goes on beside the jobs: one alert for an outage (OfflineAlert),    *)
(* what the limiter lets in (RateLimiter), and the files that formats keep  *)
(* (Assets), for any number of printers, threads, requests and files.  Then  *)
(* the parts of MCPrinters side by side: what is proved of each holds of all *)
(* of them.                                                                 *)
(****************************************************************************)
EXTENDS MCPrinters, RegistryProofs, RoutingProofs, FiniteSetTheorems, TLAPS

-----------------------------------------------------------------------------
(* Alerts: the invariant.                                                  *)

\* An alert posted in this outage is noted.
NotedInv == \A p \in PrinterIds : alerts[p] <= IF p \in alerted THEN 1 ELSE 0

\* Printer p answered heartbeat h, and the check has not come to it.
Answered(h, p) ==
    /\ p \in beat[h].listing /\ beat[h].report[p]
    /\ \/ beat[h].at = "probing" /\ p < beat[h].next
       \/ beat[h].at \in {"posting", "alerting"} /\ beat[h].next <= p

\* There is one heartbeat at a time, and an id stands for one printer.
ApartInv ==
    /\ \A g, h \in Heartbeats : beat[g].at # "idle" /\ beat[h].at # "idle" => g = h
    /\ known \subseteq 1..highest
    /\ \A h \in Heartbeats : beat[h].listing \subseteq 1..highest
    /\ \A p \in PrinterIds : highest < p => since[p] = -1

\* Since the time noted for it a printer has answered no heartbeat but the one
\* whose check has yet to come to it.
DownInv ==
    \A p \in PrinterIds : since[p] # -1 /\ since[p] < seenUp[p] => \E h \in Heartbeats : Answered(h, p)

\* The printers a check has yet to come to answered before it began.
NowInv ==
    \A h \in Heartbeats : beat[h].at = "alerting" =>
        /\ AlertedPrinter(h) \in beat[h].listing
        /\ \A p \in Left(h) : seenUp[p] <= beat[h].now

\* Nothing is seen after now.
ClockInv == \A p \in PrinterIds : seenUp[p] <= clock

OfflineInv ==
    /\ OfflineTypeOK /\ NotedInv /\ ClockInv
    /\ apart => ApartInv /\ DownInv /\ NowInv /\ AlertMeansOutage

-----------------------------------------------------------------------------
(* Alerts: a check from one await to the next.                             *)

\* What a check does that has come through the printers passed to its end, or to
\* the alert of the last of them.
Gone(h, now, passed, alarm) ==
    /\ passed \subseteq Left(h) /\ alarm \subseteq passed
    /\ \A p \in alarm : /\ ~beat[h].report[p] /\ p \notin alerted
                        /\ now - Down(p, FALSE, now) >= Threshold
    /\ since' = [p \in PrinterIds |->
                   IF p \in passed THEN Down(p, beat[h].report[p], now) ELSE since[p]]
    /\ alerted' = (alerted \ {p \in passed : beat[h].report[p]}) \cup alarm
    /\ alerts' = [p \in PrinterIds |->
                    IF p \in {r \in passed : beat[h].report[r]} THEN 0
                    ELSE IF p \in alarm THEN alerts[p] + 1 ELSE alerts[p]]
    /\ \/ passed = Left(h) /\ beat' = [beat EXCEPT ![h] = NoBeat]
       \/ \E q \in alarm :
            /\ passed = {p \in Left(h) : p <= q}
            /\ beat' = [beat EXCEPT ![h] =
                 [beat[h] EXCEPT !.at = "alerting", !.next = q + 1, !.now = now]]
    /\ UNCHANGED <<known, highest, online, clock, lastBeat, seenUp, apart, outages, changes>>

\* It comes to its end, or to the first printer there is to alert of.
LEMMA GoesThrough ==
    ASSUME OfflineTypeOK, NEW h \in Heartbeats, NEW now \in Nat, GoThrough(h, now, alerted)
    PROVE  \E passed \in SUBSET PrinterIds, alarm \in SUBSET PrinterIds : Gone(h, now, passed, alarm)
<1> DEFINE Alarming(p) ==
             ~beat[h].report[p] /\ p \notin alerted /\ now - Down(p, FALSE, now) >= Threshold
           alarms == {p \in Left(h) : Alarming(p)}
           alarm == {p \in alarms : \A q \in alarms : p <= q}
           passed == {p \in Left(h) : \A q \in alarm : p <= q}
<1>1. Left(h) \subseteq PrinterIds /\ PrinterIds \subseteq Nat
  BY DEF Left, OfflineTypeOK, Beats, PrinterIds
<1>2. /\ since' = [p \in PrinterIds |->
                     IF p \in passed THEN Down(p, beat[h].report[p], now) ELSE since[p]]
      /\ alerted' = (alerted \ {p \in passed : beat[h].report[p]}) \cup UNION {Noted(p, FALSE) : p \in alarm}
      /\ alerts' = [p \in PrinterIds |->
                      IF p \in {r \in passed : beat[h].report[r]} THEN 0
                      ELSE IF p \in alarm THEN alerts[p] + 1 ELSE alerts[p]]
      /\ beat' = [beat EXCEPT ![h] =
           IF alarm = {} THEN NoBeat
           ELSE [beat[h] EXCEPT !.at = "alerting", !.next = (CHOOSE p \in alarm : TRUE) + 1, !.now = now]]
      /\ UNCHANGED <<known, highest, online, clock, lastBeat, seenUp, apart, outages, changes>>
  BY DEF GoThrough
<1>3. UNION {Noted(p, FALSE) : p \in alarm} = alarm
  BY DEF Noted
<1>4. alarms \subseteq Nat /\ \A p \in alarms : Alarming(p)
  BY <1>1
<1>5. alarm \subseteq alarms /\ passed \subseteq Left(h)
  OBVIOUS
<1>6. \/ passed = Left(h) /\ beat' = [beat EXCEPT ![h] = NoBeat]
      \/ \E q \in alarm :
           /\ passed = {p \in Left(h) : p <= q}
           /\ beat' = [beat EXCEPT ![h] =
                [beat[h] EXCEPT !.at = "alerting", !.next = q + 1, !.now = now]]
  <2>1. CASE alarm = {}
    BY <1>2, <2>1
  <2>2. CASE alarm # {}
    <3>1. PICK q \in alarm : q = (CHOOSE p \in alarm : TRUE)
      BY <2>2
    <3>2. ASSUME NEW p \in alarm PROVE p = q
      <4>1. p \in alarms /\ q \in alarms
        BY <1>5
      <4>2. p \in Nat /\ q \in Nat
        BY <1>4, <4>1
      <4>3. p <= q /\ q <= p
        BY <4>1
      <4> QED
        BY <4>2, <4>3
    <3>3. passed = {p \in Left(h) : p <= q}
      <4> HIDE DEF alarm
      <4>1. alarm = {q}
        BY <3>1, <3>2
      <4> QED
        BY <4>1
    <3>4. beat' = [beat EXCEPT ![h] =
                     [beat[h] EXCEPT !.at = "alerting", !.next = q + 1, !.now = now]]
      BY <1>2, <2>2, <3>1
    <3> QED
      BY <3>3, <3>4
  <2> QED
    BY <2>1, <2>2
<1>7. alarm \subseteq passed
  BY <1>1, <1>4, <1>5
<1>8. \A p \in alarm : Alarming(p)
  BY <1>4, <1>5
<1>9. passed \in SUBSET PrinterIds /\ alarm \in SUBSET PrinterIds
  BY <1>1, <1>5
<1> HIDE DEF alarm, passed, alarms
<1> USE <1>9
<1> WITNESS passed \in SUBSET PrinterIds, alarm \in SUBSET PrinterIds
<1> QED
  BY <1>2, <1>3, <1>5, <1>6, <1>7, <1>8, Zenon DEF Gone

\* When the check a heartbeat is in, or begins, began.
Began(h) == IF beat[h].at = "posting" THEN clock ELSE beat[h].now

\* What is noted is not noted again after the alert was posted.
LEMMA Checks ==
    ASSUME OfflineTypeOK, NEW h \in Heartbeats, BeginCheck(h) \/ CheckOn(h)
    PROVE  /\ beat[h].at \in {"posting", "alerting"}
           /\ Began(h) \in Nat
           /\ \E passed \in SUBSET PrinterIds, alarm \in SUBSET PrinterIds :
                  Gone(h, Began(h), passed, alarm)
<1>1. beat[h] \in Beats /\ clock \in Nat
  BY DEF OfflineTypeOK
<1>2. Noted(AlertedPrinter(h), TRUE) = {} /\ alerted \cup {} = alerted
  BY DEF Noted
<1>3. Began(h) \in Nat
  BY <1>1 DEF Began, Beats
<1>4. CASE BeginCheck(h)
  BY <1>3, <1>4, GoesThrough DEF BeginCheck, Began
<1>5. CASE CheckOn(h)
  BY <1>2, <1>3, <1>5, GoesThrough DEF CheckOn, Began
<1> QED
  BY <1>4, <1>5

\* A heartbeat that has come to its end, or not begun.
LEMMA NoBeatIsABeat == NoBeat \in Beats
BY DEF NoBeat, Beats

\* Every step keeps the types.
LEMMA OfflineTypeStep == ASSUME OfflineTypeOK, [OfflineNext]_offlineVars PROVE OfflineTypeOK'
<1>1. ASSUME NEW h \in Heartbeats, BeginBeat(h) PROVE OfflineTypeOK'
  <2>1. [NoBeat EXCEPT !.at = "probing", !.listing = known] \in Beats
    BY NoBeatIsABeat DEF OfflineTypeOK, Beats
  <2>2. beat' \in [Heartbeats -> Beats]
    BY <1>1, <2>1 DEF BeginBeat, OfflineTypeOK
  <2> QED
    BY <1>1, <2>2 DEF BeginBeat, OfflineTypeOK
<1>2. ASSUME NEW h \in Heartbeats, Probe(h) PROVE OfflineTypeOK'
  <2>1. PICK p \in Left(h) :
             /\ beat' = [beat EXCEPT ![h].next = p + 1, ![h].report[p] = p \in online]
             /\ seenUp' = [seenUp EXCEPT ![p] = IF p \in online THEN clock ELSE @]
    BY <1>2 DEF Probe
  <2>2. p \in PrinterIds /\ p + 1 \in Nat /\ beat[h] \in Beats
    BY DEF Left, OfflineTypeOK, Beats, PrinterIds
  <2>3. [beat[h] EXCEPT !.next = p + 1, !.report[p] = p \in online] \in Beats
    <3>1. ASSUME NEW answers \in BOOLEAN
          PROVE  [beat[h] EXCEPT !.next = p + 1, !.report[p] = answers] \in Beats
      <4>1. beat[h].report \in [PrinterIds -> BOOLEAN]
        BY <2>2 DEF Beats
      <4>2. [beat[h].report EXCEPT ![p] = answers] \in [PrinterIds -> BOOLEAN]
        BY <2>2, <4>1, Zenon
      <4> DEFINE Reports == [PrinterIds -> BOOLEAN]
                 report == [beat[h].report EXCEPT ![p] = answers]
      <4>3. /\ report \in Reports
            /\ beat[h] \in [at : {"idle", "probing", "posting", "alerting"},
                           listing : SUBSET PrinterIds, next : Nat, report : Reports, now : Nat]
        BY <2>2, <4>2, Zenon DEF Beats
      <4> HIDE DEF Reports, report
      <4>4. [beat[h] EXCEPT !.next = p + 1, !.report = report] \in
              [at : {"idle", "probing", "posting", "alerting"},
               listing : SUBSET PrinterIds, next : Nat, report : Reports, now : Nat]
        BY <2>2, <4>3
      <4> QED
        BY <4>4, Zenon DEF Beats, Reports, report
    <3>2. (p \in online) \in BOOLEAN
      OBVIOUS
    <3> QED
      BY <3>1, <3>2, Zenon
  <2>4. beat' \in [Heartbeats -> Beats]
    BY <2>1, <2>3 DEF OfflineTypeOK
  <2>5. seenUp' \in [PrinterIds -> Nat]
    BY <2>1 DEF OfflineTypeOK
  <2> QED
    BY <1>2, <2>4, <2>5 DEF Probe, OfflineTypeOK
<1>3. ASSUME NEW h \in Heartbeats, PostReport(h) PROVE OfflineTypeOK'
  <2>1. beat[h] \in Beats
    BY DEF OfflineTypeOK
  <2>2. [beat[h] EXCEPT !.at = "posting", !.next = 1] \in Beats
    BY <2>1 DEF Beats
  <2>3. beat' \in [Heartbeats -> Beats]
    BY <1>3, <2>2 DEF PostReport, OfflineTypeOK
  <2> QED
    BY <1>3, <2>3 DEF PostReport, OfflineTypeOK
<1>4. ASSUME NEW h \in Heartbeats, BeginCheck(h) \/ CheckOn(h) PROVE OfflineTypeOK'
  <2> DEFINE now == Began(h)
  <2>1. now \in Nat
    BY <1>4, Checks
  <2>2. PICK passed \in SUBSET PrinterIds, alarm \in SUBSET PrinterIds :
             Gone(h, now, passed, alarm)
    BY <1>4, Checks
  <2> HIDE DEF now
  <2>3. since' \in [PrinterIds -> Nat \cup {-1}]
    <3>1. \A p \in PrinterIds : Down(p, beat[h].report[p], now) \in Nat \cup {-1}
      BY <2>1 DEF Down, OfflineTypeOK
    <3> QED
      BY <2>2, <3>1 DEF Gone, OfflineTypeOK
  <2>4. alerted' \subseteq PrinterIds
    BY <2>2 DEF Gone, OfflineTypeOK
  <2>7. alerts' \in [PrinterIds -> Nat]
    <3>1. alerts' = [p \in PrinterIds |->
                       IF p \in {r \in passed : beat[h].report[r]} THEN 0
                       ELSE IF p \in alarm THEN alerts[p] + 1 ELSE alerts[p]]
      BY <2>2, Zenon DEF Gone
    <3> QED
      BY <3>1 DEF OfflineTypeOK
  <2>5. ASSUME NEW q \in alarm
        PROVE  [beat[h] EXCEPT !.at = "alerting", !.next = q + 1, !.now = now] \in Beats
    <3>1. q + 1 \in Nat /\ beat[h] \in Beats
      BY DEF PrinterIds, OfflineTypeOK
    <3> QED
      BY <2>1, <3>1 DEF Beats
  <2>6. beat' \in [Heartbeats -> Beats]
    BY <2>2, <2>5, NoBeatIsABeat DEF Gone, OfflineTypeOK
  <2> QED
    BY <2>2, <2>3, <2>4, <2>6, <2>7 DEF Gone, OfflineTypeOK
<1>5. ASSUME NEW p \in PrinterIds, Outage(p) PROVE OfflineTypeOK'
  BY <1>5 DEF Outage, OfflineTypeOK
<1>9. ASSUME NEW p \in PrinterIds, DeletePrinter(p) PROVE OfflineTypeOK'
  <2>1. highest' \in 0..MaxPrinterId
    BY <1>9, OfflineAssumption DEF DeletePrinter, OfflineTypeOK
  <2> QED
    BY <1>9, <2>1 DEF DeletePrinter, OfflineTypeOK
<1>6. CASE CreatePrinter
  <2>1. highest + 1 \in PrinterIds
    BY <1>6, OfflineAssumption DEF CreatePrinter, OfflineTypeOK, PrinterIds
  <2> QED
    BY <1>6, <2>1, OfflineAssumption DEF CreatePrinter, OfflineTypeOK, PrinterIds
<1>7. CASE RestartWorker
  BY <1>7, NoBeatIsABeat DEF RestartWorker, OfflineTypeOK
<1>8. CASE OfflineTick \/ UNCHANGED offlineVars
  BY <1>8 DEF OfflineTick, offlineVars, OfflineTypeOK
<1> QED
  BY <1>1, <1>2, <1>3, <1>4, <1>5, <1>6, <1>7, <1>8, <1>9 DEF OfflineNext

\* Every step keeps the alerts noted.
LEMMA NotedStep == ASSUME OfflineTypeOK, NotedInv, [OfflineNext]_offlineVars PROVE NotedInv'
<1>1. ASSUME UNCHANGED <<alerts, alerted>> PROVE NotedInv'
  BY <1>1 DEF NotedInv
<1>2. ASSUME NEW h \in Heartbeats, BeginCheck(h) \/ CheckOn(h) PROVE NotedInv'
  <2>1. PICK passed \in SUBSET PrinterIds, alarm \in SUBSET PrinterIds :
             Gone(h, Began(h), passed, alarm)
    BY <1>2, Checks
  <2> SUFFICES ASSUME NEW p \in PrinterIds
               PROVE  alerts'[p] <= IF p \in alerted' THEN 1 ELSE 0
    BY DEF NotedInv
  <2>2. alerts[p] \in Nat /\ alerts[p] <= IF p \in alerted THEN 1 ELSE 0
    BY DEF NotedInv, OfflineTypeOK
  <2>3. /\ p \in alarm => p \in passed /\ ~beat[h].report[p] /\ p \notin alerted
        /\ p \in alerted' <=> p \in alarm \/ (p \in alerted /\ ~(p \in passed /\ beat[h].report[p]))
    BY <2>1, Zenon DEF Gone
  <2>4. alerts' = [r \in PrinterIds |->
                     IF r \in {q \in passed : beat[h].report[q]} THEN 0
                     ELSE IF r \in alarm THEN alerts[r] + 1 ELSE alerts[r]]
    BY <2>1, Zenon DEF Gone
  <2>5. alerts'[p] = IF p \in passed /\ beat[h].report[p] THEN 0
                     ELSE IF p \in alarm THEN alerts[p] + 1 ELSE alerts[p]
    BY <2>4
  <2> QED
    BY <2>2, <2>3, <2>5
<1>3. ASSUME NEW h \in Heartbeats, BeginBeat(h) \/ Probe(h) \/ PostReport(h) PROVE NotedInv'
  BY <1>1, <1>3 DEF BeginBeat, Probe, PostReport
<1>4. ASSUME NEW p \in PrinterIds, Outage(p) \/ DeletePrinter(p) PROVE NotedInv'
  BY <1>1, <1>4 DEF Outage, DeletePrinter
<1>5. CASE RestartWorker
  BY <1>5 DEF RestartWorker, NotedInv
<1>6. CASE CreatePrinter \/ OfflineTick \/ UNCHANGED offlineVars
  BY <1>1, <1>6 DEF CreatePrinter, OfflineTick, offlineVars
<1> QED
  BY <1>2, <1>3, <1>4, <1>5, <1>6 DEF OfflineNext

\* Every step keeps what was seen in the past.
LEMMA ClockStep == ASSUME OfflineTypeOK, ClockInv, [OfflineNext]_offlineVars PROVE ClockInv'
<1>1. ASSUME seenUp' = seenUp, clock' = clock PROVE ClockInv'
  BY <1>1 DEF ClockInv
<1>2. ASSUME NEW h \in Heartbeats, Probe(h) PROVE ClockInv'
  BY <1>2 DEF Probe, ClockInv, OfflineTypeOK
<1>3. ASSUME NEW h \in Heartbeats, BeginCheck(h) \/ CheckOn(h) PROVE ClockInv'
  <2>1. PICK passed \in SUBSET PrinterIds, alarm \in SUBSET PrinterIds :
             Gone(h, Began(h), passed, alarm)
    BY <1>3, Checks
  <2> QED
    BY <1>1, <2>1 DEF Gone
<1>4. ASSUME NEW h \in Heartbeats, BeginBeat(h) \/ PostReport(h) PROVE ClockInv'
  BY <1>1, <1>4 DEF BeginBeat, PostReport
<1>5. ASSUME NEW p \in PrinterIds, Outage(p) \/ DeletePrinter(p) PROVE ClockInv'
  BY <1>1, <1>5 DEF Outage, DeletePrinter
<1>6. CASE CreatePrinter
  BY <1>6 DEF CreatePrinter, ClockInv, OfflineTypeOK
<1>7. CASE OfflineTick
  BY <1>7 DEF OfflineTick, ClockInv, OfflineTypeOK
<1>8. CASE RestartWorker \/ UNCHANGED offlineVars
  BY <1>1, <1>8 DEF RestartWorker, offlineVars
<1> QED
  BY <1>2, <1>3, <1>4, <1>5, <1>6, <1>7, <1>8 DEF OfflineNext

-----------------------------------------------------------------------------
(* Alerts: what holds of heartbeats apart.                                 *)

\* What holds as long as heartbeats do not overlap and ids do not come back.
OutageInv == ApartInv /\ DownInv /\ NowInv /\ AlertMeansOutage

\* Only the heartbeat there is can have been answered.
LEMMA OneBeat ==
    ASSUME ApartInv, NEW h \in Heartbeats, beat[h].at # "idle"
    PROVE  /\ \A g \in Heartbeats : g # h => beat[g].at = "idle"
           /\ \A g \in Heartbeats, p \in PrinterIds : Answered(g, p) => g = h
BY DEF ApartInv, Answered

\* A check keeps it: it notes the time of who did not answer, and has no alert
\* for a printer but that it did not answer since the time noted.
LEMMA OutageCheck ==
    ASSUME OfflineTypeOK, ClockInv, OutageInv,
           NEW h \in Heartbeats, BeginCheck(h) \/ CheckOn(h)
    PROVE  OutageInv'
<1> DEFINE now == Began(h)
<1>1. beat[h].at \in {"posting", "alerting"} /\ now \in Nat
  BY Checks
<1>2. PICK passed \in SUBSET PrinterIds, alarm \in SUBSET PrinterIds : Gone(h, now, passed, alarm)
  BY Checks
<1>3. /\ passed \subseteq Left(h) /\ alarm \subseteq passed
      /\ \A p \in alarm : ~beat[h].report[p] /\ now - Down(p, FALSE, now) >= Threshold
      /\ since' = [p \in PrinterIds |->
                     IF p \in passed THEN Down(p, beat[h].report[p], now) ELSE since[p]]
      /\ known' = known /\ highest' = highest /\ seenUp' = seenUp
  BY <1>2 DEF Gone
<1>4. \/ passed = Left(h) /\ beat' = [beat EXCEPT ![h] = NoBeat]
      \/ \E q \in alarm :
           /\ passed = {p \in Left(h) : p <= q}
           /\ beat' = [beat EXCEPT ![h] =
                [beat[h] EXCEPT !.at = "alerting", !.next = q + 1, !.now = now]]
  BY <1>2, Zenon DEF Gone
<1>5. beat[h] \in Beats /\ beat \in [Heartbeats -> Beats]
  BY DEF OfflineTypeOK
<1>6. \A g \in Heartbeats : g # h => beat[g].at = "idle" /\ beat'[g] = beat[g]
  BY <1>1, <1>4, <1>5, OneBeat DEF OutageInv
<1>7. ASSUME NEW p \in Left(h) PROVE seenUp[p] <= now
  <2>1. p \in PrinterIds
    BY <1>5 DEF Left, Beats
  <2> QED
    BY <1>1, <1>7, <2>1 DEF Began, ClockInv, OutageInv, NowInv
<1>8. ASSUME NEW p \in PrinterIds, since[p] # -1, since[p] < seenUp[p]
      PROVE  p \in Left(h) /\ beat[h].report[p]
  <2>1. Answered(h, p)
    BY <1>1, <1>8, OneBeat DEF OutageInv, DownInv
  <2> QED
    BY <1>1, <2>1 DEF Answered, Left
<1> HIDE DEF now
<1>9. \/ passed = Left(h) /\ beat'[h] = NoBeat
      \/ \E q \in alarm :
           /\ passed = {p \in Left(h) : p <= q}
           /\ beat'[h].at = "alerting" /\ beat'[h].next = q + 1 /\ beat'[h].now = now
           /\ beat'[h].listing = beat[h].listing /\ beat'[h].report = beat[h].report
  <2>1. CASE passed = Left(h) /\ beat' = [beat EXCEPT ![h] = NoBeat]
    BY <1>5, <2>1
  <2>2. ASSUME NEW q \in alarm,
               beat' = [beat EXCEPT ![h] =
                  [beat[h] EXCEPT !.at = "alerting", !.next = q + 1, !.now = now]]
        PROVE  /\ beat'[h].at = "alerting" /\ beat'[h].next = q + 1 /\ beat'[h].now = now
               /\ beat'[h].listing = beat[h].listing /\ beat'[h].report = beat[h].report
    BY <1>5, <2>2 DEF Beats
  <2> QED
    BY <1>4, <2>1, <2>2, Zenon
<1>10. ApartInv'
  <2>1. \A g \in Heartbeats : beat'[g].listing \subseteq beat[g].listing
    BY <1>6, <1>9 DEF NoBeat
  <2>2. \A p \in PrinterIds : highest < p => p \notin Left(h)
    BY DEF OutageInv, ApartInv, Left, OfflineTypeOK
  <2>3. \A p \in PrinterIds : highest' < p => since'[p] = -1
    BY <1>3, <2>2 DEF OutageInv, ApartInv
  <2> QED
    BY <1>3, <1>6, <2>1, <2>3 DEF OutageInv, ApartInv
<1>11. DownInv'
  <2> SUFFICES ASSUME NEW p \in PrinterIds, since'[p] # -1, since'[p] < seenUp'[p]
               PROVE  Answered(h, p)'
    BY DEF DownInv
  <2>1. p \notin passed
    <3> SUFFICES ASSUME p \in passed PROVE FALSE
      OBVIOUS
    <3>1. ~beat[h].report[p] /\ since'[p] = IF since[p] = -1 THEN now ELSE since[p]
      BY <1>3 DEF Down
    <3>2. since[p] = -1
      BY <1>3, <1>8, <3>1
    <3> QED
      BY <1>3, <1>7, <3>1, <3>2, <1>1 DEF OfflineTypeOK
  <2>2. p \in Left(h) /\ beat[h].report[p]
    BY <1>3, <1>8, <2>1
  <2>3. PICK q \in alarm :
             /\ passed = {r \in Left(h) : r <= q}
             /\ beat'[h].at = "alerting" /\ beat'[h].next = q + 1
             /\ beat'[h].listing = beat[h].listing /\ beat'[h].report = beat[h].report
    BY <1>9, <2>1, <2>2
  <2>4. q + 1 <= p
    BY <2>1, <2>2, <2>3 DEF PrinterIds
  <2> QED
    BY <2>2, <2>3, <2>4 DEF Answered, Left
<1>12. ASSUME NEW q \in alarm,
              passed = {p \in Left(h) : p <= q},
              beat'[h].next = q + 1, beat'[h].now = now, beat'[h].listing = beat[h].listing
       PROVE  /\ AlertedPrinter(h)' = q /\ q \in beat[h].listing
              /\ \A p \in Left(h)' : seenUp'[p] <= beat'[h].now
              /\ beat'[h].now - seenUp'[q] >= Threshold
  <2>1. q \in Left(h) /\ q \in PrinterIds /\ q \in Nat
    <3>1. q \in PrinterIds
      OBVIOUS
    <3> QED
      BY <1>3, <3>1 DEF PrinterIds
  <2>2. AlertedPrinter(h)' = q
    BY <1>12, <2>1 DEF AlertedPrinter
  <2>3. ASSUME NEW p \in Left(h)' PROVE p \in Left(h)
    <3>1. p \in PrinterIds /\ p \in Nat /\ p \in beat[h].listing /\ q + 1 <= p
      BY <1>5, <1>12 DEF Left, Beats, PrinterIds
    <3>2. beat[h].next <= q /\ beat[h].next \in Nat
      BY <1>5, <2>1 DEF Left, Beats
    <3> QED
      BY <2>1, <3>1, <3>2 DEF Left
  <2>4. ~beat[h].report[q] /\ now - Down(q, FALSE, now) >= Threshold
    BY <1>3
  <2>5. since[q] # -1 /\ now - since[q] >= Threshold
    BY <1>1, <2>4, OfflineAssumption DEF Down
  <2>6. ~(since[q] < seenUp[q])
    BY <1>8, <2>1, <2>4, <2>5
  <2>7. since[q] \in Int /\ seenUp[q] \in Int /\ now \in Int /\ Threshold \in Int
    BY <1>1, <2>1, OfflineAssumption DEF OfflineTypeOK
  <2>8. now - seenUp[q] >= Threshold
    BY <2>5, <2>6, <2>7
  <2> QED
    BY <1>3, <1>7, <1>12, <2>1, <2>2, <2>3, <2>8 DEF Left
<1>13. NowInv' /\ AlertMeansOutage'
  <2>1. ASSUME NEW g \in Heartbeats, beat'[g].at = "alerting"
        PROVE  /\ AlertedPrinter(g)' \in beat'[g].listing
               /\ \A p \in Left(g)' : seenUp'[p] <= beat'[g].now
               /\ beat'[g].now - seenUp'[AlertedPrinter(g)'] >= Threshold
    <3>1. g = h
      BY <1>6, <2>1
    <3>2. PICK q \in alarm :
               /\ passed = {p \in Left(h) : p <= q}
               /\ beat'[h].next = q + 1 /\ beat'[h].now = now
               /\ beat'[h].listing = beat[h].listing
      BY <1>9, <2>1, <3>1 DEF NoBeat
    <3> QED
      BY <1>12, <3>1, <3>2
  <2> QED
    BY <2>1, Zenon DEF NowInv, AlertMeansOutage
<1> QED
  BY <1>10, <1>11, <1>13 DEF OutageInv

\* A heartbeat that begins is the only one.
LEMMA OutageBegin ==
    ASSUME OfflineTypeOK, OutageInv, NEW h \in Heartbeats, BeginBeat(h), apart'
    PROVE  OutageInv'
<1>1. \A g \in Heartbeats : beat[g].at = "idle"
  BY DEF BeginBeat
<1>2. /\ beat' = [beat EXCEPT ![h] = [NoBeat EXCEPT !.at = "probing", !.listing = known]]
      /\ UNCHANGED <<known, highest, since, clock, seenUp>>
  BY DEF BeginBeat
<1>3. beat'[h].at = "probing" /\ beat'[h].listing = known
  BY <1>2 DEF NoBeat, OfflineTypeOK
<1>4. \A g \in Heartbeats : g # h => beat'[g] = beat[g]
  BY <1>2 DEF OfflineTypeOK
<1>5. ApartInv'
  BY <1>1, <1>2, <1>3, <1>4 DEF OutageInv, ApartInv
<1>6. DownInv'
  <2>1. \A g \in Heartbeats, p \in PrinterIds : ~Answered(g, p)
    BY <1>1 DEF Answered
  <2> QED
    BY <1>2, <2>1 DEF OutageInv, DownInv
<1>7. NowInv' /\ AlertMeansOutage'
  <2>1. \A g \in Heartbeats : beat'[g].at # "alerting"
    BY <1>1, <1>3, <1>4
  <2> QED
    BY <2>1 DEF NowInv, AlertMeansOutage
<1> QED
  BY <1>5, <1>6, <1>7 DEF OutageInv

\* A heartbeat that asks remembers who answered.
LEMMA OutageProbe ==
    ASSUME OfflineTypeOK, OutageInv, NEW h \in Heartbeats, Probe(h)
    PROVE  OutageInv'
<1>1. PICK p \in Left(h) :
           /\ beat' = [beat EXCEPT ![h].next = p + 1, ![h].report[p] = p \in online]
           /\ seenUp' = [seenUp EXCEPT ![p] = IF p \in online THEN clock ELSE @]
  BY DEF Probe
<1>2. beat[h].at = "probing" /\ UNCHANGED <<known, highest, since, clock>>
  BY DEF Probe
<1>3. \A g \in Heartbeats : g # h => beat[g].at = "idle" /\ beat'[g] = beat[g]
  BY <1>1, <1>2, OneBeat DEF OutageInv, OfflineTypeOK
<1>4. beat[h] \in Beats
  BY DEF OfflineTypeOK
<1>5. p \in PrinterIds /\ p \in Nat /\ p \in beat[h].listing /\ beat[h].next <= p
  BY <1>4 DEF Left, Beats, PrinterIds
<1>6. /\ beat'[h].at = "probing" /\ beat'[h].next = p + 1 /\ beat'[h].listing = beat[h].listing
      /\ beat'[h].report = [beat[h].report EXCEPT ![p] = p \in online]
  BY <1>1, <1>2, <1>4, <1>5 DEF OfflineTypeOK, Beats
<1>7. ApartInv'
  BY <1>2, <1>3, <1>6 DEF OutageInv, ApartInv
<1>8. DownInv'
  <2> SUFFICES ASSUME NEW q \in PrinterIds, since'[q] # -1, since'[q] < seenUp'[q]
               PROVE  Answered(h, q)'
    BY DEF DownInv
  <2>1. ASSUME since[q] < seenUp[q]
        PROVE  q \in beat[h].listing /\ beat[h].report[q] /\ q < beat[h].next
    <3>1. Answered(h, q)
      BY <1>2, <2>1, OneBeat DEF OutageInv, DownInv
    <3> QED
      BY <1>2, <3>1 DEF Answered
  <2>2. CASE q = p
    <3>1. ~(since[p] < seenUp[p])
      BY <1>4, <1>5, <2>1, <2>2 DEF Beats
    <3>2. p \in online
      BY <1>1, <1>2, <1>5, <2>2, <3>1 DEF OfflineTypeOK
    <3>3. beat'[h].report[p]
      BY <1>4, <1>5, <1>6, <3>2 DEF Beats
    <3> QED
      BY <1>5, <1>6, <2>2, <3>3 DEF Answered
  <2>3. CASE q # p
    <3>1. seenUp'[q] = seenUp[q] /\ since' = since
      BY <1>1, <1>2, <2>3 DEF OfflineTypeOK
    <3>2. q \in beat[h].listing /\ beat[h].report[q] /\ q < beat[h].next
      BY <2>1, <3>1
    <3>3. beat'[h].report[q]
      BY <1>4, <1>6, <2>3, <3>2 DEF Beats
    <3>4. q < p + 1
      BY <1>4, <1>5, <3>2 DEF Beats, PrinterIds
    <3> QED
      BY <1>6, <3>2, <3>3, <3>4 DEF Answered
  <2> QED
    BY <2>2, <2>3
<1>9. NowInv' /\ AlertMeansOutage'
  <2>1. \A g \in Heartbeats : beat'[g].at # "alerting"
    BY <1>3, <1>6
  <2> QED
    BY <2>1 DEF NowInv, AlertMeansOutage
<1> QED
  BY <1>7, <1>8, <1>9 DEF OutageInv

\* A heartbeat that has asked them all has gone through none of them.
LEMMA OutagePost ==
    ASSUME OfflineTypeOK, OutageInv, NEW h \in Heartbeats, PostReport(h)
    PROVE  OutageInv'
<1>1. /\ beat[h].at = "probing" /\ UNCHANGED <<known, highest, since, clock, seenUp>>
      /\ beat' = [beat EXCEPT ![h].at = "posting", ![h].next = 1]
  BY DEF PostReport
<1>2. \A g \in Heartbeats : g # h => beat[g].at = "idle" /\ beat'[g] = beat[g]
  BY <1>1, OneBeat DEF OutageInv, OfflineTypeOK
<1>3. /\ beat'[h].at = "posting" /\ beat'[h].next = 1 /\ beat'[h].listing = beat[h].listing
      /\ beat'[h].report = beat[h].report
  BY <1>1 DEF OfflineTypeOK, Beats
<1>4. ApartInv'
  BY <1>1, <1>2, <1>3 DEF OutageInv, ApartInv
<1>5. DownInv'
  <2> SUFFICES ASSUME NEW q \in PrinterIds, since'[q] # -1, since'[q] < seenUp'[q]
               PROVE  Answered(h, q)'
    BY DEF DownInv
  <2>1. Answered(h, q)
    BY <1>1, OneBeat DEF OutageInv, DownInv
  <2> QED
    BY <1>1, <1>3, <2>1 DEF Answered, PrinterIds
<1>6. NowInv' /\ AlertMeansOutage'
  <2>1. \A g \in Heartbeats : beat'[g].at # "alerting"
    BY <1>2, <1>3
  <2> QED
    BY <2>1 DEF NowInv, AlertMeansOutage
<1> QED
  BY <1>4, <1>5, <1>6 DEF OutageInv

\* A new printer is one no heartbeat has listed.
LEMMA OutageCreate ==
    ASSUME OfflineTypeOK, OutageInv, CreatePrinter
    PROVE  OutageInv'
<1>1. /\ highest < MaxPrinterId /\ highest' = highest + 1 /\ known' = known \cup {highest + 1}
      /\ seenUp' = [seenUp EXCEPT ![highest + 1] = clock]
      /\ beat' = beat /\ since' = since /\ clock' = clock
  BY DEF CreatePrinter
<1>2. highest \in Nat /\ highest + 1 \in PrinterIds
  BY <1>1, OfflineAssumption DEF OfflineTypeOK, PrinterIds
<1>3. since[highest + 1] = -1
  BY <1>2 DEF OutageInv, ApartInv
<1>4. \A p \in PrinterIds : p # highest + 1 => seenUp'[p] = seenUp[p]
  BY <1>1 DEF OfflineTypeOK
<1>5. \A h \in Heartbeats : \A p \in beat[h].listing : p \in PrinterIds /\ p # highest + 1
  BY <1>2 DEF OutageInv, ApartInv, OfflineTypeOK, Beats
<1>6. ApartInv'
  BY <1>1, <1>2 DEF OutageInv, ApartInv, PrinterIds
<1>7. DownInv'
  <2> SUFFICES ASSUME NEW q \in PrinterIds, since'[q] # -1, since'[q] < seenUp'[q]
               PROVE  \E h \in Heartbeats : Answered(h, q)'
    BY DEF DownInv
  <2>1. \E h \in Heartbeats : Answered(h, q)
    BY <1>1, <1>3, <1>4 DEF OutageInv, DownInv
  <2> QED
    BY <1>1, <2>1 DEF Answered
<1>8. NowInv' /\ AlertMeansOutage'
  <2>1. ASSUME NEW h \in Heartbeats, beat[h].at = "alerting"
        PROVE  /\ AlertedPrinter(h)' \in beat'[h].listing
               /\ \A p \in Left(h)' : seenUp'[p] <= beat'[h].now
               /\ seenUp'[AlertedPrinter(h)'] = seenUp[AlertedPrinter(h)]
    <3>1. AlertedPrinter(h)' = AlertedPrinter(h) /\ Left(h)' = Left(h)
      BY <1>1 DEF AlertedPrinter, Left
    <3>2. AlertedPrinter(h) \in beat[h].listing
      BY <2>1 DEF OutageInv, NowInv
    <3>3. \A p \in Left(h) : p \in beat[h].listing /\ seenUp[p] <= beat[h].now
      BY <2>1 DEF OutageInv, NowInv, Left
    <3> QED
      BY <1>1, <1>4, <1>5, <3>1, <3>2, <3>3
  <2>2. NowInv'
    BY <1>1, <2>1 DEF NowInv
  <2>3. \A h \in Heartbeats : AlertedPrinter(h)' = AlertedPrinter(h)
    BY <1>1 DEF AlertedPrinter
  <2>4. apart' = apart
    BY DEF CreatePrinter
  <2>5. AlertMeansOutage'
    BY <1>1, <2>1, <2>3, <2>4 DEF OutageInv, AlertMeansOutage
  <2> QED
    BY <2>2, <2>5
<1> QED
  BY <1>6, <1>7, <1>8 DEF OutageInv

\* Every step keeps it, but for those that let heartbeats overlap or ids come back.
LEMMA OutageStep ==
    ASSUME OfflineTypeOK, ClockInv, apart => OutageInv, [OfflineNext]_offlineVars
    PROVE  apart' => OutageInv'
<1> SUFFICES ASSUME apart' PROVE OutageInv'
  OBVIOUS
<1>1. ASSUME apart, UNCHANGED <<beat, since, seenUp, highest>>, known' \subseteq known
      PROVE  OutageInv'
  <2>1. \A h \in Heartbeats : /\ AlertedPrinter(h)' = AlertedPrinter(h)
                              /\ Left(h)' = Left(h)
                              /\ \A p \in PrinterIds : Answered(h, p)' <=> Answered(h, p)
    BY <1>1 DEF AlertedPrinter, Left, Answered
  <2>2. ApartInv' /\ DownInv' /\ NowInv'
    BY <1>1, <2>1 DEF OutageInv, ApartInv, DownInv, NowInv
  <2>3. AlertMeansOutage'
    BY <1>1, <2>1 DEF OutageInv, AlertMeansOutage
  <2> QED
    BY <2>2, <2>3 DEF OutageInv
<1>2. ASSUME NEW h \in Heartbeats, BeginBeat(h) PROVE OutageInv'
  BY <1>2, OutageBegin DEF BeginBeat
<1>3. ASSUME NEW h \in Heartbeats, Probe(h) PROVE OutageInv'
  BY <1>3, OutageProbe DEF Probe
<1>4. ASSUME NEW h \in Heartbeats, PostReport(h) PROVE OutageInv'
  BY <1>4, OutagePost DEF PostReport
<1>5. ASSUME NEW h \in Heartbeats, BeginCheck(h) \/ CheckOn(h) PROVE OutageInv'
  <2>1. PICK passed \in SUBSET PrinterIds, alarm \in SUBSET PrinterIds :
             Gone(h, Began(h), passed, alarm)
    BY <1>5, Checks
  <2>2. apart
    BY <2>1 DEF Gone
  <2> QED
    BY <1>5, <2>2, OutageCheck
<1>6. ASSUME NEW p \in PrinterIds, Outage(p) PROVE OutageInv'
  BY <1>1, <1>6 DEF Outage
<1>7. ASSUME NEW p \in PrinterIds, DeletePrinter(p) PROVE OutageInv'
  <2>1. apart /\ known # {p} /\ UNCHANGED <<beat, since, seenUp>> /\ known' \subseteq known
    BY <1>7 DEF DeletePrinter
  <2>2. highest' = highest
    BY <1>7, <2>1 DEF DeletePrinter
  <2> QED
    BY <1>1, <2>1, <2>2
<1>8. CASE CreatePrinter
  BY <1>8, OutageCreate DEF CreatePrinter
<1>9. CASE RestartWorker
  <2>1. /\ apart /\ beat' = [h \in Heartbeats |-> NoBeat] /\ since' = [p \in PrinterIds |-> -1]
        /\ UNCHANGED <<known, highest>>
    BY <1>9 DEF RestartWorker
  <2>2. \A h \in Heartbeats : beat'[h].at = "idle" /\ beat'[h].listing = {}
    BY <2>1 DEF NoBeat
  <2> QED
    BY <2>1, <2>2 DEF OutageInv, ApartInv, DownInv, NowInv, AlertMeansOutage
<1>10. CASE OfflineTick \/ UNCHANGED offlineVars
  BY <1>1, <1>10 DEF OfflineTick, offlineVars
<1> QED
  BY <1>2, <1>3, <1>4, <1>5, <1>6, <1>7, <1>8, <1>9, <1>10 DEF OfflineNext

-----------------------------------------------------------------------------
(* Alerts: theorems.                                                       *)

\* Every state of the heartbeats has its types and keeps its books.
THEOREM OfflineInvariance == OfflineSpec => []OfflineInv
<1>1. OfflineInit => OfflineInv
  <2> SUFFICES ASSUME OfflineInit PROVE OfflineInv
    OBVIOUS
  <2>1. PrinterIds \subseteq Nat /\ highest \in PrinterIds /\ highest \in 0..MaxPrinterId
    BY DEF OfflineInit, PrinterIds
  <2>2. known \subseteq PrinterIds /\ known = 1..highest
    BY OfflineAssumption DEF OfflineInit, PrinterIds
  <2>3. OfflineTypeOK
    BY <2>1, <2>2, NoBeatIsABeat DEF OfflineInit, OfflineTypeOK
  <2>4. NotedInv /\ ClockInv
    BY DEF OfflineInit, NotedInv, ClockInv
  <2>5. \A h \in Heartbeats : beat[h].at = "idle" /\ beat[h].listing = {}
    BY DEF OfflineInit, NoBeat
  <2>6. \A p \in PrinterIds : since[p] = -1
    BY DEF OfflineInit
  <2>7. ApartInv /\ DownInv /\ NowInv /\ AlertMeansOutage
    BY <2>2, <2>5, <2>6 DEF ApartInv, DownInv, NowInv, AlertMeansOutage
  <2> QED
    BY <2>3, <2>4, <2>7 DEF OfflineInv
<1>2. OfflineInv /\ [OfflineNext]_offlineVars => OfflineInv'
  BY OfflineTypeStep, NotedStep, ClockStep, OutageStep DEF OfflineInv, OutageInv
<1> QED
  BY <1>1, <1>2, PTL DEF OfflineSpec

\* _check_offline(): one alert for an outage, although heartbeats overlap.
THEOREM AlertedOnce == OfflineSpec => []OneAlertPerOutage
<1>1. OfflineInv => OneAlertPerOutage
  BY DEF OfflineInv, OfflineTypeOK, NotedInv, OneAlertPerOutage
<1> QED
  BY <1>1, OfflineInvariance, PTL

\* _check_offline(): an alert is of a printer that was down as long as it says.
THEOREM AlertsAreTrue == OfflineSpec => []AlertMeansOutage
<1>1. OfflineInv => AlertMeansOutage
  BY DEF OfflineInv, AlertMeansOutage
<1> QED
  BY <1>1, OfflineInvariance, PTL

-----------------------------------------------------------------------------
(* Limiter: the invariant.                                                 *)

\* How many hits have been taken out: always the oldest.
Popped == Len(admitted) - Len(hits)

\* The deque is what was let in last.
SuffixInv ==
    /\ Popped \in Nat
    /\ \A i \in 1..Len(hits) : hits[i] = admitted[Popped + i]

\* A check that is under way began in this tick or in the last one.
RecentInv ==
    /\ \A c \in Clients : /\ check[c].now <= time
                          /\ ~Resting(c) => time <= check[c].now + 1
    /\ \A i \in DOMAIN admitted : admitted[i] <= time

\* The threads whose count has passed.
Appending == {c \in Clients : check[c].at = "appending"}

\* Only they can bring the deque above its limit.
RoomInv == Len(hits) + Cardinality(Appending) <= Limit + Cardinality(Clients) - 1

\* Hits taken out and not yet stale.
Missed == {i \in 1..Popped : time - Window <= admitted[i]}

LostInv == Cardinality(Missed) <= lost

\* A check that is alone finds the deque in order, keeps only what is not stale,
\* and gets as far as its place says.
AloneInv ==
    /\ \A c, d \in Clients : ~Resting(c) /\ ~Resting(d) => c = d
    /\ Len(hits) <= Limit
    /\ \A i, k \in DOMAIN admitted : i <= k => admitted[i] <= admitted[k]
    /\ \A i \in 1..Popped : Stale(admitted[i], time)
    /\ \A c \in Clients :
         /\ ~Resting(c) =>
              /\ \A i \in 1..Popped : Stale(admitted[i], check[c].now)
              /\ \A i \in DOMAIN admitted : admitted[i] <= check[c].now
         /\ check[c].at \in {"comparing", "popping"} => hits # <<>>
         /\ check[c].at = "popping" => Stale(hits[1], check[c].now)
         /\ check[c].at = "counting" /\ hits # <<>> => ~Stale(hits[1], check[c].now)
         /\ check[c].at = "appending" => Len(hits) < Limit

\* Requests let in during the ticks from t - span to t, of a sequence of them.
InSpan(s, t, span) == {i \in DOMAIN s : t - span <= s[i] /\ s[i] <= t}
CountIn(s, t, span) == Cardinality(InSpan(s, t, span))

\* LimitHolds in these terms.
BoundInv ==
    \A t \in 0..time : CountIn(admitted, t, Window - 1) <= Limit + (Cardinality(Clients) - 1) + lost

ExactInv ==
    /\ \A t \in 0..time : CountIn(admitted, t, Window) <= Limit
    /\ \A c \in Clients :
         /\ check[c].at = "refused" => CountIn(admitted, check[c].now, Window) >= Limit
         /\ check[c].at # "failed"

LimiterInv ==
    /\ LimiterTypeOK /\ SuffixInv /\ RecentInv /\ RoomInv /\ LostInv
    /\ BoundInv
    /\ ~together => AloneInv /\ ExactInv
-----------------------------------------------------------------------------
(* Limiter: what the steps do to the deque and the count.                  *)

\* What is known of a sequence from its type.
LEMMA SeqFacts ==
    ASSUME NEW T, NEW s \in Seq(T)
    PROVE  Len(s) \in Nat /\ DOMAIN s = 1..Len(s) /\ \A i \in DOMAIN s : s[i] \in T
OBVIOUS

LEMMA TailFacts ==
    ASSUME NEW T, NEW s \in Seq(T), s # <<>>
    PROVE  /\ Tail(s) \in Seq(T) /\ Len(s) > 0 /\ Len(Tail(s)) = Len(s) - 1
           /\ Head(s) = s[1] /\ \A i \in 1..(Len(s) - 1) : Tail(s)[i] = s[i + 1]
OBVIOUS

\* A thread that goes on is the only one that moves.
LEMMA Going ==
    ASSUME LimiterTypeOK, NEW c \in Clients, NEW place \in Places, Goes(c, place)
    PROVE  /\ check' \in [Clients -> [at : Places, now : 0..MaxClock]]
           /\ check'[c] = [at |-> place, now |-> check[c].now]
           /\ \A d \in Clients \ {c} : check'[d] = check[d]
           /\ \A d \in Clients : check'[d].now = check[d].now
BY DEF LimiterTypeOK, Goes

\* Of a sequence, those after the first p and some of the first p.
LEMMA CountBound ==
    ASSUME NEW s \in Seq(0..MaxClock), NEW p \in Nat, NEW m \in Nat, Len(s) = p + m,
           NEW early \in SUBSET (1..p),
           NEW S \in SUBSET DOMAIN s, \A i \in S : i <= p => i \in early
    PROVE  Cardinality(S) \in Nat /\ Cardinality(early) \in Nat /\ Cardinality(S) <= m + Cardinality(early)
<1> DEFINE After == (p + 1)..Len(s)
<1>1. Len(s) \in Nat /\ DOMAIN s = 1..Len(s)
  BY SeqFacts
<1>2. IsFiniteSet(1..p)
  BY FS_Interval
<1>3. IsFiniteSet(early)
  BY <1>2, FS_Subset
<1>4. IsFiniteSet(After) /\ Cardinality(After) = m
  <2>1. p + 1 \in Int /\ Len(s) \in Int
    BY <1>1
  <2>2. /\ IsFiniteSet(After)
        /\ Cardinality(After) = IF p + 1 > Len(s) THEN 0 ELSE Len(s) - (p + 1) + 1
    BY <2>1, FS_Interval
  <2> QED
    BY <1>1, <2>2
<1>5. S \subseteq After \cup early
  BY <1>1
<1> HIDE DEF After
<1>6. /\ IsFiniteSet(After \cup early)
      /\ Cardinality(After \cup early) = Cardinality(After) + Cardinality(early) - Cardinality(After \cap early)
  BY <1>3, <1>4, FS_Union
<1>7. Cardinality(After \cap early) \in Nat
  BY <1>3, <1>4, FS_Intersection, FS_CardinalityType
<1>8. IsFiniteSet(S) /\ Cardinality(S) <= Cardinality(After \cup early)
  BY <1>5, <1>6, FS_Subset
<1>9. Cardinality(S) \in Nat /\ Cardinality(early) \in Nat
  BY <1>3, <1>8, FS_CardinalityType
<1> QED
  BY <1>4, <1>6, <1>7, <1>8, <1>9

\* Of requests let in, those of a set that holds the whole deque.
LEMMA CountReached ==
    ASSUME LimiterTypeOK, SuffixInv,
           NEW S \in SUBSET DOMAIN admitted, \A i \in DOMAIN admitted : i > Popped => i \in S
    PROVE  Cardinality(S) >= Len(hits)
<1> DEFINE Kept == (Popped + 1)..Len(admitted)
<1>1. Popped \in Nat /\ Len(admitted) \in Nat /\ Len(hits) \in Nat /\ Popped + Len(hits) = Len(admitted)
  BY DEF SuffixInv, LimiterTypeOK, Popped
<1>2. DOMAIN admitted = 1..Len(admitted)
  BY DEF LimiterTypeOK
<1>3. IsFiniteSet(S)
  <2>1. IsFiniteSet(DOMAIN admitted)
    BY <1>1, <1>2, FS_Interval
  <2> QED
    BY <2>1, FS_Subset
<1>4. Cardinality(Kept) = Len(hits)
  <2>1. Popped + 1 \in Int /\ Len(admitted) \in Int
    BY <1>1
  <2>2. Cardinality(Kept) = IF Popped + 1 > Len(admitted) THEN 0
                            ELSE Len(admitted) - (Popped + 1) + 1
    BY <2>1, FS_Interval
  <2> QED
    BY <1>1, <2>2
<1>5. Kept \subseteq S
  BY <1>1, <1>2
<1> HIDE DEF Kept
<1> QED
  BY <1>3, <1>4, <1>5, FS_Subset

\* What is let in stays let in.
LEMMA CountGrows ==
    ASSUME NEW s \in Seq(0..MaxClock), NEW n \in 0..MaxClock, NEW t \in Int, NEW span \in Int
    PROVE  /\ CountIn(s, t, span) \in Nat
           /\ CountIn(s, t, span) <= CountIn(Append(s, n), t, span)
           /\ ~(t - span <= n /\ n <= t) => CountIn(Append(s, n), t, span) = CountIn(s, t, span)
<1> DEFINE u == Append(s, n)
<1>1. Len(s) \in Nat /\ DOMAIN s = 1..Len(s) /\ \A i \in DOMAIN s : s[i] \in 0..MaxClock
  BY SeqFacts
<1>2. /\ u \in Seq(0..MaxClock) /\ Len(u) = Len(s) + 1 /\ DOMAIN u = 1..(Len(s) + 1)
      /\ \A i \in 1..Len(s) : u[i] = s[i]
      /\ u[Len(s) + 1] = n
  OBVIOUS
<1> HIDE DEF u
<1>3. IsFiniteSet(DOMAIN s) /\ IsFiniteSet(DOMAIN u)
  BY <1>1, <1>2, FS_Interval
<1>4. InSpan(s, t, span) \subseteq DOMAIN s /\ InSpan(u, t, span) \subseteq DOMAIN u
  BY DEF InSpan
<1>5. IsFiniteSet(InSpan(s, t, span)) /\ IsFiniteSet(InSpan(u, t, span))
  BY <1>3, <1>4, FS_Subset
<1>6. InSpan(s, t, span) \subseteq InSpan(u, t, span)
  BY <1>1, <1>2 DEF InSpan
<1>7. ASSUME ~(t - span <= n /\ n <= t) PROVE InSpan(u, t, span) = InSpan(s, t, span)
  BY <1>1, <1>2, <1>7 DEF InSpan
<1> QED
  BY <1>5, <1>6, <1>7, FS_CardinalityType, FS_Subset DEF CountIn, u

-----------------------------------------------------------------------------
(* Limiter: types.                                                         *)

\* Every step keeps the types.
LEMMA LimiterTypeStep ==
    ASSUME LimiterTypeOK, [LimiterNext]_limiterVars
    PROVE  LimiterTypeOK'
<1> USE LimiterAssumption
<1>1. ASSUME NEW c \in Clients, CheckBegins(c) PROVE LimiterTypeOK'
  <2>1. check' \in [Clients -> [at : Places, now : 0..MaxClock]]
    <3>1. [at |-> "looking", now |-> time] \in [at : Places, now : 0..MaxClock]
      BY DEF LimiterTypeOK, Places
    <3> QED
      BY <1>1, <3>1 DEF CheckBegins, LimiterTypeOK
  <2>2. checks' \in 0..MaxChecks
    BY <1>1 DEF CheckBegins, LimiterTypeOK
  <2> QED
    BY <1>1, <2>1, <2>2 DEF CheckBegins, LimiterTypeOK
<1>2. ASSUME NEW c \in Clients, Look(c) \/ Compare(c) \/ CountHits(c) PROVE LimiterTypeOK'
  <2>1. PICK place \in Places : Goes(c, place)
    BY <1>2 DEF Look, Compare, CountHits, Places
  <2>2. check' \in [Clients -> [at : Places, now : 0..MaxClock]]
    BY <2>1, Going
  <2> QED
    BY <1>2, <2>2 DEF Look, Compare, CountHits, LimiterTypeOK
<1>3. ASSUME NEW c \in Clients, Pop(c) PROVE LimiterTypeOK'
  <2>1. PICK place \in Places : Goes(c, place)
    BY <1>3 DEF Pop, Places
  <2>2. check' \in [Clients -> [at : Places, now : 0..MaxClock]]
    BY <2>1, Going
  <2>3. hits \in Seq(0..MaxClock) /\ lost \in Nat
    BY DEF LimiterTypeOK
  <2>4. hits' \in Seq(0..MaxClock)
    BY <1>3, <2>3, TailFacts DEF Pop
  <2>5. lost' \in Nat
    BY <1>3, <2>3 DEF Pop
  <2> QED
    BY <1>3, <2>2, <2>4, <2>5 DEF Pop, LimiterTypeOK
<1>4. ASSUME NEW c \in Clients, AppendHit(c) PROVE LimiterTypeOK'
  <2>1. Goes(c, "out") /\ "out" \in Places
    BY <1>4 DEF AppendHit, Places
  <2>2. check' \in [Clients -> [at : Places, now : 0..MaxClock]]
    BY <2>1, Going
  <2>3. check[c].now \in 0..MaxClock
    BY DEF LimiterTypeOK
  <2>4. hits' \in Seq(0..MaxClock) /\ admitted' \in Seq(0..MaxClock)
    BY <1>4, <2>3 DEF AppendHit, LimiterTypeOK
  <2> QED
    BY <1>4, <2>2, <2>4 DEF AppendHit, LimiterTypeOK
<1>5. CASE LimiterTick
  <2>1. time' \in 0..MaxClock
    BY <1>5 DEF LimiterTick, LimiterTypeOK
  <2> QED
    BY <1>5, <2>1 DEF LimiterTick, LimiterTypeOK
<1>6. CASE UNCHANGED limiterVars
  BY <1>6 DEF limiterVars, LimiterTypeOK
<1> QED
  BY <1>1, <1>2, <1>3, <1>4, <1>5, <1>6 DEF LimiterNext

-----------------------------------------------------------------------------
(* Limiter: the steps, by what they change.                                *)

\* What is known of the numbers in every state.
LEMMA Numbers ==
    ASSUME LimiterTypeOK
    PROVE  /\ Len(hits) \in Nat /\ Len(admitted) \in Nat
           /\ DOMAIN admitted = 1..Len(admitted) /\ \A i \in DOMAIN admitted : admitted[i] \in Int
           /\ Window \in Nat \ {0} /\ Limit \in Nat \ {0} /\ Cardinality(Clients) \in Nat
           /\ time \in Nat /\ lost \in Nat /\ \A c \in Clients : check[c].now \in Nat
<1>1. hits \in Seq(0..MaxClock) /\ admitted \in Seq(0..MaxClock)
  BY DEF LimiterTypeOK
<1>2. \A i \in DOMAIN admitted : admitted[i] \in 0..MaxClock
  BY <1>1, SeqFacts
<1>3. \A i \in DOMAIN admitted : admitted[i] \in Int
  BY <1>2
<1>4. Window \in Nat \ {0} /\ Limit \in Nat \ {0} /\ Cardinality(Clients) \in Nat
  BY LimiterAssumption, FS_CardinalityType
<1>5. time \in Nat /\ lost \in Nat /\ \A c \in Clients : check[c].now \in Nat
  BY DEF LimiterTypeOK
<1> QED
  BY <1>1, <1>3, <1>4, <1>5, SeqFacts

\* A step of one thread that leaves the deque alone keeps the bounds.
LEMMA LooksOnly ==
    ASSUME LimiterInv, NEW c \in Clients, LimiterTypeOK',
           UNCHANGED <<hits, time, admitted, lost>>,
           \A d \in Clients \ {c} : check'[d] = check[d],
           check'[c].now <= time, ~Resting(c)' => time <= check'[c].now + 1,
           check'[c].at = "appending" => check[c].at = "appending" \/ Len(hits) < Limit
    PROVE  SuffixInv' /\ RecentInv' /\ RoomInv' /\ LostInv' /\ BoundInv'
<1>1. SuffixInv' /\ LostInv'
  BY DEF LimiterInv, SuffixInv, LostInv, Missed, Popped
<1>2. RecentInv'
  BY DEF LimiterInv, RecentInv, Resting
<1>3. RoomInv'
  <2>1. IsFiniteSet(Clients) /\ Limit \in Nat
    BY LimiterAssumption
  <2>2. /\ IsFiniteSet(Appending) /\ Cardinality(Appending) \in Nat
        /\ IsFiniteSet(Appending') /\ Cardinality(Appending') \in Nat
        /\ Cardinality(Clients) \in Nat /\ Cardinality(Appending') <= Cardinality(Clients)
    <3>1. Appending \subseteq Clients /\ Appending' \subseteq Clients
      BY DEF Appending
    <3> QED
      BY <2>1, <3>1, FS_Subset, FS_CardinalityType
  <2>3. Len(hits) \in Nat
    BY DEF LimiterInv, LimiterTypeOK
  <2>4. CASE Appending' \subseteq Appending
    <3>1. Cardinality(Appending') <= Cardinality(Appending)
      BY <2>2, <2>4, FS_Subset
    <3> QED
      BY <2>1, <2>2, <2>3, <3>1 DEF LimiterInv, RoomInv
  <2>5. CASE ~(Appending' \subseteq Appending)
    <3>1. Len(hits) < Limit
      BY <2>5 DEF Appending
    <3> QED
      BY <2>1, <2>2, <2>3, <3>1 DEF RoomInv
  <2> QED
    BY <2>4, <2>5
<1>4. BoundInv'
  BY DEF LimiterInv, BoundInv
<1> QED
  BY <1>1, <1>2, <1>3, <1>4

\* What a check that only looks, or counts, does.
LEMMA LookStep ==
    ASSUME LimiterInv, NEW c \in Clients,
           CheckBegins(c) \/ Look(c) \/ Compare(c) \/ CountHits(c)
    PROVE  LimiterInv'
<1>1. LimiterTypeOK'
  BY LimiterTypeStep DEF LimiterInv, LimiterNext
<1>2. /\ UNCHANGED <<hits, time, admitted, lost>>
      /\ \A d \in Clients \ {c} : check'[d] = check[d]
      /\ check'[c] \in [at : Places, now : Int]
  BY DEF LimiterInv, LimiterTypeOK, CheckBegins, Look, Compare, CountHits, Goes, Places
<1>3. /\ time \in Nat /\ check'[c].now <= time
      /\ ~Resting(c)' => time <= check'[c].now + 1
      /\ check'[c].at = "appending" => Len(hits) < Limit
  <2>1. CASE CheckBegins(c)
    BY <2>1 DEF CheckBegins, LimiterInv, LimiterTypeOK, RecentInv, Resting
  <2>2. CASE Look(c) \/ Compare(c) \/ CountHits(c)
    <3>1. ~Resting(c)
      BY <2>2 DEF Look, Compare, CountHits, Resting
    <3>2. Len(hits) \in Nat /\ Limit \in Nat
      BY LimiterAssumption DEF LimiterInv, LimiterTypeOK
    <3>3. check'[c].now = check[c].now
      BY <2>2 DEF Look, Compare, CountHits, Goes, LimiterInv, LimiterTypeOK
    <3>4. check'[c].at = "appending" => Len(hits) < Limit
      BY <2>2, <3>2 DEF Look, Compare, CountHits, Goes, LimiterInv, LimiterTypeOK
    <3> QED
      BY <3>1, <3>3, <3>4 DEF LimiterInv, RecentInv, LimiterTypeOK
  <2> QED
    BY <2>1, <2>2
<1>4. SuffixInv' /\ RecentInv' /\ RoomInv' /\ LostInv' /\ BoundInv'
  BY <1>1, <1>2, <1>3, LooksOnly
<1>5. ASSUME ~together' PROVE AloneInv'
  <2>1. ~together /\ AloneInv
    <3>1. ~together
      BY <1>5 DEF CheckBegins, Look, Compare, CountHits
    <3> QED
      BY <3>1 DEF LimiterInv
  <2>2. \A d \in Clients \ {c} : Resting(d)
    <3>1. CASE CheckBegins(c)
      BY <1>5, <3>1 DEF CheckBegins
    <3>2. CASE Look(c) \/ Compare(c) \/ CountHits(c)
      BY <2>1, <3>2 DEF AloneInv, Look, Compare, CountHits, Resting
    <3> QED
      BY <3>1, <3>2
  <2>3. \A d, e \in Clients : ~Resting(d)' /\ ~Resting(e)' => d = e
    BY <1>2, <2>2 DEF Resting
  <2>4. /\ Popped' = Popped /\ DOMAIN admitted' = DOMAIN admitted
        /\ \A i \in DOMAIN admitted : admitted[i] \in Int /\ admitted[i] <= time
    <3>1. Popped' = Popped /\ DOMAIN admitted' = DOMAIN admitted
      BY <1>2 DEF Popped
    <3> QED
      BY <3>1, Numbers DEF LimiterInv, RecentInv
  <2>5. /\ \A i \in 1..Popped : Stale(admitted[i], check'[c].now)
        /\ \A i \in DOMAIN admitted : admitted[i] <= check'[c].now
    <3>1. CASE CheckBegins(c)
      <4>1. check'[c].now = time
        BY <3>1 DEF CheckBegins, LimiterInv, LimiterTypeOK
      <4> QED
        BY <2>1, <2>4, <4>1 DEF AloneInv
    <3>2. CASE Look(c) \/ Compare(c) \/ CountHits(c)
      <4>1. check'[c].now = check[c].now /\ ~Resting(c)
        BY <3>2 DEF Look, Compare, CountHits, Goes, LimiterInv, LimiterTypeOK, Resting
      <4> QED
        BY <2>1, <4>1 DEF AloneInv
    <3> QED
      BY <3>1, <3>2
  <2>6. /\ check'[c].at \in {"comparing", "popping"} => hits # <<>>
        /\ check'[c].at = "popping" => Stale(hits[1], check'[c].now)
        /\ check'[c].at = "counting" /\ hits # <<>> => ~Stale(hits[1], check'[c].now)
        /\ check'[c].at = "appending" => Len(hits) < Limit
    <3>1. hits # <<>> => Head(hits) = hits[1]
      BY DEF LimiterInv, LimiterTypeOK
    <3>2. check \in [Clients -> [at : Places, now : 0..MaxClock]]
      BY DEF LimiterInv, LimiterTypeOK
    <3>3. CASE CheckBegins(c)
      BY <3>2, <3>3 DEF CheckBegins
    <3>4. CASE Look(c)
      <4>1. check'[c].at = IF hits = <<>> THEN "counting" ELSE "comparing"
        BY <3>2, <3>4 DEF Look, Goes
      <4> QED
        BY <4>1
    <3>5. CASE Compare(c)
      <4>1. hits # <<>>
        BY <2>1, <3>5 DEF Compare, AloneInv
      <4>2. /\ check'[c].at = IF Stale(hits[1], check[c].now) THEN "popping" ELSE "counting"
            /\ check'[c].now = check[c].now
        BY <3>1, <3>2, <3>5, <4>1 DEF Compare, Goes
      <4> QED
        BY <4>1, <4>2
    <3>6. CASE CountHits(c)
      <4>1. check'[c].at \in {"refused", "appending"}
        BY <3>2, <3>6 DEF CountHits, Goes
      <4> QED
        BY <1>3, <4>1
    <3> QED
      BY <3>3, <3>4, <3>5, <3>6
  <2>7. \A d \in Clients \ {c} : check'[d].at \in {"out", "refused", "failed"}
    BY <1>2, <2>2 DEF Resting
  <2> QED
    BY <1>2, <2>1, <2>3, <2>4, <2>5, <2>6, <2>7 DEF AloneInv, Resting, Stale
<1>6. ASSUME ~together' PROVE ExactInv'
  <2>1. ~together /\ AloneInv /\ ExactInv
    <3>1. ~together
      BY <1>6 DEF CheckBegins, Look, Compare, CountHits
    <3> QED
      BY <3>1 DEF LimiterInv
  <2>2. check'[c].at # "failed"
    BY <2>1 DEF CheckBegins, Look, Compare, CountHits, Goes, LimiterInv, LimiterTypeOK, AloneInv, ExactInv
  <2>3. ASSUME check'[c].at = "refused" PROVE CountIn(admitted, check'[c].now, Window) >= Limit
    <3>1. check[c].at = "counting" /\ Len(hits) >= Limit /\ check'[c].now = check[c].now
      BY <2>3 DEF CheckBegins, Look, Compare, CountHits, Goes, LimiterInv, LimiterTypeOK
    <3> DEFINE S == InSpan(admitted, check[c].now, Window)
    <3>2. S \in SUBSET DOMAIN admitted
      BY DEF InSpan
    <3>3. /\ Popped \in Nat /\ Len(hits) \in Nat /\ DOMAIN admitted = 1..Len(admitted)
          /\ Popped + Len(hits) = Len(admitted) /\ Len(admitted) \in Nat
      BY DEF LimiterInv, LimiterTypeOK, SuffixInv, Popped
    <3>4. check[c].now \in Int /\ Window \in Int /\ Limit \in Nat \ {0}
      BY LimiterAssumption DEF LimiterInv, LimiterTypeOK
    <3>5. ASSUME NEW i \in DOMAIN admitted, i > Popped PROVE i \in S
      <4>1. hits # <<>> /\ Len(hits) >= 1
        BY <3>1, <3>4 DEF LimiterInv, LimiterTypeOK
      <4>2. ~Stale(hits[1], check[c].now) /\ hits[1] = admitted[Popped + 1]
        BY <2>1, <3>1, <3>3, <4>1 DEF LimiterInv, AloneInv, SuffixInv
      <4>3. Popped + 1 \in DOMAIN admitted /\ Popped + 1 <= i
        BY <3>3, <3>5, <4>1
      <4>4. admitted[Popped + 1] <= admitted[i] /\ admitted[i] <= check[c].now
        BY <2>1, <3>1, <4>3 DEF AloneInv, Resting
      <4>5. \A k \in DOMAIN admitted : admitted[k] \in Int
        <5>1. admitted \in Seq(0..MaxClock)
          BY DEF LimiterInv, LimiterTypeOK
        <5>2. \A k \in DOMAIN admitted : admitted[k] \in 0..MaxClock
          BY <5>1, SeqFacts
        <5> QED
          BY <5>2
      <4> QED
        BY <3>4, <4>2, <4>3, <4>4, <4>5 DEF Stale, InSpan
    <3> HIDE DEF S
    <3>6. Cardinality(S) >= Len(hits)
      BY <3>2, <3>5, CountReached DEF LimiterInv
    <3>7. IsFiniteSet(S)
      <4>1. IsFiniteSet(DOMAIN admitted)
        BY <3>3, FS_Interval
      <4> QED
        BY <3>2, <4>1, FS_Subset
    <3>8. Cardinality(S) \in Nat
      BY <3>7, FS_CardinalityType
    <3>9. Cardinality(S) >= Limit
      BY <3>1, <3>3, <3>4, <3>6, <3>8
    <3> QED
      BY <3>1, <3>9 DEF S, CountIn
  <2>4. \A d \in Clients \ {c} : check'[d] = check[d]
    BY <1>2
  <2> QED
    BY <1>2, <2>1, <2>2, <2>3, <2>4 DEF ExactInv
<1> QED
  BY <1>1, <1>4, <1>5, <1>6 DEF LimiterInv
\* popleft() moves the border between what was taken out and what is left.
LEMMA PopStep ==
    ASSUME LimiterInv, NEW c \in Clients, Pop(c)
    PROVE  LimiterInv'
<1>1. LimiterTypeOK'
  BY LimiterTypeStep DEF LimiterInv, LimiterNext
<1>2. /\ UNCHANGED <<time, checks, admitted, together>>
      /\ check[c].at = "popping" /\ ~Resting(c)
      /\ \A d \in Clients \ {c} : check'[d] = check[d]
      /\ check'[c].now = check[c].now
      /\ check'[c].at = IF hits = <<>> THEN "failed" ELSE "looking"
  BY DEF LimiterInv, LimiterTypeOK, Pop, Goes, Resting
<1>3. CASE hits = <<>>
  <2>1. UNCHANGED <<hits, lost>>
    BY <1>3 DEF Pop
  <2>2. check[c].now <= time /\ time <= check[c].now + 1
    BY <1>2 DEF LimiterInv, RecentInv
  <2>3. SuffixInv' /\ RecentInv' /\ RoomInv' /\ LostInv' /\ BoundInv'
    BY <1>1, <1>2, <1>3, <2>1, <2>2, LooksOnly
  <2>4. together
    BY <1>2, <1>3 DEF LimiterInv, AloneInv
  <2> QED
    BY <1>1, <1>2, <2>3, <2>4 DEF LimiterInv
<1>4. CASE hits # <<>>
  <2>1. /\ hits' = Tail(hits)
        /\ lost' = IF Stale(hits[1], check[c].now) THEN lost ELSE lost + 1
    <3>1. Head(hits) = hits[1]
      BY <1>4, TailFacts DEF LimiterInv, LimiterTypeOK
    <3> QED
      BY <1>4, <3>1 DEF Pop
  <2>2. /\ Len(hits) \in Nat /\ Len(hits) > 0 /\ Len(hits') = Len(hits) - 1
        /\ \A i \in 1..Len(hits') : hits'[i] = hits[i + 1]
    <3>1. hits \in Seq(0..MaxClock)
      BY DEF LimiterInv, LimiterTypeOK
    <3> QED
      BY <1>4, <2>1, <3>1, SeqFacts, TailFacts
  <2>3. /\ Popped \in Nat /\ Popped' = Popped + 1 /\ Len(admitted) \in Nat /\ Popped + Len(hits) = Len(admitted)
        /\ DOMAIN admitted = 1..Len(admitted)
    BY <1>2, <2>2, SeqFacts DEF LimiterInv, SuffixInv, Popped, LimiterTypeOK
  <2>4. SuffixInv'
    <3>1. ASSUME NEW i \in 1..Len(hits') PROVE hits'[i] = admitted'[Popped' + i]
      <4>1. i + 1 \in 1..Len(hits) /\ hits'[i] = hits[i + 1] /\ Popped' + i = Popped + (i + 1)
        <5>1. i + 1 \in 1..Len(hits)
          BY <2>2
        <5>2. Popped' + i = Popped + (i + 1)
          BY <2>3
        <5> QED
          BY <2>2, <5>1, <5>2
      <4>2. hits[i + 1] = admitted[Popped + (i + 1)]
        BY <4>1 DEF LimiterInv, SuffixInv
      <4> QED
        BY <1>2, <4>1, <4>2
    <3> QED
      BY <2>3, <3>1 DEF SuffixInv
  <2>5. RecentInv'
    BY <1>2 DEF LimiterInv, RecentInv, Resting
  <2>6. Appending' = Appending
    BY <1>2, <1>4 DEF Appending
  <2>7. IsFiniteSet(Appending) /\ Cardinality(Appending) \in Nat /\ Cardinality(Clients) \in Nat /\ Limit \in Nat
    <3>1. Appending \subseteq Clients /\ IsFiniteSet(Clients) /\ Limit \in Nat
      BY LimiterAssumption DEF Appending
    <3> QED
      BY <3>1, FS_Subset, FS_CardinalityType
  <2>8. RoomInv'
    BY <2>2, <2>6, <2>7 DEF LimiterInv, RoomInv
  <2>9. hits[1] = admitted[Popped'] /\ Popped' \in DOMAIN admitted /\ admitted[Popped'] \in Int
    <3>1. Popped' \in DOMAIN admitted /\ 1 \in 1..Len(hits)
      BY <2>2, <2>3
    <3> QED
      BY <2>3, <3>1, Numbers DEF LimiterInv, SuffixInv
  <2>10. /\ Window \in Nat /\ check[c].now \in Nat /\ time \in Nat /\ lost \in Nat
         /\ check[c].now <= time
    BY LimiterAssumption DEF LimiterInv, LimiterTypeOK, RecentInv
  <2>11. LostInv'
    <3>1. IsFiniteSet(Missed)
      <4>1. IsFiniteSet(1..Popped)
        BY <2>3, FS_Interval
      <4> QED
        BY <4>1, FS_Subset DEF Missed
    <3>2. CASE Stale(hits[1], check[c].now)
      <4>1. Missed' = Missed
        BY <1>2, <2>3, <2>9, <2>10, <3>2 DEF Missed, Stale
      <4> QED
        BY <2>1, <3>2, <4>1 DEF LimiterInv, LostInv
    <3>3. CASE ~Stale(hits[1], check[c].now)
      <4>1. Missed' \subseteq Missed \cup {Popped'}
        BY <1>2, <2>3 DEF Missed
      <4>2. /\ IsFiniteSet(Missed \cup {Popped'})
            /\ Cardinality(Missed \cup {Popped'}) <= Cardinality(Missed) + 1
            /\ Cardinality(Missed \cup {Popped'}) \in Nat /\ Cardinality(Missed) \in Nat
        BY <3>1, FS_AddElement, FS_CardinalityType
      <4>3. Cardinality(Missed') <= Cardinality(Missed \cup {Popped'}) /\ Cardinality(Missed') \in Nat
        BY <4>1, <4>2, FS_Subset, FS_CardinalityType
      <4> QED
        BY <2>1, <2>10, <3>3, <4>2, <4>3 DEF LimiterInv, LostInv
    <3> QED
      BY <3>2, <3>3
  <2>12. BoundInv'
    <3>1. ASSUME NEW t \in 0..time
          PROVE  CountIn(admitted, t, Window - 1) <= Limit + (Cardinality(Clients) - 1) + lost'
      <4>1. CountIn(admitted, t, Window - 1) <= Limit + (Cardinality(Clients) - 1) + lost
        BY DEF LimiterInv, BoundInv
      <4>2. lost' \in {lost, lost + 1}
        BY <2>1
      <4>3. CountIn(admitted, t, Window - 1) \in Nat
        <5>1. IsFiniteSet(DOMAIN admitted)
          BY <2>3, FS_Interval
        <5>2. IsFiniteSet(InSpan(admitted, t, Window - 1))
          BY <5>1, FS_Subset DEF InSpan
        <5> QED
          BY <5>2, FS_CardinalityType DEF CountIn
      <4> QED
        BY <2>7, <2>10, <4>1, <4>2, <4>3
    <3> QED
      BY <1>2, <3>1 DEF BoundInv
  <2>13. ASSUME ~together' PROVE AloneInv' /\ ExactInv'
    <3>1. AloneInv /\ ExactInv
      BY <1>2, <2>13 DEF LimiterInv
    <3>2. Stale(hits[1], check[c].now) /\ Stale(hits[1], time)
      BY <1>2, <2>9, <2>10, <3>1 DEF AloneInv, Stale
    <3>3. \A i \in 1..Popped' : Stale(admitted[i], check[c].now) /\ Stale(admitted[i], time)
      BY <1>2, <2>3, <2>9, <3>1, <3>2 DEF AloneInv
    <3>4. \A d \in Clients \ {c} : Resting(d)
      BY <1>2, <3>1 DEF AloneInv
    <3>5. AloneInv'
      <4>1. \A d \in Clients \ {c} : Resting(d)' /\ check'[d].at \in {"out", "refused", "failed"}
        BY <1>2, <3>4 DEF Resting
      <4>2. Limit \in Nat /\ Len(hits') <= Limit
        BY <2>2, <2>7, <3>1 DEF AloneInv
      <4>3. check'[c].at = "looking"
        BY <1>2, <1>4
      <4>4. \A i \in DOMAIN admitted : admitted[i] <= check'[c].now
        BY <1>2, <3>1 DEF AloneInv
      <4> QED
        BY <1>2, <3>1, <3>3, <4>1, <4>2, <4>3, <4>4 DEF AloneInv, Stale
    <3>6. ExactInv'
      BY <1>2, <1>4, <3>1 DEF ExactInv
    <3> QED
      BY <3>5, <3>6
  <2> QED
    BY <1>1, <2>4, <2>5, <2>8, <2>11, <2>12, <2>13 DEF LimiterInv
<1> QED
  BY <1>3, <1>4
\* A request let in is counted, and the deque was short enough.
LEMMA AppendStep ==
    ASSUME LimiterInv, NEW c \in Clients, AppendHit(c)
    PROVE  LimiterInv'
<1> DEFINE n == check[c].now
<1>1. LimiterTypeOK'
  BY LimiterTypeStep DEF LimiterInv, LimiterNext
<1>2. /\ UNCHANGED <<time, checks, lost, together>>
      /\ check[c].at = "appending" /\ ~Resting(c)
      /\ \A d \in Clients \ {c} : check'[d] = check[d]
      /\ check'[c].now = n /\ check'[c].at = "out"
      /\ hits' = Append(hits, n) /\ admitted' = Append(admitted, n)
  BY DEF LimiterInv, LimiterTypeOK, AppendHit, Goes, Resting
<1>3. /\ hits \in Seq(0..MaxClock) /\ admitted \in Seq(0..MaxClock) /\ n \in 0..MaxClock
      /\ admitted' \in Seq(0..MaxClock)
      /\ n \in Nat /\ time \in Nat /\ n <= time /\ time <= n + 1 /\ Window \in Nat \ {0}
      /\ lost \in Nat /\ Limit \in Nat /\ Cardinality(Clients) \in Nat
  BY <1>1, <1>2, Numbers DEF LimiterInv, LimiterTypeOK, RecentInv
<1> HIDE DEF n
<1>4. /\ Len(hits) \in Nat /\ Len(hits') = Len(hits) + 1
      /\ \A i \in 1..Len(hits) : hits'[i] = hits[i]
      /\ hits'[Len(hits) + 1] = n
  BY <1>2, <1>3
<1>5. /\ Len(admitted) \in Nat /\ Len(admitted') = Len(admitted) + 1
      /\ DOMAIN admitted = 1..Len(admitted) /\ DOMAIN admitted' = 1..(Len(admitted) + 1)
      /\ \A i \in 1..Len(admitted) : admitted'[i] = admitted[i]
      /\ admitted'[Len(admitted) + 1] = n
  BY <1>2, <1>3
<1>6. /\ Popped \in Nat /\ Popped' = Popped /\ Len(admitted) = Popped + Len(hits)
      /\ Len(admitted') = Popped + Len(hits')
  BY <1>4, <1>5 DEF LimiterInv, SuffixInv, Popped
<1>7. SuffixInv'
  <2>1. ASSUME NEW i \in 1..Len(hits') PROVE hits'[i] = admitted'[Popped' + i]
    <3>1. CASE i = Len(hits) + 1
      BY <1>4, <1>5, <1>6, <3>1
    <3>2. CASE i # Len(hits) + 1
      <4>1. i \in 1..Len(hits) /\ Popped + i \in 1..Len(admitted)
        BY <1>4, <1>6, <3>2
      <4> QED
        BY <1>4, <1>5, <1>6, <4>1 DEF LimiterInv, SuffixInv
    <3> QED
      BY <3>1, <3>2
  <2> QED
    BY <1>6, <2>1 DEF SuffixInv
<1>8. RecentInv'
  <2>1. \A i \in DOMAIN admitted' : admitted'[i] <= time
    BY <1>3, <1>5 DEF LimiterInv, RecentInv
  <2> QED
    BY <1>2, <1>3, <2>1 DEF LimiterInv, RecentInv, Resting
<1>9. RoomInv' /\ Len(hits') <= Limit + Cardinality(Clients) - 1
  <2>1. Appending' = Appending \ {c} /\ c \in Appending
    BY <1>2 DEF Appending
  <2>2. IsFiniteSet(Appending)
    <3>1. Appending \subseteq Clients /\ IsFiniteSet(Clients)
      BY LimiterAssumption DEF Appending
    <3> QED
      BY <3>1, FS_Subset
  <2>3. /\ Cardinality(Appending) \in Nat /\ Cardinality(Appending') \in Nat
        /\ Cardinality(Appending') = Cardinality(Appending) - 1
    BY <2>1, <2>2, FS_RemoveElement, FS_CardinalityType
  <2> QED
    BY <1>3, <1>4, <2>3 DEF LimiterInv, RoomInv
<1>10. Missed' = Missed /\ Missed \subseteq 1..Popped
  BY <1>2, <1>5, <1>6, <1>4 DEF Missed
<1>11. LostInv'
  BY <1>2, <1>10 DEF LimiterInv, LostInv
<1>12. BoundInv'
  <2>1. ASSUME NEW t \in 0..time
        PROVE  CountIn(admitted', t, Window - 1) <= Limit + (Cardinality(Clients) - 1) + lost
    <3>1. t \in Nat /\ Window - 1 \in Int /\ t \in Int
      BY <1>3
    <3>2. CASE n <= t
      <4> DEFINE S == InSpan(admitted', t, Window - 1)
      <4>1. S \in SUBSET DOMAIN admitted'
        BY DEF InSpan
      <4>2. ASSUME NEW i \in S, i <= Popped PROVE i \in Missed
        <5>1. i \in 1..Popped /\ i \in DOMAIN admitted /\ t - (Window - 1) <= admitted'[i]
          BY <1>4, <1>5, <1>6, <4>2 DEF InSpan
        <5>2. admitted'[i] = admitted[i] /\ admitted[i] \in Int
          BY <1>5, <5>1, Numbers DEF LimiterInv
        <5> QED
          BY <1>3, <3>1, <3>2, <5>1, <5>2 DEF Missed
      <4> HIDE DEF S
      <4>3. Len(hits') \in Nat
        BY <1>4
      <4>4. /\ Cardinality(S) \in Nat /\ Cardinality(Missed) \in Nat
            /\ Cardinality(S) <= Len(hits') + Cardinality(Missed)
        BY <1>3, <1>6, <1>10, <4>1, <4>2, <4>3, CountBound
      <4> QED
        BY <1>3, <1>9, <4>3, <4>4 DEF LimiterInv, LostInv, S, CountIn
    <3>3. CASE ~(n <= t)
      <4>1. CountIn(admitted', t, Window - 1) = CountIn(admitted, t, Window - 1)
        BY <1>2, <1>3, <3>1, <3>3, CountGrows
      <4> QED
        BY <4>1 DEF LimiterInv, BoundInv
    <3> QED
      BY <3>2, <3>3
  <2> QED
    BY <1>2, <2>1 DEF BoundInv
<1>13. ASSUME ~together' PROVE AloneInv' /\ ExactInv'
  <2>1. AloneInv /\ ExactInv
    BY <1>2, <1>13 DEF LimiterInv
  <2>2. \A d \in Clients : Resting(d)' /\ check'[d].at \in {"out", "refused", "failed"}
    BY <1>2, <2>1 DEF AloneInv, Resting
  <2>3. Len(hits') <= Limit
    BY <1>2, <1>3, <1>4, <2>1 DEF AloneInv
  <2>4. \A i \in DOMAIN admitted : admitted[i] <= n /\ admitted[i] \in Int
    BY <1>2, <2>1, Numbers DEF AloneInv, LimiterInv, n
  <2>5. ASSUME NEW i \in DOMAIN admitted', NEW k \in DOMAIN admitted', i <= k
        PROVE  admitted'[i] <= admitted'[k]
    <3>1. CASE k \in DOMAIN admitted
      <4>1. i \in DOMAIN admitted
        BY <1>5, <2>5, <3>1
      <4> QED
        BY <1>5, <2>1, <2>5, <3>1, <4>1 DEF AloneInv
    <3>2. CASE k \notin DOMAIN admitted
      <4>1. k = Len(admitted) + 1 /\ admitted'[k] = n
        BY <1>5, <3>2
      <4>2. CASE i = k
        BY <1>3, <4>1, <4>2
      <4>3. CASE i # k
        <5>1. i \in DOMAIN admitted
          BY <1>5, <4>1, <4>3
        <5> QED
          BY <1>5, <2>4, <4>1, <5>1
      <4> QED
        BY <4>2, <4>3
    <3> QED
      BY <3>1, <3>2
  <2>6. \A i \in 1..Popped : i \in DOMAIN admitted /\ admitted'[i] = admitted[i]
    BY <1>4, <1>5, <1>6
  <2>7. \A i \in 1..Popped : Stale(admitted[i], time) /\ Stale(admitted[i], n)
    BY <1>2, <2>1 DEF AloneInv, n
  <2>8. AloneInv'
    BY <1>2, <1>6, <2>2, <2>3, <2>5, <2>6, <2>7 DEF AloneInv, Stale
  <2>9. ASSUME NEW t \in 0..time PROVE CountIn(admitted', t, Window) <= Limit
    <3>1. t \in Nat /\ Window \in Int /\ t \in Int
      BY <1>3
    <3>2. CASE n <= t
      <4> DEFINE S == InSpan(admitted', t, Window)
      <4>1. S \in SUBSET DOMAIN admitted'
        BY DEF InSpan
      <4>2. ASSUME NEW i \in S, i <= Popped PROVE i \in {}
        <5>1. i \in 1..Popped /\ t - Window <= admitted'[i]
          BY <1>4, <1>5, <1>6, <4>2 DEF InSpan
        <5> QED
          BY <1>3, <2>4, <2>6, <2>7, <3>1, <3>2, <5>1 DEF Stale
      <4> HIDE DEF S
      <4>3. Len(hits') \in Nat /\ {} \in SUBSET (1..Popped)
        BY <1>4
      <4>4. Cardinality(S) \in Nat /\ Cardinality(S) <= Len(hits') + Cardinality({})
        BY <1>3, <1>6, <4>1, <4>2, <4>3, CountBound
      <4> QED
        BY <1>3, <2>3, <4>3, <4>4, FS_EmptySet DEF S, CountIn
    <3>3. CASE ~(n <= t)
      <4>1. CountIn(admitted', t, Window) = CountIn(admitted, t, Window)
        BY <1>2, <1>3, <3>1, <3>3, CountGrows
      <4> QED
        BY <2>1, <4>1 DEF ExactInv
    <3> QED
      BY <3>2, <3>3
  <2>10. ASSUME NEW d \in Clients, check'[d].at = "refused"
         PROVE  CountIn(admitted', check'[d].now, Window) >= Limit
    <3>1. d # c /\ check'[d] = check[d]
      BY <1>2, <2>10
    <3>2. check[d].now \in Int /\ Window \in Int
      BY <1>3, Numbers DEF LimiterInv
    <3>3. /\ CountIn(admitted, check[d].now, Window) \in Nat
          /\ CountIn(admitted, check[d].now, Window) <= CountIn(admitted', check[d].now, Window)
          /\ CountIn(admitted', check[d].now, Window) \in Nat
      <4>1. \A u \in Seq(0..MaxClock) : CountIn(u, check[d].now, Window) \in Nat
        BY <1>3, <3>2, CountGrows
      <4> QED
        BY <1>2, <1>3, <3>2, <4>1, CountGrows
    <3>4. CountIn(admitted, check[d].now, Window) >= Limit
      BY <2>1, <2>10, <3>1 DEF ExactInv
    <3> QED
      BY <1>3, <3>1, <3>3, <3>4
  <2>11. ExactInv'
    BY <1>2, <2>1, <2>2, <2>9, <2>10 DEF ExactInv
  <2> QED
    BY <2>8, <2>11
<1> QED
  BY <1>1, <1>7, <1>8, <1>9, <1>11, <1>12, <1>13 DEF LimiterInv
\* The clock goes on: what was taken out before is stale at the new time too.
LEMMA LimiterTickStep ==
    ASSUME LimiterInv, LimiterTick
    PROVE  LimiterInv'
<1>1. LimiterTypeOK'
  BY LimiterTypeStep DEF LimiterInv, LimiterNext
<1>2. /\ UNCHANGED <<hits, check, checks, admitted, lost, together>>
      /\ time' = time + 1
      /\ \A c \in Clients : ~Resting(c) => check[c].now = time
  BY DEF LimiterTick
<1>3. /\ time \in Nat /\ Window \in Nat \ {0} /\ lost \in Nat /\ Limit \in Nat /\ Cardinality(Clients) \in Nat
      /\ Len(hits) \in Nat /\ Len(admitted) \in Nat
      /\ DOMAIN admitted = 1..Len(admitted) /\ \A i \in DOMAIN admitted : admitted[i] \in Int
      /\ \A c \in Clients : check[c].now \in Nat
      /\ Popped \in Nat /\ Popped' = Popped /\ Len(admitted) = Popped + Len(hits)
      /\ admitted \in Seq(0..MaxClock)
  BY <1>2, Numbers DEF LimiterInv, LimiterTypeOK, SuffixInv, Popped
<1>4. SuffixInv' /\ RoomInv'
  BY <1>2 DEF LimiterInv, SuffixInv, RoomInv, Popped, Appending
<1>5. RecentInv'
  BY <1>2, <1>3 DEF LimiterInv, RecentInv, Resting
<1>6. Missed' \subseteq Missed /\ Missed \subseteq 1..Popped /\ IsFiniteSet(Missed)
      /\ Cardinality(Missed) \in Nat /\ Cardinality(Missed') \in Nat /\ Cardinality(Missed') <= Cardinality(Missed)
  <2>1. Missed' \subseteq Missed /\ Missed \subseteq 1..Popped
    BY <1>2, <1>3 DEF Missed
  <2>2. IsFiniteSet(1..Popped)
    BY <1>3, FS_Interval
  <2>3. IsFiniteSet(Missed)
    BY <2>1, <2>2, FS_Subset
  <2> QED
    BY <2>1, <2>3, FS_Subset, FS_CardinalityType
<1>7. LostInv'
  BY <1>2, <1>3, <1>6 DEF LimiterInv, LostInv
<1>8. Len(hits) <= Limit + Cardinality(Clients) - 1
  <2>1. Cardinality(Appending) \in Nat
    <3>1. Appending \subseteq Clients /\ IsFiniteSet(Clients)
      BY LimiterAssumption DEF Appending
    <3> QED
      BY <3>1, FS_Subset, FS_CardinalityType
  <2> QED
    BY <1>3, <2>1 DEF LimiterInv, RoomInv
<1>9. CountIn(admitted, time + 1, Window - 1) <= Limit + (Cardinality(Clients) - 1) + lost
  <2> DEFINE S == InSpan(admitted, time + 1, Window - 1)
  <2>1. S \in SUBSET DOMAIN admitted
    BY DEF InSpan
  <2>2. ASSUME NEW i \in S, i <= Popped PROVE i \in Missed
    BY <1>3, <2>2 DEF InSpan, Missed
  <2> HIDE DEF S
  <2>3. Cardinality(S) \in Nat /\ Cardinality(S) <= Len(hits) + Cardinality(Missed)
    BY <1>3, <1>6, <2>1, <2>2, CountBound
  <2> QED
    BY <1>3, <1>6, <1>8, <2>3 DEF LimiterInv, LostInv, S, CountIn
<1>10. BoundInv'
  <2>1. \A t \in 0..(time + 1) : t = time + 1 \/ t \in 0..time
    BY <1>3
  <2> QED
    BY <1>2, <1>9, <2>1 DEF LimiterInv, BoundInv
<1>11. ASSUME ~together' PROVE AloneInv' /\ ExactInv'
  <2>1. AloneInv /\ ExactInv
    BY <1>2, <1>11 DEF LimiterInv
  <2>2. \A i \in 1..Popped : i \in DOMAIN admitted /\ admitted[i] < time - Window /\ admitted[i] < (time + 1) - Window
    <3>1. ASSUME NEW i \in 1..Popped
          PROVE  i \in DOMAIN admitted /\ admitted[i] < time - Window /\ admitted[i] < (time + 1) - Window
      <4>1. i \in DOMAIN admitted
        BY <1>3
      <4>2. Stale(admitted[i], time)
        BY <2>1 DEF AloneInv
      <4> QED
        BY <1>3, <4>1, <4>2 DEF Stale
    <3> QED
      BY <3>1
  <2>3. AloneInv'
    BY <1>2, <1>3, <2>1, <2>2 DEF AloneInv, Resting, Stale
  <2>4. CountIn(admitted, time + 1, Window) <= Limit
    <3> DEFINE S == InSpan(admitted, time + 1, Window)
    <3>1. S \in SUBSET DOMAIN admitted
      BY DEF InSpan
    <3>2. ASSUME NEW i \in S, i <= Popped PROVE i \in {}
      BY <1>3, <2>2, <3>2 DEF InSpan
    <3> HIDE DEF S
    <3>3. {} \in SUBSET (1..Popped)
      OBVIOUS
    <3>4. Cardinality(S) \in Nat /\ Cardinality(S) <= Len(hits) + Cardinality({})
      BY <1>3, <3>1, <3>2, <3>3, CountBound
    <3>5. Len(hits) <= Limit
      BY <2>1 DEF AloneInv
    <3> QED
      BY <1>3, <3>4, <3>5, FS_EmptySet DEF S, CountIn
  <2>5. \A t \in 0..(time + 1) : t = time + 1 \/ t \in 0..time
    BY <1>3
  <2>6. ExactInv'
    BY <1>2, <2>1, <2>4, <2>5 DEF ExactInv
  <2> QED
    BY <2>3, <2>6
<1> QED
  BY <1>1, <1>4, <1>5, <1>7, <1>10, <1>11 DEF LimiterInv

-----------------------------------------------------------------------------
(* Limiter: the theorems.                                                  *)

\* A limiter begins with nothing let in.
LEMMA LimiterBegins == LimiterInit => LimiterInv
<1> SUFFICES ASSUME LimiterInit PROVE LimiterInv
  OBVIOUS
<1>1. /\ hits = <<>> /\ admitted = <<>> /\ time = 0 /\ lost = 0
      /\ \A c \in Clients : check[c].at = "out" /\ check[c].now = 0
  BY DEF LimiterInit
<1>2. LimiterTypeOK
  <2>1. 0 \in 0..MaxClock /\ 0 \in 0..MaxChecks
    BY LimiterAssumption
  <2>2. [at |-> "out", now |-> 0] \in [at : Places, now : 0..MaxClock]
    BY <2>1 DEF Places
  <2>3. check \in [Clients -> [at : Places, now : 0..MaxClock]]
    BY <2>2 DEF LimiterInit
  <2>4. <<>> \in Seq(0..MaxClock)
    OBVIOUS
  <2> QED
    <3>1. hits \in Seq(0..MaxClock) /\ admitted \in Seq(0..MaxClock)
      BY <1>1, <2>4
    <3>2. time \in 0..MaxClock /\ checks \in 0..MaxChecks /\ lost \in Nat /\ together \in BOOLEAN
      BY <2>1 DEF LimiterInit
    <3> QED
      BY <2>3, <3>1, <3>2 DEF LimiterTypeOK
<1>3. Popped = 0 /\ Len(hits) = 0 /\ DOMAIN admitted = {}
  BY <1>1 DEF Popped
<1>4. Limit \in Nat \ {0} /\ Window \in Nat \ {0} /\ Cardinality(Clients) \in Nat
  BY <1>2, Numbers
<1>5. Appending = {} /\ Missed = {}
  BY <1>1, <1>3 DEF Appending, Missed
<1>6. SuffixInv /\ RecentInv
  BY <1>1, <1>3 DEF SuffixInv, RecentInv
<1>7. RoomInv /\ LostInv
  BY <1>1, <1>3, <1>4, <1>5, FS_EmptySet DEF RoomInv, LostInv
<1>8. ASSUME NEW t, NEW span PROVE CountIn(admitted, t, span) = 0
  <2>1. InSpan(admitted, t, span) = {}
    BY <1>3 DEF InSpan
  <2> QED
    BY <2>1, FS_EmptySet DEF CountIn
<1>9. BoundInv
  BY <1>1, <1>4, <1>8 DEF BoundInv
<1>10. AloneInv
  BY <1>1, <1>3, <1>4 DEF AloneInv, Resting
<1>11. ExactInv
  BY <1>1, <1>4, <1>8 DEF ExactInv
<1> QED
  BY <1>2, <1>6, <1>7, <1>9, <1>10, <1>11 DEF LimiterInv

\* RateLimiter.check(), line by line: the invariant holds in every state.
THEOREM LimiterInvariance == LimiterSpec => []LimiterInv
<1>1. LimiterInv /\ [LimiterNext]_limiterVars => LimiterInv'
  <2> SUFFICES ASSUME LimiterInv, [LimiterNext]_limiterVars PROVE LimiterInv'
    OBVIOUS
  <2>1. ASSUME NEW c \in Clients, CheckBegins(c) \/ Look(c) \/ Compare(c) \/ CountHits(c)
        PROVE  LimiterInv'
    BY <2>1, LookStep
  <2>2. ASSUME NEW c \in Clients, Pop(c) PROVE LimiterInv'
    BY <2>2, PopStep
  <2>3. ASSUME NEW c \in Clients, AppendHit(c) PROVE LimiterInv'
    BY <2>3, AppendStep
  <2>4. CASE LimiterTick
    BY <2>4, LimiterTickStep
  <2>5. CASE UNCHANGED limiterVars
    BY <2>5 DEF limiterVars, LimiterInv, LimiterTypeOK, SuffixInv, RecentInv, RoomInv, LostInv,
                BoundInv, AloneInv, ExactInv, Popped, Appending, Missed, Resting
  <2> QED
    BY <2>1, <2>2, <2>3, <2>4, <2>5 DEF LimiterNext
<1> QED
  BY <1>1, LimiterBegins, PTL DEF LimiterSpec

\* RateLimiter.check(): what LimitHolds says of the requests let in, of a refusal and
\* of an IndexError, for any number of threads and requests, any limit and any minute.
THEOREM LimitKept == LimiterSpec => []LimitHolds
<1>1. LimiterInv => LimitHolds
  BY DEF LimiterInv, LimitHolds, BoundInv, ExactInv, CountIn, InSpan, LetIn
<1> QED
  BY <1>1, LimiterInvariance, PTL

-----------------------------------------------------------------------------
(* Assets: the invariant.                                                  *)

\* A deletion that has counted, and found nothing, knows of each format that
\* names its file now that it was saved since.
CountedInv ==
    \A s \in Stores, d \in AssetFormats :
        /\ job[s].at = "unlink" /\ job[s].file \notin Escaped
        /\ job[s].file \in uses[d]
        => <<s, d>> \in late

AssetsInv == AssetsTypeOK /\ CountedInv

\* Every step keeps the types.
LEMMA AssetsTypeStep == ASSUME AssetsTypeOK, [AssetsNext]_assetVars PROVE AssetsTypeOK'
<1> DEFINE AssetRows == Seq(Files \cup {NoAsset})
<1> USE AssetsAssumption
<1>1. ASSUME NEW s \in Stores, WriteFile(s) PROVE AssetsTypeOK'
  <2>1. PICK f \in Files :
             /\ disk' = disk \cup {f}
             /\ job' = [job EXCEPT ![s] = [Rest EXCEPT !.at = "insert", !.file = f]]
    BY <1>1 DEF WriteFile
  <2>2. [Rest EXCEPT !.at = "insert", !.file = f] \in AssetJobs
    BY DEF Rest, AssetJobs
  <2> QED
    BY <1>1, <2>1, <2>2 DEF WriteFile, AssetsTypeOK
<1>2. ASSUME NEW s \in Stores, InsertAsset(s) PROVE AssetsTypeOK'
  <2>1. assets' \in AssetRows
    BY <1>2 DEF InsertAsset, AssetsTypeOK, AssetJobs
  <2>2. Rest \in AssetJobs
    BY DEF Rest, AssetJobs
  <2> QED
    BY <1>2, <2>1, <2>2 DEF InsertAsset, AssetsTypeOK
<1>3. ASSUME NEW s \in Stores, FindAsset(s) PROVE AssetsTypeOK'
  <2>1. PICK i \in DOMAIN assets :
             job' = [job EXCEPT ![s] = [at |-> "count", row |-> i, file |-> assets[i]]]
    BY <1>3 DEF FindAsset
  <2>2. [at |-> "count", row |-> i, file |-> assets[i]] \in AssetJobs
    BY <2>1 DEF AssetJobs, AssetsTypeOK
  <2>3. removals' \in 0..MaxRemovals
    BY <1>3 DEF FindAsset, AssetsTypeOK
  <2> QED
    BY <1>3, <2>1, <2>2, <2>3 DEF FindAsset, AssetsTypeOK
<1>4. ASSUME NEW s \in Stores, CountReferences(s) PROVE AssetsTypeOK'
  <2>1. Rest \in AssetJobs /\ [job[s] EXCEPT !.at = "unlink"] \in AssetJobs
    BY DEF Rest, AssetJobs, AssetsTypeOK
  <2>2. job' \in [Stores -> AssetJobs]
    BY <1>4, <2>1 DEF CountReferences, AssetsTypeOK
  <2> QED
    BY <1>4, <2>2 DEF CountReferences, AssetsTypeOK
<1>5. ASSUME NEW s \in Stores, Unlink(s) PROVE AssetsTypeOK'
  <2>1. [job[s] EXCEPT !.at = "delete"] \in AssetJobs
    BY DEF AssetJobs, AssetsTypeOK
  <2> QED
    BY <1>5, <2>1 DEF Unlink, AssetsTypeOK
<1>6. ASSUME NEW s \in Stores, DeleteAsset(s) PROVE AssetsTypeOK'
  <2>1. assets \in [1..Len(assets) -> Files \cup {NoAsset}] /\ Len(assets) \in Nat
    BY DEF AssetsTypeOK
  <2>2. assets' \in [1..Len(assets) -> Files \cup {NoAsset}]
    BY <1>6, <2>1 DEF DeleteAsset
  <2>3. assets' \in AssetRows
    BY <2>1, <2>2
  <2>4. Rest \in AssetJobs
    BY DEF Rest, AssetJobs
  <2> QED
    BY <1>6, <2>3, <2>4 DEF DeleteAsset, AssetsTypeOK
<1>7. ASSUME NEW d \in AssetDocuments, SaveDocument(d) PROVE AssetsTypeOK'
  BY <1>7 DEF SaveDocument, AssetsTypeOK
<1>8. CASE UNCHANGED assetVars
  BY <1>8 DEF assetVars, AssetsTypeOK
<1> QED
  BY <1>1, <1>2, <1>3, <1>4, <1>5, <1>6, <1>7, <1>8 DEF AssetsNext

\* Every step keeps what a deletion knows.
LEMMA CountedStep == ASSUME AssetsInv, [AssetsNext]_assetVars PROVE CountedInv'
<1> USE DEF AssetsInv, AssetsTypeOK, CountedInv
<1>1. ASSUME NEW s \in Stores, WriteFile(s) PROVE CountedInv'
  <2>1. PICK f \in Files : job' = [job EXCEPT ![s] = [Rest EXCEPT !.at = "insert", !.file = f]]
    BY <1>1 DEF WriteFile
  <2> QED
    BY <1>1, <2>1 DEF WriteFile, Rest
<1>2. ASSUME NEW s \in Stores, InsertAsset(s) \/ DeleteAsset(s) PROVE CountedInv'
  BY <1>2 DEF InsertAsset, DeleteAsset, Rest
<1>3. ASSUME NEW s \in Stores, FindAsset(s) PROVE CountedInv'
  BY <1>3 DEF FindAsset
<1>4. ASSUME NEW s \in Stores, CountReferences(s) PROVE CountedInv'
  <2>1. ASSUME NEW t \in Stores, NEW d \in AssetFormats, t # s, <<t, d>> \in late
        PROVE  <<t, d>> \in late'
    BY <1>4, <2>1 DEF CountReferences
  <2>2. CASE Referenced(job[s].file)
    BY <1>4, <2>1, <2>2 DEF CountReferences, Rest
  <2>3. CASE ~Referenced(job[s].file)
    <3>1. job' = [job EXCEPT ![s] = [@ EXCEPT !.at = "unlink"]] /\ uses' = uses
      BY <1>4, <2>3 DEF CountReferences
    <3>2. job'[s].file = job[s].file
      BY <3>1 DEF AssetJobs
    <3> QED
      BY <2>1, <2>3, <3>1, <3>2 DEF Referenced
  <2> QED
    BY <2>2, <2>3
<1>5. ASSUME NEW s \in Stores, Unlink(s) PROVE CountedInv'
  BY <1>5 DEF Unlink
<1>6. ASSUME NEW d \in AssetDocuments, SaveDocument(d) PROVE CountedInv'
  BY <1>6 DEF SaveDocument
<1>7. CASE UNCHANGED assetVars
  BY <1>7 DEF assetVars
<1> QED
  BY <1>1, <1>2, <1>3, <1>4, <1>5, <1>6, <1>7 DEF AssetsNext

\* Every state a request on assets can lead to has its types, and what a
\* deletion counted still holds but for the documents saved since.
THEOREM AssetsInvariance == AssetsSpec => []AssetsInv
<1>1. AssetsInit => AssetsInv
  BY AssetsAssumption DEF AssetsInit, AssetsInv, AssetsTypeOK, AssetJobs, Rest, CountedInv
<1>2. AssetsInv /\ [AssetsNext]_assetVars => AssetsInv'
  BY AssetsTypeStep, CountedStep DEF AssetsInv
<1> QED
  BY <1>1, <1>2, PTL DEF AssetsSpec

\* delete(): only Unlink takes a file, and what it takes was counted.
THEOREM FormatsKeepFiles == AssetsSpec => FormatsKeepTheirFiles
<1> DEFINE
      Kept == \A f \in (disk \ disk') \ Escaped, d \in AssetFormats :
                f \in uses[d] =>
                    \E s \in Stores : job[s].at = "unlink" /\ job[s].file = f /\ <<s, d>> \in late
<1>1. AssetsInv /\ [AssetsNext]_assetVars => [Kept]_assetVars
  <2> SUFFICES ASSUME AssetsInv, AssetsNext, NEW f \in (disk \ disk') \ Escaped,
                      NEW d \in AssetFormats, f \in uses[d]
               PROVE  \E s \in Stores :
                          job[s].at = "unlink" /\ job[s].file = f /\ <<s, d>> \in late
    OBVIOUS
  <2>1. PICK s \in Stores : Unlink(s)
    BY DEF AssetsNext, WriteFile, InsertAsset, FindAsset, CountReferences, DeleteAsset,
           SaveDocument
  <2>2. job[s].at = "unlink" /\ job[s].file = f
    BY <2>1 DEF Unlink
  <2> QED
    BY <2>2 DEF AssetsInv, CountedInv
<1> QED
  BY <1>1, AssetsInvariance, PTL DEF AssetsSpec, FormatsKeepTheirFiles

-----------------------------------------------------------------------------
(* The parts side by side.                                                 *)

PrinterParts == {"registry", "dispatch", "pools", "offline", "limiter", "assets"}

\* A step is a step of one part, and leaves the others as they are.
LEMMA PrintersSteps ==
    ASSUME part \in PrinterParts, [PrintersNext]_printersVars
    PROVE  /\ part' \in PrinterParts
           /\ [Next]_vars /\ [DispatchNext]_dispatchVars /\ [PoolsNext]_poolVars
           /\ [OfflineNext]_offlineVars /\ [LimiterNext]_limiterVars /\ [AssetsNext]_assetVars
<1>1. CASE PrintersNext
  BY <1>1 DEF PrintersNext
<1>2. CASE UNCHANGED printersVars
  BY <1>2 DEF printersVars
<1> QED
  BY <1>1, <1>2

\* registry.py, render.py, pools.py, heartbeat.py, ratelimit.py and assets.py as modelled share
\* no state, so a behaviour of them together is one of each.
THEOREM PrintersAreTheirParts ==
    PrintersSpec => /\ Spec /\ DispatchSpec /\ PoolsSpec
                    /\ OfflineSpec /\ LimiterSpec /\ AssetsSpec
                    /\ [](part \in PrinterParts)
<1>1. PrintersInit => /\ part \in PrinterParts
                      /\ Init /\ DispatchInit /\ PoolsInit
                      /\ OfflineInit /\ LimiterInit /\ AssetsInit
  BY DEF PrintersInit, PrinterParts
<1>2. part \in PrinterParts /\ [PrintersNext]_printersVars
        => /\ (part \in PrinterParts)'
           /\ [Next]_vars /\ [DispatchNext]_dispatchVars /\ [PoolsNext]_poolVars
           /\ [OfflineNext]_offlineVars /\ [LimiterNext]_limiterVars /\ [AssetsNext]_assetVars
  BY PrintersSteps
<1> QED
  BY <1>1, <1>2, PTL
     DEF PrintersSpec, Spec, DispatchSpec, PoolsSpec, OfflineSpec, LimiterSpec, AssetsSpec

\* The variables of each of these parts keep their types, whichever part moves.
THEOREM PrintersTypeCorrect == PrintersSpec => []PrintersTypeOK
<1>1. ASSUME part \in PrinterParts, RegistryInv, DispatchInv, PoolsInv, OfflineInv, LimiterInv,
             AssetsInv
      PROVE  PrintersTypeOK
  <2>1. CASE part = "registry"
    BY <1>1, <2>1 DEF PrintersTypeOK, RegistryInv
  <2>2. CASE part = "dispatch"
    BY <1>1, <2>2 DEF PrintersTypeOK, DispatchInv
  <2>3. CASE part = "pools"
    BY <1>1, <2>3 DEF PrintersTypeOK, PoolsInv
  <2>4. CASE part = "offline"
    BY <1>1, <2>4 DEF PrintersTypeOK, OfflineInv
  <2>5. CASE part = "limiter"
    BY <1>1, <2>5 DEF PrintersTypeOK, LimiterInv
  <2>6. CASE part = "assets"
    BY <1>1, <2>6 DEF PrintersTypeOK, AssetsInv
  <2> QED
    BY <1>1, <2>1, <2>2, <2>3, <2>4, <2>5, <2>6 DEF PrinterParts
<1> QED
  BY <1>1, PrintersAreTheirParts, RegistryInvariance, DispatchInvariance, PoolsInvariance,
     OfflineInvariance, LimiterInvariance, AssetsInvariance, PTL

\* What was proved of configuration, rendering, pools, alerts, the limiter and the assets each
\* by itself holds of them together.
THEOREM PrintersKeepAll ==
    PrintersSpec => /\ [](/\ JobsKeepTheirPrinter /\ FailsForAReason /\ DoneIsTheRequest
                          /\ TurnsAreEven /\ FindsAReachable
                          /\ OneAlertPerOutage /\ AlertMeansOutage /\ LimitHolds)
                    /\ TablesAsPromised /\ UnracedEditsLand
                    /\ OnlyRacesMixParams /\ OnlyRacesStaleCaps
                    /\ ImportMakesNoTwins /\ ChangesAreAudited /\ FormatsKeepTheirFiles
  BY PrintersAreTheirParts, JobsKeepTheirs, GriefHasAReason, WhatIsDoneWasAsked,
     MembersTakeTurns, NoMemberMissed, AlertedOnce, AlertsAreTrue, LimitKept,
     TablesKeepVersions, NoLostUpdate, ParamsFitTheirPrinter, CapsFitTheirPrinter, NoTwins,
     AuditedUnlessRaced, FormatsKeepFiles, PTL
==============================================================================
