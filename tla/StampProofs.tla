----------------------------- MODULE StampProofs -----------------------------
(****************************************************************************)
(* Stamps order the audit trail and wake the worker: an untouched table     *)
(* verifies, for any number of threads, rows and sweeps (AuditChain), and a *)
(* stamp keeps time to the minute, for any clock (Schedule).                *)
(****************************************************************************)
EXTENDS AuditChain, Schedule, FiniteSetTheorems, Extrema, TLAPS

-----------------------------------------------------------------------------
(* Audit: the invariant.                                                   *)

\* The threads that are in config_change().
Busy == {w \in Writers : appender[w].at # "idle"}

\* There is an id left for each of them.
RoomInv == newest + Cardinality(Busy) <= MaxEntries

\* The rows kept are the newest ones.
SuffixInv == \A i \in kept : \A k \in i..newest : k \in kept

\* Rows are stamped in order of id, and none later than now.
StampsInv ==
    /\ \A i, k \in kept : i <= k => stampOf[i].minute <= stampOf[k].minute
    /\ \A i \in kept : stampOf[i].minute <= auditMinute

\* What a row after row i is linked to.
LinkTo(i) == IF i <= Unhashed THEN Genesis ELSE i

\* A row is linked to the one before it if that one is kept.
LinksInv == \A i \in kept : i > Unhashed /\ i - 1 \in kept => link[i] = LinkTo(i - 1)

\* A thread whose table was left alone has a stamp not before the last row's, and
\* the link to it.
AppendersInv ==
    \A w \in Busy :
        /\ appender[w].stamp.minute <= auditMinute
        /\ ~disturbed[w] =>
              /\ \A i \in kept : stampOf[i].minute <= appender[w].stamp.minute
              /\ appender[w].at = "linked" /\ kept # {} => appender[w].link = LinkTo(newest)

\* As long as no appends overlap and no sweep cuts within a minute.
ChainInv == SuffixInv /\ StampsInv /\ LinksInv /\ AppendersInv

AuditInv ==
    /\ AuditTypeOK /\ RoomInv
    /\ newest >= Unhashed
    /\ ~overlapped /\ ~torn => ChainInv

-----------------------------------------------------------------------------
(* Audit: types and room.                                                  *)

\* The last row of a table is one of its rows.
LEMMA LastIsARow ==
    ASSUME NEW n \in Nat, NEW S, S \subseteq 1..n, S # {}
    PROVE  LastOf(S) \in S /\ \A k \in S : k <= LastOf(S)
<1>1. S \subseteq 0..n
  OBVIOUS
<1>2. \E i \in S : \A k \in S : k <= i
  BY <1>1, GreatestMember
<1> QED
  BY <1>2 DEF LastOf

\* A member none exceeds is the last.
LEMMA LastIsGreatest ==
    ASSUME NEW n \in Nat, NEW S, S \subseteq 1..n, NEW i \in S, \A k \in S : k <= i
    PROVE  LastOf(S) = i
<1>1. LastOf(S) \in S /\ i <= LastOf(S) /\ LastOf(S) <= i
  <2>1. S # {}
    OBVIOUS
  <2> QED
    BY <2>1, LastIsARow
<1>2. LastOf(S) \in Nat /\ i \in Nat
  <2>1. LastOf(S) \in 1..n /\ i \in 1..n
    BY <1>1, Zenon
  <2> QED
    BY <2>1
<1> QED
  BY <1>1, <1>2

\* What _last_hash() returns is a row, or no row.
LEMMA LastHashIsALink ==
    ASSUME AuditTypeOK
    PROVE  LastHash \in Entries \cup {Genesis}
<1>1. CASE kept = {}
  BY <1>1 DEF LastHash
<1>2. CASE kept # {}
  <2>1. LastOf(kept) \in kept
    BY <1>2, LastIsARow DEF AuditTypeOK
  <2>2. LastOf(kept) \in Entries
    <3>1. LastOf(kept) \in 1..newest
      BY <2>1, Zenon DEF AuditTypeOK
    <3> QED
      BY <3>1, AuditAssumption DEF AuditTypeOK, Entries
  <2> QED
    BY <2>2 DEF LastHash
<1> QED
  BY <1>1, <1>2

\* Threads come and go one at a time.
LEMMA BusyMoves ==
    ASSUME AuditTypeOK, NEW w \in Writers, NEW a \in Appenders, appender' = [appender EXCEPT ![w] = a]
    PROVE  /\ Busy' = IF a.at = "idle" THEN Busy \ {w} ELSE Busy \cup {w}
           /\ IsFiniteSet(Busy) /\ Cardinality(Busy) \in Nat
           /\ Cardinality(Busy') = IF a.at = "idle"
                                   THEN IF w \in Busy THEN Cardinality(Busy) - 1 ELSE Cardinality(Busy)
                                   ELSE IF w \in Busy THEN Cardinality(Busy) ELSE Cardinality(Busy) + 1
<1>1. Busy' = IF a.at = "idle" THEN Busy \ {w} ELSE Busy \cup {w}
  BY DEF Busy, AuditTypeOK
<1>2. IsFiniteSet(Busy) /\ Cardinality(Busy) \in Nat
  <2>1. Busy \in SUBSET Writers /\ IsFiniteSet(Writers)
    BY AuditAssumption DEF Busy
  <2> QED
    BY <2>1, FS_Subset, FS_CardinalityType
<1>3. CASE a.at = "idle"
  BY <1>1, <1>2, <1>3, FS_RemoveElement
<1>4. CASE a.at # "idle"
  BY <1>1, <1>2, <1>4, FS_AddElement
<1> QED
  BY <1>1, <1>2, <1>3, <1>4

\* Every step keeps types and room.
LEMMA AuditTypeStep ==
    ASSUME AuditTypeOK, RoomInv, newest >= Unhashed, [AuditNext]_auditVars
    PROVE  AuditTypeOK' /\ RoomInv' /\ newest' >= Unhashed
<1> USE AuditAssumption
<1>1. ASSUME NEW w \in Writers, TakeStamp(w) PROVE AuditTypeOK' /\ RoomInv' /\ newest' >= Unhashed
  <2>1. PICK s \in StampsOf(auditMinute) :
             appender' = [appender EXCEPT ![w] = [@ EXCEPT !.at = "stamped", !.stamp = s]]
    BY <1>1 DEF TakeStamp, AuditTypeOK
  <2> DEFINE a == [appender[w] EXCEPT !.at = "stamped", !.stamp = s]
  <2>2. a \in Appenders /\ a.at = "stamped"
    <3>1. s \in StampSet /\ appender[w] \in Appenders
      BY DEF StampsOf, StampSet, AuditTypeOK
    <3> QED
      BY <3>1 DEF Appenders, AuditSteps
  <2>3. appender' = [appender EXCEPT ![w] = a]
    BY <2>1
  <2> HIDE DEF a
  <2>4. w \notin Busy
    BY <1>1 DEF TakeStamp, Busy
  <2>5. newest' = newest /\ newest + Cardinality(Busy) < MaxEntries
    BY <1>1 DEF TakeStamp, Busy
  <2>6. RoomInv'
    <3>1. Cardinality(Busy') = Cardinality(Busy) + 1 /\ Cardinality(Busy) \in Nat
      BY <2>2, <2>3, <2>4, BusyMoves
    <3> QED
      BY <2>5, <3>1 DEF RoomInv, AuditTypeOK
  <2>7. appender' \in [Writers -> Appenders] /\ disturbed' \in [Writers -> BOOLEAN]
    BY <1>1, <2>2, <2>3, Zenon DEF TakeStamp, AuditTypeOK
  <2> QED
    BY <1>1, <2>6, <2>7 DEF TakeStamp, AuditTypeOK
<1>2. ASSUME NEW w \in Writers, ReadLastHash(w)
      PROVE  AuditTypeOK' /\ RoomInv' /\ newest' >= Unhashed
  <2> DEFINE a == [appender[w] EXCEPT !.at = "linked", !.link = LastHash]
  <2>1. a \in Appenders /\ a.at = "linked"
    <3>1. appender[w] \in Appenders
      BY DEF AuditTypeOK
    <3> QED
      BY <3>1, LastHashIsALink DEF Appenders, AuditSteps
  <2>2. appender' = [appender EXCEPT ![w] = a]
    BY <1>2 DEF ReadLastHash, AuditTypeOK
  <2> HIDE DEF a
  <2>3. w \in Busy /\ newest' = newest
    BY <1>2 DEF ReadLastHash, Busy
  <2>4. RoomInv'
    BY <2>1, <2>2, <2>3, BusyMoves DEF RoomInv
  <2>5. appender' \in [Writers -> Appenders]
    BY <2>1, <2>2 DEF AuditTypeOK
  <2> QED
    BY <1>2, <2>4, <2>5 DEF ReadLastHash, AuditTypeOK
<1>3. ASSUME NEW w \in Writers, AppendEntry(w)
      PROVE  AuditTypeOK' /\ RoomInv' /\ newest' >= Unhashed
  <2> DEFINE a == [appender[w] EXCEPT !.at = "idle"]
  <2>1. a \in Appenders /\ a.at = "idle"
    <3>1. appender[w] \in Appenders
      BY DEF AuditTypeOK
    <3> QED
      BY <3>1 DEF Appenders, AuditSteps
  <2>2. appender' = [appender EXCEPT ![w] = a]
    BY <1>3 DEF AppendEntry, AuditTypeOK
  <2> HIDE DEF a
  <2>3. w \in Busy /\ newest' = newest + 1
    BY <1>3 DEF AppendEntry, Busy
  <2>4. /\ Cardinality(Busy) \in Nat /\ Cardinality(Busy') = Cardinality(Busy) - 1
        /\ Cardinality(Busy') \in Nat
    <3>1. Cardinality(Busy) \in Nat /\ Cardinality(Busy') = Cardinality(Busy) - 1
      BY <2>1, <2>2, <2>3, BusyMoves
    <3>2. Cardinality(Busy) # 0
      BY <2>1, <2>2, <2>3, BusyMoves, FS_EmptySet
    <3> QED
      BY <3>1, <3>2
  <2>5. RoomInv' /\ newest' \in Nat /\ newest' <= MaxEntries
    BY <2>3, <2>4 DEF RoomInv, AuditTypeOK
  <2>6. appender' \in [Writers -> Appenders]
    BY <2>1, <2>2 DEF AuditTypeOK
  <2>7. kept' \subseteq 1..newest'
    BY <1>3, <2>3 DEF AppendEntry, AuditTypeOK
  <2>8. appender[w] \in Appenders
    BY DEF AuditTypeOK
  <2>9. link' \in [Entries -> Entries \cup {Genesis}] /\ stampOf' \in [Entries -> StampSet]
    BY <1>3, <2>8 DEF AppendEntry, AuditTypeOK, Appenders
  <2>10. disturbed' \in [Writers -> BOOLEAN] /\ {overlapped', torn'} \subseteq BOOLEAN
    BY <1>3, Zenon DEF AppendEntry, DisturbAllBut, AuditTypeOK
  <2>11. auditMinute' \in Nat /\ newest' >= Unhashed
    BY <1>3, <2>3 DEF AppendEntry, AuditTypeOK
  <2> QED
    BY <2>5, <2>6, <2>7, <2>9, <2>10, <2>11 DEF AuditTypeOK
<1>4. CASE PruneAudit
  <2>1. Busy' = Busy /\ newest' = newest
    BY <1>4 DEF PruneAudit, Busy
  <2>2. disturbed' \in [Writers -> BOOLEAN] /\ {overlapped', torn'} \subseteq BOOLEAN
    BY <1>4, Zenon DEF PruneAudit, DisturbAllBut, AuditTypeOK
  <2>3. kept' \subseteq kept
    BY <1>4 DEF PruneAudit
  <2> QED
    BY <1>4, <2>1, <2>2, <2>3 DEF PruneAudit, AuditTypeOK, RoomInv
<1>5. CASE AuditTick
  <2>1. Busy' = Busy
    BY <1>5 DEF AuditTick, Busy
  <2> QED
    BY <1>5, <2>1 DEF AuditTick, AuditTypeOK, RoomInv
<1>6. CASE UNCHANGED auditVars
  <2>1. Busy' = Busy
    BY <1>6 DEF auditVars, Busy
  <2> QED
    BY <1>6, <2>1 DEF auditVars, AuditTypeOK, RoomInv
<1> QED
  BY <1>1, <1>2, <1>3, <1>4, <1>5, <1>6 DEF AuditNext

-----------------------------------------------------------------------------
(* Audit: the chain.                                                       *)

\* What the proofs use of the types.
LEMMA RowsTyped ==
    ASSUME AuditTypeOK
    PROVE  /\ newest \in Nat /\ auditMinute \in Nat
           /\ \A i \in kept : i \in Nat /\ 1 <= i /\ i <= newest /\ i \in Entries
           /\ \A i \in kept : stampOf[i].minute \in Nat
           /\ \A w \in Writers : appender[w].stamp.minute \in Nat
<1>1. newest \in Nat /\ auditMinute \in Nat /\ newest <= MaxEntries /\ MaxEntries \in Nat
  BY AuditAssumption DEF AuditTypeOK
<1>2. ASSUME NEW i \in kept
      PROVE  /\ i \in Nat /\ 1 <= i /\ i <= newest /\ i \in Entries
             /\ stampOf[i].minute \in Nat
  <2>1. i \in 1..newest
    BY <1>2, Zenon DEF AuditTypeOK
  <2>2. i \in Entries
    BY <1>1, <2>1 DEF Entries
  <2>3. stampOf[i] \in StampSet
    BY <2>2 DEF AuditTypeOK
  <2> QED
    BY <1>1, <2>1, <2>2, <2>3 DEF StampSet
<1>3. \A w \in Writers : appender[w].stamp.minute \in Nat
  BY DEF AuditTypeOK, Appenders, StampSet
<1> QED
  BY <1>1, <1>2, <1>3

\* The last row of a table whose newest rows are kept is the newest.
LEMMA LastIsNewest ==
    ASSUME AuditTypeOK, SuffixInv, kept # {}
    PROVE  newest \in kept /\ LastOf(kept) = newest
<1>1. PICK i \in kept : TRUE
  OBVIOUS
<1>2. newest \in i..newest
  BY RowsTyped
<1>3. newest \in kept
  BY <1>1, <1>2 DEF SuffixInv
<1>4. kept \subseteq 1..newest /\ newest \in Nat /\ \A k \in kept : k <= newest
  BY RowsTyped DEF AuditTypeOK
<1> QED
  BY <1>3, <1>4, LastIsGreatest

\* The threads other than w do not move; what changes the table disturbs them.
LEMMA ChainTakeStamp ==
    ASSUME AuditInv, ChainInv, NEW w \in Writers, TakeStamp(w)
    PROVE  ChainInv'
<1>1. PICK s \in StampsOf(auditMinute) :
           appender' = [appender EXCEPT ![w] = [@ EXCEPT !.at = "stamped", !.stamp = s]]
  BY DEF TakeStamp
<1>2. /\ UNCHANGED <<auditMinute, newest, kept, link, stampOf>>
      /\ disturbed' = [disturbed EXCEPT ![w] = FALSE]
  BY DEF TakeStamp
<1>3. appender[w] \in Appenders /\ s.minute = auditMinute
  BY DEF StampsOf, AuditInv, AuditTypeOK
<1>4. appender'[w].at = "stamped" /\ appender'[w].stamp = s
  BY <1>1, <1>3 DEF Appenders, AuditInv, AuditTypeOK
<1>5. SuffixInv' /\ StampsInv' /\ LinksInv'
  BY <1>2 DEF ChainInv, SuffixInv, StampsInv, LinksInv, LinkTo
<1>6. AppendersInv'
  <2> SUFFICES ASSUME NEW v \in Busy'
               PROVE  /\ appender'[v].stamp.minute <= auditMinute'
                      /\ ~disturbed'[v] =>
                           /\ \A i \in kept' : stampOf'[i].minute <= appender'[v].stamp.minute
                           /\ appender'[v].at = "linked" /\ kept' # {} =>
                                  appender'[v].link = LinkTo(newest')
    BY DEF AppendersInv, LinkTo
  <2>1. CASE v = w
    <3>1. \A i \in kept : stampOf[i].minute <= auditMinute
      BY DEF ChainInv, StampsInv
    <3>2. auditMinute <= auditMinute
      BY RowsTyped DEF AuditInv
    <3> QED
      BY <1>2, <1>3, <1>4, <2>1, <3>1, <3>2
  <2>2. CASE v # w
    <3>1. v \in Busy /\ appender'[v] = appender[v] /\ disturbed'[v] = disturbed[v]
      BY <1>1, <1>2, <2>2 DEF Busy, AuditInv, AuditTypeOK
    <3> QED
      BY <1>2, <3>1 DEF ChainInv, AppendersInv
  <2> QED
    BY <2>1, <2>2
<1> QED
  BY <1>5, <1>6 DEF ChainInv

\* Nobody's table changes, and the hash read is the newest row's.
LEMMA ChainReadLastHash ==
    ASSUME AuditInv, ChainInv, NEW w \in Writers, ReadLastHash(w)
    PROVE  ChainInv'
<1>1. /\ appender[w].at = "stamped"
      /\ appender' = [appender EXCEPT ![w].at = "linked", ![w].link = LastHash]
      /\ UNCHANGED <<auditMinute, newest, kept, link, stampOf, disturbed>>
  BY DEF ReadLastHash
<1>2. appender[w] \in Appenders
  BY DEF AuditInv, AuditTypeOK
<1>3. appender'[w].link = LastHash /\ appender'[w].stamp = appender[w].stamp
  BY <1>1, <1>2 DEF Appenders, AuditInv, AuditTypeOK
<1>4. kept # {} => LastHash = LinkTo(newest)
  BY LastIsNewest DEF LastHash, LinkTo, ChainInv, AuditInv
<1>5. SuffixInv' /\ StampsInv' /\ LinksInv'
  BY <1>1 DEF ChainInv, SuffixInv, StampsInv, LinksInv, LinkTo
<1>6. AppendersInv'
  <2> SUFFICES ASSUME NEW v \in Busy'
               PROVE  /\ appender'[v].stamp.minute <= auditMinute'
                      /\ ~disturbed'[v] =>
                           /\ \A i \in kept' : stampOf'[i].minute <= appender'[v].stamp.minute
                           /\ appender'[v].at = "linked" /\ kept' # {} =>
                                  appender'[v].link = LinkTo(newest')
    BY DEF AppendersInv, LinkTo
  <2>1. CASE v = w
    <3>1. w \in Busy
      BY <1>1 DEF Busy
    <3> QED
      BY <1>1, <1>3, <1>4, <2>1, <3>1 DEF ChainInv, AppendersInv
  <2>2. CASE v # w
    <3>1. v \in Busy /\ appender'[v] = appender[v]
      BY <1>1, <2>2 DEF Busy, AuditInv, AuditTypeOK
    <3> QED
      BY <1>1, <3>1 DEF ChainInv, AppendersInv
  <2> QED
    BY <2>1, <2>2
<1> QED
  BY <1>5, <1>6 DEF ChainInv

\* A row that is appended undisturbed comes last in every respect.
LEMMA ChainAppendEntry ==
    ASSUME AuditInv, ChainInv, NEW w \in Writers, AppendEntry(w), ~disturbed[w],
           newest + 1 \in Entries
    PROVE  ChainInv'
<1> DEFINE n == newest + 1
<1>1. /\ appender[w].at = "linked" /\ w \in Busy
      /\ newest' = n /\ kept' = kept \cup {n} /\ auditMinute' = auditMinute
      /\ link' = [link EXCEPT ![n] = appender[w].link]
      /\ stampOf' = [stampOf EXCEPT ![n] = appender[w].stamp]
      /\ appender' = [appender EXCEPT ![w].at = "idle"]
      /\ disturbed' = [v \in Writers |-> disturbed[v] \/ (v \notin {w} /\ appender[v].at # "idle")]
  BY DEF AppendEntry, DisturbAllBut, Busy
<1>2. /\ newest \in Nat /\ auditMinute \in Nat
      /\ \A i \in kept : i \in Nat /\ i <= newest /\ i # n /\ stampOf[i].minute \in Nat
      /\ appender[w].stamp.minute \in Nat
  BY RowsTyped DEF AuditInv
<1>3. /\ link'[n] = appender[w].link /\ stampOf'[n] = appender[w].stamp
      /\ \A i \in kept : link'[i] = link[i] /\ stampOf'[i] = stampOf[i]
  <2>1. kept \subseteq Entries
    BY RowsTyped DEF AuditInv
  <2> QED
    BY <1>1, <1>2, <2>1 DEF AuditInv, AuditTypeOK
<1>4. /\ appender[w].stamp.minute <= auditMinute
      /\ \A i \in kept : stampOf[i].minute <= appender[w].stamp.minute
      /\ kept # {} => appender[w].link = LinkTo(newest)
  BY <1>1 DEF ChainInv, AppendersInv
<1>5. SuffixInv'
  <2> SUFFICES ASSUME NEW i \in kept \cup {n}, NEW k \in i..n PROVE k \in kept \cup {n}
    BY <1>1 DEF SuffixInv
  <2>1. CASE k = n
    BY <2>1
  <2>2. CASE k # n
    <3>1. i \in kept /\ k \in i..newest
      BY <1>2, <2>2
    <3> QED
      BY <3>1 DEF ChainInv, SuffixInv
  <2> QED
    BY <2>1, <2>2
<1>6. StampsInv'
  <2>1. ASSUME NEW i \in kept' PROVE stampOf'[i].minute <= auditMinute'
    BY <1>1, <1>3, <1>4, <2>1 DEF ChainInv, StampsInv
  <2>2. ASSUME NEW i \in kept', NEW k \in kept', i <= k
        PROVE  stampOf'[i].minute <= stampOf'[k].minute
    <3>1. CASE i = n
      <4>1. k = n
        BY <1>1, <1>2, <2>2, <3>1
      <4> QED
        BY <1>2, <1>3, <3>1, <4>1
    <3>2. CASE i \in kept /\ k = n
      BY <1>3, <1>4, <3>2
    <3>3. CASE i \in kept /\ k \in kept
      BY <1>3, <2>2, <3>3 DEF ChainInv, StampsInv
    <3> QED
      BY <1>1, <3>1, <3>2, <3>3
  <2> QED
    BY <2>1, <2>2 DEF StampsInv
<1>7. LinksInv'
  <2> SUFFICES ASSUME NEW i \in kept', i > Unhashed, i - 1 \in kept'
               PROVE  link'[i] = LinkTo(i - 1)
    BY DEF LinksInv, LinkTo
  <2>1. CASE i = n
    <3>1. i - 1 = newest /\ newest # n
      BY <1>2, <2>1
    <3>2. kept # {}
      BY <1>1, <3>1
    <3> QED
      BY <1>3, <1>4, <2>1, <3>1, <3>2
  <2>2. CASE i # n
    <3>1. i \in kept /\ i - 1 # n
      BY <1>1, <1>2, <2>2
    <3>2. i - 1 \in kept
      BY <1>1, <3>1
    <3> QED
      BY <1>3, <3>1, <3>2 DEF ChainInv, LinksInv
  <2> QED
    BY <2>1, <2>2
<1>8. AppendersInv'
  <2> SUFFICES ASSUME NEW v \in Busy'
               PROVE  appender'[v].stamp.minute <= auditMinute' /\ disturbed'[v]
    BY DEF AppendersInv
  <2>1. v # w /\ v \in Writers
    BY <1>1 DEF Busy, AuditInv, AuditTypeOK, Appenders
  <2>2. appender'[v] = appender[v] /\ v \in Busy
    BY <1>1, <2>1 DEF Busy, AuditInv, AuditTypeOK
  <2>3. disturbed'[v]
    BY <1>1, <2>1, <2>2 DEF Busy
  <2> QED
    BY <1>1, <2>2, <2>3 DEF ChainInv, AppendersInv
<1> QED
  BY <1>5, <1>6, <1>7, <1>8 DEF ChainInv

\* A sweep that cuts between the minutes of rows takes the oldest ones.
LEMMA ChainPruneAudit ==
    ASSUME AuditInv, ChainInv, PruneAudit, ~torn'
    PROVE  ChainInv'
<1>1. PICK cut \in StampsOf(auditMinute - Retention) :
           /\ kept' = {i \in kept : ~Earlier(stampOf[i], cut)}
           /\ torn' = (torn \/ \E i \in kept : stampOf[i].minute = cut.minute)
  BY DEF PruneAudit
<1>2. auditMinute >= Retention
  BY DEF PruneAudit
<1>3. cut.minute \in Nat
  BY <1>2, RowsTyped, AuditAssumption DEF AuditInv, StampsOf
<1>4. \A i \in kept : i \in kept' <=> cut.minute < stampOf[i].minute
  <2> SUFFICES ASSUME NEW i \in kept PROVE i \in kept' <=> cut.minute < stampOf[i].minute
    OBVIOUS
  <2>1. stampOf[i].minute # cut.minute
    BY <1>1
  <2>2. stampOf[i].minute \in Nat
    BY RowsTyped DEF AuditInv
  <2> QED
    BY <1>1, <1>3, <2>1, <2>2 DEF Earlier
<1>5. /\ kept' \subseteq kept /\ UNCHANGED <<auditMinute, newest, link, stampOf, appender>>
      /\ disturbed' = [v \in Writers |-> disturbed[v] \/ (v \notin {} /\ appender[v].at # "idle")]
  BY <1>1 DEF PruneAudit, DisturbAllBut
<1>6. SuffixInv'
  <2> SUFFICES ASSUME NEW i \in kept', NEW k \in i..newest PROVE k \in kept'
    BY <1>5 DEF SuffixInv
  <2>1. i \in kept /\ k \in kept
    BY <1>5 DEF ChainInv, SuffixInv
  <2>2. i <= k
    BY <2>1, RowsTyped DEF AuditInv
  <2>3. stampOf[i].minute <= stampOf[k].minute /\ cut.minute < stampOf[i].minute
    BY <1>4, <2>1, <2>2 DEF ChainInv, StampsInv
  <2>4. stampOf[i].minute \in Nat /\ stampOf[k].minute \in Nat
    BY <2>1, RowsTyped DEF AuditInv
  <2> QED
    BY <1>3, <1>4, <2>1, <2>3, <2>4
<1>7. StampsInv' /\ LinksInv'
  BY <1>5 DEF ChainInv, StampsInv, LinksInv, LinkTo
<1>8. AppendersInv'
  <2> SUFFICES ASSUME NEW v \in Busy'
               PROVE  appender'[v].stamp.minute <= auditMinute' /\ disturbed'[v]
    BY DEF AppendersInv
  <2>1. v \in Busy /\ v \in Writers /\ appender[v].at # "idle"
    BY <1>5 DEF Busy
  <2> QED
    BY <1>5, <2>1 DEF ChainInv, AppendersInv
<1> QED
  BY <1>6, <1>7, <1>8 DEF ChainInv

\* Every step keeps the chain, but for an append that was overlapped and a sweep
\* that cuts within a minute.
LEMMA ChainStep ==
    ASSUME AuditInv, AuditTypeOK', [AuditNext]_auditVars, ~overlapped', ~torn'
    PROVE  ChainInv'
<1>1. ASSUME NEW w \in Writers, TakeStamp(w) PROVE ChainInv'
  BY <1>1, ChainTakeStamp DEF TakeStamp, AuditInv
<1>2. ASSUME NEW w \in Writers, ReadLastHash(w) PROVE ChainInv'
  BY <1>2, ChainReadLastHash DEF ReadLastHash, AuditInv
<1>3. ASSUME NEW w \in Writers, AppendEntry(w) PROVE ChainInv'
  <2>1. ~overlapped /\ ~torn /\ ~disturbed[w] /\ newest' = newest + 1
    BY <1>3 DEF AppendEntry
  <2>2. newest + 1 \in Entries
    <3>1. newest + 1 <= MaxEntries /\ newest \in Nat
      BY <2>1 DEF AuditTypeOK, AuditInv
    <3> QED
      BY <3>1, AuditAssumption DEF Entries
  <2> QED
    BY <1>3, <2>1, <2>2, ChainAppendEntry DEF AuditInv
<1>4. CASE PruneAudit
  <2>1. ~overlapped /\ ~torn
    BY <1>4 DEF PruneAudit
  <2> QED
    BY <1>4, <2>1, ChainPruneAudit DEF AuditInv
<1>5. ASSUME UNCHANGED <<newest, kept, link, stampOf, appender, disturbed, overlapped, torn>>,
             auditMinute <= auditMinute', auditMinute' \in Nat
      PROVE  ChainInv'
  <2>1. ChainInv /\ Busy' = Busy
    BY <1>5 DEF AuditInv, Busy
  <2>2. SuffixInv' /\ LinksInv'
    BY <1>5, <2>1 DEF ChainInv, SuffixInv, LinksInv, LinkTo
  <2>3. StampsInv'
    <3>1. \A i \in kept : stampOf[i].minute <= auditMinute'
      BY <1>5, <2>1, RowsTyped DEF ChainInv, StampsInv, AuditInv
    <3> QED
      BY <1>5, <2>1, <3>1 DEF ChainInv, StampsInv
  <2>4. AppendersInv'
    <3>1. \A w \in Busy : appender[w].stamp.minute <= auditMinute'
      BY <1>5, <2>1, RowsTyped DEF ChainInv, AppendersInv, AuditInv, Busy
    <3> QED
      BY <1>5, <2>1, <3>1 DEF ChainInv, AppendersInv, LinkTo
  <2> QED
    BY <2>2, <2>3, <2>4 DEF ChainInv
<1>6. CASE AuditTick \/ UNCHANGED auditVars
  <2>1. auditMinute \in Nat
    BY RowsTyped DEF AuditInv
  <2> QED
    BY <1>5, <1>6, <2>1 DEF AuditTick, auditVars
<1> QED
  BY <1>1, <1>2, <1>3, <1>4, <1>6 DEF AuditNext

-----------------------------------------------------------------------------
(* Audit: theorems.                                                        *)

\* Every state of the table has its types, and is a chain unless it was overlapped
\* or torn.
THEOREM AuditInvariance == AuditSpec => []AuditInv
<1>1. AuditInit => AuditInv
  <2> SUFFICES ASSUME AuditInit PROVE AuditInv
    OBVIOUS
  <2>1. PICK s \in StampsOf(0) :
             /\ stampOf = [i \in Entries |-> s]
             /\ appender = [w \in Writers |-> [at |-> "idle", stamp |-> s, link |-> Genesis]]
    BY DEF AuditInit
  <2>2. s \in StampSet /\ s.minute = 0
    BY DEF StampsOf, StampSet
  <2>3. Unhashed \in Nat /\ Unhashed <= MaxEntries /\ MaxEntries \in Nat
    BY AuditAssumption
  <2>4. [at |-> "idle", stamp |-> s, link |-> Genesis] \in Appenders
    BY <2>2 DEF Appenders, AuditSteps
  <2>5. AuditTypeOK
    BY <2>1, <2>2, <2>3, <2>4 DEF AuditInit, AuditTypeOK
  <2>6. Busy = {}
    BY <2>1 DEF Busy
  <2>7. RoomInv /\ newest >= Unhashed
    BY <2>3, <2>6, FS_EmptySet DEF RoomInv, AuditInit
  <2>8. SuffixInv
    BY <2>3 DEF SuffixInv, AuditInit
  <2>9. \A i \in kept : stampOf[i].minute = 0 /\ i <= Unhashed /\ i \in Nat
    <3>1. \A i \in kept : i \in 1..Unhashed /\ i \in Entries
      BY <2>3 DEF AuditInit, Entries
    <3> QED
      BY <2>1, <2>2, <2>3, <3>1
  <2>10. StampsInv /\ LinksInv
    BY <2>3, <2>9 DEF StampsInv, LinksInv, AuditInit
  <2>11. AppendersInv
    BY <2>6 DEF AppendersInv
  <2> QED
    BY <2>5, <2>7, <2>8, <2>10, <2>11 DEF AuditInv, ChainInv
<1>2. AuditInv /\ [AuditNext]_auditVars => AuditInv'
  <2> SUFFICES ASSUME AuditInv, [AuditNext]_auditVars PROVE AuditInv'
    OBVIOUS
  <2>1. AuditTypeOK' /\ RoomInv' /\ newest' >= Unhashed
    BY AuditTypeStep DEF AuditInv
  <2>2. ~overlapped' /\ ~torn' => ChainInv'
    BY <2>1, ChainStep
  <2> QED
    BY <2>1, <2>2 DEF AuditInv
<1> QED
  BY <1>1, <1>2, PTL DEF AuditSpec

\* verify_chain(): what nobody touched, no appends overlapped and no sweep cut
\* within a minute verifies.
THEOREM UntouchedVerifies == AuditSpec => []UntouchedChainVerifies
<1>1. AuditInv => UntouchedChainVerifies
  <2> SUFFICES ASSUME AuditInv, ~overlapped, ~torn, kept \cap 1..Unhashed = {}
               PROVE  Verifies
    BY DEF UntouchedChainVerifies
  <2>1. ChainInv /\ newest \in Nat /\ Unhashed \in Nat
    BY AuditAssumption, RowsTyped DEF AuditInv
  <2>2. ASSUME NEW i \in kept PROVE i > Unhashed /\ i \in Nat /\ i <= newest
    <3>1. i \in Nat /\ 1 <= i /\ i <= newest
      BY RowsTyped DEF AuditInv
    <3>2. i \notin 1..Unhashed
      BY <2>2
    <3> QED
      BY <2>1, <3>1, <3>2
  <2> SUFFICES ASSUME NEW i \in kept, NEW before, before = {k \in kept : k < i}, before # {}
               PROVE  link[i] = LastOf(before)
    BY <2>2 DEF Verifies, Chained
  <2>3. PICK j \in kept : j < i
    OBVIOUS
  <2>4. i - 1 \in j..newest
    BY <2>1, <2>2, <2>3
  <2>5. i - 1 \in kept
    BY <2>1, <2>4 DEF ChainInv, SuffixInv
  <2>6. link[i] = i - 1
    BY <2>1, <2>2, <2>5 DEF ChainInv, LinksInv, LinkTo
  <2>7. before \subseteq 1..newest /\ i - 1 \in before /\ \A k \in before : k <= i - 1
    <3>1. \A k \in before : k \in kept /\ k < i
      OBVIOUS
    <3>2. before \subseteq 1..newest
      BY <3>1, Zenon DEF AuditInv, AuditTypeOK
    <3>3. i - 1 \in before
      BY <2>2, <2>5
    <3>4. \A k \in before : k <= i - 1
      BY <2>2, <3>1
    <3> QED
      BY <3>2, <3>3, <3>4
  <2>8. LastOf(before) = i - 1
    BY <2>1, <2>7, LastIsGreatest
  <2> QED
    BY <2>6, <2>8
<1> QED
  BY <1>1, AuditInvariance, PTL

\* Two tables that verify, one with all rows of the other: between two rows of the
\* smaller one the larger has no more.  So a row removed from the middle shows, and
\* a row put there.
LEMMA NoHoles ==
    ASSUME NEW n \in Nat, NEW rows, rows \subseteq 1..n, NEW rest, rest \subseteq rows,
           Chained(rows), Chained(rest),
           NEW i \in rest, NEW k \in rest, NEW j \in rows, i < j, j < k
    PROVE  j \in rest
<1> SUFFICES ASSUME j \notin rest PROVE FALSE
  OBVIOUS
<1>0. j \in Nat /\ \A x \in rest : x \in rows /\ x \in Nat
  <2>1. \A x \in rows : x \in 1..n
    OBVIOUS
  <2> QED
    BY <2>1
<1> DEFINE after == {a \in rest : j < a}
<1>1. PICK c \in after : \A a \in after : c <= a
  <2>1. k \in after
    OBVIOUS
  <2>2. after \subseteq Nat
    BY ONLY <1>0
  <2> QED
    BY <2>1, <2>2, LeastMember
<1> DEFINE before == {b \in rest : b < c}
           beforeAll == {b \in rows : b < c}
<1>2. c \in rest /\ c \in rows /\ j < c /\ i < c
  BY <1>1
<1>3. i \in before /\ before \subseteq 1..n /\ j \in beforeAll /\ beforeAll \subseteq 1..n
  BY <1>2
<1>4. link[c] = LastOf(before) /\ link[c] = LastOf(beforeAll)
  BY <1>2, <1>3 DEF Chained
<1>5. LastOf(before) \in before
  BY <1>3, LastIsARow
<1>6. j <= LastOf(beforeAll)
  BY <1>3, LastIsARow
<1>7. link[c] \in rest /\ link[c] < c /\ link[c] # j /\ j <= link[c]
  BY <1>4, <1>5, <1>6
<1>8. link[c] \in Nat /\ c \in Nat
  BY <1>0, <1>2, <1>7
<1>9. link[c] \in after
  BY <1>0, <1>7, <1>8
<1> HIDE DEF after
<1>10. c <= link[c]
  BY <1>1, <1>9
<1> QED
  BY <1>7, <1>8, <1>10

\* verify_chain(): whatever is removed from a table that verifies, what is left
\* verifies only if nothing is missing between two of its rows.
THEOREM HolesAreSeen == AuditSpec => []HolesShow
<1>1. AuditInv => HolesShow
  <2> SUFFICES ASSUME AuditInv, Verifies, NEW rest \in SUBSET kept, Chained(rest),
                      NEW i \in rest, NEW k \in rest, NEW j \in kept, i < j, j < k
               PROVE  j \in rest
    BY DEF HolesShow
  <2>1. newest \in Nat /\ kept \subseteq 1..newest
    BY DEF AuditInv, AuditTypeOK
  <2> QED
    BY <2>1, NoHoles DEF Verifies
<1> QED
  BY <1>1, AuditInvariance, PTL

-----------------------------------------------------------------------------
(* Schedule: the invariant.                                                *)

MinuteOf(t) == t \div Minute

\* The stamps of a job in the queue are of no later minute than the one it is due
\* in, and one of them is of that minute unless the minute is over or it is now.
QueuedInv(j) ==
    /\ job[j].next.minute <= MinuteOf(dueAt[j])
    /\ job[j].scheduled.minute <= MinuteOf(dueAt[j])
    /\ \/ MinuteOf(dueAt[j]) <= job[j].next.minute
       \/ MinuteOf(dueAt[j]) <= job[j].scheduled.minute
       \/ MinuteOf(dueAt[j]) <= MinuteOf(second)

\* A job that was taken out of the queue was due by its schedule.
TakenInv(j) == job[j].scheduled.minute <= MinuteOf(second)

ScheduleInv ==
    /\ ScheduleTypeOK
    /\ \A j \in Scheduled :
         /\ job[j].at \in {"new", "queued", "claimed"} => job[j].attempts < MaxAttempts
         /\ job[j].at = "new" => job[j].next = Past /\ job[j].scheduled = Past /\ dueAt[j] = 0
         /\ job[j].at = "queued" => QueuedInv(j)
         /\ job[j].at \in {"claimed", "dead", "done"} => TakenInv(j)

\* A power of two is a number: there are as many sets of n things.
LEMMA PowerIsANumber == ASSUME NEW n \in Nat PROVE 2 ^ n \in Nat
<1>1. IsFiniteSet(1..n) /\ Cardinality(1..n) = n
  BY FS_Interval
<1>2. IsFiniteSet(SUBSET (1..n)) /\ Cardinality(SUBSET (1..n)) = 2 ^ n
  BY <1>1, FS_SUBSET
<1> QED
  BY <1>2, FS_CardinalityType

\* The delay before an attempt is a number of seconds.
LEMMA DelayIsANumber == ASSUME NEW n \in Nat \ {0} PROVE Delay(n) \in Nat
<1>1. 2 ^ (n - 1) \in Nat
  BY PowerIsANumber
<1>2. RetryBase \in Nat /\ RetryMax \in Nat
  BY ScheduleAssumption
<1> QED
  BY <1>1, <1>2 DEF Delay

\* Minutes follow seconds.
LEMMA MinutesFollow ==
    /\ \A t \in Nat : MinuteOf(t) \in Nat
    /\ MinuteOf(0) = 0
    /\ \A s, t \in Nat : s <= t => MinuteOf(s) <= MinuteOf(t)
<1>1. Minute \in Nat \ {0}
  BY ScheduleAssumption
<1> QED
  BY <1>1 DEF MinuteOf

\* What is known of the stamps.
LEMMA StampFacts ==
    /\ Past \in StampSet
    /\ \A t \in Nat : /\ ClientStamp(t) \in StampSet /\ ClientStamp(t).minute = MinuteOf(t)
                      /\ Now(t) \subseteq StampSet
                      /\ \A s \in Now(t) : s.minute = MinuteOf(t) /\ s.micro \in Nat
    /\ \A s \in StampSet : s.minute \in Nat /\ s.micro \in Nat
<1>1. Minute \in Nat \ {0} /\ 0..(Minute - 1) \subseteq Micros /\ Micros \subseteq Nat
  BY ScheduleAssumption, StampsAssumption
<1>2. 0 \in Micros
  BY <1>1
<1>3. Past \in StampSet
  BY <1>2 DEF Past, StampSet
<1>4. ASSUME NEW t \in Nat
      PROVE  /\ ClientStamp(t) \in StampSet /\ ClientStamp(t).minute = MinuteOf(t)
             /\ Now(t) \subseteq StampSet
             /\ \A s \in Now(t) : s.minute = MinuteOf(t) /\ s.micro \in Nat
  <2>1. MinuteOf(t) \in Nat
    BY MinutesFollow
  <2>2. t % Minute \in Micros
    BY <1>1
  <2> QED
    BY <1>1, <2>1, <2>2 DEF ClientStamp, Now, StampsOf, StampSet, MinuteOf
<1>5. \A s \in StampSet : s.minute \in Nat /\ s.micro \in Nat
  BY <1>1 DEF StampSet
<1> QED
  BY <1>3, <1>4, <1>5

\* A step that changes one job keeps what is said of the others.
LEMMA OthersStay ==
    ASSUME ScheduleInv, NEW j \in Scheduled, NEW row \in JobRows, NEW due \in Nat,
           job' = [job EXCEPT ![j] = row], dueAt' = [dueAt EXCEPT ![j] = due], UNCHANGED second,
           row.at \in {"queued", "claimed"} => row.attempts < MaxAttempts,
           row.at # "new",
           row.at = "queued" =>
              /\ row.next.minute <= MinuteOf(due) /\ row.scheduled.minute <= MinuteOf(due)
              /\ \/ MinuteOf(due) <= row.next.minute
                 \/ MinuteOf(due) <= row.scheduled.minute
                 \/ MinuteOf(due) <= MinuteOf(second),
           row.at \in {"claimed", "dead", "done"} => row.scheduled.minute <= MinuteOf(second)
    PROVE  ScheduleInv'
<1>1. ScheduleTypeOK'
  BY DEF ScheduleInv, ScheduleTypeOK
<1>2. /\ \A k \in Scheduled \ {j} : job'[k] = job[k] /\ dueAt'[k] = dueAt[k]
      /\ job'[j] = row /\ dueAt'[j] = due
  BY DEF ScheduleInv, ScheduleTypeOK
<1>3. ASSUME NEW k \in Scheduled
      PROVE  /\ job'[k].at \in {"new", "queued", "claimed"} => job'[k].attempts < MaxAttempts
             /\ job'[k].at = "new" => job'[k].next = Past /\ job'[k].scheduled = Past /\ dueAt'[k] = 0
             /\ job'[k].at = "queued" => QueuedInv(k)'
             /\ job'[k].at \in {"claimed", "dead", "done"} => TakenInv(k)'
  <2>1. CASE k = j
    BY <1>2, <2>1 DEF QueuedInv, TakenInv, MinuteOf
  <2>2. CASE k # j
    BY <1>2, <2>2 DEF ScheduleInv, QueuedInv, TakenInv, MinuteOf
  <2> QED
    BY <2>1, <2>2
<1> QED
  BY <1>1, <1>3 DEF ScheduleInv
-----------------------------------------------------------------------------
(* Schedule: the steps.                                                    *)

\* What is known of a job and of the clock.
LEMMA JobFacts ==
    ASSUME ScheduleTypeOK, NEW j \in Scheduled
    PROVE  /\ job[j] \in JobRows /\ job[j].attempts \in 0..MaxAttempts /\ MaxAttempts \in Nat \ {0}
           /\ job[j].scheduled \in StampSet /\ job[j].next \in StampSet
           /\ dueAt[j] \in Nat /\ second \in Nat
BY ScheduleAssumption DEF ScheduleTypeOK, JobRows

\* The row of a job that moves after an attempt, or is put back.
MovedRow(row, place, n, s) == [row EXCEPT !.at = place, !.attempts = n, !.next = s]

LEMMA MovedRows ==
    ASSUME NEW row \in JobRows, NEW place \in JobPlaces, NEW n \in 0..MaxAttempts, NEW s \in StampSet
    PROVE  /\ MovedRow(row, place, n, s) \in JobRows
           /\ MovedRow(row, place, n, s).at = place
           /\ MovedRow(row, place, n, s).attempts = n
           /\ MovedRow(row, place, n, s).next = s
           /\ MovedRow(row, place, n, s).scheduled = row.scheduled
<1> DEFINE Attempts == 0..MaxAttempts
<1>1. row \in [at : JobPlaces, attempts : Attempts, scheduled : StampSet, next : StampSet]
  BY DEF JobRows
<1>2. n \in Attempts
  OBVIOUS
<1>3. JobRows = [at : JobPlaces, attempts : Attempts, scheduled : StampSet, next : StampSet]
  BY DEF JobRows
<1> HIDE DEF Attempts
<1> QED
  BY <1>1, <1>2, <1>3 DEF MovedRow

LEMMA SubmitStep ==
    ASSUME ScheduleInv, NEW j \in Scheduled, Submit(j)
    PROVE  ScheduleInv'
<1>1. /\ job[j] \in JobRows /\ dueAt[j] = 0 /\ job[j].next = Past /\ job[j].scheduled = Past
      /\ job[j].attempts < MaxAttempts /\ second \in Nat
  BY JobFacts DEF ScheduleInv, Submit
<1>2. CASE job' = [job EXCEPT ![j].at = "queued"] /\ UNCHANGED dueAt
  <2> DEFINE row == [job[j] EXCEPT !.at = "queued"]
  <2>1. /\ row \in JobRows /\ row.at = "queued" /\ row.next = Past /\ row.scheduled = Past
        /\ row.attempts < MaxAttempts
    BY <1>1 DEF JobRows, JobPlaces
  <2>2. job' = [job EXCEPT ![j] = row] /\ dueAt' = [dueAt EXCEPT ![j] = 0] /\ UNCHANGED second
    BY <1>1, <1>2 DEF Submit, ScheduleInv, ScheduleTypeOK
  <2>3. MinuteOf(0) = 0 /\ Past.minute = 0
    BY MinutesFollow DEF Past
  <2>4. 0 \in Nat /\ row.next.minute = 0 /\ row.scheduled.minute = 0
    BY <2>1, <2>3
  <2>5. /\ row.next.minute <= MinuteOf(0) /\ row.scheduled.minute <= MinuteOf(0)
        /\ MinuteOf(0) <= row.next.minute
    BY <2>3, <2>4
  <2>6. row.at # "new" /\ row.at \notin {"claimed", "dead", "done"}
    BY <2>1
  <2> HIDE DEF row
  <2> QED
    BY <2>1, <2>2, <2>4, <2>5, <2>6, OthersStay
<1>3. ASSUME NEW t \in (second + 1)..MaxSecond,
             job' = [job EXCEPT ![j].at = "queued", ![j].scheduled = ClientStamp(t)],
             dueAt' = [dueAt EXCEPT ![j] = t]
      PROVE  ScheduleInv'
  <2> DEFINE row == [job[j] EXCEPT !.at = "queued", !.scheduled = ClientStamp(t)]
  <2>1. t \in Nat
    BY <1>1, ScheduleAssumption
  <2>2. ClientStamp(t) \in StampSet /\ ClientStamp(t).minute = MinuteOf(t) /\ MinuteOf(t) \in Nat
    BY <2>1, StampFacts, MinutesFollow
  <2>3. /\ row \in JobRows /\ row.at = "queued" /\ row.next = Past /\ row.scheduled = ClientStamp(t)
        /\ row.attempts < MaxAttempts
    BY <1>1, <2>2 DEF JobRows, JobPlaces
  <2>4. job' = [job EXCEPT ![j] = row] /\ UNCHANGED second
    BY <1>3 DEF Submit, ScheduleInv, ScheduleTypeOK
  <2>5. Past.minute = 0
    BY DEF Past
  <2>6. /\ row.next.minute <= MinuteOf(t) /\ row.scheduled.minute <= MinuteOf(t)
        /\ MinuteOf(t) <= row.scheduled.minute
    BY <2>2, <2>3, <2>5
  <2>7. row.at # "new" /\ row.at \notin {"claimed", "dead", "done"}
    BY <2>3
  <2> HIDE DEF row
  <2> QED
    BY <1>3, <2>1, <2>3, <2>4, <2>6, <2>7, OthersStay
<1> QED
  BY <1>2, <1>3 DEF Submit

\* A job that is due has no stamp of a later minute than this one.
LEMMA DueMeans ==
    ASSUME ScheduleTypeOK, NEW j \in Scheduled, NEW now \in Now(second), Due(j, now)
    PROVE  /\ job[j].at = "queued"
           /\ job[j].next.minute <= MinuteOf(second) /\ job[j].scheduled.minute <= MinuteOf(second)
<1>1. now.minute = MinuteOf(second) /\ MinuteOf(second) \in Nat
  BY JobFacts, StampFacts, MinutesFollow
<1>2. job[j].next.minute \in Nat /\ job[j].scheduled.minute \in Nat
  BY JobFacts, StampFacts
<1> QED
  BY <1>1, <1>2 DEF Due, Earlier

LEMMA PollStep ==
    ASSUME ScheduleInv, PollRound
    PROVE  ScheduleInv'
<1>1. PICK now \in Now(second) :
        job' = [j \in Scheduled |-> IF Due(j, now) THEN [job[j] EXCEPT !.at = "claimed"] ELSE job[j]]
  BY DEF PollRound
<1>2. UNCHANGED <<second, dueAt>>
  BY DEF PollRound
<1>3. ASSUME NEW j \in Scheduled PROVE
        /\ job'[j] \in JobRows
        /\ job'[j].at \in {"new", "queued", "claimed"} => job'[j].attempts < MaxAttempts
        /\ job'[j].at = "new" => job'[j].next = Past /\ job'[j].scheduled = Past /\ dueAt'[j] = 0
        /\ job'[j].at = "queued" => QueuedInv(j)'
        /\ job'[j].at \in {"claimed", "dead", "done"} => TakenInv(j)'
  <2>1. CASE Due(j, now)
    <3>1. /\ job[j].at = "queued" /\ job[j].scheduled.minute <= MinuteOf(second)
      BY <2>1, DueMeans DEF ScheduleInv
    <3>2. job'[j] = [job[j] EXCEPT !.at = "claimed"] /\ job[j] \in JobRows
      BY <1>1, <2>1, JobFacts DEF ScheduleInv
    <3>3. /\ job'[j] \in JobRows /\ job'[j].at = "claimed" /\ job'[j].scheduled = job[j].scheduled
          /\ job'[j].attempts = job[j].attempts
      BY <3>2 DEF JobRows, JobPlaces
    <3> QED
      BY <1>2, <3>1, <3>3 DEF ScheduleInv, TakenInv, MinuteOf
  <2>2. CASE ~Due(j, now)
    <3>1. job'[j] = job[j] /\ job[j] \in JobRows
      BY <1>1, <2>2, JobFacts DEF ScheduleInv
    <3> QED
      BY <1>2, <3>1 DEF ScheduleInv, QueuedInv, TakenInv, MinuteOf
  <2> QED
    BY <2>1, <2>2
<1>4. ScheduleTypeOK'
  BY <1>1, <1>2, <1>3 DEF ScheduleInv, ScheduleTypeOK
<1> QED
  BY <1>3, <1>4 DEF ScheduleInv

LEMMA RetryStep ==
    ASSUME ScheduleInv, NEW j \in Scheduled, RetryOrDead(j)
    PROVE  ScheduleInv'
<1> DEFINE n == job[j].attempts + 1
<1>1. /\ job[j] \in JobRows /\ job[j].at = "claimed" /\ TakenInv(j)
      /\ n \in Nat \ {0} /\ n <= MaxAttempts /\ MaxAttempts \in Nat /\ second \in Nat /\ dueAt[j] \in Nat
      /\ job[j].scheduled.minute \in Nat
  BY JobFacts, StampFacts DEF ScheduleInv, RetryOrDead
<1>2. CASE Exhausted(n)
  <2> DEFINE row == MovedRow(job[j], "dead", n, job[j].next)
  <2>1. row \in JobRows /\ row.at = "dead" /\ row.scheduled = job[j].scheduled
    <3>1. n \in 0..MaxAttempts /\ "dead" \in JobPlaces
      BY <1>1 DEF JobPlaces
    <3>2. job[j].next \in StampSet
      BY JobFacts DEF ScheduleInv
    <3> HIDE DEF n
    <3> QED
      BY <1>1, <3>1, <3>2, MovedRows
  <2>2. job' = [job EXCEPT ![j] = row] /\ dueAt' = [dueAt EXCEPT ![j] = dueAt[j]] /\ UNCHANGED second
    <3>1. job[j] \in [at : JobPlaces, attempts : 0..MaxAttempts, scheduled : StampSet, next : StampSet]
      BY <1>1 DEF JobRows
    <3>2. row = [job[j] EXCEPT !.at = "dead", !.attempts = n]
      BY <3>1 DEF MovedRow
    <3>3. job' = [job EXCEPT ![j].at = "dead", ![j].attempts = n] /\ UNCHANGED <<dueAt, second>>
      BY <1>2 DEF RetryOrDead
    <3> QED
      BY <3>2, <3>3 DEF ScheduleInv, ScheduleTypeOK
  <2> HIDE DEF row, n
  <2> QED
    BY <1>1, <2>1, <2>2, OthersStay DEF TakenInv
<1>3. CASE ~Exhausted(n)
  <2>1. Delay(n) \in Nat
    BY <1>1, DelayIsANumber
  <2> DEFINE due == second + Delay(n)
  <2>2. /\ due \in Nat /\ second <= due
    BY <1>1, <2>1
  <2>3. PICK s \in Now(due) :
          job' = [job EXCEPT ![j].at = "queued", ![j].attempts = n, ![j].next = s]
    BY <1>3 DEF RetryOrDead, NextAttempt
  <2>4. dueAt' = [dueAt EXCEPT ![j] = due] /\ UNCHANGED second
    BY <1>3 DEF RetryOrDead
  <2>5. n < MaxAttempts
    BY <1>1, <1>3 DEF Exhausted
  <2> HIDE DEF due, n
  <2>6. s \in StampSet /\ s.minute = MinuteOf(due)
    BY <2>2, StampFacts
  <2>7. MinuteOf(second) <= MinuteOf(due) /\ MinuteOf(second) \in Nat /\ MinuteOf(due) \in Nat
    BY <1>1, <2>2, MinutesFollow
  <2> DEFINE row == MovedRow(job[j], "queued", n, s)
  <2>8. /\ row \in JobRows /\ row.at = "queued" /\ row.attempts = n /\ row.next = s
        /\ row.scheduled = job[j].scheduled
    <3>1. n \in 0..MaxAttempts /\ "queued" \in JobPlaces
      BY <1>1, <2>5 DEF JobPlaces
    <3> QED
      BY <1>1, <2>6, <3>1, MovedRows
  <2>9. job' = [job EXCEPT ![j] = row]
    BY <2>3 DEF ScheduleInv, ScheduleTypeOK, MovedRow
  <2> HIDE DEF row
  <2>10. row.scheduled.minute <= MinuteOf(due)
    BY <1>1, <2>7, <2>8 DEF TakenInv
  <2>11. row.next.minute <= MinuteOf(due) /\ MinuteOf(due) <= row.next.minute
    BY <2>6, <2>7, <2>8
  <2>12. row.at # "new" /\ row.at \notin {"claimed", "dead", "done"} /\ row.attempts < MaxAttempts
    BY <2>5, <2>8
  <2> QED
    BY <2>2, <2>4, <2>8, <2>9, <2>10, <2>11, <2>12, OthersStay
<1> QED
  BY <1>2, <1>3

LEMMA DoneStep ==
    ASSUME ScheduleInv, NEW j \in Scheduled, JobDone(j)
    PROVE  ScheduleInv'
<1> DEFINE row == [job[j] EXCEPT !.at = "done"]
<1>1. job[j] \in JobRows /\ TakenInv(j) /\ dueAt[j] \in Nat
  BY JobFacts DEF ScheduleInv, JobDone
<1>2. row \in JobRows /\ row.at = "done" /\ row.scheduled = job[j].scheduled
  BY <1>1 DEF JobRows, JobPlaces
<1>3. job' = [job EXCEPT ![j] = row] /\ dueAt' = [dueAt EXCEPT ![j] = dueAt[j]] /\ UNCHANGED second
  BY DEF JobDone, ScheduleInv, ScheduleTypeOK
<1> HIDE DEF row
<1> QED
  BY <1>1, <1>2, <1>3, OthersStay DEF TakenInv

LEMMA RequeueStep ==
    ASSUME ScheduleInv, NEW j \in Scheduled, RequeueDead(j)
    PROVE  ScheduleInv'
<1> DEFINE row == MovedRow(job[j], "queued", 0, Past)
<1>1. job[j] \in JobRows /\ TakenInv(j) /\ MaxAttempts \in Nat \ {0} /\ second \in Nat
  BY JobFacts DEF ScheduleInv, RequeueDead
<1>2. Past \in StampSet /\ Past.minute = 0 /\ MinuteOf(second) \in Nat
  BY <1>1, StampFacts, MinutesFollow DEF Past
<1>3. /\ row \in JobRows /\ row.at = "queued" /\ row.attempts = 0 /\ row.next = Past
      /\ row.scheduled = job[j].scheduled
  <2>1. 0 \in 0..MaxAttempts /\ "queued" \in JobPlaces
    BY <1>1 DEF JobPlaces
  <2> QED
    BY <1>1, <1>2, <2>1, MovedRows
<1>4. job' = [job EXCEPT ![j] = row] /\ dueAt' = [dueAt EXCEPT ![j] = second] /\ UNCHANGED second
  BY DEF RequeueDead, ScheduleInv, ScheduleTypeOK, MovedRow
<1>5. /\ row.next.minute <= MinuteOf(second) /\ row.scheduled.minute <= MinuteOf(second)
      /\ MinuteOf(second) <= MinuteOf(second)
  BY <1>1, <1>2, <1>3 DEF TakenInv
<1>6. row.at # "new" /\ row.at \notin {"claimed", "dead", "done"} /\ row.attempts < MaxAttempts
  BY <1>1, <1>3
<1> HIDE DEF row
<1> QED
  BY <1>1, <1>3, <1>4, <1>5, <1>6, OthersStay

LEMMA SecondStep ==
    ASSUME ScheduleInv, ScheduleTick
    PROVE  ScheduleInv'
<1>1. second \in Nat /\ second' = second + 1 /\ UNCHANGED <<job, dueAt>>
  BY DEF ScheduleInv, ScheduleTypeOK, ScheduleTick
<1>2. MinuteOf(second) \in Nat /\ MinuteOf(second') \in Nat /\ MinuteOf(second) <= MinuteOf(second')
  BY <1>1, MinutesFollow
<1>3. ASSUME NEW j \in Scheduled
      PROVE  /\ job[j].at = "queued" => QueuedInv(j)'
             /\ job[j].at \in {"claimed", "dead", "done"} => TakenInv(j)'
  <2>1. /\ job[j].next.minute \in Nat /\ job[j].scheduled.minute \in Nat /\ MinuteOf(dueAt[j]) \in Nat
    BY JobFacts, StampFacts, MinutesFollow DEF ScheduleInv
  <2>2. MinuteOf(dueAt[j])' = MinuteOf(dueAt[j])
    BY <1>1 DEF MinuteOf
  <2>3. ASSUME job[j].at = "queued" PROVE QueuedInv(j)'
    <3>1. QueuedInv(j)
      BY <2>3 DEF ScheduleInv
    <3> QED
      BY <1>1, <1>2, <2>1, <3>1 DEF QueuedInv
  <2>4. ASSUME job[j].at \in {"claimed", "dead", "done"} PROVE TakenInv(j)'
    <3>1. TakenInv(j)
      BY <2>4 DEF ScheduleInv
    <3> QED
      BY <1>1, <1>2, <2>1, <3>1 DEF TakenInv
  <2> QED
    BY <2>3, <2>4
<1>4. ScheduleTypeOK'
  BY <1>1 DEF ScheduleInv, ScheduleTypeOK
<1> QED
  BY <1>1, <1>3, <1>4 DEF ScheduleInv

-----------------------------------------------------------------------------
(* Schedule: the theorems.                                                 *)

LEMMA ScheduleStep ==
    ASSUME ScheduleInv, [ScheduleNext]_scheduleVars
    PROVE  ScheduleInv'
<1>1. CASE UNCHANGED scheduleVars
  BY <1>1 DEF scheduleVars, ScheduleInv, ScheduleTypeOK, QueuedInv, TakenInv, MinuteOf
<1> QED
  BY <1>1, SubmitStep, PollStep, RetryStep, DoneStep, RequeueStep, SecondStep DEF ScheduleNext

\* queue.py, ready() and _retry_or_dead(): the columns of a job tell the minute it is
\* due in.
THEOREM ScheduleInvariance == ScheduleSpec => []ScheduleInv
<1>1. ScheduleInit => ScheduleInv
  <2> SUFFICES ASSUME ScheduleInit PROVE ScheduleInv
    OBVIOUS
  <2> DEFINE row == [at |-> "new", attempts |-> 0, scheduled |-> Past, next |-> Past]
  <2>1. second = 0 /\ job = [j \in Scheduled |-> row] /\ dueAt = [j \in Scheduled |-> 0]
    BY DEF ScheduleInit
  <2>2. MaxAttempts \in Nat \ {0} /\ Past \in StampSet
    BY ScheduleAssumption, StampFacts
  <2>3. row \in JobRows
    BY <2>2 DEF JobRows, JobPlaces
  <2>4. row.at = "new" /\ row.attempts = 0 /\ row.scheduled = Past /\ row.next = Past
    OBVIOUS
  <2> HIDE DEF row
  <2>5. ScheduleTypeOK
    BY <2>1, <2>3 DEF ScheduleTypeOK
  <2> QED
    BY <2>1, <2>2, <2>4, <2>5 DEF ScheduleInv
<1> QED
  BY <1>1, ScheduleStep, PTL DEF ScheduleSpec

\* ready(): from the minute after the one a job is due in, every poll finds it.
THEOREM LaterPollsFind == ScheduleSpec => []FoundTheNextMinute
<1>1. ASSUME ScheduleInv, NEW j \in Scheduled, job[j].at = "queued",
             MinuteOf(second) > MinuteOf(dueAt[j]), NEW now \in Now(second)
      PROVE  Due(j, now)
  <2>1. /\ job[j].next.minute \in Nat /\ job[j].scheduled.minute \in Nat
        /\ MinuteOf(dueAt[j]) \in Nat /\ MinuteOf(second) \in Nat /\ now.minute = MinuteOf(second)
    BY <1>1, JobFacts, StampFacts, MinutesFollow DEF ScheduleInv
  <2>2. QueuedInv(j)
    BY <1>1 DEF ScheduleInv
  <2> QED
    BY <1>1, <2>1, <2>2 DEF Due, Earlier, QueuedInv
<1>2. ScheduleInv => FoundTheNextMinute
  BY <1>1 DEF FoundTheNextMinute, MinuteOf
<1> QED
  BY <1>2, ScheduleInvariance, PTL

\* ready(): no job is claimed in a minute before the one its schedule and its last
\* failed attempt make it due in.
THEOREM KeepsTheMinute == ScheduleSpec => NeverAMinuteEarly
<1>1. ASSUME ScheduleInv, [ScheduleNext]_scheduleVars, NEW j \in Scheduled, Claims(j)
      PROVE  MinuteOf(second) >= MinuteOf(dueAt[j])
  <2>1. PollRound
    <3>1. job[j].at = "queued" /\ job'[j].at = "claimed"
      BY <1>1 DEF Claims
    <3>2. job \in [Scheduled -> JobRows]
      BY <1>1 DEF ScheduleInv, ScheduleTypeOK
    <3>3. ASSUME NEW k \in Scheduled, Submit(k) \/ RetryOrDead(k) \/ JobDone(k) \/ RequeueDead(k)
          PROVE  FALSE
      <4>1. k # j => job'[j] = job[j]
        BY <3>2, <3>3 DEF Submit, RetryOrDead, JobDone, RequeueDead
      <4>2. k = j => job'[j].at # "claimed"
        BY <3>1, <3>2, <3>3 DEF Submit, RetryOrDead, JobDone, RequeueDead
      <4> QED
        BY <3>1, <4>1, <4>2
    <3>4. ~ScheduleTick /\ ~(UNCHANGED scheduleVars)
      BY <3>1 DEF ScheduleTick, scheduleVars
    <3> QED
      BY <1>1, <3>3, <3>4 DEF ScheduleNext
  <2>2. PICK now \in Now(second) : Due(j, now)
    BY <1>1, <2>1 DEF PollRound, Claims
  <2>3. job[j].next.minute <= MinuteOf(second) /\ job[j].scheduled.minute <= MinuteOf(second)
    BY <1>1, <2>2, DueMeans DEF ScheduleInv
  <2>4. /\ job[j].next.minute \in Nat /\ job[j].scheduled.minute \in Nat
        /\ MinuteOf(dueAt[j]) \in Nat /\ MinuteOf(second) \in Nat
    BY <1>1, JobFacts, StampFacts, MinutesFollow DEF ScheduleInv
  <2>5. QueuedInv(j)
    BY <1>1 DEF ScheduleInv, Claims
  <2> QED
    BY <2>3, <2>4, <2>5 DEF QueuedInv
<1>2. ScheduleInv /\ [ScheduleNext]_scheduleVars =>
        \A j \in Scheduled : Claims(j) => second \div Minute >= dueAt[j] \div Minute
  BY <1>1 DEF MinuteOf
<1> QED
  BY <1>2, ScheduleInvariance, PTL DEF ScheduleSpec, NeverAMinuteEarly
==============================================================================
