--------------------------- MODULE DeliveryProofs ---------------------------
(* Theorems about Delivery, for any jobs, printers, handlers and limits.   *)
EXTENDS Delivery, TLAPS

\* Every variable keeps its type in every step.
LEMMA TypeStep == TypeOK /\ [Next]_vars => TypeOK'
<1> SUFFICES ASSUME TypeOK, [Next]_vars PROVE TypeOK'
  OBVIOUS
<1> USE PrintersAssumption DEF TypeOK, vars, row, task, history, JobStates, ActiveStates,
    Prunable, Places, Unsent, Sending, Ending
<1>1. ASSUME NEW j \in Jobs, Enqueue(j) PROVE TypeOK'
  BY <1>1 DEF Enqueue
<1>2. ASSUME NEW j \in Jobs, Claim(j) PROVE TypeOK'
  BY <1>2 DEF Claim, Mark, Exists
<1>3. ASSUME NEW j \in Jobs, TaskStep(j) PROVE TypeOK'
  <2>1. CASE Load(j)
    BY <2>1 DEF Load
  <2>2. CASE Render(j)
    BY <2>2 DEF Render, Mark
  <2>3. CASE NoMemberReachable(j)
    BY <2>3 DEF NoMemberReachable
  <2>4. CASE RejectRender(j)
    BY <2>4 DEF RejectRender, Mark
  <2>5. CASE BuryRejected(j)
    BY <2>5 DEF BuryRejected, Mark
  <2>6. CASE CrashEarly(j)
    BY <2>6 DEF CrashEarly
  <2>7. CASE AcquireLock(j)
    BY <2>7 DEF AcquireLock
  <2>8. CASE StartStream(j)
    BY <2>8 DEF StartStream
  <2>9. CASE Delivered(j)
    BY <2>9 DEF Delivered, LeaveSend
  <2>10. CASE CutShort(j)
    BY <2>10 DEF CutShort, LeaveSend
  <2>11. CASE Unreachable(j)
    BY <2>11 DEF Unreachable, LeaveSend
  <2>12. CASE CrashSend(j)
    BY <2>12 DEF CrashSend, LeaveSend
  <2>13. CASE TimeOut(j)
    BY <2>13 DEF TimeOut, LeaveSend
  <2>14. CASE MarkDone(j)
    BY <2>14 DEF MarkDone, EndAttempt, Mark
  <2>15. CASE MarkUncertain(j)
    BY <2>15 DEF MarkUncertain, EndAttempt, Mark
  <2>16. CASE MarkFailed(j)
    BY <2>16 DEF MarkFailed, EndAttempt, Mark
  <2>17. CASE AuditFails(j)
    BY <2>17 DEF AuditFails, EndAttempt, Mark
  <2>18. CASE Bury(j)
    BY <2>18 DEF Bury, EndAttempt, Mark, CountAttempt
  <2>19. CASE Retry(j)
    BY <2>19 DEF Retry, EndAttempt, Mark, CountAttempt
  <2>20. CASE EndAlert(j)
    BY <2>20 DEF EndAlert
  <2> QED
    BY <1>3, <2>1, <2>2, <2>3, <2>4, <2>5, <2>6, <2>7, <2>8, <2>9, <2>10, <2>11, <2>12,
       <2>13, <2>14, <2>15, <2>16, <2>17, <2>18, <2>19, <2>20 DEF TaskStep
<1>4. CASE Prune
  BY <1>4 DEF Prune
<1>5. ASSUME NEW p \in Printers, AbandonedEnds(p) PROVE TypeOK'
  BY <1>5 DEF AbandonedEnds
<1>6. ASSUME NEW h \in Handlers, NEW op \in DOMAIN Accepts, NEW j \in Jobs,
             CheckRequest(h, op, j)
      PROVE  TypeOK'
  BY <1>6 DEF CheckRequest, Requests
<1>7. ASSUME NEW h \in Handlers, CarryOut(h) PROVE TypeOK'
  <2>1. request[h] \in Requests
    BY <1>7 DEF CarryOut
  <2>2. /\ request[h].job \in Jobs
        /\ Leaves[request[h].op] \in {"canceled", "queued", "done", "failed"}
    BY <2>1 DEF Requests, Accepts, Leaves
  <2> QED
    BY <1>7, <2>2 DEF CarryOut, Mark
<1>8. CASE Crash
  BY <1>8 DEF Crash, GoDown
<1>9. CASE Stop
  BY <1>9 DEF Stop
<1>10. CASE Drained
  BY <1>10 DEF Drained, GoDown
<1>11. CASE DrainTimeOut
  BY <1>11 DEF DrainTimeOut, GoDown
<1>12. CASE Restart
  BY <1>12 DEF Restart
<1>13. CASE Poll \/ UNCHANGED vars
  BY <1>13 DEF Poll
<1> QED
  BY <1>1, <1>2, <1>3, <1>4, <1>5, <1>6, <1>7, <1>8, <1>9, <1>10, <1>11, <1>12, <1>13 DEF Next

\* What a checked request may write.
LEMMA CarriedOut ==
  ASSUME TypeOK, NEW h \in Handlers, CarryOut(h)
  PROVE  /\ request[h].job \in Jobs
         /\ Leaves[request[h].op] \in {"canceled", "queued", "done", "failed"}
         /\ Leaves[request[h].op] = "queued" <=> request[h].op = "requeue"
         /\ Leaves[request[h].op] = "done" <=> request[h].op = "resolveDone"
<1>1. request[h] \in Requests
  BY DEF CarryOut, TypeOK
<1> QED
  BY <1>1 DEF Requests, Accepts, Leaves

\* A send goes on under its printer's lock, and is counted.
LEMMA SendStep == TypeOK /\ SendInv /\ [Next]_vars => SendInv'
<1> SUFFICES ASSUME TypeOK, SendInv, [Next]_vars PROVE SendInv'
  OBVIOUS
<1> USE PrintersAssumption, LimitsAssumption DEF TypeOK, vars, row, task, history, JobStates, ActiveStates,
    Prunable, Places, Unsent, Sending, Ending,
    SendInv, TargetInv, LockInv, StreamInv
<1>1. ASSUME NEW j \in Jobs, Enqueue(j) PROVE SendInv'
  BY <1>1 DEF Enqueue
<1>2. ASSUME NEW j \in Jobs, Claim(j) PROVE SendInv'
  BY <1>2 DEF Claim, Mark, Exists
<1>3. ASSUME NEW j \in Jobs, TaskStep(j) PROVE SendInv'
  <2>1. CASE Load(j)
    BY <2>1 DEF Load, Exists
  <2>2. CASE Render(j)
    BY <2>2 DEF Render, Mark, Exists
  <2>3. CASE NoMemberReachable(j)
    BY <2>3 DEF NoMemberReachable
  <2>4. CASE RejectRender(j)
    BY <2>4 DEF RejectRender, Mark, Exists
  <2>5. CASE BuryRejected(j)
    BY <2>5 DEF BuryRejected, Mark, Exists
  <2>6. CASE CrashEarly(j)
    BY <2>6 DEF CrashEarly
  <2>7. CASE AcquireLock(j)
    BY <2>7 DEF AcquireLock
  <2>8. CASE StartStream(j)
    BY <2>8 DEF StartStream
  <2>9. CASE Delivered(j)
    BY <2>9 DEF Delivered, LeaveSend
  <2>10. CASE CutShort(j)
    BY <2>10 DEF CutShort, LeaveSend
  <2>11. CASE Unreachable(j)
    BY <2>11 DEF Unreachable, LeaveSend
  <2>12. CASE CrashSend(j)
    BY <2>12 DEF CrashSend, LeaveSend
  <2>13. CASE TimeOut(j)
    BY <2>13 DEF TimeOut, LeaveSend
  <2>14. CASE MarkDone(j)
    BY <2>14 DEF MarkDone, EndAttempt, Mark, Exists
  <2>15. CASE MarkUncertain(j)
    BY <2>15 DEF MarkUncertain, EndAttempt, Mark, Exists
  <2>16. CASE MarkFailed(j)
    BY <2>16 DEF MarkFailed, EndAttempt, Mark, Exists
  <2>17. CASE AuditFails(j)
    BY <2>17 DEF AuditFails, EndAttempt, Mark, Exists
  <2>18. CASE Bury(j)
    BY <2>18 DEF Bury, EndAttempt, Mark, Exists, CountAttempt
  <2>19. CASE Retry(j)
    BY <2>19 DEF Retry, EndAttempt, Mark, Exists, CountAttempt
  <2>20. CASE EndAlert(j)
    BY <2>20 DEF EndAlert
  <2> QED
    BY <1>3, <2>1, <2>2, <2>3, <2>4, <2>5, <2>6, <2>7, <2>8, <2>9, <2>10, <2>11, <2>12,
       <2>13, <2>14, <2>15, <2>16, <2>17, <2>18, <2>19, <2>20 DEF TaskStep
<1>4. CASE Prune
  BY <1>4 DEF Prune
<1>5. ASSUME NEW p \in Printers, AbandonedEnds(p) PROVE SendInv'
  BY <1>5 DEF AbandonedEnds
<1>6. ASSUME NEW h \in Handlers, NEW op \in DOMAIN Accepts, NEW j \in Jobs,
             CheckRequest(h, op, j)
      PROVE  SendInv'
  BY <1>6 DEF CheckRequest
<1>7. ASSUME NEW h \in Handlers, CarryOut(h) PROVE SendInv'
  <2> DEFINE op == request[h].op
             k == request[h].job
  <2>1. /\ k \in Jobs
        /\ Leaves[op] \in {"canceled", "queued", "done", "failed"}
        /\ Leaves[op] = "queued" <=> op = "requeue"
        /\ Leaves[op] = "done" <=> op = "resolveDone"
    BY <1>7, CarriedOut
  <2>2. /\ status' = [status EXCEPT ![k] = IF Exists(k) THEN Leaves[op] ELSE @]
        /\ attempts' = [attempts EXCEPT ![k] = IF Exists(k) /\ op = "requeue" THEN 0 ELSE @]
        /\ requeues' = [requeues EXCEPT ![k] = IF Exists(k) /\ op = "requeue" THEN @ + 1 ELSE @]
        /\ vouched' = IF op = "resolveDone" THEN vouched \cup {k} ELSE vouched
        /\ UNCHANGED <<task, lock, abandoned, sent, interrupted>>
    BY <1>7 DEF CarryOut, Mark
  <2> QED
    BY <2>1, <2>2 DEF Exists
<1>8. CASE Crash
  BY <1>8 DEF Crash, GoDown
<1>9. CASE Stop
  BY <1>9 DEF Stop
<1>10. CASE Drained
  BY <1>10 DEF Drained, GoDown
<1>11. CASE DrainTimeOut
  BY <1>11 DEF DrainTimeOut, GoDown
<1>12. CASE Restart
  BY <1>12 DEF Restart
<1>13. CASE Poll \/ UNCHANGED vars
  BY <1>13 DEF Poll
<1> QED
  BY <1>1, <1>2, <1>3, <1>4, <1>5, <1>6, <1>7, <1>8, <1>9, <1>10, <1>11, <1>12, <1>13 DEF Next

\* No step puts a job on the wire, or readies it to be, without a credit.
LEMMA CreditStep == TypeOK /\ SendInv /\ CreditInv /\ [Next]_vars => CreditInv'
<1> SUFFICES ASSUME TypeOK, SendInv, CreditInv, [Next]_vars PROVE CreditInv'
  OBVIOUS
<1> USE PrintersAssumption, LimitsAssumption DEF TypeOK, vars, row, task, history, JobStates, ActiveStates,
    Prunable, Places, Unsent, Sending, Ending,
    SendInv, TargetInv, CreditInv, Credit, Direct
<1>1. ASSUME NEW j \in Jobs, Enqueue(j) PROVE CreditInv'
  BY <1>1 DEF Enqueue
<1>2. ASSUME NEW j \in Jobs, Claim(j) PROVE CreditInv'
  BY <1>2 DEF Claim, Mark, Exists
<1>3. ASSUME NEW j \in Jobs, TaskStep(j) PROVE CreditInv'
  <2>1. CASE Load(j)
    BY <2>1 DEF Load, Exists
  <2>2. CASE Render(j)
    BY <2>2 DEF Render, Mark, Exists
  <2>3. CASE NoMemberReachable(j)
    BY <2>3 DEF NoMemberReachable
  <2>4. CASE RejectRender(j)
    BY <2>4 DEF RejectRender, Mark, Exists
  <2>5. CASE BuryRejected(j)
    BY <2>5 DEF BuryRejected, Mark, Exists
  <2>6. CASE CrashEarly(j)
    BY <2>6 DEF CrashEarly
  <2>7. CASE AcquireLock(j)
    BY <2>7 DEF AcquireLock
  <2>8. CASE StartStream(j)
    BY <2>8 DEF StartStream
  <2>9. CASE Delivered(j)
    BY <2>9 DEF Delivered, LeaveSend
  <2>10. CASE CutShort(j)
    BY <2>10 DEF CutShort, LeaveSend
  <2>11. CASE Unreachable(j)
    BY <2>11 DEF Unreachable, LeaveSend
  <2>12. CASE CrashSend(j)
    BY <2>12 DEF CrashSend, LeaveSend
  <2>13. CASE TimeOut(j)
    BY <2>13 DEF TimeOut, LeaveSend
  <2>14. CASE MarkDone(j)
    BY <2>14 DEF MarkDone, EndAttempt, Mark, Exists
  <2>15. CASE MarkUncertain(j)
    BY <2>15 DEF MarkUncertain, EndAttempt, Mark, Exists
  <2>16. CASE MarkFailed(j)
    BY <2>16 DEF MarkFailed, EndAttempt, Mark, Exists
  <2>17. CASE AuditFails(j)
    BY <2>17 DEF AuditFails, EndAttempt, Mark, Exists
  <2>18. CASE Bury(j)
    BY <2>18 DEF Bury, EndAttempt, Mark, Exists, CountAttempt
  <2>19. CASE Retry(j)
    BY <2>19 DEF Retry, EndAttempt, Mark, Exists, CountAttempt
  <2>20. CASE EndAlert(j)
    BY <2>20 DEF EndAlert
  <2> QED
    BY <1>3, <2>1, <2>2, <2>3, <2>4, <2>5, <2>6, <2>7, <2>8, <2>9, <2>10, <2>11, <2>12,
       <2>13, <2>14, <2>15, <2>16, <2>17, <2>18, <2>19, <2>20 DEF TaskStep
<1>4. CASE Prune
  BY <1>4 DEF Prune
<1>5. ASSUME NEW p \in Printers, AbandonedEnds(p) PROVE CreditInv'
  BY <1>5 DEF AbandonedEnds
<1>6. ASSUME NEW h \in Handlers, NEW op \in DOMAIN Accepts, NEW j \in Jobs,
             CheckRequest(h, op, j)
      PROVE  CreditInv'
  BY <1>6 DEF CheckRequest
<1>7. ASSUME NEW h \in Handlers, CarryOut(h) PROVE CreditInv'
  <2> DEFINE op == request[h].op
             k == request[h].job
  <2>1. /\ k \in Jobs
        /\ Leaves[op] \in {"canceled", "queued", "done", "failed"}
        /\ Leaves[op] = "queued" <=> op = "requeue"
        /\ Leaves[op] = "done" <=> op = "resolveDone"
    BY <1>7, CarriedOut
  <2>2. /\ status' = [status EXCEPT ![k] = IF Exists(k) THEN Leaves[op] ELSE @]
        /\ attempts' = [attempts EXCEPT ![k] = IF Exists(k) /\ op = "requeue" THEN 0 ELSE @]
        /\ requeues' = [requeues EXCEPT ![k] = IF Exists(k) /\ op = "requeue" THEN @ + 1 ELSE @]
        /\ vouched' = IF op = "resolveDone" THEN vouched \cup {k} ELSE vouched
        /\ UNCHANGED <<task, lock, abandoned, sent, interrupted>>
    BY <1>7 DEF CarryOut, Mark
  <2> QED
    BY <2>1, <2>2 DEF Exists
<1>8. CASE Crash
  BY <1>8 DEF Crash, GoDown
<1>9. CASE Stop
  BY <1>9 DEF Stop
<1>10. CASE Drained
  BY <1>10 DEF Drained, GoDown
<1>11. CASE DrainTimeOut
  BY <1>11 DEF DrainTimeOut, GoDown
<1>12. CASE Restart
  BY <1>12 DEF Restart
<1>13. CASE Poll \/ UNCHANGED vars
  BY <1>13 DEF Poll
<1> QED
  BY <1>1, <1>2, <1>3, <1>4, <1>5, <1>6, <1>7, <1>8, <1>9, <1>10, <1>11, <1>12, <1>13 DEF Next

\* The rows stay consistent with the tasks.
LEMMA RowStep == TypeOK /\ SendInv /\ RowInv /\ [Next]_vars => RowInv'
<1> SUFFICES ASSUME TypeOK, SendInv, RowInv, [Next]_vars PROVE RowInv'
  OBVIOUS
<1> USE PrintersAssumption, LimitsAssumption DEF TypeOK, vars, row, task, history, JobStates, ActiveStates,
    Prunable, Places, Unsent, Sending, Ending,
    SendInv, StreamInv, RowInv, AlertInv, BudgetInv, OnlyOutagesStrand, RetryBudget, DoneWasSent
<1>1. ASSUME NEW j \in Jobs, Enqueue(j) PROVE RowInv'
  BY <1>1 DEF Enqueue
<1>2. ASSUME NEW j \in Jobs, Claim(j) PROVE RowInv'
  BY <1>2 DEF Claim, Mark, Exists
<1>3. ASSUME NEW j \in Jobs, TaskStep(j) PROVE RowInv'
  <2>1. CASE Load(j)
    BY <2>1 DEF Load, Exists
  <2>2. CASE Render(j)
    BY <2>2 DEF Render, Mark, Exists
  <2>3. CASE NoMemberReachable(j)
    BY <2>3 DEF NoMemberReachable
  <2>4. CASE RejectRender(j)
    BY <2>4 DEF RejectRender, Mark, Exists
  <2>5. CASE BuryRejected(j)
    BY <2>5 DEF BuryRejected, Mark, Exists
  <2>6. CASE CrashEarly(j)
    BY <2>6 DEF CrashEarly
  <2>7. CASE AcquireLock(j)
    BY <2>7 DEF AcquireLock
  <2>8. CASE StartStream(j)
    BY <2>8 DEF StartStream
  <2>9. CASE Delivered(j)
    BY <2>9 DEF Delivered, LeaveSend
  <2>10. CASE CutShort(j)
    BY <2>10 DEF CutShort, LeaveSend
  <2>11. CASE Unreachable(j)
    BY <2>11 DEF Unreachable, LeaveSend
  <2>12. CASE CrashSend(j)
    BY <2>12 DEF CrashSend, LeaveSend
  <2>13. CASE TimeOut(j)
    BY <2>13 DEF TimeOut, LeaveSend
  <2>14. CASE MarkDone(j)
    BY <2>14 DEF MarkDone, EndAttempt, Mark, Exists
  <2>15. CASE MarkUncertain(j)
    BY <2>15 DEF MarkUncertain, EndAttempt, Mark, Exists
  <2>16. CASE MarkFailed(j)
    BY <2>16 DEF MarkFailed, EndAttempt, Mark, Exists
  <2>17. CASE AuditFails(j)
    BY <2>17 DEF AuditFails, EndAttempt, Mark, Exists
  <2>18. CASE Bury(j)
    BY <2>18 DEF Bury, EndAttempt, Mark, Exists, CountAttempt
  <2>19. CASE Retry(j)
    BY <2>19 DEF Retry, EndAttempt, Mark, Exists, CountAttempt
  <2>20. CASE EndAlert(j)
    BY <2>20 DEF EndAlert
  <2> QED
    BY <1>3, <2>1, <2>2, <2>3, <2>4, <2>5, <2>6, <2>7, <2>8, <2>9, <2>10, <2>11, <2>12,
       <2>13, <2>14, <2>15, <2>16, <2>17, <2>18, <2>19, <2>20 DEF TaskStep
<1>4. CASE Prune
  BY <1>4 DEF Prune
<1>5. ASSUME NEW p \in Printers, AbandonedEnds(p) PROVE RowInv'
  BY <1>5 DEF AbandonedEnds
<1>6. ASSUME NEW h \in Handlers, NEW op \in DOMAIN Accepts, NEW j \in Jobs,
             CheckRequest(h, op, j)
      PROVE  RowInv'
  BY <1>6 DEF CheckRequest
<1>7. ASSUME NEW h \in Handlers, CarryOut(h) PROVE RowInv'
  <2> DEFINE op == request[h].op
             k == request[h].job
  <2>1. /\ k \in Jobs
        /\ Leaves[op] \in {"canceled", "queued", "done", "failed"}
        /\ Leaves[op] = "queued" <=> op = "requeue"
        /\ Leaves[op] = "done" <=> op = "resolveDone"
    BY <1>7, CarriedOut
  <2>2. /\ status' = [status EXCEPT ![k] = IF Exists(k) THEN Leaves[op] ELSE @]
        /\ attempts' = [attempts EXCEPT ![k] = IF Exists(k) /\ op = "requeue" THEN 0 ELSE @]
        /\ requeues' = [requeues EXCEPT ![k] = IF Exists(k) /\ op = "requeue" THEN @ + 1 ELSE @]
        /\ vouched' = IF op = "resolveDone" THEN vouched \cup {k} ELSE vouched
        /\ UNCHANGED <<task, lock, abandoned, sent, interrupted>>
    BY <1>7 DEF CarryOut, Mark
  <2> QED
    BY <2>1, <2>2 DEF Exists
<1>8. CASE Crash
  BY <1>8 DEF Crash, GoDown
<1>9. CASE Stop
  BY <1>9 DEF Stop
<1>10. CASE Drained
  BY <1>10 DEF Drained, GoDown
<1>11. CASE DrainTimeOut
  BY <1>11 DEF DrainTimeOut, GoDown
<1>12. CASE Restart
  BY <1>12 DEF Restart
<1>13. CASE Poll \/ UNCHANGED vars
  BY <1>13 DEF Poll
<1> QED
  BY <1>1, <1>2, <1>3, <1>4, <1>5, <1>6, <1>7, <1>8, <1>9, <1>10, <1>11, <1>12, <1>13 DEF Next

-----------------------------------------------------------------------------
\* The inductive invariant holds at the start, and every step keeps it.
LEMMA InitIInv == Init => IInv
BY PrintersAssumption, LimitsAssumption
   DEF Init, IInv, SendInv, RowInv, TypeOK, TargetInv, CreditInv, Credit, LockInv, AlertInv, StreamInv, BudgetInv,
       OnlyOutagesStrand, RetryBudget, DoneWasSent, JobStates, ActiveStates, Prunable, Places,
       Unsent, Sending, Ending, Direct

LEMMA NextIInv == IInv /\ [Next]_vars => IInv'
BY TypeStep, SendStep, CreditStep, RowStep DEF IInv

\* The inductive invariant, in every behaviour.
THEOREM Invariance == Spec => []IInv
<1>1. Init => IInv
  BY InitIInv
<1>2. IInv /\ [Next]_vars => IInv'
  BY NextIInv
<1> QED
  BY <1>1, <1>2, PTL DEF Spec

\* Type correctness.
THEOREM TypeCorrect == Spec => []TypeOK
<1>1. IInv => TypeOK
  BY DEF IInv
<1> QED
  BY <1>1, Invariance, PTL

\* Decision 16, for any number of jobs, printers, operators and outages.
THEOREM AtMostOnceHolds == Spec => []AtMostOnce
<1>1. IInv => AtMostOnce
  <2> SUFFICES ASSUME IInv, NEW j \in Direct PROVE sent[j] <= 1 + requeues[j]
    BY DEF AtMostOnce
  <2>1. Credit(j) /\ sent[j] \in Nat /\ requeues[j] \in Nat
    BY DEF IInv, CreditInv, TypeOK, Direct
  <2> QED
    BY <2>1 DEF Credit
<1> QED
  BY <1>1, Invariance, PTL

\* The lock of app/backends/locks.py keeps the streams of a printer apart.
THEOREM StreamsSerialized == Spec => []StreamsDoNotInterleave
<1>1. IInv => StreamsDoNotInterleave
  <2> SUFFICES ASSUME IInv, NEW p \in Serialized \ Outlasting PROVE OneSendAtATime(p)
    BY DEF StreamsDoNotInterleave
  <2>1. p \in Printers /\ abandoned[p] = 0
    BY PrintersAssumption DEF IInv, SendInv, LockInv
  <2>2. \A j, k \in SendingTo(p) : j = k
    BY DEF IInv, SendInv, LockInv, SendingTo
  <2> QED
    BY <2>1, <2>2 DEF OneSendAtATime
<1> QED
  BY <1>1, Invariance, PTL

\* No race, only an outage, leaves a row rendering or printing with no task.
THEOREM NoRaceStrands == Spec => []OnlyOutagesStrand
<1>1. IInv => OnlyOutagesStrand
  BY DEF IInv, RowInv
<1> QED
  BY <1>1, Invariance, PTL

\* The retry budget, whatever the snapshots and the requeues.
THEOREM RetryBudgetHolds == Spec => []RetryBudget
<1>1. IInv => RetryBudget
  BY DEF IInv, RowInv
<1> QED
  BY <1>1, Invariance, PTL

\* A job reported done was sent, or vouched for.
THEOREM DoneWasSentHolds == Spec => []DoneWasSent
<1>1. IInv => DoneWasSent
  BY DEF IInv, RowInv
<1> QED
  BY <1>1, Invariance, PTL

-----------------------------------------------------------------------------
(* Delivery implements PrintLedger.                                        *)

LEMMA LedgerInit == Init => Ledger!Init
BY DEF Init, Ledger!Init, Direct

\* A step that submits, requeues and sends nothing is no step of the ledger.
LEMMA LedgerStutter ==
  ASSUME \A j \in Jobs : status[j] = "new" <=> status'[j] = "new",
         UNCHANGED <<sent, requeues>>
  PROVE  UNCHANGED Ledger!ledger
BY DEF Ledger!ledger, Direct

\* A send takes one of the printings the ledger still allows.
LEMMA LedgerPrint ==
  ASSUME TypeOK, CreditInv, NEW some \in SUBSET Jobs,
         \A j \in some : pc[j] = "connecting",
         sent' = [j \in Jobs |-> IF j \in some THEN sent[j] + 1 ELSE sent[j]],
         UNCHANGED <<status, requeues>>
  PROVE  Ledger!Next
<1> DEFINE there == some \cap Direct
<1>1. \A j \in there : status[j] # "new" /\ sent[j] < 1 + requeues[j]
  BY DEF CreditInv, Credit, TypeOK, Unsent, Direct
<1>2. Ledger!BeginPrinting(there)
  BY <1>1 DEF Ledger!BeginPrinting, Direct
<1> QED
  BY <1>2 DEF Ledger!Next

\* A requeue carried out allows one more printing.
LEMMA LedgerAllow ==
  ASSUME TypeOK, NEW k \in Direct, status[k] # "new",
         \A j \in Jobs : status[j] = "new" <=> status'[j] = "new",
         requeues' = [requeues EXCEPT ![k] = @ + 1],
         UNCHANGED sent
  PROVE  Ledger!AllowAgain(k)
<1> DEFINE allowed == [j \in Direct |-> IF status[j] = "new" THEN 0 ELSE 1 + requeues[j]]
<1>1. \A j \in Direct : requeues'[j] = IF j = k THEN requeues[j] + 1 ELSE requeues[j]
  BY DEF TypeOK, Direct
<1>2. allowed' = [allowed EXCEPT ![k] = @ + 1]
  BY <1>1 DEF TypeOK, Direct
<1>3. allowed[k] > 0
  BY DEF TypeOK, Direct
<1> QED
  BY <1>2, <1>3 DEF Ledger!AllowAgain

LEMMA LedgerNext == IInv /\ [Next]_vars => [Ledger!Next]_(Ledger!ledger)
<1> SUFFICES ASSUME IInv, [Next]_vars PROVE Ledger!Next \/ UNCHANGED Ledger!ledger
  OBVIOUS
<1> USE DEF vars, row, task, history
<1>0. TypeOK /\ CreditInv
  BY DEF IInv
<1>1. ASSUME NEW j \in Jobs, Enqueue(j) PROVE Ledger!Next \/ UNCHANGED Ledger!ledger
  <2>1. CASE j \in Direct
    <3>1. Ledger!Submit(j)
      BY <1>0, <1>1, <2>1 DEF Enqueue, Ledger!Submit, CreditInv, Credit, TypeOK, Direct
    <3> QED
      BY <3>1, <2>1 DEF Ledger!Next
  <2>2. CASE j \notin Direct
    BY <1>0, <1>1, <2>2 DEF Enqueue, Ledger!ledger, TypeOK, Direct
  <2> QED
    BY <2>1, <2>2
<1>2. ASSUME NEW j \in Jobs, Claim(j) PROVE UNCHANGED Ledger!ledger
  BY <1>0, <1>2, LedgerStutter DEF Claim, Mark, Exists, TypeOK, JobStates, ActiveStates, Prunable
<1>3. ASSUME NEW j \in Jobs, TaskStep(j) PROVE Ledger!Next \/ UNCHANGED Ledger!ledger
  <2> USE <1>0 DEF TypeOK, JobStates, ActiveStates, Prunable
  <2>1. CASE Load(j)
    BY <2>1, LedgerStutter DEF Load
  <2>2. CASE Render(j)
    BY <2>2, LedgerStutter DEF Render, Mark, Exists
  <2>3. CASE NoMemberReachable(j) \/ CrashEarly(j) \/ AcquireLock(j) \/ EndAlert(j)
    BY <2>3, LedgerStutter DEF NoMemberReachable, CrashEarly, AcquireLock, EndAlert
  <2>4. CASE RejectRender(j) \/ BuryRejected(j)
    BY <2>4, LedgerStutter DEF RejectRender, BuryRejected, Mark, Exists
  <2>5. CASE StartStream(j)
    BY <2>5, LedgerPrint, {j} \in SUBSET Jobs DEF StartStream
  <2>6. CASE Delivered(j) \/ CutShort(j) \/ Unreachable(j) \/ CrashSend(j)
    BY <2>6, LedgerStutter DEF Delivered, CutShort, Unreachable, CrashSend, LeaveSend
  <2>7. CASE TimeOut(j)
    <3>1. CASE pc[j] = "connecting"
      BY <2>7, <3>1, LedgerPrint, {j} \in SUBSET Jobs DEF TimeOut, LeaveSend
    <3>2. CASE pc[j] # "connecting"
      BY <2>7, <3>2, LedgerStutter DEF TimeOut, LeaveSend
    <3> QED
      BY <3>1, <3>2
  <2>8. CASE MarkDone(j) \/ MarkUncertain(j) \/ MarkFailed(j) \/ AuditFails(j)
    BY <2>8, LedgerStutter DEF MarkDone, MarkUncertain, MarkFailed, AuditFails, EndAttempt, Mark, Exists
  <2>9. CASE Bury(j) \/ Retry(j)
    BY <2>9, LedgerStutter DEF Bury, Retry, EndAttempt, Mark, Exists
  <2> QED
    BY <1>3, <2>1, <2>2, <2>3, <2>4, <2>5, <2>6, <2>7, <2>8, <2>9 DEF TaskStep
<1>4. CASE Prune
  BY <1>0, <1>4, LedgerStutter DEF Prune, TypeOK, Prunable
<1>5. ASSUME NEW h \in Handlers, CarryOut(h) PROVE Ledger!Next \/ UNCHANGED Ledger!ledger
  <2>1. request[h].job \in Jobs /\ Leaves[request[h].op] \in {"canceled", "queued", "done", "failed"}
    BY <1>0, <1>5, CarriedOut
  <2>2. PICK k \in Jobs, s \in {"canceled", "queued", "done", "failed"}, again \in BOOLEAN :
          /\ status' = [status EXCEPT ![k] = IF Exists(k) THEN s ELSE @]
          /\ requeues' = [requeues EXCEPT ![k] = IF again THEN @ + 1 ELSE @]
          /\ again => Exists(k)
          /\ sent' = sent
    <3> DEFINE k == request[h].job
               again == Exists(k) /\ request[h].op = "requeue"
    <3>1. /\ status' = [status EXCEPT ![k] = IF Exists(k) THEN Leaves[request[h].op] ELSE @]
          /\ requeues' = [requeues EXCEPT ![k] = IF again THEN @ + 1 ELSE @]
          /\ sent' = sent
      BY <1>5 DEF CarryOut, Mark
    <3>2. again \in BOOLEAN /\ (again => Exists(k))
      OBVIOUS
    <3> QED
      BY <2>1, <3>1, <3>2
  <2>3. \A j \in Jobs : status[j] = "new" <=> status'[j] = "new"
    BY <1>0, <2>2 DEF Exists, TypeOK, JobStates, ActiveStates, Prunable
  <2>4. CASE k \in Direct /\ again
    <3>1. status[k] # "new" /\ requeues' = [requeues EXCEPT ![k] = @ + 1]
      BY <2>2, <2>4 DEF Exists, JobStates, ActiveStates, Prunable
    <3>2. Ledger!AllowAgain(k)
      BY <1>0, <2>2, <2>3, <2>4, <3>1, LedgerAllow
    <3> QED
      BY <3>2, <2>4 DEF Ledger!Next
  <2>5. CASE ~ (k \in Direct /\ again)
    <3>1. \A j \in Direct : requeues'[j] = requeues[j]
      BY <1>0, <2>2, <2>5 DEF TypeOK, Direct
    <3> QED
      BY <2>2, <2>3, <3>1 DEF Ledger!ledger, Direct
  <2> QED
    BY <2>4, <2>5
<1>6. CASE DrainTimeOut
  <2> DEFINE some == {j \in Jobs : pc[j] = "connecting"}
  <2>1. sent' = [j \in Jobs |-> IF j \in some THEN sent[j] + 1 ELSE sent[j]]
    BY <1>6 DEF DrainTimeOut
  <2> QED
    BY <1>0, <1>6, <2>1, LedgerPrint, some \in SUBSET Jobs DEF DrainTimeOut, GoDown
<1>7. CASE Crash \/ Stop \/ Drained \/ Restart \/ Poll \/ UNCHANGED vars
  BY <1>7, LedgerStutter DEF Crash, Stop, Drained, Restart, Poll, GoDown
<1>8. ASSUME NEW p \in Printers, AbandonedEnds(p) PROVE UNCHANGED Ledger!ledger
  BY <1>8, LedgerStutter DEF AbandonedEnds
<1>9. ASSUME NEW h \in Handlers, NEW op \in DOMAIN Accepts, NEW j \in Jobs,
             CheckRequest(h, op, j)
      PROVE  UNCHANGED Ledger!ledger
  BY <1>9, LedgerStutter DEF CheckRequest
<1> QED
  BY <1>1, <1>2, <1>3, <1>4, <1>5, <1>6, <1>7, <1>8, <1>9 DEF Next

\* The queue, its worker, its operators and its outages implement the ledger.
THEOREM DeliveryImplementsLedger == Spec => LedgerSpec
<1>1. Init => Ledger!Init
  BY LedgerInit
<1>2. IInv /\ [Next]_vars => [Ledger!Next]_(Ledger!ledger)
  BY LedgerNext
<1> QED
  BY <1>1, <1>2, Invariance, PTL DEF Spec, LedgerSpec, Ledger!Spec

=============================================================================
