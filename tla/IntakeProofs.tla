---------------------------- MODULE IntakeProofs ----------------------------
(***************************************************************************)
(* What an idempotency key guarantees, for any number of threads, printers,*)
(* keys, payloads and jobs, and any caps: proofs about Intake.             *)
(***************************************************************************)
EXTENDS Intake, FiniteSetTheorems, TLAPS

\* The id drawn is a new one.
LEMMA NewIdIsNew == ASSUME used # Jobs, used \subseteq Jobs PROVE NewId \in Jobs \ used
  BY DEF NewId

\* The first state has the invariant: nothing is stored and nobody is served.
LEMMA IntakeInit == Init => IntakeInv
<1> SUFFICES ASSUME Init PROVE IntakeInv
  OBVIOUS
<1>1. TypeOK
  BY DEF Init, TypeOK
<1>2. UsedInv /\ KeyInv /\ AnswerInv /\ NoJobAfterAnswer
  BY DEF Init, UsedInv, KeyInv, AnswerInv, NoJobAfterAnswer, Existing, At
<1> QED
  BY <1>1, <1>2 DEF IntakeInv

\* Every step keeps the types.
LEMMA TypeStep == ASSUME IntakeInv, [Next]_vars PROVE TypeOK'
<1> USE IntakeAssumption DEF IntakeInv
<1>1. ASSUME NEW h \in Handlers, Receive(h) PROVE TypeOK'
  BY <1>1 DEF NewRequest, Receive, TypeOK, Threads, Steps, history, Kinds
<1>2. ASSUME NEW h \in Handlers, CheckQuota(h) PROVE TypeOK'
  BY <1>2 DEF CheckQuota, GoTo, Finish, At, TypeOK, Threads, Steps, history
<1>3. ASSUME NEW h \in Handlers, LookUp(h) PROVE TypeOK'
  BY <1>3 DEF LookUp, GoTo, Finish, At, TypeOK, Threads, Steps, Stored, history
<1>4. ASSUME NEW h \in Handlers, Replay(h) \/ CheckDepth(h) \/ CheckPrinterDepth(h)
     PROVE  TypeOK'
  BY <1>4 DEF Replay, CheckDepth, CheckPrinterDepth, GoTo, Finish, At, TypeOK, Threads, Steps,
              history
<1>5. ASSUME NEW h \in Handlers, Insert(h) PROVE TypeOK'
  BY <1>5, NewIdIsNew DEF Insert, GoTo, Finish, At, TypeOK, Threads, Steps, Rows, history
<1>6. ASSUME NEW h \in Handlers, Store(h) PROVE TypeOK'
  <2> DEFINE k == thread[h].key
  <2>1. thread[h] \in Threads /\ k \in Keys
    BY <1>6 DEF Store, At, TypeOK, AnswerInv
  <2>2. stored[k] = None => thread[h].job \in Jobs
    BY <1>6, <2>1 DEF Store, At, TypeOK, UsedInv
  <2>3. stored' \in [Keys -> Stored \cup {None}]
    BY <1>6, <2>1, <2>2 DEF Store, TypeOK, Threads, Stored
  <2> QED
    BY <1>6, <2>1, <2>3 DEF Store, Finish, TypeOK
<1>7. ASSUME NEW j \in Jobs, Settle(j, "closed") \/ Settle(j, "canceled") \/ Return(j)
     PROVE  TypeOK'
  BY <1>7 DEF Settle, Return, Active, Existing, TypeOK, Rows, history
<1>8. ASSUME NEW j \in Jobs, PruneJob(j) PROVE TypeOK'
  BY <1>8 DEF PruneJob, TypeOK, history
<1>9. ASSUME NEW k \in Keys, ExpireKey(k) PROVE TypeOK'
  <2>1. ASSUME NEW h \in Handlers PROVE thread'[h] \in Threads \cup {None}
    BY <1>9, <2>1 DEF ExpireKey, TypeOK, Threads
  <2>2. thread' \in [Handlers -> Threads \cup {None}]
    BY <1>9, <2>1 DEF ExpireKey
  <2> QED
    BY <1>9, <2>2 DEF ExpireKey, TypeOK
<1>10. CASE Midnight
  <2>1. ASSUME NEW j \in Jobs PROVE row'[j] \in Rows \cup {None}
    BY <1>10, <2>1 DEF Midnight, TypeOK, Rows
  <2>2. row' \in [Jobs -> Rows \cup {None}]
    BY <1>10, <2>1 DEF Midnight
  <2> QED
    BY <1>10, <2>2 DEF Midnight, TypeOK, history
<1>11. CASE Crash
  BY <1>11 DEF Crash, TypeOK
<1>12. CASE UNCHANGED vars
  BY <1>12 DEF vars, history, TypeOK
<1> QED
  BY <1>1, <1>2, <1>3, <1>4, <1>5, <1>6, <1>7, <1>8, <1>9, <1>10, <1>11, <1>12 DEF Next, Idle

\* Ids are never used twice.
LEMMA UsedStep == ASSUME IntakeInv, [Next]_vars PROVE UsedInv'
<1> USE IntakeAssumption DEF IntakeInv, TypeOK, UsedInv, Existing
<1>1. ASSUME NEW h \in Handlers, Receive(h) PROVE UsedInv'
  <2>1. PICK kind \in Kinds, c \in Contents, k \in Keys \cup {None} :
             /\ kind = "raw" => k = None
             /\ thread' = [thread EXCEPT ![h] = NewRequest(kind, c, k)]
    BY <1>1 DEF NewRequest, Receive
  <2>2. thread'[h].at \in {"quota", "depth"}
    BY <2>1 DEF NewRequest
  <2> QED
    BY <1>1, <2>1, <2>2 DEF NewRequest, Receive, At
<1>2. ASSUME NEW h \in Handlers, CheckQuota(h) PROVE UsedInv'
  BY <1>2 DEF CheckQuota, GoTo, Finish, At, Threads
<1>3. ASSUME NEW h \in Handlers, LookUp(h) PROVE UsedInv'
  BY <1>3 DEF AnswerInv, LookUp, GoTo, Finish, At, Threads, Stored
<1>4. ASSUME NEW h \in Handlers, Replay(h) \/ CheckDepth(h) \/ CheckPrinterDepth(h)
     PROVE  UsedInv'
  BY <1>4 DEF Replay, CheckDepth, CheckPrinterDepth, GoTo, Finish, At, Threads
<1>5. ASSUME NEW h \in Handlers, Insert(h) PROVE UsedInv'
  BY <1>5, NewIdIsNew DEF Insert, Finish, At, Threads, Rows
<1>6. ASSUME NEW h \in Handlers, Store(h) PROVE UsedInv'
  BY <1>6 DEF Store, Finish, At, Threads, Stored
<1>7. ASSUME NEW j \in Jobs, Settle(j, "closed") \/ Settle(j, "canceled") \/ Return(j)
     PROVE  UsedInv'
  BY <1>7 DEF Settle, Return, Active, At, Rows
<1>8. ASSUME NEW j \in Jobs, PruneJob(j) PROVE UsedInv'
  BY <1>8 DEF PruneJob, At
<1>9. ASSUME NEW k \in Keys, ExpireKey(k) PROVE UsedInv'
  BY <1>9 DEF ExpireKey, At, Threads
<1>10. CASE Midnight
  BY <1>10 DEF Midnight, At, Rows
<1>11. CASE Crash
  BY <1>11 DEF Crash, At
<1>12. CASE UNCHANGED vars
  BY <1>12 DEF vars, history, At
<1> QED
  BY <1>1, <1>2, <1>3, <1>4, <1>5, <1>6, <1>7, <1>8, <1>9, <1>10, <1>11, <1>12 DEF Next, Idle

\* What a key stands for is kept by every step.
LEMMA KeyStep == ASSUME IntakeInv, [Next]_vars PROVE KeyInv'
<1> USE IntakeAssumption DEF IntakeInv, TypeOK, UsedInv, Existing, KeyInv, AnswerInv, Matches
<1>1. ASSUME NEW h \in Handlers, Receive(h) PROVE KeyInv'
  <2>1. PICK kind \in Kinds, c \in Contents, k \in Keys \cup {None} :
             /\ kind = "raw" => k = None
             /\ thread' = [thread EXCEPT ![h] = NewRequest(kind, c, k)]
    BY <1>1 DEF NewRequest, Receive
  <2>2. thread'[h].at \in {"quota", "depth"}
    BY <2>1 DEF NewRequest
  <2> QED
    BY <1>1, <2>1, <2>2 DEF NewRequest, Receive, At
<1>2. ASSUME NEW h \in Handlers, CheckQuota(h) PROVE KeyInv'
  BY <1>2 DEF CheckQuota, GoTo, Finish, At, Threads
<1>3. ASSUME NEW h \in Handlers, LookUp(h) PROVE KeyInv'
  BY <1>3 DEF LookUp, GoTo, Finish, At, Threads, Stored
<1>4. ASSUME NEW h \in Handlers, Replay(h) \/ CheckDepth(h) \/ CheckPrinterDepth(h)
     PROVE  KeyInv'
  BY <1>4 DEF Replay, CheckDepth, CheckPrinterDepth, GoTo, Finish, At, Threads
<1>5. ASSUME NEW h \in Handlers, Insert(h) PROVE KeyInv'
  BY <1>5, NewIdIsNew DEF Insert, Finish, At, Threads, Rows
<1>6. ASSUME NEW h \in Handlers, Store(h) PROVE KeyInv'
  BY <1>6 DEF Store, Finish, At, Threads, Stored
<1>7. ASSUME NEW j \in Jobs, Settle(j, "closed") \/ Settle(j, "canceled") \/ Return(j)
     PROVE  KeyInv'
  BY <1>7 DEF Settle, Return, Active, At, Rows
<1>8. ASSUME NEW j \in Jobs, PruneJob(j) PROVE KeyInv'
  BY <1>8 DEF PruneJob, At
<1>9. ASSUME NEW k \in Keys, ExpireKey(k) PROVE KeyInv'
  BY <1>9 DEF ExpireKey, At, Threads
<1>10. CASE Midnight
  BY <1>10 DEF Midnight, At, Rows
<1>11. CASE Crash
  BY <1>11 DEF Crash, At
<1>12. CASE UNCHANGED vars
  BY <1>12 DEF vars, history, At
<1> QED
  BY <1>1, <1>2, <1>3, <1>4, <1>5, <1>6, <1>7, <1>8, <1>9, <1>10, <1>11, <1>12 DEF Next, Idle

\* What is stored is what was answered.
LEMMA AnswerStep == ASSUME IntakeInv, [Next]_vars PROVE AnswerInv'
<1> USE IntakeAssumption DEF history, IntakeInv, TypeOK, AnswerInv
<1>1. ASSUME NEW h \in Handlers, Receive(h) PROVE AnswerInv'
  <2>1. PICK kind \in Kinds, c \in Contents, k \in Keys \cup {None} :
             /\ kind = "raw" => k = None
             /\ thread' = [thread EXCEPT ![h] = NewRequest(kind, c, k)]
    BY <1>1 DEF NewRequest, Receive
  <2>2. thread'[h].at \in {"quota", "depth"}
    BY <2>1 DEF NewRequest
  <2>3. thread \in [Handlers -> Threads \cup {None}]
    OBVIOUS
  <2>4. thread'[h].again => thread'[h].key \in answered
    BY ONLY <2>1, <2>3 DEF NewRequest
  <2> QED
    BY <1>1, <2>1, <2>2, <2>4 DEF NewRequest, Receive
<1>2. ASSUME NEW h \in Handlers, CheckQuota(h) PROVE AnswerInv'
  BY <1>2 DEF CheckQuota, GoTo, Finish, At, Threads
<1>3. ASSUME NEW h \in Handlers, LookUp(h) PROVE AnswerInv'
  BY <1>3 DEF LookUp, GoTo, Finish, At, Threads, Stored
<1>4. ASSUME NEW h \in Handlers, Replay(h) \/ CheckDepth(h) \/ CheckPrinterDepth(h)
     PROVE  AnswerInv'
  BY <1>4 DEF Replay, CheckDepth, CheckPrinterDepth, GoTo, Finish, At, Threads
<1>5. ASSUME NEW h \in Handlers, Insert(h) PROVE AnswerInv'
  BY <1>5, NewIdIsNew DEF Insert, Finish, At, Threads, Rows
<1>6. ASSUME NEW h \in Handlers, Store(h) PROVE AnswerInv'
  <2> DEFINE k == thread[h].key
  <2>1. thread[h] \in Threads /\ k \in Keys /\ thread[h].job \in Jobs
    BY <1>6 DEF Store, At, UsedInv
  <2>2. [contents |-> thread[h].contents, job |-> thread[h].job] \in Stored
    BY <2>1 DEF Threads, Stored
  <2>3. stored'[k] # None
    BY <1>6, <2>1, <2>2, NoRowAssumption DEF Store
  <2>4. answered' = {l \in Keys : stored'[l] # None}
    BY <1>6, <2>1, <2>3 DEF Store
  <2> QED
    BY <1>6, <2>4 DEF Store, Finish
<1>7. ASSUME NEW j \in Jobs, Settle(j, "closed") \/ Settle(j, "canceled") \/ Return(j)
     PROVE  AnswerInv'
  BY <1>7 DEF Settle, Return, Active, At, Rows
<1>8. ASSUME NEW j \in Jobs, PruneJob(j) PROVE AnswerInv'
  BY <1>8 DEF PruneJob, At
<1>9. ASSUME NEW k \in Keys, ExpireKey(k) PROVE AnswerInv'
  <2>1. answered' = {l \in Keys : stored'[l] # None}
    BY <1>9 DEF ExpireKey
  <2>2. ASSUME NEW h \in Handlers, thread'[h] # None
       PROVE  /\ thread'[h].again => thread'[h].key \in answered'
              /\ thread'[h].at \in {"lookup", "replay", "store"} => thread'[h].key \in Keys
    BY <1>9, <2>2 DEF ExpireKey, Threads
  <2> QED
    BY <2>1, <2>2
<1>10. CASE Midnight
  BY <1>10 DEF Midnight, At, Rows
<1>11. CASE Crash
  BY <1>11 DEF Crash, At
<1>12. CASE UNCHANGED vars
  BY <1>12 DEF vars, history, At
<1> QED
  BY <1>1, <1>2, <1>3, <1>4, <1>5, <1>6, <1>7, <1>8, <1>9, <1>10, <1>11, <1>12 DEF Next, Idle

\* No request with an answered key gets past the look-up.
LEMMA NoJobStep == ASSUME IntakeInv, [Next]_vars PROVE NoJobAfterAnswer'
<1> USE IntakeAssumption DEF history, IntakeInv, TypeOK, AnswerInv, NoJobAfterAnswer
<1>1. ASSUME NEW h \in Handlers, Receive(h) PROVE NoJobAfterAnswer'
  <2>1. PICK kind \in Kinds, c \in Contents, k \in Keys \cup {None} :
             /\ kind = "raw" => k = None
             /\ thread' = [thread EXCEPT ![h] = NewRequest(kind, c, k)]
    BY <1>1 DEF NewRequest, Receive
  <2>2. thread'[h].at \in {"quota", "depth"}
    BY <2>1 DEF NewRequest
  <2>3. thread'[h].again => kind = "print"
    BY <2>1 DEF NewRequest, Kinds
  <2>4. kind = "print" => thread'[h].at = "quota"
    BY <2>1 DEF NewRequest
  <2> QED
    BY <1>1, <2>1, <2>3, <2>4 DEF NewRequest, Receive
<1>2. ASSUME NEW h \in Handlers, CheckQuota(h) PROVE NoJobAfterAnswer'
  BY <1>2 DEF CheckQuota, GoTo, Finish, At, Threads
<1>3. ASSUME NEW h \in Handlers, LookUp(h) PROVE NoJobAfterAnswer'
  BY <1>3 DEF LookUp, GoTo, Finish, At, Threads, Stored
<1>4. ASSUME NEW h \in Handlers, Replay(h) \/ CheckDepth(h) \/ CheckPrinterDepth(h)
     PROVE  NoJobAfterAnswer'
  BY <1>4 DEF Replay, CheckDepth, CheckPrinterDepth, GoTo, Finish, At, Threads
<1>5. ASSUME NEW h \in Handlers, Insert(h) PROVE NoJobAfterAnswer'
  BY <1>5, NewIdIsNew DEF Insert, Finish, At, Threads, Rows
<1>6. ASSUME NEW h \in Handlers, Store(h) PROVE NoJobAfterAnswer'
  BY <1>6 DEF Store, Finish, At, Threads, Stored
<1>7. ASSUME NEW j \in Jobs, Settle(j, "closed") \/ Settle(j, "canceled") \/ Return(j)
     PROVE  NoJobAfterAnswer'
  BY <1>7 DEF Settle, Return, Active, At, Rows
<1>8. ASSUME NEW j \in Jobs, PruneJob(j) PROVE NoJobAfterAnswer'
  BY <1>8 DEF PruneJob, At
<1>9. ASSUME NEW k \in Keys, ExpireKey(k) PROVE NoJobAfterAnswer'
  BY <1>9 DEF ExpireKey, At, Threads
<1>10. CASE Midnight
  BY <1>10 DEF Midnight, At, Rows
<1>11. CASE Crash
  BY <1>11 DEF Crash, At
<1>12. CASE UNCHANGED vars
  BY <1>12 DEF vars, history, At
<1> QED
  BY <1>1, <1>2, <1>3, <1>4, <1>5, <1>6, <1>7, <1>8, <1>9, <1>10, <1>11, <1>12 DEF Next, Idle

\* Intake.tla: the inductive invariant holds in every state.
THEOREM IntakeInvariance == Spec => []IntakeInv
<1>1. Init => IntakeInv
  BY IntakeInit
<1>2. IntakeInv /\ [Next]_vars => IntakeInv'
  BY TypeStep, UsedStep, KeyStep, AnswerStep, NoJobStep DEF IntakeInv
<1> QED
  BY <1>1, <1>2, PTL DEF Spec

\* Every variable of Intake keeps its type.
THEOREM IntakeTypeCorrect == Spec => []TypeOK
<1>1. IntakeInv => TypeOK
  BY DEF IntakeInv
<1> QED
  BY IntakeInvariance, <1>1, PTL

\* print.py, print_job(): once a request with a key was answered, no later one with
\* that key makes a job while the key is kept, however many threads serve requests
\* and wherever the process dies.
THEOREM AnsweredOnce == Spec => []NoJobAfterAnswer
<1>1. IntakeInv => NoJobAfterAnswer
  BY DEF IntakeInv
<1> QED
  BY IntakeInvariance, <1>1, PTL

\* print.py, print_job(): a replay names a job made for that key and that payload.
THEOREM RepliesMatch == Spec => []ReplyMatchesRequest
<1>1. IntakeInv => ReplyMatchesRequest
  BY DEF IntakeInv, KeyInv, Matches, ReplyMatchesRequest, Existing
<1> QED
  BY IntakeInvariance, <1>1, PTL

\* queue.py, idempotency_store(): the job of a key stays until the key expires.
THEOREM KeysAreStable == Spec => KeyIsStable
<1> DEFINE Stable == \A k \in Keys : stored[k] # None => stored'[k] \in {stored[k], None}
<1>1. IntakeInv /\ [Next]_vars => [Stable]_vars
  <2> SUFFICES ASSUME IntakeInv, Next PROVE Stable
    BY DEF vars
  <2> USE DEF IntakeInv, TypeOK
  <2>1. ASSUME NEW h \in Handlers, Store(h) PROVE Stable
    BY <2>1 DEF Store
  <2>2. ASSUME NEW k \in Keys, ExpireKey(k) PROVE Stable
    BY <2>2 DEF ExpireKey
  <2>3. ASSUME UNCHANGED stored PROVE Stable
    BY <2>3
  <2> QED
    BY <2>1, <2>2, <2>3
    DEF Next, Receive, CheckQuota, LookUp, Replay, CheckDepth, CheckPrinterDepth, Insert, Settle,
        Return, PruneJob, Midnight, Crash, Idle, vars
<1> QED
  BY IntakeInvariance, <1>1, PTL DEF Spec, KeyIsStable

\* What a step can do to what a cap counts (A), to the requests past the check of
\* that cap (P), and to the number of returns: nothing is added; a request passes
\* the check; one of those past it gets in; a row returns.
Moves(A, P, B, Q, C) ==
    \/ B \subseteq A /\ Q \subseteq P /\ returns' = returns
    \/ B \subseteq A /\ Cardinality(A) < C /\ returns' = returns
    \/ \E h \in P, j \in Jobs : B \subseteq A \cup {j} /\ Q \subseteq P \ {h} /\ returns' = returns
    \/ \E j \in Jobs : B \subseteq A \cup {j} /\ Q \subseteq P /\ returns' = returns + 1

\* Such a step keeps the cap, with the overshoot allowed.
LEMMA Overshoot ==
    ASSUME returns \in Nat,
           NEW A \in SUBSET Jobs, NEW P \in SUBSET Handlers,
           NEW B \in SUBSET Jobs, NEW Q \in SUBSET Handlers, NEW C \in Nat \ {0},
           Cardinality(A) + Cardinality(P) <= C - 1 + Cardinality(Handlers) + returns,
           Moves(A, P, B, Q, C)
    PROVE  Cardinality(B) + Cardinality(Q) <= C - 1 + Cardinality(Handlers) + returns'
<1>1. IsFiniteSet(Jobs) /\ IsFiniteSet(Handlers)
  BY IntakeAssumption
<1>2. IsFiniteSet(A) /\ IsFiniteSet(B) /\ IsFiniteSet(P) /\ IsFiniteSet(Q)
  BY <1>1, FS_Subset
<1>3. /\ Cardinality(A) \in Nat /\ Cardinality(B) \in Nat /\ Cardinality(P) \in Nat
      /\ Cardinality(Q) \in Nat /\ Cardinality(Handlers) \in Nat
  BY <1>1, <1>2, FS_CardinalityType
<1>4. B \subseteq A => Cardinality(B) <= Cardinality(A)
  BY <1>2, FS_Subset
<1>5. Q \subseteq P => Cardinality(Q) <= Cardinality(P)
  BY <1>2, FS_Subset
<1>6. Cardinality(Q) <= Cardinality(Handlers)
  BY <1>1, FS_Subset
<1>7. ASSUME NEW j \in Jobs, B \subseteq A \cup {j} PROVE Cardinality(B) <= Cardinality(A) + 1
  <2>1. /\ IsFiniteSet(A \cup {j})
        /\ Cardinality(A \cup {j}) = IF j \in A THEN Cardinality(A) ELSE Cardinality(A) + 1
    BY ONLY <1>2, FS_AddElement
  <2>2. Cardinality(B) <= Cardinality(A \cup {j}) /\ Cardinality(A \cup {j}) \in Nat
    BY <1>7, <2>1, FS_Subset, FS_CardinalityType
  <2> QED
    BY <1>3, <2>1, <2>2
<1>8. ASSUME NEW h \in P, Q \subseteq P \ {h} PROVE Cardinality(Q) + 1 <= Cardinality(P)
  <2>1. IsFiniteSet(P \ {h}) /\ Cardinality(P \ {h}) = Cardinality(P) - 1
    BY <1>2, FS_RemoveElement
  <2>2. Cardinality(Q) <= Cardinality(P \ {h})
    BY <1>8, <2>1, FS_Subset
  <2> QED
    BY <1>3, <2>1, <2>2
<1>a. CASE B \subseteq A /\ Q \subseteq P /\ returns' = returns
  BY <1>a, <1>3, <1>4, <1>5
<1>b. CASE B \subseteq A /\ Cardinality(A) < C /\ returns' = returns
  BY <1>b, <1>3, <1>4, <1>6
<1>c. CASE \E h \in P, j \in Jobs : B \subseteq A \cup {j} /\ Q \subseteq P \ {h} /\ returns' = returns
  BY <1>c, <1>3, <1>7, <1>8
<1>d. CASE \E j \in Jobs : B \subseteq A \cup {j} /\ Q \subseteq P /\ returns' = returns + 1
  BY <1>d, <1>3, <1>5, <1>7
<1> QED
  BY <1>a, <1>b, <1>c, <1>d DEF Moves

\* What each step does to the depth of the queue.
LEMMA DepthMoves ==
    ASSUME IntakeInv, [Next]_vars
    PROVE  Moves(Active, PastDepth, Active', PastDepth', GlobalMax)
<1> USE IntakeAssumption DEF IntakeInv, TypeOK, history, Moves, At, Active, Existing, PastDepth
<1>1. ASSUME NEW h \in Handlers, Receive(h)
     PROVE  Moves(Active, PastDepth, Active', PastDepth', GlobalMax)
  BY <1>1 DEF NewRequest, Receive
<1>2. ASSUME NEW h \in Handlers, CheckQuota(h)
     PROVE  Moves(Active, PastDepth, Active', PastDepth', GlobalMax)
  BY <1>2 DEF CheckQuota, GoTo, Finish, Threads
<1>3. ASSUME NEW h \in Handlers, LookUp(h)
     PROVE  Moves(Active, PastDepth, Active', PastDepth', GlobalMax)
  BY <1>3 DEF LookUp, GoTo, Finish, Threads
<1>4. ASSUME NEW h \in Handlers, Replay(h)
     PROVE  Moves(Active, PastDepth, Active', PastDepth', GlobalMax)
  BY <1>4 DEF Replay, Finish
<1>5. ASSUME NEW h \in Handlers, CheckDepth(h)
     PROVE  Moves(Active, PastDepth, Active', PastDepth', GlobalMax)
  <2>1. Cardinality(Active) \in Nat
    BY FS_Subset, FS_CardinalityType
  <2>2. CASE Cardinality(Active) >= GlobalMax
    BY <1>5, <2>2 DEF CheckDepth, Finish
  <2>3. CASE Cardinality(Active) < GlobalMax
    BY <2>3, <1>5 DEF CheckDepth
  <2> QED
    BY <2>1, <2>2, <2>3
<1>6. ASSUME NEW h \in Handlers, CheckPrinterDepth(h)
     PROVE  Moves(Active, PastDepth, Active', PastDepth', GlobalMax)
  BY <1>6 DEF CheckPrinterDepth, GoTo, Finish, Threads
<1>7. ASSUME NEW h \in Handlers, Insert(h)
     PROVE  Moves(Active, PastDepth, Active', PastDepth', GlobalMax)
  BY <1>7 DEF Insert, Finish, Threads
<1>8. ASSUME NEW h \in Handlers, Store(h)
     PROVE  Moves(Active, PastDepth, Active', PastDepth', GlobalMax)
  BY <1>8 DEF Store, Finish
<1>9. ASSUME NEW j \in Jobs, Settle(j, "closed") \/ Settle(j, "canceled")
     PROVE  Moves(Active, PastDepth, Active', PastDepth', GlobalMax)
  BY <1>9 DEF Settle, Rows
<1>10. ASSUME NEW j \in Jobs, Return(j)
     PROVE  Moves(Active, PastDepth, Active', PastDepth', GlobalMax)
  BY <1>10 DEF Return, Rows
<1>11. ASSUME NEW j \in Jobs, PruneJob(j)
     PROVE  Moves(Active, PastDepth, Active', PastDepth', GlobalMax)
  BY <1>11 DEF PruneJob
<1>12. ASSUME NEW k \in Keys, ExpireKey(k)
     PROVE  Moves(Active, PastDepth, Active', PastDepth', GlobalMax)
  BY <1>12 DEF ExpireKey, Threads
<1>13. CASE Midnight
  BY <1>13 DEF Midnight, Rows
<1>14. CASE Crash
  BY <1>14 DEF Crash
<1>15. CASE UNCHANGED vars
  BY <1>15 DEF vars
<1> QED
  BY <1>1, <1>2, <1>3, <1>4, <1>5, <1>6, <1>7, <1>8, <1>9, <1>10, <1>11, <1>12, <1>13, <1>14, <1>15
  DEF Next, Idle

\* What each step does to the depth of one printer.
LEMMA PrinterDepthMoves ==
    ASSUME NEW p \in Printers, IntakeInv, [Next]_vars
    PROVE  Moves(ActiveOn(p), PastPrinterDepth(p), ActiveOn(p)', PastPrinterDepth(p)', PrinterMax)
<1> USE IntakeAssumption
    DEF IntakeInv, TypeOK, history, Moves, At, ActiveOn, Active, Existing, PastPrinterDepth
<1>1. ASSUME NEW h \in Handlers, Receive(h)
     PROVE  Moves(ActiveOn(p), PastPrinterDepth(p), ActiveOn(p)', PastPrinterDepth(p)', PrinterMax)
  BY <1>1 DEF NewRequest, Receive
<1>2. ASSUME NEW h \in Handlers, CheckQuota(h)
     PROVE  Moves(ActiveOn(p), PastPrinterDepth(p), ActiveOn(p)', PastPrinterDepth(p)', PrinterMax)
  BY <1>2 DEF CheckQuota, GoTo, Finish, Threads
<1>3. ASSUME NEW h \in Handlers, LookUp(h)
     PROVE  Moves(ActiveOn(p), PastPrinterDepth(p), ActiveOn(p)', PastPrinterDepth(p)', PrinterMax)
  BY <1>3 DEF LookUp, GoTo, Finish, Threads
<1>4. ASSUME NEW h \in Handlers, Replay(h)
     PROVE  Moves(ActiveOn(p), PastPrinterDepth(p), ActiveOn(p)', PastPrinterDepth(p)', PrinterMax)
  BY <1>4 DEF Replay, Finish
<1>5. ASSUME NEW h \in Handlers, CheckDepth(h)
     PROVE  Moves(ActiveOn(p), PastPrinterDepth(p), ActiveOn(p)', PastPrinterDepth(p)', PrinterMax)
  BY <1>5 DEF CheckDepth, GoTo, Finish, Threads
<1>6. ASSUME NEW h \in Handlers, CheckPrinterDepth(h)
     PROVE  Moves(ActiveOn(p), PastPrinterDepth(p), ActiveOn(p)', PastPrinterDepth(p)', PrinterMax)
  <2>1. Cardinality(ActiveOn(p)) \in Nat
    BY FS_Subset, FS_CardinalityType
  <2>2. CASE thread[h].contents.printer # p
    BY <1>6, <2>2 DEF CheckPrinterDepth, GoTo, Finish, Threads
  <2>3. CASE thread[h].contents.printer = p /\ Cardinality(ActiveOn(p)) >= PrinterMax
    BY <1>6, <2>3 DEF CheckPrinterDepth, Finish
  <2>4. CASE Cardinality(ActiveOn(p)) < PrinterMax
    BY <1>6, <2>4 DEF CheckPrinterDepth
  <2> QED
    BY <2>1, <2>2, <2>3, <2>4
<1>7. ASSUME NEW h \in Handlers, Insert(h)
     PROVE  Moves(ActiveOn(p), PastPrinterDepth(p), ActiveOn(p)', PastPrinterDepth(p)', PrinterMax)
  BY <1>7 DEF Insert, Finish, Threads
<1>8. ASSUME NEW h \in Handlers, Store(h)
     PROVE  Moves(ActiveOn(p), PastPrinterDepth(p), ActiveOn(p)', PastPrinterDepth(p)', PrinterMax)
  BY <1>8 DEF Store, Finish
<1>9. ASSUME NEW j \in Jobs, Settle(j, "closed") \/ Settle(j, "canceled")
     PROVE  Moves(ActiveOn(p), PastPrinterDepth(p), ActiveOn(p)', PastPrinterDepth(p)', PrinterMax)
  BY <1>9 DEF Settle, Rows
<1>10. ASSUME NEW j \in Jobs, Return(j)
     PROVE  Moves(ActiveOn(p), PastPrinterDepth(p), ActiveOn(p)', PastPrinterDepth(p)', PrinterMax)
  BY <1>10 DEF Return, Rows
<1>11. ASSUME NEW j \in Jobs, PruneJob(j)
     PROVE  Moves(ActiveOn(p), PastPrinterDepth(p), ActiveOn(p)', PastPrinterDepth(p)', PrinterMax)
  BY <1>11 DEF PruneJob
<1>12. ASSUME NEW k \in Keys, ExpireKey(k)
     PROVE  Moves(ActiveOn(p), PastPrinterDepth(p), ActiveOn(p)', PastPrinterDepth(p)', PrinterMax)
  BY <1>12 DEF ExpireKey, Threads
<1>13. CASE Midnight
  BY <1>13 DEF Midnight, Rows
<1>14. CASE Crash
  BY <1>14 DEF Crash
<1>15. CASE UNCHANGED vars
  BY <1>15 DEF vars
<1> QED
  BY <1>1, <1>2, <1>3, <1>4, <1>5, <1>6, <1>7, <1>8, <1>9, <1>10, <1>11, <1>12, <1>13, <1>14, <1>15
  DEF Next, Idle

\* The prints of the day that the quota of p meters.
Metered(p) == {j \in UsedToday(p) : row[j].kind = "print"}

\* What each step does to the prints of the day of one printer.
LEMMA QuotaMoves ==
    ASSUME NEW p \in Printers, Quota > 0, IntakeInv, [Next]_vars
    PROVE  Moves(Metered(p), PastQuota(p), Metered(p)', PastQuota(p)', Quota)
<1> USE IntakeAssumption
    DEF IntakeInv, TypeOK, history, Moves, At, Metered, UsedToday, Existing, PastQuota
<1>1. ASSUME NEW h \in Handlers, Receive(h)
     PROVE  Moves(Metered(p), PastQuota(p), Metered(p)', PastQuota(p)', Quota)
  <2>1. thread'[h] # None => thread'[h].kind # "print" \/ thread'[h].at = "quota"
    BY <1>1 DEF NewRequest, Receive, Kinds
  <2> QED
    BY <1>1, <2>1 DEF Receive
<1>2. ASSUME NEW h \in Handlers, CheckQuota(h)
     PROVE  Moves(Metered(p), PastQuota(p), Metered(p)', PastQuota(p)', Quota)
  <2>1. Cardinality(UsedToday(p)) \in Nat /\ Cardinality(Metered(p)) <= Cardinality(UsedToday(p))
    BY FS_Subset, FS_CardinalityType
  <2>2. Cardinality(Metered(p)) \in Nat
    BY FS_Subset, FS_CardinalityType
  <2>3. CASE thread[h].contents.printer # p
    BY <1>2, <2>3 DEF CheckQuota, GoTo, Finish, Threads
  <2>4. CASE thread[h].contents.printer = p /\ Cardinality(UsedToday(p)) >= Quota
    BY <1>2, <2>4 DEF CheckQuota, Finish
  <2>5. CASE Cardinality(UsedToday(p)) < Quota
    <3>1. Cardinality(Metered(p)) < Quota
      BY ONLY <2>1, <2>2, <2>5, IntakeAssumption
    <3> QED
      BY <1>2, <3>1 DEF CheckQuota
  <2> QED
    BY <2>1, <2>3, <2>4, <2>5
<1>3. ASSUME NEW h \in Handlers, LookUp(h)
     PROVE  Moves(Metered(p), PastQuota(p), Metered(p)', PastQuota(p)', Quota)
  BY <1>3 DEF LookUp, GoTo, Finish, Threads
<1>4. ASSUME NEW h \in Handlers, Replay(h) \/ Store(h)
     PROVE  Moves(Metered(p), PastQuota(p), Metered(p)', PastQuota(p)', Quota)
  BY <1>4 DEF Replay, Store, Finish
<1>5. ASSUME NEW h \in Handlers, CheckDepth(h)
     PROVE  Moves(Metered(p), PastQuota(p), Metered(p)', PastQuota(p)', Quota)
  BY <1>5 DEF CheckDepth, GoTo, Finish, Threads
<1>6. ASSUME NEW h \in Handlers, CheckPrinterDepth(h)
     PROVE  Moves(Metered(p), PastQuota(p), Metered(p)', PastQuota(p)', Quota)
  BY <1>6 DEF CheckPrinterDepth, GoTo, Finish, Threads
<1>7. ASSUME NEW h \in Handlers, Insert(h)
     PROVE  Moves(Metered(p), PastQuota(p), Metered(p)', PastQuota(p)', Quota)
  BY <1>7 DEF Insert, Finish, Threads
<1>8. ASSUME NEW j \in Jobs, Settle(j, "closed") \/ Settle(j, "canceled")
     PROVE  Moves(Metered(p), PastQuota(p), Metered(p)', PastQuota(p)', Quota)
  BY <1>8 DEF Settle, Active, Rows
<1>9. ASSUME NEW j \in Jobs, Return(j)
     PROVE  Moves(Metered(p), PastQuota(p), Metered(p)', PastQuota(p)', Quota)
  BY <1>9 DEF Return, Active, Rows
<1>10. ASSUME NEW j \in Jobs, PruneJob(j)
     PROVE  Moves(Metered(p), PastQuota(p), Metered(p)', PastQuota(p)', Quota)
  BY <1>10 DEF PruneJob, Active
<1>11. ASSUME NEW k \in Keys, ExpireKey(k)
     PROVE  Moves(Metered(p), PastQuota(p), Metered(p)', PastQuota(p)', Quota)
  BY <1>11 DEF ExpireKey, Threads
<1>12. CASE Midnight
  BY <1>12 DEF Midnight, Rows
<1>13. CASE Crash
  BY <1>13 DEF Crash
<1>14. CASE UNCHANGED vars
  BY <1>14 DEF vars
<1> QED
  BY <1>1, <1>2, <1>3, <1>4, <1>5, <1>6, <1>7, <1>8, <1>9, <1>10, <1>11, <1>12, <1>13, <1>14
  DEF Next, Idle

\* The caps and the quota keep their overshoot in the first state and in every step.
LEMMA OvershootInit == Init => DepthOvershoot /\ QuotaOvershoot
<1> SUFFICES ASSUME Init PROVE DepthOvershoot /\ QuotaOvershoot
  OBVIOUS
<1>1. Active = {} /\ PastDepth = {}
  BY DEF Init, Active, Existing, PastDepth, At
<1>2. ASSUME NEW p \in Printers
      PROVE  /\ ActiveOn(p) = {} /\ PastPrinterDepth(p) = {}
             /\ Metered(p) = {} /\ PastQuota(p) = {}
  BY DEF Init, ActiveOn, Active, Existing, PastPrinterDepth, At, Metered, UsedToday, PastQuota
<1>3. Cardinality({}) = 0 /\ Cardinality(Handlers) \in Nat
  BY IntakeAssumption, FS_EmptySet, FS_CardinalityType
<1>4. ASSUME NEW S, NEW T, S = {}, T = {}, NEW C \in Nat \ {0}
      PROVE  Cardinality(S) + Cardinality(T) <= C - 1 + Cardinality(Handlers) + returns
  <2>1. Cardinality(S) = 0 /\ Cardinality(T) = 0 /\ returns = 0
    BY <1>3, <1>4 DEF Init
  <2> QED
    BY <1>3, <1>4, <2>1
<1>5. DepthOvershoot
  BY <1>1, <1>2, <1>4, IntakeAssumption DEF DepthOvershoot
<1>6. QuotaOvershoot
  BY <1>2, <1>4, IntakeAssumption DEF QuotaOvershoot, Metered
<1> QED
  BY <1>5, <1>6

LEMMA OvershootStep ==
    ASSUME IntakeInv, DepthOvershoot, QuotaOvershoot, [Next]_vars
    PROVE  DepthOvershoot' /\ QuotaOvershoot'
<1>1. returns \in Nat
  BY DEF IntakeInv, TypeOK
<1>2. /\ Active \in SUBSET Jobs /\ Active' \in SUBSET Jobs
      /\ PastDepth \in SUBSET Handlers /\ PastDepth' \in SUBSET Handlers
  BY DEF Active, Existing, PastDepth
<1>3. Cardinality(Active') + Cardinality(PastDepth')
        <= GlobalMax - 1 + Cardinality(Handlers) + returns'
  BY <1>1, <1>2, DepthMoves, Overshoot, IntakeAssumption DEF DepthOvershoot
<1>4. ASSUME NEW p \in Printers
      PROVE  Cardinality(ActiveOn(p)') + Cardinality(PastPrinterDepth(p)')
               <= PrinterMax - 1 + Cardinality(Handlers) + returns'
  <2>1. /\ ActiveOn(p) \in SUBSET Jobs /\ ActiveOn(p)' \in SUBSET Jobs
        /\ PastPrinterDepth(p) \in SUBSET Handlers /\ PastPrinterDepth(p)' \in SUBSET Handlers
    BY DEF ActiveOn, Active, Existing, PastPrinterDepth
  <2> QED
    BY <1>1, <2>1, PrinterDepthMoves, Overshoot, IntakeAssumption DEF DepthOvershoot
<1>5. ASSUME NEW p \in Printers, Quota > 0
      PROVE  Cardinality(Metered(p)') + Cardinality(PastQuota(p)')
               <= Quota - 1 + Cardinality(Handlers) + returns'
  <2>1. /\ Metered(p) \in SUBSET Jobs /\ Metered(p)' \in SUBSET Jobs
        /\ PastQuota(p) \in SUBSET Handlers /\ PastQuota(p)' \in SUBSET Handlers
    BY DEF Metered, UsedToday, Existing, PastQuota
  <2>2. Cardinality(Metered(p)) + Cardinality(PastQuota(p))
          <= Quota - 1 + Cardinality(Handlers) + returns
    BY <1>5 DEF QuotaOvershoot, Metered
  <2> QED
    BY <1>1, <1>5, <2>1, <2>2, QuotaMoves, Overshoot, IntakeAssumption
<1>6. DepthOvershoot'
  BY <1>3, <1>4 DEF DepthOvershoot
<1>7. QuotaOvershoot'
  BY <1>5 DEF QuotaOvershoot, Metered
<1> QED
  BY <1>6, <1>7

\* queue.py, enqueue(): however many requests count at once, the depth exceeds its
\* caps by less than the number of threads, and the rows made active again.
THEOREM DepthIsBounded == Spec => []DepthOvershoot
<1>1. IntakeInv /\ DepthOvershoot /\ QuotaOvershoot /\ [Next]_vars
        => (DepthOvershoot /\ QuotaOvershoot)'
  BY OvershootStep
<1> QED
  BY IntakeInvariance, OvershootInit, <1>1, PTL DEF Spec

\* print.py, _enforce_quota(): the same for the prints of the day on one printer.
THEOREM QuotaIsBounded == Spec => []QuotaOvershoot
<1>1. IntakeInv /\ DepthOvershoot /\ QuotaOvershoot /\ [Next]_vars
        => (DepthOvershoot /\ QuotaOvershoot)'
  BY OvershootStep
<1> QED
  BY IntakeInvariance, OvershootInit, <1>1, PTL DEF Spec

-----------------------------------------------------------------------------
(* Intake implements KeyPromise.                                           *)

\* What is open to a request depends on that request alone.
LEMMA OneMoves ==
    ASSUME IntakeInv, NEW h \in Handlers, NEW x,
           \A g \in Handlers \ {h} : thread'[g] = thread[g],
           OpenRequest(h)' = x
    PROVE  OpenRequests' = [OpenRequests EXCEPT ![h] = x]
<1>1. \A g \in Handlers \ {h} : OpenRequest(g)' = OpenRequest(g)
  BY DEF OpenRequest
<1> QED
  BY <1>1 DEF OpenRequests

\* A request that changes what is due to it is seen to move.
LEMMA SeenToMove ==
    ASSUME NEW h \in Handlers, OpenRequest(h)'.due # OpenRequest(h).due
    PROVE  OpenRequests' # OpenRequests
  BY DEF OpenRequests

\* The first states.
LEMMA PromiseInit == Init => Promise!Init
<1> SUFFICES ASSUME Init PROVE Promise!Init
  OBVIOUS
<1>1. \A h \in Handlers : OpenRequest(h) = [due |-> "nothing"]
  BY DEF Init, OpenRequest
<1>2. OpenRequests = [r \in Handlers |-> [due |-> "nothing"]]
  BY <1>1 DEF OpenRequests
<1> QED
  BY <1>2 DEF Init, Promise!Init, Promise!Nobody

\* A request arrives: it is late exactly if its key is bound.
LEMMA ReceiveIsCome ==
    ASSUME IntakeInv, NEW h \in Handlers, Receive(h)
    PROVE  Promise!RequestMoves
<1> USE DEF IntakeInv
<1>1. PICK kind \in Kinds, c \in Contents, k \in Keys \cup {None} :
           thread' = [thread EXCEPT ![h] = NewRequest(kind, c, k)]
  BY DEF Receive
<1>2. NewRequest(kind, c, k) \in Threads
  BY DEF NewRequest, Threads, Steps, Kinds
<1>3. thread'[h] = NewRequest(kind, c, k) /\ thread'[h] # None
  BY <1>1, <1>2, NoRowAssumption DEF TypeOK
<1>4. DueTo(thread'[h].at) = "decision"
  BY <1>3 DEF NewRequest, DueTo
<1> DEFINE x == [due |-> "decision", key |-> k, contents |-> c, job |-> None,
                 late |-> k \in {b \in Keys : stored[b] # None}]
<1>5. OpenRequest(h)' = x
  <2>1. answered = {b \in Keys : stored[b] # None}
    BY DEF AnswerInv
  <2>2. /\ thread'[h].key = k /\ thread'[h].contents = c /\ thread'[h].job = None
        /\ thread'[h].again = (k \in answered)
    BY <1>3 DEF NewRequest
  <2> QED
    BY <1>3, <1>4, <2>1, <2>2 DEF OpenRequest
<1>6. OpenRequests' = [OpenRequests EXCEPT ![h] = x]
  BY <1>1, <1>5, OneMoves DEF TypeOK
<1>7. OpenRequest(h) = [due |-> "nothing"]
  BY DEF OpenRequest, Receive
<1>8. OpenRequests' # OpenRequests
  BY <1>5, <1>7, SeenToMove
<1>9. Promise!Come(h, k, c)
  BY <1>6, <1>7 DEF Promise!Come, Promise!Request, Promise!Nobody, OpenRequests, Receive
<1> QED
  BY <1>8, <1>9 DEF Promise!RequestMoves

\* What is open to a request that has yet to be decided.
LEMMA Undecided ==
    ASSUME NEW h \in Handlers, thread[h] # None, thread[h].at \notin {"store", "replay"}
    PROVE  OpenRequest(h) = [due |-> "decision", key |-> thread[h].key,
                             contents |-> thread[h].contents, job |-> thread[h].job,
                             late |-> thread[h].again]
  BY DEF OpenRequest, DueTo

\* A request goes from one check to the next, or is refused.
LEMMA ChecksRefuse ==
    ASSUME IntakeInv, NEW h \in Handlers, UNCHANGED <<used, stored>>,
           thread[h] # None, thread[h].at \notin {"store", "replay"},
           \/ Finish(h)
           \/ \E step \in Steps \ {"store", "replay"} : GoTo(h, step)
    PROVE  Promise!RequestMoves \/ UNCHANGED Promise!promise
<1> USE DEF IntakeInv
<1>0. thread[h] \in Threads
  BY DEF TypeOK
<1>1. CASE Finish(h)
  <2>1. OpenRequest(h)' = [due |-> "nothing"]
    BY <1>1 DEF Finish, OpenRequest, TypeOK
  <2>2. OpenRequests' = [OpenRequests EXCEPT ![h] = [due |-> "nothing"]]
    BY <1>1, <2>1, OneMoves DEF Finish, TypeOK
  <2>3. OpenRequests' # OpenRequests
    BY <2>1, Undecided, SeenToMove
  <2>4. Promise!Refuse(h)
    BY <2>2, Undecided DEF Promise!Refuse, Promise!Nobody, OpenRequests
  <2> QED
    BY <2>3, <2>4 DEF Promise!RequestMoves
<1>2. CASE \E step \in Steps \ {"store", "replay"} : GoTo(h, step)
  <2>1. PICK step \in Steps \ {"store", "replay"} : GoTo(h, step)
    BY <1>2
  <2>2. thread'[h] = [thread[h] EXCEPT !.at = step] /\ thread'[h] \in Threads
    BY <1>0, <2>1 DEF GoTo, TypeOK, Threads
  <2>3. thread'[h] # None /\ DueTo(thread'[h].at) = "decision"
    BY <1>0, <2>2, NoRowAssumption DEF DueTo, Threads
  <2>4. OpenRequest(h)' = OpenRequest(h)
    BY <1>0, <2>2, <2>3, Undecided DEF OpenRequest, Threads
  <2>5. OpenRequests' = [OpenRequests EXCEPT ![h] = OpenRequest(h)]
    BY <2>1, <2>4, OneMoves DEF GoTo, TypeOK
  <2>6. OpenRequests' = OpenRequests
    BY <2>5 DEF OpenRequests
  <2> QED
    BY <2>6 DEF Promise!promise
<1> QED
  BY <1>1, <1>2

\* The look-up: a key that is bound is repeated or refused, another one goes on.
LEMMA LookUpAnswers ==
    ASSUME IntakeInv, NEW h \in Handlers, LookUp(h)
    PROVE  Promise!RequestMoves \/ UNCHANGED Promise!promise
<1> USE DEF IntakeInv
<1> DEFINE found == stored[thread[h].key]
<1>1. /\ thread[h] # None /\ thread[h] \in Threads /\ thread[h].at = "lookup"
      /\ thread[h].key \in Keys
      /\ UNCHANGED <<used, stored>>
  BY DEF LookUp, At, TypeOK, AnswerInv
<1>2. CASE Finish(h) \/ GoTo(h, "depth")
  BY <1>1, <1>2, ChecksRefuse DEF Steps
<1>3. CASE /\ found # None /\ found.contents = thread[h].contents
           /\ thread' = [thread EXCEPT ![h].at = "replay", ![h].job = found.job]
  <2> DEFINE x == [due |-> "answer", key |-> thread[h].key, contents |-> thread[h].contents,
                   job |-> found.job, late |-> thread[h].again]
  <2>1. found \in Stored
    BY <1>1, <1>3 DEF TypeOK
  <2>2. thread'[h] = [thread[h] EXCEPT !.at = "replay", !.job = found.job]
    BY <1>1, <1>3 DEF TypeOK
  <2>3. thread'[h] \in Threads
    BY <1>1, <2>1, <2>2 DEF Stored, Threads, Steps
  <2>4. thread'[h] # None /\ DueTo(thread'[h].at) = "answer"
    BY <1>1, <2>2, <2>3, NoRowAssumption DEF DueTo, Threads
  <2>5. OpenRequest(h)' = x
    <3>1. /\ thread'[h].key = thread[h].key /\ thread'[h].contents = thread[h].contents
          /\ thread'[h].again = thread[h].again /\ thread'[h].job = found.job
      BY <1>1, <2>2 DEF Threads
    <3> QED
      BY <2>4, <3>1 DEF OpenRequest
  <2>6. OpenRequests' = [OpenRequests EXCEPT ![h] = x]
    BY <1>3, <2>5, OneMoves DEF TypeOK
  <2>7. OpenRequest(h).due = "decision" /\ OpenRequest(h)'.due = "answer"
    BY <1>1, <2>5, Undecided
  <2>8. OpenRequests' # OpenRequests
    BY <2>7, SeenToMove
  <2>9. Promise!Repeat(h)
    <3>1. OpenRequests[h] = OpenRequest(h)
      BY DEF OpenRequests
    <3>2. OpenRequest(h) = [due |-> "decision", key |-> thread[h].key,
                            contents |-> thread[h].contents, job |-> thread[h].job,
                            late |-> thread[h].again]
      BY <1>1, Undecided
    <3>3. [OpenRequests EXCEPT ![h] =
             Promise!Request("answer", @.key, @.contents, found.job, @.late)]
            = [OpenRequests EXCEPT ![h] = x]
      BY <3>1, <3>2 DEF Promise!Request
    <3> QED
      BY <1>1, <1>3, <2>6, <2>7, <3>1, <3>2, <3>3 DEF Promise!Repeat
  <2> QED
    BY <2>8, <2>9 DEF Promise!RequestMoves
<1> QED
  BY <1>2, <1>3 DEF LookUp

\* A job is made by a request that is not late.
LEMMA InsertMakes ==
    ASSUME IntakeInv, NEW h \in Handlers, Insert(h)
    PROVE  Promise!RequestMoves
<1> USE DEF IntakeInv
<1> DEFINE j == NewId
<1>1. /\ thread[h] # None /\ thread[h] \in Threads /\ thread[h].at = "insert"
      /\ ~ thread[h].again
  BY DEF Insert, At, TypeOK, NoJobAfterAnswer
<1>2. j \in Jobs \ used /\ used' = used \cup {j} /\ UNCHANGED stored
  BY NewIdIsNew DEF Insert, TypeOK
<1> DEFINE x == IF thread[h].key = None THEN [due |-> "nothing"]
                ELSE [due |-> "binding", key |-> thread[h].key, contents |-> thread[h].contents,
                      job |-> j, late |-> thread[h].again]
<1>3. OpenRequest(h) = [due |-> "decision", key |-> thread[h].key,
                        contents |-> thread[h].contents, job |-> thread[h].job,
                        late |-> thread[h].again]
  BY <1>1, Undecided
<1>4. OpenRequest(h)' = x
  <2>1. CASE thread[h].key = None
    <3>1. thread'[h] = None
      BY <2>1 DEF Insert, Finish, TypeOK
    <3> QED
      BY <2>1, <3>1 DEF OpenRequest
  <2>2. CASE thread[h].key # None
    <3>1. thread'[h] = [thread[h] EXCEPT !.at = "store", !.job = j]
      BY <1>1, <2>2 DEF Insert, TypeOK
    <3>2. thread'[h] \in Threads
      BY <1>1, <1>2, <3>1 DEF Threads, Steps
    <3>3. thread'[h] # None /\ DueTo(thread'[h].at) = "binding"
      BY <1>1, <3>1, <3>2, NoRowAssumption DEF DueTo, Threads
    <3> QED
      BY <1>1, <1>3, <2>2, <3>1, <3>3 DEF OpenRequest, Threads
  <2> QED
    BY <2>1, <2>2
<1>5. OpenRequests' = [OpenRequests EXCEPT ![h] = x]
  <2>1. \A g \in Handlers \ {h} : thread'[g] = thread[g]
    BY DEF Insert, Finish, TypeOK
  <2> QED
    BY <1>4, <2>1, OneMoves
<1>6. OpenRequests' # OpenRequests
  <2>1. OpenRequest(h).due = "decision" /\ OpenRequest(h)'.due # "decision"
    BY <1>3, <1>4
  <2> QED
    BY <2>1, SeenToMove
<1>7. Promise!Make(h, j)
  <2>1. OpenRequests[h] = OpenRequest(h)
    BY DEF OpenRequests
  <2>2. [OpenRequests EXCEPT ![h] =
           IF @.key = None THEN [due |-> "nothing"]
           ELSE Promise!Request("binding", @.key, @.contents, j, @.late)]
          = [OpenRequests EXCEPT ![h] = x]
    BY <1>3, <2>1 DEF Promise!Request
  <2>3. OpenRequests[h].due = "decision" /\ ~ OpenRequests[h].late
    BY <1>1, <1>3, <2>1
  <2> QED
    BY <1>2, <1>5, <2>2, <2>3 DEF Promise!Make, Promise!Nobody
<1> QED
  BY <1>2, <1>6, <1>7 DEF Promise!RequestMoves

\* The answer to a request that made a job binds its key, unless it is bound.
LEMMA StoreBinds ==
    ASSUME IntakeInv, NEW h \in Handlers, Store(h)
    PROVE  Promise!RequestMoves
<1> USE DEF IntakeInv
<1>1. thread[h] # None /\ thread[h] \in Threads /\ thread[h].at = "store"
  BY DEF Store, At, TypeOK
<1>2. OpenRequest(h) = [due |-> "binding", key |-> thread[h].key,
                        contents |-> thread[h].contents, job |-> thread[h].job,
                        late |-> thread[h].again]
  BY <1>1 DEF OpenRequest, DueTo
<1>3. OpenRequest(h)' = [due |-> "nothing"]
  BY DEF Store, Finish, OpenRequest, TypeOK
<1>4. OpenRequests' = [OpenRequests EXCEPT ![h] = [due |-> "nothing"]]
  BY <1>3, OneMoves DEF Store, Finish, TypeOK
<1>5. OpenRequests' # OpenRequests
  BY <1>2, <1>3, SeenToMove
<1>6. Promise!Bind(h)
  <2>1. OpenRequests[h] = OpenRequest(h)
    BY DEF OpenRequests
  <2>2. UNCHANGED used
    BY DEF Store
  <2>3. stored' = [stored EXCEPT ![OpenRequests[h].key] =
          IF @ = None
          THEN [contents |-> OpenRequests[h].contents, job |-> OpenRequests[h].job] ELSE @]
    BY <1>2, <2>1 DEF Store
  <2> QED
    BY <1>2, <1>4, <2>1, <2>2, <2>3 DEF Promise!Bind, Promise!Nobody
<1> QED
  BY <1>5, <1>6 DEF Promise!RequestMoves

\* The answer of a replay leaves nothing behind.
LEMMA ReplayAnswers ==
    ASSUME IntakeInv, NEW h \in Handlers, Replay(h)
    PROVE  Promise!RequestMoves
<1> USE DEF IntakeInv
<1>1. OpenRequest(h).due = "answer"
  BY DEF Replay, At, OpenRequest, DueTo
<1>2. OpenRequest(h)' = [due |-> "nothing"]
  BY DEF Replay, Finish, OpenRequest, TypeOK
<1>3. OpenRequests' = [OpenRequests EXCEPT ![h] = [due |-> "nothing"]]
  BY <1>2, OneMoves DEF Replay, Finish, TypeOK
<1>4. OpenRequests' # OpenRequests
  BY <1>1, <1>2, SeenToMove
<1>5. Promise!Answer(h)
  BY <1>1, <1>3 DEF Promise!Answer, Promise!Nobody, OpenRequests, Replay
<1> QED
  BY <1>4, <1>5 DEF Promise!RequestMoves

\* The window of a key ends.
LEMMA ExpiryForgets ==
    ASSUME IntakeInv, NEW k \in Keys, ExpireKey(k)
    PROVE  Promise!Forget(k)
<1> USE DEF IntakeInv
<1> DEFINE y(h) == IF OpenRequest(h).due # "nothing" /\ OpenRequest(h).key = k
                   THEN [OpenRequest(h) EXCEPT !.late = FALSE] ELSE OpenRequest(h)
<1>1. ASSUME NEW h \in Handlers PROVE OpenRequest(h)' = y(h)
  <2>1. CASE thread[h] = None
    BY <2>1 DEF ExpireKey, OpenRequest
  <2>2. CASE thread[h] # None
    <3>1. thread[h] \in Threads /\ OpenRequest(h).due # "nothing"
      BY <2>2 DEF TypeOK, OpenRequest, DueTo
    <3>2. thread'[h] = IF thread[h].key = k THEN [thread[h] EXCEPT !.again = FALSE]
                       ELSE thread[h]
      BY <2>2 DEF ExpireKey
    <3>3. thread'[h] \in Threads /\ thread'[h] # None
      BY <3>1, <3>2, NoRowAssumption DEF Threads
    <3> QED
      BY <2>2, <3>1, <3>2, <3>3 DEF OpenRequest, Threads
  <2> QED
    BY <2>1, <2>2
<1>2. OpenRequests' = [h \in Handlers |-> y(h)]
  BY <1>1 DEF OpenRequests
<1> QED
  BY <1>2 DEF Promise!Forget, OpenRequests, ExpireKey

\* print_job(), idempotency_lookup() and idempotency_store() together keep what a
\* key promises: every step of Intake is one of KeyPromise, or changes nothing there.
THEOREM IntakeKeepsPromise == Spec => KeysAsPromised
<1>1. IntakeInv /\ [Next]_vars => [Promise!Next]_Promise!promise
  <2> SUFFICES ASSUME IntakeInv, [Next]_vars
               PROVE  Promise!Next \/ UNCHANGED Promise!promise
    OBVIOUS
  <2>1. ASSUME NEW h \in Handlers,
               CheckQuota(h) \/ CheckDepth(h) \/ CheckPrinterDepth(h)
        PROVE  Promise!RequestMoves \/ UNCHANGED Promise!promise
    <3>1. /\ UNCHANGED <<used, stored>>
          /\ thread[h] # None /\ thread[h].at \notin {"store", "replay"}
      BY <2>1 DEF CheckQuota, CheckDepth, CheckPrinterDepth, At
    <3>2. \/ Finish(h)
          \/ \E step \in Steps \ {"store", "replay"} : GoTo(h, step)
      BY <2>1 DEF CheckQuota, CheckDepth, CheckPrinterDepth, Steps
    <3> QED
      BY <3>1, <3>2, ChecksRefuse
  <2>2. CASE UNCHANGED <<thread, used, stored>>
    BY <2>2 DEF Promise!promise, OpenRequests, OpenRequest
  <2>3. CASE Crash
    <3>1. OpenRequests' = [h \in Handlers |-> [due |-> "nothing"]]
      BY <2>3 DEF Crash, OpenRequests, OpenRequest
    <3> QED
      BY <2>3, <3>1 DEF Crash, Promise!Next, Promise!Restart, Promise!Nobody
  <2>4. CASE \E k \in Keys : ExpireKey(k)
    BY <2>4, ExpiryForgets DEF Promise!Next
  <2>5. ASSUME NEW h \in Handlers,
               Receive(h) \/ LookUp(h) \/ Replay(h) \/ Insert(h) \/ Store(h)
        PROVE  Promise!RequestMoves \/ UNCHANGED Promise!promise
    BY <2>5, ReceiveIsCome, LookUpAnswers, ReplayAnswers, InsertMakes, StoreBinds
  <2>6. CASE \E j \in Jobs : Settle(j, "closed") \/ Settle(j, "canceled") \/ Return(j)
                               \/ PruneJob(j)
    BY <2>2, <2>6 DEF Settle, Return, PruneJob
  <2>7. CASE Midnight \/ Idle \/ UNCHANGED vars
    BY <2>2, <2>7 DEF Midnight, Idle, vars
  <2> QED
    BY <2>1, <2>3, <2>4, <2>5, <2>6, <2>7 DEF Next, Promise!Next
<1> QED
  BY PromiseInit, IntakeInvariance, <1>1, PTL DEF Spec, KeysAsPromised, Promise!Spec

=============================================================================
