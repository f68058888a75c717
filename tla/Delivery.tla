------------------------------ MODULE Delivery ------------------------------
(***************************************************************************)
(* Delivery of print jobs: the rows of the jobs table (app/queue.py,       *)
(* JobStore), the worker that claims and prints them (Worker), the         *)
(* operator's requests that rewrite them (cancel, requeue, resolve), the   *)
(* retention sweep, and the service going down and coming back.            *)
(*                                                                         *)
(* Steps.  The worker's coroutines run on one event loop, but the          *)
(* operator's requests run in a thread pool and interleave with them at    *)
(* every call on the database, each of which is atomic under the lock of   *)
(* app/db.py.  A step here is therefore the code between two such points:  *)
(* from one database write or await of a coroutine to its next.            *)
(*                                                                         *)
(* Time is not modelled: a job whose next_attempt_at or scheduled_at is in *)
(* the future is a job not claimed yet.                                    *)
(***************************************************************************)
EXTENDS Naturals, FiniteSets

CONSTANTS
    Jobs,         \* job ids (uuid4, never used twice)
    Old,          \* the jobs that pass the retention age while the system runs
    Printers,     \* concrete printers: registry rows that are not pools
    Pooled,       \* the jobs sent to a pool
    Targets,      \* Targets[j]: the printers that job j may be printed on
    Serialized,   \* printers whose type is_serialized() names
    Spooled,      \* cups and ipp_network: may report a retryable error once
                  \* the document has been handed over
    Outlasting,   \* printers whose send() may take longer than the worker waits
    Unaudited,    \* jobs whose audit entry, or redaction, may raise
    Slots,        \* permits of the worker's semaphore (8)
    MaxAttempts,  \* settings.max_attempts
    Handlers,     \* threads serving the operator's requests
    None,         \* no printer, no job
    MaxRequeues,  \* bound: requeues of one job that are explored
    MaxOutages    \* bound: crashes and stops that are explored

ASSUME PrintersAssumption ==
    /\ Old \subseteq Jobs
    /\ Pooled \subseteq Jobs
    /\ Targets \in [Jobs -> SUBSET Printers]
    /\ Serialized \subseteq Printers
    /\ Spooled \subseteq Printers
    /\ Outlasting \subseteq Printers
    /\ Unaudited \subseteq Jobs
    /\ None \notin Jobs \cup Printers

ASSUME LimitsAssumption ==
    /\ Slots \in Nat \ {0}
    /\ MaxAttempts \in Nat \ {0}
    /\ MaxRequeues \in Nat
    /\ MaxOutages \in Nat

VARIABLES
    \* the jobs table, on disk
    status,       \* status[j]: the status column, or "new" / "pruned": no row
    attempts,     \* attempts[j]: the attempts column
    \* the worker, in memory
    pc,           \* pc[j]: where the task of j is; "none": not in _inflight
    snapshot,     \* snapshot[j]: attempts as the task read it
    target,       \* target[j]: the printer the task chose
    lock,         \* lock[p]: the job whose task holds the lock of p
    abandoned,    \* abandoned[p]: threads still in send() for p that no task awaits
    \* the operator's requests, in memory
    request,      \* request[h]: the request h has checked and not yet carried out
    mode,         \* "up", "draining" (stop() called), "down"
    \* history, read by no guard but those of the bounds
    sent,         \* sent[j]: sends of j that may have put bytes on the wire
    requeues,     \* requeues[j]: requeues of j carried out
    vouched,      \* jobs an operator declared done
    interrupted,  \* jobs an outage caught in status rendering or printing
    outages

row == <<status, attempts>>
task == <<pc, snapshot, target>>
history == <<sent, requeues, vouched, interrupted, outages>>
vars == <<row, task, lock, abandoned, request, mode, history>>

-----------------------------------------------------------------------------
(* Vocabulary.                                                             *)

ActiveStates == {"queued", "rendering", "printing"}
Prunable == {"done", "failed", "dead", "canceled"}
JobStates == ActiveStates \cup Prunable \cup {"uncertain"}

\* The states an operator's request accepts, and the one it leaves.
Accepts ==
    [cancel        |-> {"queued", "failed"},
     requeue       |-> {"failed", "dead", "uncertain", "canceled"},
     resolveDone   |-> {"uncertain"},
     resolveFailed |-> {"uncertain"}]

Leaves ==
    [cancel        |-> "canceled",
     requeue       |-> "queued",
     resolveDone   |-> "done",
     resolveFailed |-> "failed"]

Requests == [op : DOMAIN Accepts, job : Jobs]
NoRequest == [op |-> "none", job |-> None]

Exists(j) == status[j] \in JobStates

\* Where a task is when it has printed nothing in its current attempt ...
Unsent == {"claimed", "loaded", "waiting", "connecting", "retry"}
\* ... when a thread of its own is inside backend.send() ...
Sending == {"connecting", "streaming"}
\* ... and when send() is over and a row has yet to be written, or an alert
\* webhook to be answered.
Ending == {"delivered", "cut", "rejected", "crashed", "alert"}
Places == {"none"} \cup Unsent \cup Sending \cup Ending

\* The tasks holding a permit of the semaphore.
Running == {j \in Jobs : pc[j] \notin {"none", "claimed"}}

\* Jobs whose printers all report a failure after the first byte as MidSendError.
Direct == {j \in Jobs : Targets[j] \cap Spooled = {}}

-----------------------------------------------------------------------------
Init ==
    /\ status = [j \in Jobs |-> "new"]
    /\ attempts = [j \in Jobs |-> 0]
    /\ pc = [j \in Jobs |-> "none"]
    /\ snapshot = [j \in Jobs |-> 0]
    /\ target = [j \in Jobs |-> None]
    /\ lock = [p \in Printers |-> None]
    /\ abandoned = [p \in Printers |-> 0]
    /\ request = [h \in Handlers |-> NoRequest]
    /\ mode = "up"
    /\ sent = [j \in Jobs |-> 0]
    /\ requeues = [j \in Jobs |-> 0]
    /\ vouched = {}
    /\ interrupted = {}
    /\ outages = 0

(***************************************************************************)
(* The jobs table.                                                         *)
(***************************************************************************)

\* The UPDATE of JobStore.mark: no row, no effect.
Mark(j, s) == status' = [status EXCEPT ![j] = IF Exists(j) THEN s ELSE @]

\* The INSERT that ends enqueue(); what comes before it is in Intake.
Enqueue(j) ==
    /\ mode = "up"
    /\ status[j] = "new"
    /\ status' = [status EXCEPT ![j] = "queued"]
    /\ UNCHANGED <<attempts, task, lock, abandoned, request, mode, history>>

\* The conditional UPDATE of claim(), and the task _run() then creates.
Claim(j) ==
    /\ mode = "up"
    /\ pc[j] = "none"
    /\ status[j] = "queued"
    /\ Mark(j, "rendering")
    /\ pc' = [pc EXCEPT ![j] = "claimed"]
    /\ UNCHANGED <<attempts, snapshot, target, lock, abandoned, request, mode, history>>

\* The DELETE of prune(), run by the sweep and by the operator.
Prune ==
    /\ mode = "up"
    /\ \E j \in Old : status[j] \in Prunable
    /\ status' = [j \in Jobs |->
                    IF j \in Old /\ status[j] \in Prunable THEN "pruned" ELSE status[j]]
    /\ UNCHANGED <<attempts, task, lock, abandoned, request, mode, history>>

(***************************************************************************)
(* The task of a job: _guarded() and _process().                           *)
(***************************************************************************)

\* A permit of the semaphore, then the row as this attempt will see it.
Load(j) ==
    /\ pc[j] = "claimed"
    /\ Cardinality(Running) < Slots
    /\ pc' = [pc EXCEPT ![j] = IF Exists(j) THEN "loaded" ELSE "crashed"]
    /\ snapshot' = [snapshot EXCEPT ![j] = attempts[j]]
    /\ UNCHANGED <<row, target, lock, abandoned, request, mode, history>>

\* Seeded fault: the printer's lock is not taken.
Render_Unlocked(j) ==
    /\ pc[j] = "loaded"
    /\ \E p \in Targets[j] : target' = [target EXCEPT ![j] = p]
    /\ pc' = [pc EXCEPT ![j] = "connecting"]
    /\ Mark(j, "printing")
    /\ UNCHANGED <<attempts, snapshot, lock, abandoned, request, mode, history>>

\* resolve_target() found a printer and the job renders.
Render(j) ==
    /\ pc[j] = "loaded"
    /\ \E p \in Targets[j] :
         /\ target' = [target EXCEPT ![j] = p]
         /\ pc' = [pc EXCEPT ![j] = IF p \in Serialized THEN "waiting" ELSE "connecting"]
    /\ Mark(j, "printing")
    /\ UNCHANGED <<attempts, snapshot, lock, abandoned, request, mode, history>>

\* No member of the pool answers, or it has none.
NoMemberReachable(j) ==
    /\ pc[j] = "loaded"
    /\ j \in Pooled
    /\ pc' = [pc EXCEPT ![j] = "retry"]
    /\ UNCHANGED <<row, snapshot, target, lock, abandoned, request, mode, history>>

\* _render() raises ApiError: terminal, in two writes.
RejectRender(j) ==
    /\ pc[j] = "loaded"
    /\ Mark(j, "failed")
    /\ pc' = [pc EXCEPT ![j] = "rejected"]
    /\ UNCHANGED <<attempts, snapshot, target, lock, abandoned, request, mode, history>>

BuryRejected(j) ==
    /\ pc[j] = "rejected"
    /\ Mark(j, "dead")
    /\ pc' = [pc EXCEPT ![j] = "alert"]
    /\ UNCHANGED <<attempts, snapshot, target, lock, abandoned, request, mode, history>>

\* Any other exception before the send: the printer's row is gone, the pool
\* is nested, the payload was erased.
CrashEarly(j) ==
    /\ pc[j] = "loaded"
    /\ pc' = [pc EXCEPT ![j] = "crashed"]
    /\ UNCHANGED <<row, snapshot, target, lock, abandoned, request, mode, history>>

AcquireLock(j) ==
    /\ pc[j] = "waiting"
    /\ lock[target[j]] = None
    /\ lock' = [lock EXCEPT ![target[j]] = j]
    /\ pc' = [pc EXCEPT ![j] = "connecting"]
    /\ UNCHANGED <<row, snapshot, target, abandoned, request, mode, history>>

\* The first byte may leave.
StartStream(j) ==
    /\ pc[j] = "connecting"
    /\ pc' = [pc EXCEPT ![j] = "streaming"]
    /\ sent' = [sent EXCEPT ![j] = @ + 1]
    /\ UNCHANGED <<row, snapshot, target, lock, abandoned, request, mode,
                   requeues, vouched, interrupted, outages>>

\* send() is over, or no longer waited for: the task leaves `async with lock`.
LeaveSend(j, place) ==
    /\ pc' = [pc EXCEPT ![j] = place]
    /\ lock' = [p \in Printers |-> IF lock[p] = j THEN None ELSE lock[p]]
    /\ UNCHANGED <<row, snapshot, target, request, mode, requeues, vouched, interrupted, outages>>

Delivered(j) ==
    /\ pc[j] = "streaming"
    /\ LeaveSend(j, "delivered")
    /\ UNCHANGED <<abandoned, sent>>

\* Seeded faults: a broken stream is retried; it is taken for a success.
CutShort_Retried(j) ==
    pc[j] \in Sending /\ LeaveSend(j, "retry") /\ UNCHANGED <<abandoned, sent>>

CutShort_Swallowed(j) ==
    pc[j] \in Sending /\ LeaveSend(j, "delivered") /\ UNCHANGED <<abandoned, sent>>

\* MidSendError: the link dies, or the payload is of a kind the printer refuses.
CutShort(j) ==
    /\ pc[j] \in Sending
    /\ LeaveSend(j, "cut")
    /\ UNCHANGED <<abandoned, sent>>

\* PrinterUnreachable or BackendError.
Unreachable(j) ==
    /\ pc[j] = "connecting" \/ (pc[j] = "streaming" /\ target[j] \in Spooled)
    /\ LeaveSend(j, "retry")
    /\ UNCHANGED <<abandoned, sent>>

\* An exception of another class: cups.IPPError, OSError of a virtual printer.
CrashSend(j) ==
    /\ pc[j] \in Sending
    /\ LeaveSend(j, "crashed")
    /\ UNCHANGED <<abandoned, sent>>

\* wait_for() gives up.  The thread does not: it may still stream the payload.
TimeOut(j) ==
    /\ pc[j] \in Sending
    /\ target[j] \in Outlasting
    /\ LeaveSend(j, "cut")
    /\ abandoned' = [abandoned EXCEPT ![target[j]] = @ + 1]
    /\ sent' = [sent EXCEPT ![j] = IF pc[j] = "connecting" THEN @ + 1 ELSE @]

\* Seeded fault: a thread that is gone ends again.
AbandonedEnds_Twice(p) ==
    /\ abandoned' = [abandoned EXCEPT ![p] = @ - 1]
    /\ UNCHANGED <<row, task, lock, request, mode, history>>

AbandonedEnds(p) ==
    /\ abandoned[p] > 0
    /\ abandoned' = [abandoned EXCEPT ![p] = @ - 1]
    /\ UNCHANGED <<row, task, lock, request, mode, history>>

\* The write that ends an attempt.
EndAttempt(j, from, s, place) ==
    /\ pc[j] = from
    /\ Mark(j, s)
    /\ pc' = [pc EXCEPT ![j] = place]
    /\ UNCHANGED <<snapshot, target, lock, abandoned, request, mode, history>>

MarkDone(j) == EndAttempt(j, "delivered", "done", "none") /\ UNCHANGED attempts

\* Seeded fault: an interrupted job goes back to the queue.
MarkUncertain_Requeued(j) == EndAttempt(j, "cut", "queued", "alert") /\ UNCHANGED attempts

MarkUncertain(j) == EndAttempt(j, "cut", "uncertain", "alert") /\ UNCHANGED attempts

\* Seeded fault: the task dies without a word.
MarkFailed_Silent(j) ==
    /\ pc[j] = "crashed"
    /\ pc' = [pc EXCEPT ![j] = "none"]
    /\ UNCHANGED <<row, snapshot, target, lock, abandoned, request, mode, history>>

MarkFailed(j) == EndAttempt(j, "crashed", "failed", "none") /\ UNCHANGED attempts

\* The row is written, then the audit entry or the redaction of the payload
\* raises: MarkFailed overwrites the row.
AuditFails(j) ==
    /\ j \in Unaudited
    /\ \/ EndAttempt(j, "delivered", "done", "crashed")
       \/ EndAttempt(j, "cut", "uncertain", "crashed")
    /\ UNCHANGED attempts

\* _retry_or_dead(): the attempts written are those of the snapshot, plus one.
CountAttempt(j) ==
    attempts' = [attempts EXCEPT ![j] = IF Exists(j) THEN snapshot[j] + 1 ELSE @]

Bury(j) ==
    /\ snapshot[j] + 1 >= MaxAttempts
    /\ EndAttempt(j, "retry", "dead", "alert")
    /\ CountAttempt(j)

\* Seeded faults: one attempt too many; a retry that never returns to the queue.
Retry_OnceMore(j) ==
    /\ snapshot[j] + 1 <= MaxAttempts
    /\ EndAttempt(j, "retry", "queued", "none")
    /\ CountAttempt(j)

Retry_Lost(j) ==
    /\ snapshot[j] + 1 < MaxAttempts
    /\ EndAttempt(j, "retry", "rendering", "none")
    /\ CountAttempt(j)

Retry(j) ==
    /\ snapshot[j] + 1 < MaxAttempts
    /\ EndAttempt(j, "retry", "queued", "none")
    /\ CountAttempt(j)

\* The alert webhook is answered, or fails: the task ends.
EndAlert(j) ==
    /\ pc[j] = "alert"
    /\ pc' = [pc EXCEPT ![j] = "none"]
    /\ UNCHANGED <<row, snapshot, target, lock, abandoned, request, mode, history>>

TaskStep(j) ==
    \/ Load(j) \/ Render(j) \/ NoMemberReachable(j)
    \/ RejectRender(j) \/ BuryRejected(j) \/ CrashEarly(j)
    \/ AcquireLock(j) \/ StartStream(j)
    \/ Delivered(j) \/ CutShort(j) \/ Unreachable(j) \/ CrashSend(j) \/ TimeOut(j)
    \/ MarkDone(j) \/ MarkUncertain(j) \/ MarkFailed(j) \/ AuditFails(j)
    \/ Bury(j) \/ Retry(j) \/ EndAlert(j)

(***************************************************************************)
(* The operator: JobStore.cancel, requeue and resolve read the row, then   *)
(* write it.                                                               *)
(***************************************************************************)

\* Bound: the requeues of j carried out or about to be.
RequeuesAhead(j) ==
    requeues[j] + Cardinality({h \in Handlers : request[h] = [op |-> "requeue", job |-> j]})

CheckRequest(h, op, j) ==
    /\ mode = "up"
    /\ request[h] = NoRequest
    /\ status[j] \in Accepts[op]
    /\ op = "requeue" => RequeuesAhead(j) < MaxRequeues
    /\ request' = [request EXCEPT ![h] = [op |-> op, job |-> j]]
    /\ UNCHANGED <<row, task, lock, abandoned, mode, history>>

CarryOut(h) ==
    /\ request[h] # NoRequest
    /\ LET op == request[h].op
           j == request[h].job
       IN  /\ Mark(j, Leaves[op])
           /\ attempts' = [attempts EXCEPT ![j] = IF Exists(j) /\ op = "requeue" THEN 0 ELSE @]
           /\ requeues' = [requeues EXCEPT ![j] = IF Exists(j) /\ op = "requeue" THEN @ + 1 ELSE @]
           /\ vouched' = IF op = "resolveDone" THEN vouched \cup {j} ELSE vouched
    /\ request' = [request EXCEPT ![h] = NoRequest]
    /\ UNCHANGED <<task, lock, abandoned, mode, sent, interrupted, outages>>

(***************************************************************************)
(* The process: lifespan() and Worker.stop().                              *)
(***************************************************************************)

\* Every task, lock, thread and request is gone; the rows stay as they are.
GoDown ==
    /\ mode' = "down"
    /\ pc' = [j \in Jobs |-> "none"]
    /\ snapshot' = [j \in Jobs |-> 0]
    /\ target' = [j \in Jobs |-> None]
    /\ lock' = [p \in Printers |-> None]
    /\ abandoned' = [p \in Printers |-> 0]
    /\ request' = [h \in Handlers |-> NoRequest]
    /\ interrupted' = interrupted \cup {j \in Jobs : status[j] \in {"rendering", "printing"}}
    /\ UNCHANGED <<row, requeues, vouched>>

Crash ==
    /\ mode # "down"
    /\ outages < MaxOutages
    /\ outages' = outages + 1
    /\ GoDown
    /\ UNCHANGED sent

\* The server has answered every request when it runs the shutdown half of
\* lifespan(); from then on _run() claims nothing.
Stop ==
    /\ mode = "up"
    /\ \A h \in Handlers : request[h] = NoRequest
    /\ outages < MaxOutages
    /\ outages' = outages + 1
    /\ mode' = "draining"
    /\ UNCHANGED <<row, task, lock, abandoned, request, sent, requeues, vouched, interrupted>>

\* asyncio.wait() returns: every task ended ...
Drained ==
    /\ mode = "draining"
    /\ \A j \in Jobs : pc[j] = "none"
    /\ GoDown
    /\ UNCHANGED <<sent, outages>>

\* ... or shutdown_drain_seconds passed.  Threads already in send() finish it.
DrainTimeOut ==
    /\ mode = "draining"
    /\ \E j \in Jobs : pc[j] # "none"
    /\ sent' = [j \in Jobs |-> IF pc[j] = "connecting" THEN sent[j] + 1 ELSE sent[j]]
    /\ GoDown
    /\ UNCHANGED outages

\* Seeded fault: interrupted rows are queued again.
Restart_Requeues ==
    /\ mode = "down"
    /\ mode' = "up"
    /\ status' = [j \in Jobs |->
                    IF status[j] \in {"rendering", "printing"} THEN "queued" ELSE status[j]]
    /\ UNCHANGED <<attempts, task, lock, abandoned, request, history>>

\* build_context() and Worker.start(): nothing is read back from the rows.
Restart ==
    /\ mode = "down"
    /\ mode' = "up"
    /\ UNCHANGED <<row, task, lock, abandoned, request, history>>

\* A turn of _run() that finds nothing to do.
Poll ==
    /\ mode = "up"
    /\ \A j \in Jobs : pc[j] = "none" /\ status[j] # "queued"
    /\ UNCHANGED vars

-----------------------------------------------------------------------------
Next ==
    \/ \E j \in Jobs : Enqueue(j) \/ Claim(j) \/ TaskStep(j)
    \/ Prune
    \/ \E p \in Printers : AbandonedEnds(p)
    \/ \E h \in Handlers :
         \/ \E op \in DOMAIN Accepts, j \in Jobs : CheckRequest(h, op, j)
         \/ CarryOut(h)
    \/ Crash \/ Stop \/ Drained \/ DrainTimeOut \/ Restart \/ Poll

Spec == Init /\ [][Next]_vars

\* The event loop runs every ready coroutine, a thread pool thread is
\* scheduled, every wait has a timeout, and the supervisor restarts the service.
Fairness ==
    /\ \A j \in Jobs : WF_vars(Claim(j)) /\ WF_vars(TaskStep(j))
    /\ \A h \in Handlers : WF_vars(CarryOut(h))
    /\ WF_vars(Drained \/ DrainTimeOut)
    /\ WF_vars(Restart)

FairSpec == Spec /\ Fairness

-----------------------------------------------------------------------------
(* Properties.                                                             *)

\* Every variable has its type.
TypeOK ==
    /\ status \in [Jobs -> JobStates \cup {"new", "pruned"}]
    /\ attempts \in [Jobs -> Nat]
    /\ pc \in [Jobs -> Places]
    /\ snapshot \in [Jobs -> Nat]
    /\ target \in [Jobs -> Printers \cup {None}]
    /\ lock \in [Printers -> Jobs \cup {None}]
    /\ abandoned \in [Printers -> Nat]
    /\ request \in [Handlers -> Requests \cup {NoRequest}]
    /\ mode \in {"up", "draining", "down"}
    /\ sent \in [Jobs -> Nat]
    /\ requeues \in [Jobs -> Nat]
    /\ vouched \subseteq Jobs
    /\ interrupted \subseteq Jobs
    /\ outages \in Nat

-----------------------------------------------------------------------------
\* Decision 16: a job whose printers report a broken stream is put on the wire
\* at most once, and once more for each requeue an operator asked for, whatever
\* the retries, the operator's races with the worker, the time-outs and the
\* outages.
AtMostOnce == \A j \in Direct : sent[j] <= 1 + requeues[j]

\* The inductive form of AtMostOnce: what may still put the job on the wire (a
\* task that has not sent in this attempt, a queued row) counts as a printing.
Credit(j) ==
    /\ sent[j] + (IF pc[j] \in Unsent THEN 1 ELSE 0)
               + (IF status[j] = "queued" THEN 1 ELSE 0) <= 1 + requeues[j]
    /\ status[j] = "new" => pc[j] = "none" /\ sent[j] = 0 /\ requeues[j] = 0
CreditInv == \A j \in Direct : Credit(j)

\* A task that waits for a printer or sends to it has chosen one of the job's.
TargetInv == \A j \in Jobs : pc[j] \in {"waiting"} \cup Sending => target[j] \in Targets[j]

\* A send to a serialized printer goes on under that printer's lock.
LockInv ==
    /\ \A j \in Jobs : pc[j] \in Sending /\ target[j] \in Serialized => lock[target[j]] = j
    /\ \A p \in Printers \ Outlasting : abandoned[p] = 0

\* A task that only waits for its alert has written the row's final state.
AlertInv ==
    \A j \in Jobs : pc[j] = "alert" => status[j] \notin {"rendering", "printing"}

\* A task that streams, or reports the send as complete, has counted the send.
StreamInv == \A j \in Jobs : pc[j] \in {"streaming", "delivered"} => sent[j] > 0

\* The attempts a task has read, and those it may read, leave one to spend.
BudgetInv ==
    \A j \in Jobs :
      /\ status[j] = "new" => attempts[j] = 0
      /\ pc[j] = "claimed" => attempts[j] < MaxAttempts
      /\ pc[j] \in (Unsent \cup Sending) \ {"claimed"} => snapshot[j] < MaxAttempts

SendingTo(p) == {j \in Jobs : pc[j] \in Sending /\ target[j] = p}

\* One thread inside send() for p, awaited or abandoned.
OneSendAtATime(p) ==
    /\ \A j, k \in SendingTo(p) : j = k
    /\ abandoned[p] + (IF SendingTo(p) = {} THEN 0 ELSE 1) <= 1

\* app/backends/locks.py: the byte streams of a printer never interleave, as
\* long as no send outlasts the worker's wait for it.
StreamsDoNotInterleave == \A p \in Serialized \ Outlasting : OneSendAtATime(p)

\* locks.py again, without that condition (does not hold).
NoInterleavedStreams == \A p \in Serialized : OneSendAtATime(p)

\* A row says rendering or printing only while a task answers for it, unless an
\* outage interrupted the job: no race leaves a job behind that nobody can claim,
\* cancel, requeue or resolve.
OnlyOutagesStrand ==
    \A j \in Jobs : status[j] \in {"rendering", "printing"} => pc[j] # "none" \/ j \in interrupted

\* No job is queued again once its attempts are used up, although the attempts
\* written are those of a snapshot and a requeue resets them at any moment.
RetryBudget ==
    \A j \in Jobs :
      /\ attempts[j] <= MaxAttempts
      /\ status[j] = "queued" => attempts[j] < MaxAttempts

\* A job is reported done only if its bytes left, or an operator said so.
DoneWasSent == \A j \in Jobs : status[j] = "done" => sent[j] > 0 \/ j \in vouched

\* The inductive invariant of DeliveryProofs.
SendInv == TargetInv /\ LockInv /\ StreamInv
RowInv == AlertInv /\ BudgetInv /\ OnlyOutagesStrand /\ RetryBudget /\ DoneWasSent
IInv == TypeOK /\ SendInv /\ CreditInv /\ RowInv

\* Delivery implements the ledger.
Ledger == INSTANCE PrintLedger WITH
    Jobs <- Direct,
    allowed <- [j \in Direct |-> IF status[j] = "new" THEN 0 ELSE 1 + requeues[j]],
    printed <- [j \in Direct |-> sent[j]]
LedgerSpec == Ledger!Spec

\* A queued job is not forgotten: it reaches a state only an operator or the
\* retention sweep leaves, unless an outage interrupts it.
Settled(j) == status[j] \in Prunable \cup {"uncertain", "pruned"}
EveryJobSettles == \A j \in Jobs : status[j] = "queued" ~> Settled(j) \/ j \in interrupted

-----------------------------------------------------------------------------
(* What the documents say and the code does not do.                        *)

\* VIBE-PRINT-MASTER-PLAN.md:93: `uncertain` = process died after bytes began
\* streaming.  Here: a row left printing by a process that is gone.
InterruptedBecomesUncertain ==
    \A j \in Jobs : status[j] = "printing" /\ pc[j] = "none" /\ sent[j] > 0 ~> status[j] = "uncertain"

\* README.md:449, the lifecycle: nothing follows `canceled` but a requeue.
CanceledStaysCanceled ==
    [][\A j \in Jobs : status[j] = "canceled" => status'[j] \in {"canceled", "queued", "pruned"}]_vars

=============================================================================
