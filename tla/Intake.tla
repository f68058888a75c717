------------------------------- MODULE Intake -------------------------------
(***************************************************************************)
(* How a request becomes a row of the jobs table: print_job, print_file,   *)
(* print_raw and reprint of app/api, with the daily quota, the idempotency *)
(* key and the two caps on the depth of the queue.                         *)
(*                                                                         *)
(* These handlers are plain functions, so they run in a thread pool and    *)
(* interleave at every call on the database: a step here is one call.  The *)
(* worker and the operator appear only as what they do to the depth of the *)
(* queue; Delivery has the rest.                                           *)
(***************************************************************************)
EXTENDS Naturals, FiniteSets

CONSTANTS
    Jobs,         \* job ids (uuid4, never used twice)
    Printers,     \* printer ids
    Keys,         \* Idempotency-Key values
    Bodies,       \* payloads
    Handlers,     \* threads serving requests
    GlobalMax,    \* settings.queue_max_depth
    PrinterMax,   \* settings.per_printer_max_depth
    Quota,        \* prints a day on one printer; 0: none configured
    None,         \* no key, no job, no row, no request
    MaxReturns,   \* bound: settled rows made active again
    MaxMishaps    \* bound: crashes and key expiries explored

ASSUME IntakeAssumption ==
    /\ GlobalMax \in Nat \ {0}
    /\ PrinterMax \in Nat \ {0}
    /\ {Quota, MaxReturns, MaxMishaps} \subseteq Nat
    /\ None \notin Jobs \cup Keys
    /\ IsFiniteSet(Jobs) /\ IsFiniteSet(Handlers)

VARIABLES
    row,        \* row[j]: the row of j in the jobs table, or None
    stored,     \* stored[k]: the row of k in the idempotency table, or None
    thread,     \* thread[h]: the request h serves and how far it has got, or None
    used,       \* the job ids drawn so far
    \* history, read by no guard but those of the bounds
    answered,   \* keys of the requests answered with a job, until they expire
    returns, mishaps

history == <<answered, returns, mishaps>>
vars == <<row, stored, thread, used, history>>

-----------------------------------------------------------------------------
(* Vocabulary.                                                             *)

\* What request_hash covers: the printer and the payload.
Contents == [printer : Printers, body : Bodies]

\* /print and /print/file are "print"; /print/raw and reprint are "raw": they
\* skip the quota and take no key.
Kinds == {"print", "raw"}

\* The key is the one the request came with (/print/file leaves it out of the row).
Rows == [contents : Contents, key : Keys \cup {None}, kind : Kinds,
         state : {"active", "closed", "canceled"}, today : BOOLEAN]

Stored == [contents : Contents, job : Jobs]

\* The call on the database a request makes next.
Steps == {"quota", "lookup", "replay", "depth", "printerDepth", "insert", "store"}

\* again: history, a request with this key was answered before this one came.
Threads == [at : Steps, kind : Kinds, contents : Contents, key : Keys \cup {None},
            job : Jobs \cup {None}, again : BOOLEAN]
ASSUME NoRowAssumption == None \notin Stored \cup Threads

Existing == {j \in Jobs : row[j] # None}
Active == {j \in Existing : row[j].state = "active"}
ActiveOn(p) == {j \in Active : row[j].contents.printer = p}

\* count_printer_jobs_since(), since midnight.
UsedToday(p) ==
    {j \in Existing : /\ row[j].contents.printer = p
                      /\ row[j].today
                      /\ row[j].state # "canceled"}

\* The request of h is about to make the call named step.
At(h, step) == thread[h] # None /\ thread[h].at = step

\* The request of h goes on to step, or is over.
GoTo(h, step) == thread' = [thread EXCEPT ![h].at = step]
Finish(h) == thread' = [thread EXCEPT ![h] = None]

-----------------------------------------------------------------------------
Init ==
    /\ row = [j \in Jobs |-> None]
    /\ stored = [k \in Keys |-> None]
    /\ thread = [h \in Handlers |-> None]
    /\ used = {}
    /\ answered = {}
    /\ returns = 0 /\ mishaps = 0

(***************************************************************************)
(* A request.                                                              *)
(***************************************************************************)

NewRequest(kind, c, k) ==
    [at |-> IF kind = "print" THEN "quota" ELSE "depth", kind |-> kind, contents |-> c,
     key |-> k, job |-> None, again |-> k \in answered]

\* Bound: a request comes only if an id is left for it.
Receive(h) ==
    /\ thread[h] = None
    /\ Cardinality(used) + Cardinality({g \in Handlers : thread[g] # None}) < Cardinality(Jobs)
    /\ \E kind \in Kinds, c \in Contents, k \in Keys \cup {None} :
         /\ kind = "raw" => k = None
         /\ thread' = [thread EXCEPT ![h] = NewRequest(kind, c, k)]
    /\ UNCHANGED <<row, stored, used, history>>

\* Seeded fault: the comparison lets one print too many in.
CheckQuota_OffByOne(h) ==
    /\ At(h, "quota")
    /\ IF Quota > 0 /\ Cardinality(UsedToday(thread[h].contents.printer)) > Quota
       THEN Finish(h)
       ELSE GoTo(h, IF thread[h].key = None THEN "depth" ELSE "lookup")
    /\ UNCHANGED <<row, stored, used, history>>

\* _enforce_quota().
CheckQuota(h) ==
    /\ At(h, "quota")
    /\ IF Quota > 0 /\ Cardinality(UsedToday(thread[h].contents.printer)) >= Quota
       THEN Finish(h)
       ELSE GoTo(h, IF thread[h].key = None THEN "depth" ELSE "lookup")
    /\ UNCHANGED <<row, stored, used, history>>

\* Seeded fault: the hash of the request is not compared.
LookUp_Unchecked(h) ==
    /\ At(h, "lookup")
    /\ LET found == stored[thread[h].key]
       IN  IF found = None THEN GoTo(h, "depth")
           ELSE thread' = [thread EXCEPT ![h].at = "replay", ![h].job = found.job]
    /\ UNCHANGED <<row, stored, used, history>>

\* idempotency_lookup(), and the comparison of the hashes.
LookUp(h) ==
    /\ At(h, "lookup")
    /\ LET found == stored[thread[h].key]
       IN  \/ found = None /\ GoTo(h, "depth")
           \/ /\ found # None
              /\ found.contents # thread[h].contents   \* idempotency_conflict
              /\ Finish(h)
           \/ /\ found # None
              /\ found.contents = thread[h].contents
              /\ thread' = [thread EXCEPT ![h].at = "replay", ![h].job = found.job]
    /\ UNCHANGED <<row, stored, used, history>>

\* The answer of a replay names the job, or is not_found if it was pruned.
Replay(h) ==
    /\ At(h, "replay")
    /\ Finish(h)
    /\ UNCHANGED <<row, stored, used, history>>

\* The two reads and the write of enqueue().
CheckDepth(h) ==
    /\ At(h, "depth")
    /\ IF Cardinality(Active) >= GlobalMax THEN Finish(h) ELSE GoTo(h, "printerDepth")
    /\ UNCHANGED <<row, stored, used, history>>

\* Seeded fault: the comparison lets one job too many in.
CheckPrinterDepth_OffByOne(h) ==
    /\ At(h, "printerDepth")
    /\ IF Cardinality(ActiveOn(thread[h].contents.printer)) > PrinterMax
       THEN Finish(h)
       ELSE GoTo(h, "insert")
    /\ UNCHANGED <<row, stored, used, history>>

CheckPrinterDepth(h) ==
    /\ At(h, "printerDepth")
    /\ IF Cardinality(ActiveOn(thread[h].contents.printer)) >= PrinterMax
       THEN Finish(h)
       ELSE GoTo(h, "insert")
    /\ UNCHANGED <<row, stored, used, history>>

\* uuid4: there is always an id left (by the bound of Receive), and which of them
\* is drawn tells no two behaviours apart.
NewId == CHOOSE j \in Jobs \ used : TRUE

Insert(h) ==
    /\ At(h, "insert") /\ used # Jobs
    /\ LET j == NewId IN
         /\ used' = used \cup {j}
         /\ row' = [row EXCEPT ![j] =
              [contents |-> thread[h].contents, key |-> thread[h].key, kind |-> thread[h].kind,
               state |-> "active", today |-> TRUE]]
         /\ IF thread[h].key = None
            THEN Finish(h)
            ELSE thread' = [thread EXCEPT ![h].at = "store", ![h].job = j]
    /\ UNCHANGED <<stored, history>>

\* Seeded faults: INSERT OR REPLACE; the key is answered and not stored.
Store_Replaces(h) ==
    /\ At(h, "store")
    /\ LET k == thread[h].key
       IN  /\ stored' = [stored EXCEPT ![k] =
                [contents |-> thread[h].contents, job |-> thread[h].job]]
           /\ answered' = answered \cup {k}
    /\ Finish(h)
    /\ UNCHANGED <<row, used, returns, mishaps>>

Store_Skipped(h) ==
    /\ At(h, "store")
    /\ answered' = answered \cup {thread[h].key}
    /\ Finish(h)
    /\ UNCHANGED <<row, stored, used, returns, mishaps>>

\* idempotency_store(), INSERT OR IGNORE, and the answer.
Store(h) ==
    /\ At(h, "store")
    /\ LET k == thread[h].key
       IN  /\ stored' = [stored EXCEPT ![k] =
                IF @ = None THEN [contents |-> thread[h].contents, job |-> thread[h].job] ELSE @]
           /\ answered' = answered \cup {k}
    /\ Finish(h)
    /\ UNCHANGED <<row, used, returns, mishaps>>

(***************************************************************************)
(* What happens to the tables meanwhile.                                     *)
(***************************************************************************)

\* Seeded fault: the row keeps a state that is no state.
Settle_Unknown(j, s) ==
    /\ j \in Active
    /\ row' = [row EXCEPT ![j].state = "settled"]
    /\ UNCHANGED <<stored, thread, used, history>>

\* The worker ends the job, or the operator cancels it.
Settle(j, s) ==
    /\ j \in Active
    /\ row' = [row EXCEPT ![j].state = s]
    /\ UNCHANGED <<stored, thread, used, history>>

\* A settled row is active again: JobStore.requeue(), or the write of a task
\* whose job was canceled too late (Delivery).  Neither looks at the caps.
Return(j) ==
    /\ j \in Existing \ Active
    /\ returns < MaxReturns
    /\ row' = [row EXCEPT ![j].state = "active"]
    /\ returns' = returns + 1
    /\ UNCHANGED <<stored, thread, used, answered, mishaps>>

\* The quota counts from midnight.
Midnight ==
    /\ \E j \in Existing : row[j].today
    /\ row' = [j \in Jobs |-> IF row[j] = None THEN None ELSE [row[j] EXCEPT !.today = FALSE]]
    /\ UNCHANGED <<stored, thread, used, history>>

\* prune(), first statement: settled rows of another day.
PruneJob(j) ==
    /\ j \in Existing \ Active
    /\ ~ row[j].today
    /\ row' = [row EXCEPT ![j] = None]
    /\ UNCHANGED <<stored, thread, used, history>>

\* prune(), second statement: a key past its window is forgotten.
ExpireKey(k) ==
    /\ stored[k] # None
    /\ mishaps < MaxMishaps
    /\ stored' = [stored EXCEPT ![k] = None]
    /\ answered' = answered \ {k}
    /\ thread' = [h \in Handlers |->
                    IF thread[h] # None /\ thread[h].key = k
                    THEN [thread[h] EXCEPT !.again = FALSE] ELSE thread[h]]
    /\ mishaps' = mishaps + 1
    /\ UNCHANGED <<row, used, returns>>

\* The process dies: no request is answered, the tables stay.
Crash ==
    /\ \E h \in Handlers : thread[h] # None
    /\ mishaps < MaxMishaps
    /\ mishaps' = mishaps + 1
    /\ thread' = [h \in Handlers |-> None]
    /\ UNCHANGED <<row, stored, used, answered, returns>>

\* No request is being served: the server waits for one.
Idle ==
    /\ \A h \in Handlers : thread[h] = None
    /\ UNCHANGED vars

Next ==
    \/ \E h \in Handlers :
         \/ Receive(h) \/ CheckQuota(h) \/ LookUp(h) \/ Replay(h)
         \/ CheckDepth(h) \/ CheckPrinterDepth(h) \/ Insert(h) \/ Store(h)
    \/ \E j \in Jobs : Settle(j, "closed") \/ Settle(j, "canceled") \/ Return(j) \/ PruneJob(j)
    \/ \E k \in Keys : ExpireKey(k)
    \/ Midnight \/ Crash \/ Idle

Spec == Init /\ [][Next]_vars

-----------------------------------------------------------------------------
(* Properties.                                                             *)

\* Every variable has its type.
TypeOK ==
    /\ row \in [Jobs -> Rows \cup {None}]
    /\ stored \in [Keys -> Stored \cup {None}]
    /\ thread \in [Handlers -> Threads \cup {None}]
    /\ used \subseteq Jobs
    /\ answered \subseteq Keys
    /\ returns \in Nat /\ mishaps \in Nat

\* The requests that enqueue() has let past a cap and that have yet to insert.
PastDepth == {h \in Handlers : At(h, "printerDepth") \/ At(h, "insert")}
PastPrinterDepth(p) == {h \in Handlers : At(h, "insert") /\ thread[h].contents.printer = p}
PastQuota(p) ==
    {h \in Handlers : /\ thread[h] # None
                      /\ thread[h].kind = "print"
                      /\ thread[h].contents.printer = p
                      /\ thread[h].at \in {"lookup", "depth", "printerDepth", "insert"}}

\* How far the depth of the queue can exceed its caps: enqueue() counts, then
\* inserts, so requests that count at the same time all get in; a row made
\* active again is not counted at all.
DepthOvershoot ==
    /\ Cardinality(Active) + Cardinality(PastDepth)
         <= GlobalMax - 1 + Cardinality(Handlers) + returns
    /\ \A p \in Printers :
         Cardinality(ActiveOn(p)) + Cardinality(PastPrinterDepth(p))
           <= PrinterMax - 1 + Cardinality(Handlers) + returns

\* The same for the daily quota and the prints it meters.
QuotaOvershoot ==
    Quota > 0 =>
      \A p \in Printers :
        Cardinality({j \in UsedToday(p) : row[j].kind = "print"}) + Cardinality(PastQuota(p))
          <= Quota - 1 + Cardinality(Handlers) + returns

\* A replay names a job created by a request with that key, for that payload.
ReplyMatchesRequest ==
    \A h \in Handlers :
      At(h, "replay") /\ thread[h].job \in Existing =>
        /\ row[thread[h].job].contents = thread[h].contents
        /\ row[thread[h].job].key = thread[h].key

\* README.md:386 as far as it holds: once a request with a key was answered, no
\* later request with that key creates a job while the key is kept.
NoJobAfterAnswer ==
    \A h \in Handlers :
      thread[h] # None /\ thread[h].again => thread[h].at \in {"quota", "lookup", "replay"}

\* The job a key stands for does not change while the key is kept.
KeyIsStable ==
    [][\A k \in Keys : stored[k] # None => stored'[k] \in {stored[k], None}]_vars

\* print_job(), idempotency_lookup() and idempotency_store(), taken together, with
\* any quota, caps, crashes and settling of jobs, keep what a key promises.
DueTo(at) == CASE at = "store" -> "binding" [] at = "replay" -> "answer" [] OTHER -> "decision"

OpenRequest(h) ==
    IF thread[h] = None THEN [due |-> "nothing"]
    ELSE [due |-> DueTo(thread[h].at), key |-> thread[h].key, contents |-> thread[h].contents,
          job |-> thread[h].job, late |-> thread[h].again]

OpenRequests == [h \in Handlers |-> OpenRequest(h)]

Promise == INSTANCE KeyPromise WITH
    Requests <- Handlers, made <- used, bound <- stored, open <- OpenRequests
KeysAsPromised == Promise!Spec

-----------------------------------------------------------------------------
(* The inductive invariant of IntakeProofs.                                *)

\* The row of j, while it is there, is of a request for c with key k.
Matches(j, c, k) == row[j] # None => row[j].contents = c /\ row[j].key = k

\* Ids are drawn once: no row, no key and no request names one not drawn yet.
UsedInv ==
    /\ Existing \subseteq used
    /\ \A k \in Keys : stored[k] # None => stored[k].job \in used
    /\ \A h \in Handlers : At(h, "store") \/ At(h, "replay") => thread[h].job \in used

\* A key stands for a job of a request with that key and that payload.
KeyInv ==
    /\ \A k \in Keys : stored[k] # None => Matches(stored[k].job, stored[k].contents, k)
    /\ \A h \in Handlers : At(h, "store") \/ At(h, "replay") =>
          Matches(thread[h].job, thread[h].contents, thread[h].key)

\* The keys stored are those answered, and a request knows whether its key was.
AnswerInv ==
    /\ answered = {k \in Keys : stored[k] # None}
    /\ \A h \in Handlers : thread[h] # None =>
          /\ thread[h].again => thread[h].key \in answered
          /\ thread[h].at \in {"lookup", "replay", "store"} => thread[h].key \in Keys

IntakeInv == TypeOK /\ UsedInv /\ KeyInv /\ AnswerInv /\ NoJobAfterAnswer

-----------------------------------------------------------------------------
(* What the documents say and the code does not do.                        *)

\* VIBE-PRINT-MASTER-PLAN.md:256, "dedupe within TTL": one job per key.
OneJobPerKey ==
    \A i, j \in Existing : row[i].key # None /\ row[i].key = row[j].key => i = j

=============================================================================
