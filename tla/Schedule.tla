------------------------------ MODULE Schedule ------------------------------
(***************************************************************************)
(* When a queued job is due: scheduled_at, which a client gives, and       *)
(* next_attempt_at, which a failed attempt sets, are compared with the     *)
(* stamp of the poll (queue.py, ready() and _retry_or_dead()).             *)
(***************************************************************************)
EXTENDS Stamps, FiniteSets

CONSTANTS
    Scheduled,            \* jobs
    Minute,          \* seconds in a minute
    RetryBase,       \* settings.retry_base_seconds
    RetryMax,        \* settings.retry_max_seconds
    MaxAttempts,     \* settings.max_attempts
    MaxSecond        \* bound: seconds explored

ASSUME ScheduleAssumption ==
    /\ {Minute, MaxAttempts} \subseteq Nat \ {0}
    /\ {RetryBase, RetryMax, MaxSecond} \subseteq Nat
    /\ 0..(Minute - 1) \subseteq Micros

VARIABLES
    second,      \* the clock
    job,         \* job[j]: where j is and its columns
    dueAt        \* history: the second before which j should not be printed

scheduleVars == <<second, job, dueAt>>

-----------------------------------------------------------------------------
\* A column that is NULL is no bound: it is like a stamp of the past.
Past == [minute |-> 0, micro |-> 0]

JobPlaces == {"new", "queued", "claimed", "dead", "done"}
JobRows == [at : JobPlaces, attempts : 0..MaxAttempts, scheduled : StampSet, next : StampSet]

\* The stamps utcnow_iso() may give at second t.
Now(t) == StampsOf(t \div Minute)

\* What a client writes for second t, "…:MM:SSZ": the seconds stand where the
\* other stamps have their microseconds.
ClientStamp(t) == [minute |-> t \div Minute, micro |-> t % Minute]

ScheduleInit ==
    /\ second = 0
    /\ job = [j \in Scheduled |-> [at |-> "new", attempts |-> 0, scheduled |-> Past, next |-> Past]]
    /\ dueAt = [j \in Scheduled |-> 0]

\* enqueue(), with or without scheduled_at.
Submit(j) ==
    /\ job[j].at = "new"
    /\ \/ job' = [job EXCEPT ![j].at = "queued"] /\ UNCHANGED dueAt
       \/ \E t \in (second + 1)..MaxSecond :
            /\ job' = [job EXCEPT ![j].at = "queued", ![j].scheduled = ClientStamp(t)]
            /\ dueAt' = [dueAt EXCEPT ![j] = t]
    /\ UNCHANGED second

\* Seeded fault: scheduled_at is left out of the condition.
Due_Unscheduled(j, now) == job[j].at = "queued" /\ ~Earlier(now, job[j].next)

\* The condition of ready().
Due(j, now) ==
    /\ job[j].at = "queued"
    /\ ~Earlier(now, job[j].next)
    /\ ~Earlier(now, job[j].scheduled)

\* A round of the worker's loop claims all that is due, LIMIT 50 apart.
PollRound ==
    /\ \E now \in Now(second) :
         /\ \E j \in Scheduled : Due(j, now)
         /\ job' = [j \in Scheduled |-> IF Due(j, now) THEN [job[j] EXCEPT !.at = "claimed"] ELSE job[j]]
    /\ UNCHANGED <<second, dueAt>>

\* min(retry_base_seconds * 2 ** (attempts - 1), retry_max_seconds)
Delay(attempts) ==
    LET d == RetryBase * 2 ^ (attempts - 1) IN IF d < RetryMax THEN d ELSE RetryMax

\* Seeded fault: the delay is counted in minutes.
NextAttempt_InMinutes(attempts) == Now(second + Minute * Delay(attempts))

\* next_at: now and the delay, as a stamp.
NextAttempt(attempts) == Now(second + Delay(attempts))

\* Seeded fault: one attempt more.
Exhausted_Late(n) == n > MaxAttempts

\* attempts >= max_attempts
Exhausted(n) == n >= MaxAttempts

\* _retry_or_dead().
RetryOrDead(j) ==
    /\ job[j].at = "claimed"
    /\ LET n == job[j].attempts + 1
       IN  IF Exhausted(n)
           THEN /\ job' = [job EXCEPT ![j].at = "dead", ![j].attempts = n]
                /\ UNCHANGED dueAt
           ELSE /\ \E s \in NextAttempt(n) :
                     job' = [job EXCEPT ![j].at = "queued", ![j].attempts = n, ![j].next = s]
                /\ dueAt' = [dueAt EXCEPT ![j] = second + Delay(n)]
    /\ UNCHANGED second

JobDone(j) ==
    /\ job[j].at = "claimed"
    /\ job' = [job EXCEPT ![j].at = "done"]
    /\ UNCHANGED <<second, dueAt>>

\* requeue() takes next_attempt_at away and leaves scheduled_at.
RequeueDead(j) ==
    /\ job[j].at = "dead"
    /\ job' = [job EXCEPT ![j].at = "queued", ![j].attempts = 0, ![j].next = Past]
    /\ dueAt' = [dueAt EXCEPT ![j] = second]
    /\ UNCHANGED second

ScheduleTick ==
    /\ second < MaxSecond
    /\ second' = second + 1
    /\ UNCHANGED <<job, dueAt>>

ScheduleNext ==
    \/ \E j \in Scheduled : Submit(j) \/ RetryOrDead(j) \/ JobDone(j) \/ RequeueDead(j)
    \/ PollRound \/ ScheduleTick

ScheduleSpec == ScheduleInit /\ [][ScheduleNext]_scheduleVars

-----------------------------------------------------------------------------
ScheduleTypeOK ==
    /\ second \in Nat
    /\ job \in [Scheduled -> JobRows]
    /\ dueAt \in [Scheduled -> Nat]

\* The worker claims j in this step.
Claims(j) == job[j].at = "queued" /\ job'[j].at = "claimed"

\* Stamps keep time to the minute: no job is claimed in a minute before the one
\* it is due in, ...
NeverAMinuteEarly ==
    [][\A j \in Scheduled : Claims(j) => second \div Minute >= dueAt[j] \div Minute]_scheduleVars

\* ... and every poll of a later minute finds it.
FoundTheNextMinute ==
    \A j \in Scheduled :
        job[j].at = "queued" /\ second \div Minute > dueAt[j] \div Minute =>
            \A now \in Now(second) : Due(j, now)

\* README.md:384: scheduled_at is an "ISO-8601 not-before time".
NotBefore == [][\A j \in Scheduled : Claims(j) => second >= dueAt[j]]_scheduleVars
=============================================================================
