---------------------------- MODULE RateLimiter -----------------------------
(***************************************************************************)
(* RateLimiter.check(): a deque of the times of the requests of one client *)
(* address, shared without a lock by the threads that serve requests.  A   *)
(* thread may be suspended between any two of its operations on the deque. *)
(***************************************************************************)
EXTENDS Integers, Sequences, FiniteSets

CONSTANTS
    Clients,     \* threads with a request of the address
    Limit,       \* per_minute
    Window,      \* the minute, in ticks
    MaxClock,    \* bound: ticks
    MaxChecks    \* bound: requests

ASSUME LimiterAssumption ==
    /\ IsFiniteSet(Clients)
    /\ {Limit, Window} \subseteq Nat \ {0}
    /\ {MaxClock, MaxChecks} \subseteq Nat

VARIABLES
    hits,       \* _hits[key]
    check,      \* check[c]: what thread c does next, and its now
    time,       \* time.monotonic()
    checks,     \* requests so far
    \* history
    admitted,   \* now of each request let in
    lost,       \* hits taken out by a thread for which they were not stale
    together    \* two checks were under way at the same time

limiterVars == <<hits, check, time, checks, admitted, lost, together>>

Places == {"out", "looking", "comparing", "popping", "counting", "appending", "refused", "failed"}

LimiterInit ==
    /\ hits = <<>>
    /\ check = [c \in Clients |-> [at |-> "out", now |-> 0]]
    /\ time = 0 /\ checks = 0
    /\ admitted = <<>>
    /\ lost = 0 /\ together = FALSE

-----------------------------------------------------------------------------
Resting(c) == check[c].at \in {"out", "refused", "failed"}

\* Thread c goes on to a place.
Goes(c, place) == check' = [check EXCEPT ![c].at = place]

\* now = time.monotonic(); the deque of the address is fetched or made.
CheckBegins(c) ==
    /\ Resting(c) /\ checks < MaxChecks
    /\ checks' = checks + 1
    /\ check' = [check EXCEPT ![c] = [at |-> "looking", now |-> time]]
    /\ together' = (together \/ \E d \in Clients : ~Resting(d))
    /\ UNCHANGED <<hits, time, admitted, lost>>

\* Seeded fault: a hit leaves the window when it is a minute old.
Stale_AtTheMinute(hit, now) == hit <= now - Window

\* window[0] < now - 60
Stale(hit, now) == hit < now - Window

\* while window ...
Look(c) ==
    /\ check[c].at = "looking"
    /\ Goes(c, IF hits = <<>> THEN "counting" ELSE "comparing")
    /\ UNCHANGED <<hits, time, checks, admitted, lost, together>>

\* ... and window[0] < now - 60, an IndexError if another thread emptied it.
Compare(c) ==
    /\ check[c].at = "comparing"
    /\ Goes(c, IF hits = <<>> THEN "failed"
               ELSE IF Stale(Head(hits), check[c].now) THEN "popping" ELSE "counting")
    /\ UNCHANGED <<hits, time, checks, admitted, lost, together>>

\* popleft() of whatever is first by now.
Pop(c) ==
    /\ check[c].at = "popping"
    /\ IF hits = <<>>
       THEN Goes(c, "failed") /\ UNCHANGED <<hits, lost>>
       ELSE /\ Goes(c, "looking")
            /\ hits' = Tail(hits)
            /\ lost' = IF Stale(Head(hits), check[c].now) THEN lost ELSE lost + 1
    /\ UNCHANGED <<time, checks, admitted, together>>

\* len(window) >= per_minute: 429.
CountHits(c) ==
    /\ check[c].at = "counting"
    /\ Goes(c, IF Len(hits) >= Limit THEN "refused" ELSE "appending")
    /\ UNCHANGED <<hits, time, checks, admitted, lost, together>>

AppendHit(c) ==
    /\ check[c].at = "appending"
    /\ Goes(c, "out")
    /\ hits' = Append(hits, check[c].now)
    /\ admitted' = Append(admitted, check[c].now)
    /\ UNCHANGED <<time, checks, lost, together>>

\* A check takes less than a tick.
LimiterTick ==
    /\ time < MaxClock
    /\ \A c \in Clients : ~Resting(c) => check[c].now = time
    /\ time' = time + 1
    /\ UNCHANGED <<hits, check, checks, admitted, lost, together>>

LimiterNext ==
    \/ \E c \in Clients :
         CheckBegins(c) \/ Look(c) \/ Compare(c) \/ Pop(c) \/ CountHits(c) \/ AppendHit(c)
    \/ LimiterTick

LimiterSpec == LimiterInit /\ [][LimiterNext]_limiterVars

-----------------------------------------------------------------------------
(* Properties.                                                             *)

\* Every variable has its type.
LimiterTypeOK ==
    /\ hits \in Seq(0..MaxClock) /\ admitted \in Seq(0..MaxClock)
    /\ check \in [Clients -> [at : Places, now : 0..MaxClock]]
    /\ time \in 0..MaxClock /\ checks \in 0..MaxChecks
    /\ lost \in Nat /\ together \in BOOLEAN

\* Requests let in during the ticks from t - span to t.
LetIn(t, span) ==
    Cardinality({i \in DOMAIN admitted : t - span <= admitted[i] /\ admitted[i] <= t})

\* In any minute, less the time a check may take, the limiter lets in what it
\* should, and for each other thread that checks at the same time, and each fresh
\* hit such a thread took for a stale one, at most one request more.  Checks that
\* never overlap let in no more than the limit in any minute, refuse only when the
\* minute has it, and never fail.
LimitHolds ==
    /\ \A t \in 0..time :
         LetIn(t, Window - 1) <= Limit + (Cardinality(Clients) - 1) + lost
    /\ ~together =>
         /\ \A t \in 0..time : LetIn(t, Window) <= Limit
         /\ \A c \in Clients :
              /\ check[c].at = "refused" => LetIn(check[c].now, Window) >= Limit
              /\ check[c].at # "failed"
=============================================================================
