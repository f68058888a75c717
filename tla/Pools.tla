------------------------------- MODULE Pools --------------------------------
(***************************************************************************)
(* resolve_target(): which member of a pool a job is sent to.  The cursor  *)
(* of the round robin is shared by the tasks of the worker, which wait for *)
(* the answer of one member after the other; meanwhile members come up and *)
(* go down and the pool is edited.  One pool; Delivery takes any member.   *)
(***************************************************************************)
EXTENDS Naturals, Sequences, FiniteSets
LOCAL INSTANCE SequencesExt

CONSTANTS
    Members,        \* the printers a pool may have
    Rosters,        \* params.members: sequences of members
    Dispatchers,    \* tasks of the worker
    MaxDispatches,  \* bound: calls of resolve_target()
    MaxFlaps,       \* bound: members that come up or go down
    MaxPoolEdits    \* bound: edits of the pool

ASSUME PoolsAssumption ==
    /\ IsFiniteSet(Members) /\ IsFiniteSet(Dispatchers)
    /\ Rosters # {} /\ Rosters \subseteq Seq(Members)
    /\ \A roster \in Rosters : IsInjective(roster)
    /\ {MaxDispatches, MaxFlaps, MaxPoolEdits} \subseteq Nat

VARIABLES
    roster,      \* the members of the pool, rows that are gone left out
    strategy,    \* params.strategy
    cursor,      \* _rr_state[pool]
    up,          \* members that answer a probe
    search,      \* search[t]: what the task knows of its members
    starts,      \* history: how often a member was the first to be asked, since the last edit
    dispatches, flaps, poolEdits

poolVars == <<roster, strategy, cursor, up, search, starts, dispatches, flaps, poolEdits>>

Strategies == {"failover", "round_robin"}
Outcomes == {"idle", "asking", "found", "none"}

\* order: the members still to be asked, the one being asked first; chosen: the
\* sequence of the one found; doubt: history, members that were down, or did not
\* answer in time, at some moment since the task began; asked: all it set out to ask.
Searches ==
    [at : Outcomes, order : Seq(Members), chosen : Seq(Members),
     asked : SUBSET Members, doubt : SUBSET Members]

NoSearch == [at |-> "idle", order |-> <<>>, chosen |-> <<>>, asked |-> {}, doubt |-> {}]

PoolsInit ==
    /\ roster \in Rosters
    /\ strategy \in Strategies
    /\ cursor = 0
    /\ up \in SUBSET Members
    /\ search = [t \in Dispatchers |-> NoSearch]
    /\ starts = [m \in Members |-> 0]
    /\ dispatches = 0 /\ flaps = 0 /\ poolEdits = 0

-----------------------------------------------------------------------------
(* The order in which members are asked.                                   *)

\* Seeded fault: the members before the cursor are not asked.
RotatedAt_NoWrap(members, at) == SubSeq(members, at + 1, Len(members))

\* members[idx:] + members[:idx]
RotatedAt(members, at) == SubSeq(members, at + 1, Len(members)) \o SubSeq(members, 1, at)

Idle(t) == search[t].at # "asking"

CountFirst(m) == starts' = [starts EXCEPT ![m] = @ + 1]

\* Seeded fault: the cursor does not move.
Advanced_Stays(first) == first

Advanced(first) == (first + 1) % Len(roster)

\* The call up to its first await: the members and the cursor are read, the cursor moved.
BeginSearch(t) ==
    /\ Idle(t) /\ dispatches < MaxDispatches
    /\ dispatches' = dispatches + 1
    /\ \/ /\ roster = <<>>
          /\ search' = [search EXCEPT ![t] = [NoSearch EXCEPT !.at = "none"]]
          /\ UNCHANGED <<cursor, starts>>
       \/ /\ roster # <<>>
          /\ LET first == IF strategy = "round_robin" THEN cursor % Len(roster) ELSE 0
                 order == RotatedAt(roster, first)
             IN  /\ search' = [search EXCEPT ![t] =
                      [at |-> "asking", order |-> order, chosen |-> <<>>, asked |-> ToSet(roster),
                       doubt |-> ToSet(roster) \ up]]
                 /\ IF strategy = "round_robin"
                    THEN cursor' = Advanced(first) /\ CountFirst(Head(order))
                    ELSE UNCHANGED <<cursor, starts>>
    /\ UNCHANGED <<roster, strategy, up, flaps, poolEdits>>

Asked(t) == Head(search[t].order)

\* The member answers.
Answers(t) ==
    /\ search[t].at = "asking" /\ search[t].order # <<>>
    /\ Asked(t) \in up
    /\ search' = [search EXCEPT ![t].at = "found", ![t].chosen = <<Asked(t)>>, ![t].order = <<>>]
    /\ UNCHANGED <<roster, strategy, cursor, up, starts, dispatches, flaps, poolEdits>>

\* It does not, or not within the three seconds: the next one is asked.
DoesNotAnswer(t) ==
    /\ search[t].at = "asking" /\ search[t].order # <<>>
    /\ search' = [search EXCEPT ![t].order = Tail(@), ![t].doubt = @ \cup {Asked(t)}]
    /\ UNCHANGED <<roster, strategy, cursor, up, starts, dispatches, flaps, poolEdits>>

\* All have been asked: PrinterUnreachable, which is retried.
Exhausted(t) ==
    /\ search[t].at = "asking" /\ search[t].order = <<>>
    /\ search' = [search EXCEPT ![t].at = "none"]
    /\ UNCHANGED <<roster, strategy, cursor, up, starts, dispatches, flaps, poolEdits>>

-----------------------------------------------------------------------------
(* Meanwhile.                                                              *)

\* A member comes up or goes down.
Flap(m) ==
    /\ flaps < MaxFlaps
    /\ flaps' = flaps + 1
    /\ up' = IF m \in up THEN up \ {m} ELSE up \cup {m}
    /\ search' = [t \in Dispatchers |->
         [search[t] EXCEPT !.doubt = IF m \in up /\ m \in search[t].asked THEN @ \cup {m} ELSE @]]
    /\ UNCHANGED <<roster, strategy, cursor, starts, dispatches, poolEdits>>

\* The operator edits the pool, or a member's row comes or goes; the cursor stays.
EditPool ==
    /\ poolEdits < MaxPoolEdits
    /\ poolEdits' = poolEdits + 1
    /\ roster' \in Rosters /\ strategy' \in Strategies
    /\ <<roster', strategy'>> # <<roster, strategy>>
    /\ starts' = [m \in Members |-> 0]
    /\ UNCHANGED <<cursor, up, search, dispatches, flaps>>

PoolsNext ==
    \/ \E t \in Dispatchers : BeginSearch(t) \/ Answers(t) \/ DoesNotAnswer(t) \/ Exhausted(t)
    \/ \E m \in Members : Flap(m)
    \/ EditPool

PoolsSpec == PoolsInit /\ [][PoolsNext]_poolVars

-----------------------------------------------------------------------------
(* Properties.                                                             *)

\* Every variable has its type.
PoolsTypeOK ==
    /\ roster \in Rosters /\ strategy \in Strategies
    /\ cursor \in Nat
    /\ up \subseteq Members
    /\ search \in [Dispatchers -> Searches]
    /\ starts \in [Members -> Nat]
    /\ {dispatches, flaps, poolEdits} \subseteq Nat

\* The tasks of a pool in round robin begin with its members in turn, however
\* their searches overlap and whatever they find: since the last edit of the
\* pool no member was first more than once more often than another.
TurnsAreEven ==
    strategy = "round_robin" =>
        \A m, n \in ToSet(roster) : starts[m] <= starts[n] + 1

\* A job is put off for want of a member only when each member of the pool was
\* down, or late with its answer, at some time of the search, and sent only to
\* a member of the pool as it was when the search began.
FindsAReachable ==
    \A t \in Dispatchers :
        /\ search[t].at = "none" => search[t].asked \subseteq search[t].doubt
        /\ search[t].at = "found" => ToSet(search[t].chosen) \subseteq search[t].asked
=============================================================================
