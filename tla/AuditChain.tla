----------------------------- MODULE AuditChain -----------------------------
(***************************************************************************)
(* The hash chain of config_audit: audit.py.  A row keeps the hash of the  *)
(* row before it, and verify_chain() follows these links in order of id.   *)
(*                                                                         *)
(* A hash stands for the row it was computed of: a link is the id of a row,*)
(* or Genesis.  Requests append from threads; the sweep deletes by stamp.  *)
(* print_audit has the same code and only the worker's loop as its writer. *)
(***************************************************************************)
EXTENDS Stamps, FiniteSets

CONSTANTS
    Writers,      \* threads serving requests that end in config_change()
    MaxEntries,   \* bound: rows ever in the table
    Unhashed,     \* rows written before the schema had hashes, the first ids
    Retention,    \* minutes after which the sweep deletes a row
    MaxMinute     \* bound: minutes explored

ASSUME AuditAssumption ==
    /\ IsFiniteSet(Writers)
    /\ MaxEntries \in Nat /\ Unhashed \in 0..MaxEntries
    /\ Retention \in Nat /\ MaxMinute \in Nat

Genesis == 0
Entries == 1..MaxEntries

VARIABLES
    auditMinute,  \* the clock, in minutes
    newest,       \* the last id handed out
    kept,         \* ids of the rows in the table
    link,         \* link[i]: prev_hash of row i
    stampOf,      \* stampOf[i]: ts of row i
    appender,     \* appender[w]: how far thread w is in config_change()
    \* history, read by no guard
    disturbed,    \* disturbed[w]: rows came or went since w took its stamp
    overlapped,   \* a row was appended by a disturbed thread
    torn          \* the sweep met a row of the very minute of its cut

auditVars == <<auditMinute, newest, kept, link, stampOf, appender, disturbed, overlapped, torn>>

-----------------------------------------------------------------------------
AuditSteps == {"idle", "stamped", "linked"}
Appenders == [at : AuditSteps, stamp : StampSet, link : Entries \cup {Genesis}]

\* The rows are numbered in the order they were inserted: AUTOINCREMENT.
LastOf(S) == CHOOSE i \in S : \A k \in S : k <= i

NoHash == MaxEntries + 1

\* Seeded fault: the last row's hash, also when it has none.
LastHash_Null ==
    IF kept = {} THEN Genesis
    ELSE IF LastOf(kept) <= Unhashed THEN NoHash ELSE LastOf(kept)

\* Seeded fault: the last row by stamp, as the listings order them.
LastHash_ByStamp ==
    IF kept = {} THEN Genesis
    ELSE CHOOSE i \in kept : \A k \in kept : ~Earlier(stampOf[i], stampOf[k])

\* _last_hash(): of the last row, unless it has none.
LastHash ==
    IF kept = {} \/ LastOf(kept) <= Unhashed THEN Genesis ELSE LastOf(kept)

\* The threads in the middle of config_change(), W apart, see the table change.
DisturbAllBut(W) ==
    disturbed' = [w \in Writers |->
        disturbed[w] \/ (w \notin W /\ appender[w].at # "idle")]

\* Time the unhashed rows were written at: the first minute.
AuditInit ==
    /\ auditMinute = 0
    /\ newest = Unhashed
    /\ kept = 1..Unhashed
    /\ link = [i \in Entries |-> Genesis]
    /\ \E s \in StampsOf(0) :
         /\ stampOf = [i \in Entries |-> s]
         /\ appender = [w \in Writers |-> [at |-> "idle", stamp |-> s, link |-> Genesis]]
    /\ disturbed = [w \in Writers |-> FALSE]
    /\ overlapped = FALSE
    /\ torn = FALSE

\* config_change() takes its stamp, ...
TakeStamp(w) ==
    /\ appender[w].at = "idle"
    /\ newest + Cardinality({v \in Writers : appender[v].at # "idle"}) < MaxEntries
    /\ \E s \in StampsOf(auditMinute) :
         appender' = [appender EXCEPT ![w].at = "stamped", ![w].stamp = s]
    /\ disturbed' = [disturbed EXCEPT ![w] = FALSE]
    /\ UNCHANGED <<auditMinute, newest, kept, link, stampOf, overlapped, torn>>

\* ... reads the hash of the last row ...
ReadLastHash(w) ==
    /\ appender[w].at = "stamped"
    /\ appender' = [appender EXCEPT ![w].at = "linked", ![w].link = LastHash]
    /\ UNCHANGED <<auditMinute, newest, kept, link, stampOf, disturbed, overlapped, torn>>

\* ... and inserts a row linked to it.
AppendEntry(w) ==
    /\ appender[w].at = "linked"
    /\ newest' = newest + 1
    /\ kept' = kept \cup {newest'}
    /\ link' = [link EXCEPT ![newest'] = appender[w].link]
    /\ stampOf' = [stampOf EXCEPT ![newest'] = appender[w].stamp]
    /\ appender' = [appender EXCEPT ![w].at = "idle"]
    /\ overlapped' = (overlapped \/ disturbed[w])
    /\ DisturbAllBut({w})
    /\ UNCHANGED <<auditMinute, torn>>

\* prune(): the rows stamped before the cut are deleted.
PruneAudit ==
    /\ auditMinute >= Retention
    /\ \E cut \in StampsOf(auditMinute - Retention) :
         /\ kept' = {i \in kept : ~Earlier(stampOf[i], cut)}
         /\ torn' = (torn \/ \E i \in kept : stampOf[i].minute = cut.minute)
    /\ kept' # kept
    /\ DisturbAllBut({})
    /\ UNCHANGED <<auditMinute, newest, link, stampOf, appender, overlapped>>

AuditTick ==
    /\ auditMinute < MaxMinute
    /\ auditMinute' = auditMinute + 1
    /\ UNCHANGED <<newest, kept, link, stampOf, appender, disturbed, overlapped, torn>>

AuditNext ==
    \/ \E w \in Writers : TakeStamp(w) \/ ReadLastHash(w) \/ AppendEntry(w)
    \/ PruneAudit \/ AuditTick

AuditSpec == AuditInit /\ [][AuditNext]_auditVars

-----------------------------------------------------------------------------
AuditTypeOK ==
    /\ auditMinute \in Nat
    /\ newest \in Nat /\ newest <= MaxEntries
    /\ kept \subseteq 1..newest
    /\ link \in [Entries -> Entries \cup {Genesis}]
    /\ stampOf \in [Entries -> StampSet]
    /\ appender \in [Writers -> Appenders]
    /\ disturbed \in [Writers -> BOOLEAN]
    /\ {overlapped, torn} \subseteq BOOLEAN

\* Seeded fault: each row is checked by itself, whatever it is linked to.
Chained_RowByRow(rows) == \A i \in rows : i > Unhashed

\* What verify_chain() finds in a table of these rows: the first is taken as it is,
\* and each other one has to be linked to the row before it.
Chained(rows) ==
    \A i \in rows :
        /\ i > Unhashed
        /\ LET before == {k \in rows : k < i}
           IN  before # {} => link[i] = LastOf(before)

Verifies == Chained(kept)

\* audit.py:5 and audit.py:113: an untouched table verifies, also after the sweep
\* took its oldest rows.  True as long as no two appends overlap, no row written
\* before there were hashes is left, and no sweep cuts within the minute of a row.
UntouchedChainVerifies ==
    overlapped \/ torn \/ kept \cap 1..Unhashed # {} \/ Verifies

\* audit.py:5: any "deletion in the middle breaks the chain, which verify_chain
\* detects".  Of a table that verifies, whatever rows are left still verify only
\* if none is missing between two of them.
HolesShow ==
    Verifies =>
        \A rest \in SUBSET kept :
            Chained(rest) => \A i, k \in rest : \A j \in kept : i < j /\ j < k => j \in rest
=============================================================================
