---------------------------- MODULE VersionedTable ---------------------------
(****************************************************************************)
(* What versions are good for in one table, without the calls on the        *)
(* database, the look-ups, the caches and the audit.  Every row has a       *)
(* version.  An editor aims at one that was shown, and its edit puts the    *)
(* next version in the place of that one and of no other, unless somebody   *)
(* else wrote to the table since the editor came.  An id is given to one    *)
(* row only, until the table was empty.  Registry implements it.            *)
(****************************************************************************)
EXTENDS Naturals

CONSTANTS Ids, Contents, Editors, None,
    Renumbered   \* whether the numbering may start anew in an empty table

VARIABLES
    table,   \* table[i]: version and content of the row with id i, or None
    seen,    \* <<id, version>> of every row ever shown
    again,   \* the table was empty at some time, and is Renumbered
    aim,     \* aim[e]: the id and the version that e edits, or None
    met      \* editors since whose arrival somebody else wrote

promise == <<table, seen, again, aim, met>>

Version(v, c) == [version |-> v, content |-> c]
Target(i, v) == [id |-> i, version |-> v]

Empty(rows) == \A i \in Ids : rows[i] = None

Init ==
    /\ table \in [Ids -> {None} \cup {Version(1, c) : c \in Contents}]
    /\ seen = {<<i, 1>> : i \in {k \in Ids : table[k] # None}}
    /\ again = (Renumbered /\ Empty(table))
    /\ aim = [e \in Editors |-> None]
    /\ met = {}

\* e wrote: whom of the others that concerns is not said.
Disturb(e) == \E others \in SUBSET (Editors \ {e}) : met' = met \cup others

\* Version v of the row with id i is written, for everybody to see.
Put(i, v, c) ==
    /\ table' = [table EXCEPT ![i] = Version(v, c)]
    /\ seen' = seen \cup {<<i, v>>}

Aim(e, i, v) ==
    /\ aim[e] = None /\ <<i, v>> \in seen
    /\ aim' = [aim EXCEPT ![e] = Target(i, v)]
    /\ UNCHANGED <<table, seen, again, met>>

\* e is refused, finds its row gone, or is done.
Leave(e) ==
    /\ aim' = [aim EXCEPT ![e] = None]
    /\ met' \in {met, met \ {e}}
    /\ UNCHANGED <<table, seen, again>>

Edit(e, c) ==
    /\ aim[e] # None
    /\ LET old == table[aim[e].id]
       IN  /\ old # None
           /\ old.version = aim[e].version \/ e \in met
           /\ Put(aim[e].id, old.version + 1, c)
    /\ Disturb(e)
    /\ aim' = [aim EXCEPT ![e] = None]
    /\ UNCHANGED again

Add(e, i, c) ==
    /\ table[i] = None
    /\ again \/ \A s \in seen : s[1] # i
    /\ Put(i, 1, c)
    /\ Disturb(e)
    /\ UNCHANGED <<again, aim>>

Remove(e, i) ==
    /\ table[i] # None
    /\ table' = [table EXCEPT ![i] = None]
    /\ again' = (again \/ (Renumbered /\ Empty(table')))
    /\ Disturb(e)
    /\ UNCHANGED <<seen, aim>>

\* What is written has no version, or is gone already.
Touch(e) == Disturb(e) /\ UNCHANGED <<table, seen, again, aim>>

\* The steps, by what they are sure to change.
AimsMove ==
    /\ aim' # aim
    /\ \E e \in Editors :
         \/ \E s \in seen : Aim(e, s[1], s[2])
         \/ \E c \in Contents : Edit(e, c)
         \/ Leave(e)

NotesMove == met' # met /\ \E e \in Editors : Leave(e) \/ Touch(e)

RowsMove ==
    /\ table' # table
    /\ \E e \in Editors, i \in Ids : Remove(e, i) \/ \E c \in Contents : Add(e, i, c)

Next == AimsMove \/ NotesMove \/ RowsMove

Spec == Init /\ [][Next]_promise
==============================================================================
