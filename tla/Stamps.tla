------------------------------- MODULE Stamps -------------------------------
(***************************************************************************)
(* Time stamps as app/db.py writes them: "%Y-%m-%dT%H:%M:%fZ".  In strftime *)
(* %f is the microseconds, so a stamp has the minute and the microseconds  *)
(* of its moment and no seconds; stamps are compared as strings.           *)
(***************************************************************************)
EXTENDS Naturals

CONSTANTS Micros    \* what the last field of a stamp may be, few instead of a million

ASSUME StampsAssumption == Micros \subseteq Nat /\ Micros # {}

StampSet == [minute : Nat, micro : Micros]

\* utcnow_iso() at some moment of a minute: the microseconds may be any.
StampsOf(m) == [minute : {m}, micro : Micros]

\* The order of the strings.
Earlier(a, b) ==
    \/ a.minute < b.minute
    \/ a.minute = b.minute /\ a.micro < b.micro
=============================================================================
