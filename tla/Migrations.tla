----------------------------- MODULE Migrations -----------------------------
(***************************************************************************)
(* The upgrade of the database at start: Database.migrate() and the files  *)
(* app/migrations/0001 to 0005.                                            *)
(*                                                                         *)
(* executescript() commits and then runs statement after statement, each   *)
(* one a transaction of its own; schema_migrations gets its row after the  *)
(* last.  A crash may come between any two, and the next start runs the    *)
(* file again from its first statement.  In WAL mode what is committed     *)
(* reaches the database file at a checkpoint, and at the last close.       *)
(***************************************************************************)
EXTENDS Naturals, FiniteSets, Sequences

CONSTANTS
    PrinterRows,       \* printers an operator may have configured
    MaxRestarts     \* bound: starts of the service

ASSUME MigrationsAssumption == MaxRestarts \in Nat

VARIABLES
    release,      \* the files 1..release are in the image that runs
    db,           \* the database as a reader sees it
    file,         \* the database file without its WAL
    backup,       \* the last .pre-<f>.bak written: which, and its content
    boot,         \* the service's start: what it found applied, what it ran, where it is
    starts,       \* starts so far
    \* history, read by no guard
    cutOff,       \* a start died in the middle of 0002, 0003 or 0005
    unclean,      \* the service died since it was last closed
    downgraded    \* an older image than the one before was installed

migrationVars == <<release, db, file, backup, boot, starts, cutOff, unclean, downgraded>>

-----------------------------------------------------------------------------
Files == 1..5
Columns == {"audit_hashes", "job_schedule"}
Tables == {"printers", "printers_new"}

\* Statements, as far as the order among them matters.
Create(t, types) == [op |-> "create", table |-> t, arg |-> types]
CreateIfNotExists(t, types) == [op |-> "ensure", table |-> t, arg |-> types]
AddColumn(c) == [op |-> "column", table |-> c, arg |-> 0]
Copy == [op |-> "copy", table |-> "printers_new", arg |-> 0]
Drop == [op |-> "drop", table |-> "printers", arg |-> 0]
Rename == [op |-> "rename", table |-> "printers_new", arg |-> 0]

\* The CHECK on printers.type lists the types of the file that made the table.
Rebuild(types) == <<Create("printers_new", types), Copy, Drop, Rename>>

\* Seeded fault: the rebuilt table does not get the rows of the old one.
Script_NoCopy(f) ==
    CASE f = 1 -> <<CreateIfNotExists("printers", 1)>>
      [] f = 2 -> <<AddColumn("audit_hashes"), AddColumn("job_schedule")>>
      [] f \in {3, 5} -> <<Create("printers_new", f), Drop, Rename>>
      [] OTHER -> <<CreateIfNotExists("overlays", 4)>>

\* The statements of each file.
Script(f) ==
    CASE f = 1 -> <<CreateIfNotExists("printers", 1)>>
      [] f = 2 -> <<AddColumn("audit_hashes"), AddColumn("job_schedule")>>
      [] f \in {3, 5} -> Rebuild(f)
      [] OTHER -> <<CreateIfNotExists("overlays", 4)>>

\* A database: its tables of printers with the types they allow (0: no such table)
\* and their rows, what else is in the schema, the files recorded as applied.
Databases == [types : [Tables -> 0..5], rows : [Tables -> SUBSET PrinterRows],
              columns : SUBSET Columns, overlays : BOOLEAN, applied : SUBSET Files]
EmptyDb == [types |-> [t \in Tables |-> 0], rows |-> [t \in Tables |-> {}],
            columns |-> {}, overlays |-> FALSE, applied |-> {}]

Exists(d, t) == d.types[t] # 0

\* SQLite raises: the table or the column is there already.
Raises(d, s) ==
    \/ s.op = "create" /\ Exists(d, s.table)
    \/ s.op = "column" /\ s.table \in d.columns

Effect(d, s) ==
    CASE s.op = "create" -> [d EXCEPT !.types[s.table] = s.arg]
      [] s.op = "ensure" /\ s.table \notin Tables -> [d EXCEPT !.overlays = TRUE]
      [] s.op = "ensure" /\ s.table \in Tables ->
           IF Exists(d, s.table) THEN d ELSE [d EXCEPT !.types[s.table] = s.arg]
      [] s.op = "column" -> [d EXCEPT !.columns = @ \cup {s.table}]
      [] s.op = "copy" -> [d EXCEPT !.rows["printers_new"] = @ \cup d.rows["printers"]]
      [] s.op = "drop" -> [d EXCEPT !.types["printers"] = 0, !.rows["printers"] = {}]
      [] s.op = "rename" -> [d EXCEPT !.types = [printers |-> d.types["printers_new"], printers_new |-> 0],
                                      !.rows = [printers |-> d.rows["printers_new"], printers_new |-> {}]]

\* The schema the files up to f make.
Whole(d, f) ==
    /\ d.types["printers_new"] = 0
    /\ d.types["printers"] = CASE f >= 5 -> 5 [] f \in {3, 4} -> 3 [] f \in {1, 2} -> 1 [] OTHER -> 0
    /\ d.columns = IF f >= 2 THEN Columns ELSE {}
    /\ d.overlays = (f >= 4)

\* Seeded fault: the files already applied are not left out.
Missing_Any(applied) == Files \cap 1..release

\* The files of the image not recorded as applied, in order.
Missing(applied) == (1..release) \ applied

NoBackup == [file |-> 0, of |-> EmptyDb]
Down == [at |-> "down", file |-> 0, stmt |-> 0, applied |-> {}, ran |-> {}]
BootRows == [at : {"down", "next", "backup", "script", "record", "serving", "failed"},
             file : 0..5, stmt : 0..5, applied : SUBSET Files, ran : SUBSET Files]

\* A new device, with the image of some release.
MigrationsInit ==
    /\ release \in Files
    /\ db = EmptyDb /\ file = EmptyDb
    /\ backup = NoBackup
    /\ boot = Down
    /\ starts = 0
    /\ cutOff = FALSE /\ unclean = FALSE
    /\ downgraded = FALSE

\* migrate() begins and reads what is applied, once for all the files.
Start ==
    /\ boot.at = "down"
    /\ starts < MaxRestarts /\ starts' = starts + 1
    /\ boot' = [at |-> "next", file |-> 0, stmt |-> 0, applied |-> db.applied, ran |-> {}]
    /\ UNCHANGED <<release, db, file, backup, cutOff, unclean, downgraded>>

\* Seeded fault: the files are taken in the other order.
FirstOf_Reversed(S) == CHOOSE f \in S : \A g \in S : g <= f

\* sorted(MIGRATIONS_DIR.glob("*.sql"))
FirstOf(S) == CHOOSE f \in S : \A g \in S : f <= g

\* The next file: backed up first, unless it was a new database at the start.
NextFile ==
    /\ boot.at = "next"
    /\ LET left == Missing(boot.applied) \ boot.ran
       IN  boot' = IF left = {} THEN [boot EXCEPT !.at = "serving"]
                   ELSE [boot EXCEPT !.at = IF boot.applied # {} THEN "backup" ELSE "script",
                                     !.file = FirstOf(left), !.stmt = 1]
    /\ UNCHANGED <<release, db, file, backup, starts, cutOff, unclean, downgraded>>

\* shutil.copy2(self.path, backup): the file, over an older backup; errors are ignored.
Backup ==
    /\ boot.at = "backup"
    /\ \/ backup' = [file |-> boot.file, of |-> file]
       \/ UNCHANGED backup
    /\ boot' = [boot EXCEPT !.at = "script"]
    /\ UNCHANGED <<release, db, file, starts, cutOff, unclean, downgraded>>

\* Seeded fault: the file is recorded with its first statement.
Ran_Recorded(d, s) == [Effect(d, s) EXCEPT !.applied = @ \cup {boot.file}]

\* A statement is its own transaction.
Ran(d, s) == Effect(d, s)

\* One statement of executescript(); if it raises, the service does not start.
RunStatement ==
    /\ boot.at = "script"
    /\ LET s == Script(boot.file)[boot.stmt]
       IN  IF Raises(db, s)
           THEN boot' = [boot EXCEPT !.at = "failed"] /\ UNCHANGED db
           ELSE /\ db' = Ran(db, s)
                /\ boot' = IF boot.stmt = Len(Script(boot.file))
                           THEN [boot EXCEPT !.at = "record"]
                           ELSE [boot EXCEPT !.stmt = @ + 1]
    /\ UNCHANGED <<release, file, backup, starts, cutOff, unclean, downgraded>>

\* INSERT INTO schema_migrations
Record ==
    /\ boot.at = "record"
    /\ db' = [db EXCEPT !.applied = @ \cup {boot.file}]
    /\ boot' = [boot EXCEPT !.at = "next", !.ran = @ \cup {boot.file}]
    /\ UNCHANGED <<release, file, backup, starts, cutOff, unclean, downgraded>>

\* The service runs, and an operator adds a printer, if there is a table for it.
Configure ==
    /\ boot.at = "serving" /\ Exists(db, "printers")
    /\ \E p \in PrinterRows \ db.rows["printers"] :
         db' = [db EXCEPT !.rows["printers"] = @ \cup {p}]
    /\ UNCHANGED <<release, file, backup, boot, starts, cutOff, unclean, downgraded>>

\* SQLite may checkpoint whenever something is committed.
Checkpoint ==
    /\ boot.at # "down"
    /\ file # db
    /\ file' = db
    /\ UNCHANGED <<release, db, backup, boot, starts, cutOff, unclean, downgraded>>

\* Seeded fault: closing leaves the WAL as it is.
AtClose_Wal == file

\* The last connection's close writes all of the WAL to the file.
AtClose == db

\* The service is stopped.
Close ==
    /\ boot.at = "serving"
    /\ boot' = Down
    /\ file' = AtClose
    /\ unclean' = FALSE
    /\ UNCHANGED <<release, db, backup, starts, cutOff, downgraded>>

\* It dies, or its start has failed; what is committed stays.
Die ==
    /\ boot.at # "down"
    /\ boot' = Down
    /\ cutOff' = (cutOff \/ (boot.at = "record" /\ boot.file = 2)
                       \/ (boot.at = "script" /\ boot.stmt > 1))
    /\ unclean' = TRUE
    /\ UNCHANGED <<release, db, file, backup, starts, downgraded>>

\* An image of another release is installed; nothing refuses an older one.
Install ==
    /\ boot.at = "down"
    /\ release' \in Files
    /\ downgraded' = (downgraded \/ release' < release)
    /\ UNCHANGED <<db, file, backup, boot, starts, cutOff, unclean>>

MigrationsNext ==
    \/ Start \/ NextFile \/ Backup \/ RunStatement \/ Record
    \/ Configure \/ Checkpoint \/ Close \/ Die \/ Install

MigrationsSpec == MigrationsInit /\ [][MigrationsNext]_migrationVars

-----------------------------------------------------------------------------
\* The files are applied in their order.
MigrationsTypeOK ==
    /\ release \in Files
    /\ \E k \in 0..5 : db.applied = 1..k
    /\ {db, file} \subseteq Databases
    /\ backup \in [file : 0..5, of : Databases]
    /\ boot \in BootRows
    /\ starts \in 0..MaxRestarts
    /\ {cutOff, unclean, downgraded} \subseteq BOOLEAN

RowsOf(d) == d.rows["printers"] \cup d.rows["printers_new"]

\* 0003 and 0005, which rebuild the table: no step of an upgrade, no crash within it
\* and no repeated file loses a configured printer.
PrintersSurvive ==
    [][RowsOf(db) \subseteq RowsOf(db')]_migrationVars

\* db.py, migrate(): a service that takes requests has the whole schema of the files
\* applied, whatever crashes it went through; but an older image starts on a database
\* that a newer one was cut off in.
ServesWholeSchema ==
    boot.at = "serving" =>
        \/ \E f \in release..5 : Whole(db, f)
        \/ cutOff /\ downgraded

\* db.py, migrate(): a start fails only where an earlier one died in the middle of a
\* file; statements such as ADD COLUMN cannot be run twice.
FailsOnlyAfterACut ==
    boot.at = "failed" => cutOff

\* db.py:7: after a clean stop the first backup of an upgrade is the database as it
\* was.  After a crash, or for a later file, the copy lacks what is in the WAL.
CleanBackupIsWhole ==
    [][backup' # backup /\ ~unclean /\ boot.ran = {} => backup'.of = db]_migrationVars
=============================================================================
