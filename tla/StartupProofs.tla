---------------------------- MODULE StartupProofs ----------------------------
(****************************************************************************)
(* How the service starts and what it starts: no upgrade loses a printer,   *)
(* and what serves has a whole schema (Migrations); no tunnel is forgotten, *)
(* and there is one where the settings say so (Tunnel).  Then the parts of   *)
(* MCService side by side: what is proved of each holds of all of them.     *)
(****************************************************************************)
EXTENDS MCService, IntakeProofs, StampProofs, Integers, FiniteSetTheorems, Extrema, TLAPS

-----------------------------------------------------------------------------
(* Migrations: the invariant.                                              *)

\* The two tables of printers.
OldTypes(d) == d.types["printers"]
NewTypes(d) == d.types["printers_new"]
OldRows(d) == d.rows["printers"]
NewRows(d) == d.rows["printers_new"]

\* What the table of printers may allow when k files are recorded: what file k left,
\* what file k + 1 makes of it, or there is none between its drop and its rename.
TypesAfter(k) ==
    CASE k = 0 -> {0, 1} [] k = 1 -> {1} [] k = 2 -> {0, 1, 3}
      [] k = 3 -> {3} [] k = 4 -> {0, 3, 5} [] k = 5 -> {5}

\* A database with k files recorded, and file k + 1 run to whatever statement.
SchemaInv(d, k) ==
    /\ NewTypes(d) = 0 \/ (k \in {2, 4} /\ NewTypes(d) = k + 1)
    /\ OldTypes(d) \in TypesAfter(k)
    /\ OldTypes(d) = 0 => k = 0 \/ NewTypes(d) # 0
    /\ k = 0 => d.columns = {}
    /\ k = 1 => d.columns \in {{}, {"audit_hashes"}, Columns}
    /\ k >= 2 => d.columns = Columns
    /\ k < 3 => ~d.overlays
    /\ k >= 4 => d.overlays
    /\ OldTypes(d) = 0 => OldRows(d) = {}
    /\ NewTypes(d) = 0 => NewRows(d) = {}

\* File k + 1 cannot be run from its beginning.
HalfRun(d, k) == NewTypes(d) # 0 \/ (k = 1 /\ d.columns # {})

\* What the statement to come relies on.
ScriptInv(k) ==
    /\ boot.stmt \in 1..Len(Script(k + 1))
    /\ k = 1 /\ boot.stmt = 2 => db.columns = {"audit_hashes"}
    /\ k \in {2, 4} =>
         /\ boot.stmt > 1 => NewTypes(db) = k + 1
         /\ boot.stmt \in {2, 3} => OldTypes(db) # 0
         /\ boot.stmt = 3 => OldRows(db) \subseteq NewRows(db)
         /\ boot.stmt = 4 => OldTypes(db) = 0

\* A start goes on from where the recorded files end.
BootInv(k) ==
    /\ boot.at \in {"next", "backup", "script", "record"} => boot.applied \cup boot.ran = 1..k
    /\ boot.at \in {"backup", "script", "record"} => boot.file = k + 1 /\ k + 1 <= release
    /\ boot.at = "backup" => boot.stmt = 1
    /\ boot.at = "script" => ScriptInv(k)
    /\ boot.at = "record" => SchemaInv(db, k + 1) /\ ~HalfRun(db, k + 1)
    /\ boot.at = "serving" => release <= k

\* A file is left half run by a cut only, and half run of a later release than the
\* image's only after a downgrade.
CutInv(k) ==
    /\ HalfRun(db, k) => \/ cutOff
                         \/ boot.at = "script" /\ boot.stmt > 1
                         \/ boot.at = "record" /\ boot.file = 2
    /\ HalfRun(db, k) /\ release <= k => downgraded
    /\ boot.at = "failed" => cutOff

\* After a clean stop there is nothing in the WAL until a file is run.
WalInv == ~unclean /\ boot.ran = {} /\ boot.at \in {"down", "next", "backup"} => file = db

MigrationsInv ==
    /\ MigrationsTypeOK /\ WalInv
    /\ boot.at = "down" => boot = Down
    /\ \E k \in 0..5 : db.applied = 1..k /\ SchemaInv(db, k) /\ BootInv(k) /\ CutInv(k)

\* What is said when k files are recorded.
Recorded(k) == db.applied = 1..k /\ SchemaInv(db, k) /\ BootInv(k) /\ CutInv(k)

\* The invariant in terms of Recorded.
LEMMA InvIsRecorded ==
    MigrationsInv <=> /\ MigrationsTypeOK /\ WalInv
                      /\ boot.at = "down" => boot = Down
                      /\ \E k \in 0..5 : Recorded(k)
  BY DEF MigrationsInv, Recorded

-----------------------------------------------------------------------------
(* Migrations: the statements.                                             *)

\* The fields of a database are of their types.
LEMMA DatabaseFacts ==
    ASSUME NEW d \in Databases
    PROVE  /\ OldTypes(d) \in 0..5 /\ NewTypes(d) \in 0..5
           /\ OldRows(d) \subseteq PrinterRows /\ NewRows(d) \subseteq PrinterRows
           /\ d.columns \subseteq Columns /\ d.overlays \in BOOLEAN
           /\ d.applied \subseteq Files
  BY DEF Databases, Tables, OldTypes, NewTypes, OldRows, NewRows

\* A pair of tables, written as a record.
LEMMA TwoTables ==
    ASSUME NEW a, NEW b, NEW S, a \in S, b \in S
    PROVE  [printers |-> a, printers_new |-> b] \in [Tables -> S]
  BY DEF Tables

\* CREATE TABLE printers_new
LEMMA CreateFacts ==
    ASSUME NEW d \in Databases, NEW n \in 0..5, NEW e, e = Effect(d, Create("printers_new", n))
    PROVE  /\ e \in Databases /\ e.applied = d.applied
           /\ OldTypes(e) = OldTypes(d) /\ NewTypes(e) = n
           /\ OldRows(e) = OldRows(d) /\ NewRows(e) = NewRows(d)
           /\ e.columns = d.columns /\ e.overlays = d.overlays
<1>1. e = [d EXCEPT !.types["printers_new"] = n]
  BY DEF Effect, Create
<1> QED
  BY <1>1 DEF Databases, Tables, OldTypes, NewTypes, OldRows, NewRows

\* CREATE TABLE IF NOT EXISTS printers
LEMMA EnsureFacts ==
    ASSUME NEW d \in Databases, NEW e, e = Effect(d, CreateIfNotExists("printers", 1))
    PROVE  /\ e \in Databases /\ e.applied = d.applied
           /\ OldTypes(e) = IF OldTypes(d) = 0 THEN 1 ELSE OldTypes(d)
           /\ NewTypes(e) = NewTypes(d)
           /\ OldRows(e) = OldRows(d) /\ NewRows(e) = NewRows(d)
           /\ e.columns = d.columns /\ e.overlays = d.overlays
<1>1. e = IF OldTypes(d) # 0 THEN d ELSE [d EXCEPT !.types["printers"] = 1]
  BY DEF Effect, CreateIfNotExists, Tables, Exists, OldTypes
<1> QED
  BY <1>1 DEF Databases, Tables, OldTypes, NewTypes, OldRows, NewRows

\* CREATE TABLE IF NOT EXISTS overlays
LEMMA OverlayFacts ==
    ASSUME NEW d \in Databases, NEW e, e = Effect(d, CreateIfNotExists("overlays", 4))
    PROVE  /\ e \in Databases /\ e.applied = d.applied
           /\ OldTypes(e) = OldTypes(d) /\ NewTypes(e) = NewTypes(d)
           /\ OldRows(e) = OldRows(d) /\ NewRows(e) = NewRows(d)
           /\ e.columns = d.columns /\ e.overlays
<1>1. e = [d EXCEPT !.overlays = TRUE]
  BY DEF Effect, CreateIfNotExists, Tables
<1> QED
  BY <1>1 DEF Databases, Tables, OldTypes, NewTypes, OldRows, NewRows

\* ALTER TABLE ... ADD COLUMN
LEMMA ColumnFacts ==
    ASSUME NEW d \in Databases, NEW c \in Columns, NEW e, e = Effect(d, AddColumn(c))
    PROVE  /\ e \in Databases /\ e.applied = d.applied
           /\ OldTypes(e) = OldTypes(d) /\ NewTypes(e) = NewTypes(d)
           /\ OldRows(e) = OldRows(d) /\ NewRows(e) = NewRows(d)
           /\ e.columns = d.columns \cup {c} /\ e.overlays = d.overlays
<1>1. e = [d EXCEPT !.columns = @ \cup {c}]
  BY DEF Effect, AddColumn
<1> QED
  BY <1>1 DEF Databases, OldTypes, NewTypes, OldRows, NewRows

\* INSERT INTO printers_new SELECT ... FROM printers
LEMMA CopyFacts ==
    ASSUME NEW d \in Databases, NEW e, e = Effect(d, Copy)
    PROVE  /\ e \in Databases /\ e.applied = d.applied
           /\ OldTypes(e) = OldTypes(d) /\ NewTypes(e) = NewTypes(d)
           /\ OldRows(e) = OldRows(d) /\ NewRows(e) = NewRows(d) \cup OldRows(d)
           /\ e.columns = d.columns /\ e.overlays = d.overlays
<1>1. e = [d EXCEPT !.rows["printers_new"] = @ \cup d.rows["printers"]]
  BY DEF Effect, Copy
<1> QED
  BY <1>1 DEF Databases, Tables, OldTypes, NewTypes, OldRows, NewRows

\* DROP TABLE printers
LEMMA DropFacts ==
    ASSUME NEW d \in Databases, NEW e, e = Effect(d, Drop)
    PROVE  /\ e \in Databases /\ e.applied = d.applied
           /\ OldTypes(e) = 0 /\ NewTypes(e) = NewTypes(d)
           /\ OldRows(e) = {} /\ NewRows(e) = NewRows(d)
           /\ e.columns = d.columns /\ e.overlays = d.overlays
<1>1. e = [d EXCEPT !.types["printers"] = 0, !.rows["printers"] = {}]
  BY DEF Effect, Drop
<1>2. /\ [d.types EXCEPT !["printers"] = 0] \in [Tables -> 0..5]
      /\ [d.rows EXCEPT !["printers"] = {}] \in [Tables -> SUBSET PrinterRows]
  BY DEF Databases, Tables
<1> QED
  BY <1>1, <1>2 DEF Databases, Tables, OldTypes, NewTypes, OldRows, NewRows

\* ALTER TABLE printers_new RENAME TO printers
LEMMA RenameFacts ==
    ASSUME NEW d \in Databases, NEW e, e = Effect(d, Rename)
    PROVE  /\ e \in Databases /\ e.applied = d.applied
           /\ OldTypes(e) = NewTypes(d) /\ NewTypes(e) = 0
           /\ OldRows(e) = NewRows(d) /\ NewRows(e) = {}
           /\ e.columns = d.columns /\ e.overlays = d.overlays
<1>1. e = [d EXCEPT !.types = [printers |-> d.types["printers_new"], printers_new |-> 0],
                    !.rows = [printers |-> d.rows["printers_new"], printers_new |-> {}]]
  BY DEF Effect, Rename
<1>2. /\ NewTypes(d) \in 0..5 /\ 0 \in 0..5
      /\ NewRows(d) \in SUBSET PrinterRows /\ {} \in SUBSET PrinterRows
  BY DatabaseFacts
<1>3. [printers |-> NewTypes(d), printers_new |-> 0] \in [Tables -> 0..5]
  BY <1>2, TwoTables
<1>4. [printers |-> NewRows(d), printers_new |-> {}] \in [Tables -> SUBSET PrinterRows]
  BY <1>2, TwoTables
<1>5. e = [d EXCEPT !.types = [printers |-> NewTypes(d), printers_new |-> 0],
                    !.rows = [printers |-> NewRows(d), printers_new |-> {}]]
  BY <1>1 DEF NewTypes, NewRows
<1>6. /\ e.types = [printers |-> NewTypes(d), printers_new |-> 0]
      /\ e.rows = [printers |-> NewRows(d), printers_new |-> {}]
      /\ e.columns = d.columns /\ e.overlays = d.overlays /\ e.applied = d.applied
  BY <1>5 DEF Databases
<1>7. e \in Databases
  BY <1>3, <1>4, <1>5 DEF Databases
<1> QED
  BY <1>6, <1>7 DEF OldTypes, NewTypes, OldRows, NewRows

\* How many statements each file has, and which they are.
LEMMA Scripts ==
    /\ Len(Script(1)) = 1 /\ Script(1)[1] = CreateIfNotExists("printers", 1)
    /\ Len(Script(2)) = 2 /\ Script(2)[1] = AddColumn("audit_hashes")
                          /\ Script(2)[2] = AddColumn("job_schedule")
    /\ Len(Script(4)) = 1 /\ Script(4)[1] = CreateIfNotExists("overlays", 4)
    /\ \A f \in {3, 5} :
         /\ Len(Script(f)) = 4
         /\ Script(f)[1] = Create("printers_new", f) /\ Script(f)[2] = Copy
         /\ Script(f)[3] = Drop /\ Script(f)[4] = Rename
<1>1. Script(1) = <<CreateIfNotExists("printers", 1)>>
  BY DEF Script
<1>2. Script(2) = <<AddColumn("audit_hashes"), AddColumn("job_schedule")>>
  BY DEF Script
<1>3. \A f \in {3, 5} : Script(f) = <<Create("printers_new", f), Copy, Drop, Rename>>
  BY DEF Script, Rebuild
<1>4. Script(4) = <<CreateIfNotExists("overlays", 4)>>
  BY DEF Script
<1> QED
  BY <1>1, <1>2, <1>3, <1>4

\* Which statements SQLite raises at.
LEMMA RaisesWhen ==
    ASSUME NEW d \in Databases
    PROVE  /\ \A n \in 0..5 : Raises(d, Create("printers_new", n)) <=> NewTypes(d) # 0
           /\ \A c \in Columns : Raises(d, AddColumn(c)) <=> c \in d.columns
           /\ ~Raises(d, CreateIfNotExists("printers", 1))
           /\ ~Raises(d, CreateIfNotExists("overlays", 4))
           /\ ~Raises(d, Copy) /\ ~Raises(d, Drop) /\ ~Raises(d, Rename)
  BY DEF Raises, Create, CreateIfNotExists, AddColumn, Copy, Drop, Rename, Exists, NewTypes

-----------------------------------------------------------------------------
(* Migrations: the steps.                                                  *)

\* Before the first start no file is recorded, and the database is empty.
THEOREM MigrationsStart == MigrationsInit => MigrationsInv
<1> SUFFICES ASSUME MigrationsInit PROVE MigrationsInv
  OBVIOUS
<1>1. EmptyDb \in Databases /\ EmptyDb.applied = {} /\ EmptyDb.columns = {}
      /\ EmptyDb.overlays = FALSE
      /\ OldTypes(EmptyDb) = 0 /\ NewTypes(EmptyDb) = 0
      /\ OldRows(EmptyDb) = {} /\ NewRows(EmptyDb) = {}
  BY DEF EmptyDb, Databases, Tables, OldTypes, NewTypes, OldRows, NewRows
<1>2. NoBackup \in [file : 0..5, of : Databases]
  BY <1>1 DEF NoBackup
<1>3. Down \in BootRows /\ Down.at = "down" /\ Down.ran = {}
  BY DEF Down, BootRows
<1>4. 1..0 = {} /\ 0 \in 0..5
  OBVIOUS
<1>5. MigrationsTypeOK
  <2>1. db.applied = 1..0
    BY <1>1, <1>4 DEF MigrationsInit
  <2>2. \E k \in 0..5 : db.applied = 1..k
    BY <1>4, <2>1
  <2>3. starts \in 0..MaxRestarts
    BY MigrationsAssumption DEF MigrationsInit
  <2> QED
    BY <1>1, <1>2, <1>3, <2>2, <2>3 DEF MigrationsInit, MigrationsTypeOK
<1>6. Recorded(0)
  BY <1>1, <1>3, <1>4
     DEF MigrationsInit, Recorded, SchemaInv, TypesAfter, BootInv, CutInv, HalfRun
<1> QED
  BY <1>3, <1>4, <1>5, <1>6, InvIsRecorded DEF MigrationsInit, WalInv

\* What no step of a start changes but the script and the configuration.
LEMMA SameDatabase ==
    ASSUME NEW k \in 0..5, Recorded(k), UNCHANGED db
    PROVE  /\ db'.applied = 1..k /\ SchemaInv(db, k)'
           /\ HalfRun(db, k)' <=> HalfRun(db, k)
  BY DEF Recorded, SchemaInv, HalfRun, OldTypes, NewTypes, OldRows, NewRows

\* One lemma for each step from here.
LEMMA StartStep == MigrationsInv /\ Start => MigrationsInv'
<1> SUFFICES ASSUME MigrationsInv, Start PROVE MigrationsInv'
  OBVIOUS
<1>1. MigrationsTypeOK /\ WalInv
  BY DEF MigrationsInv
<1>2. PICK k \in 0..5 : Recorded(k)
  BY InvIsRecorded
<1>3. /\ boot'.at = "next" /\ boot'.file = 0 /\ boot'.stmt = 0
      /\ boot'.applied = db.applied /\ boot'.ran = {}
      /\ UNCHANGED <<release, db, file, backup, cutOff, unclean, downgraded>>
      /\ boot.at = "down"
  BY DEF Start
<1>4. db.applied \subseteq Files
  BY <1>1, DatabaseFacts DEF MigrationsTypeOK
<1>5. boot' \in BootRows
  BY <1>4 DEF Start, BootRows
<1>6. MigrationsTypeOK'
  <2>1. starts' \in 0..MaxRestarts
    BY <1>1, MigrationsAssumption DEF MigrationsTypeOK, Start
  <2> QED
    BY <1>1, <1>3, <1>5, <2>1 DEF MigrationsTypeOK
<1>7. WalInv'
  <2>1. boot = Down
    BY <1>3 DEF MigrationsInv
  <2>2. boot.ran = {}
    BY <2>1 DEF Down
  <2> QED
    BY <1>1, <1>3, <2>2 DEF WalInv
<1>8. Recorded(k)'
  <2>1. db'.applied = 1..k /\ SchemaInv(db, k)' /\ (HalfRun(db, k)' <=> HalfRun(db, k))
    BY <1>2, <1>3, SameDatabase
  <2>2. BootInv(k)'
    BY <1>2, <1>3 DEF BootInv, Recorded
  <2>3. CutInv(k)'
    BY <1>2, <1>3, <2>1 DEF CutInv, Recorded
  <2> QED
    BY <2>1, <2>2, <2>3 DEF Recorded
<1> QED
  BY <1>3, <1>6, <1>7, <1>8, InvIsRecorded DEF MigrationsInv, Recorded

\* The first file not yet applied follows the last one applied.
LEMMA FirstOfFollows ==
    ASSUME NEW k \in 0..5, NEW n \in Files, ~(n <= k)
    PROVE  FirstOf((1..n) \ (1..k)) = k + 1 /\ k + 1 \in Files /\ k + 1 <= n
<1>1. k + 1 \in (1..n) \ (1..k) /\ k + 1 <= n /\ k + 1 \in Files
  BY DEF Files
<1>2. \A g \in (1..n) \ (1..k) : k + 1 <= g
  OBVIOUS
<1>3. \A f \in (1..n) \ (1..k) : f <= k + 1 => f = k + 1
  OBVIOUS
<1> QED
  BY <1>1, <1>2, <1>3 DEF FirstOf

\* A start turns to the next file.
Turned(b, a, f) == [b EXCEPT !.at = a, !.file = f, !.stmt = 1]

LEMMA BootTurned ==
    ASSUME NEW b \in BootRows, NEW a \in {"backup", "script"}, NEW f \in 0..5
    PROVE  /\ Turned(b, a, f) \in BootRows /\ Turned(b, a, f).at = a
           /\ Turned(b, a, f).file = f /\ Turned(b, a, f).stmt = 1
           /\ Turned(b, a, f).applied = b.applied /\ Turned(b, a, f).ran = b.ran
<1> DEFINE A == {"down", "next", "backup", "script", "record", "serving", "failed"}
           F == 0..5
           P == SUBSET Files
<1>1. a \in A /\ 1 \in F /\ f \in F
  OBVIOUS
<1>2. BootRows = [at : A, file : F, stmt : F, applied : P, ran : P]
  BY DEF BootRows
<1> HIDE DEF A, F, P
<1> QED
  BY <1>1, <1>2 DEF Turned

LEMMA NextFileStep == MigrationsInv /\ NextFile => MigrationsInv'
<1> SUFFICES ASSUME MigrationsInv, NextFile PROVE MigrationsInv'
  OBVIOUS
<1>1. MigrationsTypeOK /\ WalInv
  BY DEF MigrationsInv
<1>2. PICK k \in 0..5 : Recorded(k)
  BY InvIsRecorded
<1>3. /\ UNCHANGED <<release, db, file, backup, starts, cutOff, unclean, downgraded>>
      /\ boot.at = "next" /\ boot \in BootRows /\ release \in Files
      /\ boot.applied \cup boot.ran = 1..k
  BY <1>1, <1>2 DEF NextFile, MigrationsTypeOK, Recorded, BootInv
<1> DEFINE left == Missing(boot.applied) \ boot.ran
<1>4. left = (1..release) \ (1..k)
  BY <1>3 DEF Missing
<1>5. boot' = IF left = {} THEN [boot EXCEPT !.at = "serving"]
              ELSE [boot EXCEPT !.at = IF boot.applied # {} THEN "backup" ELSE "script",
                                !.file = FirstOf(left), !.stmt = 1]
  BY DEF NextFile
<1>6. db'.applied = 1..k /\ SchemaInv(db, k)' /\ (HalfRun(db, k)' <=> HalfRun(db, k))
  BY <1>2, <1>3, SameDatabase
<1> HIDE DEF left
<1>7. CASE release <= k
  <2>1. left = {}
    BY <1>3, <1>4, <1>7 DEF Files
  <2>2. boot' = [boot EXCEPT !.at = "serving"]
    BY <1>5, <2>1
  <2>3. boot' \in BootRows /\ boot'.at = "serving"
    BY <1>3, <2>2 DEF BootRows
  <2>4. MigrationsTypeOK'
    BY <1>1, <1>3, <2>3 DEF MigrationsTypeOK
  <2>5. BootInv(k)'
    BY <1>3, <1>7, <2>3 DEF BootInv
  <2>6. CutInv(k)'
    BY <1>2, <1>3, <1>6, <2>3 DEF CutInv, Recorded
  <2>7. Recorded(k)'
    BY <1>6, <2>5, <2>6 DEF Recorded
  <2>8. WalInv'
    BY <2>3 DEF WalInv
  <2>9. boot'.at # "down"
    BY <2>3
  <2> QED
    BY <2>4, <2>7, <2>8, <2>9 DEF MigrationsInv, Recorded
<1>8. CASE ~(release <= k)
  <2>1. FirstOf(left) = k + 1 /\ k + 1 \in Files /\ k + 1 <= release
    BY <1>3, <1>4, <1>8, FirstOfFollows
  <2>2. left # {}
    <3>1. k + 1 \in (1..release) \ (1..k)
      BY <1>3, <2>1 DEF Files
    <3> QED
      BY <1>4, <3>1
  <2>3. /\ boot' \in BootRows /\ boot'.at \in {"backup", "script"}
        /\ boot'.file = k + 1 /\ boot'.stmt = 1
        /\ boot'.applied = boot.applied /\ boot'.ran = boot.ran
    <3>1. PICK a \in {"backup", "script"} :
            boot' = Turned(boot, a, k + 1)
      BY <1>5, <2>1, <2>2 DEF Turned
    <3>2. k + 1 \in 0..5
      BY <2>1 DEF Files
    <3> QED
      BY <1>3, <3>1, <3>2, BootTurned
  <2>4. MigrationsTypeOK'
    BY <1>1, <1>3, <2>3 DEF MigrationsTypeOK
  <2>5. ScriptInv(k)'
    <3>1. Len(Script(k + 1)) \in Nat /\ Len(Script(k + 1)) >= 1
      BY <2>1, Scripts DEF Files
    <3> QED
      BY <2>3, <3>1 DEF ScriptInv
  <2>6. BootInv(k)'
    BY <1>3, <2>1, <2>3, <2>5 DEF BootInv
  <2>7. CutInv(k)'
    BY <1>2, <1>3, <1>6, <2>3 DEF CutInv, Recorded
  <2>8. WalInv'
    BY <1>1, <1>3, <2>3 DEF WalInv
  <2>9. Recorded(k)'
    BY <1>6, <2>6, <2>7 DEF Recorded
  <2>10. boot'.at # "down"
    BY <2>3
  <2> QED
    BY <2>4, <2>8, <2>9, <2>10 DEF MigrationsInv, Recorded
<1> QED
  BY <1>7, <1>8

LEMMA BackupStep == MigrationsInv /\ Backup => MigrationsInv'
<1> SUFFICES ASSUME MigrationsInv, Backup PROVE MigrationsInv'
  OBVIOUS
<1>1. MigrationsTypeOK /\ WalInv
  BY DEF MigrationsInv
<1>2. PICK k \in 0..5 : Recorded(k)
  BY InvIsRecorded
<1>3. /\ UNCHANGED <<release, db, file, starts, cutOff, unclean, downgraded>>
      /\ boot.at = "backup" /\ boot \in BootRows
      /\ boot' = [boot EXCEPT !.at = "script"]
  BY <1>1 DEF Backup, MigrationsTypeOK
<1>4. backup' \in [file : 0..5, of : Databases]
  <2>1. boot.file \in 0..5 /\ file \in Databases /\ backup \in [file : 0..5, of : Databases]
    BY <1>1, <1>3 DEF MigrationsTypeOK, BootRows
  <2>2. CASE backup' = [file |-> boot.file, of |-> file]
    BY <2>1, <2>2
  <2>3. CASE UNCHANGED backup
    BY <2>1, <2>3
  <2> QED
    BY <2>2, <2>3 DEF Backup
<1>5. /\ boot' \in BootRows /\ boot'.at = "script" /\ boot'.file = boot.file
      /\ boot'.stmt = boot.stmt /\ boot'.applied = boot.applied /\ boot'.ran = boot.ran
  BY <1>3 DEF BootRows
<1>6. MigrationsTypeOK'
  BY <1>1, <1>3, <1>4, <1>5 DEF MigrationsTypeOK
<1>7. db'.applied = 1..k /\ SchemaInv(db, k)' /\ (HalfRun(db, k)' <=> HalfRun(db, k))
  BY <1>2, <1>3, SameDatabase
<1>8. /\ boot.stmt = 1 /\ boot.file = k + 1 /\ k + 1 <= release
      /\ boot.applied \cup boot.ran = 1..k
  BY <1>2, <1>3 DEF Recorded, BootInv
<1>9. ScriptInv(k)'
  <2>1. k + 1 \in Files
    BY <1>1, <1>8 DEF MigrationsTypeOK, Files
  <2>2. Len(Script(k + 1)) \in Nat /\ Len(Script(k + 1)) >= 1
    BY <2>1, Scripts DEF Files
  <2> QED
    BY <1>5, <1>8, <2>2 DEF ScriptInv
<1>10. BootInv(k)'
  BY <1>3, <1>5, <1>8, <1>9 DEF BootInv
<1>11. CutInv(k)'
  BY <1>2, <1>3, <1>5, <1>7 DEF CutInv, Recorded
<1>12. Recorded(k)'
  BY <1>7, <1>10, <1>11 DEF Recorded
<1>13. WalInv' /\ boot'.at # "down"
  BY <1>5 DEF WalInv
<1> QED
  BY <1>6, <1>12, <1>13 DEF MigrationsInv, Recorded

\* A statement raises: the service does not start.
LEMMA StatementRaises ==
    ASSUME MigrationsInv, NEW k \in 0..5, Recorded(k), boot.at = "script",
           UNCHANGED <<release, db, file, backup, starts, cutOff, unclean, downgraded>>,
           boot' = [boot EXCEPT !.at = "failed"],
           boot.stmt = 1, HalfRun(db, k)
    PROVE  MigrationsInv'
<1>1. MigrationsTypeOK
  BY DEF MigrationsInv
<1>2. cutOff
  BY DEF Recorded, CutInv
<1>3. boot \in BootRows
  BY <1>1 DEF MigrationsTypeOK
<1>4. boot' \in BootRows /\ boot'.at = "failed"
  BY <1>3 DEF BootRows
<1>5. MigrationsTypeOK'
  BY <1>1, <1>4 DEF MigrationsTypeOK
<1>6. db'.applied = 1..k /\ SchemaInv(db, k)' /\ (HalfRun(db, k)' <=> HalfRun(db, k))
  BY SameDatabase
<1>7. BootInv(k)'
  BY <1>4 DEF BootInv
<1>8. CutInv(k)'
  BY <1>2, <1>4, <1>6 DEF CutInv, Recorded
<1>9. Recorded(k)'
  BY <1>6, <1>7, <1>8 DEF Recorded
<1>10. WalInv' /\ boot'.at # "down"
  BY <1>4 DEF WalInv
<1> QED
  BY <1>5, <1>9, <1>10 DEF MigrationsInv, Recorded

\* A statement is run, and there are more.
LEMMA StatementRuns ==
    ASSUME MigrationsInv, NEW k \in 0..5, Recorded(k), boot.at = "script",
           UNCHANGED <<release, file, backup, starts, cutOff, unclean, downgraded>>,
           db' \in Databases, db'.applied = db.applied, SchemaInv(db', k),
           boot' = [boot EXCEPT !.stmt = @ + 1], boot.stmt \in 1..4, ScriptInv(k)'
    PROVE  MigrationsInv'
<1>1. MigrationsTypeOK
  BY DEF MigrationsInv
<1>2. boot \in BootRows
  BY <1>1 DEF MigrationsTypeOK
<1>3. /\ boot' \in BootRows /\ boot'.at = "script" /\ boot'.file = boot.file
      /\ boot'.stmt = boot.stmt + 1 /\ boot'.applied = boot.applied /\ boot'.ran = boot.ran
  <2>1. boot.stmt + 1 \in 0..5
    OBVIOUS
  <2> QED
    BY <1>2, <2>1 DEF BootRows
<1>4. MigrationsTypeOK'
  BY <1>1, <1>3 DEF MigrationsTypeOK
<1>5. /\ boot.applied \cup boot.ran = 1..k /\ boot.file = k + 1 /\ k + 1 <= release
      /\ release \in Files
  BY <1>1 DEF Recorded, BootInv, MigrationsTypeOK
<1>6. BootInv(k)'
  BY <1>3, <1>5 DEF BootInv
<1>7. CutInv(k)'
  <2>1. boot'.stmt > 1 /\ ~(release' <= k)
    BY <1>3, <1>5 DEF Files
  <2> QED
    BY <1>3, <2>1 DEF CutInv
<1>8. Recorded(k)'
  BY <1>6, <1>7 DEF Recorded
<1>9. WalInv' /\ boot'.at # "down"
  BY <1>3 DEF WalInv
<1> QED
  BY <1>4, <1>8, <1>9 DEF MigrationsInv, Recorded

\* The last statement of a file is run.
LEMMA ScriptEnds ==
    ASSUME MigrationsInv, NEW k \in 0..5, Recorded(k), boot.at = "script",
           UNCHANGED <<release, file, backup, starts, cutOff, unclean, downgraded>>,
           db' \in Databases, db'.applied = db.applied,
           SchemaInv(db', k), SchemaInv(db', k + 1), ~HalfRun(db', k + 1),
           boot' = [boot EXCEPT !.at = "record"], k # 1 => ~HalfRun(db', k)
    PROVE  MigrationsInv'
<1>1. MigrationsTypeOK
  BY DEF MigrationsInv
<1>2. boot \in BootRows
  BY <1>1 DEF MigrationsTypeOK
<1>3. /\ boot' \in BootRows /\ boot'.at = "record" /\ boot'.file = boot.file
      /\ boot'.applied = boot.applied /\ boot'.ran = boot.ran
  BY <1>2 DEF BootRows
<1>4. MigrationsTypeOK'
  BY <1>1, <1>3 DEF MigrationsTypeOK
<1>5. /\ boot.applied \cup boot.ran = 1..k /\ boot.file = k + 1 /\ k + 1 <= release
      /\ release \in Files
  BY <1>1 DEF Recorded, BootInv, MigrationsTypeOK
<1>6. BootInv(k)'
  BY <1>3, <1>5 DEF BootInv
<1>7. CutInv(k)'
  <2>1. ~(release' <= k)
    BY <1>5 DEF Files
  <2>2. k = 1 => boot'.file = 2
    BY <1>3, <1>5
  <2> QED
    BY <1>3, <2>1, <2>2 DEF CutInv
<1>8. Recorded(k)'
  BY <1>6, <1>7 DEF Recorded
<1>9. WalInv' /\ boot'.at # "down"
  BY <1>3 DEF WalInv
<1> QED
  BY <1>4, <1>8, <1>9 DEF MigrationsInv, Recorded

\* What is known when a statement runs, and what it then does.
LEMMA StatementFacts ==
    ASSUME MigrationsInv, NEW k \in 0..5, Recorded(k), RunStatement
    PROVE  /\ UNCHANGED <<release, file, backup, starts, cutOff, unclean, downgraded>>
           /\ boot.at = "script" /\ boot.file = k + 1 /\ k + 1 \in Files /\ ScriptInv(k)
           /\ db \in Databases /\ SchemaInv(db, k)
           /\ IF Raises(db, Script(k + 1)[boot.stmt])
              THEN boot' = [boot EXCEPT !.at = "failed"] /\ UNCHANGED db
              ELSE /\ db' = Effect(db, Script(k + 1)[boot.stmt])
                   /\ boot' = IF boot.stmt = Len(Script(k + 1))
                              THEN [boot EXCEPT !.at = "record"]
                              ELSE [boot EXCEPT !.stmt = @ + 1]
<1>1. boot.at = "script"
  BY DEF RunStatement
<1>2. boot.file = k + 1 /\ k + 1 <= release /\ ScriptInv(k) /\ release \in Files
  BY <1>1 DEF Recorded, BootInv, MigrationsInv, MigrationsTypeOK
<1>3. k + 1 \in Files
  BY <1>2 DEF Files
<1> QED
  BY <1>1, <1>2, <1>3 DEF RunStatement, Ran, Recorded, MigrationsInv, MigrationsTypeOK

\* 0001_init.sql makes the tables that are not there.
LEMMA FirstFile ==
    ASSUME MigrationsInv, Recorded(0), RunStatement
    PROVE  MigrationsInv'
<1>1. 0 + 1 = 1 /\ 0 \in 0..5
  OBVIOUS
<1>2. /\ UNCHANGED <<release, file, backup, starts, cutOff, unclean, downgraded>>
      /\ boot.at = "script" /\ ScriptInv(0) /\ db \in Databases /\ SchemaInv(db, 0)
      /\ IF Raises(db, Script(1)[boot.stmt])
         THEN boot' = [boot EXCEPT !.at = "failed"] /\ UNCHANGED db
         ELSE /\ db' = Effect(db, Script(1)[boot.stmt])
              /\ boot' = IF boot.stmt = Len(Script(1))
                         THEN [boot EXCEPT !.at = "record"]
                         ELSE [boot EXCEPT !.stmt = @ + 1]
  BY <1>1, StatementFacts
<1>3. boot.stmt = 1
  BY <1>1, <1>2, Scripts DEF ScriptInv
<1>4. db' = Effect(db, CreateIfNotExists("printers", 1)) /\ boot' = [boot EXCEPT !.at = "record"]
  BY <1>2, <1>3, Scripts, RaisesWhen
<1>5. /\ db' \in Databases /\ db'.applied = db.applied
      /\ OldTypes(db') = IF OldTypes(db) = 0 THEN 1 ELSE OldTypes(db)
      /\ NewTypes(db') = NewTypes(db)
      /\ OldRows(db') = OldRows(db) /\ NewRows(db') = NewRows(db)
      /\ db'.columns = db.columns /\ db'.overlays = db.overlays
  BY <1>2, <1>4, EnsureFacts
<1>6. SchemaInv(db', 0) /\ SchemaInv(db', 1) /\ ~HalfRun(db', 0) /\ ~HalfRun(db', 1)
  BY <1>2, <1>5 DEF SchemaInv, TypesAfter, HalfRun
<1> QED
  BY <1>1, <1>2, <1>4, <1>5, <1>6, ScriptEnds

\* 0002 adds two columns, one statement each.
LEMMA ColumnsFile ==
    ASSUME MigrationsInv, Recorded(1), RunStatement
    PROVE  MigrationsInv'
<1>1. 1 + 1 = 2 /\ 1 \in 0..5
  OBVIOUS
<1>2. /\ UNCHANGED <<release, file, backup, starts, cutOff, unclean, downgraded>>
      /\ boot.at = "script" /\ ScriptInv(1) /\ db \in Databases /\ SchemaInv(db, 1)
      /\ IF Raises(db, Script(2)[boot.stmt])
         THEN boot' = [boot EXCEPT !.at = "failed"] /\ UNCHANGED db
         ELSE /\ db' = Effect(db, Script(2)[boot.stmt])
              /\ boot' = IF boot.stmt = Len(Script(2))
                         THEN [boot EXCEPT !.at = "record"]
                         ELSE [boot EXCEPT !.stmt = @ + 1]
  BY <1>1, StatementFacts
<1>3. boot.stmt \in 1..2 /\ (boot.stmt = 2 => db.columns = {"audit_hashes"})
  BY <1>1, <1>2, Scripts DEF ScriptInv
<1>4. CASE boot.stmt = 1 /\ "audit_hashes" \in db.columns
  <2>1. Raises(db, AddColumn("audit_hashes"))
    BY <1>2, <1>4, RaisesWhen DEF Columns
  <2>2. boot' = [boot EXCEPT !.at = "failed"] /\ UNCHANGED db
    BY <1>2, <1>4, <2>1, Scripts
  <2>3. HalfRun(db, 1)
    BY <1>4 DEF HalfRun
  <2> QED
    BY <1>1, <1>2, <1>4, <2>2, <2>3, StatementRaises
<1>5. CASE boot.stmt = 1 /\ ~("audit_hashes" \in db.columns)
  <2>1. ~Raises(db, AddColumn("audit_hashes"))
    BY <1>2, <1>5, RaisesWhen DEF Columns
  <2>2. db' = Effect(db, AddColumn("audit_hashes")) /\ boot' = [boot EXCEPT !.stmt = @ + 1]
    BY <1>2, <1>5, <2>1, Scripts
  <2>3. /\ db' \in Databases /\ db'.applied = db.applied
        /\ OldTypes(db') = OldTypes(db) /\ NewTypes(db') = NewTypes(db)
        /\ OldRows(db') = OldRows(db) /\ NewRows(db') = NewRows(db)
        /\ db'.columns = db.columns \cup {"audit_hashes"} /\ db'.overlays = db.overlays
    BY <1>2, <2>2, ColumnFacts DEF Columns
  <2>4. db.columns = {}
    BY <1>2, <1>5 DEF SchemaInv, Columns
  <2>5. db'.columns = {"audit_hashes"}
    BY <2>3, <2>4
  <2>6. SchemaInv(db', 1)
    BY <1>2, <2>3, <2>5 DEF SchemaInv, TypesAfter
  <2>7. boot'.stmt = 2
    BY <1>5, <2>2 DEF MigrationsInv, MigrationsTypeOK, BootRows
  <2>8. ScriptInv(1)'
    BY <1>1, <2>5, <2>7, Scripts DEF ScriptInv
  <2> QED
    BY <1>1, <1>2, <1>3, <2>2, <2>3, <2>6, <2>8, StatementRuns
<1>6. CASE boot.stmt = 2
  <2>1. ~Raises(db, AddColumn("job_schedule"))
    BY <1>2, <1>3, <1>6, RaisesWhen DEF Columns
  <2>2. db' = Effect(db, AddColumn("job_schedule")) /\ boot' = [boot EXCEPT !.at = "record"]
    BY <1>2, <1>6, <2>1, Scripts
  <2>3. /\ db' \in Databases /\ db'.applied = db.applied
        /\ OldTypes(db') = OldTypes(db) /\ NewTypes(db') = NewTypes(db)
        /\ OldRows(db') = OldRows(db) /\ NewRows(db') = NewRows(db)
        /\ db'.columns = db.columns \cup {"job_schedule"} /\ db'.overlays = db.overlays
    BY <1>2, <2>2, ColumnFacts DEF Columns
  <2>4. db'.columns = Columns
    BY <1>3, <1>6, <2>3 DEF Columns
  <2>5. SchemaInv(db', 1) /\ SchemaInv(db', 2) /\ ~HalfRun(db', 2)
    BY <1>2, <2>3, <2>4 DEF SchemaInv, TypesAfter, HalfRun
  <2> QED
    BY <1>1, <1>2, <2>2, <2>3, <2>5, ScriptEnds
<1> QED
  BY <1>3, <1>4, <1>5, <1>6

\* 0004 makes a table that is not there.
LEMMA OverlaysFile ==
    ASSUME MigrationsInv, Recorded(3), RunStatement
    PROVE  MigrationsInv'
<1>1. 3 + 1 = 4 /\ 3 \in 0..5
  OBVIOUS
<1>2. /\ UNCHANGED <<release, file, backup, starts, cutOff, unclean, downgraded>>
      /\ boot.at = "script" /\ ScriptInv(3) /\ db \in Databases /\ SchemaInv(db, 3)
      /\ IF Raises(db, Script(4)[boot.stmt])
         THEN boot' = [boot EXCEPT !.at = "failed"] /\ UNCHANGED db
         ELSE /\ db' = Effect(db, Script(4)[boot.stmt])
              /\ boot' = IF boot.stmt = Len(Script(4))
                         THEN [boot EXCEPT !.at = "record"]
                         ELSE [boot EXCEPT !.stmt = @ + 1]
  BY <1>1, StatementFacts
<1>3. boot.stmt = 1
  BY <1>1, <1>2, Scripts DEF ScriptInv
<1>4. db' = Effect(db, CreateIfNotExists("overlays", 4)) /\ boot' = [boot EXCEPT !.at = "record"]
  BY <1>2, <1>3, Scripts, RaisesWhen
<1>5. /\ db' \in Databases /\ db'.applied = db.applied
      /\ OldTypes(db') = OldTypes(db) /\ NewTypes(db') = NewTypes(db)
      /\ OldRows(db') = OldRows(db) /\ NewRows(db') = NewRows(db)
      /\ db'.columns = db.columns /\ db'.overlays
  BY <1>2, <1>4, OverlayFacts
<1>6. SchemaInv(db', 3) /\ SchemaInv(db', 4) /\ ~HalfRun(db', 3) /\ ~HalfRun(db', 4)
  BY <1>2, <1>5 DEF SchemaInv, TypesAfter, HalfRun
<1> QED
  BY <1>1, <1>2, <1>4, <1>5, <1>6, ScriptEnds

\* 0003 and 0005 make the table of printers anew.
LEMMA RebuildFile ==
    ASSUME MigrationsInv, NEW k \in {2, 4}, Recorded(k), RunStatement
    PROVE  MigrationsInv'
<1>1. k + 1 \in {3, 5} /\ k \in 0..5 /\ k + 1 \in 0..5 /\ k # 1 /\ k # 0 /\ k # 3
  OBVIOUS
<1>2. /\ UNCHANGED <<release, file, backup, starts, cutOff, unclean, downgraded>>
      /\ boot.at = "script" /\ ScriptInv(k) /\ db \in Databases /\ SchemaInv(db, k)
      /\ IF Raises(db, Script(k + 1)[boot.stmt])
         THEN boot' = [boot EXCEPT !.at = "failed"] /\ UNCHANGED db
         ELSE /\ db' = Effect(db, Script(k + 1)[boot.stmt])
              /\ boot' = IF boot.stmt = Len(Script(k + 1))
                         THEN [boot EXCEPT !.at = "record"]
                         ELSE [boot EXCEPT !.stmt = @ + 1]
  BY <1>1, StatementFacts
<1>3. /\ boot.stmt \in 1..4
      /\ boot.stmt > 1 => NewTypes(db) = k + 1
      /\ boot.stmt \in {2, 3} => OldTypes(db) # 0
      /\ boot.stmt = 3 => OldRows(db) \subseteq NewRows(db)
      /\ boot.stmt = 4 => OldTypes(db) = 0
  BY <1>1, <1>2, Scripts DEF ScriptInv
<1>4. /\ Len(Script(k + 1)) = 4
      /\ Script(k + 1)[1] = Create("printers_new", k + 1) /\ Script(k + 1)[2] = Copy
      /\ Script(k + 1)[3] = Drop /\ Script(k + 1)[4] = Rename
  BY <1>1, Scripts
<1>5. CASE boot.stmt = 1 /\ NewTypes(db) # 0
  <2>1. Raises(db, Create("printers_new", k + 1))
    BY <1>1, <1>2, <1>5, RaisesWhen
  <2>2. boot' = [boot EXCEPT !.at = "failed"] /\ UNCHANGED db
    BY <1>2, <1>4, <1>5, <2>1
  <2>3. HalfRun(db, k)
    BY <1>5 DEF HalfRun
  <2> QED
    BY <1>1, <1>2, <1>5, <2>2, <2>3, StatementRaises
<1>6. CASE boot.stmt = 1 /\ NewTypes(db) = 0
  <2>1. ~Raises(db, Create("printers_new", k + 1))
    BY <1>1, <1>2, <1>6, RaisesWhen
  <2>2. db' = Effect(db, Create("printers_new", k + 1)) /\ boot' = [boot EXCEPT !.stmt = @ + 1]
    BY <1>2, <1>4, <1>6, <2>1
  <2>3. /\ db' \in Databases /\ db'.applied = db.applied
        /\ OldTypes(db') = OldTypes(db) /\ NewTypes(db') = k + 1
        /\ OldRows(db') = OldRows(db) /\ NewRows(db') = NewRows(db)
        /\ db'.columns = db.columns /\ db'.overlays = db.overlays
    BY <1>1, <1>2, <2>2, CreateFacts
  <2>4. SchemaInv(db', k) /\ OldTypes(db') # 0
    BY <1>1, <1>2, <1>6, <2>3 DEF SchemaInv
  <2>5. boot'.stmt = 2
    BY <1>6, <2>2 DEF MigrationsInv, MigrationsTypeOK, BootRows
  <2>6. ScriptInv(k)'
    BY <1>1, <1>4, <2>3, <2>4, <2>5 DEF ScriptInv, OldTypes, NewTypes
  <2> QED
    BY <1>1, <1>2, <1>3, <2>2, <2>3, <2>4, <2>6, StatementRuns
<1>7. CASE boot.stmt = 2
  <2>1. ~Raises(db, Copy)
    BY <1>2, RaisesWhen
  <2>2. db' = Effect(db, Copy) /\ boot' = [boot EXCEPT !.stmt = @ + 1]
    BY <1>2, <1>4, <1>7, <2>1
  <2>3. /\ db' \in Databases /\ db'.applied = db.applied
        /\ OldTypes(db') = OldTypes(db) /\ NewTypes(db') = NewTypes(db)
        /\ OldRows(db') = OldRows(db) /\ NewRows(db') = NewRows(db) \cup OldRows(db)
        /\ db'.columns = db.columns /\ db'.overlays = db.overlays
    BY <1>2, <2>2, CopyFacts
  <2>4. NewTypes(db) = k + 1 /\ OldTypes(db) # 0
    BY <1>3, <1>7
  <2>5. SchemaInv(db', k)
    BY <1>1, <1>2, <2>3, <2>4 DEF SchemaInv
  <2>6. boot'.stmt = 3
    BY <1>7, <2>2 DEF MigrationsInv, MigrationsTypeOK, BootRows
  <2>7. OldRows(db') \subseteq NewRows(db')
    BY <2>3
  <2>8. ScriptInv(k)'
    BY <1>1, <1>4, <2>3, <2>4, <2>6, <2>7 DEF ScriptInv, OldTypes, NewTypes, OldRows, NewRows
  <2> QED
    BY <1>1, <1>2, <1>3, <2>2, <2>3, <2>5, <2>8, StatementRuns
<1>8. CASE boot.stmt = 3
  <2>1. ~Raises(db, Drop)
    BY <1>2, RaisesWhen
  <2>2. db' = Effect(db, Drop) /\ boot' = [boot EXCEPT !.stmt = @ + 1]
    BY <1>2, <1>4, <1>8, <2>1
  <2>3. /\ db' \in Databases /\ db'.applied = db.applied
        /\ OldTypes(db') = 0 /\ NewTypes(db') = NewTypes(db)
        /\ OldRows(db') = {} /\ NewRows(db') = NewRows(db)
        /\ db'.columns = db.columns /\ db'.overlays = db.overlays
    BY <1>2, <2>2, DropFacts
  <2>4. NewTypes(db) = k + 1
    BY <1>3, <1>8
  <2>5. SchemaInv(db', k)
    BY <1>1, <1>2, <2>3, <2>4 DEF SchemaInv, TypesAfter
  <2>6. boot'.stmt = 4
    BY <1>8, <2>2 DEF MigrationsInv, MigrationsTypeOK, BootRows
  <2>7. ScriptInv(k)'
    BY <1>1, <1>4, <2>3, <2>4, <2>6 DEF ScriptInv, OldTypes, NewTypes
  <2> QED
    BY <1>1, <1>2, <1>3, <2>2, <2>3, <2>5, <2>7, StatementRuns
<1>9. CASE boot.stmt = 4
  <2>1. ~Raises(db, Rename)
    BY <1>2, RaisesWhen
  <2>2. db' = Effect(db, Rename) /\ boot' = [boot EXCEPT !.at = "record"]
    BY <1>2, <1>4, <1>9, <2>1
  <2>3. /\ db' \in Databases /\ db'.applied = db.applied
        /\ OldTypes(db') = NewTypes(db) /\ NewTypes(db') = 0
        /\ OldRows(db') = NewRows(db) /\ NewRows(db') = {}
        /\ db'.columns = db.columns /\ db'.overlays = db.overlays
    BY <1>2, <2>2, RenameFacts
  <2>4. OldTypes(db') = k + 1
    BY <1>3, <1>9, <2>3
  <2>5. SchemaInv(db', k) /\ SchemaInv(db', k + 1)
    BY <1>1, <1>2, <2>3, <2>4 DEF SchemaInv, TypesAfter
  <2>6. ~HalfRun(db', k + 1) /\ ~HalfRun(db', k)
    BY <1>1, <2>3 DEF HalfRun
  <2> QED
    BY <1>1, <1>2, <2>2, <2>3, <2>5, <2>6, ScriptEnds
<1> QED
  BY <1>3, <1>5, <1>6, <1>7, <1>8, <1>9

LEMMA RunStatementStep == MigrationsInv /\ RunStatement => MigrationsInv'
<1> SUFFICES ASSUME MigrationsInv, RunStatement PROVE MigrationsInv'
  OBVIOUS
<1>1. PICK k \in 0..5 : Recorded(k)
  BY InvIsRecorded
<1>2. k + 1 \in Files
  BY <1>1, StatementFacts
<1>3. k = 0 \/ k = 1 \/ k = 3 \/ k \in {2, 4}
  BY <1>2 DEF Files
<1> QED
  BY <1>1, <1>3, FirstFile, ColumnsFile, OverlaysFile, RebuildFile

LEMMA RecordStep == MigrationsInv /\ Record => MigrationsInv'
<1> SUFFICES ASSUME MigrationsInv, Record PROVE MigrationsInv'
  OBVIOUS
<1>1. MigrationsTypeOK
  BY DEF MigrationsInv
<1>2. PICK k \in 0..5 : Recorded(k)
  BY InvIsRecorded
<1>3. /\ boot.at = "record" /\ boot \in BootRows /\ db \in Databases /\ release \in Files
      /\ db' = [db EXCEPT !.applied = @ \cup {boot.file}]
      /\ boot' = [boot EXCEPT !.at = "next", !.ran = @ \cup {boot.file}]
      /\ UNCHANGED <<release, file, backup, starts, cutOff, unclean, downgraded>>
  BY <1>1 DEF Record, MigrationsTypeOK
<1>4. /\ boot.file = k + 1 /\ k + 1 <= release /\ boot.applied \cup boot.ran = 1..k
      /\ SchemaInv(db, k + 1) /\ ~HalfRun(db, k + 1) /\ db.applied = 1..k
  BY <1>2, <1>3 DEF Recorded, BootInv
<1>5. k + 1 \in Files /\ k + 1 \in 0..5
  BY <1>3, <1>4 DEF Files
<1>6. 1..(k + 1) = (1..k) \cup {k + 1}
  OBVIOUS
<1>7. /\ db' \in Databases /\ db'.applied = 1..(k + 1)
      /\ db'.types = db.types /\ db'.rows = db.rows
      /\ db'.columns = db.columns /\ db'.overlays = db.overlays
  <2>1. db.applied \cup {boot.file} \in SUBSET Files
    BY <1>3, <1>4, <1>5, DatabaseFacts
  <2> QED
    BY <1>3, <1>4, <1>6, <2>1 DEF Databases
<1>8. boot' \in BootRows /\ boot'.at = "next" /\ boot'.applied = boot.applied
      /\ boot'.ran = boot.ran \cup {k + 1}
  <2>1. boot.ran \cup {boot.file} \in SUBSET Files
    BY <1>3, <1>4, <1>5 DEF BootRows
  <2> QED
    BY <1>3, <1>4, <2>1 DEF BootRows
<1>9. MigrationsTypeOK'
  <2>1. \E m \in 0..5 : db'.applied = 1..m
    BY <1>5, <1>7
  <2> QED
    BY <1>1, <1>3, <1>7, <1>8, <2>1 DEF MigrationsTypeOK
<1>10. SchemaInv(db', k + 1) /\ ~HalfRun(db', k + 1)
  BY <1>4, <1>7 DEF SchemaInv, HalfRun, OldTypes, NewTypes, OldRows, NewRows
<1>11. BootInv(k + 1)'
  <2>1. boot'.applied \cup boot'.ran = 1..(k + 1)
    BY <1>4, <1>6, <1>8
  <2> QED
    BY <1>8, <2>1 DEF BootInv
<1>12. CutInv(k + 1)'
  BY <1>8, <1>10 DEF CutInv
<1>13. Recorded(k + 1)'
  BY <1>7, <1>10, <1>11, <1>12 DEF Recorded
<1>14. WalInv' /\ boot'.at # "down"
  <2>1. boot'.ran # {}
    BY <1>8
  <2> QED
    BY <1>8, <2>1 DEF WalInv
<1> QED
  BY <1>5, <1>9, <1>13, <1>14 DEF MigrationsInv, Recorded

LEMMA ConfigureStep == MigrationsInv /\ Configure => MigrationsInv'
<1> SUFFICES ASSUME MigrationsInv, Configure PROVE MigrationsInv'
  OBVIOUS
<1>1. MigrationsTypeOK
  BY DEF MigrationsInv
<1>2. PICK k \in 0..5 : Recorded(k)
  BY InvIsRecorded
<1>3. PICK p \in PrinterRows : db' = [db EXCEPT !.rows["printers"] = @ \cup {p}]
  BY DEF Configure
<1>4. /\ boot.at = "serving" /\ db \in Databases /\ OldTypes(db) # 0
      /\ UNCHANGED <<release, file, backup, boot, starts, cutOff, unclean, downgraded>>
  BY <1>1 DEF Configure, MigrationsTypeOK, Exists, OldTypes
<1>5. /\ db' \in Databases /\ db'.applied = db.applied
      /\ OldTypes(db') = OldTypes(db) /\ NewTypes(db') = NewTypes(db)
      /\ NewRows(db') = NewRows(db)
      /\ db'.columns = db.columns /\ db'.overlays = db.overlays
  BY <1>3, <1>4 DEF Databases, Tables, OldTypes, NewTypes, NewRows
<1>6. MigrationsTypeOK'
  BY <1>1, <1>4, <1>5 DEF MigrationsTypeOK
<1>7. SchemaInv(db', k) /\ (HalfRun(db', k) <=> HalfRun(db, k)) /\ db'.applied = 1..k
  BY <1>2, <1>4, <1>5 DEF SchemaInv, HalfRun, Recorded
<1>8. BootInv(k)'
  BY <1>2, <1>4 DEF BootInv, Recorded
<1>9. CutInv(k)'
  BY <1>2, <1>4, <1>7 DEF CutInv, Recorded
<1>10. Recorded(k)'
  BY <1>7, <1>8, <1>9 DEF Recorded
<1>11. WalInv' /\ boot'.at # "down"
  BY <1>4 DEF WalInv
<1> QED
  BY <1>6, <1>10, <1>11 DEF MigrationsInv, Recorded

LEMMA CheckpointStep == MigrationsInv /\ Checkpoint => MigrationsInv'
<1> SUFFICES ASSUME MigrationsInv, Checkpoint PROVE MigrationsInv'
  OBVIOUS
<1>1. MigrationsTypeOK
  BY DEF MigrationsInv
<1>2. PICK k \in 0..5 : Recorded(k)
  BY InvIsRecorded
<1>3. /\ boot.at # "down" /\ file' = db
      /\ UNCHANGED <<release, db, backup, boot, starts, cutOff, unclean, downgraded>>
  BY DEF Checkpoint
<1>4. MigrationsTypeOK'
  BY <1>1, <1>3 DEF MigrationsTypeOK
<1>5. SchemaInv(db, k)' /\ (HalfRun(db, k)' <=> HalfRun(db, k)) /\ db'.applied = 1..k
  BY <1>2, <1>3, SameDatabase
<1>6. BootInv(k)'
  BY <1>2, <1>3, <1>5 DEF BootInv, ScriptInv, SchemaInv, HalfRun,
                          OldTypes, NewTypes, OldRows, NewRows, Recorded
<1>7. CutInv(k)'
  BY <1>2, <1>3, <1>5 DEF CutInv, Recorded
<1>8. Recorded(k)'
  BY <1>5, <1>6, <1>7 DEF Recorded
<1>9. WalInv' /\ boot'.at # "down"
  BY <1>3 DEF WalInv
<1> QED
  BY <1>4, <1>8, <1>9 DEF MigrationsInv, Recorded

\* A stop: nothing of the start is left.
LEMMA DownFacts == Down \in BootRows /\ Down.at = "down" /\ Down.ran = {}
  BY DEF Down, BootRows

LEMMA CloseStep == MigrationsInv /\ Close => MigrationsInv'
<1> SUFFICES ASSUME MigrationsInv, Close PROVE MigrationsInv'
  OBVIOUS
<1>1. MigrationsTypeOK
  BY DEF MigrationsInv
<1>2. PICK k \in 0..5 : Recorded(k)
  BY InvIsRecorded
<1>3. /\ boot.at = "serving" /\ boot' = Down /\ file' = db /\ unclean' = FALSE
      /\ UNCHANGED <<release, db, backup, starts, cutOff, downgraded>>
  BY DEF Close, AtClose
<1>4. MigrationsTypeOK'
  BY <1>1, <1>3, DownFacts DEF MigrationsTypeOK
<1>5. SchemaInv(db, k)' /\ (HalfRun(db, k)' <=> HalfRun(db, k)) /\ db'.applied = 1..k
  BY <1>2, <1>3, SameDatabase
<1>6. BootInv(k)'
  BY <1>3, DownFacts DEF BootInv
<1>7. CutInv(k)'
  BY <1>2, <1>3, <1>5, DownFacts DEF CutInv, Recorded
<1>8. Recorded(k)'
  BY <1>5, <1>6, <1>7 DEF Recorded
<1>9. WalInv'
  BY <1>3 DEF WalInv
<1> QED
  BY <1>3, <1>4, <1>8, <1>9 DEF MigrationsInv, Recorded

LEMMA DieStep == MigrationsInv /\ Die => MigrationsInv'
<1> SUFFICES ASSUME MigrationsInv, Die PROVE MigrationsInv'
  OBVIOUS
<1>1. MigrationsTypeOK
  BY DEF MigrationsInv
<1>2. PICK k \in 0..5 : Recorded(k)
  BY InvIsRecorded
<1>3. /\ boot.at # "down" /\ boot' = Down /\ unclean' = TRUE
      /\ cutOff' = (cutOff \/ (boot.at = "record" /\ boot.file = 2)
                           \/ (boot.at = "script" /\ boot.stmt > 1))
      /\ UNCHANGED <<release, db, file, backup, starts, downgraded>>
  BY DEF Die
<1>4. cutOff' \in BOOLEAN
  BY <1>3
<1>5. MigrationsTypeOK'
  BY <1>1, <1>3, <1>4, DownFacts DEF MigrationsTypeOK
<1>6. SchemaInv(db, k)' /\ (HalfRun(db, k)' <=> HalfRun(db, k)) /\ db'.applied = 1..k
  BY <1>2, <1>3, SameDatabase
<1>7. BootInv(k)'
  BY <1>3, DownFacts DEF BootInv
<1>8. CutInv(k)'
  BY <1>2, <1>3, <1>6, DownFacts DEF CutInv, Recorded
<1>9. Recorded(k)'
  BY <1>6, <1>7, <1>8 DEF Recorded
<1>10. WalInv'
  BY <1>3 DEF WalInv
<1> QED
  BY <1>3, <1>5, <1>9, <1>10 DEF MigrationsInv, Recorded

LEMMA InstallStep == MigrationsInv /\ Install => MigrationsInv'
<1> SUFFICES ASSUME MigrationsInv, Install PROVE MigrationsInv'
  OBVIOUS
<1>1. MigrationsTypeOK /\ WalInv
  BY DEF MigrationsInv
<1>2. PICK k \in 0..5 : Recorded(k)
  BY InvIsRecorded
<1>3. /\ boot.at = "down" /\ release' \in Files /\ release \in Files
      /\ downgraded' = (downgraded \/ release' < release)
      /\ UNCHANGED <<db, file, backup, boot, starts, cutOff, unclean>>
  BY <1>1 DEF Install, MigrationsTypeOK
<1>4. downgraded' \in BOOLEAN
  BY <1>3
<1>5. MigrationsTypeOK'
  BY <1>1, <1>3, <1>4 DEF MigrationsTypeOK
<1>6. SchemaInv(db, k)' /\ (HalfRun(db, k)' <=> HalfRun(db, k)) /\ db'.applied = 1..k
  BY <1>2, <1>3, SameDatabase
<1>7. BootInv(k)'
  BY <1>3 DEF BootInv
<1>8. CutInv(k)'
  <2>1. HalfRun(db, k) /\ release' <= k => downgraded'
    <3> SUFFICES ASSUME HalfRun(db, k), release' <= k PROVE downgraded'
      OBVIOUS
    <3>1. CASE release <= k
      <4>1. downgraded
        BY <1>2, <3>1 DEF CutInv, Recorded
      <4> QED
        BY <1>3, <4>1
    <3>2. CASE ~(release <= k)
      <4>1. release' < release
        BY <1>3, <3>2 DEF Files
      <4> QED
        BY <1>3, <4>1
    <3> QED
      BY <3>1, <3>2
  <2> QED
    BY <1>2, <1>3, <1>6, <2>1 DEF CutInv, Recorded
<1>9. Recorded(k)'
  BY <1>6, <1>7, <1>8 DEF Recorded
<1>10. WalInv'
  BY <1>1, <1>3 DEF WalInv
<1> QED
  BY <1>3, <1>5, <1>9, <1>10 DEF MigrationsInv, Recorded

LEMMA MigrationsStutter == MigrationsInv /\ UNCHANGED migrationVars => MigrationsInv'
<1> SUFFICES ASSUME MigrationsInv, UNCHANGED migrationVars PROVE MigrationsInv'
  OBVIOUS
<1>1. /\ UNCHANGED <<release, db, file, backup, boot, starts, cutOff, unclean, downgraded>>
      /\ MigrationsTypeOK /\ WalInv /\ (boot.at = "down" => boot = Down)
  BY DEF MigrationsInv, migrationVars
<1>2. PICK k \in 0..5 : Recorded(k)
  BY InvIsRecorded
<1>3. MigrationsTypeOK'
  BY <1>1 DEF MigrationsTypeOK
<1>4. WalInv'
  BY <1>1 DEF WalInv
<1>5. SchemaInv(db, k)' /\ (HalfRun(db, k)' <=> HalfRun(db, k)) /\ db'.applied = 1..k
  BY <1>1, <1>2, SameDatabase
<1>6. BootInv(k)'
  BY <1>1, <1>2 DEF BootInv, ScriptInv, SchemaInv, HalfRun,
                    OldTypes, NewTypes, OldRows, NewRows, Recorded
<1>7. CutInv(k)'
  BY <1>1, <1>2, <1>5 DEF CutInv, Recorded
<1>8. Recorded(k)'
  BY <1>5, <1>6, <1>7 DEF Recorded
<1> QED
  BY <1>1, <1>3, <1>4, <1>8 DEF MigrationsInv, Recorded

\* In every reachable state of an upgrade, whatever cuts it off, the database has the
\* tables that its recorded files and the statements of the next one leave.
THEOREM MigrationsInvariance == MigrationsSpec => []MigrationsInv
<1>1. MigrationsInv /\ [MigrationsNext]_migrationVars => MigrationsInv'
  BY StartStep, NextFileStep, BackupStep, RunStatementStep, RecordStep, ConfigureStep,
     CheckpointStep, CloseStep, DieStep, InstallStep, MigrationsStutter DEF MigrationsNext
<1> QED
  BY MigrationsStart, <1>1, PTL DEF MigrationsSpec

-----------------------------------------------------------------------------
(* Migrations: what the invariant gives.                                   *)

\* What starts a service has the whole schema of some release, or a file was cut off
\* and an older image installed over it.
LEMMA ServingIsWhole == MigrationsInv => ServesWholeSchema
<1> SUFFICES ASSUME MigrationsInv, boot.at = "serving",
                    ~(cutOff /\ downgraded)
             PROVE  \E f \in release..5 : Whole(db, f)
  BY DEF ServesWholeSchema
<1>1. PICK k \in 0..5 : Recorded(k)
  BY InvIsRecorded
<1>2. release \in Files /\ release <= k /\ db \in Databases
  BY <1>1 DEF Recorded, BootInv, MigrationsInv, MigrationsTypeOK
<1>3. k \in 1..5
  BY <1>2 DEF Files
<1>4. ~HalfRun(db, k) /\ SchemaInv(db, k)
  <2>1. HalfRun(db, k) => cutOff
    BY <1>1 DEF Recorded, CutInv
  <2>2. HalfRun(db, k) => downgraded
    BY <1>1, <1>2 DEF Recorded, CutInv
  <2> QED
    BY <1>1, <2>1, <2>2 DEF Recorded
<1>5. NewTypes(db) = 0 /\ OldTypes(db) # 0 /\ OldTypes(db) \in TypesAfter(k)
  BY <1>3, <1>4 DEF SchemaInv, HalfRun
<1>6. db.overlays \in BOOLEAN
  BY <1>2, DatabaseFacts
<1>7. CASE k = 1
  <2>1. OldTypes(db) = 1 /\ db.columns = {} /\ ~db.overlays
    BY <1>4, <1>5, <1>7 DEF SchemaInv, HalfRun, TypesAfter
  <2>2. Whole(db, 1) /\ 1 \in release..5
    BY <1>2, <1>5, <1>6, <1>7, <2>1 DEF Whole, OldTypes, NewTypes, Files
  <2> QED
    BY <2>2
<1>8. CASE k = 2
  <2>1. OldTypes(db) \in {1, 3} /\ db.columns = Columns /\ ~db.overlays
    BY <1>4, <1>5, <1>8 DEF SchemaInv, TypesAfter
  <2>2. OldTypes(db) = 1 => Whole(db, 2) /\ 2 \in release..5
    BY <1>2, <1>5, <1>6, <1>8, <2>1 DEF Whole, OldTypes, NewTypes, Files
  <2>3. OldTypes(db) = 3 => Whole(db, 3) /\ 3 \in release..5
    BY <1>2, <1>5, <1>6, <1>8, <2>1 DEF Whole, OldTypes, NewTypes, Files
  <2> QED
    BY <2>1, <2>2, <2>3
<1>9. CASE k = 3
  <2>1. OldTypes(db) = 3 /\ db.columns = Columns
    BY <1>4, <1>5, <1>9 DEF SchemaInv, TypesAfter
  <2>2. ~db.overlays => Whole(db, 3) /\ 3 \in release..5
    BY <1>2, <1>5, <1>6, <1>9, <2>1 DEF Whole, OldTypes, NewTypes, Files
  <2>3. db.overlays = TRUE => Whole(db, 4) /\ 4 \in release..5
    BY <1>2, <1>5, <1>6, <1>9, <2>1 DEF Whole, OldTypes, NewTypes, Files
  <2> QED
    BY <1>6, <2>2, <2>3
<1>10. CASE k = 4
  <2>1. OldTypes(db) \in {3, 5} /\ db.columns = Columns /\ db.overlays = TRUE
    BY <1>4, <1>5, <1>6, <1>10 DEF SchemaInv, TypesAfter
  <2>2. OldTypes(db) = 3 => Whole(db, 4) /\ 4 \in release..5
    BY <1>2, <1>5, <1>6, <1>10, <2>1 DEF Whole, OldTypes, NewTypes, Files
  <2>3. OldTypes(db) = 5 => Whole(db, 5) /\ 5 \in release..5
    BY <1>2, <1>5, <1>6, <1>10, <2>1 DEF Whole, OldTypes, NewTypes, Files
  <2> QED
    BY <2>1, <2>2, <2>3
<1>11. CASE k = 5
  <2>1. OldTypes(db) = 5 /\ db.columns = Columns /\ db.overlays = TRUE
    BY <1>4, <1>5, <1>6, <1>11 DEF SchemaInv, TypesAfter
  <2>2. Whole(db, 5) /\ 5 \in release..5
    BY <1>2, <1>5, <1>6, <1>11, <2>1 DEF Whole, OldTypes, NewTypes, Files
  <2> QED
    BY <2>2
<1> QED
  BY <1>3, <1>7, <1>8, <1>9, <1>10, <1>11

\* A service that serves has the whole schema of the files recorded, and those of its
\* image are: a file is recorded after its last statement.  An older image may come
\* after a start that was cut off in a later file.
THEOREM WhatServesIsWhole == MigrationsSpec => []ServesWholeSchema
  BY MigrationsInvariance, ServingIsWhole, PTL

\* A start fails only where an earlier one was cut off in the middle of a file.
THEOREM OnlyCutsFailAStart == MigrationsSpec => []FailsOnlyAfterACut
<1>1. MigrationsInv => FailsOnlyAfterACut
  BY DEF MigrationsInv, CutInv, FailsOnlyAfterACut
<1> QED
  BY MigrationsInvariance, <1>1, PTL

\* No statement loses a row: the old table is dropped after its rows were copied.
LEMMA StatementsKeepRows ==
    ASSUME MigrationsInv, RunStatement
    PROVE  RowsOf(db) \subseteq RowsOf(db')
<1>1. PICK k \in 0..5 : Recorded(k)
  BY InvIsRecorded
<1>2. /\ k + 1 \in Files /\ ScriptInv(k) /\ db \in Databases /\ SchemaInv(db, k)
      /\ \/ UNCHANGED db
         \/ db' = Effect(db, Script(k + 1)[boot.stmt])
  BY <1>1, StatementFacts
<1> DEFINE Kept == OldRows(db) \cup NewRows(db) \subseteq OldRows(db') \cup NewRows(db')
<1>3. CASE UNCHANGED db
  BY <1>3
<1>4. CASE db' = Effect(db, Script(k + 1)[boot.stmt])
  <2>1. CASE k = 0
    <3>1. 0 + 1 = 1
      OBVIOUS
    <3>2. db' = Effect(db, CreateIfNotExists("printers", 1))
      BY <1>2, <1>4, <2>1, <3>1, Scripts DEF ScriptInv
    <3>3. Kept
      BY <1>2, <3>2, EnsureFacts
    <3> QED
      BY <3>3 DEF RowsOf, OldRows, NewRows
  <2>2. CASE k = 1
    <3>1. 1 + 1 = 2
      OBVIOUS
    <3>2. boot.stmt = 1 \/ boot.stmt = 2
      <4>1. boot.stmt \in 1..2
        BY <1>2, <2>2, <3>1, Scripts DEF ScriptInv
      <4> QED
        BY <4>1
    <3>3. PICK c \in Columns : db' = Effect(db, AddColumn(c))
      BY <1>4, <2>2, <3>1, <3>2, Scripts DEF Columns
    <3>4. Kept
      BY <1>2, <3>3, ColumnFacts
    <3> QED
      BY <3>4 DEF RowsOf, OldRows, NewRows
  <2>3. CASE k = 3
    <3>1. 3 + 1 = 4
      OBVIOUS
    <3>2. db' = Effect(db, CreateIfNotExists("overlays", 4))
      BY <1>2, <1>4, <2>3, <3>1, Scripts DEF ScriptInv
    <3>3. Kept
      BY <1>2, <3>2, OverlayFacts
    <3> QED
      BY <3>3 DEF RowsOf, OldRows, NewRows
  <2>4. CASE k \in {2, 4}
    <3>1. k + 1 \in {3, 5} /\ k + 1 \in 0..5
      BY <2>4
    <3>2. /\ boot.stmt \in 1..4
          /\ boot.stmt > 1 => NewTypes(db) = k + 1
          /\ boot.stmt = 3 => OldRows(db) \subseteq NewRows(db)
          /\ boot.stmt = 4 => OldTypes(db) = 0
      BY <1>2, <2>4, <3>1, Scripts DEF ScriptInv
    <3>3. CASE boot.stmt = 1
      <4>1. db' = Effect(db, Create("printers_new", k + 1))
        BY <1>4, <3>1, <3>3, Scripts
      <4>2. Kept
        BY <1>2, <3>1, <4>1, CreateFacts
      <4> QED
        BY <4>2 DEF RowsOf, OldRows, NewRows
    <3>4. CASE boot.stmt = 2
      <4>1. db' = Effect(db, Copy)
        BY <1>4, <3>1, <3>4, Scripts
      <4>2. Kept
        BY <1>2, <4>1, CopyFacts
      <4> QED
        BY <4>2 DEF RowsOf, OldRows, NewRows
    <3>5. CASE boot.stmt = 3
      <4>1. db' = Effect(db, Drop)
        BY <1>4, <3>1, <3>5, Scripts
      <4>2. Kept
        BY <1>2, <3>2, <3>5, <4>1, DropFacts
      <4> QED
        BY <4>2 DEF RowsOf, OldRows, NewRows
    <3>6. CASE boot.stmt = 4
      <4>1. db' = Effect(db, Rename)
        BY <1>4, <3>1, <3>6, Scripts
      <4>2. OldRows(db) = {}
        BY <1>2, <3>2, <3>6 DEF SchemaInv
      <4>3. Kept
        BY <1>2, <4>1, <4>2, RenameFacts
      <4> QED
        BY <4>3 DEF RowsOf, OldRows, NewRows
    <3> QED
      BY <3>2, <3>3, <3>4, <3>5, <3>6
  <2>5. k = 0 \/ k = 1 \/ k = 3 \/ k \in {2, 4}
    BY <1>2 DEF Files
  <2> QED
    BY <2>1, <2>2, <2>3, <2>4, <2>5
<1> QED
  BY <1>2, <1>3, <1>4

\* No step of an upgrade, no crash within it and no repeated file loses a printer.
THEOREM NoPrinterIsLost == MigrationsSpec => PrintersSurvive
<1> DEFINE Kept == RowsOf(db) \subseteq RowsOf(db')
<1>1. MigrationsInv /\ [MigrationsNext]_migrationVars => [Kept]_migrationVars
  <2> SUFFICES ASSUME MigrationsInv, MigrationsNext PROVE Kept
    OBVIOUS
  <2>1. CASE UNCHANGED db
    BY <2>1
  <2>2. CASE RunStatement
    BY <2>2, StatementsKeepRows
  <2>3. CASE Record
    <3>1. db' = [db EXCEPT !.applied = @ \cup {boot.file}] /\ db \in Databases
      BY <2>3 DEF Record, MigrationsInv, MigrationsTypeOK
    <3>2. db'.rows = db.rows
      BY <3>1 DEF Databases
    <3> QED
      BY <3>2 DEF RowsOf
  <2>4. CASE Configure
    <3>1. PICK p \in PrinterRows : db' = [db EXCEPT !.rows["printers"] = @ \cup {p}]
      BY <2>4 DEF Configure
    <3>2. db \in Databases
      BY DEF MigrationsInv, MigrationsTypeOK
    <3>3. /\ db'.rows["printers"] = db.rows["printers"] \cup {p}
          /\ db'.rows["printers_new"] = db.rows["printers_new"]
      BY <3>1, <3>2 DEF Databases, Tables
    <3> QED
      BY <3>3 DEF RowsOf
  <2> QED
    BY <2>1, <2>2, <2>3, <2>4
       DEF MigrationsNext, Start, NextFile, Backup, Checkpoint, Close, Die, Install
<1> QED
  BY MigrationsInvariance, <1>1, PTL DEF MigrationsSpec, PrintersSurvive

\* After a clean stop, the first backup of an upgrade is the database as it was.
THEOREM FirstBackupIsWhole == MigrationsSpec => CleanBackupIsWhole
<1> DEFINE FirstIsWhole == backup' # backup /\ ~unclean /\ boot.ran = {} => backup'.of = db
<1>1. MigrationsInv /\ [MigrationsNext]_migrationVars => [FirstIsWhole]_migrationVars
  <2> SUFFICES ASSUME MigrationsInv, MigrationsNext, backup' # backup, ~unclean, boot.ran = {}
               PROVE  backup'.of = db
    OBVIOUS
  <2>1. Backup
    BY DEF MigrationsNext, Start, NextFile, RunStatement, Record, Configure, Checkpoint,
           Close, Die, Install
  <2>2. boot.at = "backup" /\ backup' = [file |-> boot.file, of |-> file]
    BY <2>1 DEF Backup
  <2>3. file = db
    BY <2>2 DEF MigrationsInv, WalInv
  <2> QED
    BY <2>2, <2>3
<1> QED
  BY MigrationsInvariance, <1>1, PTL DEF MigrationsSpec, CleanBackupIsWhole

-----------------------------------------------------------------------------
(* Tunnel: the invariant.                                                  *)

\* Requests that have yet to start a child.
Launching == {r \in Switchers : switch[r].start /\ switch[r].at \in {"stopping", "spawning"}}

\* There is a child for each of them, and no more tasks than children to read from.
ChildrenInv ==
    /\ Cardinality(Launching) <= Cardinality(Unborn)
    /\ scansDue <= Cardinality(quick)
    /\ \A r \in Switchers : switch[r].at = "spawning" => switch[r].start

\* While starts do not overlap, the one in progress has left no child behind.
OneStartInv ==
    /\ \A r, s \in Starting : r = s
    /\ \A r \in Launching : proc = NoChild
    /\ \A c \in Children : child[c] = "running" => c = proc

\* A url is forgotten before the spawn, and only what is _proc may set it again.
UrlInv ==
    /\ proc # NoChild /\ url # NoChild => url = proc
    /\ (\E r \in Switchers : switch[r].at = "spawning") => url = NoChild

\* While a switch meets neither another nor a save, what it writes is what it did.
AloneInv ==
    /\ \A r, s \in Switching : r = s
    /\ saver.at = "idle"
    /\ \A r \in Switching : ~switch[r].stale
    /\ \A r \in Switchers :
         /\ switch[r].at \in {"stopping", "spawning"} => proc = NoChild
         /\ switch[r].at \in {"read", "checked"} => (proc # NoChild <=> switch[r].start)

\* With nothing unsettled a switch in progress is alone, and with none the settings say
\* what was done.
SettledInv ==
    /\ Switching # {} => alone
    /\ Switching = {} => (proc # NoChild <=> config.enabled)

TunnelInv ==
    /\ TunnelTypeOK /\ ChildrenInv
    /\ ~twoStarts => OneStartInv
    /\ ~twoStarts /\ ~lateUrl => UrlInv
    /\ alone => AloneInv
    /\ ~unsettled => SettledInv

-----------------------------------------------------------------------------
(* Tunnel: what the steps need.                                            *)

LEMMA NoSuchChild == Children \subseteq Nat /\ ~(NoChild \in Children) /\ IsFiniteSet(Children)
<1>1. MaxChildren \in Nat /\ 1 \in Int
  BY TunnelAssumption
<1>2. IsFiniteSet(1..MaxChildren)
  BY <1>1, FS_Interval
<1> QED
  BY <1>1, <1>2 DEF Children, NoChild

\* A set of switches, and one of children, is finite and has a number of members.
LEMMA FiniteParts ==
    /\ \A S \in SUBSET Switchers : IsFiniteSet(S) /\ Cardinality(S) \in Nat
    /\ \A S \in SUBSET Children : IsFiniteSet(S) /\ Cardinality(S) \in Nat
<1>1. IsFiniteSet(Switchers) /\ IsFiniteSet(Children)
  BY TunnelAssumption, NoSuchChild
<1>2. \A S \in SUBSET Switchers : IsFiniteSet(S)
  BY <1>1, FS_Subset
<1>3. \A S \in SUBSET Children : IsFiniteSet(S)
  BY <1>1, FS_Subset
<1> QED
  BY <1>2, <1>3, FS_CardinalityType

\* One more, one less, and no more than before.
LEMMA Counts ==
    ASSUME NEW S, IsFiniteSet(S)
    PROVE  /\ Cardinality(S) \in Nat
           /\ \A T \in SUBSET S : IsFiniteSet(T) /\ Cardinality(T) <= Cardinality(S)
           /\ \A x : IsFiniteSet(S \cup {x}) /\ Cardinality(S \cup {x}) <= Cardinality(S) + 1
           /\ \A x : ~(x \in S) => Cardinality(S \cup {x}) = Cardinality(S) + 1
           /\ \A x \in S : Cardinality(S \ {x}) = Cardinality(S) - 1 /\ Cardinality(S) >= 1
<1>1. Cardinality(S) \in Nat
  BY FS_CardinalityType
<1>2. \A T \in SUBSET S : IsFiniteSet(T) /\ Cardinality(T) <= Cardinality(S)
  BY FS_Subset
<1>3. ASSUME NEW x
      PROVE  /\ IsFiniteSet(S \cup {x})
             /\ Cardinality(S \cup {x}) = IF x \in S THEN Cardinality(S) ELSE Cardinality(S) + 1
  BY FS_AddElement
<1>4. ASSUME NEW x \in S
      PROVE  Cardinality(S \ {x}) = Cardinality(S) - 1 /\ Cardinality(S) >= 1
  <2>1. /\ IsFiniteSet(S \ {x})
        /\ Cardinality(S \ {x}) = IF x \in S THEN Cardinality(S) - 1 ELSE Cardinality(S)
    BY FS_RemoveElement
  <2>2. Cardinality(S \ {x}) \in Nat
    BY <2>1, FS_CardinalityType
  <2> QED
    BY <1>1, <2>1, <2>2
<1> QED
  BY <1>1, <1>2, <1>3, <1>4

\* The next child to start is one that was not started.
NextChild == CHOOSE c \in Unborn : \A d \in Unborn : c <= d

LEMMA NextChildIsUnborn == ASSUME Unborn # {} PROVE NextChild \in Unborn
<1>1. Unborn \subseteq Nat
  BY NoSuchChild DEF Unborn
<1>2. \E c \in Unborn : \A d \in Unborn : c <= d
  BY <1>1, LeastMember
<1> QED
  BY <1>2 DEF NextChild

\* One request moves, the others stay as they are.
LEMMA OneSwitchMoves ==
    ASSUME TunnelTypeOK, NEW r \in Switchers, NEW entry \in SwitchRows,
           switch' = [switch EXCEPT ![r] = entry]
    PROVE  /\ switch' \in [Switchers -> SwitchRows]
           /\ switch'[r] = entry
           /\ \A s \in Switchers : s # r => switch'[s] = switch[s]
  BY DEF TunnelTypeOK

\* The rows of a request on its way.
LEMMA RowFacts ==
    ASSUME NEW entry \in SwitchRows
    PROVE  /\ entry.start \in BOOLEAN /\ entry.stale \in BOOLEAN /\ entry.mode \in Modes
           /\ entry.seen \in Configs
           /\ \A a \in {"stopping", "spawning", "checked"} :
                /\ [entry EXCEPT !.at = a] \in SwitchRows
                /\ [entry EXCEPT !.at = a].at = a
                /\ [entry EXCEPT !.at = a].start = entry.start
                /\ [entry EXCEPT !.at = a].stale = entry.stale
           /\ config \in Configs =>
                /\ Reading(entry) \in SwitchRows /\ Reading(entry).at = "read"
                /\ Reading(entry).start = entry.start /\ Reading(entry).stale = FALSE
<1>1. /\ entry.start \in BOOLEAN /\ entry.stale \in BOOLEAN /\ entry.mode \in Modes
      /\ entry.seen \in Configs
  BY DEF SwitchRows
<1>2. ASSUME NEW a \in {"stopping", "spawning", "checked"}
      PROVE  /\ [entry EXCEPT !.at = a] \in SwitchRows
             /\ [entry EXCEPT !.at = a].at = a
             /\ [entry EXCEPT !.at = a].start = entry.start
             /\ [entry EXCEPT !.at = a].stale = entry.stale
  BY DEF SwitchRows
<1>3. ASSUME config \in Configs
      PROVE  /\ Reading(entry) \in SwitchRows /\ Reading(entry).at = "read"
             /\ Reading(entry).start = entry.start /\ Reading(entry).stale = FALSE
  BY <1>3 DEF SwitchRows, Reading
<1> QED
  BY <1>1, <1>2, <1>3

\* The requests and the page as they begin.
LEMMA FirstRows ==
    /\ NoSwitch \in SwitchRows /\ NoSwitch.at = "idle"
    /\ NoSwitch.start = FALSE /\ NoSwitch.stale = FALSE
    /\ \A m \in Modes :
         LET entry == [NoSwitch EXCEPT !.start = TRUE, !.mode = m]
         IN  entry \in SwitchRows /\ entry.start = TRUE /\ entry.stale = FALSE
    /\ NotSaving \in SaverRows /\ NotSaving.at = "idle"
    /\ Config0 \in Configs /\ Config0.enabled = FALSE
<1>1. Config0 \in Configs /\ Config0.enabled = FALSE
  BY DEF Config0, Configs, Modes
<1>2. /\ NoSwitch \in SwitchRows /\ NoSwitch.at = "idle"
      /\ NoSwitch.start = FALSE /\ NoSwitch.stale = FALSE
  BY <1>1 DEF NoSwitch, SwitchRows, Modes
<1>3. ASSUME NEW m \in Modes
      PROVE  /\ [NoSwitch EXCEPT !.start = TRUE, !.mode = m] \in SwitchRows
             /\ [NoSwitch EXCEPT !.start = TRUE, !.mode = m].start = TRUE
             /\ [NoSwitch EXCEPT !.start = TRUE, !.mode = m].stale = FALSE
  BY <1>2 DEF SwitchRows, NoSwitch
<1>4. NotSaving \in SaverRows /\ NotSaving.at = "idle"
  BY <1>1 DEF NotSaving, SaverRows
<1> QED
  BY <1>1, <1>2, <1>3, <1>4

\* At first there is no child, and the saved settings ask for none.
THEOREM TunnelBegins == TunnelInit => TunnelInv
<1> SUFFICES ASSUME TunnelInit PROVE TunnelInv
  OBVIOUS
<1>1. /\ \A c \in Children : child[c] = "none"
      /\ \A r \in Switchers : switch[r] = NoSwitch
      /\ child \in [Children -> {"none", "running", "ending", "gone"}]
      /\ switch \in [Switchers -> SwitchRows]
  BY FirstRows DEF TunnelInit
<1>2. TunnelTypeOK
  <2>1. tunnelHistory \in BOOLEAN \X BOOLEAN \X BOOLEAN \X BOOLEAN
    BY DEF TunnelInit, tunnelHistory
  <2>2. 0 \in 0..MaxChildren
    BY TunnelAssumption
  <2> QED
    BY <1>1, <2>1, <2>2, FirstRows DEF TunnelInit, TunnelTypeOK, Unborn
<1>3. Launching = {} /\ Starting = {} /\ Switching = {}
  BY <1>1, FirstRows DEF Launching, Starting, Switching
<1>4. ChildrenInv
  <2>1. Cardinality({}) = 0
    BY FS_EmptySet
  <2>2. Unborn \in SUBSET Children /\ Cardinality(Unborn) \in Nat
    BY FiniteParts DEF Unborn
  <2>3. Cardinality(Launching) <= Cardinality(Unborn)
    BY <1>3, <2>1, <2>2
  <2>4. scansDue <= Cardinality(quick)
    BY <2>1 DEF TunnelInit
  <2> QED
    BY <1>1, <2>3, <2>4, FirstRows DEF ChildrenInv
<1>5. OneStartInv
  BY <1>1, <1>3 DEF OneStartInv
<1>6. UrlInv
  BY <1>1, FirstRows DEF UrlInv, TunnelInit
<1>7. SettledInv /\ ~alone
  BY <1>1, <1>3, FirstRows DEF SettledInv, TunnelInit
<1> QED
  BY <1>2, <1>4, <1>5, <1>6, <1>7 DEF TunnelInv

-----------------------------------------------------------------------------
(* Tunnel: the requests.                                                   *)

\* The row of a request after stop() and what follows it.
MovesOn(r, row0, entry) ==
    /\ switch' = [switch EXCEPT ![r] = entry]
    /\ entry.start = row0.start /\ entry.stale = FALSE
    /\ entry.at \in {"stopping", "spawning", "read"}
    /\ entry.at = "spawning" => entry.start /\ url' = NoChild
    /\ entry.at = "read" => ~entry.start

\* What stop() and what follows it do for a request.
LEMMA StopFacts ==
    ASSUME TunnelTypeOK, NEW r \in Switchers, NEW row0 \in SwitchRows, row0.stale = FALSE,
           Stop(r, row0)
    PROVE  /\ proc' = NoChild
           /\ child' \in [Children -> {"none", "running", "ending", "gone"}]
           /\ \A c \in Children : /\ child'[c] = "none" <=> child[c] = "none"
                                  /\ child'[c] = "running" => child[c] = "running" /\ c # proc
           /\ tunnelMode' \in Modes \cup {"none"}
           /\ \E entry \in SwitchRows : MovesOn(r, row0, entry)
           /\ url' = NoChild \/ url' = url
<1>1. /\ child \in [Children -> {"none", "running", "ending", "gone"}]
      /\ config \in Configs /\ row0.mode \in Modes /\ row0.start \in BOOLEAN
  BY RowFacts DEF TunnelTypeOK
<1>2. CASE proc # NoChild /\ child[proc] = "running"
  <2>1. /\ proc' = NoChild /\ child' = [child EXCEPT ![proc] = "ending"]
        /\ switch' = [switch EXCEPT ![r] = [row0 EXCEPT !.at = "stopping"]]
        /\ tunnelMode' = "none" /\ url' = url
    BY <1>2 DEF Stop, Terminated
  <2>2. proc \in Children
    BY <1>2 DEF TunnelTypeOK
  <2> DEFINE entry == [row0 EXCEPT !.at = "stopping"]
  <2>3. entry \in SwitchRows /\ entry.at = "stopping" /\ entry.start = row0.start /\ entry.stale = FALSE
    BY RowFacts
  <2>4. switch' = [switch EXCEPT ![r] = entry]
    BY <2>1
  <2> HIDE DEF entry
  <2>5. /\ child' \in [Children -> {"none", "running", "ending", "gone"}]
        /\ \A c \in Children : /\ child'[c] = "none" <=> child[c] = "none"
                               /\ child'[c] = "running" => child[c] = "running" /\ c # proc
    BY <1>1, <1>2, <2>1, <2>2
  <2> QED
    BY <2>1, <2>3, <2>4, <2>5 DEF MovesOn
<1>3. CASE ~(proc # NoChild /\ child[proc] = "running")
  <2>1. proc' = NoChild /\ UNCHANGED child /\ AfterStop(r, row0)
    BY <1>3 DEF Stop
  <2>2. \A c \in Children : child[c] = "running" => c # proc
    BY <1>3, NoSuchChild
  <2>3. CASE row0.start
    <3> DEFINE entry == [row0 EXCEPT !.at = "spawning"]
    <3>1. entry \in SwitchRows /\ entry.at = "spawning" /\ entry.start = row0.start /\ entry.stale = FALSE
      BY RowFacts
    <3>2. switch' = [switch EXCEPT ![r] = entry] /\ tunnelMode' = row0.mode /\ url' = NoChild
      BY <2>1, <2>3 DEF AfterStop, Launch
    <3> HIDE DEF entry
    <3> QED
      BY <1>1, <2>1, <2>2, <2>3, <3>1, <3>2 DEF MovesOn
  <2>4. CASE ~row0.start
    <3>1. /\ Reading(row0) \in SwitchRows /\ Reading(row0).at = "read"
          /\ Reading(row0).start = row0.start /\ Reading(row0).stale = FALSE
      BY <1>1, RowFacts
    <3>2. /\ switch' = [switch EXCEPT ![r] = Reading(row0)]
          /\ tunnelMode' = "none" /\ UNCHANGED url
      BY <2>1, <2>4 DEF AfterStop
    <3> QED
      BY <1>1, <2>1, <2>2, <2>4, <3>1, <3>2 DEF MovesOn
  <2> QED
    BY <2>3, <2>4
<1> QED
  BY <1>2, <1>3

\* A request comes in: the step it shares with every other.
LEMMA RequestBegins ==
    ASSUME TunnelInv, NEW r \in Switchers, NEW row0 \in SwitchRows, row0.stale = FALSE,
           switch[r].at = "idle", Stop(r, row0), Meet(row0.start),
           row0.start => Cardinality(Starting) < Cardinality(Unborn),
           UNCHANGED <<quick, scansDue, read, saver, config>>
    PROVE  TunnelInv'
<1>1. TunnelTypeOK /\ ChildrenInv
  BY DEF TunnelInv
<1>2. /\ proc' = NoChild
      /\ child' \in [Children -> {"none", "running", "ending", "gone"}]
      /\ \A c \in Children : /\ child'[c] = "none" <=> child[c] = "none"
                             /\ child'[c] = "running" => child[c] = "running" /\ c # proc
      /\ tunnelMode' \in Modes \cup {"none"}
      /\ url' = NoChild \/ url' = url
  BY <1>1, StopFacts
<1>entry. PICK entry \in SwitchRows : MovesOn(r, row0, entry)
  BY <1>1, StopFacts
<1>3. /\ switch' = [switch EXCEPT ![r] = entry]
      /\ entry.start = row0.start /\ entry.stale = FALSE
      /\ entry.at \in {"stopping", "spawning", "read"}
      /\ entry.at = "spawning" => entry.start /\ url' = NoChild
      /\ entry.at = "read" => ~entry.start
  BY <1>entry DEF MovesOn
<1>4. /\ switch' \in [Switchers -> SwitchRows] /\ switch'[r] = entry
      /\ \A s \in Switchers : s # r => switch'[s] = switch[s]
  BY <1>1, <1>3, OneSwitchMoves
<1>5. /\ twoStarts' = (twoStarts \/ (row0.start /\ Starting # {}))
      /\ alone' = (Switching = {} /\ saver.at = "idle")
      /\ unsettled' = (unsettled \/ ~alone')
      /\ lateUrl' = lateUrl
      /\ twoStarts \in BOOLEAN /\ unsettled \in BOOLEAN /\ lateUrl \in BOOLEAN
  BY <1>1 DEF Meet, TunnelTypeOK, tunnelHistory
<1>6. Unborn' = Unborn
  BY <1>2 DEF Unborn
<1>7. TunnelTypeOK'
  <2>1. row0.start \in BOOLEAN
    BY RowFacts
  <2>2. /\ twoStarts' \in BOOLEAN /\ alone' \in BOOLEAN
        /\ unsettled' \in BOOLEAN /\ lateUrl' \in BOOLEAN
    BY <1>5, <2>1
  <2>3. tunnelHistory' \in BOOLEAN \X BOOLEAN \X BOOLEAN \X BOOLEAN
    BY <2>2 DEF tunnelHistory
  <2>4. url' \in quick \cup {NoChild}
    BY <1>1, <1>2 DEF TunnelTypeOK
  <2> QED
    BY <1>1, <1>2, <1>4, <1>6, <2>3, <2>4 DEF TunnelTypeOK
<1>8. ChildrenInv'
  <2>1. /\ Launching \in SUBSET Switchers /\ Starting \in SUBSET Switchers
        /\ Launching \in SUBSET Starting /\ Unborn \in SUBSET Children
    BY DEF Launching, Starting, Switching, Unborn
  <2>2. Cardinality(Launching') <= Cardinality(Unborn)
    <3>1. CASE row0.start
      <4>1. Launching' \in SUBSET (Starting \cup {r})
        BY <1>4, <2>1 DEF Launching, Starting, Switching
      <4>2. IsFiniteSet(Starting) /\ Cardinality(Unborn) \in Nat
        BY <2>1, FiniteParts
      <4>3. /\ IsFiniteSet(Starting \cup {r}) /\ Cardinality(Starting) \in Nat
            /\ Cardinality(Starting \cup {r}) <= Cardinality(Starting) + 1
        BY <4>2, Counts
      <4>4. /\ Cardinality(Launching') <= Cardinality(Starting \cup {r})
            /\ Cardinality(Starting \cup {r}) \in Nat /\ Cardinality(Launching') \in Nat
        BY <4>1, <4>3, Counts
      <4> QED
        BY <3>1, <4>2, <4>3, <4>4
    <3>2. CASE ~row0.start
      <4>1. Launching' \in SUBSET Launching
        BY <1>3, <1>4, <3>2 DEF Launching
      <4>2. IsFiniteSet(Launching)
        BY <2>1, FiniteParts
      <4>3. /\ Cardinality(Launching') <= Cardinality(Launching)
            /\ Cardinality(Launching) \in Nat /\ Cardinality(Launching') \in Nat
        BY <4>1, <4>2, Counts
      <4>4. Cardinality(Unborn) \in Nat
        BY <2>1, FiniteParts
      <4> QED
        BY <1>1, <4>3, <4>4 DEF ChildrenInv
    <3> QED
      BY <3>1, <3>2
  <2>3. \A s \in Switchers : switch'[s].at = "spawning" => switch'[s].start
    BY <1>1, <1>3, <1>4 DEF ChildrenInv
  <2> QED
    BY <1>1, <1>6, <2>2, <2>3 DEF ChildrenInv
<1>9. ~twoStarts' => OneStartInv'
  <2> SUFFICES ASSUME ~twoStarts' PROVE OneStartInv'
    OBVIOUS
  <2>1. ~twoStarts /\ (row0.start => Starting = {})
    BY <1>5
  <2>2. OneStartInv
    BY <2>1 DEF TunnelInv
  <2>3. Starting' \subseteq IF row0.start THEN {r} ELSE Starting
    BY <1>3, <1>4, <2>1 DEF Starting, Switching
  <2>4. \A s, t \in Starting' : s = t
    BY <2>2, <2>3 DEF OneStartInv
  <2>5. \A c \in Children : child'[c] # "running"
    BY <1>2, <2>2 DEF OneStartInv
  <2> QED
    BY <1>2, <2>4, <2>5 DEF OneStartInv
<1>10. ~twoStarts' /\ ~lateUrl' => UrlInv'
  <2> SUFFICES ASSUME ~twoStarts', ~lateUrl' PROVE UrlInv'
    OBVIOUS
  <2>1. ~twoStarts /\ ~lateUrl
    BY <1>5
  <2>2. UrlInv
    BY <2>1 DEF TunnelInv
  <2>3. ASSUME NEW s \in Switchers, switch'[s].at = "spawning" PROVE url' = NoChild
    <3>1. CASE s = r
      BY <1>3, <1>4, <2>3, <3>1
    <3>2. CASE s # r
      BY <1>2, <1>4, <2>2, <2>3, <3>2 DEF UrlInv
    <3> QED
      BY <3>1, <3>2
  <2> QED
    BY <1>2, <2>3 DEF UrlInv
<1>11. alone' => AloneInv'
  <2> SUFFICES ASSUME alone' PROVE AloneInv'
    OBVIOUS
  <2>1. Switching = {} /\ saver.at = "idle"
    BY <1>5
  <2>2. Switching' = {r}
    BY <1>3, <1>4, <2>1 DEF Switching
  <2>3. \A s \in Switchers : s # r => switch'[s].at = "idle"
    BY <1>4, <2>1 DEF Switching
  <2>4. \A s \in Switchers : /\ switch'[s].at \in {"stopping", "spawning"} => proc' = NoChild
                             /\ switch'[s].at \in {"read", "checked"} =>
                                  (proc' # NoChild <=> switch'[s].start)
    BY <1>2, <1>3, <1>4, <2>3
  <2> QED
    BY <1>3, <1>4, <2>1, <2>2, <2>4 DEF AloneInv
<1>12. ~unsettled' => SettledInv'
  <2>1. r \in Switching'
    BY <1>3, <1>4 DEF Switching
  <2> QED
    BY <1>5, <2>1 DEF SettledInv
<1> QED
  BY <1>7, <1>8, <1>9, <1>10, <1>11, <1>12 DEF TunnelInv

\* One lemma for each step from here.
LEMMA TunnelStartStep == ASSUME TunnelInv, NEW r \in Switchers, TunnelStart(r) PROVE TunnelInv'
<1>1. PICK m \in Modes : Stop(r, [NoSwitch EXCEPT !.start = TRUE, !.mode = m])
  BY DEF TunnelStart
<1> DEFINE row0 == [NoSwitch EXCEPT !.start = TRUE, !.mode = m]
<1>2. row0 \in SwitchRows /\ row0.start = TRUE /\ row0.stale = FALSE /\ Stop(r, row0)
  BY <1>1, FirstRows
<1> HIDE DEF row0
<1>3. /\ switch[r].at = "idle" /\ Meet(row0.start)
      /\ Cardinality(Starting) < Cardinality(Unborn)
      /\ UNCHANGED <<quick, scansDue, read, saver, config>>
  BY <1>2 DEF TunnelStart
<1> QED
  BY <1>2, <1>3, RequestBegins

LEMMA TunnelStopStep == ASSUME TunnelInv, NEW r \in Switchers, TunnelStop(r) PROVE TunnelInv'
<1>1. /\ switch[r].at = "idle" /\ Stop(r, NoSwitch) /\ Meet(NoSwitch.start)
      /\ UNCHANGED <<quick, scansDue, read, saver, config>>
  BY FirstRows DEF TunnelStop
<1> QED
  BY <1>1, FirstRows, RequestBegins

\* What does not touch the children keeps a child for each request on its way.
LEMMA RoomKept ==
    ASSUME ChildrenInv, Launching' \subseteq Launching, UNCHANGED <<child, quick, scansDue>>,
           \A s \in Switchers : switch'[s].at = "spawning" => switch'[s].start
    PROVE  ChildrenInv'
<1>1. Launching \in SUBSET Switchers /\ Unborn \in SUBSET Children
  BY DEF Launching, Unborn
<1>2. IsFiniteSet(Launching) /\ Cardinality(Unborn) \in Nat
  BY <1>1, FiniteParts
<1>3. /\ Cardinality(Launching') <= Cardinality(Launching)
      /\ Cardinality(Launching) \in Nat /\ Cardinality(Launching') \in Nat
  BY <1>2, Counts
<1>4. Unborn' = Unborn
  BY DEF Unborn
<1> QED
  BY <1>2, <1>3, <1>4 DEF ChildrenInv

LEMMA OldChildEndsStep == ASSUME TunnelInv, NEW r \in Switchers, OldChildEnds(r) PROVE TunnelInv'
<1>1. TunnelTypeOK /\ ChildrenInv
  BY DEF TunnelInv
<1>2. /\ switch[r].at = "stopping" /\ switch[r] \in SwitchRows /\ config \in Configs
      /\ UNCHANGED <<child, quick, proc, scansDue, read, saver, config>>
      /\ UNCHANGED <<twoStarts, alone, unsettled, lateUrl>>
  BY <1>1 DEF OldChildEnds, TunnelTypeOK, tunnelHistory
<1>3. \E entry \in SwitchRows :
        /\ switch' = [switch EXCEPT ![r] = entry]
        /\ entry.start = switch[r].start
        /\ entry.stale = FALSE \/ entry.stale = switch[r].stale
        /\ \/ entry.at = "spawning" /\ entry.start /\ url' = NoChild
           \/ entry.at = "read" /\ ~entry.start /\ url' = url
        /\ tunnelMode' \in Modes \cup {"none"}
  <2>1. CASE switch[r].start
    <3> DEFINE entry == [switch[r] EXCEPT !.at = "spawning"]
    <3>1. /\ entry \in SwitchRows /\ entry.at = "spawning" /\ entry.start = switch[r].start
          /\ entry.stale = switch[r].stale
      BY <1>2, RowFacts
    <3>2. /\ switch' = [switch EXCEPT ![r] = entry]
          /\ tunnelMode' = switch[r].mode /\ url' = NoChild
      BY <2>1 DEF OldChildEnds, AfterStop, Launch
    <3>3. switch[r].mode \in Modes
      BY <1>2, RowFacts
    <3> HIDE DEF entry
    <3> QED
      BY <2>1, <3>1, <3>2, <3>3
  <2>2. CASE ~switch[r].start
    <3>1. /\ Reading(switch[r]) \in SwitchRows /\ Reading(switch[r]).at = "read"
          /\ Reading(switch[r]).start = switch[r].start /\ Reading(switch[r]).stale = FALSE
      BY <1>2, RowFacts
    <3>2. /\ switch' = [switch EXCEPT ![r] = Reading(switch[r])]
          /\ tunnelMode' = "none" /\ UNCHANGED url
      BY <2>2 DEF OldChildEnds, AfterStop
    <3> QED
      BY <2>2, <3>1, <3>2
  <2> QED
    BY <2>1, <2>2
<1>4. PICK entry \in SwitchRows :
        /\ switch' = [switch EXCEPT ![r] = entry]
        /\ entry.start = switch[r].start
        /\ entry.stale = FALSE \/ entry.stale = switch[r].stale
        /\ \/ entry.at = "spawning" /\ entry.start /\ url' = NoChild
           \/ entry.at = "read" /\ ~entry.start /\ url' = url
        /\ tunnelMode' \in Modes \cup {"none"}
  BY <1>3
<1>5. /\ switch' \in [Switchers -> SwitchRows] /\ switch'[r] = entry
      /\ \A s \in Switchers : s # r => switch'[s] = switch[s]
  BY <1>1, <1>4, OneSwitchMoves
<1>6. /\ Starting' = Starting /\ Switching' = Switching /\ Launching' = Launching
      /\ Unborn' = Unborn
  BY <1>2, <1>4, <1>5 DEF Starting, Switching, Launching, Unborn
<1>7. TunnelTypeOK'
  <2>1. url' \in quick \cup {NoChild}
    BY <1>1, <1>4 DEF TunnelTypeOK
  <2> QED
    BY <1>1, <1>2, <1>4, <1>5, <1>6, <2>1 DEF TunnelTypeOK, tunnelHistory
<1>8. ChildrenInv'
  <2>1. \A s \in Switchers : switch'[s].at = "spawning" => switch'[s].start
    BY <1>1, <1>4, <1>5 DEF ChildrenInv
  <2> QED
    BY <1>1, <1>2, <1>6, <2>1, RoomKept
<1>9. ~twoStarts' => OneStartInv'
  BY <1>2, <1>6 DEF TunnelInv, OneStartInv
<1>10. ~twoStarts' /\ ~lateUrl' => UrlInv'
  <2> SUFFICES ASSUME ~twoStarts', ~lateUrl' PROVE UrlInv'
    OBVIOUS
  <2>1. UrlInv
    BY <1>2 DEF TunnelInv
  <2>2. url' = NoChild \/ url' = url
    BY <1>4
  <2>3. ASSUME NEW s \in Switchers, switch'[s].at = "spawning" PROVE url' = NoChild
    BY <1>4, <1>5, <2>1, <2>2, <2>3 DEF UrlInv
  <2> QED
    BY <1>2, <2>1, <2>2, <2>3 DEF UrlInv
<1>11. alone' => AloneInv'
  <2> SUFFICES ASSUME alone' PROVE AloneInv'
    OBVIOUS
  <2>1. AloneInv
    BY <1>2 DEF TunnelInv
  <2>2. proc = NoChild /\ r \in Switching
    BY <1>2, <2>1 DEF AloneInv, Switching
  <2>3. \A s \in Switching : ~switch'[s].stale
    BY <1>4, <1>5, <2>1, <2>2 DEF AloneInv
  <2>4. \A s \in Switchers : /\ switch'[s].at \in {"stopping", "spawning"} => proc' = NoChild
                             /\ switch'[s].at \in {"read", "checked"} =>
                                  (proc' # NoChild <=> switch'[s].start)
    BY <1>2, <1>4, <1>5, <2>1, <2>2 DEF AloneInv
  <2> QED
    BY <1>2, <1>6, <2>1, <2>2, <2>3, <2>4 DEF AloneInv
<1>12. ~unsettled' => SettledInv'
  <2>1. r \in Switching /\ Switching' = Switching /\ alone' = alone
    BY <1>2, <1>6 DEF Switching
  <2> QED
    BY <1>2, <2>1 DEF TunnelInv, SettledInv
<1> QED
  BY <1>7, <1>8, <1>9, <1>10, <1>11, <1>12 DEF TunnelInv

LEMMA SpawnedStep == ASSUME TunnelInv, NEW r \in Switchers, Spawned(r) PROVE TunnelInv'
<1>1. TunnelTypeOK /\ ChildrenInv
  BY DEF TunnelInv
<1>2. /\ switch[r].at = "spawning" /\ switch[r] \in SwitchRows /\ config \in Configs
      /\ UNCHANGED <<tunnelMode, url, read, saver, config>>
      /\ UNCHANGED <<twoStarts, alone, unsettled, lateUrl>>
  BY <1>1 DEF Spawned, TunnelTypeOK, tunnelHistory
<1>3. switch[r].start /\ r \in Launching /\ r \in Starting /\ r \in Switching
  BY <1>1, <1>2 DEF ChildrenInv, Launching, Starting, Switching
<1>4. /\ IsFiniteSet(Launching) /\ Cardinality(Launching) \in Nat /\ Cardinality(Launching) >= 1
      /\ IsFiniteSet(Unborn) /\ Cardinality(Unborn) \in Nat /\ Cardinality(Unborn) >= 1
      /\ IsFiniteSet(quick) /\ Cardinality(quick) \in Nat
  <2>1. Launching \in SUBSET Switchers /\ Unborn \in SUBSET Children /\ quick \in SUBSET Children
    BY <1>1 DEF Launching, Unborn, TunnelTypeOK
  <2>2. /\ IsFiniteSet(Launching) /\ Cardinality(Launching) \in Nat
        /\ IsFiniteSet(Unborn) /\ Cardinality(Unborn) \in Nat
        /\ IsFiniteSet(quick) /\ Cardinality(quick) \in Nat
    BY <2>1, FiniteParts
  <2>3. Cardinality(Launching) >= 1
    BY <1>3, <2>2, Counts
  <2> QED
    BY <1>1, <2>2, <2>3 DEF ChildrenInv
<1>5. Unborn # {}
  <2>1. Cardinality({}) = 0
    BY FS_EmptySet
  <2> QED
    BY <1>4, <2>1
<1> DEFINE c == NextChild
           isQuick == switch[r].mode = "quick"
<1>6. c \in Unborn /\ c \in Children /\ c # NoChild
  BY <1>5, NextChildIsUnborn, NoSuchChild DEF Unborn
<1>7. /\ child' = [child EXCEPT ![c] = "running"] /\ proc' = c
      /\ quick' = IF isQuick THEN quick \cup {c} ELSE quick
      /\ scansDue' = IF isQuick THEN scansDue + 1 ELSE scansDue
      /\ switch' = [switch EXCEPT ![r] = Reading(switch[r])]
  BY DEF Spawned, NextChild
<1> DEFINE entry == Reading(switch[r])
<1>8. entry \in SwitchRows /\ entry.at = "read" /\ entry.start = switch[r].start /\ entry.stale = FALSE
  BY <1>2, RowFacts
<1>9. /\ switch' \in [Switchers -> SwitchRows] /\ switch'[r] = entry
      /\ \A s \in Switchers : s # r => switch'[s] = switch[s]
  BY <1>1, <1>7, <1>8, OneSwitchMoves
<1> HIDE DEF entry, c
<1>10. /\ child' \in [Children -> {"none", "running", "ending", "gone"}]
       /\ child'[c] = "running"
       /\ \A d \in Children : d # c => child'[d] = child[d]
  BY <1>1, <1>6, <1>7 DEF TunnelTypeOK
<1>11. Unborn' = Unborn \ {c}
  BY <1>6, <1>10 DEF Unborn
<1>12. /\ Launching' = Launching \ {r} /\ Starting' = Starting /\ Switching' = Switching
  BY <1>2, <1>3, <1>8, <1>9 DEF Launching, Starting, Switching
<1>13. ~(c \in quick)
  BY <1>1, <1>6 DEF TunnelTypeOK
<1>14. ChildrenInv'
  <2>1. Cardinality(Launching \ {r}) = Cardinality(Launching) - 1
    BY <1>3, <1>4, Counts
  <2>2. Cardinality(Unborn \ {c}) = Cardinality(Unborn) - 1
    BY <1>4, <1>6, Counts
  <2>3. Cardinality(quick \cup {c}) = Cardinality(quick) + 1
    BY <1>4, <1>13, Counts
  <2>4. Cardinality(Launching') <= Cardinality(Unborn')
    BY <1>1, <1>4, <1>11, <1>12, <2>1, <2>2 DEF ChildrenInv
  <2>5. scansDue' <= Cardinality(quick')
    BY <1>1, <1>4, <1>7, <2>3 DEF ChildrenInv, TunnelTypeOK
  <2>6. \A s \in Switchers : switch'[s].at = "spawning" => switch'[s].start
    BY <1>1, <1>8, <1>9 DEF ChildrenInv
  <2> QED
    BY <2>4, <2>5, <2>6 DEF ChildrenInv
<1>15. TunnelTypeOK'
  <2>1. quick' \subseteq Children \ Unborn' /\ read' \subseteq quick'
        /\ url' \in quick' \cup {NoChild}
    BY <1>1, <1>2, <1>6, <1>7, <1>11 DEF TunnelTypeOK
  <2>2. Cardinality(quick') <= MaxChildren
    <3>1. IsFiniteSet(Children) /\ Cardinality(Children) = MaxChildren
      <4>1. MaxChildren \in Nat /\ 1 \in Int
        BY TunnelAssumption
      <4>2. IsFiniteSet(1..MaxChildren) /\
            Cardinality(1..MaxChildren) = IF 1 > MaxChildren THEN 0 ELSE MaxChildren - 1 + 1
        BY <4>1, FS_Interval
      <4> QED
        BY <4>1, <4>2 DEF Children
    <3>2. quick' \in SUBSET Children
      BY <2>1
    <3> QED
      BY <3>1, <3>2, Counts
  <2>3. scansDue' \in 0..MaxChildren
    <3>1. quick' \in SUBSET Children
      BY <2>1
    <3>2. Cardinality(quick') \in Nat /\ MaxChildren \in Nat
      BY <3>1, FiniteParts, TunnelAssumption
    <3>3. scansDue' \in Nat
      BY <1>1, <1>7 DEF TunnelTypeOK
    <3>4. scansDue' <= Cardinality(quick')
      BY <1>14 DEF ChildrenInv
    <3> QED
      BY <2>2, <3>2, <3>3, <3>4
  <2>4. proc' \in Children
    BY <1>6, <1>7
  <2> QED
    BY <1>1, <1>2, <1>9, <1>10, <2>1, <2>3, <2>4 DEF TunnelTypeOK, tunnelHistory
<1>16. ~twoStarts' => OneStartInv'
  <2> SUFFICES ASSUME ~twoStarts' PROVE OneStartInv'
    OBVIOUS
  <2>1. OneStartInv
    BY <1>2 DEF TunnelInv
  <2>2. Launching \subseteq Starting
    BY DEF Launching, Starting, Switching
  <2>3. Launching' = {}
    BY <1>3, <1>12, <2>1, <2>2 DEF OneStartInv
  <2>4. proc = NoChild
    BY <1>3, <2>1 DEF OneStartInv
  <2>5. \A d \in Children : child'[d] = "running" => d = proc'
    BY <1>7, <1>10, <2>1, <2>4, NoSuchChild DEF OneStartInv
  <2> QED
    BY <1>12, <2>1, <2>3, <2>5 DEF OneStartInv
<1>17. ~twoStarts' /\ ~lateUrl' => UrlInv'
  <2> SUFFICES ASSUME ~twoStarts', ~lateUrl' PROVE UrlInv'
    OBVIOUS
  <2>1. UrlInv
    BY <1>2 DEF TunnelInv
  <2>2. url' = NoChild
    BY <1>2, <2>1 DEF UrlInv
  <2> QED
    BY <2>2 DEF UrlInv
<1>18. alone' => AloneInv'
  <2> SUFFICES ASSUME alone' PROVE AloneInv'
    OBVIOUS
  <2>1. AloneInv
    BY <1>2 DEF TunnelInv
  <2>2. \A s \in Switchers : s # r => switch'[s].at = "idle"
    BY <1>3, <1>9, <2>1 DEF AloneInv, Switching
  <2>3. \A s \in Switching : ~switch'[s].stale
    BY <1>3, <1>8, <1>9, <2>1 DEF AloneInv
  <2>4. \A s \in Switchers : /\ switch'[s].at \in {"stopping", "spawning"} => proc' = NoChild
                             /\ switch'[s].at \in {"read", "checked"} =>
                                  (proc' # NoChild <=> switch'[s].start)
    BY <1>3, <1>6, <1>7, <1>8, <1>9, <2>2
  <2> QED
    BY <1>2, <1>3, <1>12, <2>1, <2>3, <2>4 DEF AloneInv
<1>19. ~unsettled' => SettledInv'
  <2>1. r \in Switching /\ Switching' = Switching /\ alone' = alone
    BY <1>2, <1>3, <1>12
  <2> QED
    BY <1>2, <2>1 DEF TunnelInv, SettledInv
<1> QED
  BY <1>14, <1>15, <1>16, <1>17, <1>18, <1>19 DEF TunnelInv

LEMMA SpawnFailsStep == ASSUME TunnelInv, NEW r \in Switchers, SpawnFails(r) PROVE TunnelInv'
<1>1. TunnelTypeOK /\ ChildrenInv
  BY DEF TunnelInv
<1>2. /\ switch[r].at = "spawning" /\ switch' = [switch EXCEPT ![r] = NoSwitch]
      /\ alone' = FALSE /\ unsettled' = TRUE
      /\ UNCHANGED <<child, quick, proc, tunnelMode, url, scansDue, read, saver, config,
                     twoStarts, lateUrl>>
  BY DEF SpawnFails
<1>3. /\ switch' \in [Switchers -> SwitchRows] /\ switch'[r] = NoSwitch
      /\ \A s \in Switchers : s # r => switch'[s] = switch[s]
  BY <1>1, <1>2, FirstRows, OneSwitchMoves
<1>4. /\ Launching' \subseteq Launching /\ Starting' \subseteq Starting /\ Unborn' = Unborn
      /\ \A s \in Switchers : switch'[s].at = "spawning" => switch[s].at = "spawning"
  BY <1>2, <1>3, FirstRows DEF Launching, Starting, Switching, Unborn
<1>5. TunnelTypeOK'
  <2>1. tunnelHistory' \in BOOLEAN \X BOOLEAN \X BOOLEAN \X BOOLEAN
    BY <1>1, <1>2 DEF TunnelTypeOK, tunnelHistory
  <2> QED
    BY <1>1, <1>2, <1>3, <1>4, <2>1 DEF TunnelTypeOK
<1>6. ChildrenInv'
  <2>1. \A s \in Switchers : switch'[s].at = "spawning" => switch'[s].start
    BY <1>1, <1>3, FirstRows DEF ChildrenInv
  <2> QED
    BY <1>1, <1>2, <1>4, <2>1, RoomKept
<1>7. ~twoStarts' => OneStartInv'
  BY <1>2, <1>4 DEF TunnelInv, OneStartInv
<1>8. ~twoStarts' /\ ~lateUrl' => UrlInv'
  BY <1>2, <1>4 DEF TunnelInv, UrlInv
<1> QED
  BY <1>2, <1>5, <1>6, <1>7, <1>8 DEF TunnelInv

LEMMA CheckSwitchStep == ASSUME TunnelInv, NEW r \in Switchers, CheckSwitch(r) PROVE TunnelInv'
<1>1. TunnelTypeOK /\ ChildrenInv
  BY DEF TunnelInv
<1>2. /\ switch[r].at = "read" /\ switch[r] \in SwitchRows
      /\ UNCHANGED <<child, quick, proc, tunnelMode, url, scansDue, read, saver, config>>
      /\ UNCHANGED <<twoStarts, alone, unsettled, lateUrl>>
  BY <1>1 DEF CheckSwitch, TunnelTypeOK, tunnelHistory
<1> DEFINE entry == IF switch[r].stale THEN NoSwitch ELSE [switch[r] EXCEPT !.at = "checked"]
<1>3. switch' = [switch EXCEPT ![r] = entry]
  BY DEF CheckSwitch
<1>4. /\ entry \in SwitchRows
      /\ switch[r].stale => entry = NoSwitch
      /\ ~switch[r].stale => entry.at = "checked" /\ entry.start = switch[r].start
                             /\ entry.stale = switch[r].stale
  <2>1. CASE switch[r].stale
    <3>1. entry = NoSwitch
      BY <2>1
    <3> QED
      BY <2>1, <3>1, FirstRows
  <2>2. CASE ~switch[r].stale
    <3> DEFINE checked == [switch[r] EXCEPT !.at = "checked"]
    <3>1. /\ checked \in SwitchRows /\ checked.at = "checked"
          /\ checked.start = switch[r].start /\ checked.stale = switch[r].stale
      BY <1>2, RowFacts
    <3>2. entry = checked
      BY <2>2
    <3> HIDE DEF entry, checked
    <3> QED
      BY <2>2, <3>1, <3>2
  <2> QED
    BY <2>1, <2>2
<1> HIDE DEF entry
<1>5. /\ switch' \in [Switchers -> SwitchRows] /\ switch'[r] = entry
      /\ \A s \in Switchers : s # r => switch'[s] = switch[s]
  BY <1>1, <1>3, <1>4, OneSwitchMoves
<1>6. entry.at # "spawning" /\ entry.at # "stopping" /\ (entry.at # "idle" => ~switch[r].stale)
  BY <1>4, FirstRows
<1>7. /\ Launching' \subseteq Launching /\ Starting' \subseteq Starting /\ Unborn' = Unborn
      /\ \A s \in Switchers : switch'[s].at = "spawning" => switch[s].at = "spawning"
  BY <1>2, <1>4, <1>5, <1>6, FirstRows DEF Launching, Starting, Switching, Unborn
<1>8. TunnelTypeOK'
  BY <1>1, <1>2, <1>5, <1>7 DEF TunnelTypeOK, tunnelHistory
<1>9. ChildrenInv'
  <2>1. \A s \in Switchers : switch'[s].at = "spawning" => switch'[s].start
    BY <1>1, <1>5, <1>6 DEF ChildrenInv
  <2> QED
    BY <1>1, <1>2, <1>7, <2>1, RoomKept
<1>10. ~twoStarts' => OneStartInv'
  BY <1>2, <1>7 DEF TunnelInv, OneStartInv
<1>11. ~twoStarts' /\ ~lateUrl' => UrlInv'
  BY <1>2, <1>7 DEF TunnelInv, UrlInv
<1>12. alone' => AloneInv'
  <2> SUFFICES ASSUME alone' PROVE AloneInv'
    OBVIOUS
  <2>1. AloneInv
    BY <1>2 DEF TunnelInv
  <2>2. r \in Switching
    BY <1>2 DEF Switching
  <2>3. ~switch[r].stale
    BY <2>1, <2>2 DEF AloneInv
  <2>4. entry.at = "checked" /\ entry.start = switch[r].start /\ ~entry.stale
    BY <1>4, <2>3
  <2>5. Switching' = Switching
    BY <1>5, <2>2, <2>4 DEF Switching
  <2>6. ASSUME NEW s \in Switching PROVE ~switch'[s].stale
    <3>1. CASE s = r
      BY <1>5, <2>4, <3>1
    <3>2. CASE s # r
      <4>1. switch'[s] = switch[s]
        BY <1>5, <3>2 DEF Switching
      <4>2. ~switch[s].stale
        BY <2>1 DEF AloneInv
      <4> QED
        BY <4>1, <4>2
    <3> QED
      BY <3>1, <3>2
  <2>7. \A s \in Switchers : /\ switch'[s].at \in {"stopping", "spawning"} => proc' = NoChild
                             /\ switch'[s].at \in {"read", "checked"} =>
                                  (proc' # NoChild <=> switch'[s].start)
    BY <1>2, <1>5, <2>1, <2>4 DEF AloneInv
  <2> QED
    BY <1>2, <2>1, <2>2, <2>5, <2>6, <2>7 DEF AloneInv
<1>13. ~unsettled' => SettledInv'
  <2> SUFFICES ASSUME ~unsettled' PROVE SettledInv'
    OBVIOUS
  <2>1. r \in Switching /\ SettledInv
    BY <1>2 DEF TunnelInv, Switching
  <2>2. alone /\ AloneInv
    BY <2>1 DEF SettledInv, TunnelInv
  <2>3. ~switch[r].stale
    BY <2>1, <2>2 DEF AloneInv
  <2>4. r \in Switching'
    BY <1>4, <1>5, <2>3 DEF Switching
  <2> QED
    BY <1>2, <2>2, <2>4 DEF SettledInv
<1> QED
  BY <1>8, <1>9, <1>10, <1>11, <1>12, <1>13 DEF TunnelInv

LEMMA WriteSwitchStep == ASSUME TunnelInv, NEW r \in Switchers, WriteSwitch(r) PROVE TunnelInv'
<1>1. TunnelTypeOK /\ ChildrenInv
  BY DEF TunnelInv
<1>2. /\ switch[r].at = "checked" /\ switch[r] \in SwitchRows
      /\ switch' = [switch EXCEPT ![r] = NoSwitch]
      /\ config' = Switched(switch[r])
      /\ saver' = [saver EXCEPT !.stale = (saver.at = "read")]
      /\ UNCHANGED <<child, quick, proc, tunnelMode, url, scansDue, read>>
      /\ alone' = FALSE /\ unsettled' = (unsettled /\ ~alone)
      /\ UNCHANGED <<twoStarts, lateUrl>> /\ alone \in BOOLEAN /\ unsettled \in BOOLEAN
  BY <1>1 DEF WriteSwitch, TunnelTypeOK, tunnelHistory
<1>3. /\ switch' \in [Switchers -> SwitchRows] /\ switch'[r] = NoSwitch
      /\ \A s \in Switchers : s # r => switch'[s] = switch[s]
  BY <1>1, <1>2, FirstRows, OneSwitchMoves
<1>4. /\ Launching' \subseteq Launching /\ Starting' \subseteq Starting /\ Unborn' = Unborn
      /\ \A s \in Switchers : switch'[s].at = "spawning" => switch[s].at = "spawning"
  BY <1>2, <1>3, FirstRows DEF Launching, Starting, Switching, Unborn
<1>5. config' \in Configs /\ (config'.enabled <=> switch[r].start)
  <2>1. switch[r].seen \in Configs /\ switch[r].mode \in Modes /\ switch[r].start \in BOOLEAN
    BY <1>2, RowFacts
  <2> QED
    BY <1>2, <2>1 DEF Switched, Configs
<1>6. saver' \in SaverRows /\ saver'.at = saver.at
  BY <1>1, <1>2 DEF TunnelTypeOK, SaverRows
<1>7. TunnelTypeOK'
  BY <1>1, <1>2, <1>3, <1>4, <1>5, <1>6 DEF TunnelTypeOK, tunnelHistory
<1>8. ChildrenInv'
  <2>1. \A s \in Switchers : switch'[s].at = "spawning" => switch'[s].start
    BY <1>1, <1>3, FirstRows DEF ChildrenInv
  <2> QED
    BY <1>1, <1>2, <1>4, <2>1, RoomKept
<1>9. ~twoStarts' => OneStartInv'
  BY <1>2, <1>4 DEF TunnelInv, OneStartInv
<1>10. ~twoStarts' /\ ~lateUrl' => UrlInv'
  BY <1>2, <1>4 DEF TunnelInv, UrlInv
<1>11. ~unsettled' => SettledInv'
  <2> SUFFICES ASSUME ~unsettled' PROVE SettledInv'
    OBVIOUS
  <2>1. r \in Switching /\ (~unsettled => SettledInv)
    BY <1>2 DEF TunnelInv, Switching
  <2>2. alone /\ AloneInv
    BY <1>2, <2>1 DEF SettledInv, TunnelInv
  <2>3. ASSUME NEW s \in Switchers PROVE switch'[s].at = "idle"
    <3>1. CASE s = r
      BY <1>3, <3>1, FirstRows
    <3>2. CASE s # r
      <4>1. s \notin Switching
        BY <2>1, <2>2, <3>2 DEF AloneInv
      <4> QED
        BY <1>3, <3>2, <4>1 DEF Switching
    <3> QED
      BY <3>1, <3>2
  <2>4. Switching' = {}
    BY <2>3 DEF Switching
  <2>5. proc' # NoChild <=> config'.enabled
    BY <1>2, <1>5, <2>2 DEF AloneInv
  <2> QED
    BY <2>4, <2>5 DEF SettledInv
<1> QED
  BY <1>2, <1>7, <1>8, <1>9, <1>10, <1>11 DEF TunnelInv

-----------------------------------------------------------------------------
(* Tunnel: the requests that save the settings.                            *)

\* What moves no request and no child keeps what is said of them.
LEMMA OnlySaver ==
    ASSUME TunnelInv,
           UNCHANGED <<child, quick, proc, tunnelMode, url, scansDue, read, switch,
                       twoStarts, lateUrl>>,
           saver' \in SaverRows, config' \in Configs,
           alone' \in BOOLEAN, unsettled' \in BOOLEAN,
           alone' => AloneInv', ~unsettled' => SettledInv'
    PROVE  TunnelInv'
<1>1. TunnelTypeOK /\ ChildrenInv
  BY DEF TunnelInv
<1>2. /\ Launching' = Launching /\ Starting' = Starting /\ Unborn' = Unborn
  BY DEF Launching, Starting, Switching, Unborn
<1>3. TunnelTypeOK'
  <2>1. tunnelHistory' \in BOOLEAN \X BOOLEAN \X BOOLEAN \X BOOLEAN
    BY <1>1 DEF TunnelTypeOK, tunnelHistory
  <2> QED
    BY <1>1, <1>2, <2>1 DEF TunnelTypeOK
<1>4. ChildrenInv'
  BY <1>1, <1>2 DEF ChildrenInv
<1>5. ~twoStarts' => OneStartInv'
  BY <1>2 DEF TunnelInv, OneStartInv
<1>6. ~twoStarts' /\ ~lateUrl' => UrlInv'
  BY DEF TunnelInv, UrlInv
<1> QED
  BY <1>3, <1>4, <1>5, <1>6 DEF TunnelInv

LEMMA SaveReadsStep == ASSUME TunnelInv, SaveReads PROVE TunnelInv'
<1>1. TunnelTypeOK
  BY DEF TunnelInv
<1>2. PICK keeps \in {config.token, FALSE} :
        saver' = [at |-> "read", keeps |-> keeps, stale |-> FALSE]
  BY DEF SaveReads
<1>3. /\ alone' = FALSE /\ unsettled' = (unsettled \/ Switching # {}) /\ unsettled \in BOOLEAN
      /\ UNCHANGED <<child, quick, proc, tunnelMode, url, scansDue, read, switch, config,
                     twoStarts, lateUrl>>
      /\ config \in Configs
  BY <1>1 DEF SaveReads, TunnelTypeOK, tunnelHistory
<1>4. saver' \in SaverRows
  BY <1>2, <1>3 DEF SaverRows, Configs
<1>5. ~unsettled' => SettledInv'
  <2> SUFFICES ASSUME ~unsettled' PROVE SettledInv'
    OBVIOUS
  <2>1. ~unsettled /\ Switching = {} /\ Switching' = Switching
    BY <1>3 DEF Switching
  <2> QED
    BY <1>3, <2>1 DEF TunnelInv, SettledInv
<1> QED
  BY <1>3, <1>4, <1>5, OnlySaver

LEMMA SaveChecksStep == ASSUME TunnelInv, SaveChecks PROVE TunnelInv'
<1>1. TunnelTypeOK
  BY DEF TunnelInv
<1>2. /\ saver.at = "read" /\ saver \in SaverRows /\ config \in Configs
      /\ alone \in BOOLEAN /\ unsettled \in BOOLEAN
      /\ saver' = IF saver.stale THEN NotSaving ELSE [saver EXCEPT !.at = "checked"]
      /\ UNCHANGED <<child, quick, proc, tunnelMode, url, scansDue, read, switch, config,
                     twoStarts, alone, unsettled, lateUrl>>
  BY <1>1 DEF SaveChecks, TunnelTypeOK, tunnelHistory
<1>3. saver' \in SaverRows
  BY <1>2, FirstRows DEF SaverRows
<1>4. ~alone'
  BY <1>2 DEF TunnelInv, AloneInv
<1>5. ~unsettled' => SettledInv'
  BY <1>2 DEF TunnelInv, SettledInv, Switching
<1> QED
  BY <1>2, <1>3, <1>4, <1>5, OnlySaver

LEMMA SaveWritesStep == ASSUME TunnelInv, SaveWrites PROVE TunnelInv'
<1>1. TunnelTypeOK /\ ChildrenInv
  BY DEF TunnelInv
<1>2. /\ saver.at = "checked" /\ saver' = NotSaving /\ config' \in Configs
      /\ switch' = [r \in Switchers |-> [switch[r] EXCEPT !.stale = (switch[r].at = "read")]]
      /\ unsettled' = (unsettled \/ config'.enabled # config.enabled)
      /\ UNCHANGED <<child, quick, proc, tunnelMode, url, scansDue, read>>
      /\ UNCHANGED <<twoStarts, alone, lateUrl>>
  BY DEF SaveWrites
<1>3. /\ twoStarts \in BOOLEAN /\ alone \in BOOLEAN
      /\ unsettled \in BOOLEAN /\ lateUrl \in BOOLEAN
  BY <1>1 DEF TunnelTypeOK, tunnelHistory
<1>4. ASSUME NEW r \in Switchers
      PROVE  /\ switch'[r] \in SwitchRows /\ switch'[r].at = switch[r].at
             /\ switch'[r].start = switch[r].start
  BY <1>1, <1>2 DEF TunnelTypeOK, SwitchRows
<1>5. switch' \in [Switchers -> SwitchRows]
  <2>1. switch' = [r \in Switchers |-> switch'[r]]
    BY <1>2
  <2> QED
    BY <1>4, <2>1
<1>6. /\ Launching' = Launching /\ Starting' = Starting /\ Switching' = Switching
      /\ Unborn' = Unborn
  BY <1>2, <1>4 DEF Launching, Starting, Switching, Unborn
<1>7. TunnelTypeOK'
  <2>1. tunnelHistory' \in BOOLEAN \X BOOLEAN \X BOOLEAN \X BOOLEAN
    BY <1>2, <1>3 DEF tunnelHistory
  <2> QED
    BY <1>1, <1>2, <1>5, <1>6, <2>1, FirstRows DEF TunnelTypeOK
<1>8. ChildrenInv'
  <2>1. \A s \in Switchers : switch'[s].at = "spawning" => switch'[s].start
    BY <1>1, <1>4 DEF ChildrenInv
  <2> QED
    BY <1>1, <1>2, <1>6, <2>1, RoomKept
<1>9. ~twoStarts' => OneStartInv'
  BY <1>2, <1>6 DEF TunnelInv, OneStartInv
<1>10. ~twoStarts' /\ ~lateUrl' => UrlInv'
  BY <1>2, <1>4 DEF TunnelInv, UrlInv
<1>11. ~alone'
  BY <1>2 DEF TunnelInv, AloneInv
<1>12. ~unsettled' => SettledInv'
  <2> SUFFICES ASSUME ~unsettled' PROVE SettledInv'
    OBVIOUS
  <2>1. SettledInv /\ config'.enabled = config.enabled
    BY <1>2 DEF TunnelInv
  <2> QED
    BY <1>2, <1>6, <2>1 DEF SettledInv
<1> QED
  BY <1>7, <1>8, <1>9, <1>10, <1>11, <1>12 DEF TunnelInv

-----------------------------------------------------------------------------
(* Tunnel: the children and what they print.                               *)

\* What moves no request and writes no settings keeps what is said of them.
LEMMA OnlyChildren ==
    ASSUME TunnelInv, UNCHANGED <<quick, proc, tunnelMode, switch, saver, config>>,
           UNCHANGED <<twoStarts, alone, unsettled>>,
           child' \in [Children -> {"none", "running", "ending", "gone"}],
           \A c \in Children : /\ child'[c] = "none" <=> child[c] = "none"
                               /\ child'[c] = "running" => child[c] = "running",
           scansDue' \in 0..scansDue, read' \subseteq quick, url' \in quick \cup {NoChild},
           lateUrl' \in BOOLEAN, ~twoStarts' /\ ~lateUrl' => UrlInv'
    PROVE  TunnelInv'
<1>1. TunnelTypeOK /\ ChildrenInv
  BY DEF TunnelInv
<1>2. /\ Launching' = Launching /\ Starting' = Starting /\ Switching' = Switching
      /\ Unborn' = Unborn
  BY DEF Launching, Starting, Switching, Unborn
<1>3. scansDue \in 0..MaxChildren /\ MaxChildren \in Nat
  BY <1>1, TunnelAssumption DEF TunnelTypeOK
<1>4. scansDue' \in 0..MaxChildren /\ scansDue' <= scansDue
  BY <1>3
<1>5. TunnelTypeOK'
  <2>1. tunnelHistory' \in BOOLEAN \X BOOLEAN \X BOOLEAN \X BOOLEAN
    BY <1>1 DEF TunnelTypeOK, tunnelHistory
  <2> QED
    BY <1>1, <1>2, <1>4, <2>1 DEF TunnelTypeOK
<1>6. ChildrenInv'
  <2>1. quick \in SUBSET Children
    BY <1>1 DEF TunnelTypeOK
  <2>2. Cardinality(quick) \in Nat
    BY <2>1, FiniteParts
  <2> QED
    BY <1>1, <1>2, <1>3, <1>4, <2>2 DEF ChildrenInv
<1>7. ~twoStarts' => OneStartInv'
  BY <1>2 DEF TunnelInv, OneStartInv
<1>8. (alone' => AloneInv') /\ (~unsettled' => SettledInv')
  BY <1>2 DEF TunnelInv, AloneInv, SettledInv
<1> QED
  BY <1>5, <1>6, <1>7, <1>8 DEF TunnelInv

LEMMA ScanBeginsStep == ASSUME TunnelInv, ScanBegins PROVE TunnelInv'
<1>1. TunnelTypeOK
  BY DEF TunnelInv
<1>2. /\ scansDue > 0 /\ scansDue' = scansDue - 1
      /\ read' = IF Captured(proc) THEN read \cup {proc} ELSE read
      /\ UNCHANGED <<child, quick, proc, tunnelMode, url, switch, saver, config>>
      /\ UNCHANGED <<twoStarts, alone, unsettled, lateUrl>>
  BY DEF ScanBegins, tunnelHistory
<1>3. scansDue' \in 0..scansDue
  BY <1>1, <1>2, TunnelAssumption DEF TunnelTypeOK
<1>4. read' \subseteq quick /\ url' \in quick \cup {NoChild}
  BY <1>1, <1>2 DEF TunnelTypeOK, Captured
<1>5. ~twoStarts' /\ ~lateUrl' => UrlInv'
  BY <1>2 DEF TunnelInv, UrlInv
<1> QED
  BY <1>1, <1>2, <1>3, <1>4, <1>5, OnlyChildren DEF TunnelTypeOK, tunnelHistory

LEMMA ScanFindsUrlStep == ASSUME TunnelInv, NEW c \in Children, ScanFindsUrl(c) PROVE TunnelInv'
<1>1. TunnelTypeOK /\ ChildrenInv
  BY DEF TunnelInv
<1>2. /\ c \in read /\ url' = c /\ lateUrl' = (lateUrl \/ c # proc)
      /\ UNCHANGED <<child, quick, proc, tunnelMode, scansDue, read, switch, saver, config>>
      /\ UNCHANGED <<twoStarts, alone, unsettled>>
      /\ lateUrl \in BOOLEAN
  BY <1>1 DEF ScanFindsUrl, TunnelTypeOK, tunnelHistory
<1>3. /\ read' \subseteq quick /\ url' \in quick \cup {NoChild} /\ lateUrl' \in BOOLEAN
      /\ scansDue' \in 0..scansDue
  BY <1>1, <1>2, TunnelAssumption DEF TunnelTypeOK
<1>4. ~twoStarts' /\ ~lateUrl' => UrlInv'
  <2> SUFFICES ASSUME ~twoStarts', ~lateUrl' PROVE UrlInv'
    OBVIOUS
  <2>1. OneStartInv
    BY <1>2 DEF TunnelInv
  <2>2. c = proc
    BY <1>2
  <2>3. Launching = {}
    BY <2>1, <2>2, NoSuchChild DEF OneStartInv
  <2>4. \A r \in Switchers : switch[r].at # "spawning"
    BY <1>1, <2>3 DEF ChildrenInv, Launching
  <2> QED
    BY <1>2, <2>2, <2>4 DEF UrlInv
<1> QED
  BY <1>1, <1>2, <1>3, <1>4, OnlyChildren DEF TunnelTypeOK

LEMMA ScanEndsStep == ASSUME TunnelInv, NEW c \in Children, ScanEnds(c) PROVE TunnelInv'
<1>1. TunnelTypeOK
  BY DEF TunnelInv
<1>2. /\ read' = read \ {c}
      /\ UNCHANGED <<child, quick, proc, tunnelMode, url, scansDue, switch, saver, config>>
      /\ UNCHANGED <<twoStarts, alone, unsettled, lateUrl>>
  BY DEF ScanEnds, tunnelHistory
<1>3. /\ read' \subseteq quick /\ url' \in quick \cup {NoChild} /\ lateUrl' \in BOOLEAN
      /\ scansDue' \in 0..scansDue
  BY <1>1, <1>2, TunnelAssumption DEF TunnelTypeOK, tunnelHistory
<1>4. ~twoStarts' /\ ~lateUrl' => UrlInv'
  BY <1>2 DEF TunnelInv, UrlInv
<1> QED
  BY <1>1, <1>2, <1>3, <1>4, OnlyChildren DEF TunnelTypeOK

LEMMA ChildExitsStep == ASSUME TunnelInv, NEW c \in Children, ChildExits(c) PROVE TunnelInv'
<1>1. TunnelTypeOK
  BY DEF TunnelInv
<1>2. /\ child[c] \in {"running", "ending"} /\ child' = [child EXCEPT ![c] = "gone"]
      /\ UNCHANGED <<quick, proc, tunnelMode, url, scansDue, read, switch, saver, config>>
      /\ UNCHANGED <<twoStarts, alone, unsettled, lateUrl>>
  BY DEF ChildExits, tunnelHistory
<1>3. /\ read' \subseteq quick /\ url' \in quick \cup {NoChild} /\ lateUrl' \in BOOLEAN
      /\ scansDue' \in 0..scansDue
  BY <1>1, <1>2, TunnelAssumption DEF TunnelTypeOK, tunnelHistory
<1>4. /\ child' \in [Children -> {"none", "running", "ending", "gone"}]
      /\ \A d \in Children : /\ child'[d] = "none" <=> child[d] = "none"
                             /\ child'[d] = "running" => child[d] = "running"
  BY <1>1, <1>2 DEF TunnelTypeOK
<1>5. ~twoStarts' /\ ~lateUrl' => UrlInv'
  BY <1>2 DEF TunnelInv, UrlInv
<1> QED
  BY <1>2, <1>3, <1>4, <1>5, OnlyChildren

-----------------------------------------------------------------------------
(* Tunnel: a reboot.                                                       *)

\* After a reboot nothing is in progress.
LEMMA NothingInProgress ==
    ASSUME switch' = [r \in Switchers |-> NoSwitch], saver' = NotSaving
    PROVE  /\ switch' \in [Switchers -> SwitchRows] /\ saver' \in SaverRows
           /\ \A r \in Switchers : switch'[r].at = "idle"
           /\ Launching' = {} /\ Starting' = {} /\ Switching' = {}
           /\ saver'.at = "idle" /\ Cardinality(Launching') = 0
<1>1. \A r \in Switchers : switch'[r] = NoSwitch
  OBVIOUS
<1>2. Launching' = {} /\ Starting' = {} /\ Switching' = {}
  BY <1>1, FirstRows DEF Launching, Starting, Switching
<1>3. Cardinality({}) = 0
  BY FS_EmptySet
<1> QED
  BY <1>1, <1>2, <1>3, FirstRows

LEMMA RebootStep == ASSUME TunnelInv, Reboot PROVE TunnelInv'
<1>1. TunnelTypeOK /\ ChildrenInv
  BY DEF TunnelInv
<1> DEFINE dead == [c \in Children |-> IF child[c] = "none" THEN "none" ELSE "gone"]
<1>2. /\ url' = NoChild /\ read' = {} /\ switch' = [r \in Switchers |-> NoSwitch]
      /\ saver' = NotSaving /\ UNCHANGED <<config, twoStarts, lateUrl>>
      /\ alone' = FALSE /\ unsettled' = (config.enabled /\ proc' = NoChild)
      /\ unsettled \in BOOLEAN /\ twoStarts \in BOOLEAN /\ lateUrl \in BOOLEAN
      /\ config \in Configs
  BY <1>1 DEF Reboot, TunnelTypeOK, tunnelHistory
<1>3. /\ switch' \in [Switchers -> SwitchRows] /\ saver' \in SaverRows
      /\ \A r \in Switchers : switch'[r].at = "idle"
      /\ Launching' = {} /\ Starting' = {} /\ Switching' = {}
      /\ saver'.at = "idle" /\ Cardinality(Launching') = 0
  BY <1>2, NothingInProgress
<1>4. /\ dead \in [Children -> {"none", "running", "ending", "gone"}]
      /\ \A c \in Children : dead[c] # "running" /\ (dead[c] = "none" <=> child[c] = "none")
  BY <1>1 DEF TunnelTypeOK
<1>5. CASE /\ config.enabled /\ Startable /\ Unborn # {}
           /\ tunnelMode' = config.mode
           /\ child' = [dead EXCEPT ![NextChild] = "running"] /\ proc' = NextChild
           /\ quick' = IF config.mode = "quick" THEN quick \cup {NextChild} ELSE quick
           /\ scansDue' = IF config.mode = "quick" THEN 1 ELSE 0
  <2> DEFINE c == NextChild
  <2>1. c \in Unborn /\ c \in Children /\ c # NoChild
    BY <1>5, NextChildIsUnborn, NoSuchChild DEF Unborn
  <2> HIDE DEF c, dead
  <2>2. child' = [dead EXCEPT ![c] = "running"] /\ proc' = c
    BY <1>5 DEF c
  <2>3. /\ child' \in [Children -> {"none", "running", "ending", "gone"}]
        /\ child'[c] = "running"
        /\ \A d \in Children : d # c => child'[d] = dead[d]
    BY <1>4, <2>1, <2>2
  <2>4. Unborn' = Unborn \ {c}
    BY <1>4, <2>1, <2>3 DEF Unborn
  <2>5. /\ quick' = quick \/ quick' = quick \cup {c}
        /\ scansDue' = 0 \/ (scansDue' = 1 /\ c \in quick')
    BY <1>5 DEF c
  <2>6. quick' \in SUBSET Children /\ quick' \subseteq Children \ Unborn'
    BY <1>1, <2>1, <2>4, <2>5 DEF TunnelTypeOK
  <2>7. /\ IsFiniteSet(quick') /\ Cardinality(quick') \in Nat
        /\ c \in quick' => Cardinality(quick') >= 1
    BY <2>6, FiniteParts, Counts
  <2>8. scansDue' <= Cardinality(quick') /\ scansDue' \in 0..MaxChildren
    <3>1. MaxChildren \in Nat /\ MaxChildren >= 1
      BY <2>1, TunnelAssumption DEF Children
    <3> QED
      BY <2>5, <2>7, <3>1
  <2>9. Cardinality(Unborn') \in Nat
    <3>1. Unborn' \in SUBSET Children
      BY <2>4 DEF Unborn
    <3> QED
      BY <3>1, FiniteParts
  <2>10. TunnelTypeOK'
    <3>1. tunnelHistory' \in BOOLEAN \X BOOLEAN \X BOOLEAN \X BOOLEAN
      BY <1>2, <1>5 DEF tunnelHistory
    <3>2. tunnelMode' \in Modes
      BY <1>2, <1>5 DEF Configs
    <3> QED
      BY <1>2, <1>3, <2>1, <2>2, <2>3, <2>6, <2>8, <3>1, <3>2 DEF TunnelTypeOK
  <2>11. ChildrenInv'
    <3>1. Cardinality(Launching') <= Cardinality(Unborn')
      BY <1>3, <2>9
    <3> QED
      BY <1>3, <2>8, <3>1 DEF ChildrenInv
  <2>12. OneStartInv'
    BY <1>3, <1>4, <2>2, <2>3 DEF OneStartInv
  <2>13. UrlInv'
    BY <1>2 DEF UrlInv
  <2>14. SettledInv'
    BY <1>2, <1>3, <1>5, <2>1, <2>2 DEF SettledInv
  <2> QED
    BY <1>2, <2>10, <2>11, <2>12, <2>13, <2>14 DEF TunnelInv
<1>6. CASE /\ child' = dead /\ proc' = NoChild /\ scansDue' = 0 /\ UNCHANGED quick
           /\ tunnelMode' \in Modes \cup {"none"}
  <2> HIDE DEF dead
  <2>1. Unborn' = Unborn
    BY <1>4, <1>6 DEF Unborn
  <2>2. quick \in SUBSET Children /\ Unborn \in SUBSET Children
    BY <1>1 DEF TunnelTypeOK, Unborn
  <2>3. Cardinality(quick) \in Nat /\ Cardinality(Unborn) \in Nat
    BY <2>2, FiniteParts
  <2>4. TunnelTypeOK'
    <3>1. tunnelHistory' \in BOOLEAN \X BOOLEAN \X BOOLEAN \X BOOLEAN
      BY <1>2, <1>6 DEF tunnelHistory
    <3>2. 0 \in 0..MaxChildren
      BY TunnelAssumption
    <3>3. quick' \subseteq Children \ Unborn' /\ read' \subseteq quick'
      BY <1>1, <1>2, <1>6, <2>1 DEF TunnelTypeOK
    <3> QED
      BY <1>2, <1>3, <1>4, <1>6, <3>1, <3>2, <3>3 DEF TunnelTypeOK
  <2>5. ChildrenInv'
    BY <1>3, <1>6, <2>1, <2>3 DEF ChildrenInv
  <2>6. OneStartInv'
    BY <1>3, <1>4, <1>6 DEF OneStartInv
  <2>7. UrlInv'
    BY <1>2 DEF UrlInv
  <2>8. ~unsettled' => SettledInv'
    BY <1>2, <1>3, <1>6 DEF SettledInv
  <2> QED
    BY <1>2, <2>4, <2>5, <2>6, <2>7, <2>8 DEF TunnelInv
<1>7. config.mode \in Modes /\ config.enabled \in BOOLEAN
  BY <1>2 DEF Configs
<1>8. CASE config.enabled /\ Startable
  <2>1. /\ tunnelMode' = config.mode
        /\ \/ /\ Unborn # {}
              /\ child' = [dead EXCEPT ![NextChild] = "running"] /\ proc' = NextChild
              /\ quick' = IF config.mode = "quick" THEN quick \cup {NextChild} ELSE quick
              /\ scansDue' = IF config.mode = "quick" THEN 1 ELSE 0
           \/ /\ child' = dead /\ proc' = NoChild
              /\ scansDue' = 0 /\ UNCHANGED quick
    BY <1>8 DEF Reboot, NextChild
  <2> HIDE DEF dead
  <2> QED
    BY <1>5, <1>6, <1>7, <1>8, <2>1
<1>9. CASE ~(config.enabled /\ Startable)
  <2>1. /\ tunnelMode' = "none" /\ child' = dead /\ proc' = NoChild
        /\ scansDue' = 0 /\ UNCHANGED quick
    BY <1>9 DEF Reboot
  <2> HIDE DEF dead
  <2> QED
    BY <1>6, <2>1
<1> QED
  BY <1>8, <1>9

LEMMA TunnelStutter == ASSUME TunnelInv, UNCHANGED tunnelVars PROVE TunnelInv'
<1>1. /\ UNCHANGED <<child, quick, proc, tunnelMode, url, scansDue, read, switch, saver, config>>
      /\ UNCHANGED <<twoStarts, alone, unsettled, lateUrl>>
  BY DEF tunnelVars, tunnelHistory
<1>2. TunnelTypeOK
  BY DEF TunnelInv
<1>3. (alone' => AloneInv') /\ (~unsettled' => SettledInv')
  BY <1>1 DEF TunnelInv, AloneInv, SettledInv, Switching
<1> QED
  BY <1>1, <1>2, <1>3, OnlySaver DEF TunnelTypeOK, tunnelHistory

\* In every reachable state, what the service holds of its tunnel is what runs and what
\* the settings say, unless requests met or a save changed the switch.
THEOREM TunnelInvariance == TunnelSpec => []TunnelInv
<1>1. TunnelInv /\ [TunnelNext]_tunnelVars => TunnelInv'
  <2> SUFFICES ASSUME TunnelInv, [TunnelNext]_tunnelVars PROVE TunnelInv'
    OBVIOUS
  <2>1. CASE UNCHANGED tunnelVars
    BY <2>1, TunnelStutter
  <2>2. ASSUME NEW r \in Switchers,
               \/ TunnelStart(r) \/ TunnelStop(r) \/ OldChildEnds(r) \/ Spawned(r)
               \/ SpawnFails(r) \/ CheckSwitch(r) \/ WriteSwitch(r)
        PROVE  TunnelInv'
    BY <2>2, TunnelStartStep, TunnelStopStep, OldChildEndsStep, SpawnedStep,
       SpawnFailsStep, CheckSwitchStep, WriteSwitchStep
  <2>3. CASE SaveReads \/ SaveChecks \/ SaveWrites \/ ScanBegins \/ Reboot
    BY <2>3, SaveReadsStep, SaveChecksStep, SaveWritesStep, ScanBeginsStep, RebootStep
  <2>4. ASSUME NEW c \in Children, ScanFindsUrl(c) \/ ScanEnds(c) \/ ChildExits(c)
        PROVE  TunnelInv'
    BY <2>4, ScanFindsUrlStep, ScanEndsStep, ChildExitsStep
  <2> QED
    BY <2>1, <2>2, <2>3, <2>4 DEF TunnelNext
<1> QED
  BY TunnelBegins, <1>1, PTL DEF TunnelSpec

\* A child that is running and was not told to end is the one the service can stop.
THEOREM NoTunnelIsForgotten == TunnelSpec => []NoForgottenTunnel
<1>1. TunnelInv => NoForgottenTunnel
  BY DEF TunnelInv, OneStartInv, NoForgottenTunnel
<1> QED
  BY TunnelInvariance, <1>1, PTL

\* The url shown of a tunnel is its own.
THEOREM ShownUrlIsItsOwn == TunnelSpec => []UrlIsItsOwn
<1>1. TunnelInv => UrlIsItsOwn
  BY DEF TunnelInv, UrlInv, UrlIsItsOwn
<1> QED
  BY TunnelInvariance, <1>1, PTL

\* Once the requests are served the service holds a tunnel where the settings say so, but
\* for what is left unsettled until the next switch that is alone, or reboot.
THEOREM TunnelAsSaved == TunnelSpec => []EnabledAsSaved
<1>1. TunnelInv => EnabledAsSaved
  BY DEF TunnelInv, SettledInv, EnabledAsSaved
<1> QED
  BY TunnelInvariance, <1>1, PTL

-----------------------------------------------------------------------------
(* The parts side by side.                                                 *)

ServiceParts == {"intake", "audit", "schedule", "tunnel", "migrations"}

\* A step of the service is a step of one part, and leaves the others as they are.
LEMMA ServiceSteps ==
    ASSUME part \in ServiceParts, [ServiceNext]_serviceVars
    PROVE  /\ part' \in ServiceParts
           /\ [Next]_vars /\ [AuditNext]_auditVars /\ [ScheduleNext]_scheduleVars
           /\ [TunnelNext]_tunnelVars /\ [MigrationsNext]_migrationVars
<1>1. CASE ServiceNext
  BY <1>1 DEF ServiceNext
<1>2. CASE UNCHANGED serviceVars
  BY <1>2 DEF serviceVars
<1> QED
  BY <1>1, <1>2

\* main.py, lifespan(): print requests, audit entries, the ready order, the tunnel and the
\* migrations as modelled share no state, so a behaviour of the service is one of each part.
THEOREM ServiceIsItsParts ==
    ServiceSpec => /\ Spec /\ AuditSpec /\ ScheduleSpec /\ TunnelSpec /\ MigrationsSpec
                   /\ [](part \in ServiceParts)
<1>1. ServiceInit => /\ part \in ServiceParts
                     /\ Init /\ AuditInit /\ ScheduleInit /\ TunnelInit /\ MigrationsInit
  BY DEF ServiceInit, ServiceParts
<1>2. part \in ServiceParts /\ [ServiceNext]_serviceVars
        => /\ (part \in ServiceParts)'
           /\ [Next]_vars /\ [AuditNext]_auditVars /\ [ScheduleNext]_scheduleVars
           /\ [TunnelNext]_tunnelVars /\ [MigrationsNext]_migrationVars
  BY ServiceSteps
<1> QED
  BY <1>1, <1>2, PTL
     DEF ServiceSpec, Spec, AuditSpec, ScheduleSpec, TunnelSpec, MigrationsSpec

\* The variables of each part of the service keep their types, whichever part moves.
THEOREM ServiceTypeCorrect == ServiceSpec => []ServiceTypeOK
<1>1. ASSUME part \in ServiceParts, IntakeInv, AuditInv, ScheduleInv, TunnelInv, MigrationsInv
      PROVE  ServiceTypeOK
  <2>1. CASE part = "intake"
    BY <1>1, <2>1 DEF ServiceTypeOK, IntakeInv
  <2>2. CASE part = "audit"
    BY <1>1, <2>2 DEF ServiceTypeOK, AuditInv
  <2>3. CASE part = "schedule"
    BY <1>1, <2>3 DEF ServiceTypeOK, ScheduleInv
  <2>4. CASE part = "tunnel"
    BY <1>1, <2>4 DEF ServiceTypeOK, TunnelInv
  <2>5. CASE part = "migrations"
    BY <1>1, <2>5 DEF ServiceTypeOK, MigrationsInv
  <2> QED
    BY <1>1, <2>1, <2>2, <2>3, <2>4, <2>5 DEF ServiceParts
<1> QED
  BY <1>1, ServiceIsItsParts, IntakeInvariance, AuditInvariance, ScheduleInvariance,
     TunnelInvariance, MigrationsInvariance, PTL

\* What was proved of print.py, audit.py, queue.py (ready()), tunnel.py and db.py each by
\* itself holds of the service they make up.
THEOREM ServiceKeepsAll ==
    ServiceSpec => /\ [](/\ ReplyMatchesRequest /\ DepthOvershoot /\ QuotaOvershoot
                         /\ UntouchedChainVerifies /\ HolesShow /\ FoundTheNextMinute
                         /\ NoForgottenTunnel /\ UrlIsItsOwn /\ EnabledAsSaved
                         /\ ServesWholeSchema /\ FailsOnlyAfterACut)
                   /\ KeysAsPromised /\ NeverAMinuteEarly
                   /\ PrintersSurvive /\ CleanBackupIsWhole
  BY ServiceIsItsParts, RepliesMatch, DepthIsBounded, QuotaIsBounded, UntouchedVerifies,
     HolesAreSeen, LaterPollsFind, NoTunnelIsForgotten, ShownUrlIsItsOwn, TunnelAsSaved,
     WhatServesIsWhole, OnlyCutsFailAStart, IntakeKeepsPromise, KeepsTheMinute,
     NoPrinterIsLost, FirstBackupIsWhole, PTL
==============================================================================
