------------------------------ MODULE Registry ------------------------------
(***************************************************************************)
(* The configuration tables and the requests that change them: registry.py *)
(* under the endpoints of admin.py.                                        *)
(*                                                                         *)
(* A request runs in a thread of its own and a step is one call on the     *)
(* database.  An edit carries the version its client saw; the check of the *)
(* version and the write are two calls.  The audit entry that ends a       *)
(* request is one step here; AuditChain has its two calls.                 *)
(***************************************************************************)
EXTENDS Naturals, FiniteSets

CONSTANTS
    Handlers,     \* threads serving requests
    MaxId,        \* bound: ids a table hands out; more than it can need
    Kinds,        \* contents of a row; of a printer, its type
    Queued,       \* those of Kinds that are CUPS printers
    Names,        \* names of rows
    Imported,     \* the tables for which the YAML that is imported has an item
    Printers0,    \* printers there at first
    None,         \* no row, no request, no capabilities
    MaxRequests   \* bound: requests explored

Tables == {"printers", "formats", "templates", "overlays", "device"}

Ids == 1..MaxId

\* Formats, templates and overlays: each has the create, update and delete of a
\* printer, without the capability cache and without renumbering.
Documents == {"formats", "templates", "overlays"}

ASSUME RegistryAssumption ==
    /\ MaxId \in Nat /\ MaxId >= Printers0 + MaxRequests /\ MaxId > 0
    /\ Queued \subseteq Kinds
    /\ None \notin Kinds
    /\ Kinds # {} /\ Names # {}
    /\ Imported \subseteq {"formats", "templates", "printers"}
    /\ Printers0 \in Nat
    /\ MaxRequests \in Nat

VARIABLES
    rows,        \* rows[t][i]: the row of table t with id i, or None
    sequence,    \* sequence[t]: the row of t in sqlite_sequence, 0 if it has none
    pc,          \* pc[h]: the call thread h makes next, "idle" without a request
    request,     \* request[h]: what the thread knows, or None
    \* history, read by no guard but that of the bound
    births,      \* births[t]: rows ever inserted into t
    shown,       \* shown[t]: <<id, life, version>> of every row a client may have seen
    raced,       \* raced[h]: tables changed by others since the request of h came
    dirty,       \* dirty[h]: the request of h changed something not yet audited
    emptied,     \* the table of printers was empty at some time
    jobs,        \* [id, life] of the printers that unfinished jobs were accepted for
    came         \* requests so far

history == <<births, shown, raced, dirty, emptied, jobs, came>>
vars == <<rows, sequence, pc, request, history>>

-----------------------------------------------------------------------------
(* Vocabulary.                                                             *)

\* life counts the rows inserted before and is no column.  A row is written
\* with kind = params; caps is the kind the cached capabilities were read from.
Rows == [life : Nat, version : Nat, name : Names, kind : Kinds,
         params : Kinds, caps : Kinds \cup {None}]

Endpoints == {"post", "put", "delete", "import", "provision", "remote", "tunnel",
              "provision-queue", "capabilities", "print"}

Calls == {"idle", "switch", "find", "check", "write", "reload", "insert", "remove", "count",
          "reset", "readParams", "mergeParams", "setCaps", "lookup", "enqueue", "audit"}

\* items: the tables of the YAML still to be imported.
Requests == [endpoint : Endpoints, table : Tables, id : Ids \cup {0}, life : Nat,
             version : Nat, name : Names, kind : Kinds, params : Kinds,
             items : SUBSET Tables]

\* What the version of a row is a version of.
Contents == [name : Names, kind : Kinds]

ASSUME NoneAssumption ==
    /\ None \notin Rows \cup Requests
    /\ None \notin [version : Nat, content : Contents]
    /\ None \notin [id : Ids, version : Nat]

Existing(t) == {i \in Ids : rows[t][i] # None}

\* Seeded fault: a plain INTEGER PRIMARY KEY, which looks only at the table.
IsNextId_Reused(t, i) ==
    /\ i - 1 \in {0} \cup Existing(t)
    /\ \A k \in Existing(t) : k < i

\* AUTOINCREMENT: one above the largest id in the table and in sqlite_sequence.
IsNextId(t, i) ==
    /\ i - 1 \in {sequence[t]} \cup Existing(t)
    /\ \A k \in {sequence[t]} \cup Existing(t) : k < i

Fresh(life, name, kind) ==
    [life |-> life, version |-> 1, name |-> name, kind |-> kind, params |-> kind, caps |-> None]

\* The request of h is about to make call c.
At(h, c) == pc[h] = c

\* The row the request of h is about, if it is there.
Subject(h) ==
    IF request[h].id \in Ids THEN rows[request[h].table][request[h].id] ELSE None

GoTo(h, c) == pc' = [pc EXCEPT ![h] = c]

\* The request of h is answered, with its result or with an error.
Finish(h) ==
    /\ GoTo(h, "idle")
    /\ request' = [request EXCEPT ![h] = None]
    /\ raced' = [raced EXCEPT ![h] = {}]
    /\ dirty' = [dirty EXCEPT ![h] = FALSE]

\* A call of h makes r the row of t with id i; others that work on t are raced.
SetRow(h, t, i, r) ==
    /\ rows' = [rows EXCEPT ![t][i] = r]
    /\ raced' = [g \in Handlers |->
                    IF g # h /\ ~At(g, "idle") /\ t \in {request[g].table} \cup request[g].items
                    THEN raced[g] \cup {t} ELSE raced[g]]

Soil(h) == dirty' = [dirty EXCEPT ![h] = TRUE]

Show(t, i, r) == shown' = [shown EXCEPT ![t] = @ \cup {<<i, r.life, r.version>>}]

-----------------------------------------------------------------------------
\* What a row holds where nothing tells contents apart: in all tables but printers.
Blank == CHOOSE k \in Kinds : TRUE

\* The rows of the database as the service finds it: some printers and the device.
Rows0(t) == CASE t = "printers" -> Printers0 [] t = "device" -> 1 [] OTHER -> 0
Row0(life) == Fresh(life, CHOOSE n \in Names : TRUE, Blank)

Init ==
    /\ rows = [t \in Tables |-> [i \in Ids |-> IF i <= Rows0(t) THEN Row0(i) ELSE None]]
    /\ sequence = [t \in Tables |-> Rows0(t)]
    /\ births = [t \in Tables |-> Rows0(t)]
    /\ shown = [t \in Tables |-> {<<i, i, 1>> : i \in 1..Rows0(t)}]
    /\ pc = [h \in Handlers |-> "idle"]
    /\ request = [h \in Handlers |-> None]
    /\ raced = [h \in Handlers |-> {}]
    /\ dirty = [h \in Handlers |-> FALSE]
    /\ emptied = (Printers0 = 0)
    /\ jobs = {}
    /\ came = 0

(***************************************************************************)
(* The requests.                                                           *)
(***************************************************************************)

\* A request to endpoint comes in; its first call is c.
Begin(h, endpoint, t, c, i, life, version, items) ==
    /\ At(h, "idle")
    /\ GoTo(h, c)
    /\ \E n \in Names, k \in IF t = "printers" \/ "printers" \in items THEN Kinds ELSE {Blank} :
         request' = [request EXCEPT ![h] =
             [endpoint |-> endpoint, table |-> t, id |-> i, life |-> life, version |-> version,
              name |-> n, kind |-> k, params |-> k, items |-> items]]
    /\ came < MaxRequests /\ came' = came + 1
    /\ UNCHANGED <<rows, sequence, births, shown, raced, dirty, emptied, jobs>>

\* The ids clients know of: the others are answered with 404.
Known(t) == {s[1] : s \in shown[t]}

Post(h, t) == Begin(h, "post", t, "insert", 0, 0, 0, {})

\* The client edits what it saw at some time.
Put(h, t) == \E s \in shown[t] : Begin(h, "put", t, "check", s[1], s[2], s[3], {})

Delete(h, t) == \E i \in Known(t) : Begin(h, "delete", t, "find", i, 0, 0, {})

PrinterRequest(h) == Post(h, "printers") \/ Put(h, "printers") \/ Delete(h, "printers")
FormatRequest(h) == Post(h, "formats") \/ Put(h, "formats") \/ Delete(h, "formats")
TemplateRequest(h) == Post(h, "templates") \/ Put(h, "templates") \/ Delete(h, "templates")
OverlayRequest(h) == Post(h, "overlays") \/ Put(h, "overlays") \/ Delete(h, "overlays")
DeviceRequest(h) == Put(h, "device")

ImportConfig(h) ==
    Imported # {} /\ Begin(h, "import", "device", "lookup", 0, 0, 0, Imported)

\* provision() writes the device and imports the YAML that may come along.
Provision(h) ==
    \E items \in {{}, Imported} : Begin(h, "provision", "device", "find", 1, 0, 0, items)

PutRemote(h) == Begin(h, "remote", "device", "find", 1, 0, 0, {})
SwitchTunnel(h) == Begin(h, "tunnel", "device", "switch", 1, 0, 0, {})

ProvisionQueue(h) ==
    \E i \in Known("printers") : Begin(h, "provision-queue", "printers", "find", i, 0, 0, {})

\* Bound: one at a time; MaxRequests does not count them.
ListPrinters(h) ==
    /\ \A g \in Handlers : request[g] # None => request[g].endpoint # "capabilities"
    /\ \E i \in Known("printers") : Begin(h, "capabilities", "printers", "find", i, 0, 0, {})
\* Bound: one accepted job at a time.
PrintOn(h) == jobs = {} /\ \E i \in Known("printers") : Begin(h, "print", "printers", "find", i, 0, 0, {})

-----------------------------------------------------------------------------
(* The calls.                                                              *)

\* tunnel_start() and tunnel_stop() act on the child process first.
Switch(h) ==
    /\ At(h, "switch")
    /\ GoTo(h, "find")
    /\ Soil(h)
    /\ UNCHANGED <<rows, sequence, request, births, shown, raced, emptied, jobs, came>>

\* Whatever reads its row first answers 404 if there is none.
NotFound(h) ==
    /\ pc[h] \in {"find", "reload", "readParams"}
    /\ Subject(h) = None
    /\ Finish(h)
    /\ UNCHANGED <<rows, sequence, births, shown, emptied, jobs, came>>

FindToDelete(h) ==
    /\ At(h, "find") /\ request[h].endpoint = "delete" /\ Subject(h) # None
    /\ GoTo(h, "remove")
    /\ UNCHANGED <<rows, sequence, request, history>>

\* Import, provision and remote access take the version from the row itself.
FindVersion(h) ==
    /\ At(h, "find") /\ request[h].endpoint \in {"import", "provision", "remote", "tunnel"}
    /\ Subject(h) # None
    /\ request' = [request EXCEPT ![h].life = Subject(h).life, ![h].version = Subject(h).version]
    /\ GoTo(h, "check")
    /\ UNCHANGED <<rows, sequence, history>>

\* provision_queue(): the queue is made between this read and the next one.
FindQueue(h) ==
    /\ At(h, "find") /\ request[h].endpoint = "provision-queue" /\ Subject(h) # None
    /\ IF Subject(h).kind \in Queued
       THEN GoTo(h, "readParams") /\ UNCHANGED <<request, raced, dirty>>
       ELSE Finish(h)
    /\ UNCHANGED <<rows, sequence, births, shown, emptied, jobs, came>>

\* backend_capabilities(): the cached ones, or those of the backend this row asks for.
ReadCapabilities(h) ==
    /\ At(h, "find") /\ request[h].endpoint = "capabilities" /\ Subject(h) # None
    /\ IF Subject(h).caps # None
       THEN Finish(h)
       ELSE /\ request' = [request EXCEPT ![h].kind = Subject(h).kind]
            /\ GoTo(h, "setCaps")
            /\ UNCHANGED <<raced, dirty>>
    /\ UNCHANGED <<rows, sequence, births, shown, emptied, jobs, came>>

FindPrinter(h) ==
    /\ At(h, "find") /\ request[h].endpoint = "print" /\ Subject(h) # None
    /\ request' = [request EXCEPT ![h].life = Subject(h).life]
    /\ GoTo(h, "enqueue")
    /\ UNCHANGED <<rows, sequence, history>>

\* Seeded fault: any row of that id will do.
Check_AnyVersion(h) ==
    /\ At(h, "check")
    /\ IF Subject(h) # None
       THEN GoTo(h, "write") /\ UNCHANGED <<request, raced, dirty>>
       ELSE Finish(h)
    /\ UNCHANGED <<rows, sequence, births, shown, emptied, jobs, came>>

\* The read and _check_version().
Check(h) ==
    /\ At(h, "check")
    /\ IF Subject(h) # None /\ Subject(h).version = request[h].version
       THEN GoTo(h, "write") /\ UNCHANGED <<request, raced, dirty>>
       ELSE Finish(h)
    /\ UNCHANGED <<rows, sequence, births, shown, emptied, jobs, came>>

\* Seeded fault: the update leaves the cached capabilities.
Edited_KeepsCaps(r, q) ==
    [r EXCEPT !.version = @ + 1, !.name = q.name, !.kind = q.kind, !.params = q.kind]

\* Seeded fault: the update leaves the parameters.
Edited_KeepsParams(r, q) ==
    [r EXCEPT !.version = @ + 1, !.name = q.name, !.kind = q.kind, !.caps = None]

\* Seeded fault: the column of the version is left out, and empty.
Edited_Versionless(r, q) ==
    [r EXCEPT !.version = None, !.name = q.name, !.kind = q.kind, !.params = q.kind,
              !.caps = None]

\* What an update makes of row r.
Edited(r, q) ==
    [r EXCEPT !.version = @ + 1, !.name = q.name, !.kind = q.kind, !.params = q.kind,
              !.caps = None]

\* UPDATE ... WHERE id: a row that is gone stays so.
Write(h) ==
    /\ At(h, "write")
    /\ IF Subject(h) = None
       THEN UNCHANGED <<rows, shown, raced, dirty>>
       ELSE LET r == Edited(Subject(h), request[h])
            IN  /\ SetRow(h, request[h].table, request[h].id, r)
                /\ Show(request[h].table, request[h].id, r)
                /\ Soil(h)
    /\ GoTo(h, "reload")
    /\ UNCHANGED <<sequence, request, births, emptied, jobs, came>>

\* The row is read back for the answer; an import goes on to its next item.
Reload(h) ==
    /\ At(h, "reload") /\ Subject(h) # None
    /\ GoTo(h, IF request[h].items = {} THEN "audit" ELSE "lookup")
    /\ UNCHANGED <<rows, sequence, request, history>>

Insert(h) ==
    /\ At(h, "insert")
    /\ LET q == request[h]
           t == q.table
           r == Fresh(births[t] + 1, q.name, q.kind)
       IN  \E i \in Ids :
             /\ IsNextId(t, i)
             /\ SetRow(h, t, i, r)
             /\ Show(t, i, r)
             /\ sequence' = [sequence EXCEPT ![t] = i]
             /\ request' = [request EXCEPT ![h].id = i]
    /\ births' = [births EXCEPT ![request[h].table] = @ + 1]
    /\ Soil(h)
    /\ GoTo(h, "reload")
    /\ UNCHANGED <<emptied, jobs, came>>

\* The DELETE; only printers are counted afterwards.
Remove(h) ==
    /\ At(h, "remove")
    /\ SetRow(h, request[h].table, request[h].id, None)
    /\ Soil(h)
    /\ GoTo(h, IF request[h].table = "printers" THEN "count" ELSE "audit")
    /\ emptied' = (emptied \/ \A i \in Ids : rows'["printers"][i] = None)
    /\ UNCHANGED <<sequence, request, births, shown, jobs, came>>

\* Seeded fault: with printers left a deletion returns early, unaudited.
Count_Returns(h) ==
    /\ At(h, "count")
    /\ IF Existing("printers") = {}
       THEN GoTo(h, "reset") /\ UNCHANGED <<request, raced, dirty>>
       ELSE Finish(h)
    /\ UNCHANGED <<rows, sequence, births, shown, emptied, jobs, came>>

\* SELECT COUNT(*) after the deletion of a printer.
Count(h) ==
    /\ At(h, "count")
    /\ GoTo(h, IF Existing("printers") = {} THEN "reset" ELSE "audit")
    /\ UNCHANGED <<rows, sequence, request, history>>

ResetIds(h) ==
    /\ At(h, "reset")
    /\ sequence' = [sequence EXCEPT !["printers"] = 0]
    /\ GoTo(h, "audit")
    /\ UNCHANGED <<rows, request, history>>

\* update_printer_params(): the parameters are read, ...
ReadParams(h) ==
    /\ At(h, "readParams") /\ Subject(h) # None
    /\ request' = [request EXCEPT ![h].params = Subject(h).params]
    /\ GoTo(h, "mergeParams")
    /\ UNCHANGED <<rows, sequence, history>>

\* ... and written back with the address of the queue, under the same version.
MergeParams(h) ==
    /\ At(h, "mergeParams")
    /\ IF Subject(h) = None
       THEN UNCHANGED <<rows, raced, dirty>>
       ELSE /\ SetRow(h, "printers", request[h].id,
                      [Subject(h) EXCEPT !.params = request[h].params])
            /\ Soil(h)
    /\ GoTo(h, "audit")
    /\ UNCHANGED <<sequence, request, births, shown, emptied, jobs, came>>

\* set_capabilities(): a cache, which no audit entry records.
SetCapabilities(h) ==
    /\ At(h, "setCaps")
    /\ IF Subject(h) = None
       THEN UNCHANGED rows
       ELSE rows' = [rows EXCEPT !["printers"][request[h].id].caps = request[h].kind]
    /\ Finish(h)
    /\ UNCHANGED <<sequence, births, shown, emptied, jobs, came>>

\* The tables are imported in this order.
FirstOf(items) ==
    CHOOSE t \in items : \/ t = "formats"
                         \/ t = "templates" /\ "formats" \notin items
                         \/ t = "printers" /\ items = {"printers"}

\* Seeded fault: what is there is never looked up.
Named_Never(t, n) == {}

\* The row a look-up by name returns: the first in order of id.
Named(t, n) ==
    {i \in Existing(t) : /\ rows[t][i].name = n
                         /\ \A k \in Existing(t) : rows[t][k].name = n => i <= k}

\* import_yaml(), one item: an update if its name is there, else an insertion.
LookUp(h) ==
    /\ At(h, "lookup")
    /\ LET t == FirstOf(request[h].items)
           found == Named(t, request[h].name)
       IN  /\ \E i \in IF found = {} THEN {0} ELSE found :
                request' = [request EXCEPT ![h].table = t, ![h].id = i, ![h].items = @ \ {t}]
           /\ GoTo(h, IF found = {} THEN "insert" ELSE "find")
    /\ UNCHANGED <<rows, sequence, history>>

\* An item that does not validate ends the import there.
RefuseItem(h) ==
    /\ At(h, "lookup")
    /\ Finish(h)
    /\ UNCHANGED <<rows, sequence, births, shown, emptied, jobs, came>>

Enqueue(h) ==
    /\ At(h, "enqueue")
    /\ jobs' = jobs \cup {[id |-> request[h].id, life |-> request[h].life]}
    /\ Finish(h)
    /\ UNCHANGED <<rows, sequence, births, shown, emptied, came>>

\* config_change(), and the answer.
AppendAudit(h) ==
    /\ At(h, "audit")
    /\ Finish(h)
    /\ UNCHANGED <<rows, sequence, births, shown, emptied, jobs, came>>

\* The worker is done with a job.
JobEnds ==
    /\ \E j \in jobs : jobs' = jobs \ {j}
    /\ UNCHANGED <<rows, sequence, pc, request, births, shown, raced, dirty, emptied, came>>

-----------------------------------------------------------------------------
Arrive(h) ==
    \/ PrinterRequest(h) \/ FormatRequest(h) \/ TemplateRequest(h) \/ OverlayRequest(h)
    \/ DeviceRequest(h) \/ ImportConfig(h) \/ Provision(h) \/ PutRemote(h) \/ SwitchTunnel(h)
    \/ ProvisionQueue(h) \/ ListPrinters(h) \/ PrintOn(h)

Call(h) ==
    \/ Switch(h) \/ NotFound(h) \/ FindToDelete(h) \/ FindVersion(h) \/ FindQueue(h)
    \/ ReadCapabilities(h) \/ FindPrinter(h) \/ Check(h) \/ Write(h) \/ Reload(h)
    \/ Insert(h) \/ Remove(h) \/ Count(h) \/ ResetIds(h) \/ ReadParams(h) \/ MergeParams(h)
    \/ SetCapabilities(h) \/ LookUp(h) \/ RefuseItem(h) \/ Enqueue(h) \/ AppendAudit(h)

Next == JobEnds \/ \E h \in Handlers : Arrive(h) \/ Call(h)

Spec == Init /\ [][Next]_vars

-----------------------------------------------------------------------------
(* Properties.                                                             *)

TypeOK ==
    /\ rows \in [Tables -> [Ids -> Rows \cup {None}]]
    /\ sequence \in [Tables -> Nat]
    /\ pc \in [Handlers -> Calls]
    /\ request \in [Handlers -> Requests \cup {None}]
    /\ \A h \in Handlers : request[h] = None <=> At(h, "idle")
    /\ births \in [Tables -> Nat]
    /\ shown \in [Tables -> SUBSET (Ids \X Nat \X Nat)]
    /\ raced \in [Handlers -> SUBSET Tables]
    /\ dirty \in [Handlers -> BOOLEAN]
    /\ emptied \in BOOLEAN
    /\ jobs \subseteq [id : Ids, life : Nat]
    /\ came \in Nat

\* The write of h takes effect in this step.
Writes(h) == At(h, "write") /\ pc'[h] = "reload" /\ Subject(h) # None

\* The table of the request of h was changed by another while it was served.
Raced(h) == request[h].table \in raced[h]

\* No lost update between requests that follow each other: a write replaces the
\* version, and the very row, its client saw, unless another request changed the
\* table meanwhile; a second row under the same id takes a reset of the numbering.
UnracedEditsLand ==
    [][\A h \in Handlers : Writes(h) /\ ~Raced(h) =>
          /\ Subject(h).version = request[h].version
          /\ Subject(h).life = request[h].life \/ emptied]_vars

\* What an editor can tell of table t: the version and the content of its rows, the
\* versions that were shown, and the one its edit is checked or about to be written against.
Visible(r) ==
    IF r = None THEN None
    ELSE [version |-> r.version, content |-> [name |-> r.name, kind |-> r.kind]]

VisibleRows(t) == [i \in Ids |-> Visible(rows[t][i])]

SeenVersions(t) == {<<s[1], s[3]>> : s \in shown[t]}

AimOf(h, t) ==
    IF pc[h] \in {"check", "write"} /\ request[h].table = t
    THEN [id |-> request[h].id, version |-> request[h].version] ELSE None

Aims(t) == [h \in Handlers |-> AimOf(h, t)]

RacedIn(t) == {h \in Handlers : t \in raced[h]}

Promised(t) == INSTANCE VersionedTable WITH
    Editors <- Handlers, Renumbered <- (t = "printers"),
    table <- VisibleRows(t), seen <- SeenVersions(t), again <- (t = "printers" /\ emptied),
    aim <- Aims(t), met <- RacedIn(t)

\* Whatever the calls in between, an edit of a printer, or of the device (with its
\* remote_access), puts the next version in the place of the one its client or it itself
\* saw, unless others wrote to the table; an id is of one row.
TablesAsPromised ==
    /\ Promised("printers")!Init
    /\ [][Promised("printers")!Next]_(Promised("printers")!promise)
    /\ Promised("device")!Init
    /\ [][Promised("device")!Next]_(Promised("device")!promise)

\* README.md:478: "a stale write returns 409".  What is written is what the client
\* saw, whoever else is at work.
StaleWriteRefused ==
    [][\A h \in Handlers : Writes(h) => Subject(h).version = request[h].version]_vars

\* A job accepted for a printer never meets another one under its id, unless
\* the numbering was reset.
JobsKeepTheirPrinter ==
    \A j \in jobs : rows["printers"][j.id] # None =>
        rows["printers"][j.id].life = j.life \/ emptied

\* The parameters of a printer come to fit another type than its own only if
\* somebody edited printers while its queue was provisioned.
OnlyRacesMixParams ==
    [][\A i \in Ids :
          LET Mixed(table) == table[i] # None /\ table[i].params # table[i].kind
          IN  Mixed(rows'["printers"]) /\ ~Mixed(rows["printers"]) =>
                \E h \in Handlers : At(h, "mergeParams") /\ Raced(h)]_vars

\* The cached capabilities come to be those of another type only if somebody
\* edited printers while they were looked up.
OnlyRacesStaleCaps ==
    [][\A i \in Ids :
          LET Stale(table) == table[i] # None /\ table[i].caps \notin {None, table[i].kind}
          IN  Stale(rows'["printers"]) /\ ~Stale(rows["printers"]) =>
                \E h \in Handlers : At(h, "setCaps") /\ Raced(h)]_vars

\* An import never makes a second row of a name, unless the table was changed
\* while it ran.
ImportMakesNoTwins ==
    [][\A h \in Handlers :
          At(h, "insert") /\ pc'[h] = "reload" /\ request[h].endpoint # "post" /\ ~Raced(h) =>
            \A i \in Existing(request[h].table) :
                rows[request[h].table][i].name # request[h].name]_vars

\* A request that changed something ends with its audit entry, unless an item of
\* an import is refused or another request came in between.
ChangesAreAudited ==
    [][\A h \in Handlers :
          dirty[h] /\ pc'[h] = "idle" => pc[h] \in {"audit", "lookup"} \/ Raced(h)]_vars
=============================================================================
