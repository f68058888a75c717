--------------------------- MODULE RegistryProofs ---------------------------
(***************************************************************************)
(* What the check of the version, the numbering of the rows and the looks  *)
(* before a write guarantee, for any number of threads, requests, rows and *)
(* contents: proofs about Registry.                                        *)
(***************************************************************************)
EXTENDS Registry, Extrema

-----------------------------------------------------------------------------
(* The invariant.                                                          *)

\* Requests about a printer as such, which import nothing.
OnPrinters == {"print", "provision-queue", "capabilities"}

\* The calls of the others on the row they write.
Writing == {"switch", "check", "write", "reload", "insert", "remove", "count", "reset"}

\* A request is where its endpoint takes it.
PlaceInv ==
    \A h \in Handlers : pc[h] # "idle" =>
        /\ request[h].items \subseteq Imported
        /\ pc[h] = "lookup" => request[h].items # {}
        /\ request[h].endpoint \in OnPrinters =>
               request[h].table = "printers" /\ request[h].items = {}
        /\ pc[h] \in {"readParams", "mergeParams", "setCaps", "enqueue"} =>
               request[h].endpoint \in OnPrinters
        /\ pc[h] \in Writing => request[h].endpoint \notin OnPrinters
        /\ pc[h] = "enqueue" => request[h].id \in Ids
        /\ request[h].endpoint = "delete" => request[h].table # "device" /\ request[h].items = {}
        /\ pc[h] = "remove" => request[h].endpoint = "delete"
        /\ pc[h] = "switch" => request[h].table = "device" /\ request[h].id = 1

\* The numbering starts anew only when the last printer went.
EmptiedInv ==
    /\ Existing("printers") = {} => emptied
    /\ \A h \in Handlers : pc[h] = "reset" => emptied

\* Id i has been handed out, and a row under it can only be the one of that life.
Bound(t, i, life) ==
    /\ i \in Ids /\ i <= sequence[t]
    /\ rows[t][i] # None => rows[t][i].life = life

\* Whoever knows a row by its id knows the one there is, as long as the
\* numbering never started anew.
NumberInv ==
    emptied \/ /\ \A t \in Tables : \A i \in Existing(t) : i <= sequence[t]
               /\ \A t \in Tables : \A s \in shown[t] : Bound(t, s[1], s[2])
               /\ \A h \in Handlers : pc[h] \in {"check", "write", "enqueue"} =>
                      Bound(request[h].table, request[h].id, request[h].life)
               /\ \A j \in jobs : Bound("printers", j.id, j.life)

\* The row of the device is always there.
DeviceInv == rows["device"][1] # None

\* A request that changed something is not one that only looks.
DirtyInv ==
    \A h \in Handlers : dirty[h] =>
        /\ pc[h] # "idle"
        /\ request[h].endpoint \in OnPrinters => pc[h] = "audit"

\* What a request has read of its table is still so unless it was raced.
Current(h) ==
    /\ pc[h] \in {"write", "reload"} => Subject(h) # None
    /\ pc[h] \in {"find", "check"} /\ dirty[h] => Subject(h) # None
    /\ pc[h] = "check" /\ dirty[h] => Subject(h).version = request[h].version
    /\ pc[h] = "write" => Subject(h).version = request[h].version
    /\ pc[h] = "mergeParams" /\ Subject(h) # None => Subject(h).params = request[h].params
    /\ pc[h] = "setCaps" /\ Subject(h) # None => Subject(h).kind = request[h].kind
    /\ pc[h] = "insert" /\ request[h].endpoint # "post" =>
          \A i \in Existing(request[h].table) :
              rows[request[h].table][i].name # request[h].name

ReadInv == \A h \in Handlers : pc[h] # "idle" /\ ~Raced(h) => Current(h)

RegistryInv == TypeOK /\ PlaceInv /\ EmptiedInv /\ NumberInv /\ DeviceInv /\ DirtyInv /\ ReadInv
-----------------------------------------------------------------------------
(* What actions have in common.                                            *)

\* import_yaml() takes one of the tables that are left.
LEMMA FirstIsOneOfThem ==
    ASSUME NEW items, items \subseteq Imported, items # {} PROVE FirstOf(items) \in items
<1>1. \E t \in items : \/ t = "formats"
                       \/ t = "templates" /\ "formats" \notin items
                       \/ t = "printers" /\ items = {"printers"}
  BY RegistryAssumption
<1> QED
  BY <1>1 DEF FirstOf

\* The kind a row has when nothing is said of it is a kind.
LEMMA BlankIsAKind == Blank \in Kinds
  BY RegistryAssumption DEF Blank

\* The row a request is about is one of the table it names.
LEMMA SubjectIsARow ==
    ASSUME TypeOK, NEW h \in Handlers, request[h] \in Requests, Subject(h) # None
    PROVE  /\ request[h].id \in Ids /\ request[h].table \in Tables
           /\ Subject(h) = rows[request[h].table][request[h].id]
           /\ Subject(h) \in Rows
  BY DEF TypeOK, Requests, Subject

\* Who makes a call has a request.
LEMMA CallersHaveRequests ==
    ASSUME TypeOK, NEW h \in Handlers, Call(h) PROVE pc[h] # "idle" /\ request[h] \in Requests
<1>1. pc[h] # "idle"
  BY DEF Call, Switch, NotFound, FindToDelete, FindVersion, FindQueue, ReadCapabilities,
         FindPrinter, Check, Write, Reload, Insert, Remove, Count, ResetIds, ReadParams,
         MergeParams, SetCapabilities, LookUp, RefuseItem, Enqueue, AppendAudit, At
<1> QED
  BY <1>1 DEF TypeOK, At

\* A row changes, no other, and whoever works on the table is raced.
LEMMA OneRowIsSet ==
    ASSUME TypeOK, NEW h \in Handlers, NEW t \in Tables, NEW i, NEW r \in Rows \cup {None},
           SetRow(h, t, i, r)
    PROVE  /\ rows' \in [Tables -> [Ids -> Rows \cup {None}]]
           /\ raced' \in [Handlers -> SUBSET Tables]
           /\ \A u \in Tables, k \in Ids :
                  rows'[u][k] = IF u = t /\ k = i THEN r ELSE rows[u][k]
           /\ raced'[h] = raced[h]
           /\ \A g \in Handlers : raced[g] \subseteq raced'[g]
           /\ \A g \in Handlers \ {h} :
                  pc[g] # "idle" /\ request[g].table = t => t \in raced'[g]
<1>1. rows' = [rows EXCEPT ![t][i] = r]
  BY DEF SetRow
<1>2. \A u \in Tables, k \in Ids :
          rows'[u][k] = IF u = t /\ k = i THEN r ELSE rows[u][k]
  BY <1>1 DEF TypeOK
<1>3. rows' \in [Tables -> [Ids -> Rows \cup {None}]]
  BY <1>1 DEF TypeOK
<1>4. ASSUME NEW g \in Handlers
      PROVE  /\ raced'[g] \in SUBSET Tables /\ raced[g] \subseteq raced'[g]
             /\ g # h /\ pc[g] # "idle" /\ request[g].table = t => t \in raced'[g]
             /\ g = h => raced'[g] = raced[g]
  BY <1>4 DEF SetRow, TypeOK, At
<1>5. raced' \in [Handlers -> SUBSET Tables]
  BY <1>4 DEF SetRow
<1> QED
  BY <1>2, <1>3, <1>4, <1>5

\* The calls a request may begin with.
First == {"switch", "find", "check", "lookup", "insert"}

\* The thread takes request q, whose first call is c.
Opens(h, q, c) ==
    /\ pc[h] = "idle"
    /\ pc' = [pc EXCEPT ![h] = c]
    /\ request' = [request EXCEPT ![h] = q]
    /\ q.items \subseteq Imported /\ (c = "lookup" => q.items # {})
    /\ q.endpoint \in OnPrinters => q.table = "printers" /\ q.items = {}
    /\ c = "check" => <<q.id, q.life, q.version>> \in shown[q.table]
    /\ q.endpoint \in OnPrinters => c = "find"
    /\ c = "insert" => q.endpoint = "post"
    /\ q.endpoint = "delete" => q.table # "device" /\ q.items = {}
    /\ c = "switch" => q.table = "device" /\ q.id = 1
    /\ came' = came + 1
    /\ UNCHANGED <<rows, sequence, births, shown, raced, dirty, emptied, jobs>>

\* A request comes in, about something its client knows of.
LEMMA Arrival ==
    ASSUME TypeOK, NEW h \in Handlers, Arrive(h)
    PROVE  \E q \in Requests, c \in First : Opens(h, q, c)
<1>1. ASSUME NEW e \in Endpoints, NEW t \in Tables, NEW c \in First, NEW i \in Ids \cup {0},
             NEW life \in Nat, NEW version \in Nat, NEW items \in SUBSET Imported,
             c = "lookup" => items # {},
             e \in OnPrinters => t = "printers" /\ items = {} /\ c = "find",
             c = "check" => <<i, life, version>> \in shown[t],
             c = "insert" => e = "post",
             e = "delete" => t # "device" /\ items = {},
             c = "switch" => t = "device" /\ i = 1,
             Begin(h, e, t, c, i, life, version, items)
      PROVE  \E q \in Requests : Opens(h, q, c)
  <2>1. PICK n \in Names, k \in Kinds :
             request' = [request EXCEPT ![h] =
                 [endpoint |-> e, table |-> t, id |-> i, life |-> life, version |-> version,
                  name |-> n, kind |-> k, params |-> k, items |-> items]]
    BY <1>1, BlankIsAKind DEF Begin
  <2> DEFINE q == [endpoint |-> e, table |-> t, id |-> i, life |-> life, version |-> version,
                   name |-> n, kind |-> k, params |-> k, items |-> items]
  <2>2. q \in Requests
    BY RegistryAssumption DEF Requests, Tables
  <2>3. Opens(h, q, c)
    BY <1>1, <2>1 DEF Begin, GoTo, At, Opens
  <2> QED
    BY <2>2, <2>3
<1>2. \A t \in Tables : Known(t) \subseteq Ids
  BY DEF Known, TypeOK
<1>3. /\ 0 \in Ids \cup {0} /\ 1 \in Ids \cup {0} /\ 0 \in Nat
      /\ {} \in SUBSET Imported /\ Imported \in SUBSET Imported
  BY RegistryAssumption DEF Ids
<1>4. /\ "switch" \in First /\ "find" \in First /\ "check" \in First /\ "lookup" \in First
      /\ "insert" \in First
  BY DEF First
<1>5. /\ "post" \in Endpoints \ OnPrinters /\ "put" \in Endpoints \ OnPrinters
      /\ "delete" \in Endpoints \ OnPrinters /\ "import" \in Endpoints \ OnPrinters
      /\ "provision" \in Endpoints \ OnPrinters /\ "remote" \in Endpoints \ OnPrinters
      /\ "tunnel" \in Endpoints \ OnPrinters /\ OnPrinters \subseteq Endpoints \ {"delete"}
  BY DEF Endpoints, OnPrinters
<1>6. "device" \in Tables /\ "printers" \in Tables
  BY DEF Tables
<1>7. ASSUME NEW t \in Tables, Post(h, t) PROVE \E q \in Requests, c \in First : Opens(h, q, c)
  <2>1. \E q \in Requests : Opens(h, q, "insert")
    BY <1>1, <1>3, <1>4, <1>5, <1>7, Zenon DEF Post
  <2> QED
    BY <1>4, <2>1, Zenon
<1>8. ASSUME NEW t \in Tables, Put(h, t) PROVE \E q \in Requests, c \in First : Opens(h, q, c)
  <2>1. PICK s \in shown[t] : Begin(h, "put", t, "check", s[1], s[2], s[3], {})
    BY <1>8, Zenon DEF Put
  <2>2. s = <<s[1], s[2], s[3]>> /\ s[1] \in Ids /\ s[2] \in Nat /\ s[3] \in Nat
    BY DEF TypeOK
  <2>3. <<s[1], s[2], s[3]>> \in shown[t] /\ s[1] \in Ids \cup {0}
    BY <2>2
  <2>4. \E q \in Requests : Opens(h, q, "check")
    BY <1>1, <1>3, <1>4, <1>5, <2>1, <2>2, <2>3, Zenon
  <2> QED
    BY <1>4, <2>4, Zenon
<1>9. ASSUME NEW t \in Tables, t # "device", Delete(h, t)
      PROVE  \E q \in Requests, c \in First : Opens(h, q, c)
  <2>1. PICK i \in Known(t) : Begin(h, "delete", t, "find", i, 0, 0, {})
    BY <1>9, Zenon DEF Delete
  <2>2. i \in Ids \cup {0}
    BY <1>2
  <2>3. \E q \in Requests : Opens(h, q, "find")
    BY <1>1, <1>3, <1>4, <1>5, <1>9, <2>1, <2>2, Zenon
  <2> QED
    BY <1>4, <2>3, Zenon
<1>10. ASSUME ImportConfig(h)
       PROVE  \E q \in Requests, c \in First : Opens(h, q, c)
  <2>1. \E q \in Requests : Opens(h, q, "lookup")
    BY <1>1, <1>3, <1>4, <1>5, <1>6, <1>10, Zenon DEF ImportConfig
  <2> QED
    BY <1>4, <2>1, Zenon
<1>11. ASSUME Provision(h)
       PROVE  \E q \in Requests, c \in First : Opens(h, q, c)
  <2>1. PICK items \in SUBSET Imported : Begin(h, "provision", "device", "find", 1, 0, 0, items)
    BY <1>3, <1>11, Zenon DEF Provision
  <2>2. \E q \in Requests : Opens(h, q, "find")
    BY <1>1, <1>3, <1>4, <1>5, <1>6, <2>1, Zenon
  <2> QED
    BY <1>4, <2>2, Zenon
<1>12. ASSUME PutRemote(h)
       PROVE  \E q \in Requests, c \in First : Opens(h, q, c)
  <2>1. \E q \in Requests : Opens(h, q, "find")
    BY <1>1, <1>3, <1>4, <1>5, <1>6, <1>12, Zenon DEF PutRemote
  <2> QED
    BY <1>4, <2>1, Zenon
<1>13. ASSUME SwitchTunnel(h)
       PROVE  \E q \in Requests, c \in First : Opens(h, q, c)
  <2>1. \E q \in Requests : Opens(h, q, "switch")
    BY <1>1, <1>3, <1>4, <1>5, <1>6, <1>13, Zenon DEF SwitchTunnel
  <2> QED
    BY <1>4, <2>1, Zenon
<1>14. ASSUME ProvisionQueue(h) \/ ListPrinters(h) \/ PrintOn(h)
       PROVE  \E q \in Requests, c \in First : Opens(h, q, c)
  <2>1. "print" \in OnPrinters /\ "provision-queue" \in OnPrinters /\ "capabilities" \in OnPrinters
    BY DEF OnPrinters
  <2>2. PICK e \in OnPrinters, i \in Known("printers") :
             Begin(h, e, "printers", "find", i, 0, 0, {})
    BY <1>14, <2>1, Zenon DEF ProvisionQueue, ListPrinters, PrintOn
  <2>3. i \in Ids \cup {0} /\ e \in Endpoints /\ e # "delete"
    BY <1>2, <1>5, <1>6
  <2>4. \E q \in Requests : Opens(h, q, "find")
    BY <1>1, <1>3, <1>4, <1>6, <2>2, <2>3, Zenon
  <2> QED
    BY <1>4, <2>4, Zenon
<1>15. \E q \in Requests, c \in First : Opens(h, q, c)
  <2>1. /\ "printers" \in Tables /\ "formats" \in Tables /\ "templates" \in Tables
        /\ "overlays" \in Tables /\ "device" \in Tables
    BY DEF Tables
  <2> QED
    BY <1>7, <1>8, <1>9, <1>10, <1>11, <1>12, <1>13, <1>14, <2>1, Zenon
       DEF Arrive, PrinterRequest, FormatRequest, TemplateRequest, OverlayRequest, DeviceRequest
<1> QED
  BY <1>15

\* Requests of threads, typed, and nobody has one who is not at work.
ThreadsTyped ==
    /\ pc \in [Handlers -> Calls] /\ request \in [Handlers -> Requests \cup {None}]
    /\ \A g \in Handlers : request[g] = None <=> pc[g] = "idle"

\* A thread that goes on with the same request, or with request q.
LEMMA GoesOn ==
    ASSUME TypeOK, NEW h \in Handlers, pc[h] # "idle", NEW c \in Calls \ {"idle"}, GoTo(h, c),
           NEW q \in Requests, request' = request \/ request' = [request EXCEPT ![h] = q]
    PROVE  ThreadsTyped'
  BY NoneAssumption DEF TypeOK, GoTo, At, ThreadsTyped

\* A thread that answers.
LEMMA Finishes ==
    ASSUME TypeOK, NEW h \in Handlers, Finish(h)
    PROVE  /\ ThreadsTyped'
           /\ raced' \in [Handlers -> SUBSET Tables] /\ dirty' \in [Handlers -> BOOLEAN]
  BY DEF TypeOK, Finish, GoTo, At, Calls, ThreadsTyped

\* An update makes a row of a row, of the same life.
LEMMA EditedIsARow ==
    ASSUME NEW r \in Rows, NEW q \in Requests
    PROVE  Edited(r, q) \in Rows /\ Edited(r, q).life = r.life
<1>1. [r EXCEPT !.version = r.version + 1] \in Rows
  BY DEF Rows
<1>2. /\ q.name \in Names /\ q.kind \in Kinds
  BY DEF Requests
<1>3. Edited(r, q) = [[[[[r EXCEPT !.version = r.version + 1] EXCEPT !.name = q.name]
                        EXCEPT !.kind = q.kind] EXCEPT !.params = q.kind] EXCEPT !.caps = None]
  BY DEF Edited, Rows
<1> QED
  BY <1>1, <1>2, <1>3 DEF Rows

\* So do parameters written back.
LEMMA MergedIsARow ==
    ASSUME NEW r \in Rows, NEW p \in Kinds
    PROVE  [r EXCEPT !.params = p] \in Rows /\ [r EXCEPT !.params = p].life = r.life
  BY DEF Rows

\* Capabilities come into a row of the printers, or nowhere.
LEMMA CapsAreSet ==
    ASSUME TypeOK, PlaceInv, NEW h \in Handlers, SetCapabilities(h)
    PROVE  /\ rows' \in [Tables -> [Ids -> Rows \cup {None}]]
           /\ \A t \in Tables, i \in Ids :
                  /\ rows'[t][i] = None <=> rows[t][i] = None
                  /\ rows[t][i] # None =>
                         /\ rows'[t][i].life = rows[t][i].life
                         /\ rows'[t][i].version = rows[t][i].version
                         /\ rows'[t][i].name = rows[t][i].name
                         /\ rows'[t][i].kind = rows[t][i].kind
                         /\ rows'[t][i].params = rows[t][i].params
                  /\ rows'[t][i] # rows[t][i] =>
                         /\ t = "printers" /\ i = request[h].id /\ Subject(h) = rows[t][i]
                         /\ rows'[t][i].caps = request[h].kind
<1>1. request[h] \in Requests /\ pc[h] = "setCaps"
  BY DEF TypeOK, At, SetCapabilities
<1>2. CASE Subject(h) = None
  BY <1>2 DEF SetCapabilities, TypeOK
<1>3. CASE Subject(h) # None
  <2> DEFINE i == request[h].id
             r == rows["printers"][i]
             c == [r EXCEPT !.caps = request[h].kind]
  <2>1. request[h].table = "printers"
    BY <1>1 DEF PlaceInv
  <2>2. i \in Ids /\ Subject(h) = r /\ r \in Rows /\ "printers" \in Tables
    BY <1>1, <1>3, <2>1, SubjectIsARow DEF Tables
  <2>3. rows' = [rows EXCEPT !["printers"][i] = c]
    BY <1>3, <2>2 DEF SetCapabilities, TypeOK
  <2>4. /\ c \in Rows /\ c.life = r.life /\ c.version = r.version /\ c.name = r.name
        /\ c.kind = r.kind /\ c.params = r.params /\ c.caps = request[h].kind
    BY <1>1, <2>2 DEF Rows, Requests
  <2>5. c # None /\ r # None
    BY <2>2, <2>4, NoneAssumption
  <2> HIDE DEF c, r
  <2>6. \A t \in Tables, k \in Ids :
            rows'[t][k] = IF t = "printers" /\ k = i THEN c ELSE rows[t][k]
    BY <2>2, <2>3 DEF TypeOK
  <2>7. rows' \in [Tables -> [Ids -> Rows \cup {None}]]
    BY <2>3, <2>4 DEF TypeOK
  <2> QED
    BY <2>2, <2>4, <2>5, <2>6, <2>7 DEF r
<1> QED
  BY <1>2, <1>3

-----------------------------------------------------------------------------
(* Types.                                                                  *)

\* Every step keeps the types.
LEMMA TypeStep == ASSUME TypeOK, PlaceInv, [Next]_vars PROVE TypeOK'
<1>1. CASE JobEnds
  BY <1>1 DEF JobEnds, TypeOK, At
<1>2. ASSUME NEW h \in Handlers, Arrive(h) PROVE TypeOK'
  <2>1. PICK q \in Requests, c \in First : Opens(h, q, c)
    BY <1>2, Arrival
  <2> QED
    BY <2>1, NoneAssumption DEF TypeOK, At, Calls, Opens, First
<1>3. ASSUME NEW h \in Handlers, Call(h) PROVE TypeOK'
  <2> DEFINE q == request[h]
  <2>1. pc[h] # "idle" /\ q \in Requests
    BY <1>3, CallersHaveRequests
  <2>2. CASE Switch(h) \/ FindToDelete(h) \/ Reload(h) \/ Count(h) \/ ResetIds(h)
    <3>1. PICK c \in Calls \ {"idle"} : GoTo(h, c)
      BY <2>2 DEF Switch, FindToDelete, Reload, Count, ResetIds, Calls
    <3>2. request' = request
      BY <2>2 DEF Switch, FindToDelete, Reload, Count, ResetIds
    <3>3. ThreadsTyped'
      BY <2>1, <3>1, <3>2, GoesOn
    <3>4. sequence' \in [Tables -> Nat] /\ dirty' \in [Handlers -> BOOLEAN]
      <4>1. sequence' = sequence \/ sequence' = [sequence EXCEPT !["printers"] = 0]
        BY <2>2 DEF Switch, FindToDelete, Reload, Count, ResetIds
      <4>2. dirty' = dirty \/ dirty' = [dirty EXCEPT ![h] = TRUE]
        BY <2>2 DEF Switch, FindToDelete, Reload, Count, ResetIds, Soil, history
      <4>3. sequence' \in [Tables -> Nat]
        BY <4>1 DEF TypeOK
      <4>4. dirty' \in [Handlers -> BOOLEAN]
        BY <4>2 DEF TypeOK
      <4> QED
        BY <4>3, <4>4
    <3>5. UNCHANGED <<rows, births, shown, raced, emptied, jobs, came>>
      BY <2>2 DEF Switch, FindToDelete, Reload, Count, ResetIds, history
    <3> QED
      BY <3>3, <3>4, <3>5 DEF TypeOK, ThreadsTyped, At
  <2>3. CASE NotFound(h) \/ RefuseItem(h) \/ AppendAudit(h)
    BY <2>3, Finishes DEF TypeOK, ThreadsTyped, At, NotFound, RefuseItem, AppendAudit
  <2>4. CASE Enqueue(h)
    <3>1. Finish(h)
      BY <2>4 DEF Enqueue
    <3>2. [id |-> q.id, life |-> q.life] \in [id : Ids, life : Nat]
      BY <2>1, <2>4 DEF Enqueue, PlaceInv, Requests, At
    <3> QED
      BY <2>4, <3>1, <3>2, Finishes DEF TypeOK, ThreadsTyped, At, Enqueue
  <2>5. CASE FindVersion(h) \/ FindPrinter(h) \/ ReadParams(h)
    <3>1. Subject(h) \in Rows
      BY <2>1, <2>5, SubjectIsARow DEF FindVersion, FindPrinter, ReadParams
    <3>2. PICK c \in Calls \ {"idle"} : GoTo(h, c)
      BY <2>5 DEF FindVersion, FindPrinter, ReadParams, Calls
    <3>3. /\ [q EXCEPT !.life = Subject(h).life, !.version = Subject(h).version] \in Requests
          /\ [q EXCEPT !.life = Subject(h).life] \in Requests
          /\ [q EXCEPT !.params = Subject(h).params] \in Requests
      BY <2>1, <3>1 DEF Requests, Rows
    <3>4. PICK p \in Requests : request' = [request EXCEPT ![h] = p]
      BY <2>5, <3>3 DEF FindVersion, FindPrinter, ReadParams
    <3>5. ThreadsTyped'
      BY <2>1, <3>2, <3>4, GoesOn
    <3> QED
      BY <2>5, <3>5 DEF TypeOK, ThreadsTyped, At, FindVersion, FindPrinter, ReadParams, history
  <2>6. CASE LookUp(h)
    <3>1. q.items # {} /\ q.items \subseteq Imported
      BY <2>1, <2>6 DEF LookUp, At, PlaceInv
    <3>2. FirstOf(q.items) \in Tables
      BY <3>1, FirstIsOneOfThem, RegistryAssumption DEF Tables
    <3>3. PICK i \in Ids \cup {0} :
               request' = [request EXCEPT ![h].table = FirstOf(q.items), ![h].id = i,
                                          ![h].items = @ \ {FirstOf(q.items)}]
      BY <2>6 DEF LookUp, Named, Existing
    <3> DEFINE p == [q EXCEPT !.table = FirstOf(q.items), !.id = i,
                              !.items = @ \ {FirstOf(q.items)}]
    <3>4. p \in Requests
      BY <2>1, <3>2 DEF Requests
    <3>5. request' = [request EXCEPT ![h] = p]
      BY <3>3 DEF TypeOK
    <3>6. PICK c \in Calls \ {"idle"} : GoTo(h, c)
      BY <2>6 DEF LookUp, Calls
    <3>7. ThreadsTyped'
      BY <2>1, <3>4, <3>5, <3>6, GoesOn
    <3> QED
      BY <2>6, <3>7 DEF TypeOK, ThreadsTyped, At, LookUp, history
  <2>7. CASE FindQueue(h) \/ Check(h)
    <3>1. CASE Finish(h)
      BY <2>7, <3>1, Finishes DEF TypeOK, ThreadsTyped, At, FindQueue, Check
    <3>2. CASE ~Finish(h)
      <4>1. PICK c \in Calls \ {"idle"} : GoTo(h, c)
        BY <2>7, <3>2 DEF FindQueue, Check, Calls
      <4>2. UNCHANGED <<request, raced, dirty>>
        BY <2>7, <3>2 DEF FindQueue, Check
      <4>3. ThreadsTyped'
        BY <2>1, <4>1, <4>2, GoesOn
      <4> QED
        BY <2>7, <4>2, <4>3 DEF TypeOK, ThreadsTyped, At, FindQueue, Check
    <3> QED
      BY <3>1, <3>2
  <2>8. CASE ReadCapabilities(h)
    <3>1. CASE Finish(h)
      BY <2>8, <3>1, Finishes DEF TypeOK, ThreadsTyped, At, ReadCapabilities
    <3>2. CASE ~Finish(h)
      <4> DEFINE p == [q EXCEPT !.kind = Subject(h).kind]
      <4>1. Subject(h) \in Rows
        BY <2>1, <2>8, SubjectIsARow DEF ReadCapabilities
      <4>2. p \in Requests
        BY <2>1, <4>1 DEF Requests, Rows
      <4>3. GoTo(h, "setCaps") /\ request' = [request EXCEPT ![h] = p]
        BY <2>8, <3>2 DEF ReadCapabilities
      <4>4. ThreadsTyped'
        BY <2>1, <4>2, <4>3, GoesOn DEF Calls
      <4> QED
        BY <2>8, <3>2, <4>4 DEF TypeOK, ThreadsTyped, At, ReadCapabilities
    <3> QED
      BY <3>1, <3>2
  <2>9. CASE Write(h)
    <3>1. GoTo(h, "reload") /\ request' = request
      BY <2>9 DEF Write
    <3>2. ThreadsTyped'
      BY <2>1, <3>1, GoesOn DEF Calls
    <3>3. CASE Subject(h) = None
      BY <2>9, <3>2, <3>3 DEF Write, TypeOK, ThreadsTyped, At
    <3>4. CASE Subject(h) # None
      <4> DEFINE r == Edited(Subject(h), q)
      <4>1. Subject(h) \in Rows /\ q.id \in Ids /\ q.table \in Tables
        BY <2>1, <3>4, SubjectIsARow
      <4>2. r \in Rows
        BY <2>1, <4>1, EditedIsARow
      <4>3. /\ rows' \in [Tables -> [Ids -> Rows \cup {None}]]
            /\ raced' \in [Handlers -> SUBSET Tables]
        BY <2>9, <3>4, <4>1, <4>2, OneRowIsSet DEF Write
      <4>4. <<q.id, r.life, r.version>> \in Ids \X Nat \X Nat
        BY <4>1, <4>2 DEF Rows
      <4>5. shown' \in [Tables -> SUBSET (Ids \X Nat \X Nat)]
        BY <2>9, <3>4, <4>4 DEF Write, Show, TypeOK
      <4>6. dirty' \in [Handlers -> BOOLEAN]
        BY <2>9, <3>4 DEF Write, Soil, TypeOK
      <4> QED
        BY <2>9, <3>2, <4>3, <4>5, <4>6 DEF Write, TypeOK, ThreadsTyped, At
    <3> QED
      BY <3>3, <3>4
  <2>10. CASE Insert(h)
    <3> DEFINE t == q.table
               r == Fresh(births[t] + 1, q.name, q.kind)
    <3>1. t \in Tables /\ births[t] \in Nat /\ r \in Rows /\ r.life \in Nat /\ r.version \in Nat
      BY <2>1 DEF TypeOK, Requests, Fresh, Rows
    <3>2. PICK i \in Ids :
               /\ SetRow(h, t, i, r)
               /\ Show(t, i, r)
               /\ sequence' = [sequence EXCEPT ![t] = i]
               /\ request' = [request EXCEPT ![h].id = i]
      BY <2>10 DEF Insert
    <3>3. [q EXCEPT !.id = i] \in Requests /\ request' = [request EXCEPT ![h] = [q EXCEPT !.id = i]]
      BY <2>1, <3>2 DEF Requests, TypeOK
    <3>4. ThreadsTyped'
      BY <2>1, <2>10, <3>3, GoesOn DEF Insert, Calls
    <3>5. /\ rows' \in [Tables -> [Ids -> Rows \cup {None}]]
          /\ raced' \in [Handlers -> SUBSET Tables]
      BY <3>1, <3>2, OneRowIsSet
    <3>6. <<i, r.life, r.version>> \in Ids \X Nat \X Nat
      BY <3>1
    <3>7. shown' \in [Tables -> SUBSET (Ids \X Nat \X Nat)]
      BY <3>2, <3>6 DEF Show, TypeOK
    <3>8. sequence' \in [Tables -> Nat] /\ births' \in [Tables -> Nat]
      BY <2>10, <3>1, <3>2 DEF Insert, TypeOK, Ids
    <3>9. dirty' \in [Handlers -> BOOLEAN]
      BY <2>10 DEF Insert, Soil, TypeOK
    <3> QED
      BY <2>10, <3>4, <3>5, <3>7, <3>8, <3>9 DEF Insert, TypeOK, ThreadsTyped, At
  <2>11. CASE Remove(h)
    <3>1. PICK c \in Calls \ {"idle"} : GoTo(h, c)
      BY <2>11 DEF Remove, Calls
    <3>2. ThreadsTyped'
      BY <2>1, <2>11, <3>1, GoesOn DEF Remove
    <3>3. q.table \in Tables
      BY <2>1 DEF Requests
    <3>4. /\ rows' \in [Tables -> [Ids -> Rows \cup {None}]]
          /\ raced' \in [Handlers -> SUBSET Tables]
      BY <2>11, <3>3, OneRowIsSet DEF Remove
    <3>5. dirty' \in [Handlers -> BOOLEAN] /\ emptied' \in BOOLEAN
      BY <2>11 DEF Remove, Soil, TypeOK
    <3> QED
      BY <2>11, <3>2, <3>4, <3>5 DEF Remove, TypeOK, ThreadsTyped, At
  <2>12. CASE MergeParams(h)
    <3>1. ThreadsTyped'
      BY <2>1, <2>12, GoesOn DEF MergeParams, Calls
    <3>2. CASE Subject(h) = None
      BY <2>12, <3>1, <3>2 DEF MergeParams, TypeOK, ThreadsTyped, At
    <3>3. CASE Subject(h) # None
      <4>1. Subject(h) \in Rows /\ q.params \in Kinds /\ "printers" \in Tables
        BY <2>1, <3>3, SubjectIsARow DEF Requests, Tables
      <4>2. [Subject(h) EXCEPT !.params = q.params] \in Rows
        BY <4>1, MergedIsARow
      <4>3. SetRow(h, "printers", q.id, [Subject(h) EXCEPT !.params = q.params])
        BY <2>12, <3>3 DEF MergeParams
      <4>4. /\ rows' \in [Tables -> [Ids -> Rows \cup {None}]]
            /\ raced' \in [Handlers -> SUBSET Tables]
        BY <4>1, <4>2, <4>3, OneRowIsSet
      <4>5. dirty' \in [Handlers -> BOOLEAN]
        BY <2>12, <3>3 DEF MergeParams, Soil, TypeOK
      <4> QED
        BY <2>12, <3>1, <4>4, <4>5 DEF MergeParams, TypeOK, ThreadsTyped, At
    <3> QED
      BY <3>2, <3>3
  <2>13. CASE SetCapabilities(h)
    <3>1. rows' \in [Tables -> [Ids -> Rows \cup {None}]]
      BY <2>1, <2>13, CapsAreSet DEF TypeOK
    <3> QED
      BY <2>13, <3>1, Finishes DEF SetCapabilities, TypeOK, ThreadsTyped, At
  <2> QED
    BY <1>3, <2>2, <2>3, <2>4, <2>5, <2>6, <2>7, <2>8, <2>9, <2>10, <2>11,
       <2>12, <2>13 DEF Call
<1>4. CASE UNCHANGED vars
  BY <1>4 DEF vars, history, TypeOK, At
<1> QED
  BY <1>1, <1>2, <1>3, <1>4 DEF Next

-----------------------------------------------------------------------------
(* What a call leaves alone.                                               *)

\* The other threads stay where they are.
LEMMA OthersWait ==
    ASSUME TypeOK, PlaceInv, NEW h \in Handlers, Call(h), NEW g \in Handlers, g # h
    PROVE  /\ pc'[g] = pc[g] /\ request'[g] = request[g] /\ dirty'[g] = dirty[g]
           /\ raced[g] \subseteq raced'[g]
<1>1. pc'[g] = pc[g]
  BY DEF Call, Switch, NotFound, FindToDelete, FindVersion, FindQueue, ReadCapabilities,
         FindPrinter, Check, Write, Reload, Insert, Remove, Count, ResetIds, ReadParams,
         MergeParams, SetCapabilities, LookUp, RefuseItem, Enqueue, AppendAudit, GoTo, Finish,
         TypeOK
<1>2. request'[g] = request[g]
  BY DEF Call, Switch, NotFound, FindToDelete, FindVersion, FindQueue, ReadCapabilities,
         FindPrinter, Check, Write, Reload, Insert, Remove, Count, ResetIds, ReadParams,
         MergeParams, SetCapabilities, LookUp, RefuseItem, Enqueue, AppendAudit, Finish, TypeOK
<1>3. \A t, i, r : SetRow(h, t, i, r) => raced[g] \subseteq raced'[g]
  BY DEF SetRow
<1>4. Finish(h) => raced'[g] = raced[g]
  BY DEF Finish, TypeOK
<1>5. raced[g] \subseteq raced'[g]
  BY <1>3, <1>4
     DEF Call, Switch, NotFound, FindToDelete, FindVersion, FindQueue, ReadCapabilities,
         FindPrinter, Check, Write, Reload, Insert, Remove, Count, ResetIds, ReadParams,
         MergeParams, SetCapabilities, LookUp, RefuseItem, Enqueue, AppendAudit, history
<1>6. dirty'[g] = dirty[g]
  BY DEF Call, Switch, NotFound, FindToDelete, FindVersion, FindQueue, ReadCapabilities,
         FindPrinter, Check, Write, Reload, Insert, Remove, Count, ResetIds, ReadParams,
         MergeParams, SetCapabilities, LookUp, RefuseItem, Enqueue, AppendAudit, history, Soil,
         Finish, TypeOK
<1> QED
  BY <1>1, <1>2, <1>5, <1>6

\* A row that changes is one of the table of the request, whose other readers are
\* raced, or a printer that gets its capabilities; it comes by an insertion, goes by
\* a deletion, and has one life in between.
LEMMA CallOnRows ==
    ASSUME TypeOK, PlaceInv, NEW h \in Handlers, Call(h), NEW t \in Tables, NEW i \in Ids,
           rows'[t][i] # rows[t][i]
    PROVE  /\ pc[h] # "setCaps" =>
                  \A g \in Handlers \ {h} :
                      pc[g] # "idle" /\ request[g].table = t => t \in raced'[g]
           /\ pc[h] = "setCaps" => SetCapabilities(h)
           /\ rows[t][i] # None /\ rows'[t][i] # None => rows'[t][i].life = rows[t][i].life
           /\ rows[t][i] = None => Insert(h) /\ t = request[h].table /\ i = request'[h].id
           /\ rows'[t][i] = None => Remove(h)
<1> DEFINE q == request[h]
<1>1. pc[h] # "idle" /\ q \in Requests /\ q.table \in Tables
  BY CallersHaveRequests DEF Requests
<1>2. CASE Write(h)
  <2>1. Subject(h) # None /\ SetRow(h, q.table, q.id, Edited(Subject(h), q))
    BY <1>2 DEF Write
  <2>2. Subject(h) = rows[q.table][q.id] /\ Subject(h) \in Rows
    BY <1>1, <2>1, SubjectIsARow
  <2>3. Edited(Subject(h), q) \in Rows /\ Edited(Subject(h), q).life = Subject(h).life
    BY <1>1, <2>2, EditedIsARow
  <2>4. t = q.table /\ i = q.id /\ rows'[t][i] = Edited(Subject(h), q)
    BY <1>1, <2>1, <2>3, OneRowIsSet
  <2>5. \A g \in Handlers \ {h} : pc[g] # "idle" /\ request[g].table = t => t \in raced'[g]
    BY <1>1, <2>1, <2>3, <2>4, OneRowIsSet
  <2>6. rows'[t][i] # None /\ rows[t][i] # None /\ pc[h] # "setCaps"
    BY <1>2, <2>1, <2>2, <2>3, <2>4, NoneAssumption DEF Write, At
  <2> QED
    BY <2>2, <2>3, <2>4, <2>5, <2>6
<1>3. CASE Insert(h)
  <2> DEFINE r == Fresh(births[q.table] + 1, q.name, q.kind)
  <2>1. r \in Rows
    BY <1>1 DEF TypeOK, Requests, Fresh, Rows
  <2>2. PICK k \in Ids :
             /\ IsNextId(q.table, k)
             /\ SetRow(h, q.table, k, r)
             /\ request' = [request EXCEPT ![h].id = k]
    BY <1>3 DEF Insert
  <2> HIDE DEF r
  <2>3. t = q.table /\ i = k /\ rows'[t][i] = r
    BY <1>1, <2>1, <2>2, OneRowIsSet
  <2>4. \A g \in Handlers \ {h} : pc[g] # "idle" /\ request[g].table = t => t \in raced'[g]
    BY <1>1, <2>1, <2>2, <2>3, OneRowIsSet
  <2>5. rows[t][i] = None
    BY <2>2, <2>3, RegistryAssumption DEF IsNextId, Existing, Ids
  <2>6. i = request'[h].id
    BY <1>1, <2>2, <2>3 DEF TypeOK, Requests
  <2>7. rows'[t][i] # None /\ pc[h] # "setCaps"
    BY <1>3, <2>1, <2>3, NoneAssumption DEF Insert, At
  <2> QED
    BY <1>3, <2>3, <2>4, <2>5, <2>6, <2>7
<1>4. CASE Remove(h)
  <2>1. SetRow(h, q.table, q.id, None) /\ pc[h] # "setCaps"
    BY <1>4 DEF Remove, At
  <2>2. t = q.table /\ rows'[t][i] = None
    BY <1>1, <2>1, OneRowIsSet
  <2>3. \A g \in Handlers \ {h} : pc[g] # "idle" /\ request[g].table = t => t \in raced'[g]
    BY <1>1, <2>1, <2>2, OneRowIsSet
  <2> QED
    BY <1>4, <2>1, <2>2, <2>3
<1>5. CASE MergeParams(h)
  <2> DEFINE r == [Subject(h) EXCEPT !.params = q.params]
  <2>1. Subject(h) # None /\ SetRow(h, "printers", q.id, r) /\ pc[h] = "mergeParams"
    BY <1>5 DEF MergeParams, At
  <2>2. q.table = "printers"
    BY <1>1, <2>1 DEF PlaceInv
  <2>3. Subject(h) = rows[q.table][q.id] /\ Subject(h) \in Rows
    BY <1>1, <2>1, SubjectIsARow
  <2>4. r \in Rows /\ r.life = Subject(h).life
    BY <1>1, <2>3, MergedIsARow DEF Requests
  <2> HIDE DEF r
  <2>5. t = q.table /\ i = q.id /\ rows'[t][i] = r
    BY <1>1, <2>1, <2>2, <2>4, OneRowIsSet
  <2>6. \A g \in Handlers \ {h} : pc[g] # "idle" /\ request[g].table = t => t \in raced'[g]
    BY <1>1, <2>1, <2>2, <2>4, <2>5, OneRowIsSet
  <2>7. rows'[t][i] # None /\ rows[t][i] # None /\ pc[h] # "setCaps"
    BY <2>1, <2>3, <2>4, <2>5, NoneAssumption
  <2> QED
    BY <2>3, <2>4, <2>5, <2>6, <2>7
<1>6. CASE SetCapabilities(h)
  <2>1. pc[h] = "setCaps"
    BY <1>6 DEF SetCapabilities, At
  <2>2. rows'[t][i] = None <=> rows[t][i] = None
    BY <1>6, CapsAreSet
  <2>3. rows[t][i] # None => rows'[t][i].life = rows[t][i].life
    BY <1>6, CapsAreSet
  <2> QED
    BY <1>6, <2>1, <2>2, <2>3
<1>7. ~(Write(h) \/ Insert(h) \/ Remove(h) \/ MergeParams(h) \/ SetCapabilities(h)) => rows' = rows
  BY DEF Call, Switch, NotFound, FindToDelete, FindVersion, FindQueue, ReadCapabilities,
         FindPrinter, Check, Reload, Count, ResetIds, ReadParams, LookUp, RefuseItem, Enqueue,
         AppendAudit
<1> QED
  BY <1>2, <1>3, <1>4, <1>5, <1>6, <1>7

-----------------------------------------------------------------------------
(* Every step keeps the other parts of the invariant.                      *)

\* Requests go where their endpoints take them.
LEMMA PlaceStep == ASSUME TypeOK, PlaceInv, [Next]_vars PROVE PlaceInv'
<1>1. CASE JobEnds \/ UNCHANGED vars
  BY <1>1 DEF JobEnds, vars, PlaceInv
<1>2. ASSUME NEW h \in Handlers, Arrive(h) PROVE PlaceInv'
  <2>1. PICK q \in Requests, c \in First : Opens(h, q, c)
    BY <1>2, Arrival
  <2> QED
    BY <2>1 DEF Opens, First, PlaceInv, Writing, TypeOK
<1>3. ASSUME NEW h \in Handlers, Call(h) PROVE PlaceInv'
  <2> DEFINE q == request[h]
             Placed == pc'[h] # "idle" =>
                 /\ request'[h].items \subseteq Imported
                 /\ pc'[h] = "lookup" => request'[h].items # {}
                 /\ request'[h].endpoint \in OnPrinters =>
                        request'[h].table = "printers" /\ request'[h].items = {}
                 /\ pc'[h] \in {"readParams", "mergeParams", "setCaps", "enqueue"} =>
                        request'[h].endpoint \in OnPrinters
                 /\ pc'[h] \in Writing => request'[h].endpoint \notin OnPrinters
                 /\ pc'[h] = "enqueue" => request'[h].id \in Ids
                 /\ request'[h].endpoint = "delete" =>
                        request'[h].table # "device" /\ request'[h].items = {}
                 /\ pc'[h] = "remove" => request'[h].endpoint = "delete"
                 /\ pc'[h] = "switch" => request'[h].table = "device" /\ request'[h].id = 1
  <2>1. pc[h] # "idle" /\ q \in Requests
    BY <1>3, CallersHaveRequests
  <2>2. ASSUME Finish(h) PROVE Placed
    BY <2>2 DEF Finish, GoTo, TypeOK
  <2>3. ASSUME \/ Switch(h) \/ FindToDelete(h) \/ FindQueue(h) \/ Check(h) \/ Write(h)
               \/ Reload(h) \/ Remove(h) \/ Count(h) \/ ResetIds(h) \/ MergeParams(h),
               ~Finish(h)
        PROVE  Placed
    <3>1. /\ pc'[h] \notin {"switch", "mergeParams", "setCaps", "enqueue"}
          /\ pc'[h] = "remove" => q.endpoint = "delete"
          /\ pc'[h] = "lookup" => q.items # {}
          /\ pc'[h] = "readParams" => q.endpoint = "provision-queue"
          /\ pc'[h] \in Writing \ {"remove"} => pc[h] \in Writing
      BY <2>3
         DEF Switch, FindToDelete, FindQueue, Check, Write, Reload, Remove, Count, ResetIds,
             MergeParams, GoTo, At, TypeOK, Writing
    <3>2. request' = request
      BY <2>3
         DEF Switch, FindToDelete, FindQueue, Check, Write, Reload, Remove, Count, ResetIds,
             MergeParams
    <3> QED
      BY <2>1, <3>1, <3>2 DEF PlaceInv, OnPrinters, Writing
  <2>4. ASSUME FindVersion(h) \/ FindPrinter(h) \/ ReadParams(h) PROVE Placed
    <3>1. Subject(h) # None
      BY <2>4 DEF FindVersion, FindPrinter, ReadParams
    <3>2. q.id \in Ids
      BY <2>1, <3>1, SubjectIsARow
    <3>3. /\ request'[h].items = q.items /\ request'[h].endpoint = q.endpoint
          /\ request'[h].table = q.table /\ request'[h].id = q.id
      BY <2>1, <2>4 DEF FindVersion, FindPrinter, ReadParams, TypeOK, Requests
    <3>4. \/ pc'[h] = "check" /\ q.endpoint \notin OnPrinters
          \/ pc'[h] = "enqueue" /\ q.endpoint = "print"
          \/ pc'[h] = "mergeParams" /\ pc[h] = "readParams"
      BY <2>4 DEF FindVersion, FindPrinter, ReadParams, GoTo, At, TypeOK, OnPrinters
    <3> QED
      BY <2>1, <3>2, <3>3, <3>4 DEF PlaceInv, OnPrinters, Writing
  <2>5. ASSUME ReadCapabilities(h) /\ ~Finish(h) PROVE Placed
    <3>1. /\ request'[h].items = q.items /\ request'[h].endpoint = q.endpoint
          /\ request'[h].table = q.table /\ q.endpoint = "capabilities"
      BY <2>1, <2>5 DEF ReadCapabilities, TypeOK, Requests
    <3>2. pc'[h] = "setCaps"
      BY <2>5 DEF ReadCapabilities, GoTo, TypeOK
    <3> QED
      BY <2>1, <3>1, <3>2 DEF PlaceInv, OnPrinters, Writing
  <2>6. ASSUME LookUp(h) PROVE Placed
    <3>1. q.items # {} /\ q.items \subseteq Imported /\ q.endpoint \notin OnPrinters
      BY <2>1, <2>6 DEF LookUp, At, PlaceInv
    <3>2. request'[h].items \subseteq q.items /\ request'[h].endpoint = q.endpoint
      BY <2>1, <2>6 DEF LookUp, TypeOK, Requests
    <3>3. pc'[h] \in {"insert", "find"}
      BY <2>6 DEF LookUp, GoTo, TypeOK
    <3>4. q.endpoint # "delete"
      BY <2>1, <3>1 DEF PlaceInv
    <3> QED
      BY <3>1, <3>2, <3>3, <3>4 DEF Writing
  <2>7. ASSUME Insert(h) PROVE Placed
    <3>1. request'[h].items = q.items /\ request'[h].endpoint = q.endpoint
          /\ request'[h].table = q.table
      BY <2>1, <2>7 DEF Insert, TypeOK, Requests
    <3>2. pc'[h] = "reload"
      BY <2>7 DEF Insert, GoTo, TypeOK
    <3> QED
      BY <2>1, <2>7, <3>1, <3>2 DEF PlaceInv, Writing, Insert, At
  <2>8. Placed
    BY <1>3, <2>2, <2>3, <2>4, <2>5, <2>6, <2>7
       DEF Call, NotFound, SetCapabilities, RefuseItem, Enqueue, AppendAudit
  <2> QED
    BY <1>3, <2>8, OthersWait DEF PlaceInv
<1> QED
  BY <1>1, <1>2, <1>3 DEF Next

\* The table of printers empties only in a DELETE, which takes note.
LEMMA EmptiedStep == ASSUME TypeOK, PlaceInv, EmptiedInv, [Next]_vars PROVE EmptiedInv'
<1>1. CASE JobEnds \/ UNCHANGED vars
  BY <1>1 DEF JobEnds, vars, history, EmptiedInv, Existing
<1>2. ASSUME NEW h \in Handlers, Arrive(h) PROVE EmptiedInv'
  <2>1. PICK q \in Requests, c \in First : Opens(h, q, c)
    BY <1>2, Arrival
  <2> QED
    BY <2>1 DEF Opens, First, EmptiedInv, Existing, TypeOK
<1>3. ASSUME NEW h \in Handlers, Call(h) PROVE EmptiedInv'
  <2>1. emptied => emptied'
    BY <1>3 DEF Call, Switch, NotFound, FindToDelete, FindVersion, FindQueue, ReadCapabilities,
         FindPrinter, Check, Write, Reload, Insert, Remove, Count, ResetIds, ReadParams,
         MergeParams, SetCapabilities, LookUp, RefuseItem, Enqueue, AppendAudit, history
  <2>2. ASSUME Existing("printers")' = {} PROVE emptied'
    <3>1. CASE Remove(h)
      BY <2>2, <3>1 DEF Remove, Existing
    <3>2. CASE ~Remove(h)
      <4>1. ASSUME NEW i \in Existing("printers") PROVE FALSE
        <5>1. rows'["printers"][i] = None /\ rows["printers"][i] # None /\ i \in Ids
          BY <2>2, <4>1 DEF Existing
        <5> QED
          BY <1>3, <3>2, <5>1, CallOnRows DEF Tables
      <4> QED
        BY <2>1, <4>1 DEF EmptiedInv
    <3> QED
      BY <3>1, <3>2
  <2>3. pc'[h] = "reset" => Existing("printers") = {}
    BY <1>3 DEF Call, Switch, NotFound, FindToDelete, FindVersion, FindQueue, ReadCapabilities,
         FindPrinter, Check, Write, Reload, Insert, Remove, Count, ResetIds, ReadParams,
         MergeParams, SetCapabilities, LookUp, RefuseItem, Enqueue, AppendAudit, GoTo, Finish,
         TypeOK, At
  <2> QED
    BY <1>3, <2>1, <2>2, <2>3, OthersWait DEF EmptiedInv
<1> QED
  BY <1>1, <1>2, <1>3 DEF Next

\* An id that was handed out is handed out no more, so who knows a row knows it.
LEMMA NumberStep ==
    ASSUME TypeOK, PlaceInv, EmptiedInv, NumberInv, [Next]_vars PROVE NumberInv'
<1>1. CASE JobEnds
  <2>1. jobs' \subseteq jobs /\ UNCHANGED <<rows, sequence, pc, request, shown, emptied>>
    BY <1>1 DEF JobEnds
  <2> QED
    BY <2>1 DEF NumberInv, Bound, Existing
<1>2. CASE UNCHANGED vars
  BY <1>2 DEF vars, history, NumberInv, Bound, Existing
<1>3. ASSUME NEW h \in Handlers, Arrive(h) PROVE NumberInv'
  <2>1. PICK q \in Requests, c \in First : Opens(h, q, c)
    BY <1>3, Arrival
  <2>2. UNCHANGED <<rows, sequence, shown, jobs, emptied>>
    BY <2>1 DEF Opens
  <2>3. \A t, i, l : Bound(t, i, l)' <=> Bound(t, i, l)
    BY <2>2 DEF Bound
  <2>4. ASSUME ~emptied, NEW g \in Handlers, pc'[g] \in {"check", "write", "enqueue"}
        PROVE  Bound(request'[g].table, request'[g].id, request'[g].life)
    <3>1. CASE g # h
      BY <2>1, <2>4, <3>1 DEF Opens, NumberInv, TypeOK
    <3>2. CASE g = h
      <4>1. c = "check" /\ request'[h] = q /\ <<q.id, q.life, q.version>> \in shown[q.table]
        BY <2>1, <2>4, <3>2 DEF Opens, First, TypeOK
      <4>2. q.table \in Tables
        BY DEF Requests
      <4>3. Bound(q.table, <<q.id, q.life, q.version>>[1], <<q.id, q.life, q.version>>[2])
        BY <2>4, <4>1, <4>2 DEF NumberInv
      <4> QED
        BY <3>2, <4>1, <4>3
    <3> QED
      BY <3>1, <3>2
  <2> QED
    BY <2>2, <2>3, <2>4 DEF NumberInv, Existing
<1>4. ASSUME NEW h \in Handlers, Call(h), ~emptied' PROVE NumberInv'
  <2> DEFINE q == request[h]
             StillBound(t, i, l) ==
                 /\ i \in Ids /\ i <= sequence'[t]
                 /\ rows'[t][i] # None => rows'[t][i].life = l
  <2>1. pc[h] # "idle" /\ q \in Requests /\ q.table \in Tables
    BY <1>4, CallersHaveRequests DEF Requests
  <2>2. ~emptied /\ ~ResetIds(h)
    <3>1. emptied => emptied'
      BY <1>4 DEF Call, Switch, NotFound, FindToDelete, FindVersion, FindQueue, ReadCapabilities,
           FindPrinter, Check, Write, Reload, Insert, Remove, Count, ResetIds, ReadParams,
           MergeParams, SetCapabilities, LookUp, RefuseItem, Enqueue, AppendAudit, history
    <3> QED
      BY <1>4, <3>1 DEF EmptiedInv, ResetIds, At
  <2>3. Insert(h) => /\ request'[h].id \in Ids
                     /\ IsNextId(q.table, request'[h].id)
                     /\ sequence' = [sequence EXCEPT ![q.table] = request'[h].id]
    BY <2>1 DEF Insert, TypeOK, Requests
  <2>4. ~Insert(h) => sequence' = sequence
    BY <1>4, <2>2 DEF Call, Switch, NotFound, FindToDelete, FindVersion, FindQueue,
         ReadCapabilities, FindPrinter, Check, Write, Reload, Remove, Count, ReadParams,
         MergeParams, SetCapabilities, LookUp, RefuseItem, Enqueue, AppendAudit
  <2>5. \A t \in Tables : sequence[t] \in Nat /\ sequence'[t] \in Nat /\ sequence[t] <= sequence'[t]
    <3>1. CASE Insert(h)
      <4>1. /\ request'[h].id \in Nat /\ request'[h].id > sequence[q.table]
            /\ sequence' = [sequence EXCEPT ![q.table] = request'[h].id]
        BY <2>3, <3>1 DEF IsNextId, Ids
      <4> HIDE DEF q
      <4> QED
        BY <2>1, <4>1 DEF TypeOK
    <3>2. CASE ~Insert(h)
      BY <2>4, <3>2 DEF TypeOK
    <3> QED
      BY <3>1, <3>2
  <2>6. ASSUME NEW t \in Tables, NEW i, NEW l, Bound(t, i, l) PROVE StillBound(t, i, l)
    <3>1. i \in Ids /\ i <= sequence[t] /\ i <= sequence'[t]
      BY <2>5, <2>6 DEF Bound, Ids
    <3>2. ASSUME rows'[t][i] # None PROVE rows'[t][i].life = l
      <4>1. CASE rows'[t][i] = rows[t][i]
        BY <2>6, <3>2, <4>1 DEF Bound
      <4>2. CASE rows'[t][i] # rows[t][i] /\ rows[t][i] = None
        <5>1. Insert(h) /\ t = q.table /\ i = request'[h].id
          BY <1>4, <3>1, <4>2, CallOnRows
        <5> QED
          <6>1. sequence[t] < i
            BY <2>3, <5>1 DEF IsNextId
          <6>2. i \in Nat /\ sequence[t] \in Nat
            BY <2>5, <3>1 DEF Ids
          <6> QED
            BY <3>1, <6>1, <6>2
      <4>3. CASE rows'[t][i] # rows[t][i] /\ rows[t][i] # None
        <5>1. rows'[t][i].life = rows[t][i].life
          BY <1>4, <3>1, <3>2, <4>3, CallOnRows
        <5> QED
          BY <2>6, <4>3, <5>1 DEF Bound
      <4> QED
        BY <4>1, <4>2, <4>3
    <3> QED
      BY <3>1, <3>2
  <2>7. ASSUME NEW t \in Tables, NEW i \in Existing(t)' PROVE i <= sequence'[t]
    <3>1. i \in Ids /\ rows'[t][i] # None
      BY <2>7 DEF Existing
    <3>2. CASE rows[t][i] # None
      BY <2>2, <2>5, <3>1, <3>2 DEF NumberInv, Existing, Ids
    <3>3. CASE rows[t][i] = None
      <4>1. Insert(h) /\ t = q.table /\ i = request'[h].id
        BY <1>4, <3>1, <3>3, CallOnRows
      <4> QED
        BY <2>3, <3>1, <4>1 DEF TypeOK, Ids
    <3> QED
      BY <3>2, <3>3
  <2>8. ASSUME NEW t \in Tables, NEW s \in shown'[t] PROVE StillBound(t, s[1], s[2])
    <3>1. CASE s \in shown[t]
      BY <2>2, <2>6, <3>1 DEF NumberInv
    <3>2. CASE s \notin shown[t] /\ Write(h)
      <4> DEFINE r == Edited(Subject(h), q)
      <4>1. Subject(h) # None /\ Show(q.table, q.id, r) /\ SetRow(h, q.table, q.id, r)
        BY <2>8, <3>2 DEF Write
      <4>2. Subject(h) \in Rows /\ Subject(h) = rows[q.table][q.id] /\ q.id \in Ids
        BY <2>1, <4>1, SubjectIsARow
      <4>3. r \in Rows
        BY <2>1, <4>2, EditedIsARow
      <4>4. t = q.table /\ s = <<q.id, r.life, r.version>>
        BY <2>1, <2>8, <3>2, <4>1 DEF Show, TypeOK
      <4>5. rows'[t][q.id] = r
        BY <2>1, <4>1, <4>2, <4>3, <4>4, OneRowIsSet
      <4>6. q.id <= sequence'[t]
        BY <2>7, <4>2, <4>3, <4>5, NoneAssumption DEF Existing
      <4> QED
        BY <4>2, <4>4, <4>5, <4>6
    <3>3. CASE s \notin shown[t] /\ Insert(h)
      <4> DEFINE r == Fresh(births[q.table] + 1, q.name, q.kind)
      <4>1. r \in Rows
        BY <2>1 DEF TypeOK, Requests, Fresh, Rows
      <4>2. PICK i \in Ids : SetRow(h, q.table, i, r) /\ Show(q.table, i, r)
        BY <3>3 DEF Insert
      <4> HIDE DEF r
      <4>3. t = q.table /\ s = <<i, r.life, r.version>>
        BY <2>1, <2>8, <3>3, <4>2 DEF Show, TypeOK
      <4>4. rows'[t][i] = r
        BY <2>1, <4>1, <4>2, <4>3, OneRowIsSet
      <4>5. i <= sequence'[t]
        BY <2>7, <4>1, <4>4, NoneAssumption DEF Existing
      <4> QED
        BY <4>3, <4>4, <4>5
    <3>4. ~(Write(h) \/ Insert(h)) => shown' = shown
      BY <1>4 DEF Call, Switch, NotFound, FindToDelete, FindVersion, FindQueue,
           ReadCapabilities, FindPrinter, Check, Reload, Remove, Count, ResetIds, ReadParams,
           MergeParams, SetCapabilities, LookUp, RefuseItem, Enqueue, AppendAudit, history
    <3> QED
      BY <2>8, <3>1, <3>2, <3>3, <3>4
  <2>9. ASSUME NEW g \in Handlers, pc'[g] \in {"check", "write", "enqueue"}
        PROVE  StillBound(request'[g].table, request'[g].id, request'[g].life)
    <3>1. CASE g # h
      <4>1. pc'[g] = pc[g] /\ request'[g] = request[g]
        BY <1>4, <3>1, OthersWait
      <4>2. Bound(request[g].table, request[g].id, request[g].life)
        BY <2>2, <2>9, <4>1 DEF NumberInv
      <4>3. request[g].table \in Tables
        BY <2>9, <4>1 DEF TypeOK, At, Requests
      <4>4. StillBound(request[g].table, request[g].id, request[g].life)
        BY <2>6, <4>2, <4>3
      <4> QED
        BY <4>1, <4>4
    <3>2. CASE g = h /\ Check(h)
      <4>1. request' = request /\ pc[h] = "check"
        BY <2>1, <2>9, <3>2 DEF Check, Finish, GoTo, At, TypeOK
      <4>2. Bound(q.table, q.id, q.life)
        BY <2>2, <4>1 DEF NumberInv
      <4>3. StillBound(q.table, q.id, q.life)
        BY <2>1, <2>6, <4>2
      <4> QED
        BY <3>2, <4>1, <4>3
    <3>3. CASE g = h /\ (FindVersion(h) \/ FindPrinter(h))
      <4>1. /\ request'[h].table = q.table /\ request'[h].id = q.id
            /\ request'[h].life = Subject(h).life
            /\ UNCHANGED <<rows, sequence>> /\ Subject(h) # None
        BY <2>1, <3>3 DEF FindVersion, FindPrinter, TypeOK, Requests
      <4>2. Subject(h) = rows[q.table][q.id] /\ q.id \in Ids
        BY <2>1, <4>1, SubjectIsARow
      <4>3. q.id <= sequence[q.table]
        BY <2>1, <2>2, <4>1, <4>2 DEF NumberInv, Existing
      <4> QED
        BY <3>3, <4>1, <4>2, <4>3
    <3>4. g = h => Check(h) \/ FindVersion(h) \/ FindPrinter(h)
      BY <1>4, <2>9
         DEF Call, Switch, NotFound, FindToDelete, FindQueue, ReadCapabilities, Write, Reload,
             Insert, Remove, Count, ResetIds, ReadParams, MergeParams, SetCapabilities, LookUp,
             RefuseItem, Enqueue, AppendAudit, GoTo, Finish, TypeOK
    <3> QED
      BY <3>1, <3>2, <3>3, <3>4
  <2>10. ASSUME NEW j \in jobs' PROVE StillBound("printers", j.id, j.life)
    <3>1. CASE j \in jobs
      BY <2>2, <2>6, <3>1 DEF NumberInv, Tables
    <3>2. CASE j \notin jobs
      <4>1. Enqueue(h)
        BY <1>4, <2>10, <3>2
           DEF Call, Switch, NotFound, FindToDelete, FindVersion, FindQueue, ReadCapabilities,
               FindPrinter, Check, Write, Reload, Insert, Remove, Count, ResetIds, ReadParams,
               MergeParams, SetCapabilities, LookUp, RefuseItem, AppendAudit, history
      <4>2. pc[h] = "enqueue" /\ j = [id |-> q.id, life |-> q.life]
        BY <2>10, <3>2, <4>1 DEF Enqueue, At
      <4>3. q.table = "printers"
        BY <4>2 DEF PlaceInv
      <4>4. Bound("printers", q.id, q.life)
        BY <2>2, <4>2, <4>3 DEF NumberInv
      <4>5. StillBound("printers", q.id, q.life)
        BY <2>6, <4>4 DEF Tables
      <4> QED
        BY <4>2, <4>5
    <3> QED
      BY <3>1, <3>2
  <2> QED
    BY <2>7, <2>8, <2>9, <2>10 DEF NumberInv, Bound
<1> QED
  BY <1>1, <1>2, <1>3, <1>4 DEF Next, NumberInv

\* No deletion is of the device.
LEMMA DeviceStep == ASSUME TypeOK, PlaceInv, DeviceInv, [Next]_vars PROVE DeviceInv'
<1>1. CASE JobEnds \/ UNCHANGED vars
  BY <1>1 DEF JobEnds, vars, DeviceInv
<1>2. ASSUME NEW h \in Handlers, Arrive(h) PROVE DeviceInv'
  <2>1. PICK q \in Requests, c \in First : Opens(h, q, c)
    BY <1>2, Arrival
  <2> QED
    BY <2>1 DEF Opens, DeviceInv
<1>3. ASSUME NEW h \in Handlers, Call(h), rows'["device"][1] = None PROVE FALSE
  <2>1. 1 \in Ids /\ "device" \in Tables
    BY RegistryAssumption DEF Ids, Tables
  <2>2. Remove(h)
    BY <1>3, <2>1, CallOnRows DEF DeviceInv
  <2>3. request[h] \in Requests /\ request[h].table # "device"
    BY <1>3, <2>2, CallersHaveRequests DEF PlaceInv, Remove, At
  <2>4. SetRow(h, request[h].table, request[h].id, None) /\ request[h].table \in Tables
    BY <2>2, <2>3 DEF Remove, Requests
  <2>5. rows'["device"][1] = rows["device"][1]
    BY <2>1, <2>3, <2>4, OneRowIsSet
  <2> QED
    BY <1>3, <2>5 DEF DeviceInv
<1> QED
  BY <1>1, <1>2, <1>3 DEF Next, DeviceInv

\* A request on printers changes something only with its last call.
LEMMA DirtyStep == ASSUME TypeOK, PlaceInv, DirtyInv, [Next]_vars PROVE DirtyInv'
<1>1. CASE JobEnds \/ UNCHANGED vars
  BY <1>1 DEF JobEnds, vars, history, DirtyInv
<1>2. ASSUME NEW h \in Handlers, Arrive(h) PROVE DirtyInv'
  <2>1. PICK q \in Requests, c \in First : Opens(h, q, c)
    BY <1>2, Arrival
  <2> QED
    BY <2>1 DEF Opens, First, DirtyInv, TypeOK
<1>3. ASSUME NEW h \in Handlers, Call(h) PROVE DirtyInv'
  <2> DEFINE q == request[h]
             Clean == dirty'[h] => /\ pc'[h] # "idle"
                                   /\ request'[h].endpoint \in OnPrinters => pc'[h] = "audit"
  <2>1. pc[h] # "idle" /\ q \in Requests
    BY <1>3, CallersHaveRequests
  <2>2. ASSUME Finish(h) PROVE Clean
    BY <2>2 DEF Finish, TypeOK
  <2>3. ASSUME MergeParams(h) PROVE Clean
    BY <2>3 DEF MergeParams, GoTo, TypeOK
  <2>4. ASSUME Switch(h) \/ Write(h) \/ Insert(h) \/ Remove(h) PROVE Clean
    <3>1. pc[h] \in Writing
      BY <2>4 DEF Switch, Write, Insert, Remove, At, Writing
    <3>2. q.endpoint \notin OnPrinters
      BY <2>1, <3>1 DEF PlaceInv
    <3>3. request'[h].endpoint = q.endpoint
      BY <2>1, <2>4 DEF Switch, Write, Insert, Remove, TypeOK, Requests
    <3>4. pc'[h] # "idle"
      BY <2>4 DEF Switch, Write, Insert, Remove, GoTo, TypeOK
    <3> QED
      BY <3>2, <3>3, <3>4
  <2>5. ASSUME \/ FindToDelete(h) \/ FindVersion(h) \/ FindQueue(h) \/ ReadCapabilities(h)
               \/ FindPrinter(h) \/ Check(h) \/ Reload(h) \/ Count(h) \/ ResetIds(h)
               \/ ReadParams(h) \/ LookUp(h),
               ~Finish(h)
        PROVE  Clean
    <3>1. dirty' = dirty
      BY <2>5 DEF FindToDelete, FindVersion, FindQueue, ReadCapabilities, FindPrinter, Check,
           Reload, Count, ResetIds, ReadParams, LookUp, history
    <3>2. pc'[h] # "idle" /\ pc[h] # "audit"
      BY <2>5 DEF FindToDelete, FindVersion, FindQueue, ReadCapabilities, FindPrinter, Check,
           Reload, Count, ResetIds, ReadParams, LookUp, GoTo, At, TypeOK
    <3>3. request'[h].endpoint = q.endpoint
      <4>1. CASE LookUp(h)
        BY <2>1, <4>1 DEF LookUp, TypeOK, Requests
      <4>2. CASE FindVersion(h) \/ FindPrinter(h) \/ ReadParams(h)
        BY <2>1, <4>2 DEF FindVersion, FindPrinter, ReadParams, TypeOK, Requests
      <4>3. CASE ReadCapabilities(h)
        BY <2>1, <2>5, <4>3 DEF ReadCapabilities, TypeOK, Requests
      <4>4. CASE ~(LookUp(h) \/ FindVersion(h) \/ FindPrinter(h) \/ ReadParams(h)
                   \/ ReadCapabilities(h))
        BY <2>5, <4>4 DEF FindToDelete, FindQueue, Check, Reload, Count, ResetIds
      <4> QED
        BY <4>1, <4>2, <4>3, <4>4
    <3> QED
      BY <3>1, <3>2, <3>3 DEF DirtyInv
  <2>6. Clean
    BY <1>3, <2>2, <2>3, <2>4, <2>5
       DEF Call, NotFound, SetCapabilities, RefuseItem, Enqueue, AppendAudit
  <2> QED
    BY <1>3, <2>6, OthersWait DEF DirtyInv
<1> QED
  BY <1>1, <1>2, <1>3 DEF Next

\* A look-up that finds nothing leaves no row of the name: there would be a first one.
LEMMA NothingNamed ==
    ASSUME TypeOK, NEW t \in Tables, NEW n, Named(t, n) = {}, NEW i \in Existing(t)
    PROVE  rows[t][i].name # n
<1> DEFINE Rows_n == {k \in Existing(t) : rows[t][k].name = n}
<1>1. SUFFICES ASSUME i \in Rows_n PROVE FALSE
  OBVIOUS
<1>2. Rows_n \subseteq Nat /\ Rows_n # {}
  BY <1>1 DEF Existing, Ids
<1>3. PICK k \in Rows_n : \A l \in Rows_n : k <= l
  BY <1>2, LeastMember
<1>4. k \in Named(t, n)
  BY <1>3 DEF Named
<1> QED
  BY <1>4

\* What a thread has read stays so while another one calls, unless it is raced.
LEMMA CurrentStays ==
    ASSUME TypeOK, PlaceInv, NEW h \in Handlers, Call(h), NEW g \in Handlers, g # h,
           pc[g] # "idle", Current(g), request[g].table \notin raced'[g]
    PROVE  Current(g)'
<1> DEFINE t == request[g].table
<1>1. t \in Tables /\ request[g] \in Requests
  BY DEF TypeOK, At, Requests
<1>2. pc'[g] = pc[g] /\ request'[g] = request[g] /\ dirty'[g] = dirty[g]
  BY OthersWait
<1>3. ASSUME NEW i \in Ids
      PROVE  /\ rows'[t][i] = None <=> rows[t][i] = None
             /\ rows[t][i] # None =>
                    /\ rows'[t][i].version = rows[t][i].version
                    /\ rows'[t][i].name = rows[t][i].name
                    /\ rows'[t][i].kind = rows[t][i].kind
                    /\ rows'[t][i].params = rows[t][i].params
  <2>1. CASE rows'[t][i] = rows[t][i]
    BY <2>1
  <2>2. CASE rows'[t][i] # rows[t][i]
    <3>1. SetCapabilities(h)
      BY <1>1, <1>3, <2>2, CallOnRows
    <3> QED
      BY <1>1, <1>3, <3>1, CapsAreSet
  <2> QED
    BY <2>1, <2>2
<1>4. /\ Subject(g)' = None <=> Subject(g) = None
      /\ Subject(g) # None =>
            /\ Subject(g)'.version = Subject(g).version
            /\ Subject(g)'.kind = Subject(g).kind
            /\ Subject(g)'.params = Subject(g).params
  BY <1>2, <1>3 DEF Subject
<1>5. ASSUME NEW i \in Existing(t)'
      PROVE  i \in Existing(t) /\ rows'[t][i].name = rows[t][i].name
  BY <1>2, <1>3, <1>5 DEF Existing
<1> QED
  BY <1>2, <1>4, <1>5 DEF Current

\* Nor does a request read anything that is not there.
LEMMA ReadStep ==
    ASSUME TypeOK, PlaceInv, DeviceInv, DirtyInv, ReadInv, [Next]_vars PROVE ReadInv'
<1>1. CASE JobEnds \/ UNCHANGED vars
  BY <1>1 DEF JobEnds, vars, history, ReadInv, Current, Subject, Existing, Raced
<1>2. ASSUME NEW h \in Handlers, Arrive(h) PROVE ReadInv'
  <2>1. PICK q \in Requests, c \in First : Opens(h, q, c)
    BY <1>2, Arrival
  <2>2. ASSUME NEW g \in Handlers, g # h, pc'[g] # "idle", ~Raced(g)' PROVE Current(g)'
    <3>1. /\ pc'[g] = pc[g] /\ request'[g] = request[g]
          /\ UNCHANGED <<rows, raced, dirty>>
      BY <2>1, <2>2 DEF Opens, TypeOK
    <3>2. Current(g)
      BY <2>2, <3>1 DEF ReadInv, Raced
    <3> QED
      BY <3>1, <3>2 DEF Current, Subject, Existing
  <2>3. ~dirty'[h] /\ pc'[h] = c /\ request'[h] = q
    BY <2>1 DEF Opens, DirtyInv, TypeOK
  <2>4. Current(h)'
    BY <2>1, <2>3 DEF Current, Opens, First
  <2> QED
    BY <2>2, <2>4 DEF ReadInv
<1>3. ASSUME NEW h \in Handlers, Call(h) PROVE ReadInv'
  <2> DEFINE q == request[h]
             Reads == pc'[h] # "idle" /\ ~Raced(h)' => Current(h)'
  <2>1. pc[h] # "idle" /\ q \in Requests /\ q.table \in Tables
    BY <1>3, CallersHaveRequests DEF Requests
  <2>2. ASSUME \/ Finish(h) \/ FindToDelete(h) \/ FindQueue(h) \/ FindPrinter(h) \/ Reload(h)
               \/ Remove(h) \/ Count(h) \/ ResetIds(h) \/ MergeParams(h)
        PROVE  Reads
    <3>1. pc'[h] \notin {"find", "check", "write", "reload", "mergeParams", "setCaps", "insert"}
      BY <2>2 DEF Finish, FindToDelete, FindQueue, FindPrinter, Reload, Remove, Count, ResetIds,
           MergeParams, GoTo, TypeOK
    <3> QED
      BY <3>1 DEF Current
  <2>3. ASSUME Switch(h) PROVE Reads
    <3>1. pc'[h] = "find" /\ request' = request /\ rows' = rows
      BY <2>3 DEF Switch, GoTo, TypeOK
    <3>2. q.table = "device" /\ q.id = 1 /\ 1 \in Ids
      BY <2>1, <2>3, RegistryAssumption DEF Switch, At, PlaceInv, Ids
    <3> QED
      BY <3>1, <3>2 DEF Current, Subject, DeviceInv
  <2>4. ASSUME FindVersion(h) PROVE Reads
    <3>1. /\ pc'[h] = "check" /\ rows' = rows /\ Subject(h) # None
          /\ request'[h].table = q.table /\ request'[h].id = q.id
          /\ request'[h].version = Subject(h).version
      BY <2>1, <2>4 DEF FindVersion, GoTo, TypeOK, Requests
    <3> QED
      BY <3>1 DEF Current, Subject
  <2>5. ASSUME ReadCapabilities(h), ~Finish(h) PROVE Reads
    <3>1. /\ pc'[h] = "setCaps" /\ rows' = rows
          /\ request'[h].table = q.table /\ request'[h].id = q.id
          /\ request'[h].kind = Subject(h).kind
      BY <2>1, <2>5 DEF ReadCapabilities, GoTo, TypeOK, Requests
    <3> QED
      BY <3>1 DEF Current, Subject
  <2>6. ASSUME ReadParams(h) PROVE Reads
    <3>1. /\ pc'[h] = "mergeParams" /\ rows' = rows
          /\ request'[h].table = q.table /\ request'[h].id = q.id
          /\ request'[h].params = Subject(h).params
      BY <2>1, <2>6 DEF ReadParams, GoTo, TypeOK, Requests
    <3> QED
      BY <3>1 DEF Current, Subject
  <2>7. ASSUME Check(h), ~Finish(h) PROVE Reads
    <3>1. /\ pc'[h] = "write" /\ rows' = rows /\ request' = request
          /\ Subject(h) # None /\ Subject(h).version = q.version
      BY <2>7 DEF Check, GoTo, TypeOK
    <3> QED
      BY <3>1 DEF Current, Subject
  <2>8. ASSUME Write(h) PROVE Reads
    <3>1. pc'[h] = "reload" /\ request' = request /\ pc[h] = "write"
      BY <2>8 DEF Write, GoTo, At, TypeOK
    <3>2. ASSUME ~Raced(h)' PROVE Subject(h)' # None
      <4>1. CASE Subject(h) # None
        <5>1. SetRow(h, q.table, q.id, Edited(Subject(h), q))
          BY <2>8, <4>1 DEF Write
        <5>2. Subject(h) \in Rows /\ q.id \in Ids
          BY <2>1, <4>1, SubjectIsARow
        <5>3. Edited(Subject(h), q) \in Rows
          BY <2>1, <5>2, EditedIsARow
        <5>4. rows'[q.table][q.id] = Edited(Subject(h), q)
          BY <2>1, <5>1, <5>2, <5>3, OneRowIsSet
        <5> QED
          BY <3>1, <5>2, <5>3, <5>4, NoneAssumption DEF Subject
      <4>2. CASE Subject(h) = None
        <5>1. raced' = raced
          BY <2>8, <4>2 DEF Write
        <5>2. Current(h)
          BY <2>1, <3>1, <3>2, <5>1 DEF ReadInv, Raced
        <5> QED
          BY <3>1, <4>2, <5>2 DEF Current
      <4> QED
        BY <4>1, <4>2
    <3> QED
      BY <3>1, <3>2 DEF Current
  <2>9. ASSUME Insert(h) PROVE Reads
    <3> DEFINE r == Fresh(births[q.table] + 1, q.name, q.kind)
    <3>1. r \in Rows
      BY <2>1 DEF TypeOK, Requests, Fresh, Rows
    <3>2. PICK i \in Ids : SetRow(h, q.table, i, r) /\ request' = [request EXCEPT ![h].id = i]
      BY <2>9 DEF Insert
    <3> HIDE DEF r
    <3>3. rows'[q.table][i] = r
      BY <2>1, <3>1, <3>2, OneRowIsSet
    <3>4. request'[h].table = q.table /\ request'[h].id = i /\ pc'[h] = "reload"
      BY <2>1, <2>9, <3>2 DEF Insert, GoTo, TypeOK, Requests
    <3> QED
      BY <3>1, <3>3, <3>4, NoneAssumption DEF Current, Subject
  <2>10. ASSUME LookUp(h) PROVE Reads
    <3> DEFINE t == FirstOf(q.items)
               found == Named(t, q.name)
    <3>1. t \in Tables
      <4>1. q.items # {} /\ q.items \subseteq Imported
        BY <2>1, <2>10 DEF LookUp, At, PlaceInv
      <4> QED
        BY <4>1, FirstIsOneOfThem, RegistryAssumption DEF Tables
    <3>2. PICK i \in IF found = {} THEN {0} ELSE found :
               request' = [request EXCEPT ![h].table = t, ![h].id = i, ![h].items = @ \ {t}]
      BY <2>10 DEF LookUp
    <3>3. /\ rows' = rows /\ request'[h].table = t /\ request'[h].id = i
          /\ request'[h].name = q.name
      BY <2>1, <2>10, <3>2 DEF LookUp, TypeOK, Requests
    <3>4. CASE found = {}
      <4>1. pc'[h] = "insert"
        BY <2>10, <3>4 DEF LookUp, GoTo, TypeOK
      <4>2. \A k \in Existing(t) : rows[t][k].name # q.name
        BY <3>1, <3>4, NothingNamed
      <4> QED
        BY <3>3, <4>1, <4>2 DEF Current, Existing
    <3>5. CASE found # {}
      <4>1. pc'[h] = "find"
        BY <2>10, <3>5 DEF LookUp, GoTo, TypeOK
      <4>2. i \in Ids /\ rows[t][i] # None
        BY <3>2, <3>5 DEF Named, Existing
      <4> QED
        BY <3>3, <4>1, <4>2 DEF Current, Subject
    <3> QED
      BY <3>4, <3>5
  <2>11. Reads
    BY <1>3, <2>2, <2>3, <2>4, <2>5, <2>6, <2>7, <2>8, <2>9, <2>10
       DEF Call, NotFound, SetCapabilities, RefuseItem, Enqueue, AppendAudit
  <2>12. ASSUME NEW g \in Handlers, g # h, pc'[g] # "idle", ~Raced(g)' PROVE Current(g)'
    <3>1. pc'[g] = pc[g] /\ request'[g] = request[g] /\ raced[g] \subseteq raced'[g]
      BY <1>3, <2>12, OthersWait
    <3>2. Current(g) /\ request[g].table \notin raced'[g]
      BY <2>12, <3>1 DEF ReadInv, Raced
    <3> QED
      BY <1>3, <2>12, <3>1, <3>2, CurrentStays
  <2> QED
    BY <2>11, <2>12 DEF ReadInv
<1> QED
  BY <1>1, <1>2, <1>3 DEF Next

-----------------------------------------------------------------------------
(* The theorems.                                                           *)

\* The service begins with its rows as they were found.
LEMMA RegistryStarts == Init => RegistryInv
<1> SUFFICES ASSUME Init PROVE RegistryInv
  OBVIOUS
<1>1. \A t \in Tables : Rows0(t) \in Nat /\ Rows0(t) <= MaxId
  BY RegistryAssumption DEF Rows0, Tables
<1>2. \A i \in Ids : Row0(i) \in Rows /\ Row0(i).life = i
  BY BlankIsAKind, RegistryAssumption DEF Row0, Fresh, Rows, Ids
<1>3. \A t \in Tables, i \in Ids : rows[t][i] = IF i <= Rows0(t) THEN Row0(i) ELSE None
  BY DEF Init
<1>4. \A t \in Tables : shown[t] \subseteq Ids \X Nat \X Nat
  BY <1>1, RegistryAssumption DEF Init, Ids
<1>5. TypeOK
  <2>1. rows \in [Tables -> [Ids -> Rows \cup {None}]]
    BY <1>2 DEF Init
  <2>2. sequence \in [Tables -> Nat] /\ births \in [Tables -> Nat]
    BY <1>1 DEF Init
  <2>3. shown \in [Tables -> SUBSET (Ids \X Nat \X Nat)]
    BY <1>4 DEF Init
  <2>4. /\ pc \in [Handlers -> Calls] /\ request \in [Handlers -> Requests \cup {None}]
        /\ \A h \in Handlers : request[h] = None <=> At(h, "idle")
    BY DEF Init, Calls, At
  <2>5. /\ raced \in [Handlers -> SUBSET Tables] /\ dirty \in [Handlers -> BOOLEAN]
        /\ emptied \in BOOLEAN /\ jobs \subseteq [id : Ids, life : Nat] /\ came \in Nat
    BY DEF Init
  <2> QED
    BY <2>1, <2>2, <2>3, <2>4, <2>5 DEF TypeOK
<1>6. PlaceInv /\ DirtyInv /\ ReadInv
  BY DEF Init, PlaceInv, DirtyInv, ReadInv
<1>7. DeviceInv
  <2>1. 1 \in Ids /\ "device" \in Tables /\ Rows0("device") = 1
    BY RegistryAssumption DEF Ids, Tables, Rows0
  <2> QED
    BY <1>2, <1>3, <2>1, NoneAssumption DEF DeviceInv
<1>8. EmptiedInv
  <2>1. ASSUME Printers0 # 0 PROVE Existing("printers") # {}
    <3>1. 1 \in Ids /\ "printers" \in Tables /\ 1 <= Rows0("printers")
      BY <2>1, RegistryAssumption DEF Ids, Tables, Rows0
    <3> QED
      BY <1>2, <1>3, <3>1, NoneAssumption DEF Existing
  <2> QED
    BY <2>1 DEF EmptiedInv, Init
<1>9. NumberInv
  <2>1. \A t \in Tables : sequence[t] = Rows0(t)
    BY DEF Init
  <2>2. ASSUME NEW t \in Tables, NEW i \in Existing(t) PROVE i <= sequence[t]
    BY <1>3, <2>1, <2>2 DEF Existing
  <2>3. ASSUME NEW t \in Tables, NEW s \in shown[t] PROVE Bound(t, s[1], s[2])
    <3>1. PICK i \in 1..Rows0(t) : s = <<i, i, 1>>
      BY <2>3 DEF Init
    <3>2. i \in Ids /\ i <= Rows0(t)
      BY <1>1, RegistryAssumption DEF Ids
    <3> QED
      BY <1>2, <1>3, <2>1, <3>1, <3>2 DEF Bound
  <2> QED
    BY <2>2, <2>3 DEF NumberInv, Init
<1> QED
  BY <1>5, <1>6, <1>7, <1>8, <1>9 DEF RegistryInv

\* Every state of the registry has its types, requests that are where they should
\* be, ids that are handed out once while there are printers, and unraced requests
\* that know what there is.
THEOREM RegistryInvariance == Spec => []RegistryInv
<1>1. RegistryInv /\ [Next]_vars => RegistryInv'
  BY TypeStep, PlaceStep, EmptiedStep, NumberStep, DeviceStep, DirtyStep, ReadStep DEF RegistryInv
<1> QED
  BY <1>1, RegistryStarts, PTL DEF Spec

\* The tables, the requests and the histories have their types.
THEOREM RegistryTypeCorrect == Spec => []TypeOK
<1>1. RegistryInv => TypeOK
  BY DEF RegistryInv
<1> QED
  BY <1>1, RegistryInvariance, PTL

\* create_printer(), delete_printer(): a job never meets another printer under
\* the id it was accepted for, unless the table was empty at some time.
THEOREM JobsKeepTheirs == Spec => []JobsKeepTheirPrinter
<1>1. RegistryInv => JobsKeepTheirPrinter
  BY DEF RegistryInv, NumberInv, Bound, JobsKeepTheirPrinter
<1> QED
  BY <1>1, RegistryInvariance, PTL

\* _check_version() and the UPDATE after it: no lost update between requests that
\* do not overlap, whatever came before.
THEOREM NoLostUpdate == Spec => UnracedEditsLand
<1> DEFINE
      Lands == \A h \in Handlers : Writes(h) /\ ~Raced(h) =>
                   /\ Subject(h).version = request[h].version
                   /\ Subject(h).life = request[h].life \/ emptied
<1>1. RegistryInv => Lands
  <2> SUFFICES ASSUME RegistryInv, NEW h \in Handlers, Writes(h), ~Raced(h)
               PROVE  /\ Subject(h).version = request[h].version
                      /\ Subject(h).life = request[h].life \/ emptied
    OBVIOUS
  <2>1. pc[h] = "write" /\ Subject(h) # None /\ request[h] \in Requests
    BY DEF Writes, At, RegistryInv, TypeOK
  <2>2. Subject(h).version = request[h].version
    BY <2>1 DEF RegistryInv, ReadInv, Current
  <2>3. Subject(h) = rows[request[h].table][request[h].id]
    BY <2>1, SubjectIsARow DEF RegistryInv
  <2>4. Subject(h).life = request[h].life \/ emptied
    BY <2>1, <2>3 DEF RegistryInv, NumberInv, Bound
  <2> QED
    BY <2>2, <2>4
<1> QED
  BY <1>1, RegistryInvariance, PTL DEF UnracedEditsLand

\* import_yaml(): what it inserts was not there, unless somebody else put it there.
THEOREM NoTwins == Spec => ImportMakesNoTwins
<1> DEFINE
      New == \A h \in Handlers :
                 At(h, "insert") /\ pc'[h] = "reload" /\ request[h].endpoint # "post"
                 /\ ~Raced(h) =>
                     \A i \in Existing(request[h].table) :
                         rows[request[h].table][i].name # request[h].name
<1>1. RegistryInv => New
  BY DEF RegistryInv, ReadInv, Current, At
<1> QED
  BY <1>1, RegistryInvariance, PTL DEF ImportMakesNoTwins

\* What a call makes of a printer: a row whose parameters are its own and that has
\* no capabilities, or parameters or capabilities put into the row there was.
LEMMA PrinterBecomes ==
    ASSUME RegistryInv, NEW h \in Handlers, Call(h), NEW i \in Ids,
           rows'["printers"][i] # None, rows'["printers"][i] # rows["printers"][i]
    PROVE  LET r == rows["printers"][i]
               s == rows'["printers"][i]
           IN  \/ s.params = s.kind /\ s.caps = None
               \/ /\ pc[h] = "mergeParams" /\ r # None /\ Subject(h) = r
                  /\ s = [r EXCEPT !.params = request[h].params]
               \/ /\ pc[h] = "setCaps" /\ r # None /\ Subject(h) = r
                  /\ s.kind = r.kind /\ s.params = r.params /\ s.caps = request[h].kind
<1> DEFINE q == request[h]
           r == rows["printers"][i]
           s == rows'["printers"][i]
<1> USE DEF RegistryInv
<1>1. /\ pc[h] # "idle" /\ q \in Requests /\ q.table \in Tables /\ "printers" \in Tables
  BY CallersHaveRequests DEF Requests, Tables
<1>2. CASE Write(h)
  <2>1. Subject(h) # None /\ SetRow(h, q.table, q.id, Edited(Subject(h), q))
    BY <1>1, <1>2 DEF Write
  <2>2. Subject(h) \in Rows
    BY <1>1, <2>1, SubjectIsARow
  <2>3. Edited(Subject(h), q) \in Rows
    BY <1>1, <2>2, EditedIsARow
  <2>4. s = Edited(Subject(h), q)
    BY <1>1, <2>1, <2>3, OneRowIsSet
  <2>5. s.params = s.kind /\ s.caps = None
    BY <2>2, <2>4 DEF Edited, Rows
  <2> QED
    BY <2>5
<1>3. CASE Insert(h)
  <2> DEFINE new == Fresh(births[q.table] + 1, q.name, q.kind)
  <2>1. new \in Rows
    BY <1>1 DEF TypeOK, Requests, Fresh, Rows
  <2>2. PICK k \in Ids : SetRow(h, q.table, k, new)
    BY <1>3 DEF Insert
  <2>3. new.params = new.kind /\ new.caps = None
    BY DEF Fresh
  <2> HIDE DEF new
  <2>4. s = new
    BY <1>1, <2>1, <2>2, OneRowIsSet
  <2> QED
    BY <2>3, <2>4
<1>4. CASE MergeParams(h)
  <2> DEFINE new == [Subject(h) EXCEPT !.params = q.params]
  <2>1. Subject(h) # None /\ SetRow(h, "printers", q.id, new) /\ pc[h] = "mergeParams"
    BY <1>1, <1>4 DEF MergeParams, At
  <2>2. q.table = "printers"
    BY <1>1, <2>1 DEF PlaceInv
  <2>3. Subject(h) = rows[q.table][q.id] /\ Subject(h) \in Rows
    BY <1>1, <2>1, SubjectIsARow
  <2>4. new \in Rows
    BY <1>1, <2>3, MergedIsARow DEF Requests
  <2> HIDE DEF new
  <2>5. i = q.id /\ s = new
    BY <1>1, <2>1, <2>4, OneRowIsSet
  <2> QED
    BY <2>1, <2>2, <2>3, <2>5 DEF new
<1>5. CASE SetCapabilities(h)
  <2>1. pc[h] = "setCaps"
    BY <1>5 DEF SetCapabilities, At
  <2>2. r # None /\ s.kind = r.kind /\ s.params = r.params
    BY <1>1, <1>5, CapsAreSet
  <2>3. Subject(h) = r /\ s.caps = q.kind
    BY <1>1, <1>5, CapsAreSet
  <2> QED
    BY <2>1, <2>2, <2>3
<1>6. CASE Remove(h)
  <2>1. SetRow(h, q.table, q.id, None)
    BY <1>6 DEF Remove
  <2>2. s = None
    BY <1>1, <2>1, OneRowIsSet
  <2> QED
    BY <2>2
<1>7. ~(Write(h) \/ Insert(h) \/ Remove(h) \/ MergeParams(h) \/ SetCapabilities(h)) => rows' = rows
  BY DEF Call, Switch, NotFound, FindToDelete, FindVersion, FindQueue, ReadCapabilities,
         FindPrinter, Check, Reload, Count, ResetIds, ReadParams, LookUp, RefuseItem, Enqueue,
         AppendAudit
<1> QED
  BY <1>2, <1>3, <1>4, <1>5, <1>6, <1>7

\* Only a call changes a printer.
LEMMA CallsChangePrinters ==
    ASSUME TypeOK, Next, rows' # rows PROVE \E h \in Handlers : Call(h)
<1>1. ASSUME NEW h \in Handlers, Arrive(h) PROVE rows' = rows
  BY <1>1, Arrival DEF Opens
<1> QED
  BY <1>1 DEF Next, JobEnds

\* update_printer_params(): parameters of another type come only of an overlap.
THEOREM ParamsFitTheirPrinter == Spec => OnlyRacesMixParams
<1> DEFINE
      Mixed(table, i) == table[i] # None /\ table[i].params # table[i].kind
      Fit == \A i \in Ids :
                 Mixed(rows'["printers"], i) /\ ~Mixed(rows["printers"], i) =>
                     \E h \in Handlers : At(h, "mergeParams") /\ Raced(h)
<1>1. RegistryInv /\ [Next]_vars => [Fit]_vars
  <2> SUFFICES ASSUME RegistryInv, Next, NEW i \in Ids,
                      Mixed(rows'["printers"], i), ~Mixed(rows["printers"], i)
               PROVE  \E h \in Handlers : At(h, "mergeParams") /\ Raced(h)
    OBVIOUS
  <2> DEFINE r == rows["printers"][i]
             s == rows'["printers"][i]
  <2>1. PICK h \in Handlers : Call(h)
    BY CallsChangePrinters DEF RegistryInv
  <2>2. pc[h] = "mergeParams" /\ r # None /\ Subject(h) = r
        /\ s = [r EXCEPT !.params = request[h].params]
    BY <2>1, PrinterBecomes
  <2>3. CASE ~Raced(h)
    <3>1. r.params = request[h].params
      BY <2>2, <2>3 DEF RegistryInv, ReadInv, Current
    <3>2. r \in Rows
      BY <2>2 DEF RegistryInv, TypeOK, Tables
    <3>3. s.params = r.params /\ s.kind = r.kind
      BY <2>2, <3>1, <3>2 DEF Rows
    <3> QED
      BY <2>2, <3>3
  <2> QED
    BY <2>2, <2>3 DEF At
<1> QED
  BY <1>1, RegistryInvariance, PTL DEF Spec, OnlyRacesMixParams

\* set_capabilities(): capabilities of another type come only of an overlap.
THEOREM CapsFitTheirPrinter == Spec => OnlyRacesStaleCaps
<1> DEFINE
      Stale(table, i) == table[i] # None /\ table[i].caps \notin {None, table[i].kind}
      Fit == \A i \in Ids :
                 Stale(rows'["printers"], i) /\ ~Stale(rows["printers"], i) =>
                     \E h \in Handlers : At(h, "setCaps") /\ Raced(h)
<1>1. RegistryInv /\ [Next]_vars => [Fit]_vars
  <2> SUFFICES ASSUME RegistryInv, Next, NEW i \in Ids,
                      Stale(rows'["printers"], i), ~Stale(rows["printers"], i)
               PROVE  \E h \in Handlers : At(h, "setCaps") /\ Raced(h)
    OBVIOUS
  <2> DEFINE r == rows["printers"][i]
             s == rows'["printers"][i]
  <2>1. PICK h \in Handlers : Call(h)
    BY CallsChangePrinters DEF RegistryInv
  <2>2. \/ /\ pc[h] = "mergeParams" /\ r # None
           /\ s = [r EXCEPT !.params = request[h].params]
        \/ /\ pc[h] = "setCaps" /\ r # None /\ Subject(h) = r
           /\ s.kind = r.kind /\ s.caps = request[h].kind
    BY <2>1, PrinterBecomes
  <2>3. r # None => r \in Rows
    BY DEF RegistryInv, TypeOK, Tables
  <2>4. CASE pc[h] = "mergeParams"
    <3>1. s.caps = r.caps /\ s.kind = r.kind
      BY <2>2, <2>3, <2>4 DEF Rows
    <3> QED
      BY <2>2, <3>1
  <2>5. CASE pc[h] = "setCaps" /\ ~Raced(h)
    <3>1. r.kind = request[h].kind
      BY <2>2, <2>5 DEF RegistryInv, ReadInv, Current
    <3> QED
      BY <2>2, <2>5, <3>1
  <2> QED
    BY <2>2, <2>4, <2>5 DEF At
<1> QED
  BY <1>1, RegistryInvariance, PTL DEF Spec, OnlyRacesStaleCaps

\* config_change() at the end of each endpoint: a request that changed something does
\* not end without it, but for a refused item of an import or an overlap.
THEOREM AuditedUnlessRaced == Spec => ChangesAreAudited
<1> DEFINE
      Audited == \A h \in Handlers :
                     dirty[h] /\ pc'[h] = "idle" => pc[h] \in {"audit", "lookup"} \/ Raced(h)
<1>1. RegistryInv /\ [Next]_vars => [Audited]_vars
  <2> SUFFICES ASSUME RegistryInv, Next, NEW h \in Handlers, dirty[h], pc'[h] = "idle",
                      pc[h] \notin {"audit", "lookup"}, ~Raced(h)
               PROVE  FALSE
    OBVIOUS
  <2>1. /\ pc[h] # "idle" /\ request[h] \in Requests /\ request[h].endpoint \notin OnPrinters
    BY DEF RegistryInv, DirtyInv, TypeOK, At
  <2>2. Current(h)
    BY <2>1 DEF RegistryInv, ReadInv
  <2>3. Call(h)
    <3>1. PICK g \in Handlers : Arrive(g) \/ Call(g)
      BY <2>1 DEF Next, JobEnds
    <3>2. CASE Arrive(g)
      <4>1. PICK q \in Requests, c \in First : Opens(g, q, c)
        BY <3>2, Arrival DEF RegistryInv
      <4> QED
        BY <2>1, <4>1 DEF Opens, First, RegistryInv, TypeOK
    <3>3. CASE Call(g) /\ g # h
      BY <2>1, <3>3, OthersWait DEF RegistryInv
    <3> QED
      BY <3>1, <3>2, <3>3
  <2>4. \/ NotFound(h) /\ pc[h] \in {"find", "reload"}
        \/ Check(h) /\ ~(Subject(h) # None /\ Subject(h).version = request[h].version)
    <3>1. pc[h] \notin {"readParams", "setCaps", "enqueue"}
      BY <2>1 DEF RegistryInv, PlaceInv
    <3> QED
      BY <2>1, <2>3, <3>1
         DEF Call, Switch, NotFound, FindToDelete, FindVersion, FindQueue, ReadCapabilities,
             FindPrinter, Check, Write, Reload, Insert, Remove, Count, ResetIds, ReadParams,
             MergeParams, SetCapabilities, LookUp, RefuseItem, Enqueue, AppendAudit, GoTo, At,
             RegistryInv, TypeOK, OnPrinters
  <2> QED
    BY <2>2, <2>4 DEF Current, NotFound, Check, At
<1> QED
  BY <1>1, RegistryInvariance, PTL DEF Spec, ChangesAreAudited

-----------------------------------------------------------------------------
(* Registry implements VersionedTable, whichever table one looks at.       *)

\* Every row was shown, and what was shown is numbered no further than the table.
SeenInv ==
    \A t \in Tables :
        /\ \A i \in Existing(t) : <<i, rows[t][i].life, rows[t][i].version>> \in shown[t]
        /\ (t = "printers" /\ emptied) \/ \A s \in shown[t] : s[1] <= sequence[t]

\* The rows the service finds count as shown.
LEMMA SeenStarts == Init => SeenInv
<1> SUFFICES ASSUME Init, NEW t \in Tables
             PROVE  /\ \A i \in Existing(t) :
                           <<i, rows[t][i].life, rows[t][i].version>> \in shown[t]
                    /\ \A s \in shown[t] : s[1] <= sequence[t]
  BY DEF SeenInv
<1>1. Rows0(t) \in Nat /\ Rows0(t) <= MaxId
  BY RegistryAssumption DEF Rows0, Tables
<1>2. ASSUME NEW i \in Existing(t)
      PROVE  <<i, rows[t][i].life, rows[t][i].version>> \in shown[t]
  <2>1. i \in 1..Rows0(t) /\ rows[t][i] = Row0(i)
    BY <1>1, RegistryAssumption DEF Existing, Init, Ids
  <2>2. rows[t][i].life = i /\ rows[t][i].version = 1
    BY <2>1 DEF Row0, Fresh
  <2>3. <<i, i, 1>> \in shown[t]
    BY <2>1 DEF Init
  <2> QED
    BY <2>2, <2>3
<1>3. \A s \in shown[t] : s[1] <= sequence[t]
  BY <1>1 DEF Init
<1> QED
  BY <1>2, <1>3

\* What an update changes of a row.
LEMMA EditedShows ==
    ASSUME NEW r \in Rows, NEW q \in Requests
    PROVE  /\ Edited(r, q).version = r.version + 1
           /\ Edited(r, q).name = q.name /\ Edited(r, q).kind = q.kind
  BY DEF Edited, Rows

\* The calls that write to a table.
LEMMA FewCallsWrite ==
    ASSUME NEW h \in Handlers, Call(h),
           ~(Write(h) \/ Insert(h) \/ Remove(h) \/ MergeParams(h) \/ SetCapabilities(h))
    PROVE  rows' = rows
  BY DEF Call, Switch, NotFound, FindToDelete, FindVersion, FindQueue, ReadCapabilities,
         FindPrinter, Check, Reload, Count, ResetIds, ReadParams, LookUp, RefuseItem, Enqueue,
         AppendAudit

\* A row that is there after a call was there with the same version, or is shown.
LEMMA WrittenIsShown ==
    ASSUME TypeOK, PlaceInv, NEW h \in Handlers, Call(h), NEW t \in Tables, NEW i \in Ids,
           rows'[t][i] # None
    PROVE  \/ /\ rows[t][i] # None
              /\ rows'[t][i].life = rows[t][i].life
              /\ rows'[t][i].version = rows[t][i].version
           \/ <<i, rows'[t][i].life, rows'[t][i].version>> \in shown'[t]
<1> DEFINE q == request[h]
           old == rows[t][i]
           got == rows'[t][i]
<1>1. pc[h] # "idle" /\ q \in Requests /\ q.table \in Tables
  BY CallersHaveRequests DEF Requests
<1>2. CASE got = old
  BY <1>1, <1>2
<1>3. CASE got # old /\ Write(h)
  <2>1. /\ Subject(h) # None /\ SetRow(h, q.table, q.id, Edited(Subject(h), q))
        /\ Show(q.table, q.id, Edited(Subject(h), q))
    BY <1>3 DEF Write
  <2>2. Subject(h) \in Rows
    BY <1>1, <2>1, SubjectIsARow
  <2>3. Edited(Subject(h), q) \in Rows
    BY <1>1, <2>2, EditedIsARow
  <2>4. t = q.table /\ i = q.id /\ got = Edited(Subject(h), q)
    BY <1>1, <1>3, <2>1, <2>3, OneRowIsSet
  <2> QED
    BY <1>1, <2>1, <2>4 DEF Show, TypeOK
<1>4. CASE got # old /\ Insert(h)
  <2> DEFINE new == Fresh(births[q.table] + 1, q.name, q.kind)
  <2>1. new \in Rows
    BY <1>1 DEF TypeOK, Requests, Fresh, Rows
  <2>2. PICK k \in Ids : SetRow(h, q.table, k, new) /\ Show(q.table, k, new)
    BY <1>4 DEF Insert
  <2> HIDE DEF new
  <2>3. t = q.table /\ i = k /\ got = new
    BY <1>1, <1>4, <2>1, <2>2, OneRowIsSet
  <2> QED
    BY <1>1, <2>2, <2>3 DEF Show, TypeOK
<1>5. CASE got # old /\ MergeParams(h)
  <2> DEFINE new == [Subject(h) EXCEPT !.params = q.params]
  <2>1. Subject(h) # None /\ SetRow(h, "printers", q.id, new) /\ pc[h] = "mergeParams"
    BY <1>1, <1>5 DEF MergeParams, At
  <2>2. q.table = "printers"
    BY <1>1, <2>1 DEF PlaceInv
  <2>3. Subject(h) = rows[q.table][q.id] /\ Subject(h) \in Rows
    BY <1>1, <2>1, SubjectIsARow
  <2>4. new \in Rows /\ new.life = Subject(h).life /\ new.version = Subject(h).version
    BY <1>1, <2>3 DEF Requests, Rows
  <2> HIDE DEF new
  <2>5. t = "printers" /\ i = q.id /\ got = new
    BY <1>1, <1>5, <2>1, <2>2, <2>4, OneRowIsSet
  <2> QED
    BY <2>1, <2>2, <2>3, <2>4, <2>5
<1>6. CASE got # old /\ SetCapabilities(h)
  BY <1>1, <1>6, CapsAreSet
<1>7. CASE got # old /\ Remove(h)
  <2>1. SetRow(h, q.table, q.id, None)
    BY <1>7 DEF Remove
  <2> QED
    BY <1>1, <1>7, <2>1, OneRowIsSet
<1>8. ~(Write(h) \/ Insert(h) \/ Remove(h) \/ MergeParams(h) \/ SetCapabilities(h)) => rows' = rows
  BY FewCallsWrite
<1> QED
  BY <1>2, <1>3, <1>4, <1>5, <1>6, <1>7, <1>8

\* What was shown stays so, and the numbering goes on except from an empty table.
LEMMA SeenGrows ==
    ASSUME TypeOK, EmptiedInv, NEW h \in Handlers, Call(h), NEW t \in Tables
    PROVE  /\ emptied => emptied'
           /\ shown[t] \subseteq shown'[t]
           /\ ~Write(h) /\ ~Insert(h) => shown' = shown
           /\ sequence[t] <= sequence'[t] \/ (t = "printers" /\ emptied)
<1> DEFINE q == request[h]
<1>1. emptied => emptied'
  BY DEF Call, Switch, NotFound, FindToDelete, FindVersion, FindQueue, ReadCapabilities,
         FindPrinter, Check, Write, Reload, Insert, Remove, Count, ResetIds, ReadParams,
         MergeParams, SetCapabilities, LookUp, RefuseItem, Enqueue, AppendAudit, history
<1>2. ~Write(h) /\ ~Insert(h) => shown' = shown
  BY DEF Call, Switch, NotFound, FindToDelete, FindVersion, FindQueue, ReadCapabilities,
         FindPrinter, Check, Reload, Remove, Count, ResetIds, ReadParams,
         MergeParams, SetCapabilities, LookUp, RefuseItem, Enqueue, AppendAudit, history
<1>3. shown[t] \subseteq shown'[t]
  <2>1. \A u, i, r : Show(u, i, r) => shown[t] \subseteq shown'[t]
    BY DEF Show, TypeOK
  <2>2. Write(h) => shown' = shown \/ Show(q.table, q.id, Edited(Subject(h), q))
    BY DEF Write
  <2>3. Insert(h) =>
            \E i \in Ids : Show(q.table, i, Fresh(births[q.table] + 1, q.name, q.kind))
    BY DEF Insert
  <2> QED
    BY <1>2, <2>1, <2>2, <2>3
<1>4. sequence[t] \in Nat
  BY DEF TypeOK
<1>5. CASE Insert(h)
  <2>1. PICK i \in Ids : IsNextId(q.table, i) /\ sequence' = [sequence EXCEPT ![q.table] = i]
    BY <1>5 DEF Insert
  <2>2. sequence[q.table] < i
    BY <2>1 DEF IsNextId
  <2> QED
    BY <1>1, <1>2, <1>3, <1>4, <2>1, <2>2 DEF TypeOK, Ids
<1>6. CASE ResetIds(h)
  <2>1. pc[h] = "reset" /\ sequence' = [sequence EXCEPT !["printers"] = 0]
    BY <1>6 DEF ResetIds, At
  <2>2. emptied
    BY <2>1 DEF EmptiedInv
  <2>3. t # "printers" => sequence'[t] = sequence[t]
    BY <2>1 DEF TypeOK
  <2> QED
    BY <1>1, <1>2, <1>3, <1>4, <2>2, <2>3
<1>7. ~Insert(h) /\ ~ResetIds(h) => sequence' = sequence
  BY DEF Call, Switch, NotFound, FindToDelete, FindVersion, FindQueue, ReadCapabilities,
         FindPrinter, Check, Write, Reload, Remove, Count, ReadParams,
         MergeParams, SetCapabilities, LookUp, RefuseItem, Enqueue, AppendAudit
<1> QED
  BY <1>1, <1>2, <1>3, <1>4, <1>5, <1>6, <1>7

\* Every step shows what it writes, under an id that was given out.
LEMMA SeenStep == ASSUME RegistryInv, SeenInv, [Next]_vars PROVE SeenInv'
<1> USE DEF RegistryInv
<1>1. CASE JobEnds \/ UNCHANGED vars
  BY <1>1 DEF JobEnds, vars, history, SeenInv, Existing
<1>2. ASSUME NEW h \in Handlers, Arrive(h) PROVE SeenInv'
  <2>1. UNCHANGED <<rows, sequence, shown, emptied>>
    BY <1>2, Arrival DEF Opens
  <2> QED
    BY <2>1 DEF SeenInv, Existing
<1>3. ASSUME NEW h \in Handlers, Call(h), NEW t \in Tables
      PROVE  /\ \A i \in Ids : rows'[t][i] # None =>
                    <<i, rows'[t][i].life, rows'[t][i].version>> \in shown'[t]
             /\ (t = "printers" /\ emptied') \/ \A s \in shown'[t] : s[1] <= sequence'[t]
  <2> DEFINE q == request[h]
  <2>1. /\ \A i \in Existing(t) : <<i, rows[t][i].life, rows[t][i].version>> \in shown[t]
        /\ (t = "printers" /\ emptied) \/ \A s \in shown[t] : s[1] <= sequence[t]
    BY DEF SeenInv
  <2>2. /\ emptied => emptied'
        /\ shown[t] \subseteq shown'[t]
        /\ ~Write(h) /\ ~Insert(h) => shown' = shown
        /\ sequence[t] <= sequence'[t] \/ (t = "printers" /\ emptied)
    BY <1>3, SeenGrows
  <2>3. ASSUME NEW i \in Ids, rows'[t][i] # None
        PROVE  <<i, rows'[t][i].life, rows'[t][i].version>> \in shown'[t]
    BY <1>3, <2>1, <2>2, <2>3, WrittenIsShown DEF Existing
  <2>4. q \in Requests /\ q.table \in Tables
    BY <1>3, CallersHaveRequests DEF Requests
  <2>5. /\ sequence \in [Tables -> Nat] /\ sequence[t] \in Nat
        /\ shown \in [Tables -> SUBSET (Ids \X Nat \X Nat)] /\ \A s \in shown[t] : s[1] \in Nat
    BY DEF TypeOK, Ids
  <2>6. ASSUME ~(t = "printers" /\ emptied')
        PROVE  \A s \in shown'[t] : s[1] <= sequence'[t]
    <3>1. (\A s \in shown[t] : s[1] <= sequence[t]) /\ sequence[t] <= sequence'[t]
      BY <2>1, <2>2, <2>6
    <3>2. CASE Write(h)
      <4>1. sequence' = sequence
        BY <3>2 DEF Write
      <4>2. CASE Subject(h) = None
        BY <3>1, <3>2, <4>1, <4>2 DEF Write
      <4>3. CASE Subject(h) # None
        <5> DEFINE r == Edited(Subject(h), q)
        <5>1. shown' = [shown EXCEPT ![q.table] = @ \cup {<<q.id, r.life, r.version>>}]
          BY <3>2, <4>3 DEF Write, Show
        <5>2. q.id \in Existing(q.table)
          BY <2>4, <4>3, SubjectIsARow DEF Existing
        <5> HIDE DEF r
        <5>3. ASSUME t = q.table PROVE q.id <= sequence[t]
          <6>1. \E s \in shown[t] : s[1] = q.id
            BY <2>1, <5>2, <5>3
          <6> QED
            BY <3>1, <6>1
        <5> QED
          BY <2>5, <3>1, <4>1, <5>1, <5>3
      <4> QED
        BY <4>2, <4>3
    <3>3. CASE Insert(h)
      <4> DEFINE r == Fresh(births[q.table] + 1, q.name, q.kind)
      <4>1. PICK i \in Ids : Show(q.table, i, r) /\ sequence' = [sequence EXCEPT ![q.table] = i]
        BY <3>3 DEF Insert
      <4> HIDE DEF r
      <4>2. shown' = [shown EXCEPT ![q.table] = @ \cup {<<i, r.life, r.version>>}]
        BY <4>1 DEF Show
      <4>3. t = q.table => sequence'[t] = i
        BY <2>5, <4>1
      <4>4. \A s \in shown'[t] : s \in shown[t] \/ (t = q.table /\ s = <<i, r.life, r.version>>)
        BY <2>5, <4>2
      <4>5. ASSUME NEW s \in shown'[t] PROVE s[1] <= sequence'[t]
        <5>1. sequence'[t] \in Nat
          BY <2>5, <4>1 DEF Ids
        <5>2. CASE s \in shown[t]
          BY <2>5, <3>1, <5>1, <5>2
        <5>3. CASE t = q.table /\ s = <<i, r.life, r.version>>
          BY <4>3, <5>1, <5>3
        <5> QED
          BY <4>4, <4>5, <5>2, <5>3
      <4> QED
        BY <4>5
    <3>4. CASE ~Write(h) /\ ~Insert(h)
      <4>1. sequence'[t] \in Nat
        BY <1>3, TypeStep DEF TypeOK, Next
      <4> QED
        BY <2>2, <2>5, <3>1, <3>4, <4>1
    <3> QED
      BY <3>2, <3>3, <3>4
  <2> QED
    BY <2>3, <2>6
<1>4. ASSUME NEW h \in Handlers, Call(h) PROVE SeenInv'
  BY <1>3, <1>4 DEF SeenInv, Existing
<1> QED
  BY <1>1, <1>2, <1>4 DEF Next

\* Whatever is there was shown, and ids go up.
LEMMA SeenInvariance == Spec => [](RegistryInv /\ SeenInv)
<1>1. RegistryInv /\ SeenInv /\ [Next]_vars => SeenInv'
  BY SeenStep
<1> QED
  BY <1>1, RegistryInvariance, SeenStarts, PTL DEF Spec

\* A step of the promise about table t, or nothing that it sees.
Keeps(t) == Promised(t)!Next \/ UNCHANGED Promised(t)!promise

\* What each kind of step comes to.
LEMMA PromisedSteps ==
    ASSUME NEW t \in Tables, NEW h \in Handlers
    PROVE  /\ Promised(t)!Leave(h) => Keeps(t)
           /\ Promised(t)!Touch(h) => Keeps(t)
           /\ \A s \in SeenVersions(t) : Promised(t)!Aim(h, s[1], s[2]) => Keeps(t)
           /\ \A c \in Contents : Promised(t)!Edit(h, c) => Keeps(t)
<1>1. Promised(t)!Leave(h) => Keeps(t)
  BY DEF Promised!Leave, Promised!AimsMove, Promised!NotesMove, Promised!Next, Promised!promise,
         Keeps
<1>2. Promised(t)!Touch(h) => Keeps(t)
  BY DEF Promised!Touch, Promised!NotesMove, Promised!Next, Promised!promise, Keeps
<1>3. ASSUME NEW s \in SeenVersions(t), Promised(t)!Aim(h, s[1], s[2]) PROVE Keeps(t)
  BY <1>3 DEF Promised!Aim, Promised!AimsMove, Promised!Next, Promised!promise, Keeps
<1>4. ASSUME NEW c \in Contents, Promised(t)!Edit(h, c) PROVE Keeps(t)
  <2>1. Aims(t)[h] # None /\ Aims(t)' = [Aims(t) EXCEPT ![h] = None]
    BY <1>4 DEF Promised!Edit
  <2>2. Aims(t)' # Aims(t)
    BY <2>1 DEF Aims
  <2>3. Promised(t)!AimsMove
    BY <1>4, <2>2, Zenon DEF Promised!AimsMove
  <2> QED
    BY <2>3 DEF Promised!Next, Keeps
<1> QED
  BY <1>1, <1>2, <1>3, <1>4

\* The same for the rows that come and go.
LEMMA PromisedRows ==
    ASSUME NEW t \in Tables, NEW h \in Handlers, NEW i \in Ids, VisibleRows(t)' # VisibleRows(t)
    PROVE  /\ Promised(t)!Remove(h, i) => Keeps(t)
           /\ \A c \in Contents : Promised(t)!Add(h, i, c) => Keeps(t)
  BY Zenon DEF Promised!RowsMove, Promised!Next, Keeps

\* A thread's aim changes and nobody else's.
LEMMA AimMoves ==
    ASSUME NEW t \in Tables, NEW h \in Handlers, NEW x, AimOf(h, t)' = x,
           \A g \in Handlers \ {h} : pc'[g] = pc[g] /\ request'[g] = request[g]
    PROVE  Aims(t)' = [Aims(t) EXCEPT ![h] = x]
  BY DEF Aims, AimOf

\* A thread that is not about to check or to write aims at nothing.
LEMMA NoAim ==
    ASSUME NEW t \in Tables, NEW h \in Handlers
    PROVE  /\ pc[h] \notin {"check", "write"} => AimOf(h, t) = None
           /\ pc'[h] \notin {"check", "write"} => AimOf(h, t)' = None
  BY DEF AimOf

\* A row of the table changes, and those who work on it are raced.
LEMMA RowMoves ==
    ASSUME TypeOK, NEW h \in Handlers, NEW u \in Tables, NEW i, NEW r \in Rows \cup {None},
           SetRow(h, u, i, r), NEW t \in Tables
    PROVE  /\ t = u /\ i \in Ids => VisibleRows(t)' = [VisibleRows(t) EXCEPT ![i] = Visible(r)]
           /\ t # u \/ i \notin Ids => VisibleRows(t)' = VisibleRows(t)
           /\ t # u => RacedIn(t)' = RacedIn(t)
           /\ t = u => Promised(t)!Disturb(h)
<1>1. \A v \in Tables, k \in Ids : rows'[v][k] = IF v = u /\ k = i THEN r ELSE rows[v][k]
  BY OneRowIsSet
<1>2. t = u /\ i \in Ids => VisibleRows(t)' = [VisibleRows(t) EXCEPT ![i] = Visible(r)]
  BY <1>1 DEF VisibleRows, Visible
<1>3. t # u \/ i \notin Ids => VisibleRows(t)' = VisibleRows(t)
  BY <1>1 DEF VisibleRows, Visible
<1>4. t # u => RacedIn(t)' = RacedIn(t)
  BY DEF SetRow, RacedIn, TypeOK
<1>5. ASSUME t = u PROVE Promised(t)!Disturb(h)
  <2> DEFINE others == {g \in Handlers : g # h /\ ~At(g, "idle")
                                           /\ u \in {request[g].table} \cup request[g].items}
  <2>1. others \in SUBSET (Handlers \ {h})
    OBVIOUS
  <2>2. RacedIn(t)' = RacedIn(t) \cup others
    BY <1>5 DEF SetRow, RacedIn, TypeOK
  <2> QED
    BY <2>1, <2>2 DEF Promised!Disturb
<1> QED
  BY <1>2, <1>3, <1>4, <1>5

\* One more version is shown.
LEMMA OneIsShown ==
    ASSUME TypeOK, NEW t \in Tables, NEW i, NEW r, Show(t, i, r)
    PROVE  SeenVersions(t)' = SeenVersions(t) \cup {<<i, r.version>>}
<1> DEFINE x == <<i, r.life, r.version>>
<1>1. shown'[t] = shown[t] \cup {x}
  BY DEF Show, TypeOK
<1>2. x[1] = i /\ x[3] = r.version
  OBVIOUS
<1> HIDE DEF x
<1>3. {<<s[1], s[3]>> : s \in shown'[t]} = {<<s[1], s[3]>> : s \in shown[t]} \cup {<<x[1], x[3]>>}
  BY <1>1, Zenon
<1> QED
  BY <1>2, <1>3 DEF SeenVersions

\* A call that changes nothing of the table, and after which the thread aims at
\* nothing or at what it aimed at.
LEMMA QuietCall ==
    ASSUME RegistryInv, NEW t \in Tables, NEW h \in Handlers, Call(h),
           UNCHANGED <<VisibleRows(t), SeenVersions(t)>>, t = "printers" => emptied' = emptied,
           RacedIn(t)' \in {RacedIn(t), RacedIn(t) \ {h}},
           \/ pc'[h] \notin {"check", "write"}
           \/ AimOf(h, t)' = AimOf(h, t) /\ RacedIn(t)' = RacedIn(t)
    PROVE  Keeps(t)
<1>1. \A g \in Handlers \ {h} : pc'[g] = pc[g] /\ request'[g] = request[g]
  BY OthersWait DEF RegistryInv
<1>2. (t = "printers" /\ emptied)' = (t = "printers" /\ emptied)
  OBVIOUS
<1>3. CASE pc'[h] \notin {"check", "write"}
  <2>1. Aims(t)' = [Aims(t) EXCEPT ![h] = None]
    BY <1>1, <1>3, NoAim, AimMoves
  <2>2. Promised(t)!Leave(h)
    BY <1>2, <2>1 DEF Promised!Leave
  <2> QED
    BY <2>2, PromisedSteps
<1>4. CASE AimOf(h, t)' = AimOf(h, t) /\ RacedIn(t)' = RacedIn(t)
  <2>1. Aims(t)' = Aims(t)
    BY <1>1, <1>4 DEF Aims, AimOf
  <2> QED
    BY <1>2, <1>4, <2>1 DEF Keeps, Promised!promise
<1> QED
  BY <1>3, <1>4

\* The calls after which a thread is about to check or to write.
LEMMA WhoAims ==
    ASSUME NEW h \in Handlers, TypeOK, Call(h), pc'[h] \in {"check", "write"}
    PROVE  \/ FindVersion(h)
           \/ pc[h] = "check" /\ UNCHANGED <<request, raced>>
  BY DEF Call, Switch, NotFound, FindToDelete, FindQueue, ReadCapabilities,
         FindPrinter, Check, Write, Reload, Insert, Remove, Count, ResetIds, ReadParams,
         MergeParams, SetCapabilities, LookUp, RefuseItem, Enqueue, AppendAudit, GoTo, Finish,
         At, TypeOK

\* The calls that write to no table race nobody.
LEMMA FewCallsRace ==
    ASSUME TypeOK, NEW h \in Handlers, Call(h), NEW t \in Tables,
           \/ ~(Write(h) \/ Insert(h) \/ Remove(h) \/ MergeParams(h))
           \/ Write(h) /\ Subject(h) = None
           \/ MergeParams(h) /\ Subject(h) = None
    PROVE  RacedIn(t)' \in {RacedIn(t), RacedIn(t) \ {h}}
<1>1. raced' = raced \/ raced' = [raced EXCEPT ![h] = {}]
  BY DEF Call, Switch, NotFound, FindToDelete, FindVersion, FindQueue, ReadCapabilities,
         FindPrinter, Check, Write, Reload, Count, ResetIds, ReadParams,
         MergeParams, SetCapabilities, LookUp, RefuseItem, Enqueue, AppendAudit, Finish, history
<1> QED
  BY <1>1 DEF RacedIn, TypeOK

\* A call that writes to no table keeps the promise about each.
LEMMA LooksKeep ==
    ASSUME RegistryInv, SeenInv, NEW h \in Handlers, Call(h), NEW t \in Tables,
           ~Insert(h), ~Remove(h), Subject(h) # None => ~Write(h) /\ ~MergeParams(h)
    PROVE  Keeps(t)
<1> USE DEF RegistryInv
<1> DEFINE q == request[h]
<1>1. pc[h] # "idle" /\ q \in Requests
  BY CallersHaveRequests
<1>2. VisibleRows(t)' = VisibleRows(t)
  <2>1. CASE SetCapabilities(h)
    <3>1. \A i \in Ids : Visible(rows'[t][i]) = Visible(rows[t][i])
      BY <2>1, CapsAreSet DEF Visible
    <3> QED
      BY <3>1 DEF VisibleRows, Visible
  <2>2. CASE ~SetCapabilities(h)
    <3>1. rows' = rows
      BY <2>2, FewCallsWrite DEF Write, MergeParams
    <3> QED
      BY <3>1 DEF VisibleRows, Visible
  <2> QED
    BY <2>1, <2>2
<1>3. SeenVersions(t)' = SeenVersions(t)
  <2>1. shown' = shown
    BY SeenGrows DEF Write
  <2> QED
    BY <2>1 DEF SeenVersions
<1>4. emptied' = emptied
  BY DEF Call, Switch, NotFound, FindToDelete, FindVersion, FindQueue, ReadCapabilities,
         FindPrinter, Check, Write, Reload, Count, ResetIds, ReadParams,
         MergeParams, SetCapabilities, LookUp, RefuseItem, Enqueue, AppendAudit, history
<1>5. RacedIn(t)' \in {RacedIn(t), RacedIn(t) \ {h}}
  BY FewCallsRace
<1>6. CASE pc'[h] \notin {"check", "write"}
  BY <1>2, <1>3, <1>4, <1>5, <1>6, QuietCall
<1>7. CASE pc[h] = "check" /\ UNCHANGED <<request, raced>> /\ pc'[h] \in {"check", "write"}
  <2>1. AimOf(h, t)' = AimOf(h, t) /\ RacedIn(t)' = RacedIn(t)
    BY <1>7 DEF AimOf, RacedIn
  <2> QED
    BY <1>2, <1>3, <1>4, <2>1, QuietCall
<1>8. CASE FindVersion(h)
  <2> DEFINE s == <<q.id, Subject(h).version>>
  <2>1. /\ Subject(h) # None /\ pc[h] = "find" /\ pc'[h] = "check" /\ UNCHANGED raced
        /\ request' = [request EXCEPT ![h].life = Subject(h).life,
                                      ![h].version = Subject(h).version]
    BY <1>8 DEF FindVersion, GoTo, At, TypeOK, history
  <2>2. /\ request'[h].table = q.table /\ request'[h].id = q.id
        /\ request'[h].version = Subject(h).version
    BY <1>1, <2>1 DEF Requests, TypeOK
  <2>3. AimOf(h, t) = None
    BY <2>1, NoAim
  <2>4. RacedIn(t)' = RacedIn(t)
    BY <2>1 DEF RacedIn
  <2>5. CASE q.table # t
    <3>1. AimOf(h, t)' = AimOf(h, t)
      BY <2>2, <2>3, <2>5 DEF AimOf
    <3> QED
      BY <1>2, <1>3, <1>4, <2>4, <3>1, QuietCall
  <2>6. CASE q.table = t
    <3>1. AimOf(h, t)' = Promised(t)!Target(s[1], s[2])
      BY <2>1, <2>2, <2>6 DEF AimOf, Promised!Target
    <3>2. Aims(t)' = [Aims(t) EXCEPT ![h] = Promised(t)!Target(s[1], s[2])]
      BY <3>1, OthersWait, AimMoves
    <3>3. s \in SeenVersions(t)
      <4>1. q.id \in Existing(t) /\ Subject(h) = rows[t][q.id]
        BY <1>1, <2>1, <2>6, SubjectIsARow DEF Existing
      <4>2. <<q.id, Subject(h).life, Subject(h).version>> \in shown[t]
        BY <4>1 DEF SeenInv
      <4> QED
        BY <4>2 DEF SeenVersions
    <3>4. Aims(t)[h] = None
      BY <2>3 DEF Aims
    <3>5. Promised(t)!Aim(h, s[1], s[2])
      BY <1>2, <1>3, <1>4, <2>4, <3>2, <3>3, <3>4 DEF Promised!Aim
    <3> QED
      BY <3>3, <3>5, PromisedSteps
  <2> QED
    BY <2>5, <2>6
<1> QED
  BY <1>6, <1>7, <1>8, WhoAims

\* A call that writes to one table keeps the promise about the others.
LEMMA OthersKeep ==
    ASSUME RegistryInv, NEW h \in Handlers, Call(h), NEW t \in Tables, NEW u \in Tables, t # u,
           NEW i, NEW r \in Rows \cup {None}, SetRow(h, u, i, r), shown'[t] = shown[t],
           t = "printers" => emptied' = emptied, pc'[h] \notin {"check", "write"}
    PROVE  Keeps(t)
<1>1. VisibleRows(t)' = VisibleRows(t) /\ RacedIn(t)' = RacedIn(t)
  BY RowMoves DEF RegistryInv
<1>2. SeenVersions(t)' = SeenVersions(t)
  BY DEF SeenVersions
<1> QED
  BY <1>1, <1>2, QuietCall

\* update_printer() and the like: an edit puts the next version in the place of the one
\* it was checked against, or somebody else wrote to the table.
LEMMA WriteKeeps ==
    ASSUME RegistryInv, NEW h \in Handlers, Call(h), Write(h), Subject(h) # None, NEW t \in Tables
    PROVE  Keeps(t)
<1> USE DEF RegistryInv
<1> DEFINE q == request[h]
           new == Edited(Subject(h), q)
           content == [name |-> q.name, kind |-> q.kind]
<1>1. /\ q \in Requests /\ q.table \in Tables /\ q.id \in Ids /\ q.version \in Nat
      /\ content \in Contents /\ pc[h] = "write" /\ pc'[h] = "reload"
  BY CallersHaveRequests, SubjectIsARow DEF Requests, Contents, Write, At, GoTo, TypeOK
<1>2. Subject(h) = rows[q.table][q.id] /\ Subject(h) \in Rows
  BY <1>1, SubjectIsARow
<1>3. new \in Rows /\ new.version = Subject(h).version + 1 /\ new.name = q.name /\ new.kind = q.kind
  BY <1>1, <1>2, EditedIsARow, EditedShows
<1>4. SetRow(h, q.table, q.id, new) /\ Show(q.table, q.id, new) /\ emptied' = emptied
  BY DEF Write
<1> HIDE DEF new
<1>5. CASE t # q.table
  <2>1. shown'[t] = shown[t]
    BY <1>4, <1>5 DEF Show, TypeOK
  <2> QED
    BY <1>1, <1>3, <1>4, <1>5, <2>1, OthersKeep
<1>6. CASE t = q.table
  <2>1. /\ Visible(Subject(h)) # None /\ Visible(Subject(h)).version = Subject(h).version
        /\ Visible(new) = Promised(t)!Version(Subject(h).version + 1, content)
    BY <1>2, <1>3, NoneAssumption DEF Visible, Promised!Version, Rows, Contents
  <2>2. VisibleRows(t)[q.id] = Visible(Subject(h))
    BY <1>1, <1>2, <1>6 DEF VisibleRows
  <2>3. VisibleRows(t)' = [VisibleRows(t) EXCEPT ![q.id] = Visible(new)] /\ Promised(t)!Disturb(h)
    BY <1>1, <1>3, <1>4, <1>6, RowMoves
  <2>4. SeenVersions(t)' = SeenVersions(t) \cup {<<q.id, Subject(h).version + 1>>}
    BY <1>3, <1>4, <1>6, OneIsShown
  <2>5. Aims(t)[h] # None /\ Aims(t)[h].id = q.id /\ Aims(t)[h].version = q.version
    BY <1>1, <1>6, NoneAssumption DEF Aims, AimOf
  <2>6. Subject(h).version = q.version \/ h \in RacedIn(t)
    BY <1>1, <1>6 DEF ReadInv, Current, Raced, RacedIn
  <2>7. Aims(t)' = [Aims(t) EXCEPT ![h] = None]
    BY <1>1, NoAim, OthersWait, AimMoves
  <2>8. Promised(t)!Put(q.id, Subject(h).version + 1, content)
    BY <2>1, <2>3, <2>4 DEF Promised!Put
  <2>9. Promised(t)!Edit(h, content)
    BY <1>4, <2>1, <2>2, <2>3, <2>5, <2>6, <2>7, <2>8 DEF Promised!Edit
  <2> QED
    BY <1>1, <2>9, PromisedSteps
<1> QED
  BY <1>5, <1>6

\* create_printer() and the like: a row gets an id that no row had, unless the table
\* was empty before.
LEMMA InsertKeeps ==
    ASSUME RegistryInv, SeenInv, NEW h \in Handlers, Call(h), Insert(h), NEW t \in Tables
    PROVE  Keeps(t)
<1> USE DEF RegistryInv
<1> DEFINE q == request[h]
           new == Fresh(births[q.table] + 1, q.name, q.kind)
           content == [name |-> q.name, kind |-> q.kind]
<1>1. /\ q \in Requests /\ q.table \in Tables /\ content \in Contents
      /\ pc[h] = "insert" /\ pc'[h] = "reload" /\ emptied' = emptied
  BY CallersHaveRequests DEF Requests, Contents, Insert, At, GoTo, TypeOK
<1>2. new \in Rows /\ new.version = 1 /\ new.name = q.name /\ new.kind = q.kind
  BY <1>1 DEF TypeOK, Requests, Fresh, Rows
<1>3. PICK i \in Ids : /\ IsNextId(q.table, i)
                       /\ SetRow(h, q.table, i, new) /\ Show(q.table, i, new)
  BY DEF Insert
<1> HIDE DEF new
<1>4. CASE t # q.table
  <2>1. shown'[t] = shown[t]
    BY <1>3, <1>4 DEF Show, TypeOK
  <2> QED
    BY <1>1, <1>2, <1>3, <1>4, <2>1, OthersKeep
<1>5. CASE t = q.table
  <2>1. rows[t][i] = None /\ sequence[t] < i
    BY <1>3, <1>5 DEF IsNextId, Existing, TypeOK, Ids
  <2>2. VisibleRows(t)[i] = None
    BY <2>1 DEF VisibleRows, Visible
  <2>3. Visible(new) = Promised(t)!Version(1, content) /\ Visible(new) # None
    BY <1>1, <1>2, NoneAssumption DEF Visible, Promised!Version, Contents
  <2>4. VisibleRows(t)' = [VisibleRows(t) EXCEPT ![i] = Visible(new)] /\ Promised(t)!Disturb(h)
    BY <1>2, <1>3, <1>5, RowMoves
  <2>5. Promised(t)!Put(i, 1, content)
    BY <1>2, <1>3, <1>5, <2>3, <2>4, OneIsShown DEF Promised!Put
  <2>6. (t = "printers" /\ emptied) \/ \A s \in SeenVersions(t) : s[1] # i
    <3>1. ASSUME NEW s \in shown[t], s[1] <= sequence[t] PROVE s[1] # i
      BY <2>1, <3>1 DEF TypeOK, Ids
    <3>2. (t = "printers" /\ emptied) \/ \A s \in shown[t] : s[1] # i
      BY <3>1 DEF SeenInv
    <3> QED
      BY <3>2 DEF SeenVersions
  <2>7. Aims(t)' = Aims(t)
    <3>1. Aims(t)' = [Aims(t) EXCEPT ![h] = None] /\ Aims(t)[h] = None
      BY <1>1, NoAim, OthersWait, AimMoves DEF Aims
    <3> QED
      BY <3>1 DEF Aims
  <2>8. Promised(t)!Add(h, i, content)
    BY <1>1, <2>2, <2>4, <2>5, <2>6, <2>7 DEF Promised!Add
  <2>9. VisibleRows(t)' # VisibleRows(t)
    BY <2>2, <2>3, <2>4 DEF VisibleRows
  <2> QED
    BY <1>1, <2>8, <2>9, PromisedRows
<1> QED
  BY <1>4, <1>5

\* delete_printer() and the like: the row goes, and what the table was is remembered.
LEMMA RemoveKeeps ==
    ASSUME RegistryInv, NEW h \in Handlers, Call(h), Remove(h), NEW t \in Tables
    PROVE  Keeps(t)
<1> USE DEF RegistryInv
<1> DEFINE q == request[h]
<1>1. /\ q \in Requests /\ q.table \in Tables /\ SetRow(h, q.table, q.id, None)
      /\ pc[h] = "remove" /\ pc'[h] \notin {"check", "write"} /\ shown' = shown
      /\ emptied' = (emptied \/ \A i \in Ids : rows'["printers"][i] = None)
  BY CallersHaveRequests DEF Requests, Remove, At, GoTo, TypeOK
<1>2. ASSUME t = "printers", VisibleRows(t)' = VisibleRows(t) PROVE emptied' = emptied
  <2>1. \A i \in Ids : rows["printers"][i] = None <=> rows'["printers"][i] = None
    <3>1. \A i \in Ids : VisibleRows(t)[i] = None <=> rows["printers"][i] = None
      BY <1>2, NoneAssumption DEF VisibleRows, Visible, TypeOK, Rows, Contents, Tables
    <3>2. rows' \in [Tables -> [Ids -> Rows \cup {None}]]
      BY <1>1, OneRowIsSet
    <3>3. \A i \in Ids : VisibleRows(t)'[i] = None <=> rows'["printers"][i] = None
      BY <1>2, <3>2, NoneAssumption DEF VisibleRows, Visible, Rows, Contents, Tables
    <3> QED
      BY <1>2, <3>1, <3>3
  <2>2. (\A i \in Ids : rows'["printers"][i] = None) => emptied
    BY <2>1 DEF EmptiedInv, Existing
  <2> QED
    BY <1>1, <2>2 DEF TypeOK
<1>3. CASE t # q.table
  <2>1. VisibleRows(t)' = VisibleRows(t)
    BY <1>1, <1>3, RowMoves
  <2> QED
    BY <1>1, <1>2, <1>3, <2>1, OthersKeep
<1>4. CASE t = q.table
  <2>1. Promised(t)!Disturb(h)
    BY <1>1, <1>4, RowMoves
  <2>2. SeenVersions(t)' = SeenVersions(t)
    BY <1>1 DEF SeenVersions
  <2>3. Aims(t)' = Aims(t)
    <3>1. Aims(t)' = [Aims(t) EXCEPT ![h] = None] /\ Aims(t)[h] = None
      BY <1>1, NoAim, OthersWait, AimMoves DEF Aims
    <3> QED
      BY <3>1 DEF Aims
  <2>4. CASE VisibleRows(t)' = VisibleRows(t)
    <3>1. (t = "printers" /\ emptied)' = (t = "printers" /\ emptied)
      BY <1>2, <2>4
    <3>2. Promised(t)!Touch(h)
      BY <2>1, <2>2, <2>3, <2>4, <3>1 DEF Promised!Touch
    <3> QED
      BY <3>2, PromisedSteps
  <2>5. CASE VisibleRows(t)' # VisibleRows(t)
    <3>1. q.id \in Ids /\ VisibleRows(t)' = [VisibleRows(t) EXCEPT ![q.id] = None]
      BY <1>1, <1>4, <2>5, RowMoves DEF Visible
    <3>2. VisibleRows(t)[q.id] # None
      BY <2>5, <3>1 DEF VisibleRows
    <3>3. rows' \in [Tables -> [Ids -> Rows \cup {None}]]
      BY <1>1, OneRowIsSet
    <3>4. ASSUME t = "printers"
          PROVE  (\A i \in Ids : rows'["printers"][i] = None) <=> Promised(t)!Empty(VisibleRows(t)')
      BY <3>3, <3>4, NoneAssumption
         DEF VisibleRows, Visible, Promised!Empty, Rows, Contents, Tables
    <3>5. (t = "printers" /\ emptied)' =
              ((t = "printers" /\ emptied)
                  \/ (t = "printers" /\ Promised(t)!Empty(VisibleRows(t)')))
      BY <1>1, <3>4
    <3>6. Promised(t)!Remove(h, q.id)
      BY <2>1, <2>2, <2>3, <3>1, <3>2, <3>5 DEF Promised!Remove
    <3> QED
      BY <2>5, <3>1, <3>6, PromisedRows
  <2> QED
    BY <2>4, <2>5
<1> QED
  BY <1>3, <1>4

\* update_printer_params(): what has no version is written.
LEMMA MergeKeeps ==
    ASSUME RegistryInv, NEW h \in Handlers, Call(h), MergeParams(h), Subject(h) # None,
           NEW t \in Tables
    PROVE  Keeps(t)
<1> USE DEF RegistryInv
<1> DEFINE q == request[h]
           new == [Subject(h) EXCEPT !.params = q.params]
<1>1. /\ q \in Requests /\ q.table = "printers" /\ q.id \in Ids /\ "printers" \in Tables
      /\ SetRow(h, "printers", q.id, new) /\ UNCHANGED <<shown, emptied>>
      /\ pc[h] = "mergeParams" /\ pc'[h] \notin {"check", "write"}
  BY CallersHaveRequests, SubjectIsARow DEF MergeParams, At, GoTo, PlaceInv, Tables, TypeOK
<1>2. Subject(h) = rows["printers"][q.id] /\ Subject(h) \in Rows
  BY <1>1, SubjectIsARow
<1>3. new \in Rows /\ Visible(new) = Visible(Subject(h))
  BY <1>1, <1>2, NoneAssumption DEF Requests, Rows, Visible
<1> HIDE DEF new
<1>4. CASE t # "printers"
  BY <1>1, <1>3, <1>4, OthersKeep
<1>5. CASE t = "printers"
  <2>1. VisibleRows(t)' = [VisibleRows(t) EXCEPT ![q.id] = Visible(new)] /\ Promised(t)!Disturb(h)
    BY <1>1, <1>3, <1>5, RowMoves
  <2>2. VisibleRows(t)' = VisibleRows(t)
    BY <1>1, <1>2, <1>3, <1>5, <2>1 DEF VisibleRows
  <2>3. SeenVersions(t)' = SeenVersions(t)
    BY <1>1 DEF SeenVersions
  <2>4. Aims(t)' = Aims(t)
    <3>1. Aims(t)' = [Aims(t) EXCEPT ![h] = None] /\ Aims(t)[h] = None
      BY <1>1, NoAim, OthersWait, AimMoves DEF Aims
    <3> QED
      BY <3>1 DEF Aims
  <2>5. Promised(t)!Touch(h)
    BY <1>1, <2>1, <2>2, <2>3, <2>4 DEF Promised!Touch
  <2> QED
    BY <2>5, PromisedSteps
<1> QED
  BY <1>4, <1>5

\* A request that comes in aims at a version that was shown, or at none.
LEMMA ArrivalKeeps ==
    ASSUME RegistryInv, NEW h \in Handlers, Arrive(h), NEW t \in Tables
    PROVE  Keeps(t)
<1> USE DEF RegistryInv
<1>1. PICK q \in Requests, c \in First : Opens(h, q, c)
  BY Arrival
<1>2. /\ pc[h] = "idle" /\ pc'[h] = c /\ request'[h] = q
      /\ \A g \in Handlers \ {h} : pc'[g] = pc[g] /\ request'[g] = request[g]
  BY <1>1 DEF Opens, TypeOK
<1>3. /\ UNCHANGED <<VisibleRows(t), SeenVersions(t), RacedIn(t)>>
      /\ (t = "printers" /\ emptied)' = (t = "printers" /\ emptied)
  BY <1>1 DEF Opens, VisibleRows, Visible, SeenVersions, RacedIn
<1>4. CASE c = "check" /\ q.table = t
  <2> DEFINE s == <<q.id, q.version>>
  <2>1. s \in SeenVersions(t)
    <3>1. <<q.id, q.life, q.version>> \in shown[t]
      BY <1>1, <1>4 DEF Opens
    <3> QED
      BY <3>1 DEF SeenVersions
  <2>2. AimOf(h, t)' = Promised(t)!Target(s[1], s[2])
    BY <1>2, <1>4 DEF AimOf, Promised!Target
  <2>3. Aims(t)' = [Aims(t) EXCEPT ![h] = Promised(t)!Target(s[1], s[2])]
    BY <1>2, <2>2, AimMoves
  <2>4. Aims(t)[h] = None
    BY <1>2, NoAim DEF Aims
  <2>5. Promised(t)!Aim(h, s[1], s[2])
    BY <1>3, <2>1, <2>3, <2>4 DEF Promised!Aim
  <2> QED
    BY <2>1, <2>5, PromisedSteps
<1>5. CASE ~(c = "check" /\ q.table = t)
  <2>1. AimOf(h, t)' = None
    BY <1>2, <1>5 DEF AimOf, First
  <2>2. Aims(t)' = [Aims(t) EXCEPT ![h] = None]
    BY <1>2, <2>1, AimMoves
  <2>3. Promised(t)!Leave(h)
    BY <1>3, <2>2 DEF Promised!Leave
  <2> QED
    BY <2>3, PromisedSteps
<1> QED
  BY <1>4, <1>5

\* Every step of the registry is a step of the promise about each table, or nothing to it.
LEMMA PromiseStep ==
    ASSUME RegistryInv, SeenInv, [Next]_vars, NEW t \in Tables PROVE Keeps(t)
<1>1. CASE JobEnds \/ UNCHANGED vars
  BY <1>1 DEF JobEnds, vars, history, Keeps, Promised!promise, VisibleRows, Visible,
              SeenVersions, Aims, AimOf, RacedIn
<1>2. ASSUME NEW h \in Handlers, Arrive(h) PROVE Keeps(t)
  BY <1>2, ArrivalKeeps
<1>3. ASSUME NEW h \in Handlers, Call(h) PROVE Keeps(t)
  <2>1. CASE Write(h) /\ Subject(h) # None
    BY <1>3, <2>1, WriteKeeps
  <2>2. CASE MergeParams(h) /\ Subject(h) # None
    BY <1>3, <2>2, MergeKeeps
  <2>3. CASE Insert(h)
    BY <1>3, <2>3, InsertKeeps
  <2>4. CASE Remove(h)
    BY <1>3, <2>4, RemoveKeeps
  <2> QED
    BY <1>3, <2>1, <2>2, <2>3, <2>4, LooksKeep
<1> QED
  BY <1>1, <1>2, <1>3 DEF Next

\* The rows the service finds are of the first version, and nobody aims at one.
LEMMA PromiseStarts == ASSUME Init, NEW t \in Tables PROVE Promised(t)!Init
<1>1. Rows0(t) \in Nat /\ Rows0(t) <= MaxId
  BY RegistryAssumption DEF Rows0, Tables
<1>2. ASSUME NEW i \in Ids
      PROVE  /\ i <= Rows0(t) => /\ VisibleRows(t)[i] # None
                                 /\ \E c \in Contents :
                                        VisibleRows(t)[i] = Promised(t)!Version(1, c)
             /\ ~(i <= Rows0(t)) => VisibleRows(t)[i] = None
  <2>1. rows[t][i] = IF i <= Rows0(t) THEN Row0(i) ELSE None
    BY DEF Init
  <2>2. Row0(i) \in Rows /\ Row0(i).version = 1
    BY BlankIsAKind, RegistryAssumption DEF Row0, Fresh, Rows, Ids
  <2> DEFINE content == [name |-> Row0(i).name, kind |-> Row0(i).kind]
  <2>3. content \in Contents /\ Visible(Row0(i)) = Promised(t)!Version(1, content)
    BY <2>2, NoneAssumption DEF Visible, Promised!Version, Contents, Rows
  <2>4. Promised(t)!Version(1, content) # None
    BY <2>3, NoneAssumption DEF Promised!Version
  <2> QED
    BY <2>1, <2>3, <2>4 DEF VisibleRows, Visible
<1>3. VisibleRows(t) \in [Ids -> {None} \cup {Promised(t)!Version(1, c) : c \in Contents}]
  BY <1>2 DEF VisibleRows
<1>4. SeenVersions(t) = {<<i, 1>> : i \in {k \in Ids : VisibleRows(t)[k] # None}}
  <2>1. {k \in Ids : VisibleRows(t)[k] # None} = 1..Rows0(t)
    BY <1>1, <1>2, RegistryAssumption DEF Ids
  <2>2. shown[t] = {<<i, i, 1>> : i \in 1..Rows0(t)}
    BY DEF Init
  <2>3. ASSUME NEW s \in shown[t] PROVE <<s[1], s[3]>> \in {<<i, 1>> : i \in 1..Rows0(t)}
    <3>1. PICK i \in 1..Rows0(t) : s = <<i, i, 1>>
      BY <2>2
    <3> QED
      BY <3>1
  <2>4. ASSUME NEW i \in 1..Rows0(t) PROVE <<i, 1>> \in SeenVersions(t)
    <3>1. <<i, i, 1>> \in shown[t]
      BY <2>2
    <3> QED
      BY <3>1 DEF SeenVersions
  <2>5. SeenVersions(t) = {<<i, 1>> : i \in 1..Rows0(t)}
    BY <2>3, <2>4 DEF SeenVersions
  <2> QED
    BY <2>1, <2>5
<1>5. ASSUME t = "printers" PROVE emptied <=> Promised(t)!Empty(VisibleRows(t))
  <2>1. Rows0(t) = Printers0 /\ (emptied <=> Printers0 = 0)
    BY <1>5 DEF Rows0, Init
  <2>2. CASE Printers0 = 0
    BY <1>2, <2>1, <2>2 DEF Promised!Empty, Ids
  <2>3. CASE Printers0 # 0
    <3>1. 1 \in Ids /\ 1 <= Rows0(t)
      BY <2>1, <2>3, RegistryAssumption DEF Ids
    <3>2. VisibleRows(t)[1] # None
      BY <1>2, <3>1
    <3> QED
      BY <2>1, <2>3, <3>1, <3>2 DEF Promised!Empty
  <2> QED
    BY <2>2, <2>3
<1>6. (t = "printers" /\ emptied) = (t = "printers" /\ Promised(t)!Empty(VisibleRows(t)))
  BY <1>5
<1>7. Aims(t) = [h \in Handlers |-> None] /\ RacedIn(t) = {}
  BY DEF Init, Aims, AimOf, RacedIn
<1> QED
  BY <1>3, <1>4, <1>6, <1>7 DEF Promised!Init

\* registry.py implements VersionedTable for each of its tables: whatever calls on the
\* database come in between, an edit puts the next version in the place of the one its
\* client saw, and an id is of one row only, with the exceptions VersionedTable names.
THEOREM VersionsKept == ASSUME NEW CONSTANT t \in Tables PROVE Spec => Promised(t)!Spec
<1>1. Init => Promised(t)!Init
  BY PromiseStarts
<1>2. RegistryInv /\ SeenInv /\ [Next]_vars => [Promised(t)!Next]_(Promised(t)!promise)
  BY PromiseStep DEF Keeps
<1> QED
  BY <1>1, <1>2, SeenInvariance, PTL DEF Spec, Promised!Spec

\* The same of the printers and of the device, as the run checks it.
THEOREM TablesKeepVersions == Spec => TablesAsPromised
<1>1. "printers" \in Tables /\ "device" \in Tables
  BY DEF Tables
<1>2. Spec => Promised("printers")!Spec
  BY <1>1, VersionsKept
<1>3. Spec => Promised("device")!Spec
  BY <1>1, VersionsKept
<1> QED
  BY <1>2, <1>3, PTL DEF TablesAsPromised, Promised!Spec
=============================================================================
