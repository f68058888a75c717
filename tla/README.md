# Verification of Vibe Printer

Vibe Printer is a print service for receipt, label and office printers: a
FastAPI application over one SQLite database, with an asyncio worker that takes
jobs from a table and sends them to the printers.  This directory holds TLA+
models of it, the TLC runs that check them on small instances, and TLAPS proofs
of the properties that matter most.  Paths below are relative to the repository
root (`src/` in `PROJECT.json`).

## 1. The system

### Parts, state and operations

| Part | State it keeps | Operations | What makes it correct |
|---|---|---|---|
| Job store (`app/queue.py`, `JobStore`) | the `jobs` and `idempotency` tables | enqueue, ready, claim, mark, cancel, requeue, resolve, redact, prune; the key look-up and store | a row is claimed once; a row a task works on is changed by nobody else; nothing is stuck |
| Worker (`app/queue.py`, `Worker`) | `_inflight`, a semaphore of 8 permits, the offline-alert and round-robin dictionaries | poll, `_guarded`, `_process`, `_send`, `_retry_or_dead`, `_alert`, `_heartbeat`, `_sweep`, stop | at most one printing for each one asked for; retries within the budget; every job settles |
| Printer locks (`app/backends/locks.py`) | one asyncio lock per printer | get | streams to one printer do not interleave |
| Backends (`app/backends/`) | a connection per send | send, status, capabilities | a failure after the first byte is `MidSendError`, so that it is not retried |
| Print API (`app/api/print.py`, `app/api/jobs.py`) | none | print, print/raw, print/file, reprint, get | one job per idempotency key; caps and quota hold; what is admitted can be printed, and a reprint prints the same again |
| Registry (`app/registry.py`, `app/context.py`) | printers, formats, templates, overlays, device settings; a capability cache | CRUD with versions | no lost update; the cache fits the printer |
| Audit (`app/audit.py`) | two hash-chained tables | append, verify, prune | an untouched table verifies |
| Pools (`app/pools.py`) | round-robin cursors | resolve_target, aggregate_capabilities | a reachable member is found; the cursor is fair |
| Time stamps (`app/db.py`, `queue.py`) | TEXT columns compared as strings | utcnow_iso, `_retry_or_dead`, prune | order of stamps is order of time |
| Migrations (`app/db.py`) | `schema_migrations` | migrate | a crash in the middle can be repaired by a restart |
| Tunnel (`app/tunnel.py`, `app/admin.py`) | the child process, its mode and URL | start, stop, `_scan_url` | at most one child; its URL is its own |
| Rate limiter, login (`app/auth.py`, `access.py`, `deps.py`) | hits per client | check | no more than the limit in a window |
| Fleet and webhooks (`app/fleet.py`, `notify.py`) | none; state is the worker's | heartbeat, offline alert | one alert per outage of a printer |
| Assets (`app/assets.py`) | files on a volume, the `assets` table | save, delete | no format loses a file it names |
| Admin API (`app/admin.py`) | none | cancel, requeue, resolve, configuration edits | as for the store and the registry |
| Rendering (`render.py`, `templating.py`, `overlay.py`) | none | document to bytes | a printer is sent what it can do; what it cannot do is refused or known to be left out |
| Rest: defaults, seed, discovery, settings, logging, web UI, deployment scripts | files, configuration | | I/O and plumbing |

### How they interact, and what is hard about it

* **Two kinds of concurrency.**  The worker's coroutines share one event loop
  and change places only at an `await`.  The HTTP handlers are plain functions:
  FastAPI runs each in a thread of a pool, truly in parallel with the loop and
  with each other.  All of them share one SQLite connection behind one lock
  (`app/db.py`, `Database.query` and `execute`): one statement is atomic, two are
  not.  There is no transaction around a read and the write that depends on it,
  except the conditional `UPDATE` of `claim()`.
* **Threads nobody waits for.**  `_send` runs the blocking `backend.send` in a
  thread and gives up after a time-out, but a Python thread cannot be stopped:
  it streams on after the lock of its printer was released.
* **Outages.**  A crash or a drain that takes too long leaves rows in the middle
  of their life cycle.  At start nothing is read back from them.
* **At-most-once against retries.**  Failures before the first byte are retried
  with back-off, later ones never; an operator may requeue at any moment, also
  while a task, an alert or an abandoned thread of the same job is still about.
* **Limits.**  Permits, caps on the depth of the queue and quotas are
  counted first and used later.

## 2. Modules

| Module | What it is |
|---|---|
| `Delivery.tla` | the rows of the jobs table, the worker's tasks, the operator's requests, the sweep, crash, stop and restart |
| `PrintLedger.tla` | the abstract promise of the delivery: printings begun never exceed printings asked for |
| `DeliveryProofs.tla` | the proofs about `Delivery` |
| `MCDelivery.tla`, `MCDelivery_*.cfg` | instances of `Delivery` for TLC |
| `Intake.tla` | how a request becomes a row: quota, idempotency key, caps, insert |
| `KeyPromise.tla` | the abstract promise of an idempotency key: who may make a job, what binds a key, what a later request gets |
| `MCIntake.tla`, `MCIntake_*.cfg` | instances of `Intake` for TLC |
| `IntakeProofs.tla` | the proofs about `Intake` |
| `Registry.tla` | the configuration tables under the requests of the admin API: versions, ids, capability cache, queue parameters, import, audit |
| `VersionedTable.tla` | the abstract promise of a table with versions: what an edit may replace, and that an id is of one row |
| `MCRegistry.tla`, `MCRegistry_*.cfg` | instances of `Registry` for TLC |
| `Stamps.tla` | time stamps as `utcnow_iso()` writes and SQLite compares them |
| `AuditChain.tla` | the hash chain of `config_audit`: append, prune, verify |
| `Schedule.tla` | when a job is due: `scheduled_at`, back-off, the poll |
| `Tunnel.tla` | the cloudflared child, the requests that switch it, the saved settings, the start at boot |
| `Migrations.tla` | the migration files statement by statement, backups, crashes and upgrades |
| `Dispatch.tla` | one job from its admission over its rendering to the backend, and its reprint, while printers and documents are edited |
| `Pools.tla` | the search for a member of a pool, by tasks that share a cursor |
| `OfflineAlert.tla` | heartbeats and the alert for a printer that is down too long |
| `RateLimiter.tla` | `RateLimiter.check()` by threads that share a deque without a lock |
| `Assets.tla` | files, their rows and the documents that name them |
| `RegistryProofs.tla` | the proofs about `Registry` |
| `StampProofs.tla` | the proofs about `Stamps`, `AuditChain` and `Schedule` |
| `RoutingProofs.tla` | the proofs about `Pools` and `Dispatch` |
| `UpkeepProofs.tla` | the proofs about `OfflineAlert`, `RateLimiter` and `Assets`, and about `MCPrinters` as a whole |
| `StartupProofs.tla` | the proofs about `Migrations` and `Tunnel`, and about `MCService` as a whole |
| `Extrema.tla` | a least and a greatest member of a set of numbers, for the proofs that meet a `CHOOSE` |
| `MCService.tla`, `MCService_*.cfg` | `Intake` and the four modules from `AuditChain` on, side by side for TLC |
| `MCPrinters.tla`, `MCPrinters_*.cfg` | `Registry` and the five modules from `Dispatch` on, side by side |

`PROJECT.json` maps each definition to its lines of source.  Operators whose
comment says "Seeded fault" are wrong on purpose: each replaces the
definition that follows it when one tests that a property can fail at all.

### Delivery

A step is the code between two points where others may run: a database call of
a pool thread, a database write or an `await` of a coroutine.  The coroutines do
not in fact interleave at their own database calls; the model lets them, which
only adds behaviours.

*State.*  `status` and `attempts` are the columns of the row ("new": not yet
inserted, "pruned": deleted).  `pc[j]` is where the task of `j` is; `"none"` is
"not in `_inflight`".  `snapshot` is the `job` dictionary `_process` read first
and uses to the end.  `target` is what `resolve_target` returned.  `lock[p]` is
the holder of the printer's lock, `abandoned[p]` the threads that `wait_for` left
inside `send()`.  `request[h]` is an operator's request between its check and
its write.  `sent`, `requeues`, `vouched` and `interrupted` are history: no guard
reads them, except that `requeues` bounds the exploration.

*A task* goes `claimed` (waiting for a permit) → `loaded` → `waiting` (for the
lock) → `connecting` → `streaming` → one of `delivered`, `cut` (MidSendError),
`retry` (PrinterUnreachable, BackendError), `crashed` (anything else) → the
write that ends the attempt → `alert` (waiting for the webhook) or `none`.

| Code | Actions |
|---|---|
| `enqueue`, `claim`, `prune` | `Enqueue`, `Claim`, `Prune` |
| `_guarded`, `_process` up to `printing` | `Load`, `Render`, `NoMemberReachable`, `RejectRender`, `BuryRejected`, `CrashEarly` |
| `async with lock`, `_send`, the backends | `AcquireLock`, `StartStream`, `Delivered`, `CutShort`, `Unreachable`, `CrashSend`, `TimeOut`, `AbandonedEnds` |
| the ends of `_process`, `_retry_or_dead`, `_alert` | `MarkDone`, `MarkUncertain`, `AuditFails`, `MarkFailed`, `Bury`, `Retry`, `EndAlert` |
| `cancel`, `requeue`, `resolve` | `CheckRequest`, `CarryOut` |
| `lifespan`, `Worker.stop` | `Stop`, `Drained`, `DrainTimeOut`, `Crash`, `Restart` |

*Printers* differ by three sets.  `Serialized`: the types `is_serialized` names.
`Spooled`: CUPS and IPP, whose `send` may raise the retryable `BackendError`
after the document was accepted (`app/backends/cups.py:118`).  `Outlasting`: a
`send` may take longer than the worker waits for it.  `sent[j]` counts the sends
that may have put bytes on the wire: it grows when a stream starts, and when a
thread that has not yet started its stream is abandoned.  `Unaudited` is the set of jobs
whose audit entry, or redaction, may raise after the row was written `done` or
`uncertain` (`app/queue.py:397` and `412`): `AuditFails` leaves the task where `_guarded` will
write `failed` over it.

### Intake

Again one step per database call.  A thread serving `/print` or `/print/file`
goes `quota` → `lookup` (with a key) → `depth` → `printerDepth` → `insert` →
`store` (with a key), or ends early with the error of that step; `/print/raw` and
`reprint` start at `depth`.  The worker and the operator appear as what they do to
the counts: `Settle`, `Return`, `PruneJob`.  `again` and `answered` are history: they
remember that a request with the same key was answered before this one came.

### Registry

One step per database call again, for every request that changes a configuration
table.  A row has a version, a name, a kind (of a printer, its type), the
parameters that belong to a kind, and the cached capabilities, which are those of
a kind.  `life` is no column: it tells the successive rows with one id apart.

| Code | Actions |
|---|---|
| `create_*`, `update_*`, `delete_*` of printers, formats, templates, overlays; `update_device` | `Insert`; `Check`, `Write`, `Reload`; `FindToDelete`, `Remove`, `Count`, `ResetIds` |
| `import_yaml`, `provision`, `put_remote`, `tunnel_start`, `tunnel_stop` | `LookUp`, `RefuseItem`, `FindVersion`, then as above; `Switch` |
| `provision_queue`, `update_printer_params` | `FindQueue`, `ReadParams`, `MergeParams` |
| `backend_capabilities`, `set_capabilities` | `ReadCapabilities`, `SetCapabilities` |
| `test_print` and the print endpoints, as far as they hold on to a printer's id | `FindPrinter`, `Enqueue`, `JobEnds` |

`raced`, `dirty`, `emptied`, `shown` and `births` are history: what others changed while a
request was served, whether it changed something not yet audited, whether there
ever was no printer, what clients have seen.

### AuditChain, Schedule, Tunnel, Migrations

*AuditChain.*  A hash stands for the row it was computed of, so `link[i]` is the id
of a row.  `config_change` is three steps, `TakeStamp`, `ReadLastHash`, `AppendEntry`; the
sweep deletes by stamp; `Chained(rows)` is what `verify_chain` asks of the rows it finds, and `Verifies` asks it of
those that are kept.

*Schedule.*  A stamp is a minute and a fraction, because `%f` puts microseconds
where the seconds belong; a client's stamp has its seconds in that place.
`PollRound` claims what `ready()` returns, `RetryOrDead` and `RequeueDead` write the columns.
`dueAt` remembers, in real seconds, when the job was meant to be printed.

*Tunnel.*  Requests to switch run on the event loop and are cut only at their
awaits: `TunnelStart` and `TunnelStop` up to the first, `OldChildEnds` (the wait, or its
time-out and the kill), `Spawned` or `SpawnFails`, then `CheckSwitch` and `WriteSwitch`, during
which the loop stands still but the threads that save do not.  `SaveReads`, `SaveChecks` and
`SaveWrites` are the three requests that write the same row, one at a time: `put_remote` and `provision`,
which read it, and `update_device`, whose body has all of it.  The body of the first and of the last may
say `tunnel_enabled`, and no tunnel is started or stopped for it.  `alone` and `unsettled` are history:
whether the switch in progress has met no other request; whether, since the last switch that met none or the last
reboot, something came between the settings and the tunnel.  `ScanBegins`, `ScanFindsUrl` and `ScanEnds` are `_scan_url`.
`Reboot` is an end of the process at any moment and `_autostart_tunnel`.

*Migrations.*  `executescript` commits each statement.  `Script(f)` keeps of a file what
matters for repeating it: which statements fail on a second run, and the rows
of the printers during a rebuild.  `file` is the database file without its WAL, which is what
`shutil.copy2` sees.  `Install` puts another image in place, an older one too:
nothing in `migrate` refuses it, although `app/db.py:6` says so.

### Dispatch, Pools, OfflineAlert, RateLimiter, Assets

*Dispatch.*  A printer is its type, one option (raster mode of a label printer, the
cutter of a receipt printer) and, of a pool, its members.  A document is the
set of kinds of its elements.  Each backend has its `...Can` (`capabilities()`) and its
`...Sends` (how `send()` may end for a kind of bytes), each renderer its
`Render...` (what it refuses, what it passes over).  `Submitted` admits a request the way
`_resolve_targets`, `print_raw`, `print_file`, `test_print` and `open_drawer` do; `Resolve`, `Render`
and `Send` are `_process` up to the end of an attempt; `Reprint` takes a job that ended.  `EditDevice`,
`EditContent` and `ErasePayload` come in between.  `fault`, `changed` and `first` are history: something outside
went wrong, an edit came after the request, the version printed before.

*Pools.*  `BeginSearch` is `resolve_target` up to its first await: members and cursor are read
and the cursor moved in one go, which is why the turns stay even.  `Answers`, `DoesNotAnswer`
and `Exhausted` are the awaits.  `doubt` is history: who was down at some moment of the search.

*OfflineAlert.*  A heartbeat is listed, probed, posted and gone through; every await is
a point where another may run.  `GoThrough` is `_check_offline` from one await to the next.
`alerts`, `seenUp` and `apart` are history.

*RateLimiter.*  A thread may lose the processor between any two operations on the deque:
`Look`, `Compare`, `Pop`, `CountHits`, `AppendHit`.  A tick comes only between checks that began in
it, so that a minute is wrong by no more than one tick.  `admitted` is history: the times of all
requests let in, of which the deque should hold the last; so are `lost` and `together`.

*Assets.*  Every file or database call of `save` and `delete` is a step; `SaveDocument` comes
at any time.  `late` is history: documents saved after a deletion had counted.

## 3. Runs

Two to four actors are enough for the races at hand: each needs a task, one or
two operators and one outage; more of them only repeat the same steps.

| Run | Instance | Shows |
|---|---|---|
| `delivery_safety` | two jobs, one sent to a pool of two printers (one `Outlasting`), one operator, one requeue per job, one outage, two attempts | `AtMostOnce`, `StreamsDoNotInterleave`, `OnlyOutagesStrand`, and that `IInv` of the proofs holds |
| `delivery_operators` | one job on an `Outlasting` printer, two operators, the sweep, two requeues, two outages, three attempts | `RetryBudget`, `DoneWasSent`, refinement of `PrintLedger` |
| `delivery_liveness` | two jobs, a spooled and a receipt printer, one permit, time-outs, one outage | `EveryJobSettles` |
| `delivery_interrupted` | one job, one outage | violated: `InterruptedBecomesUncertain` |
| `delivery_canceled` | one job, one operator | violated: `CanceledStaysCanceled` |
| `delivery_interleave` | two jobs, one `Outlasting` printer | violated: `NoInterleavedStreams` |
| `intake_onejob` | two threads, one key | violated: `OneJobPerKey` |
| `registry_stale` | two threads, three requests | violated: `StaleWriteRefused` |
| `service_parts` | the five parts of `MCService`, one at a time.  Intake: two threads, two printers, one key, three jobs, caps 2 and 1, quota 1, one crash or expiry, one row made active again.  Audit: two threads and four rows, one from before the hashes.  Schedule: two jobs, a minute of two seconds, three attempts.  Tunnel: two switches, saves one at a time with any settings, two children, reboots.  Migrations: one printer, three starts, any releases | `ReplyMatchesRequest`, refinement of `KeyPromise` (`KeysAsPromised`), `DepthOvershoot`, `QuotaOvershoot`; `UntouchedChainVerifies`, `HolesShow`; `NeverAMinuteEarly`, `FoundTheNextMinute`; `NoForgottenTunnel`, `UrlIsItsOwn`, `EnabledAsSaved`; `PrintersSurvive`, `ServesWholeSchema`, `FailsOnlyAfterACut`, `CleanBackupIsWhole` |
| `schedule_early` | the same | violated: `NotBefore` |
| `printers_parts` | the six parts of `MCPrinters`, one at a time.  Registry: two threads, three requests of any kind besides look-ups of capabilities, two printers, two types, one name, an import of a printer, alone or after the device.  Dispatch: any printer, or a pool of two of three types, four documents, two copies, two attempts, an edit, an erasure, a reprint.  Pools: rosters of three, one and no members, two tasks, four searches, a member that comes or goes, an edit.  Offline: two heartbeats, ids 1 and 2, two ticks, two outages, a creation, deletion or restart.  Limiter: two threads, six requests, a limit of 2 in a minute of 2 ticks.  Assets: two threads, two files, a format and another document, two uploads, deletions and saves | refinement of `VersionedTable` by the printers and by the device (`TablesAsPromised`), `JobsKeepTheirPrinter`, `OnlyRacesMixParams`, `OnlyRacesStaleCaps`, `ImportMakesNoTwins`, `ChangesAreAudited`; `FailsForAReason`, `DoneIsTheRequest`; `TurnsAreEven`, `FindsAReachable`; `OneAlertPerOutage`, `AlertMeansOutage`; `LimitHolds`; `FormatsKeepTheirFiles` |
| `dispatch_reprint` | the same | violated: `ReprintsAreReproducible` |

`MCService` and `MCPrinters` put parts side by side that share no state: `part` is chosen at
the start and never changes, the other parts stay as they began, and the `VIEW`
`Moving` leaves their variables out of what tells two states apart.  Each run is thus the sum of the
runs of its parts.  A property of one part is not evaluated vacuously there: its mutant is
caught under the same configuration.

Bounds, all in guards: `MaxRequeues`, `MaxOutages` (Delivery), `MaxReturns`,
`MaxMishaps` and the number of job ids (Intake), `MaxRequests` and one
capability look-up and one job at a time (Registry), `MaxEntries` and `MaxMinute`
(AuditChain), `MaxSecond` (Schedule), `MaxChildren` (Tunnel), `MaxRestarts` (Migrations),
`MaxEdits`, `MaxReprints`, `MemberTypes` and `EditTypes` (Dispatch), `MaxDispatches`, `MaxFlaps`,
`MaxPoolEdits` (Pools), `MaxTicks`, `MaxOutages`, `MaxChanges`, `MaxPrinterId` (OfflineAlert), `MaxClock`,
`MaxChecks` (RateLimiter), `MaxUploads`, `MaxRemovals`, `MaxSaves` (Assets).
The runs of Registry, MCService and MCPrinters do not check deadlock, because behaviours end
when these are used up.  Three requests are a victim, an intruder and one that prepared
the table; two printers allow an id to be given again while another is left.  A
job is used once;
the requeues are what brings it back, so `MaxRequeues` = 1 already lets an old
task, thread or request meet a new life of the row.  `MaxAttempts` = 2 and 3 have
a first, a middle and a last attempt.  The three member types are receipt, label and office printers; with
three members a cursor can stand before, at and after a member that is down.  A window of two
ticks has a hit that is fresh, one that is as old as the window, and one that is stale.

### Where the code departs from its documents

1. **An interrupted job stays `printing`** (`delivery_interrupted`).
   `Worker.start` looks at no row, and `ready()` only at queued ones.  Such a row
   can be neither canceled, requeued, resolved nor pruned, and it counts in the
   depth of the queue for good.  The plan says `uncertain`
   (`VIBE-PRINT-MASTER-PLAN.md:93`, Decision 16).
2. **A canceled job is printed** (`delivery_canceled`).  `cancel` reads, then
   writes; `claim` succeeds in between, and the task's own writes then replace
   `canceled`.  The same late write can replace `uncertain`, or `done`.
3. **Streams interleave after a time-out** (`delivery_interleave`).  The lock is
   released while the abandoned thread may still be writing.
   `StreamsDoNotInterleave` is what remains true: printers whose `send` never
   outlasts the worker's wait.
4. **Two jobs for one key** (`intake_onejob`), when two requests look the key up
   before either stores it, or when the process dies between insert and store.
   `KeysAsPromised` is what remains true, and with it `NoJobAfterAnswer`: once a request
   was answered, later ones make no second job.
5. **Two edits from one version are both accepted** (`registry_stale`).  The check
   and the `UPDATE ... WHERE id=?` are two calls; the later edit replaces the earlier and
   both are answered with 200, against README.md:478.  `TablesAsPromised` is what
   remains true: an edit replaces the version its editor saw, unless somebody else wrote to
   the table since the editor came.
6. **A scheduled job is printed before its time** (`schedule_early`), up to a minute,
   because stamps have no seconds; back-off is as coarse.  `NeverAMinuteEarly` and
   `FoundTheNextMinute` are what remains true.
7. **A reprint prints another version** (`dispatch_reprint`).  `_render` takes the format,
   template or overlay as it is now; `resolved_version` is written and copied, and read by
   nothing, and no older version is kept.  README.md:581 and `app/api/jobs.py:44` say that it is
   used.  `DoneIsTheRequest` is what remains true: the version printed is not older
   than the recorded one.

Also visible in the models, without a run of their own: the quota is taken before
the key is looked up, so the retry of an answered request may be refused; jobs of
one slow printer can hold all the permits (`app/queue.py:347`), against "slow printer
can't block others" (`VIBE-PRINT-MASTER-PLAN.md:255`); a requeue ignores the caps.  Deleting the last printer starts the ids again at 1, so a
waiting job can print on a printer created later (`emptied` in
`JobsKeepTheirPrinter`); provisioning a queue during an edit leaves a printer of one type
with the parameters of the other; a 404 on the read after a write, a refused import
item and a version conflict after the tunnel was switched leave a change without its audit
entry, against "every mutation audited" (`app/admin.py:1`).  Two appends at the same time, or a
sweep in the minute of a row, break the audit chain, and so do rows from before
the hashes, although nobody touched the table.  Two overlapping starts of the
tunnel leave a child nobody can stop.  A `PUT /remote` (`app/admin.py:690`) or `PUT /device` that changes
`tunnel_enabled` starts and stops nothing: until the next switch or reboot the settings say otherwise
than the service does (`unsettled` in `EnabledAsSaved`).  Migrations are not "inside a transaction"
(`app/db.py:6`): a crash in 0002, 0003 or 0005 leaves a database on which no later start
succeeds, and the backup made on the next try is of that half-migrated
database.  The backup never has what is only in the WAL.

In `MCPrinters`, and written into the properties there: an IPP printer
prints one copy however many are asked for, since `build_print_job` has no copies attribute
(README.md:382 and 417), and so does the virtual one.  Star printers pass over
codes and images, native label printers images, without the `unsupported_for_printer` of
README.md:580.  "So any chosen member can render the job" (`app/pools.py:7`) is not so for a
barcode and a label printer in raster mode, which announces barcodes and refuses them, nor for
office printers.  Raw data is admitted for an IPP printer, which takes none, and raw data of no
bytes is admitted and ends in a `KeyError`.  Bytes of a wrong kind, which can come of an edit between
admission and rendering, end as `uncertain` although nothing was sent.  An offline alert whose webhook
fails is not repeated; a restart repeats it; a printer with a reused id inherits the
outage of the one before it, which is why `AlertMeansOutage` asks for `apart`.  Rate limit checks
that overlap let in one request more for each thread, or fail on a deque another thread
emptied, which is answered with 500.  Deleting an asset asks only the formats ("any format/template",
`app/assets.py:4`), misses names that JSON escapes, and of two rows for the same
upload the first to go takes the file of both.

### Fairness

`FairSpec` asks for weak fairness of `Claim(j)` and of the task of each job (the
event loop runs every ready coroutine; every await in a task ends: a permit and
a lock are handed out first come first served, `send` is bounded by `wait_for`, the
webhook client has a time-out), of the second half of an operator's request (a
running thread is scheduled), of the end of a drain (it has a time-out) and of
`Restart` (the container restarts the service).  It asks nothing of operators,
the sweep, abandoned threads or outages.  `asyncio.Semaphore` and `asyncio.Lock`
queue their waiters in order; weak fairness of `TaskStep(j)` is enough with the
one permit of the run because the jobs that can hold it are finitely many and each
is retried at most `MaxAttempts` times.

## 4. Proofs

`DeliveryProofs.tla` proves, for any number of jobs, printers, operators,
permits, attempts, requeues and outages (assumptions: `PrintersAssumption` and
`LimitsAssumption` of `Delivery`, typing of the constants):

| Theorem | Says |
|---|---|
| `TypeCorrect` | `Spec => []TypeOK` |
| `AtMostOnceHolds` | `Spec => []AtMostOnce` |
| `StreamsSerialized` | `Spec => []StreamsDoNotInterleave` |
| `NoRaceStrands` | `Spec => []OnlyOutagesStrand` |
| `RetryBudgetHolds` | `Spec => []RetryBudget` |
| `DoneWasSentHolds` | `Spec => []DoneWasSent` |
| `DeliveryImplementsLedger` | `Spec => LedgerSpec` |

All follow from `Invariance`, `Spec => []IInv`, where

    IInv == TypeOK /\ SendInv /\ CreditInv /\ RowInv

`AtMostOnce` (`sent <= 1 + requeues`) is not inductive: it does not say why no
further send is coming.  `Credit(j)` adds to `sent[j]` what may still put the job
on the wire: one for a task that has not sent in this attempt, one for a row that
says `queued`.  Each step then moves credit and makes none: `Claim` turns the
queued row into the task, `StartStream` the task into a send, `Retry` the task
back into a row; only `CarryOut` of a requeue adds one, with its requeue.  That
the sum counts a task and a queued row separately is the point: both exist at
once after an operator's late write.  `LockInv` says that a sending task holds the
lock of its printer, from which `StreamsDoNotInterleave` follows; `AlertInv` and
`BudgetInv` do the same for the stranded rows and the attempts.  The lemmas
`SendStep`, `CreditStep`, `RowStep` each take one part of `IInv` through `Next`, one step
per action.  `DeliveryImplementsLedger` maps `allowed` to one plus the requeues
and `printed` to `sent`; the guard of `BeginPrinting` is `CreditInv` of the step's
first state.

`IntakeProofs.tla` proves, for any finite number of jobs and threads, any printers, keys, caps and
quota (`IntakeAssumption`, and `NoRowAssumption`, which says that "none" is neither a row nor a request):

| Theorem | Says |
|---|---|
| `IntakeTypeCorrect` | `Spec => []TypeOK` |
| `AnsweredOnce` | `Spec => []NoJobAfterAnswer` |
| `RepliesMatch` | `Spec => []ReplyMatchesRequest` |
| `KeysAreStable` | `Spec => KeyIsStable` |
| `IntakeKeepsPromise` | `Spec => KeysAsPromised`, the refinement of `KeyPromise` |
| `DepthIsBounded` | `Spec => []DepthOvershoot` |
| `QuotaIsBounded` | `Spec => []QuotaOvershoot` |

The first five follow from `IntakeInvariance`, `Spec => []IntakeInv`, where

    IntakeInv == TypeOK /\ UsedInv /\ KeyInv /\ AnswerInv /\ NoJobAfterAnswer

`NoJobAfterAnswer` says where a late request may be, but not why it gets no further: `AnswerInv`
adds that the keys stored are those answered, so that `LookUp` must find it, and that a request
knows its key was answered only if it was.  `UsedInv` (no row, key or request names an id
not yet drawn) is what keeps `KeyInv` true when `Insert` makes a row.

`KeyPromise` leaves out the quota, the caps, the calls on the database and the rows.  In it
a request comes, late if its key is bound; one that is not late may make a job and then binds its key
unless it is bound; any request may repeat the answer of a bound key, for the same contents,
or be refused; a key is forgotten; a restart loses every request.  The mapping reads `used` as the jobs
made, `stored` as what is bound, and `OpenRequest(h)` as what is due to the request of `h`: a job to bind
at `store`, an answer at `replay`, a decision before.  The checks of quota and
depth are stutters or refusals.  `InsertMakes` needs `NoJobAfterAnswer` (a request that inserts is not
late), `ReceiveIsCome` needs `AnswerInv` (`again` says that the key is stored).  The promise
is weaker than "one job per key" on purpose: two requests that come before the first
answer may each make a job (run `intake_onejob`).

The two bounds are about sizes of sets.  The lemma `Overshoot` is the whole argument: a set
of rows and a set of threads, of which a step adds to the first only a member it takes from
the second, and to the second only after the count was seen below the cap.  `DepthMoves`,
`PrinterDepthMoves` and `QuotaMoves` show, action by action, that every step of `Next` is of
that form, or makes one row active again and counts it in `returns`.

`RegistryProofs.tla` proves, for any number of threads, requests, rows, names and kinds
(`RegistryAssumption`; `NoneAssumption`: "nothing" is neither a row nor a request):

| Theorem | Says |
|---|---|
| `RegistryTypeCorrect` | `Spec => []TypeOK` |
| `VersionsKept` | `Spec => Promised(t)!Spec` for every table `t`: the refinement of `VersionedTable` |
| `TablesKeepVersions` | `Spec => TablesAsPromised`, the same for the printers and the device |
| `NoLostUpdate` | `Spec => UnracedEditsLand` |
| `JobsKeepTheirs` | `Spec => []JobsKeepTheirPrinter` |
| `NoTwins` | `Spec => ImportMakesNoTwins` |
| `ParamsFitTheirPrinter` | `Spec => OnlyRacesMixParams` |
| `CapsFitTheirPrinter` | `Spec => OnlyRacesStaleCaps` |
| `AuditedUnlessRaced` | `Spec => ChangesAreAudited` |

All follow from `RegistryInvariance`, `Spec => []RegistryInv`, where

    RegistryInv == TypeOK /\ PlaceInv /\ EmptiedInv /\ NumberInv /\ DeviceInv /\ DirtyInv /\ ReadInv

`PlaceInv` says which calls an endpoint can be at.  `NumberInv`: as long as the table of
printers was never emptied, an id that was handed out, to a client, a request or a job, is
at or below `sequence` and so is not handed out again; a row under it can only be the one of
that life.  `EmptiedInv` ties `emptied` to the `DELETE` that may start the numbering anew, which
is two calls before it does.  `ReadInv` is what a check is good for: what a request has read
(`Current`: the version, the parameters, the type, that there is no row of the name) is still so
unless another request wrote to the table (`Raced`).  Every property about races is `ReadInv` in the
state before the write.  `DirtyInv` and `DeviceInv` leave `ChangesAreAudited` the two ends without an
audit entry it names: a row that is gone, which is a race, and a refused item.

`VersionedTable` is one table without calls, look-ups, caches and audit: rows with versions,
what was shown of them, what each editor aims at (`aim`) and who was met by another's write
(`met`).  An `Edit` puts version n + 1 in the place of version n, which is the one aimed at unless
its editor is in `met`; an `Add` takes an id that was never shown, unless the table was empty and is
one whose numbering starts anew (`Renumbered`: the printers); nothing else brings a version.  The
mapping (`Promised(t)`) keeps of a row its version, its name and its kind (`Visible`), reads the aim of
a request off its place (`check` and `write`) and `met` off `raced`.  Every other call is a stutter, an
editor leaving or, for what has no version such as the parameters of a queue, a `Touch`.  The proof
has one lemma for each way a call writes (`WriteKeeps`, `InsertKeeps`, `RemoveKeeps`, `MergeKeeps`),
one for the table it does not write to (`OthersKeep`) and one for the calls that write to none
(`LooksKeep`).  It needs `ReadInv` for edits and, for ids, an invariant of its own, since `NumberInv` is
given up for all tables once the printers were empty:

    SeenInv == every row was shown with its version, and no id was shown above `sequence`,
               but for the printers once they were empty

| Theorem | Says | Argument |
|---|---|---|
| `FormatsKeepFiles` (`UpkeepProofs`) | `AssetsSpec => FormatsKeepTheirFiles` | `CountedInv`: a deletion about to unlink has seen every format that names the file, or has it in `late` |
| `NoMemberMissed` (`RoutingProofs`) | `PoolsSpec => []FindsAReachable` | `SearchInv`: who is not to be asked any more was in doubt; the lemma `Rotation`: the order has all the members |
| `MembersTakeTurns` (`RoutingProofs`) | `PoolsSpec => []TurnsAreEven` | `LapInv`: all counts are the same but for the members between the place the lap began at and the cursor, which have one more; the place is the cursor modulo the length, which outlives an edit |
| `AlertedOnce` (`UpkeepProofs`) | `OfflineSpec => []OneAlertPerOutage` | `NotedInv`: an alert posted is noted, since it is noted before the post |
| `AlertsAreTrue` (`UpkeepProofs`) | `OfflineSpec => []AlertMeansOutage` | `DownInv`: since the time noted for it a printer answered no heartbeat but one whose check has yet to come to it; `ApartInv` is where overlaps and reused ids would break it |
| `UntouchedVerifies` (`StampProofs`) | `AuditSpec => []UntouchedChainVerifies` | `SuffixInv`: the rows kept are the newest; `StampsInv`: their minutes grow with their ids, so a sweep between minutes takes the oldest; `AppendersInv`: the link of a thread nobody disturbed is to the newest row |
| `HolesAreSeen` (`StampProofs`) | `AuditSpec => []HolesShow` | `NoHoles`: of a chain that verifies, take some rows so that the rest verifies too.  If one was missing between two that are left, the first row after the hole would be linked to the last row before it and to a missing one |

`HolesShow` says nothing of rows missing at either end of the table, which `verify_chain` cannot tell from a
sweep or from a table that ends there, and takes a hash to be of one row only.

Each of the others that speaks of a specification follows from an invariance theorem (`AssetsInvariance`, `PoolsInvariance`,
`OfflineInvariance`, `AuditInvariance`), which includes the type invariant.  `AuditInv` also counts:
`newest` and the threads that will append never exceed `MaxEntries`, so the guard of `TakeStamp` is
enough to keep the ids in range.

`Schedule`, `RateLimiter`, `Migrations`, `Tunnel` and `Dispatch` likewise, each from the assumptions
named in its module, for any jobs and clock, any threads and limit, any printers, children and
requests, any documents, copies and number of tries:

| Theorem | Says |
|---|---|
| `LaterPollsFind`, `KeepsTheMinute` (`StampProofs`) | `ScheduleSpec => []FoundTheNextMinute`, `ScheduleSpec => NeverAMinuteEarly` |
| `LimitKept` (`UpkeepProofs`) | `LimiterSpec => []LimitHolds` |
| `WhatServesIsWhole`, `OnlyCutsFailAStart` (`StartupProofs`) | `MigrationsSpec => []ServesWholeSchema`, `MigrationsSpec => []FailsOnlyAfterACut` |
| `NoPrinterIsLost`, `FirstBackupIsWhole` (`StartupProofs`) | `MigrationsSpec => PrintersSurvive`, `MigrationsSpec => CleanBackupIsWhole` |
| `NoTunnelIsForgotten`, `ShownUrlIsItsOwn`, `TunnelAsSaved` (`StartupProofs`) | `TunnelSpec => []NoForgottenTunnel`, `[]UrlIsItsOwn`, `[]EnabledAsSaved` |
| `GriefHasAReason`, `WhatIsDoneWasAsked` (`RoutingProofs`) | `DispatchSpec => []FailsForAReason`, `DispatchSpec => []DoneIsTheRequest` |
| `BytesFitThePrinter` (`RoutingProofs`) | with no edit since the request, no backend is given bytes it turns away after the first |

*Schedule.*  `QueuedInv` compares minutes: the two stamps of a queued job are of no later minute
than the one it is due in, and one of them is of that minute, or the minute has come.  Fractions may
then be anything.  That the delay is a number at all, a power of two, is a fact about sets: 2^n is
how many subsets n things have (`PowerIsANumber`), which spares an induction.

*RateLimiter.*  `SuffixInv` says that the deque is what was let in last, so whatever was let in
and is not in it was popped.  `LostInv` counts, among those, the ones that were not stale: no
more than `lost`.  `RoomInv` bounds the deque by the limit and the threads whose count has passed.
The hits of a minute are then those still in the deque and those lost (`CountBound`).
`AloneInv` is the state of a single check and gives the exact half of `LimitHolds`.

*Migrations.*  With k files recorded the database is what file k left and what the first statements
of file k + 1 made of it (`SchemaInv`, `HalfRun`), and a start that has gone as far as a statement
has its predecessors behind it (`ScriptInv`).  A half-run file means a cut (`CutInv`); nothing in the
WAL means that the file is the database (`WalInv`).  `PrintersSurvive` is `ScriptInv` at the one
statement that drops a table: its rows are in the new one.

*Tunnel.*  `ChildrenInv` holds always; `OneStartInv`, `UrlInv` and `SettledInv` each until the history
variable is set that the property names.  `OneStartInv` has what `NoForgottenTunnel` lacks: a request on
its way to a spawn has already let go of the old child.  `AloneInv` says what a switch that is `alone` knows,
whatever was before it: no other request is about, and the child is the one it asked for by the time it has read
the settings.  So its write settles them, and may reset `unsettled`.  `SettledInv` is the
agreement itself: with nothing unsettled a switch in progress is alone, and with none the settings say
what was done.

*Dispatch.*  `TicketInv` is what holds whatever is edited: a rendered job fits the printer it was
rendered for (`RenderedFor`), so `DoneIsTheRequest` does not depend on edits.  `AsAdmitted` is what
holds until the first edit: the request is still one that its printer admits, and the job goes to one of
its `Targets`, each of which can do what the printer announced (`TargetFacts`).  The lemmas
`RejectedReason`, `RefusedReason` and `NeverMistaken` go through renderers and backends type by type;
they are the matrix of types, payloads and bytes that `FailsForAReason` sums up; an erasure is a reason by itself
(`ErasePayloadKeeps`).

The invariants of the proofs were checked by TLC on the instances of section 3 before they were proved;
only that of `Delivery` (`IInv`) is kept in a run.  An assumption was added where a proof showed the need of it:
`Switchers` and `Clients` are finite, `Drafts` are sets of known elements, and no job is told
from any (`NoTicketAssumption`).

*The parts together.*  `MCService` and `MCPrinters` run their parts side by side.  `ServiceIsItsParts` and
`PrintersAreTheirParts` show that a behaviour of the whole is, for each part, a behaviour of its own
specification: every step of the whole moves one part, or none, and leaves the variables of the
others.  So what was proved of a part holds of the whole:

| Theorem | Says |
|---|---|
| `ServiceTypeCorrect` (`StartupProofs`), `PrintersTypeCorrect` (`UpkeepProofs`) | `ServiceSpec => []ServiceTypeOK`, `PrintersSpec => []PrintersTypeOK` |
| `ServiceKeepsAll`, `PrintersKeepAll` (the same) | `ServiceSpec` and `PrintersSpec` imply every property that `service_parts` and `printers_parts` check |

This rests on the parts sharing no state *as they are modelled*: it says nothing of interactions that the
models leave out (section 5).

Only model-checked: `EveryJobSettles`, since liveness under fairness is out of the prover's reach.  Every
other property of a run that is expected to pass is a theorem.

## 5. Not modelled, and what follows from it

* A database call that fails (disk full, locked), other than the audit and the redaction at
  the end of an attempt (`AuditFails`).
* The default thread executor: it is never full.  A time-out before the first
  byte, which is its effect, is possible anyway.
* Spooled printers are outside `AtMostOnce`: their `BackendError` may follow the
  hand-over of the document, and the retry prints it again.
* Priority: which ready job is claimed first, and how long a job waits while those of a slow printer hold every
  permit (`app/queue.py:347`): `EveryJobSettles` is about whether, not when, and permits are handed out in turn.
* In Pools, a restart, which loses the cursors: `TurnsAreEven` is about one life of the process.
* In Registry: foreign keys (`ON DELETE SET NULL`), the capabilities of a pool, the text of
  the export; in Tunnel: other fields of the settings, two saves at
  once, and the health poll; in
  Migrations: SQLCipher, and tables no statement depends on.
* In Delivery, a printer's row changed or deleted while a job runs, other than as the
  exception it raises (`CrashEarly`); that is the subject of Dispatch, for one job.
* In Dispatch: the capability cache, which Registry has; what templates
  make of data; an erasure while a task holds the payload, other than as
  one at its next try.  Element types that differ in nothing but bytes stand for one another.
* The bytes of rendering, authentication, network and file I/O, previews, the web UI.

## 6. Plan

Done: everything in section 2; every safety and action property of the runs is proved.  What could
come next:

1. The order of the ready list by priority, and whether a job of low priority is ever claimed.
2. The default thread executor as a resource of its own, shared by sends, look-ups and handlers.
3. Foreign keys in Registry: what `ON DELETE SET NULL` makes of formats and pools that name a row.
