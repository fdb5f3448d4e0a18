# Verification of fpl-data-relay

TLA+ models of the relay's ingestion core, its migrations, its community reports and
its administration, TLC configurations that check them on
small instances, and TLAPS proofs of the results that should hold for every
size. The repository is the reference: each definition is translated from the
lines that `PROJECT.json` gives for it under `map`.

```
tlc -workers 2 -config PipelineFaults.cfg MCCollectionPipeline.tla    # one run
tlapm IngestStore_proofs.tla                                          # one proof module
```

## 1. The system

```
 EventBridge Scheduler --job--> fetch queue --> NAS collector --bundle--> S3
      ^   (reference: hourly,       ^               |  --pointer--> result queue
      |    live: one per window)    |               v                   |
      |                             +---next poll-- ingestion Lambda <--+
      +------ reconcile live schedules ------------/      |
                                                          v
 administration (workstation) --- maintenance row ---> Aurora (Data API) --> API, clients
```

| component | state | operations | what makes it correct |
|---|---|---|---|
| change detection (`domain/changes.py`) | none | diff of one entity family, keys to write | deletions only from authoritative payloads; a silent baseline; replaying the diff gives the new snapshots |
| ingestion store (`postgres/database.py`, `ingestion/service.py`) | source watermarks, `fpl_*` rows, entity snapshots, change feed | persist a reference bundle, persist a live bundle, rebaseline | late and repeated bundles write nothing; rows, snapshots and feed agree; foreign keys hold; live-owned fields survive |
| collector (`collector.py`) | the message in hand | receive, fetch, upload, publish, acknowledge | a pointer never dangles, a job is never lost |
| ingestion Lambda (`lambda_ingestion.py`, `jobs.py`) | one invocation | load, lock, persist, plan, requeue or reconcile | what is acknowledged is stored; a window is polled to its end, or what stopped it is known |
| match windows, live schedules | schedules of the live group | merge windows; list, delete, create, update | each match is polled; a completed reconciliation leaves what is planned |
| queues (`template-app.yaml`) | messages, receive counts | deliver, hide, redeliver, bury | - |
| production administration (`administration.py`) | maintenance row; schedules and collector it changes | begin, pause, end, restore, rebaseline | everything comes back as it was; a rebaseline sees no traffic; commands can be repeated, or what blocks them is known |
| schema migrations (`postgres/migrations.py`) | migration history | apply, verify | each migration once, in order, with its objects or not at all |
| RDS Data API adapter (`rds_data.py`) | transaction id, queued statements, server transactions | execute, batch, commit, roll back, abandon | statements take effect in program order; a transaction is committed or nothing of it |
| local scheduler (`inbound/scheduler.py`) | two due times | reference cycle, live cycle | cycles are neither skipped nor doubled |
| community reports (`lambda_community.py`, `community_*.py`) | messages, reports, extraction cache, the run in hand | dispatch, prune, discover, look up, extract, store, publish | one report per strategy and day, whoever runs it; its counts and evidence agree with what failed; nothing retained is paid for twice |
| migration 5 procedure (`schedule_bootstrap.py`, script) | phase file, schedule snapshot | phases | resumable at every phase |
| terminal administration (`tui/`) | reservation, active command, managed process and runner, open screens | request, form, launch, monitor, operate, stop, quit | one write operation at a time; a signal reaches the process it was meant for; the console becomes free again |
| command line (`cli.py`) | none | one service call per command | - |
| read API (`inbound/http/app.py`) and Activity page (`client/`) | the change feed; the page's cursor, loaded events and cache | page forward, recent and older; poll, load older, hide, leave | a reader with a cursor misses no event |
| FPL client, configuration, other pages | none worth modelling | requests | - |

They interact through messages (both queues), shared tables (the maintenance row,
the advisory ingestion lock, season data), S3 objects, and the schedules, which
the Lambda and the administrator both write. What is hard is there: delivery is
at least once and unordered; collector, Lambda and workstation may die between
any two calls; the lock refuses instead of waiting; the maintenance flag is read
after a commit and acted on later; two sources write the same fixture rows with
separate watermarks; windows change identity while they are polled; a lost reply
leaves open whether the database has a transaction; two runs of one community job
interleave with an external model call between reading and writing; the console has
three flags for "busy", set in different callbacks, threads that wait for its loop, and
a process that ends by itself; ids of the change feed are drawn before they are committed,
and read by clients that only look ahead.
`PROJECT.json` lists each such place under `hazards`, at its line, with the
properties that watch it.

## 2. The modules

| module | models | extends / uses |
|---|---|---|
| `EntityDiff` | `diff_entity_snapshots`, `entity_keys_to_upsert`, `persist_snapshot_diffs` | - |
| `IngestStore` | the three writing transactions of the store | `EntityDiff` |
| `JobDelivery` | abstract: a job is accepted, owed, and settled | - |
| `CollectionPipeline` | one collection cycle, call by call | refines `JobDelivery` |
| `MatchWindows` | `build_match_windows`, and merging defined by connected components | - |
| `LiveSchedules` | the reference branch of the Lambda, the live schedules and chains, the fixtures both write | `MatchWindows` |
| `Maintenance` | the administrator's commands, call by call, against the rest | - |
| `SqlTransactions` | abstract: statements that take effect where they stand, transactions that commit whole | - |
| `DataApiSession` | `RdsDataConnection` and `RdsDataTransaction`, the server's transactions | refines `SqlTransactions` |
| `Migrations` | `apply_migrations` by several appliers beside an ingestion | `DataApiSession` |
| `CommunityReports` | dispatch and delivery of community jobs, `CommunityService.run` call by call | - |
| `AdminConsole` | the terminal application's event loop, its threads and its managed process | - |
| `ActivityFeed` | the change feed from its writers' transactions through the API to the Activity page | - |
| `IngestStore_proofs` | theorems about change detection and the store | `EntityDiff`, `IngestStore` |
| `CollectionPipeline_proofs`, `LiveSchedules_proofs`, `AdminConsole_proofs`, `ActivityFeed_proofs`, `CommunityReports_proofs`, `Migrations_proofs`, `Maintenance_proofs` | theorems | the module they name |
| `MC*` | upstreams, windows and symmetry for TLC | the module they name |

The modules are cut where the code's own boundaries make a step atomic.
`IngestStore` is what happens inside the advisory lock and one transaction, so a
bundle is one action there; `CollectionPipeline` is everything around that
transaction, and keeps only the watermark of it (its `stored`); `LiveSchedules`
takes from the pipeline that a chain polls until its window ends or breaks off (`PollsUntilTheEnd` says
when), and from the store that two sources with watermarks of their own write one fixture row;
`Maintenance` takes both workers as short cycles and has every call of a command.

**IngestStore.** `sources` is `relay_ingestion_sources`: per `(source_key,
event_id)` the newest fetch time and the payload hash (the hash is the payload
itself). `tables` holds the `fpl_*` rows that the properties tell apart: events,
elements, fixtures with statistics, the status row with its days, live elements
with explain rows. `snapshots` is `relay_entity_snapshots` by family, `feed` is
`relay_change_events` with entity changes. `PersistReference` and `PersistLive`
follow `upsert_reference_snapshot` and `upsert_live_snapshot` statement by
statement: `OfferedStep` is compare, diff and snapshot synchronization of a
family, `Write*` the upserts, `Remove*` the foreign-key ordered deletions, and
the `*Insertable` guards the foreign keys that make PostgreSQL abort. A
transaction that aborts is an action that is not enabled. `Init` is a new
database or one whose history migration 2 has dropped. `Rebaseline` is
`rebaseline_current_change_feed`.

**CollectionPipeline.** A queue maps message ids to body, receive count and
visibility. The collector and the Lambda each have a program counter; each call
that has an effect is an action, and `CollectorFails` / `InvocationFails` may end
the worker between any two. The lock is free, held by the invocation, by a
rebaseline, or by the abandoned transaction of a killed invocation (`orphan`,
the Data API's time-out releases it). `settled` remembers how a job last ended
and only feeds the refinement. `maintained` inside `lambda` is a history flag of
`PollsUntilTheEnd`: maintenance was open at some time during the invocation.

**LiveSchedules.** `Start` persists a reference bundle and plans with the one `now` the
handler reads; `List`, `Delete`, `Ensure`, `Complete` are the Scheduler calls in
their order; `Fail` ends an invocation anywhere. What is planned are the fixtures in the database
(`stored`), which need not be FPL's: a bundle holds any of the `answers` FPL has given, the full list and the
gameweek's are sources with a watermark each (`accepted`), a stale answer or a payload equal to the
last one of its source writes nothing, and a live bundle (`LiveBundle`) may come between any two reference
bundles. Fired schedules stay, as in the
template, and fire again only with a new time. A chain is a window being polled; `Break` ends it
before its window does, for a held lock or used-up receives, and as the retained schedule does not start
it again, `brokenUntil` is when the match it began with is over and its successor gets another name.
`candidates.sort` is `Sorted`, the one order in which `Earlier` holds between each window and
those after it; the loop of `build_match_windows` is a fold of `MergeInto` over it.

**Maintenance.** `record` is the open `relay_maintenance` row with phase,
recorded schedules and collector state; `operator` is the command under way; all
of begin's, pause's, end's, restore's and rebaseline's calls are actions, `Crash` ends
a command between any two, and a command may then be given again. A drain (`Drain`) only waits
for empty queues; the call after it is a step of its own that looks at nothing, so a schedule may
fire and be collected in between: begin drains, stops the collector, drains, checks the depths once more (`Check`) and
activates; a rebaseline drains and then rebuilds (`Rebuild`). Checks of the
dead-letter queues are refusals and so are left to the operator. Reading all schedules for the record is
one step. `originally` is a history variable.

**DataApiSession.** `connection` is an `RdsDataConnection`: whether a transaction is
active, the queued statements, and the Data API calls that the method under way has yet
to make. A method only puts calls there; the server answers one (`Reply`), or the call or
its reply is lost (`Lost`), which raises into the caller and ends in a rollback that may
be lost as well (`orphans` holds the locks of what is then left, until `Expire`), or the
task is cancelled (`Cancelled`), or the process is gone (`Vanish`). A repetition by the
SDK is a reply that is lost without the caller seeing it. What a list of statements does is
`After`, in closed form: per key, the last statement that writes it counts. `Transaction` hands
the abstract specification what the server has run followed by what is `Pending`, so that
`ImplementsSql` says: queueing is invisible. The abstract database never shows a partial transaction, and
never loses a committed one.

**Migrations.** `apply` is the program counter of an operator's `apply-schema`:
create the history table, read the history, check it, and per pending version one
transaction of its statements and its history row. A release knows the first
`Known[c]` versions. `writer` is an ingestion that opens, writes, reads and ends a
transaction on the same tables, so that DDL waits for its locks and the other way round.

**CommunityReports.** `workers` is what the Lambda (reserved concurrency one) and an
operator's `community run` are doing; each has a job and the local variables of
`CommunityService.run`: sources that failed so far (`unread`, `failures`), documents
found, cache hits, new extractions. `Discover`, `Lookup`, `Materialize`, `Store`,
`Publish` and `ReadBack` are its calls in order, `Abort` an exception or a killed
process between two of them. Providers change documents between calls (`Edit`), so a
revision that was discovered need not be the one that is shown now. Time is in days.

**AdminConsole.** A step of the event loop is what runs between two awaits. `task` is
where each started command is, `process` what its Make process is, `reservation`,
`adminTarget` and `activeProcess` the three flags of the same names, `runner` the runner's
own slot under its lock, `screens` the modal screens in their order, `stops` the presses
of Stop. Pool threads (`Launch`, `Operate`, `Signalled`), the process and its monitor
(`Exit`, `Release`, `Complete`) run beside the loop. Writes of the event log may fail
(`Write`); a write whose failure changes nothing is left out.

**ActivityFeed.** `writer` and `lock` are the two transactions of an ingestion: the one
that writes, and around it the one that holds the advisory lock; a killed writer leaves
both on the server, which ends them one after the other. `feed` is `relay_change_events`
by id, `nextId` its sequence. An answer of the API is one query, and reaches the client
later. `page` is one visit of `ActivityPage` with its refs and the state `nextBeforeId`, `shown`
what React Query has under `["change-events"]`, `poll` and `older` the requests under way,
`left` a request for older events whose visit is over.

## 3. The runs

| run | bounds | checks |
|---|---|---|
| `ingest_season` | 1 gameweek, 2 players, 1 fixture, 4 fetch times, 3 events in the feed; any bundle at any time | `SnapshotsCoverRows`, `FeedExplainsSnapshots`, `OnlyFullFixturesDelete`, `LiveFixturesProtected` |
| `ingest_legacy` | 2 gameweeks, 2 players, 2 fixtures, rows from an older schema, 2 fetch times, 4 events in the feed | `NoOrphanRows`, `ReferenceRowsMirrorBootstrap`, `WatermarksAdvance`, `WritesNeedNews` |
| `pipeline_faults` | 1 window polled at two times, 2 failures, 1 maintenance window, 2 receives | `TypeOK`, `PointersResolve`, `NoJobForgotten`, `AcknowledgedMeansStored`, `PollsUntilTheEnd` |
| `pipeline_settles` | a reference job and a window, 1 failure, fair | `EveryJobSettles` |
| `schedules_planned` | 2 fixtures, 3 dates in 2 gameweeks whose windows coincide, touch or are polled apart, 1 move, 1 fault (failed reconciliation, broken chain or overtaken bundle), 18 instants | `WindowsAreMerged`, `Reconciled`, `MatchesArePolled` |
| `maintenance_restores` | 1 window that begins and ends, all five commands, 1 firing of the reference schedule, 1 crash, 1 change of plan, 2 rebaselines | `OperatorOwnsSchedules`, `StatesComeBack`, `CollectorRestored`, `RebaselineIsQuiet` |
| `maintenance_completes` | the same window, begin and end, 2 firings, 2 crashes, 1 change of plan, fair | `MaintenanceCompletes` |
| `community_reports` | 1 strategy, a channel of 2 videos and a blog that shares one, 2 days, 1 failure, 1 change of a document, 1 run by hand | `DraftsAreAccepted`, `EvidenceIsSound`, `OneAnswerPerJob`, `ExtractedOnce`, `ReportsAreFinal` |
| `community_delivery` | 2 strategies, 2 days, 2 failures, 1 redrive, 2 receives, fair | `EveryStrategyIsServed` |
| `migrations_applied` | 2 versions, an old and a new release, 1 ingestion with 1 transaction of 2 writes, batches of 2, 1 lost call, fair | `HistoryIsTrue`, `ImplementsSql`, `MigrationsComplete` |
| `console` | 3 commands of 4 kinds, 2 presses of Stop, 1 refused log write, fair | `OneOperation`, `RunnerNeverRefuses`, `QuietExit`, `TerminationIsConfirmed`, `EscalationIsOffered`, `BusyForAReason` |
| `activity_feed` | 2 writers, 1 killed, 1 rebaseline, 4 ids, pages of 2, 2 visits, 1 failed request, fair | `NoGaps`, `CatchesUp` |

The type invariants of the other modules hold in their runs as well (add
`INVARIANT TypeOK` to the configuration); they are kept for the proofs.

What the passing runs show:

* **The store.** Whatever bundles arrive in whatever order, and however often,
  reference rows are those of the newest accepted bootstrap answer; no deletion
  order leaves an orphan; watermarks only advance, and no row changes without news; and every
  snapshot change is in the feed exactly once, with the right before and after.
  Snapshots and rows agree but for one known gap: dependents of a removed player
  or gameweek lose their rows and keep their snapshots, which
  `SnapshotsCoverRows` states as an inclusion. Only an accepted full list deletes
  a fixture, and a reference bundle fetched during a match cannot take back what
  polling stored.
* **The pipeline.** With failures between any two calls, redelivery and
  dead-letter queues, upload-before-publish and publish-before-acknowledge are
  enough: the detailed cycle implements `JobDelivery` (a job without message is
  finished, dropped for the lock, or dead). A result leaves its queue only with
  its data stored, superseded, or refused. While a window is not over, each of its messages leaves
  its queue handed on; what ends polling before is named, and nothing else does: as many failed
  calls as a message has receives, maintenance during the invocation, or the lock of a killed invocation.
  Each of these does end it: without one of them TLC refutes `PollsUntilTheEnd`.
* **Schedules.** After any failed reconciliation, any firing and any bundle, late or skipped,
  the next completed reconciliation leaves exactly the windows of the stored fixtures, and a
  match that is stored as in play is polled again within a refresh period and a catch-up delay for each
  fixture (`Grace`; section 5 says why one period is not enough). Two exceptions are the code's: where a chain
  broke off, polling resumes only when the matches its window began with are over, and then within
  `Grace`; and a match whose stored kickoff is not FPL's is polled at the stored one (section 4).
* **Maintenance.** From activation to closing only the operator writes schedules;
  interrupted and repeated, commands give every schedule its state back and the
  collector its original state. The feed is rebuilt when no result is on its way, although drain
  and rebuild are separate calls, unless a refresh that was cut short left the collector running.
  Begin and end, given again until they succeed, complete the window, but for two cases a late
  reconciliation can bring about (`Missing`, `Stranded`; section 4).
* **Migrations.** Queued statements, lost calls, lost replies, repetitions by the SDK,
  cancelled tasks and killed processes are invisible but for a failed command: the
  session implements a database that executes at once. On top of it the history is
  always a prefix of the versions, and a version is in it exactly when its objects
  exist; two appliers with one history never apply a migration twice, because the
  history's key or the object refuses the second; and a command given again arrives at
  the newest version.
* **Community reports.** Whichever source fails in whichever phase, the counts of the
  report pass the validators that would discard it; evidence lies in the job's window, is
  from sources that did not fail and names no document twice; two runs of a job return
  the same report and it never changes; an extraction that is still in the lookback
  window is not bought again. A job that was dispatched ends with its report or
  in the dead-letter queue.
* **The console.** Two write operations never overlap, and the runner never refuses what
  the console allowed. Nothing is running when the console leaves, except
  reads. Only the process for which the dialog was opened is terminated. The console
  is free again after each command, but for the one case `Abandoned` names (section 4).
* **The change feed.** Because the lock spans the commit, also when a writer is killed, ids
  become visible in their order: a page that reads on from the greatest id it saw has every
  event from the beginning of its history to that id, with older events loaded, visits
  begun and requests lost at any moment. It catches up while it is open and visible.

### Bounds

Constants named `Max*` bound what would grow: time, the feed, firings, faults,
crashes, maintenance windows, moves, rebaselines. They are large enough for the
cases the properties are about. Two fetch times give a stale, an equal and a
newer bundle for every source; four let a fixture be live-owned and fall out
of the window (`LiveWindow = 2`). Two failures are needed for a message to exhaust
`MaxReceives = 2` and reach a dead-letter queue, and for an abandoned lock to meet a
redelivery. A window polled at two times requeues once and stops once; a fork
gives two chains that write one source. Kickoffs 3 and 11 with windows
`[k - 1, k + 7]` coincide or touch exactly at 10, which is the boundary of merging,
and lie in two gameweeks or one (`Dates` names the three combinations a fixture may have); with `Grace = 6` each
match lasts long enough to be found late, at 9 and at 17, where time ends. One `MaxFaults` is spent on a failed
reconciliation, on a broken chain or on a bundle that FPL's move overtakes, so that each is met alone; a bundle that is
not overtaken costs nothing. The first window begins at 2, so that its
schedule, before it fires, meets a reconciliation that has given the window another end. In `Maintenance` the window begins at 1 and
ends at 3, where time ends: its schedule may be deleted or enabled by a late reconciliation, and fire before, during and after
each call of a command. One crash plus the repeated command reaches each
continuation of a maintenance command, and two rebaselines let the second follow a refresh that was cut
short; liveness is checked with two crashes.
One lost call or reply meets every kind of call (begin, execute, batch, commit,
rollback), and its rollback may then be the one that is cancelled; a batch of two needs
both a full and a partial flush; two releases give a history longer than the old
release knows. `Lookback = 2` and `Retention = 3` (7 and 8 in the manifest) leave one day
on which an extraction has left the window and is still retained; one document leaves the
window on the second day and one enters it. `MaxReceives = 2` (3 in the template) needs
two failures. The console's four commands are one of each kind (Make process, form and
change, read that reports progress, read that shows a result); three of them
let a process end, another start, and a third be refused, while two presses of Stop are at
different stages of escalation.
Four ids in pages of two give a recent page with older history, a catch-up of two
pages, an id below the cursor that is drawn and not committed, and one that never is.
`FixtureSymmetry` is sound because windows, schedules and chains do not name
fixtures and the properties quantify over all of them. Deadlock is only checked for
the store: the other systems stop when their bounds are used up.

### Fairness

`CollectionPipeline!Fairness`: the collector's loop runs as long as its container,
which is restarted (`restart: unless-stopped`), and swallows exceptions; Lambda
invokes while there are messages; SQS ends visibility timeouts and redrives; a lock
is released by commit, rollback or the Data API's time-out; time passes. Faults are
not fair: they are bounded by `MaxFaults`. `Maintenance!Fairness`: the command
under way proceeds unless it crashes, and the operator gives begin again while the
row is entering and end while it can be closed, which is the documented way to
recover; the Lambda handles results, and a running collector collects. A first begin, firings and
the clock are not forced. All of it is weak fairness of steps that stay enabled until they are taken.

`Migrations!Fairness`: the Data API answers each call that is not lost; a transaction without client expires on the server; the ingestion ends its
transaction (a Lambda has a time-out); an applier's program runs, and a failed command is
given again, which is what the documentation tells the operator. Lost calls and killed
processes are not fair. `CommunityReports` assumes that the Lambda is invoked and runs;
nothing of the operator, of failures, edits or redrives. `AdminConsole` assumes weak
fairness of `Progress` as a whole: every event, thread and screen of the model is used
once, so a step that stays possible is reached when the finitely many others are done. The
operator's choices and the exit of a process are not in it: a
Make process may run for ever, and a form may stay open.
`ActivityFeed` assumes that a visible page polls (`refetchInterval`) and the API answers or
fails, the latter `MaxErrors` times; nothing of writers, of the reader or of older history.

`MaintenanceCompletes` is about begin and end, and holds but for `Missing` and `Stranded` (section 4). It is
not claimed for `restore` and `rebaseline`: a failed refresh stops the collector with jobs in
the fetch queue, and every later command refuses until the collector is started by hand.

## 4. Where code and documentation disagree

Six properties are stated in the modules and refuted when the line is added to a
configuration that otherwise passes:

| add | to | what the code does |
|---|---|---|
| `INVARIANT OneNextPoll` | `PipelineFaults.cfg` | a live result delivered twice is queued twice; from then on two chains poll the window. Data stays right (`WatermarksAdvance`), polling doubles |
| `INVARIANT OneChainPerGameweek` | `SchedulesPlanned.cfg` | when the first match of a merged window ends, the rest is planned under a new name, and a second chain starts next to the first |
| `INVARIANT FullFixturesGovernStructure` | `IngestSeason.cfg` | a live bundle fetched before the newest full fixtures and delivered after it writes all columns, an old kickoff included, and the next full refresh with an unchanged hash does not correct it |
| `PROPERTY NoFalseCreation` | `IngestLegacy.cfg` | after migration 2, a live bundle before the first refresh makes that refresh announce stored fixtures as created |
| `INVARIANT SchedulesDisabled` | `MaintenanceRestores.cfg` | an invocation that read the flag before the row was opened enables a live schedule that begin has disabled; it may fire into the fetch queue while the collector is stopped, and end then refuses |
| `PROPERTY QuitEnds` | `AdminConsole.cfg` | `q` leaves the console unless a write or a managed process is active (docs/administration.md). A queue drain is a read, and reports its progress from a pool thread through `call_from_thread`, which waits for the event loop; `on_unmount` waits for the pool's threads on that loop, and the console does not end |

Four properties hold only with an exception that the code has and the documentation does not mention. Each
exception is a disjunct of the property, and TLC refutes the property without it:

* `MatchesArePolled`. A result that finds the lock of a killed invocation is dropped with success
  (lambda_ingestion.py:149-154), and after three receives a message is buried. Either ends the chain, and the retained
  schedule of a window that has started does not start it again (`RetainedByStart` is what the code does
  not do): the window stays unpolled until its first matches are over. And the property is about stored
  fixtures. About FPL's it is refuted: a full payload equal to the last one is skipped
  (database.py:1779) although a late live bundle has written an old kickoff in between.
* `PollsUntilTheEnd` says of the pipeline what breaks a chain off.
* `RebaselineIsQuiet`. Begin, a late reconciliation that enables the live schedule again, the window active;
  `rebaseline --refresh` dies and leaves the collector running; a second rebaseline without refresh
  drains; the schedule fires and is collected; the feed is rebuilt with its result on the way.
* `MaintenanceCompletes`. `Missing`: a late reconciliation of changed fixtures deletes a schedule that begin has
  recorded; begin's and end's `update_schedule` raises on every repetition (administration.py:225-230).
  `Stranded`: a late reconciliation enables a schedule again that fires when the collector has been
  stopped; begin's second drain times out on every repetition, end refuses, and only a collector
  started by hand (or the queue's retention of a day, which loses the job) ends that.

Met while modelling the newer modules; the models follow the code in each of them:

* A command that only reads ends with `_set_task_status(stoppable=False)`, also while
  a managed process runs: Stop disappears until that process ends.
* The five-second timer after an interrupt does not know its process. When that one ends and
  another starts within five seconds, termination of the new one is on offer although
  it was never interrupted.
* The start of an administration command is logged before the `try` that clears
  `_active_admin_target`. When the log refuses the write, every later change is refused
  and the console cannot be left with `q` (`Abandoned`).
* `_process_interrupt_requested` is set after the signal's await: if the process ended
  meanwhile, it is set after its reset, and the next process is shown as interrupted.
* Status reads overlap, and the slower, older answer is drawn last.
* A cached extraction is looked up without the publication time that the validator then
  compares. When a publisher moves it and keeps the revision, every run of the strategy
  fails until the cached row expires.
* An opened Activity page may show the cached events of an earlier visit before
  its own first answer. Until then its ref is empty, and inspecting one of them fails with
  "is not loaded", where docs/client.md has it load the affected entities.
* Older events requested by a visit that is over still reach the cache, and replace what
  the next visit shows until its next poll.
* A rebaseline deletes events and leaves them on open pages; their details come back empty.
* `build_ingestion_status` takes the oldest check of the live sources of all gameweeks while
  no window is open: with two gameweeks played, "last successful check" is the earlier's.

## 5. The proofs

Each theorem holds for every value of the module's constants: any set of events,
elements and fixtures and any upstream; any jobs, message ids and number of faults; any fixtures, kickoff times, moves
and failed reconciliations; any tasks and presses of Stop; any page size and number of writers; any strategies, sources
and documents; any migrations, releases, ingestions and batch size; any windows, commands
and number of crashes. All are invariants or action properties of the whole specification, but
for the three about `EntityDiff`, which are about its operators. What a run checks on
a small instance is named in the second column.

| theorem | property | says |
|---|---|---|
| **`IngestStore_proofs`** | | |
| `AuthoritativeReplaces` | - | diff and synchronize with an authoritative payload = the payload |
| `BaselineInstalls` | - | a silent baseline installs the payload |
| `SynchronizeIsReplay` | - | replaying the announced changes = synchronizing |
| `TypeCorrect` | - | the database is well typed |
| `WatermarksNeverGoBack` | `WatermarksAdvance` | no source goes back, is forgotten or has two payloads for one time |
| `FeedIsComplete` | `FeedExplainsSnapshots` | each transaction's events explain each change of the snapshots |
| `ReferenceMirrored` | `ReferenceRowsMirrorBootstrap` | reference rows are those of the newest accepted answer |
| `ParentsAlwaysThere` | `NoOrphanRows` | no row loses the row it refers to |
| `DeletionNeedsFullFixtures` | `OnlyFullFixturesDelete` | a fixture disappears only with a full payload without it |
| `LiveFixturesOwned` | `LiveFixturesProtected` | a full refresh leaves what the live source owns |
| `RowsNeedNews` | `WritesNeedNews` | a bundle delivered again or too late writes no row |
| `SnapshotsDescribeRows` | `SnapshotsCoverRows` | snapshots and rows agree, in a database that began empty |
| **`CollectionPipeline_proofs`** | | |
| `TypeCorrect` | `TypeOK` | queues, workers, lock and watermark are well typed |
| `PointersAlwaysResolve` | `PointersResolve` | a pointer has its bundle |
| `ResultsLeaveStored` | `AcknowledgedMeansStored` | a result leaves its queue stored, superseded or refused |
| `WindowsPolledToTheEnd` | `PollsUntilTheEnd` | before the window is over, its messages are handed on; only used-up receives, maintenance or an orphaned lock end polling |
| `PipelineDelivers` | `NoJobForgotten` | the pipeline implements `JobDelivery` |
| **`LiveSchedules_proofs`** | | |
| `WindowsAlwaysMerged` | `WindowsAreMerged` | what an invocation plans are the connected components of the stored fixtures' windows |
| `TypeCorrect` | - | a schedule has its window's name and is not due before it starts; the rest is well typed |
| `ReconciledAlways` | `Reconciled` | a completed reconciliation leaves exactly the planned schedules |
| `MatchesAlwaysPolled` | `MatchesArePolled` | a stored match in play is never left unpolled for longer than `Grace`, but where a chain broke off, whatever bundles are late or skipped |
| **`AdminConsole_proofs`** | | |
| `OperationsExclude` | `OneOperation` | write operations never overlap |
| `RunnerAlwaysReady` | `RunnerNeverRefuses` | the runner never refuses what the console let through |
| `ExitIsQuiet` | `QuietExit` | nothing runs when the console leaves, except reads |
| `TerminationsConfirmed` | `TerminationIsConfirmed` | only the process of the dialog is terminated |
| **`ActivityFeed_proofs`** | | |
| `CommitsAscend` | - | what becomes visible is above all that is visible |
| `PageHasNoGaps` | `NoGaps` | the page has every event between its history and its cursor |
| **`CommunityReports_proofs`** | | |
| `CountsAccepted` | `DraftsAreAccepted` | the draft's counts pass the validators |
| `CitationsSound` | `EvidenceIsSound` | evidence is in the window, read, and of distinct documents |
| `AnswersAgree` | `OneAnswerPerJob` | every run that ends with a report answers with the stored one |
| `NothingPaidTwice` | `ExtractedOnce` | what is retained is not extracted again |
| `PublishedIsFinal` | `ReportsAreFinal` | a report never changes and never disappears |
| **`Migrations_proofs`** | | |
| `ConnectionsImplementSql` | `ImplementsSql` | the connection implements `SqlTransactions` |
| `HistoryTellsTheTruth` | `HistoryIsTrue` | the history is a prefix, and the schema is what it says |
| **`Maintenance_proofs`** | | |
| `TypesHold` | - | schedules, jobs, row and invocation are well typed; an active row knows whether the collector ran |
| `SchedulesOwned` | `OperatorOwnsSchedules` | in an active or exiting window only the operator writes schedules |
| `StatesCameBack` | `StatesComeBack` | closing finds every schedule back, or its window over |
| `CollectorIsRestored` | `CollectorRestored` | a collector that ran runs again when end closes the row |
| `RebuiltQuietly` | `RebaselineIsQuiet` | the feed is rebuilt with no result on its way, unless a command was cut short and the collector runs |

### Assumptions

Only the named assumptions of the modules, each evaluated by TLC in its runs:

* `IngestStore`: payloads are well formed (`PayloadAssumption`), `Null` and `Absent` are no
  data, bounds are naturals, and the rows of a migrated database are typed and satisfy
  the foreign keys that PostgreSQL has enforced on them (`InitialTablesAssumption`).
  `SnapshotsDescribeRows` has `InitialTables = {EmptyTables}` as hypothesis: in a migrated
  database there are rows without snapshots until the first refresh, which
  is `NoFalseCreation` of section 4.
* `CollectionPipeline`: reference jobs are no windows, a window's source is not the
  reference source, `Nobody` is no message id, bounds are naturals (`BoundAssumption`).
* `LiveSchedules`: a window begins before the kickoff and ends after it, and the catch-up delay is
  positive (`WindowAssumption`, as the constants in `jobs.py`); times and gameweeks are naturals
  (`BoundAssumption`); there are finitely many fixtures (`FixturesAssumption`), whose dates are a gameweek and a
  kickoff, or neither (`DatesAssumption`). That schedules fire
  on time and a refresh completes in each `RefreshEvery` are guards of `Tick`, not assumptions
  on constants: without them no bound on polling could be stated.
* `AdminConsole`: commands are Make or administration targets.
* `ActivityFeed`: a page has room for an event; `None` is neither a number nor a writer.
* `CommunityReports`: the manifest's own validators (each strategy once, with distinct
  sources of its own, `Retention > Lookback`: `StrategyAssumption`), and
  each source lists a sequence of documents (`ListingAssumption`).
* `Migrations`: statements write known keys (`SessionAssumption`); migrations are sequences of
  statements, versions have rows of their own, appliers and ingestions are different clients
  (`MigrationAssumption`); and no statement of a migration or of an ingestion writes a history
  row (`HistoryAssumption`): in the repository only `apply_migrations` inserts into
  `relay_schema_migrations`.
* `Maintenance`: windows begin before they end and none is named like the reference schedule
  (`WindowAssumption`); the commands are those of the command line (`CommandAssumption`); bounds are
  naturals (`BoundAssumption`).

### Why the invariants are inductive

**Store.** `Typed` is the part of `TypeOK` that is inductive, with a lemma per operator.
`WatermarksNeverGoBack` needs that times are dated (`SourcesDated`); each step leaves the
sources or records a bundle without conflict. `FeedIsComplete` follows from
`Typed`: one lemma per kind of family step (turned away, baseline, diffed) shows it
`Explained`, and a transaction has each family once. `ReferenceRowsMirrorBootstrap` is not inductive: a
skipped payload changes rows relative to the snapshots, so they must be known to be
equal once the bootstrap source exists, and the snapshots empty before, so that
the first one is a baseline that scans the rows (`ReferenceAgrees`). The same holds
for `SnapshotsCoverRows`, whose `Covered` says it per family: equal for events and elements; for
fixtures, status and live data a subset, because a removed gameweek takes rows whose snapshots stay.
`NoOrphanRows` goes statement by statement through both transactions (`Write*` puts parents first,
`Remove*` children first). `DeletionNeedsFullFixtures` and `LiveFixturesOwned`
follow one fixture row through all stages of a reference bundle, and `RowsNeedNews` shows that with payloads
turned away (`Idle`) each stage returns the very rows it was given, the removal included.

**Pipeline.** `WorkersSound` is the invariant of the two workers: a message in a worker's hands is still
queued and invisible, so that nobody else deletes it (`Held`); the collector's payload is for the message's
job and is in the bucket from `publish` on; past the commit the watermark has
reached the result (`StoredWhenCommitted`); an invocation that returns without the next poll has
seen the end of the window or maintenance (`EndsForAReason`). `PollsUntilTheEnd` needs to know who holds
the lock (`LockHeldForAReason`: an invocation that finds it taken finds a rebaseline's, in maintenance, or an
orphan) and that receives are paid for: a message has been received at most as often as calls
failed, plus once while it is in hand (`FetchFailed`, `ResultsFailed`), so it is buried only after that many. Each
property follows from `WorkersSound` in one step. The refinement needs in addition `Accounted`: a job that is owed is carried by a
message which will not be deleted before another carries it or the job has ended, so neither the one that
the collector is about to acknowledge nor a result whose next poll is queued. Then each step is a
step of `JobDelivery`, or a stutter.

**Live schedules.** What `BuildMatchWindows` computes is an induction over the sorted candidates. It is done
without the library's induction theorem: a least number of candidates after which the merge is wrong
would have one fewer for which it is right (`LoopMerges`), and the same for the existence of the sorted
sequence and of the fold itself. `MergeStep` is the loop's body: the windows so far are the components of the candidates
so far, in order, so only the last can touch the next candidate. Two facts then connect builds at
different times: every fixture that is not over lies in a window (`FixtureCovered`), and a window keeps its
start, hence its name, until the match it starts with is over (`StartPersists`). `Reconciled` needs `ReconcilerSound`:
the windows that are done have their schedules, in full if they had not started, and what else is in the group is
planned or obsolete. `ChainsSound` says what a fired schedule has led to: a chain under way, one that
outlasted its match, or one that broke off (`brokenUntil`). Bundles matter only in that a reconciliation plans what is stored when it
starts and nothing else writes while it runs; every other write begins a new wait (`PersistTyped`). `MatchesArePolled` compares clock and polls only, so its invariant is about deadlines. A gameweek
waits `Since` its last poll, the last change of the stored fixtures, the end of a broken chain's first match or the start of the window. What the last completed run planned is
there, unless its first match is over (`RefreshSound`), and a schedule that has not fired comes due within a `Period`, a refresh
and a catch-up, for itself and for each window of the gameweek with an earlier start (`SchedulesInTime`):
a run that finds the first match over deletes the schedule of that window, perhaps when its catch-up was about
to fire, and the window that replaces it must wait for the next run if this one fails. Each time a
match is over, so there are at most as many periods as fixtures. One refresh period for all
fixtures would not do: with `Kickoffs = {0, 4}`, five units before and after a kickoff, `RefreshEvery = 3`, `CatchUp = 2` and one failure
TLC finds a match that waits longer than `RefreshEvery + CatchUp * Cardinality(Fixtures)`.

**Console.** The three flags for "busy" are set in different callbacks. `ConsoleSound` ties them
together: an operation in flight owns the reservation; a live process belongs to a task that started it
and is not yet past its monitor; the runner's slot belongs to a task in `starting` or such a process; a console that
is leaving has no operation in flight. `TerminationIsConfirmed` needs `StopsTyped` only.

**Change feed.** `NoGaps` is about a page and a writer that never meet. `StoreSound` says that one writer holds
the lock up to its commit, and what it may commit is above all that is visible (`Closed(id)`: nothing
at or below `id` can still appear). `PageSound` says that the cursor is closed and the page has everything
from its oldest bound to the cursor; `PollSound` and `OlderSound` say the same of pages under way, whose answers may be
older than the page they reach.

**Community reports.** `WorkersSound` gives for each step of a run what its local variables
satisfy: documents found lie in the window, are from sources that did not fail, and are distinct by id and URL;
hits and extractions are disjoint parts of them, writes at most as many as extractions. `Retained` relates the cache
to all that was ever extracted. `EvidenceIsSound` is inductive only together with the former.
Discovery deduplicates by positions of a sequence and is proved without induction.

**Data API session.** Two facts about statements carry the refinement: running `s` and then `t` is running
`s \o t` (`AfterBoth`), and running a call twice is running it once (`AfterTwice`), which is why a repetition by the SDK does
not show. `SessionSound` says what a method leaves to call: at most two calls, only the last without statements, nothing
queued when a read or a commit is next, one statement outside of a transaction. So putting a
statement into the queue, sending a batch and answering it leave `After(effects, Pending)` as it is but for the statement issued;
each method is one step of `SqlTransactions`, and each answer one step or a stutter.

**Migrations.** The history is proved on top of that refinement: what a client sees is a transaction of
`SqlTransactions`, and nobody else changes it (`Undisturbed`). `HistoryInv` says where each applier is: its
plan may be old, but what it read as applied still is (rows are never taken back); in the middle of version
`v`, its transaction is exactly what was done of it, the versions below `v` are there, and what is done
followed by what is left is the whole migration; when it commits, the transaction is the whole of it. `HistoryIsTrue` alone says
nothing of a transaction that is under way, so it is not inductive. Whether a second applier could commit `v` as well
does not matter to the proof: it would write what is already there.

**Maintenance.** `MaintenanceSound` ties a command to the phase in which it makes its calls
(`CommandSound`), and the rest of it is about what was read earlier. `Drained`: in an active or exiting window no
invocation plans, though one that read the flag before the row was opened may have gone on for
long: its result is in the queue until it returns (`LambdaSound`), so the second drain, before `Activate`, has waited for it, and
`restore`, which may skip that phase, has looked at the queues itself. `ComingBack`: the
names a restore has done have their state, or their window was over at the restore's own time,
which is no later than now; a restore that was cut short has done nothing that counts, as its successor starts with
all names. `CollectorSound`: what begin has seen is what the collector does until the row is
written, so a row that begin opened says `running` if it ran, whatever later begins see of a collector already stopped.
`QuietSound` carries `RebaselineIsQuiet`: in an active window only a refresh has the collector run, or one that was cut
short, and what a stopped collector has left of results is gone after the drain (`StaysQuiet`).
The four properties hold of steps, not of states, so each proof first rules out the actions that cannot take such a step.

### What is only model-checked

Liveness, which is out of TLAPS's reach as ENABLED is: `EveryJobSettles`, `MaintenanceCompletes`,
`MigrationsComplete`, `EveryStrategyIsServed`, `EscalationIsOffered`, `BusyForAReason` and `CatchesUp`. Every
invariant, action property and refinement that a run checks is a theorem as well.

## 6. What is left out

* Season rollover: one season; static bootstrap tables (teams, positions, phases)
  behave like elements and are left out.
* Fields inside an entity: one datum per entity, equality for canonical JSON.
* The AWS services are modelled as the template configures them, but for the retention of
  the queues: a message that is a day old expires (`MessageRetentionPeriod`, template-app.yaml:115 and 132), silently
  and without a dead-letter queue. No model has that; it takes a collector or a Lambda that stands still for a day,
  and then a job is forgotten after all. Whether EventBridge
  fires a one-time schedule whose time has passed is not settled by the
  repository; the model fires it once, within the minute.
* `LiveSchedules` takes no fetch times from clocks: a late live bundle may hold any earlier answer of FPL, also one that its
  gameweek's polls were too late to see, which allows more than the code does. Ownership of live fixtures
  (`IngestStore`) is left out: it protects scores and statistics, and event and kickoff always come from the payload. Chains with equal windows count as one. `Reconciled` compares the
  windows of schedules, not their due times; `MatchesArePolled` depends on those.
* Queue depths are exact in `Maintenance`. SQS counts are approximate, which the
  stability period of `drain_queues` is for.
* `pause` opens a row without a collector state; `CollectorRestored` is about rows
  that begin opened.
* Data API: parameters, types and the parsing of results. A lost reply to `begin`
  leaves an empty server transaction without locks, which is ignored. Isolation is read
  committed with one row version. Inserts without a key (the change events) are not
  among the statements: repeated by the SDK after a lost reply, those would be written
  twice, which the model does not show.
* Migrations: a migration is a few statements of four kinds (create, put, alter, insert);
  `split_sql_statements` and the status command have no behaviour to check.
* Community reports: reasons to fail before any write (an unknown season, another
  contract version, credentials, a model's refusal) are one `Abort`; topics, summaries,
  ranking, entity snapshots, the splitting of evidence into packets, paging of providers
  and the pacing of requests are left out. `Materialize` keeps a feed's link as the URL of its document, where the
  code takes the URL after redirects (community_sources.py:675): two links that redirect to one
  article are not seen. `ExtractedOnce` takes what is known from the look-up: two concurrent runs
  of a job may pay for the same document. Two waiting messages with one body and one
  receive count count as one, and a day's manual window is exact only to the day.
* The console: a process is the leader of its group, as for `is_running`, and its monitor ends with it; in the code
  the monitor first joins the reader of the terminal, which descendants of a leader that has exited can
  keep busy (process_runner.py:372-378, 418). The pool is unbounded, so eight slow reads that keep a signal from being
  sent are not seen; leaving is one step up to `on_unmount`; a press of Stop and the start
  of its worker are one step; tables, history, snapshots and log rotation are left out.
* The local scheduler computes its sleep from a loop time read before the cycles: a cycle
  is late by what the cycles took. No state depends on it, and its cycles are `IngestStore`'s.
* The request pacer is one method under one lock.
* Restoring schedules reads the time once; a trigger that passes before its own update
  is then in the past. Whether EventBridge still fires it is not settled here.
* Two operators at once in production administration: the documentation describes one.
* The migration 5 procedure (`schedule_bootstrap.py` and its script) drives other
  programs through a migration that has shipped. The command line and configuration have
  no state that outlives a call.
* The read API's other routes are queries. Some are two statements outside of a
  transaction (fixtures and their statistics, the status and its days, live elements and
  their explanations), so an answer may mix two ingestions; the next one does not.
* A commit that the server carries out after its caller has given up and released the
  lock is not modelled: calls take effect or are lost.

## 7. Plan

Done: every module of section 2 with its runs, and the theorems of section 5: each invariant, action property
and refinement that a run checks is a theorem.

What could come next is breadth: two seasons in `IngestStore`, the fields of a fixture that the API joins, and
the local scheduler next to `IngestStore`.
