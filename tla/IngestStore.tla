---------------------------- MODULE IngestStore ----------------------------
(***************************************************************************)
(* The change-aware store behind ingestion: PostgresDatabase.upsert_       *)
(* reference_snapshot, upsert_live_snapshot and rebaseline_current_change_ *)
(* feed with everything they call, and the service checks in front of them *)
(* (application/ingestion/service.py).                                     *)
(*                                                                         *)
(* One season.  Every operation runs under one advisory lock and inside    *)
(* one transaction, so it is one action; a statement that fails aborts the *)
(* whole transaction, so the action is not enabled then.  Collected        *)
(* bundles reach the store late, twice and in any order: an action takes   *)
(* any upstream answers at any fetch time.  The payload hash is the        *)
(* payload itself.                                                         *)
(***************************************************************************)
EXTENDS EntityDiff, Naturals, Sequences, Functions

CONSTANTS
    Null,                \* JSON null / SQL NULL
    Events, Elements, Fixtures,         \* ids FPL may use
    ElementData,         \* what FPL may say of one element
    BootstrapPayloads,   \* the answers FPL may give, per resource
    FixturePayloads,
    StatusPayloads,
    LivePayloads,
    LiveWindow,          \* LIVE_WINDOW_AFTER_KICKOFF
    InitialTables,       \* normalized rows a migrated database may hold
    MaxTime,             \* bound: fetch times are 1..MaxTime
    MaxFeed              \* bound: length of the change feed

IsPartial(f, S, T) == DOMAIN f \subseteq S /\ f \in [DOMAIN f -> T]

(* One fixture as FPL reports it; kickoff_time and event may be unknown.   *)
Fixture == [event : Events \cup {Null}, kickoff : Nat \cup {Null},
            started : BOOLEAN, stats : SUBSET Elements]

(* A season has events; at most one of them is current (select_current_    *)
(* event_id).                                                              *)
IsBootstrap(b) ==
    /\ b = [events |-> b.events, current |-> b.current, elements |-> b.elements]
    /\ b.events \subseteq Events /\ b.events # {}
    /\ b.current \in b.events \cup {Null}
    /\ IsPartial(b.elements, Elements, ElementData)

Status == [leagues : STRING, days : SUBSET Events]

(* A live element is represented by the fixtures its points come from.     *)
ASSUME PayloadAssumption ==
    /\ \A b \in BootstrapPayloads : IsBootstrap(b)
    /\ \A p \in FixturePayloads : IsPartial(p, Fixtures, Fixture)
    /\ StatusPayloads \subseteq Status
    /\ \A p \in LivePayloads : IsPartial(p, Elements, SUBSET Fixtures)

ASSUME BoundAssumption == LiveWindow \in Nat /\ MaxTime \in Nat /\ MaxFeed \in Nat

ASSUME NullAssumption ==
    Null \notin Events /\ Null \notin Nat /\ Null \notin STRING

(* Absence is no JSON value.                                               *)
ASSUME AbsentAssumption ==
    /\ Absent \notin BOOLEAN /\ Absent \notin ElementData
    /\ Absent \notin Fixture /\ Absent \notin StatusPayloads
    /\ \A p \in LivePayloads : \A x \in DOMAIN p : p[x] # Absent

VARIABLES
    sources,    \* relay_ingestion_sources: newest payload per source identity
    tables,     \* the normalized fpl_* rows
    snapshots,  \* relay_entity_snapshots, per family
    feed        \* relay_change_events with their entity changes

vars == <<sources, tables, snapshots, feed>>

-----------------------------------------------------------------------------
(* Source identities: (source_key, event_id); the season is fixed.         *)

BootstrapSource == <<"bootstrap-static", Null>>
FixturesSource == <<"fixtures", Null>>
CurrentFixturesSource(e) == <<"fixtures-current-event", e>>
StatusSource(e) == <<"event-status", e>>
LiveSource(e) == <<"event-live", e>>

SourceIds ==
    {BootstrapSource, FixturesSource, StatusSource(Null)}
        \cup {StatusSource(e) : e \in Events}
        \cup {CurrentFixturesSource(e) : e \in Events}
        \cup {LiveSource(e) : e \in Events}

PayloadsOf(id) ==
    CASE id[1] = "bootstrap-static" -> BootstrapPayloads
      [] id[1] = "event-status" -> StatusPayloads
      [] id[1] = "event-live" -> LivePayloads
      [] OTHER -> FixturePayloads

Families == {"events", "elements", "fixtures", "event_status", "event_live"}

(* Older fetches of the same source are ignored without a trace.           *)
Stale(id, time) == id \in DOMAIN sources /\ time < sources[id].fetchedAt

(* compare_source raises on two answers with one timestamp.                *)
Conflicting(id, payload, time) ==
    /\ id \in DOMAIN sources
    /\ time = sources[id].fetchedAt
    /\ payload # sources[id].hash

(* Mutant: an older payload that differs is written as well.               *)
AcceptedWhateverAge(id, payload, time) ==
    id \in DOMAIN sources => payload # sources[id].hash

(* compare_source says the payload has to be written.                      *)
Accepted(id, payload, time) ==
    id \in DOMAIN sources =>
        time >= sources[id].fetchedAt /\ payload # sources[id].hash

(* Mutant: every bundle moves the watermark.                               *)
RecordSourcesWhateverAge(payloads, time) ==
    [id \in DOMAIN sources \cup DOMAIN payloads |->
        IF id \in DOMAIN payloads
        THEN [hash |-> payloads[id], fetchedAt |-> time] ELSE sources[id]]

(* Sources after one bundle: an accepted payload is recorded, an unchanged *)
(* one only refreshes fetched_at.                                          *)
RecordSources(payloads, time) ==
    [id \in DOMAIN sources \cup DOMAIN payloads |->
        IF id \in DOMAIN payloads /\ ~Stale(id, time)
        THEN [hash |-> payloads[id], fetchedAt |-> time]
        ELSE sources[id]]

-----------------------------------------------------------------------------
(* Snapshots of the payloads, and the diff of one family.                  *)

EventSnapshots(b) == [e \in b.events |-> e = b.current]
StatusSnapshot(s) == [key \in {"status"} |-> s]
LiveSnapshots(e, live) == [key \in {e} \X DOMAIN live |-> live[key[2]]]

(* compare_snapshot_families reads the whole family, or for event_live the *)
(* scope of the source's event.                                            *)
Previous(family, id) ==
    IF family = "event_live"
    THEN Restrict(snapshots[family],
                  {key \in DOMAIN snapshots[family] : key[1] = id[2]})
    ELSE snapshots[family]

(* One family of an accepted payload: what changes, what is written and    *)
(* what the snapshot table holds afterwards.                               *)
FamilyStep(family, current, id, authoritative) ==
    LET previous == Previous(family, id)
        baseline == id \notin DOMAIN sources /\ previous = NoEntities
        changes  == Diff(previous, current, authoritative, baseline)
    IN  [baseline |-> baseline,
         changes  |-> changes,
         written  |-> KeysToUpsert(changes, current, baseline),
         snapshot |-> Synchronize(snapshots[family], current, changes,
                                  authoritative, baseline),
         event    |-> [family |-> family, source |-> id, changes |-> changes]]

(* A payload compare_source turned away: nothing changes and the           *)
(* statements below write nothing.                                         *)
NoStep(family) ==
    [baseline |-> FALSE, changes |-> NoEntities, written |-> {},
     snapshot |-> snapshots[family]]

OfferedStep(family, current, id, payload, time, authoritative) ==
    IF Accepted(id, payload, time)
    THEN FamilyStep(family, current, id, authoritative) ELSE NoStep(family)

(* Mutant: written baselines are announced as well.                        *)
AnnouncedWithBaseline(step) ==
    IF step.written = {} /\ DOMAIN step.changes = {} THEN <<>> ELSE <<step.event>>

(* insert_change_event: a family without changes has no event.             *)
Announced(step) == IF DOMAIN step.changes = {} THEN <<>> ELSE <<step.event>>

-----------------------------------------------------------------------------
(* Statements on the normalized rows.                                      *)

Overwrite(rows, written, current) ==
    [key \in DOMAIN rows \cup written |->
        IF key \in written THEN current[key] ELSE rows[key]]

Without(rows, removed) == Restrict(rows, DOMAIN rows \ removed)

FixtureRowType ==
    [event : Events \cup {Null}, kickoff : Nat \cup {Null}, started : BOOLEAN]

FixtureRow(fixture) ==
    [event |-> fixture.event, kickoff |-> fixture.kickoff,
     started |-> fixture.started]

StoredStats(rows, f) == {p \in Elements : <<f, p>> \in rows.fixtureStats}

(* The SELECT and live_fixture_ownership_active of fixtures_with_live_     *)
(* ownership.                                                              *)
LiveOwned(rows, f, time) ==
    /\ f \in DOMAIN rows.fixtures
    /\ rows.fixtures[f].started
    /\ rows.fixtures[f].kickoff # Null
    /\ time < rows.fixtures[f].kickoff + LiveWindow

(* Mutant: the statistics are not put back.                                *)
WithLiveStartOnly(rows, fixtures, time) ==
    [f \in DOMAIN fixtures |->
        IF LiveOwned(rows, f, time)
        THEN [fixtures[f] EXCEPT !.started = rows.fixtures[f].started]
        ELSE fixtures[f]]

(* The full-fixtures payload with live-owned dynamic fields put back.      *)
WithLiveOwnership(rows, fixtures, time) ==
    [f \in DOMAIN fixtures |->
        IF LiveOwned(rows, f, time)
        THEN [fixtures[f] EXCEPT !.started = rows.fixtures[f].started,
                                 !.stats = StoredStats(rows, f)]
        ELSE fixtures[f]]

WriteBootstrap(rows, b, events, elements) ==
    [rows EXCEPT
        !.events = Overwrite(rows.events, events.written, EventSnapshots(b)),
        !.elements = Overwrite(rows.elements, elements.written, b.elements)]

(* Mutant: any fixtures payload is taken for the complete list.            *)
WriteFixturesAsComplete(rows, fixtures, step, authoritative) ==
    LET kept == DOMAIN fixtures \cap (DOMAIN rows.fixtures \cup step.written)
        fixtureRows == [f \in kept |-> FixtureRow(fixtures[f])]
    IN  [rows EXCEPT
            !.fixtures = Restrict(Overwrite(rows.fixtures, step.written, fixtureRows), kept),
            !.fixtureStats =
                {s \in rows.fixtureStats : s[1] \in kept \ step.written}
                    \cup {s \in step.written \X Elements : s[2] \in fixtures[s[1]].stats},
            !.explainStats = {x \in rows.explainStats : x[3] \in kept}]

(* Upsert the selected fixtures, replace their stat entries, and for the   *)
(* authoritative source delete what is gone, with its explain rows.        *)
WriteFixtures(rows, fixtures, step, authoritative) ==
    LET removed == IF ~authoritative THEN {}
                   ELSE IF step.baseline THEN DOMAIN rows.fixtures \ DOMAIN fixtures
                   ELSE DeletedKeys(step.changes)
        fixtureRows == [f \in DOMAIN fixtures |-> FixtureRow(fixtures[f])]
    IN  [rows EXCEPT
            !.fixtures = Without(Overwrite(rows.fixtures, step.written, fixtureRows),
                                 removed),
            !.fixtureStats =
                {s \in rows.fixtureStats : s[1] \notin step.written \cup removed}
                    \cup {s \in step.written \X Elements : s[2] \in fixtures[s[1]].stats},
            !.explainStats = {x \in rows.explainStats : x[3] \notin removed}]

WriteStatus(rows, status, step) ==
    IF step.written = {} THEN rows
    ELSE [rows EXCEPT !.status = status.leagues, !.statusDays = status.days]

(* Mutant: elements missing from the payload keep their live rows.         *)
WriteLiveKeepingRemoved(rows, e, live, step) ==
    LET written == {key[2] : key \in step.written}
    IN  [rows EXCEPT
            !.liveElements = rows.liveElements \cup ({e} \X written),
            !.explainStats =
                {x \in rows.explainStats : ~(x[1] = e /\ x[2] \in written)}
                \cup {x \in {e} \X written \X Fixtures : x[3] \in live[x[2]]}]

WriteLive(rows, e, live, step) ==
    LET written == {key[2] : key \in step.written}
        removed == IF step.baseline
                   THEN {p \in Elements : <<e, p>> \in rows.liveElements} \ DOMAIN live
                   ELSE {key[2] : key \in DeletedKeys(step.changes)}
    IN  [rows EXCEPT
            !.liveElements = (rows.liveElements \ ({e} \X removed))
                                 \cup ({e} \X written),
            !.explainStats =
                {x \in rows.explainStats :
                    ~(x[1] = e /\ x[2] \in written \cup removed)}
                \cup {x \in {e} \X written \X Fixtures : x[3] \in live[x[2]]}]

(* Mutant: statistics of a removed player stay behind.                     *)
RemoveDependentsButStats(rows, events, elements) ==
    [rows EXCEPT
        !.statusDays = @ \ events,
        !.liveElements = {l \in @ : l[1] \notin events /\ l[2] \notin elements},
        !.explainStats = {x \in @ : x[1] \notin events /\ x[2] \notin elements}]

(* delete_bootstrap_dependents; live rows take their explain rows along    *)
(* (ON DELETE CASCADE).                                                    *)
RemoveDependents(rows, events, elements) ==
    [rows EXCEPT
        !.fixtureStats = {s \in @ : s[2] \notin elements},
        !.statusDays = @ \ events,
        !.liveElements = {l \in @ : l[1] \notin events /\ l[2] \notin elements},
        !.explainStats = {x \in @ : x[1] \notin events /\ x[2] \notin elements}]

(* reconcile_removed_bootstrap_rows: a full scan when any family is a      *)
(* baseline, otherwise the reported deletions.                             *)
RemovedEvents(rows, b, events, elements) ==
    IF events.baseline \/ elements.baseline THEN DOMAIN rows.events \ b.events
    ELSE DeletedKeys(events.changes)

(* Mutant: a baseline is reconciled from its diff, which is empty.         *)
RemovedElementsByDiff(rows, b, events, elements) == DeletedKeys(elements.changes)

RemovedElements(rows, b, events, elements) ==
    IF events.baseline \/ elements.baseline
    THEN DOMAIN rows.elements \ DOMAIN b.elements
    ELSE DeletedKeys(elements.changes)

RemoveReference(rows, events, elements) ==
    LET cleared == RemoveDependents(rows, events, elements)
    IN  [cleared EXCEPT !.events = Without(@, events),
                        !.elements = Without(@, elements)]

(* The foreign keys a statement is checked against.                        *)
FixturesInsertable(rows, fixtures, written) ==
    \A f \in written : /\ fixtures[f].event \in DOMAIN rows.events \cup {Null}
                       /\ fixtures[f].stats \subseteq DOMAIN rows.elements

StatusInsertable(rows, status, written) ==
    written # {} => status.days \subseteq DOMAIN rows.events

LiveInsertable(rows, live, written) ==
    \A key \in written : /\ key[1] \in DOMAIN rows.events
                         /\ key[2] \in DOMAIN rows.elements
                         /\ live[key[2]] \subseteq DOMAIN rows.fixtures

EventsRemovable(rows, events) ==
    \A f \in DOMAIN rows.fixtures : rows.fixtures[f].event \notin events

-----------------------------------------------------------------------------
(* upsert_reference_snapshot under ingest_reference_payload.  Bootstrap    *)
(* rows are written first and removed last, so that fixtures and status    *)
(* are reconciled while old and new parents both exist.                    *)
PersistReference(b, fixtures, status, time) ==
    LET statusId == StatusSource(b.current)
        payloads == [id \in {BootstrapSource, FixturesSource, statusId} |->
                        CASE id = BootstrapSource -> b
                          [] id = FixturesSource -> fixtures
                          [] OTHER -> status]
        events   == OfferedStep("events", EventSnapshots(b), BootstrapSource, b, time, TRUE)
        elements == OfferedStep("elements", b.elements, BootstrapSource, b, time, TRUE)
        merged   == WithLiveOwnership(tables, fixtures, time)
        fixtureStep == OfferedStep("fixtures", merged, FixturesSource, fixtures, time, TRUE)
        statusStep  == OfferedStep("event_status", StatusSnapshot(status), statusId,
                                   status, time, TRUE)
        rows1 == WriteBootstrap(tables, b, events, elements)
        rows2 == WriteFixtures(rows1, merged, fixtureStep, TRUE)
        rows3 == WriteStatus(rows2, status, statusStep)
        goneEvents   == RemovedEvents(rows3, b, events, elements)
        goneElements == RemovedElements(rows3, b, events, elements)
        emitted == Announced(events) \o Announced(elements)
                       \o Announced(fixtureStep) \o Announced(statusStep)
    IN  /\ \A id \in DOMAIN payloads : ~Conflicting(id, payloads[id], time)
        /\ FixturesInsertable(rows1, merged, fixtureStep.written)
        /\ StatusInsertable(rows2, status, statusStep.written)
        /\ EventsRemovable(rows3, goneEvents)
        /\ Len(feed) + Len(emitted) <= MaxFeed
        /\ sources' = RecordSources(payloads, time)
        /\ tables' = RemoveReference(rows3, goneEvents, goneElements)
        /\ snapshots' = [snapshots EXCEPT !["events"] = events.snapshot,
                                          !["elements"] = elements.snapshot,
                                          !["fixtures"] = fixtureStep.snapshot,
                                          !["event_status"] = statusStep.snapshot]
        /\ feed' = feed \o emitted

(* upsert_live_snapshot under ingest_live_payload, which refuses an event  *)
(* the season does not have.  The current-event fixtures are not           *)
(* authoritative for deletions.                                            *)
PersistLive(e, status, fixtures, live, time) ==
    LET payloads == [id \in {StatusSource(e), CurrentFixturesSource(e), LiveSource(e)} |->
                        CASE id = StatusSource(e) -> status
                          [] id = CurrentFixturesSource(e) -> fixtures
                          [] OTHER -> live]
        statusStep  == OfferedStep("event_status", StatusSnapshot(status),
                                   StatusSource(e), status, time, TRUE)
        fixtureStep == OfferedStep("fixtures", fixtures, CurrentFixturesSource(e),
                                   fixtures, time, FALSE)
        liveStep    == OfferedStep("event_live", LiveSnapshots(e, live), LiveSource(e),
                                   live, time, TRUE)
        rows1 == WriteStatus(tables, status, statusStep)
        rows2 == WriteFixtures(rows1, fixtures, fixtureStep, FALSE)
        emitted == Announced(statusStep) \o Announced(fixtureStep)
                       \o Announced(liveStep)
    IN  /\ e \in DOMAIN tables.events
        /\ \A id \in DOMAIN payloads : ~Conflicting(id, payloads[id], time)
        /\ StatusInsertable(tables, status, statusStep.written)
        /\ FixturesInsertable(rows1, fixtures, fixtureStep.written)
        /\ LiveInsertable(rows2, live, liveStep.written)
        /\ Len(feed) + Len(emitted) <= MaxFeed
        /\ sources' = RecordSources(payloads, time)
        /\ tables' = WriteLive(rows2, e, live, liveStep)
        /\ snapshots' = [snapshots EXCEPT !["event_status"] = statusStep.snapshot,
                                          !["fixtures"] = fixtureStep.snapshot,
                                          !["event_live"] = liveStep.snapshot]
        /\ feed' = feed \o emitted

(* build_normalized_baselines: the snapshots the rows stand for.           *)
RebuiltSnapshots(rows) ==
    [family \in Families |->
        CASE family = "events" -> rows.events
          [] family = "elements" -> rows.elements
          [] family = "fixtures" ->
                 [f \in DOMAIN rows.fixtures |->
                     [event |-> rows.fixtures[f].event,
                      kickoff |-> rows.fixtures[f].kickoff,
                      started |-> rows.fixtures[f].started,
                      stats |-> StoredStats(rows, f)]]
          [] family = "event_status" ->
                 IF rows.status = Null THEN NoEntities
                 ELSE StatusSnapshot([leagues |-> rows.status, days |-> rows.statusDays])
          [] family = "event_live" ->
                 [key \in rows.liveElements |->
                     {f \in Fixtures : <<key[1], key[2], f>> \in rows.explainStats}]]

(* rebaseline_current_change_feed: the history goes, the watermarks stay.  *)
(* The season row exists once events do.                                   *)
Rebaseline ==
    /\ DOMAIN tables.events # {}
    /\ snapshots' = RebuiltSnapshots(tables)
    /\ feed' = <<>>
    /\ UNCHANGED <<sources, tables>>

-----------------------------------------------------------------------------
TableNames == {"events", "elements", "fixtures", "fixtureStats", "status",
               "statusDays", "liveElements", "explainStats"}

RowsTyped(rows) ==
    /\ rows = [name \in TableNames |-> rows[name]]
    /\ IsPartial(rows.events, Events, BOOLEAN)
    /\ IsPartial(rows.elements, Elements, ElementData)
    /\ IsPartial(rows.fixtures, Fixtures, FixtureRowType)
    /\ rows.fixtureStats \subseteq Fixtures \X Elements
    /\ rows.status \in STRING \cup {Null}
    /\ rows.statusDays \subseteq Events
    /\ rows.liveElements \subseteq Events \X Elements
    /\ rows.explainStats \subseteq Events \X Elements \X Fixtures

(* The foreign keys of migration 1 that the model has rows for.            *)
NoOrphans(rows) ==
    /\ \A f \in DOMAIN rows.fixtures :
           rows.fixtures[f].event \in DOMAIN rows.events \cup {Null}
    /\ rows.fixtureStats \subseteq (DOMAIN rows.fixtures) \X (DOMAIN rows.elements)
    /\ rows.statusDays \subseteq DOMAIN rows.events
    /\ rows.liveElements \subseteq (DOMAIN rows.events) \X (DOMAIN rows.elements)
    /\ \A x \in rows.explainStats :
           <<x[1], x[2]>> \in rows.liveElements /\ x[3] \in DOMAIN rows.fixtures

(* The foreign keys are as old as the tables: PostgreSQL kept them when    *)
(* older schemas wrote the rows.                                           *)
ASSUME InitialTablesAssumption ==
    \A rows \in InitialTables : RowsTyped(rows) /\ NoOrphans(rows)

EmptyTables ==
    [events |-> NoEntities, elements |-> NoEntities, fixtures |-> NoEntities,
     fixtureStats |-> {}, status |-> Null, statusDays |-> {},
     liveElements |-> {}, explainStats |-> {}]

(* A new database, or one on which migration 2 dropped the history and the *)
(* source hashes but kept the normalized rows.                             *)
Init ==
    /\ sources = NoEntities
    /\ tables \in InitialTables
    /\ snapshots = [family \in Families |-> NoEntities]
    /\ feed = <<>>

(* Upstream filters current-event fixtures by event.                       *)
CurrentFixturePayloads(e) ==
    {p \in FixturePayloads : \A f \in DOMAIN p : p[f].event = e}

IngestReference ==
    \E b \in BootstrapPayloads, fixtures \in FixturePayloads,
       status \in StatusPayloads, time \in 1..MaxTime :
        PersistReference(b, fixtures, status, time)

IngestLive ==
    \E e \in Events, status \in StatusPayloads, live \in LivePayloads, time \in 1..MaxTime :
        \E fixtures \in CurrentFixturePayloads(e) :
            PersistLive(e, status, fixtures, live, time)

Next == IngestReference \/ IngestLive \/ Rebaseline

Spec == Init /\ [][Next]_vars

-----------------------------------------------------------------------------
(* Types of the four groups of tables.                                     *)
TypeOK ==
    /\ DOMAIN sources \subseteq SourceIds
    /\ \A id \in DOMAIN sources :
           sources[id] \in [hash : PayloadsOf(id), fetchedAt : 1..MaxTime]
    /\ RowsTyped(tables)
    /\ DOMAIN snapshots = Families
    /\ IsPartial(snapshots["events"], Events, BOOLEAN)
    /\ IsPartial(snapshots["elements"], Elements, ElementData)
    /\ IsPartial(snapshots["fixtures"], Fixtures, Fixture)
    /\ IsPartial(snapshots["event_status"], {"status"}, Status)
    /\ IsPartial(snapshots["event_live"], Events \X Elements, SUBSET Fixtures)
    /\ DOMAIN feed = 1..Len(feed) /\ Len(feed) <= MaxFeed
    /\ \A i \in DOMAIN feed : feed[i].family \in Families /\ feed[i].source \in SourceIds

(* The foreign keys of migration 1 that the model has rows for hold after  *)
(* every transaction: the deletions of delete_bootstrap_dependents and     *)
(* delete_fixture_ids, in their order, leave no orphan for PostgreSQL to   *)
(* reject.  (Insertions are refused by PostgreSQL: the *Insertable guards.) *)
NoOrphanRows == NoOrphans(tables)

(* Whatever arrived, in whatever order, the reference rows are exactly the *)
(* newest bootstrap answer accepted: rows of an older schema and entities  *)
(* FPL stopped reporting are gone (persist_bootstrap_source with           *)
(* reconcile_removed_bootstrap_rows).                                      *)
ReferenceRowsMirrorBootstrap ==
    BootstrapSource \in DOMAIN sources =>
        LET b == sources[BootstrapSource].hash
        IN  tables.events = EventSnapshots(b) /\ tables.elements = b.elements

(* The snapshots a client diffs against describe the rows a client reads.  *)
(* They differ only by dependents of a removed player or gameweek: stat    *)
(* entries, status days and live rows that delete_bootstrap_dependents and *)
(* delete_fixture_ids delete below their snapshots.  Stated for databases  *)
(* without rows from before the snapshot tables.                           *)
SnapshotsCoverRows ==
    LET rebuilt == RebuiltSnapshots(tables)
    IN  /\ \A family \in {"events", "elements"} : snapshots[family] = rebuilt[family]
        /\ DOMAIN snapshots["fixtures"] = DOMAIN tables.fixtures
        /\ \A f \in DOMAIN tables.fixtures :
               /\ tables.fixtures[f] = FixtureRow(snapshots["fixtures"][f])
               /\ StoredStats(tables, f) \subseteq snapshots["fixtures"][f].stats
        /\ tables.status # Null =>
               /\ "status" \in DOMAIN snapshots["event_status"]
               /\ tables.status = snapshots["event_status"]["status"].leagues
               /\ tables.statusDays \subseteq snapshots["event_status"]["status"].days
        /\ \A l \in tables.liveElements :
               /\ l \in DOMAIN snapshots["event_live"]
               /\ rebuilt["event_live"][l] \subseteq snapshots["event_live"][l]

(* A source never goes back in time, is never forgotten, and one fetch     *)
(* time stands for one payload (compare_source, upsert_source_metadata).   *)
WatermarksAdvance ==
    [][\A id \in DOMAIN sources :
          /\ id \in DOMAIN sources'
          /\ sources'[id].fetchedAt >= sources[id].fetchedAt
          /\ sources'[id].fetchedAt = sources[id].fetchedAt =>
                 sources'[id].hash = sources[id].hash]_vars

(* Rows change only when some source brings a payload that differs from    *)
(* its last one and was not fetched earlier: a redelivered or overtaken    *)
(* bundle writes nothing.                                                  *)
BringsNews(id) ==
    \/ id \notin DOMAIN sources
    \/ /\ sources'[id].hash # sources[id].hash
       /\ sources'[id].fetchedAt > sources[id].fetchedAt

WritesNeedNews ==
    [][tables' # tables => \E id \in DOMAIN sources' : BringsNews(id)]_vars

(* The feed explains the snapshots: in every transaction each family has   *)
(* at most one new event, its before side is what the snapshot held, and   *)
(* replaying it on the old snapshots gives the new ones.  Only the first   *)
(* sight of a source over an empty scope adds snapshots without an event,  *)
(* and only a rebaseline starts over.                                      *)
NewEvents == SubSeq(feed', Len(feed) + 1, Len(feed'))

EventsOf(family) == {i \in DOMAIN NewEvents : NewEvents[i].family = family}

SilentBaseline(family) ==
    /\ DOMAIN snapshots[family] \subseteq DOMAIN snapshots'[family]
    /\ \A key \in DOMAIN snapshots[family] :
           snapshots'[family][key] = snapshots[family][key]
    /\ \E id \in DOMAIN sources' \ DOMAIN sources : Previous(family, id) = NoEntities

Explained(family) ==
    \/ \E i \in EventsOf(family) :
           /\ EventsOf(family) = {i}
           /\ \A key \in DOMAIN NewEvents[i].changes :
                  NewEvents[i].changes[key].before = Datum(snapshots[family], key)
           /\ snapshots'[family] = Replay(snapshots[family], NewEvents[i].changes)
    \/ /\ EventsOf(family) = {}
       /\ snapshots'[family] = snapshots[family] \/ SilentBaseline(family)

TransactionExplained ==
    /\ Len(feed') >= Len(feed) /\ SubSeq(feed', 1, Len(feed)) = feed
    /\ \A family \in Families : Explained(family)

StartedOver == feed' = <<>> /\ snapshots' = RebuiltSnapshots(tables)

FeedExplainsSnapshots == [][TransactionExplained \/ StartedOver]_vars

(* Current-gameweek polling cannot imply a deletion: a fixture row goes    *)
(* only in a transaction that accepts a full fixtures payload without it.  *)
OnlyFullFixturesDelete ==
    [][\A f \in DOMAIN tables.fixtures \ DOMAIN tables'.fixtures :
          /\ FixturesSource \in DOMAIN sources'
          /\ BringsNews(FixturesSource)
          /\ f \notin DOMAIN sources'[FixturesSource].hash]_vars

(* While a fixture is live-owned, a reference bundle neither stops it nor  *)
(* adds or drops the goals and assists polling has stored, even one that   *)
(* was fetched before kickoff and arrives late; only a player FPL removed  *)
(* takes stats along.                                                      *)
KeepsDynamicFields(f) ==
    /\ tables'.fixtures[f].started
    /\ StoredStats(tables', f) = StoredStats(tables, f) \cap DOMAIN (tables'.elements)

ReferenceKeepsLiveFixtures ==
    (FixturesSource \in DOMAIN sources' /\ BringsNews(FixturesSource)) =>
        \A f \in (DOMAIN tables.fixtures) \cap DOMAIN (tables'.fixtures) :
            LiveOwned(tables, f, sources'[FixturesSource].fetchedAt) =>
                KeepsDynamicFields(f)

LiveFixturesProtected == [][ReferenceKeepsLiveFixtures]_vars

-----------------------------------------------------------------------------
(* What the documentation says and the code does not do.                   *)

(* docs/architecture.md: "Bootstrap and full fixtures are authoritative    *)
(* for structural data; current-gameweek polling owns dynamic fixture      *)
(* fields".  Once every live fetch stored is older than the last full one, *)
(* the kickoff times are those of the full fixtures.                       *)
FullFixturesGovernStructure ==
    FixturesSource \in DOMAIN sources =>
        \/ \E e \in Events : /\ CurrentFixturesSource(e) \in DOMAIN sources
                             /\ sources[CurrentFixturesSource(e)].fetchedAt
                                    >= sources[FixturesSource].fetchedAt
        \/ \A f \in DOMAIN sources[FixturesSource].hash :
               f \in DOMAIN tables.fixtures =>
                   tables.fixtures[f].kickoff = sources[FixturesSource].hash[f].kickoff

(* docs/architecture.md: after migration 2 "the next refresh rebuilds      *)
(* snapshots without a false wave of created events".  A fixture whose row *)
(* is already stored is not announced as created.                          *)
NoFalseCreation ==
    [][\A i \in EventsOf("fixtures") : \A f \in DOMAIN tables.fixtures :
          f \in DOMAIN NewEvents[i].changes =>
              NewEvents[i].changes[f].before # Absent]_vars
=============================================================================
