------------------------- MODULE IngestStore_proofs -------------------------
(***************************************************************************)
(* Theorems about change detection, for every family of entities, and      *)
(* about the ingestion store, for every upstream, every order and number   *)
(* of deliveries and every bound.                                          *)
(***************************************************************************)
EXTENDS IngestStore, TLAPS

-----------------------------------------------------------------------------
(* What the diff engine promises the store and the consumers of the feed.  *)

(* A family that could have come from JSON: no entity is Absent.           *)
HoldsNoAbsence(family) == \A key \in DOMAIN family : family[key] # Absent

(* A key that is no longer there is the only one reported deleted.         *)
LEMMA DeletedKeysOfDiff ==
    ASSUME NEW previous, NEW current, NEW authoritative \in BOOLEAN,
           NEW baseline \in BOOLEAN, HoldsNoAbsence(current)
    PROVE  DeletedKeys(Diff(previous, current, authoritative, baseline))
               = ChangedKeys(previous, current, authoritative, baseline)
                     \ DOMAIN current
BY DEF HoldsNoAbsence, DeletedKeys, Diff, ChangedKeys, Datum

(* Only keys of the payload are written, whether or not it is a baseline.  *)
LEMMA WrittenComeFromPayload ==
    ASSUME NEW previous, NEW current, NEW authoritative, NEW baseline \in BOOLEAN
    PROVE  KeysToUpsert(Diff(previous, current, authoritative, baseline),
                        current, baseline) \subseteq DOMAIN current
BY DEF KeysToUpsert, DeletedKeys, Diff, ChangedKeys, Datum

(* The before side of a change is what was stored: nothing announced is    *)
(* relative to anything but the previous snapshot.                         *)
LEMMA DiffSides ==
    ASSUME NEW previous, NEW current, NEW authoritative, NEW baseline,
           NEW key \in DOMAIN Diff(previous, current, authoritative, baseline)
    PROVE  /\ Diff(previous, current, authoritative, baseline)[key].before
                  = Datum(previous, key)
           /\ Diff(previous, current, authoritative, baseline)[key].after
                  = Datum(current, key)
BY DEF Diff

(* A baseline is silent (diff_entity_snapshots).                           *)
LEMMA BaselineIsSilent ==
    ASSUME NEW previous, NEW current, NEW authoritative
    PROVE  DOMAIN Diff(previous, current, authoritative, TRUE) = {}
BY DEF Diff, ChangedKeys

(* An authoritative payload that is no baseline leaves exactly itself in   *)
(* the snapshot table: the selective writes of persist_snapshot_diffs and  *)
(* its deletions add up to a replacement of the family.                    *)
THEOREM AuthoritativeReplaces ==
    ASSUME NEW previous, NEW current, HoldsNoAbsence(current),
           HoldsNoAbsence(previous),
           previous = [key \in DOMAIN previous |-> previous[key]],
           current = [key \in DOMAIN current |-> current[key]]
    PROVE  Synchronize(previous, current, Diff(previous, current, TRUE, FALSE),
                       TRUE, FALSE) = current
<1> DEFINE changed == ChangedKeys(previous, current, TRUE, FALSE)
           deleted == DeletedKeys(Diff(previous, current, TRUE, FALSE))
           written == KeysToUpsert(Diff(previous, current, TRUE, FALSE), current, FALSE)
           result  == Synchronize(previous, current,
                                  Diff(previous, current, TRUE, FALSE), TRUE, FALSE)
<1>1. deleted = changed \ DOMAIN current
  BY DeletedKeysOfDiff
<1>2. changed = {key \in DOMAIN previous \cup DOMAIN current :
                     Datum(previous, key) # Datum(current, key)}
  BY DEF ChangedKeys
<1>3. DOMAIN previous \ DOMAIN current \subseteq deleted
  BY <1>1, <1>2 DEF Datum, HoldsNoAbsence
<1>4. DOMAIN current \ DOMAIN previous \subseteq changed
  BY <1>2 DEF Datum, HoldsNoAbsence
<1>5. written = changed \ deleted
  BY DEF KeysToUpsert, Diff
<1>6. written = changed \cap DOMAIN current
  BY <1>1, <1>2, <1>5
<1>7. result = [key \in (DOMAIN previous \ deleted) \cup written |->
                   IF key \in written THEN current[key] ELSE previous[key]]
  BY DEF Synchronize
<1> HIDE DEF changed, deleted, written, result
<1>8. (DOMAIN previous \ deleted) \cup written = DOMAIN current
  BY <1>1, <1>3, <1>4, <1>6
<1>9. \A key \in DOMAIN current \ written : previous[key] = current[key]
  BY <1>2, <1>4, <1>6 DEF Datum
<1> QED
  BY <1>7, <1>8, <1>9 DEF result

(* A baseline over an empty family installs the payload.                   *)
THEOREM BaselineInstalls ==
    ASSUME NEW current, NEW authoritative,
           current = [key \in DOMAIN current |-> current[key]]
    PROVE  Synchronize(NoEntities, current,
                       Diff(NoEntities, current, authoritative, TRUE),
                       authoritative, TRUE) = current
<1> DEFINE changes == Diff(NoEntities, current, authoritative, TRUE)
<1>1. DeletedKeys(changes) = {}
  BY BaselineIsSilent DEF DeletedKeys
<1>2. KeysToUpsert(changes, current, TRUE) = DOMAIN current
  BY DEF KeysToUpsert
<1>3. DOMAIN NoEntities = {}
  BY DEF NoEntities
<1>4. Synchronize(NoEntities, current, changes, authoritative, TRUE)
          = [key \in DOMAIN current |-> current[key]]
  <2> HIDE DEF changes
  <2>1. (DOMAIN NoEntities \ (IF authoritative THEN DeletedKeys(changes) ELSE {}))
            \cup KeysToUpsert(changes, current, TRUE) = DOMAIN current
    BY <1>1, <1>2, <1>3
  <2> QED
    BY <2>1, <1>2, Zenon DEF Synchronize
<1> QED
  BY <1>4

(* Every change of a snapshot table can be reconstructed from the feed:    *)
(* when a payload is compared with the part "scope" of a stored family,    *)
(* the rows written and removed are the ones a consumer computes.          *)
THEOREM SynchronizeIsReplay ==
    ASSUME NEW stored, NEW previous, NEW current, NEW authoritative \in BOOLEAN,
           HoldsNoAbsence(current)
    PROVE  LET changes == Diff(previous, current, authoritative, FALSE)
           IN  Synchronize(stored, current, changes, authoritative, FALSE)
                   = Replay(stored, changes)
<1> DEFINE changed == ChangedKeys(previous, current, authoritative, FALSE)
           changes == Diff(previous, current, authoritative, FALSE)
           deleted == DeletedKeys(changes)
           written == KeysToUpsert(changes, current, FALSE)
           removed == IF authoritative THEN deleted ELSE {}
<1>1. deleted = changed \ DOMAIN current
  BY DeletedKeysOfDiff
<1>2. DOMAIN changes = changed
  BY DEF Diff
<1>3. written = changed \ deleted
  BY <1>2 DEF KeysToUpsert
<1>4. removed = deleted
  <2>1. ~authoritative => changed \subseteq DOMAIN current
    BY DEF ChangedKeys
  <2> QED
    BY <2>1, <1>1
<1>5. ASSUME NEW key \in written
      PROVE  changes[key].after = current[key]
  <2>1. key \in changed /\ key \in DOMAIN current
    BY <1>1, <1>3
  <2>2. changes[key].after = Datum(current, key)
    BY <2>1 DEF Diff
  <2> QED
    BY <2>1, <2>2 DEF Datum
<1>6. Synchronize(stored, current, changes, authoritative, FALSE)
          = [key \in (DOMAIN stored \ removed) \cup written |->
                IF key \in written THEN current[key] ELSE stored[key]]
  BY DEF Synchronize
<1>7. Replay(stored, changes)
          = [key \in (DOMAIN stored \ deleted) \cup (changed \ deleted) |->
                IF key \in changed THEN changes[key].after ELSE stored[key]]
  BY <1>2 DEF Replay
<1> HIDE DEF changed, changes, deleted, written, removed
<1>8. \A key \in (DOMAIN stored \ deleted) \cup (changed \ deleted) :
          key \in changed <=> key \in written
  BY <1>3
<1>9. Synchronize(stored, current, changes, authoritative, FALSE)
          = Replay(stored, changes)
  BY <1>3, <1>4, <1>5, <1>6, <1>7, <1>8
<1> QED
  BY <1>9 DEF changes

-----------------------------------------------------------------------------
(* Watermarks.                                                             *)

SourcesDated == \A id \in DOMAIN sources : sources[id].fetchedAt \in Nat

Advances ==
    \A id \in DOMAIN sources :
        /\ id \in DOMAIN sources'
        /\ sources'[id].fetchedAt >= sources[id].fetchedAt
        /\ sources'[id].fetchedAt = sources[id].fetchedAt =>
               sources'[id].hash = sources[id].hash

(* One bundle without conflict moves each of its sources forward or leaves *)
(* it where it was.                                                        *)
LEMMA RecordSourcesAdvances ==
    ASSUME SourcesDated, NEW payloads, NEW time \in Nat,
           \A id \in DOMAIN payloads : ~Conflicting(id, payloads[id], time),
           sources' = RecordSources(payloads, time)
    PROVE  SourcesDated' /\ Advances
<1>1. DOMAIN sources' = DOMAIN sources \cup DOMAIN payloads
  BY DEF RecordSources
<1>2. ASSUME NEW id \in DOMAIN payloads, ~Stale(id, time)
      PROVE  sources'[id] = [hash |-> payloads[id], fetchedAt |-> time]
  BY <1>2 DEF RecordSources
<1>3. ASSUME NEW id \in DOMAIN sources, id \notin DOMAIN payloads \/ Stale(id, time)
      PROVE  sources'[id] = sources[id]
  BY <1>3 DEF RecordSources
<1>4. SourcesDated'
  <2> SUFFICES ASSUME NEW id \in DOMAIN sources' PROVE sources'[id].fetchedAt \in Nat
    BY DEF SourcesDated
  <2>1. CASE id \in DOMAIN payloads /\ ~Stale(id, time)
    <3>1. sources'[id] = [hash |-> payloads[id], fetchedAt |-> time]
      BY <2>1, <1>2
    <3> QED
      BY <3>1
  <2>2. CASE id \notin DOMAIN payloads \/ Stale(id, time)
    <3>1. id \in DOMAIN sources
      BY <2>2, <1>1 DEF Stale
    <3> QED
      BY <2>2, <3>1, <1>3 DEF SourcesDated
  <2> QED
    BY <2>1, <2>2
<1>5. Advances
  <2> SUFFICES ASSUME NEW id \in DOMAIN sources
               PROVE  /\ id \in DOMAIN sources'
                      /\ sources'[id].fetchedAt >= sources[id].fetchedAt
                      /\ sources'[id].fetchedAt = sources[id].fetchedAt =>
                             sources'[id].hash = sources[id].hash
    BY DEF Advances
  <2>0. sources[id].fetchedAt \in Nat
    BY DEF SourcesDated
  <2>1. CASE id \in DOMAIN payloads /\ ~Stale(id, time)
    <3>1. time >= sources[id].fetchedAt
      BY <2>0, <2>1 DEF Stale
    <3>2. time = sources[id].fetchedAt => payloads[id] = sources[id].hash
      BY <2>1 DEF Conflicting
    <3> QED
      BY <3>1, <3>2, <2>1, <1>1, <1>2
  <2>2. CASE id \notin DOMAIN payloads \/ Stale(id, time)
    BY <2>0, <2>2, <1>1, <1>3
  <2> QED
    BY <2>1, <2>2
<1> QED
  BY <1>4, <1>5

(* Every operation records the sources of its bundle or none.              *)
LEMMA StepRecordsSources ==
    ASSUME Next
    PROVE  \/ \E payloads, time :
                 /\ time \in Nat
                 /\ \A id \in DOMAIN payloads : ~Conflicting(id, payloads[id], time)
                 /\ sources' = RecordSources(payloads, time)
           \/ UNCHANGED sources
<1>1. CASE IngestReference
  <2> PICK b \in BootstrapPayloads, fixtures \in FixturePayloads,
           status \in StatusPayloads, time \in 1..MaxTime :
           PersistReference(b, fixtures, status, time)
    BY <1>1 DEF IngestReference
  <2> time \in Nat
    BY BoundAssumption
  <2> QED
    BY DEF PersistReference
<1>2. CASE IngestLive
  <2> PICK e \in Events, status \in StatusPayloads, live \in LivePayloads,
           time \in 1..MaxTime :
           \E fixtures \in CurrentFixturePayloads(e) :
               PersistLive(e, status, fixtures, live, time)
    BY <1>2 DEF IngestLive
  <2> PICK fixtures \in CurrentFixturePayloads(e) :
           PersistLive(e, status, fixtures, live, time)
    OBVIOUS
  <2> time \in Nat
    BY BoundAssumption
  <2> QED
    BY DEF PersistLive
<1>3. CASE Rebaseline
  BY <1>3 DEF Rebaseline
<1> QED
  BY <1>1, <1>2, <1>3 DEF Next

(* A source never goes back, is never forgotten, and one fetch time stands *)
(* for one payload, whatever is delivered late, twice or out of order      *)
(* (compare_source, upsert_source_metadata).                               *)
THEOREM WatermarksNeverGoBack == Spec => WatermarksAdvance
<1>1. Init => SourcesDated
  BY DEF Init, NoEntities, SourcesDated
<1>2. SourcesDated /\ [Next]_vars => SourcesDated' /\ Advances
  <2> SUFFICES ASSUME SourcesDated, [Next]_vars PROVE SourcesDated' /\ Advances
    OBVIOUS
  <2>1. CASE UNCHANGED sources
    BY <2>1 DEF SourcesDated, Advances
  <2>2. CASE Next
    BY <2>1, <2>2, StepRecordsSources, RecordSourcesAdvances
  <2> QED
    BY <2>1, <2>2 DEF vars
<1>3. SourcesDated /\ [Next]_vars
          => [\A id \in DOMAIN sources :
                 /\ id \in DOMAIN sources'
                 /\ sources'[id].fetchedAt >= sources[id].fetchedAt
                 /\ sources'[id].fetchedAt = sources[id].fetchedAt =>
                        sources'[id].hash = sources[id].hash]_vars
  BY <1>2 DEF Advances
<1> QED
  BY <1>1, <1>2, <1>3, PTL DEF Spec, WatermarksAdvance

-----------------------------------------------------------------------------
(* Type correctness.                                                       *)

(* A family over typed keys and data stays one when a typed payload is     *)
(* written into it.                                                        *)
LEMMA SynchronizeTyped ==
    ASSUME NEW stored, NEW current, NEW previous, NEW K, NEW T,
           IsPartial(stored, K, T), IsPartial(current, K, T),
           NEW authoritative, NEW baseline \in BOOLEAN
    PROVE  IsPartial(Synchronize(stored, current,
                                 Diff(previous, current, authoritative, baseline),
                                 authoritative, baseline), K, T)
<1> DEFINE changes == Diff(previous, current, authoritative, baseline)
           written == KeysToUpsert(changes, current, baseline)
           removed == IF authoritative THEN DeletedKeys(changes) ELSE {}
<1>1. written \subseteq DOMAIN current
  BY WrittenComeFromPayload
<1>2. Synchronize(stored, current, changes, authoritative, baseline)
          = [key \in (DOMAIN stored \ removed) \cup written |->
                IF key \in written THEN current[key] ELSE stored[key]]
  BY DEF Synchronize
<1> HIDE DEF changes, written, removed
<1>3. IsPartial(Synchronize(stored, current, changes, authoritative, baseline), K, T)
  BY <1>1, <1>2 DEF IsPartial
<1> QED
  BY <1>3 DEF changes

LEMMA OverwriteTyped ==
    ASSUME NEW rows, NEW written, NEW current, NEW K, NEW T,
           IsPartial(rows, K, T), IsPartial(current, K, T), written \subseteq DOMAIN current
    PROVE  IsPartial(Overwrite(rows, written, current), K, T)
BY DEF Overwrite, IsPartial

LEMMA WithoutTyped ==
    ASSUME NEW rows, NEW removed, NEW K, NEW T, IsPartial(rows, K, T)
    PROVE  IsPartial(Without(rows, removed), K, T)
BY DEF Without, Restrict, IsPartial

(* Ownership puts stored values back into a typed payload.                 *)
LEMMA LiveOwnershipTyped ==
    ASSUME NEW rows, RowsTyped(rows), NEW fixtures, NEW time,
           IsPartial(fixtures, Fixtures, Fixture)
    PROVE  IsPartial(WithLiveOwnership(rows, fixtures, time), Fixtures, Fixture)
<1> SUFFICES ASSUME NEW f \in DOMAIN fixtures
             PROVE  WithLiveOwnership(rows, fixtures, time)[f] \in Fixture
  BY DEF IsPartial, WithLiveOwnership
<1>1. fixtures[f] \in Fixture
  BY DEF IsPartial
<1>2. CASE LiveOwned(rows, f, time)
  <2>1. rows.fixtures[f].started \in BOOLEAN
    BY <1>2 DEF LiveOwned, RowsTyped, IsPartial, FixtureRowType
  <2>2. StoredStats(rows, f) \subseteq Elements
    BY DEF StoredStats
  <2> QED
    BY <1>1, <1>2, <2>1, <2>2 DEF WithLiveOwnership, Fixture
<1>3. CASE ~LiveOwned(rows, f, time)
  BY <1>1, <1>3 DEF WithLiveOwnership
<1> QED
  BY <1>2, <1>3

(* What one family needs to be written and to keep its type.               *)
StepTyped(family, step, K, T) ==
    /\ step.baseline \in BOOLEAN
    /\ step.written \subseteq K
    /\ IsPartial(step.snapshot, K, T)

LEMMA FamilyStepTyped ==
    ASSUME NEW family, NEW current, NEW id, NEW authoritative, NEW K, NEW T,
           IsPartial(snapshots[family], K, T), IsPartial(current, K, T)
    PROVE  LET step == FamilyStep(family, current, id, authoritative)
           IN  StepTyped(family, step, K, T) /\ step.written \subseteq DOMAIN current
<1> DEFINE step == FamilyStep(family, current, id, authoritative)
           previous == Previous(family, id)
           baseline == id \notin DOMAIN sources /\ previous = NoEntities
           changes == Diff(previous, current, authoritative, baseline)
<1>1. baseline \in BOOLEAN
  OBVIOUS
<1>2. /\ step.baseline = baseline
      /\ step.written = KeysToUpsert(changes, current, baseline)
      /\ step.snapshot = Synchronize(snapshots[family], current, changes,
                                     authoritative, baseline)
  BY DEF FamilyStep
<1>3. step.written \subseteq DOMAIN current
  <2> HIDE DEF previous, baseline
  <2> QED
    BY <1>1, <1>2, WrittenComeFromPayload
<1>4. IsPartial(step.snapshot, K, T)
  <2> HIDE DEF previous, baseline
  <2> QED
    BY <1>1, <1>2, SynchronizeTyped
<1> HIDE DEF step
<1>5. StepTyped(family, step, K, T) /\ step.written \subseteq DOMAIN current
  BY <1>1, <1>2, <1>3, <1>4 DEF StepTyped, IsPartial
<1> QED
  BY <1>5 DEF step

LEMMA NoStepTyped ==
    ASSUME NEW family, NEW K, NEW T, IsPartial(snapshots[family], K, T)
    PROVE  StepTyped(family, NoStep(family), K, T) /\ NoStep(family).written = {}
BY DEF NoStep, StepTyped

(* The statements keep the rows typed.                                     *)
LEMMA WriteBootstrapTyped ==
    ASSUME NEW rows, RowsTyped(rows), NEW b, IsBootstrap(b), NEW events, NEW elements,
           events.written \subseteq b.events,
           elements.written \subseteq DOMAIN b.elements
    PROVE  RowsTyped(WriteBootstrap(rows, b, events, elements))
<1>1. IsPartial(EventSnapshots(b), Events, BOOLEAN) /\ DOMAIN EventSnapshots(b) = b.events
  BY DEF EventSnapshots, IsPartial, IsBootstrap
<1>2. IsPartial(Overwrite(rows.events, events.written, EventSnapshots(b)), Events, BOOLEAN)
  BY <1>1, OverwriteTyped DEF RowsTyped
<1>3. IsPartial(Overwrite(rows.elements, elements.written, b.elements), Elements, ElementData)
  BY OverwriteTyped DEF RowsTyped, IsBootstrap
<1> QED
  BY <1>2, <1>3 DEF RowsTyped, WriteBootstrap, TableNames

LEMMA WriteFixturesTyped ==
    ASSUME NEW rows, RowsTyped(rows), NEW fixtures, NEW step, NEW authoritative,
           IsPartial(fixtures, Fixtures, Fixture),
           step.written \subseteq DOMAIN fixtures
    PROVE  RowsTyped(WriteFixtures(rows, fixtures, step, authoritative))
<1> DEFINE fixtureRows == [f \in DOMAIN fixtures |-> FixtureRow(fixtures[f])]
           result == WriteFixtures(rows, fixtures, step, authoritative)
<1>1. IsPartial(fixtureRows, Fixtures, FixtureRowType)
  <2>1. \A f \in DOMAIN fixtures : fixtures[f] \in Fixture
    BY DEF IsPartial
  <2>2. \A fixture \in Fixture : FixtureRow(fixture) \in FixtureRowType
    BY DEF Fixture, FixtureRow, FixtureRowType
  <2> QED
    BY <2>1, <2>2 DEF IsPartial
<1>2. IsPartial(Overwrite(rows.fixtures, step.written, fixtureRows), Fixtures, FixtureRowType)
  BY <1>1, OverwriteTyped DEF RowsTyped
<1>3. IsPartial(result.fixtures, Fixtures, FixtureRowType)
  BY <1>2, WithoutTyped DEF WriteFixtures, RowsTyped, TableNames
<1>4. /\ result.fixtureStats \subseteq Fixtures \X Elements
      /\ result.explainStats \subseteq Events \X Elements \X Fixtures
  BY DEF WriteFixtures, RowsTyped, TableNames, IsPartial
<1>5. /\ result = [name \in TableNames |-> result[name]]
      /\ result.events = rows.events /\ result.elements = rows.elements
      /\ result.status = rows.status /\ result.statusDays = rows.statusDays
      /\ result.liveElements = rows.liveElements
  BY DEF WriteFixtures, RowsTyped, TableNames
<1> HIDE DEF result
<1>6. RowsTyped(result)
  BY <1>3, <1>4, <1>5 DEF RowsTyped
<1> QED
  BY <1>6 DEF result

LEMMA WriteStatusTyped ==
    ASSUME NEW rows, RowsTyped(rows), NEW status \in Status, NEW step
    PROVE  RowsTyped(WriteStatus(rows, status, step))
BY DEF WriteStatus, RowsTyped, TableNames, Status

LEMMA WriteLiveTyped ==
    ASSUME NEW rows, RowsTyped(rows), NEW e \in Events, NEW live, NEW step,
           IsPartial(live, Elements, SUBSET Fixtures),
           step.written \subseteq {e} \X DOMAIN live
    PROVE  RowsTyped(WriteLive(rows, e, live, step))
<1> DEFINE result == WriteLive(rows, e, live, step)
<1>1. {key[2] : key \in step.written} \subseteq Elements
  BY DEF IsPartial
<1>2. /\ result.liveElements \subseteq Events \X Elements
      /\ result.explainStats \subseteq Events \X Elements \X Fixtures
  BY <1>1 DEF WriteLive, RowsTyped, TableNames
<1>3. /\ result = [name \in TableNames |-> result[name]]
      /\ result.events = rows.events /\ result.elements = rows.elements
      /\ result.fixtures = rows.fixtures
      /\ result.fixtureStats = rows.fixtureStats
      /\ result.status = rows.status /\ result.statusDays = rows.statusDays
  BY DEF WriteLive, RowsTyped, TableNames
<1> HIDE DEF result
<1>4. RowsTyped(result)
  BY <1>2, <1>3 DEF RowsTyped
<1> QED
  BY <1>4 DEF result

LEMMA RemoveReferenceTyped ==
    ASSUME NEW rows, RowsTyped(rows), NEW events, NEW elements
    PROVE  RowsTyped(RemoveReference(rows, events, elements))
<1> DEFINE cleared == RemoveDependents(rows, events, elements)
           result == RemoveReference(rows, events, elements)
<1>1. RowsTyped(cleared)
  BY DEF RemoveDependents, RowsTyped, TableNames
<1>2. IsPartial(Without(cleared.events, events), Events, BOOLEAN)
  BY <1>1, WithoutTyped DEF RowsTyped
<1>3. IsPartial(Without(cleared.elements, elements), Elements, ElementData)
  BY <1>1, WithoutTyped DEF RowsTyped
<1> HIDE DEF cleared
<1>4. result = [cleared EXCEPT !.events = Without(cleared.events, events),
                               !.elements = Without(cleared.elements, elements)]
  BY DEF RemoveReference, cleared
<1> HIDE DEF result
<1>5. RowsTyped(result)
  BY <1>1, <1>2, <1>3, <1>4 DEF RowsTyped, TableNames
<1> QED
  BY <1>5 DEF result

LEMMA OfferedStepTyped ==
    ASSUME NEW family, NEW current, NEW id, NEW payload, NEW time, NEW authoritative,
           NEW K, NEW T,
           IsPartial(snapshots[family], K, T), IsPartial(current, K, T)
    PROVE  LET step == OfferedStep(family, current, id, payload, time, authoritative)
           IN  StepTyped(family, step, K, T) /\ step.written \subseteq DOMAIN current
BY FamilyStepTyped, NoStepTyped, Zenon DEF OfferedStep

LEMMA RecordSourcesTyped ==
    ASSUME NEW payloads, NEW time \in 1..MaxTime, DOMAIN payloads \subseteq SourceIds,
           \A id \in DOMAIN payloads : payloads[id] \in PayloadsOf(id),
           DOMAIN sources \subseteq SourceIds,
           \A id \in DOMAIN sources :
               sources[id] \in [hash : PayloadsOf(id), fetchedAt : 1..MaxTime]
    PROVE  LET recorded == RecordSources(payloads, time)
           IN  /\ DOMAIN recorded \subseteq SourceIds
               /\ \A id \in DOMAIN recorded :
                      recorded[id] \in [hash : PayloadsOf(id), fetchedAt : 1..MaxTime]
<1> SUFFICES ASSUME NEW id \in DOMAIN RecordSources(payloads, time)
             PROVE  /\ id \in SourceIds
                    /\ RecordSources(payloads, time)[id]
                           \in [hash : PayloadsOf(id), fetchedAt : 1..MaxTime]
  OBVIOUS
<1>1. id \in DOMAIN sources \cup DOMAIN payloads
  BY DEF RecordSources
<1>2. CASE id \in DOMAIN payloads /\ ~Stale(id, time)
  BY <1>2 DEF RecordSources
<1>3. CASE ~(id \in DOMAIN payloads /\ ~Stale(id, time))
  <2>1. id \in DOMAIN sources
    BY <1>1, <1>3 DEF Stale
  <2> QED
    BY <1>3, <2>1 DEF RecordSources
<1> QED
  BY <1>2, <1>3

(* Entries of the feed.  Nothing is assumed about a sequence but that it   *)
(* is one.                                                                 *)
FeedTyped(s) ==
    /\ \E S : s \in Seq(S)
    /\ \A i \in 1..Len(s) : s[i].family \in Families /\ s[i].source \in SourceIds

LEMMA ConcatIsSequence ==
    ASSUME NEW S, NEW T, NEW s \in Seq(S), NEW t \in Seq(T)
    PROVE  /\ s \o t \in Seq(S \cup T)
           /\ Len(s \o t) = Len(s) + Len(t)
           /\ \A i \in 1..Len(s) : (s \o t)[i] = s[i]
           /\ \A i \in 1..Len(t) : (s \o t)[Len(s) + i] = t[i]
<1>1. s \in Seq(S \cup T) /\ t \in Seq(S \cup T)
  OBVIOUS
<1> QED
  BY <1>1

LEMMA FeedTypedConcat ==
    ASSUME NEW s, NEW t, FeedTyped(s), FeedTyped(t)
    PROVE  FeedTyped(s \o t)
<1>1. PICK S : s \in Seq(S)
  BY DEF FeedTyped
<1>2. PICK T : t \in Seq(T)
  BY DEF FeedTyped
<1>3. /\ s \o t \in Seq(S \cup T)
      /\ Len(s \o t) = Len(s) + Len(t)
      /\ \A i \in 1..Len(s) : (s \o t)[i] = s[i]
      /\ \A i \in 1..Len(t) : (s \o t)[Len(s) + i] = t[i]
  BY <1>1, <1>2, ConcatIsSequence
<1>4. ASSUME NEW i \in 1..Len(s \o t)
      PROVE  (s \o t)[i].family \in Families /\ (s \o t)[i].source \in SourceIds
  <2>1. CASE i \in 1..Len(s)
    BY <2>1, <1>3 DEF FeedTyped
  <2>2. CASE i \notin 1..Len(s)
    <3>1. Len(s) \in Nat /\ Len(t) \in Nat
      BY <1>1, <1>2
    <3>2. i - Len(s) \in 1..Len(t) /\ Len(s) + (i - Len(s)) = i
      BY <2>2, <3>1, <1>3
    <3>3. (s \o t)[i] = t[i - Len(s)]
      BY <3>2, <1>3
    <3> QED
      BY <3>2, <3>3 DEF FeedTyped
  <2> QED
    BY <2>1, <2>2
<1> QED
  BY <1>3, <1>4 DEF FeedTyped

(* What a step announces: nothing, or the one event of its family.         *)
LEMMA AnnouncedByStep ==
    ASSUME NEW family, NEW current, NEW id, NEW payload, NEW time, NEW authoritative
    PROVE  LET step == OfferedStep(family, current, id, payload, time, authoritative)
           IN  IF DOMAIN step.changes = {} THEN Announced(step) = <<>>
               ELSE /\ Announced(step) = <<step.event>>
                    /\ step.event.family = family
                    /\ step.event.source = id
                    /\ step.event.changes = step.changes
BY DEF OfferedStep, Announced, NoStep, FamilyStep, NoEntities

LEMMA ShortFeedTyped ==
    /\ FeedTyped(<<>>)
    /\ \A x : x.family \in Families /\ x.source \in SourceIds => FeedTyped(<<x>>)
<1>1. <<>> \in Seq({}) /\ Len(<<>>) = 0
  OBVIOUS
<1>2. ASSUME NEW x, x.family \in Families, x.source \in SourceIds
      PROVE  FeedTyped(<<x>>)
  <2>1. <<x>> \in Seq({x}) /\ \A i \in 1..Len(<<x>>) : <<x>>[i] = x
    OBVIOUS
  <2>2. \E S : <<x>> \in Seq(S)
    BY <2>1
  <2> QED
    BY <1>2, <2>1, <2>2 DEF FeedTyped
<1>3. FeedTyped(<<>>)
  <2>1. \E S : <<>> \in Seq(S)
    BY <1>1
  <2> QED
    BY <1>1, <2>1 DEF FeedTyped
<1> QED
  BY <1>2, <1>3

LEMMA AnnouncedTyped ==
    ASSUME NEW family \in Families, NEW id \in SourceIds,
           NEW current, NEW payload, NEW time, NEW authoritative
    PROVE  FeedTyped(Announced(OfferedStep(family, current, id, payload, time, authoritative)))
<1> DEFINE step == OfferedStep(family, current, id, payload, time, authoritative)
<1>1. \/ Announced(step) = <<>>
      \/ /\ Announced(step) = <<step.event>>
         /\ step.event.family = family /\ step.event.source = id
  BY AnnouncedByStep
<1> HIDE DEF step
<1>2. FeedTyped(Announced(step))
  BY <1>1, ShortFeedTyped
<1> QED
  BY <1>2 DEF step

(* The payloads as snapshots.                                              *)
LEMMA PayloadSnapshotsTyped ==
    /\ \A b \in BootstrapPayloads :
           /\ IsBootstrap(b)
           /\ IsPartial(EventSnapshots(b), Events, BOOLEAN)
           /\ DOMAIN EventSnapshots(b) = b.events
           /\ IsPartial(b.elements, Elements, ElementData)
    /\ \A s \in StatusPayloads : IsPartial(StatusSnapshot(s), {"status"}, Status)
    /\ \A e \in Events, live \in LivePayloads :
           /\ IsPartial(live, Elements, SUBSET Fixtures)
           /\ IsPartial(LiveSnapshots(e, live), Events \X Elements, SUBSET Fixtures)
           /\ DOMAIN LiveSnapshots(e, live) = {e} \X DOMAIN live
<1>1. ASSUME NEW b \in BootstrapPayloads
      PROVE  /\ IsBootstrap(b)
             /\ IsPartial(EventSnapshots(b), Events, BOOLEAN)
             /\ DOMAIN EventSnapshots(b) = b.events
             /\ IsPartial(b.elements, Elements, ElementData)
  BY PayloadAssumption DEF IsBootstrap, EventSnapshots, IsPartial
<1>2. ASSUME NEW s \in StatusPayloads
      PROVE  IsPartial(StatusSnapshot(s), {"status"}, Status)
  BY PayloadAssumption DEF StatusSnapshot, IsPartial
<1>3. ASSUME NEW e \in Events, NEW live \in LivePayloads
      PROVE  /\ IsPartial(live, Elements, SUBSET Fixtures)
             /\ IsPartial(LiveSnapshots(e, live), Events \X Elements, SUBSET Fixtures)
             /\ DOMAIN LiveSnapshots(e, live) = {e} \X DOMAIN live
  <2>1. IsPartial(live, Elements, SUBSET Fixtures)
    BY PayloadAssumption
  <2>2. \A key \in {e} \X DOMAIN live : key \in Events \X Elements /\ live[key[2]] \subseteq Fixtures
    BY <2>1 DEF IsPartial
  <2> QED
    BY <2>1, <2>2 DEF LiveSnapshots, IsPartial
<1> QED
  BY <1>1, <1>2, <1>3

SourcesTyped ==
    /\ DOMAIN sources \subseteq SourceIds
    /\ \A id \in DOMAIN sources :
           sources[id] \in [hash : PayloadsOf(id), fetchedAt : 1..MaxTime]

SnapshotsTyped ==
    /\ DOMAIN snapshots = Families
    /\ IsPartial(snapshots["events"], Events, BOOLEAN)
    /\ IsPartial(snapshots["elements"], Elements, ElementData)
    /\ IsPartial(snapshots["fixtures"], Fixtures, Fixture)
    /\ IsPartial(snapshots["event_status"], {"status"}, Status)
    /\ IsPartial(snapshots["event_live"], Events \X Elements, SUBSET Fixtures)

(* The inductive form of TypeOK: the feed is a sequence.                   *)
Typed ==
    /\ SourcesTyped /\ RowsTyped(tables) /\ SnapshotsTyped
    /\ FeedTyped(feed) /\ Len(feed) <= MaxFeed

LEMMA TypedImpliesTypeOK == Typed => TypeOK
BY DEF Typed, TypeOK, SourcesTyped, SnapshotsTyped, FeedTyped

LEMMA ReferenceKeepsTypes ==
    ASSUME Typed, NEW b \in BootstrapPayloads, NEW fixtures \in FixturePayloads,
           NEW status \in StatusPayloads, NEW time \in 1..MaxTime,
           PersistReference(b, fixtures, status, time)
    PROVE  Typed'
<1> DEFINE statusId == StatusSource(b.current)
           payloads == [id \in {BootstrapSource, FixturesSource, statusId} |->
                           CASE id = BootstrapSource -> b
                             [] id = FixturesSource -> fixtures
                             [] OTHER -> status]
           events   == OfferedStep("events", EventSnapshots(b), BootstrapSource, b, time, TRUE)
           elements == OfferedStep("elements", b.elements, BootstrapSource, b, time, TRUE)
           merged   == WithLiveOwnership(tables, fixtures, time)
           fixtureStep == OfferedStep("fixtures", merged, FixturesSource, fixtures, time, TRUE)
           statusStep  == OfferedStep("event_status", StatusSnapshot(status), statusId,
                                      status, time, TRUE)
           rows1 == WriteBootstrap(tables, b, events, elements)
           rows2 == WriteFixtures(rows1, merged, fixtureStep, TRUE)
           rows3 == WriteStatus(rows2, status, statusStep)
           goneEvents   == RemovedEvents(rows3, b, events, elements)
           goneElements == RemovedElements(rows3, b, events, elements)
           emitted == Announced(events) \o Announced(elements)
                          \o Announced(fixtureStep) \o Announced(statusStep)
<1>1. /\ Len(feed) + Len(emitted) <= MaxFeed
      /\ sources' = RecordSources(payloads, time)
      /\ tables' = RemoveReference(rows3, goneEvents, goneElements)
      /\ snapshots' = [snapshots EXCEPT !["events"] = events.snapshot,
                                        !["elements"] = elements.snapshot,
                                        !["fixtures"] = fixtureStep.snapshot,
                                        !["event_status"] = statusStep.snapshot]
      /\ feed' = feed \o emitted
  BY DEF PersistReference
<1>2. IsBootstrap(b) /\ IsPartial(fixtures, Fixtures, Fixture) /\ status \in Status
  BY PayloadAssumption
<1>3. IsPartial(merged, Fixtures, Fixture)
  BY <1>2, LiveOwnershipTyped DEF Typed
<1>4. StepTyped("events", events, Events, BOOLEAN) /\ events.written \subseteq b.events
  BY PayloadSnapshotsTyped, OfferedStepTyped DEF Typed, SnapshotsTyped
<1>5. /\ StepTyped("elements", elements, Elements, ElementData)
      /\ elements.written \subseteq DOMAIN b.elements
  BY PayloadSnapshotsTyped, OfferedStepTyped DEF Typed, SnapshotsTyped
<1>6. /\ StepTyped("fixtures", fixtureStep, Fixtures, Fixture)
      /\ fixtureStep.written \subseteq DOMAIN merged
  <2> HIDE DEF merged
  <2> QED
    BY <1>3, OfferedStepTyped DEF Typed, SnapshotsTyped
<1>7. StepTyped("event_status", statusStep, {"status"}, Status)
  BY PayloadSnapshotsTyped, OfferedStepTyped DEF Typed, SnapshotsTyped
<1>8. DOMAIN payloads \subseteq SourceIds /\ \A id \in DOMAIN payloads : payloads[id] \in PayloadsOf(id)
  <2>1. b.current \in Events \cup {Null}
    BY <1>2 DEF IsBootstrap
  <2> QED
    BY <2>1 DEF SourceIds, PayloadsOf, StatusSource, BootstrapSource, FixturesSource
<1>9. SourcesTyped'
  <2> HIDE DEF payloads
  <2> QED
    BY <1>1, <1>8, RecordSourcesTyped DEF Typed, SourcesTyped
<1>10. FeedTyped(emitted)
  <2>1. /\ {"events", "elements", "fixtures", "event_status"} \subseteq Families
        /\ {BootstrapSource, FixturesSource, statusId} \subseteq SourceIds
    BY <1>8 DEF Families
  <2>2. /\ FeedTyped(Announced(events)) /\ FeedTyped(Announced(elements))
        /\ FeedTyped(Announced(fixtureStep)) /\ FeedTyped(Announced(statusStep))
    <3> HIDE DEF merged, statusId
    <3> QED
      BY <2>1, AnnouncedTyped
  <2> QED
    BY <2>2, FeedTypedConcat
<1> HIDE DEF payloads, events, elements, merged, fixtureStep, statusStep, goneEvents,
             goneElements, emitted
<1>11. RowsTyped(rows3)
  <2>1. RowsTyped(rows1)
    BY <1>2, <1>4, <1>5, WriteBootstrapTyped DEF Typed
  <2> HIDE DEF rows1
  <2>2. RowsTyped(rows2)
    BY <2>1, <1>3, <1>6, WriteFixturesTyped
  <2> HIDE DEF rows2
  <2> QED
    BY <2>2, <1>2, WriteStatusTyped
<1>12. RowsTyped(tables)'
  <2> HIDE DEF rows3
  <2> QED
    BY <1>1, <1>11, RemoveReferenceTyped
<1>13. SnapshotsTyped'
  BY <1>1, <1>4, <1>5, <1>6, <1>7 DEF Typed, SnapshotsTyped, StepTyped, Families
<1>14. FeedTyped(feed)' /\ (Len(feed) <= MaxFeed)'
  <2>1. FeedTyped(feed \o emitted)
    BY <1>10, FeedTypedConcat DEF Typed
  <2>2. Len(feed \o emitted) = Len(feed) + Len(emitted)
    BY <1>10, ConcatIsSequence DEF Typed, FeedTyped
  <2> QED
    BY <1>1, <2>1, <2>2
<1> QED
  BY <1>9, <1>12, <1>13, <1>14 DEF Typed

LEMMA LiveKeepsTypes ==
    ASSUME Typed, NEW e \in Events, NEW status \in StatusPayloads,
           NEW fixtures \in FixturePayloads, NEW live \in LivePayloads,
           NEW time \in 1..MaxTime, PersistLive(e, status, fixtures, live, time)
    PROVE  Typed'
<1> DEFINE payloads == [id \in {StatusSource(e), CurrentFixturesSource(e), LiveSource(e)} |->
                           CASE id = StatusSource(e) -> status
                             [] id = CurrentFixturesSource(e) -> fixtures
                             [] OTHER -> live]
           statusStep  == OfferedStep("event_status", StatusSnapshot(status),
                                      StatusSource(e), status, time, TRUE)
           fixtureStep == OfferedStep("fixtures", fixtures, CurrentFixturesSource(e),
                                      fixtures, time, FALSE)
           liveStep    == OfferedStep("event_live", LiveSnapshots(e, live), LiveSource(e),
                                      live, time, TRUE)
           rows1 == WriteStatus(tables, status, statusStep)
           rows2 == WriteFixtures(rows1, fixtures, fixtureStep, FALSE)
           emitted == Announced(statusStep) \o Announced(fixtureStep)
                          \o Announced(liveStep)
<1>1. /\ Len(feed) + Len(emitted) <= MaxFeed
      /\ sources' = RecordSources(payloads, time)
      /\ tables' = WriteLive(rows2, e, live, liveStep)
      /\ snapshots' = [snapshots EXCEPT !["event_status"] = statusStep.snapshot,
                                        !["fixtures"] = fixtureStep.snapshot,
                                        !["event_live"] = liveStep.snapshot]
      /\ feed' = feed \o emitted
  BY DEF PersistLive
<1>2. IsPartial(fixtures, Fixtures, Fixture) /\ status \in Status
  BY PayloadAssumption
<1>3. /\ StepTyped("fixtures", fixtureStep, Fixtures, Fixture)
      /\ fixtureStep.written \subseteq DOMAIN fixtures
  BY <1>2, OfferedStepTyped DEF Typed, SnapshotsTyped
<1>4. StepTyped("event_status", statusStep, {"status"}, Status)
  BY PayloadSnapshotsTyped, OfferedStepTyped DEF Typed, SnapshotsTyped
<1>5. /\ StepTyped("event_live", liveStep, Events \X Elements, SUBSET Fixtures)
      /\ liveStep.written \subseteq {e} \X DOMAIN live
  BY PayloadSnapshotsTyped, OfferedStepTyped DEF Typed, SnapshotsTyped
<1>6. DOMAIN payloads \subseteq SourceIds /\ \A id \in DOMAIN payloads : payloads[id] \in PayloadsOf(id)
  BY DEF SourceIds, PayloadsOf, StatusSource, CurrentFixturesSource, LiveSource
<1>7. SourcesTyped'
  <2> HIDE DEF payloads
  <2> QED
    BY <1>1, <1>6, RecordSourcesTyped DEF Typed, SourcesTyped
<1>8. FeedTyped(emitted)
  <2>1. /\ {"fixtures", "event_status", "event_live"} \subseteq Families
        /\ {StatusSource(e), CurrentFixturesSource(e), LiveSource(e)} \subseteq SourceIds
    BY <1>6 DEF Families
  <2>2. /\ FeedTyped(Announced(statusStep)) /\ FeedTyped(Announced(fixtureStep))
        /\ FeedTyped(Announced(liveStep))
    BY <2>1, AnnouncedTyped
  <2> QED
    BY <2>2, FeedTypedConcat
<1> HIDE DEF payloads, fixtureStep, statusStep, liveStep, emitted
<1>9. RowsTyped(tables)'
  <2>1. RowsTyped(rows1)
    BY <1>2, WriteStatusTyped DEF Typed
  <2> HIDE DEF rows1
  <2>2. RowsTyped(rows2)
    BY <2>1, <1>2, <1>3, WriteFixturesTyped
  <2> HIDE DEF rows2
  <2> QED
    BY <1>1, <2>2, <1>5, PayloadSnapshotsTyped, WriteLiveTyped
<1>10. SnapshotsTyped'
  BY <1>1, <1>3, <1>4, <1>5 DEF Typed, SnapshotsTyped, StepTyped, Families
<1>11. FeedTyped(feed)' /\ (Len(feed) <= MaxFeed)'
  <2>1. FeedTyped(feed \o emitted)
    BY <1>8, FeedTypedConcat DEF Typed
  <2>2. Len(feed \o emitted) = Len(feed) + Len(emitted)
    BY <1>8, ConcatIsSequence DEF Typed, FeedTyped
  <2> QED
    BY <1>1, <2>1, <2>2
<1> QED
  BY <1>7, <1>9, <1>10, <1>11 DEF Typed

LEMMA RebuiltSnapshotsTyped ==
    ASSUME NEW rows, RowsTyped(rows)
    PROVE  LET rebuilt == RebuiltSnapshots(rows)
           IN  /\ DOMAIN rebuilt = Families
               /\ IsPartial(rebuilt["events"], Events, BOOLEAN)
               /\ IsPartial(rebuilt["elements"], Elements, ElementData)
               /\ IsPartial(rebuilt["fixtures"], Fixtures, Fixture)
               /\ IsPartial(rebuilt["event_status"], {"status"}, Status)
               /\ IsPartial(rebuilt["event_live"], Events \X Elements, SUBSET Fixtures)
<1> DEFINE rebuilt == RebuiltSnapshots(rows)
<1>1. DOMAIN rebuilt = Families
  BY DEF RebuiltSnapshots
<1>2. rebuilt["events"] = rows.events /\ rebuilt["elements"] = rows.elements
  BY DEF RebuiltSnapshots, Families
<1>3. IsPartial(rebuilt["fixtures"], Fixtures, Fixture)
  <2>1. rebuilt["fixtures"] = [f \in DOMAIN rows.fixtures |->
                                  [event |-> rows.fixtures[f].event,
                                   kickoff |-> rows.fixtures[f].kickoff,
                                   started |-> rows.fixtures[f].started,
                                   stats |-> StoredStats(rows, f)]]
    BY DEF RebuiltSnapshots, Families
  <2>2. \A f \in DOMAIN rows.fixtures : f \in Fixtures /\ rows.fixtures[f] \in FixtureRowType
    BY DEF RowsTyped, IsPartial
  <2>3. \A f \in DOMAIN rows.fixtures : rebuilt["fixtures"][f] \in Fixture
    BY <2>1, <2>2 DEF FixtureRowType, Fixture, StoredStats
  <2> HIDE DEF rebuilt
  <2> QED
    BY <2>1, <2>2, <2>3 DEF IsPartial
<1>4. IsPartial(rebuilt["event_status"], {"status"}, Status)
  <2>1. CASE rows.status = Null
    <3>1. rebuilt["event_status"] = NoEntities
      BY <2>1 DEF RebuiltSnapshots, Families
    <3> QED
      BY <3>1 DEF NoEntities, IsPartial
  <2>2. CASE rows.status # Null
    <3>1. rebuilt["event_status"]
              = StatusSnapshot([leagues |-> rows.status, days |-> rows.statusDays])
      BY <2>2 DEF RebuiltSnapshots, Families
    <3>2. [leagues |-> rows.status, days |-> rows.statusDays] \in Status
      BY <2>2 DEF RowsTyped, Status
    <3> QED
      BY <3>1, <3>2 DEF StatusSnapshot, IsPartial
  <2> QED
    BY <2>1, <2>2
<1>5. IsPartial(rebuilt["event_live"], Events \X Elements, SUBSET Fixtures)
  <2>1. rebuilt["event_live"]
            = [key \in rows.liveElements |->
                  {f \in Fixtures : <<key[1], key[2], f>> \in rows.explainStats}]
    BY DEF RebuiltSnapshots, Families
  <2> HIDE DEF rebuilt
  <2> QED
    BY <2>1 DEF RowsTyped, IsPartial
<1> QED
  BY <1>1, <1>2, <1>3, <1>4, <1>5 DEF RowsTyped

LEMMA TypedInvariant == Spec => []Typed
<1>1. Init => Typed
  <2> SUFFICES ASSUME Init PROVE Typed
    OBVIOUS
  <2>1. SourcesTyped
    BY DEF Init, NoEntities, SourcesTyped
  <2>2. SnapshotsTyped
    BY DEF Init, NoEntities, SnapshotsTyped, IsPartial, Families
  <2>3. FeedTyped(feed) /\ Len(feed) <= MaxFeed
    BY ShortFeedTyped, BoundAssumption DEF Init
  <2>4. RowsTyped(tables)
    BY InitialTablesAssumption DEF Init
  <2> QED
    BY <2>1, <2>2, <2>3, <2>4 DEF Typed
<1>2. Typed /\ [Next]_vars => Typed'
  <2> SUFFICES ASSUME Typed, [Next]_vars PROVE Typed'
    OBVIOUS
  <2>1. CASE IngestReference
    BY <2>1, ReferenceKeepsTypes DEF IngestReference
  <2>2. CASE IngestLive
    BY <2>2, LiveKeepsTypes DEF IngestLive, CurrentFixturePayloads
  <2>3. CASE Rebaseline
    <3>1. SnapshotsTyped'
      BY <2>3, RebuiltSnapshotsTyped DEF Rebaseline, Typed, SnapshotsTyped
    <3>2. FeedTyped(feed)' /\ (Len(feed) <= MaxFeed)'
      BY <2>3, ShortFeedTyped, BoundAssumption DEF Rebaseline
    <3> QED
      BY <2>3, <3>1, <3>2 DEF Rebaseline, Typed, SourcesTyped
  <2>4. CASE UNCHANGED vars
    BY <2>4 DEF vars, Typed, SourcesTyped, SnapshotsTyped
  <2> QED
    BY <2>1, <2>2, <2>3, <2>4 DEF Next
<1> QED
  BY <1>1, <1>2, PTL DEF Spec

(* Every reachable state is well typed: whatever upstream answers, the     *)
(* partial writes, the deletions and the rebuilt snapshots stay within the *)
(* tables' columns (upsert_reference_snapshot, upsert_live_snapshot,       *)
(* rebaseline_current_change_feed).                                        *)
THEOREM TypeCorrect == Spec => []TypeOK
BY TypedInvariant, TypedImpliesTypeOK, PTL

-----------------------------------------------------------------------------
(* The change feed.                                                        *)

(* What one family's step does to its snapshots, in terms of its changes.  *)
Accounted(family, step) ==
    IF DOMAIN step.changes = {}
    THEN snapshots'[family] = snapshots[family] \/ SilentBaseline(family)
    ELSE /\ \A key \in DOMAIN step.changes :
               step.changes[key].before = Datum(snapshots[family], key)
         /\ snapshots'[family] = Replay(snapshots[family], step.changes)

(* Current keys of event_live lie within the scope of their source.        *)
InScope(family, current, id) ==
    family = "event_live" => \A key \in DOMAIN current : key[1] = id[2]

IsFamily(f) == f = [key \in DOMAIN f |-> f[key]]

LEMMA PreviousInScope ==
    ASSUME NEW family, NEW current, NEW id, InScope(family, current, id)
    PROVE  LET previous == Previous(family, id)
           IN  /\ DOMAIN previous \subseteq DOMAIN snapshots[family]
               /\ \A key \in DOMAIN previous \cup DOMAIN current :
                      Datum(previous, key) = Datum(snapshots[family], key)
<1>1. CASE family = "event_live"
  BY <1>1 DEF Previous, InScope, Datum, Restrict
<1>2. CASE family # "event_live"
  BY <1>2 DEF Previous
<1> QED
  BY <1>1, <1>2

LEMMA StepAccounted ==
    ASSUME NEW family, NEW current, NEW id, NEW payload, NEW time,
           NEW authoritative \in BOOLEAN,
           HoldsNoAbsence(current), InScope(family, current, id),
           IsFamily(snapshots[family]), id \in DOMAIN sources',
           snapshots'[family]
               = OfferedStep(family, current, id, payload, time, authoritative).snapshot
    PROVE  Accounted(family, OfferedStep(family, current, id, payload, time, authoritative))
<1> DEFINE step == OfferedStep(family, current, id, payload, time, authoritative)
           previous == Previous(family, id)
           stored == snapshots[family]
           baseline == id \notin DOMAIN sources /\ previous = NoEntities
           changes == Diff(previous, current, authoritative, baseline)
<1>1. CASE ~Accepted(id, payload, time)
  BY <1>1 DEF OfferedStep, NoStep, Accounted, NoEntities
<1>2. CASE Accepted(id, payload, time)
  <2>1. /\ step.changes = changes
        /\ step.snapshot = Synchronize(stored, current, changes, authoritative, baseline)
    BY <1>2 DEF OfferedStep, FamilyStep
  <2>2. \A key \in DOMAIN previous \cup DOMAIN current :
            Datum(previous, key) = Datum(stored, key)
    BY PreviousInScope
  <2>3. CASE baseline
    <3>1. DOMAIN changes = {} /\ DeletedKeys(changes) = {}
          /\ KeysToUpsert(changes, current, TRUE) = DOMAIN current
      BY <2>3, BaselineIsSilent DEF DeletedKeys, KeysToUpsert
    <3>2. \A key \in DOMAIN current : key \notin DOMAIN stored
      <4>1. CASE family = "event_live"
        <5>1. {key \in DOMAIN stored : key[1] = id[2]} = {}
          BY <2>3, <4>1 DEF Previous, Restrict, NoEntities
        <5> QED
          BY <4>1, <5>1 DEF InScope
      <4>2. CASE family # "event_live"
        BY <2>3, <4>2 DEF Previous, NoEntities
      <4> QED
        BY <4>1, <4>2
    <3>3. snapshots'[family] = [key \in DOMAIN stored \cup DOMAIN current |->
              IF key \in DOMAIN current THEN current[key] ELSE stored[key]]
      <4>1. snapshots'[family] = Synchronize(stored, current, changes, authoritative, TRUE)
        BY <2>1, <2>3
      <4> HIDE DEF changes, stored
      <4> QED
        BY <4>1, <3>1 DEF Synchronize
    <3>4. SilentBaseline(family)
      <4>1. /\ DOMAIN stored \subseteq DOMAIN snapshots'[family]
            /\ \A key \in DOMAIN stored : snapshots'[family][key] = stored[key]
        BY <3>2, <3>3
      <4>2. id \in DOMAIN sources' \ DOMAIN sources /\ Previous(family, id) = NoEntities
        BY <2>3
      <4> QED
        BY <4>1, <4>2 DEF SilentBaseline
    <3> QED
      BY <2>1, <3>1, <3>4 DEF Accounted
  <2>4. CASE ~baseline
    <3>1. changes = Diff(previous, current, authoritative, FALSE)
      BY <2>4
    <3>2. snapshots'[family] = Replay(stored, changes)
      <4>1. snapshots'[family] = Synchronize(stored, current,
                Diff(previous, current, authoritative, FALSE), authoritative, FALSE)
        BY <2>1, <2>4
      <4> HIDE DEF previous, stored, changes
      <4> QED
        BY <4>1, <3>1, SynchronizeIsReplay
    <3>3. \A key \in DOMAIN changes : changes[key].before = Datum(stored, key)
      <4>1. \A key \in DOMAIN changes :
                /\ key \in DOMAIN previous \cup DOMAIN current
                /\ changes[key].before = Datum(previous, key)
        <5> HIDE DEF previous, baseline
        <5> QED
          BY DEF Diff, ChangedKeys
      <4> QED
        BY <2>2, <4>1
    <3>4. DOMAIN changes = {} => Replay(stored, changes) = stored
      <4> HIDE DEF changes
      <4>1. ASSUME DOMAIN changes = {} PROVE Replay(stored, changes) = stored
        <5>1. DeletedKeys(changes) = {}
          BY <4>1 DEF DeletedKeys
        <5>2. Replay(stored, changes) = [key \in DOMAIN stored |-> stored[key]]
          BY <4>1, <5>1 DEF Replay
        <5> QED
          BY <5>2 DEF IsFamily
      <4> QED
        BY <4>1
    <3> QED
      BY <2>1, <3>2, <3>3, <3>4 DEF Accounted
  <2> QED
    BY <2>3, <2>4
<1> QED
  BY <1>1, <1>2

(* A piece of feed without events of a family, or with the one of a step.  *)
NoEvent(s, family) == \A i \in 1..Len(s) : s[i].family # family

OneEvent(s, family, step) ==
    IF DOMAIN step.changes = {} THEN NoEvent(s, family)
    ELSE \E i \in 1..Len(s) :
             /\ s[i].changes = step.changes
             /\ \A j \in 1..Len(s) : s[j].family = family <=> j = i

LEMMA NoEventConcat ==
    ASSUME NEW s, NEW t, FeedTyped(s), FeedTyped(t), NEW family,
           NoEvent(s, family), NoEvent(t, family)
    PROVE  NoEvent(s \o t, family)
<1>1. /\ Len(s) \in Nat /\ Len(t) \in Nat
      /\ Len(s \o t) = Len(s) + Len(t)
      /\ \A i \in 1..Len(s) : (s \o t)[i] = s[i]
      /\ \A i \in 1..Len(t) : (s \o t)[Len(s) + i] = t[i]
  BY ConcatIsSequence DEF FeedTyped
<1>2. ASSUME NEW i \in 1..Len(s \o t) PROVE (s \o t)[i].family # family
  <2>1. CASE i \in 1..Len(s)
    BY <2>1, <1>1 DEF NoEvent
  <2>2. CASE i \notin 1..Len(s)
    <3>1. i - Len(s) \in 1..Len(t) /\ Len(s) + (i - Len(s)) = i
      BY <2>2, <1>1
    <3>2. (s \o t)[i] = t[i - Len(s)]
      BY <3>1, <1>1
    <3> QED
      BY <3>1, <3>2 DEF NoEvent
  <2> QED
    BY <2>1, <2>2
<1> QED
  BY <1>2 DEF NoEvent

LEMMA OneEventConcat ==
    ASSUME NEW s, NEW t, FeedTyped(s), FeedTyped(t), NEW family, NEW step,
           \/ OneEvent(s, family, step) /\ NoEvent(t, family)
           \/ NoEvent(s, family) /\ OneEvent(t, family, step)
    PROVE  OneEvent(s \o t, family, step)
<1>0. CASE DOMAIN step.changes = {}
  BY <1>0, NoEventConcat DEF OneEvent
<1>1. /\ Len(s) \in Nat /\ Len(t) \in Nat
      /\ Len(s \o t) = Len(s) + Len(t)
      /\ \A i \in 1..Len(s) : (s \o t)[i] = s[i]
      /\ \A i \in 1..Len(t) : (s \o t)[Len(s) + i] = t[i]
  BY ConcatIsSequence DEF FeedTyped
<1>2. \A j \in 1..Len(s \o t) :
          \/ j \in 1..Len(s) /\ (s \o t)[j] = s[j]
          \/ /\ j \notin 1..Len(s) /\ j - Len(s) \in 1..Len(t)
             /\ (s \o t)[j] = t[j - Len(s)]
  <2> TAKE j \in 1..Len(s \o t)
  <2>1. CASE j \in 1..Len(s)
    BY <2>1, <1>1
  <2>2. CASE j \notin 1..Len(s)
    <3>1. j - Len(s) \in 1..Len(t) /\ Len(s) + (j - Len(s)) = j
      BY <2>2, <1>1
    <3> QED
      BY <2>2, <3>1, <1>1
  <2> QED
    BY <2>1, <2>2
<1>3. CASE DOMAIN step.changes # {} /\ OneEvent(s, family, step) /\ NoEvent(t, family)
  <2>1. PICK i \in 1..Len(s) :
            /\ s[i].changes = step.changes
            /\ \A j \in 1..Len(s) : s[j].family = family <=> j = i
    BY <1>3 DEF OneEvent
  <2>2. i \in 1..Len(s \o t) /\ (s \o t)[i].changes = step.changes
    BY <2>1, <1>1
  <2>3. \A j \in 1..Len(s \o t) : (s \o t)[j].family = family <=> j = i
    BY <2>1, <1>2, <1>3 DEF NoEvent
  <2> QED
    BY <1>3, <2>2, <2>3 DEF OneEvent
<1>4. CASE DOMAIN step.changes # {} /\ NoEvent(s, family) /\ OneEvent(t, family, step)
  <2>1. PICK i \in 1..Len(t) :
            /\ t[i].changes = step.changes
            /\ \A j \in 1..Len(t) : t[j].family = family <=> j = i
    BY <1>4 DEF OneEvent
  <2>2. /\ Len(s) + i \in 1..Len(s \o t)
        /\ (s \o t)[Len(s) + i].changes = step.changes
    BY <2>1, <1>1
  <2>3. \A j \in 1..Len(s \o t) : (s \o t)[j].family = family <=> j = Len(s) + i
    <3> TAKE j \in 1..Len(s \o t)
    <3>1. CASE j \in 1..Len(s) /\ (s \o t)[j] = s[j]
      <4>1. j # Len(s) + i
        BY <3>1, <2>1, <1>1
      <4> QED
        BY <3>1, <4>1, <1>4 DEF NoEvent
    <3>2. CASE j - Len(s) \in 1..Len(t) /\ (s \o t)[j] = t[j - Len(s)]
      <4>1. j - Len(s) = i <=> j = Len(s) + i
        BY <3>2, <2>1, <1>1
      <4> QED
        BY <3>2, <4>1, <2>1
    <3> QED
      BY <3>1, <3>2, <1>2
  <2> QED
    BY <1>4, <2>2, <2>3 DEF OneEvent
<1> QED
  BY <1>0, <1>3, <1>4

(* A step announces its own family and no other.                           *)
LEMMA StepAnnouncesItself ==
    ASSUME NEW family, NEW current, NEW id, NEW payload, NEW time, NEW authoritative
    PROVE  LET step == OfferedStep(family, current, id, payload, time, authoritative)
           IN  /\ OneEvent(Announced(step), family, step)
               /\ \A other : other # family => NoEvent(Announced(step), other)
<1> DEFINE step == OfferedStep(family, current, id, payload, time, authoritative)
<1>1. IF DOMAIN step.changes = {} THEN Announced(step) = <<>>
      ELSE /\ Announced(step) = <<step.event>>
           /\ step.event.family = family
           /\ step.event.changes = step.changes
  BY AnnouncedByStep
<1> HIDE DEF step
<1>2. /\ OneEvent(Announced(step), family, step)
      /\ \A other : other # family => NoEvent(Announced(step), other)
  <2>1. CASE DOMAIN step.changes = {}
    BY <1>1, <2>1 DEF OneEvent, NoEvent
  <2>2. CASE DOMAIN step.changes # {}
    <3>1. Len(Announced(step)) = 1 /\ Announced(step)[1] = step.event
      BY <1>1, <2>2
    <3> QED
      BY <1>1, <2>2, <3>1 DEF OneEvent, NoEvent
  <2> QED
    BY <2>1, <2>2
<1> QED
  BY <1>2 DEF step

(* The events a transaction appends are the new events.                    *)
LEMMA AppendedEvents ==
    ASSUME NEW emitted, FeedTyped(feed), FeedTyped(emitted), feed' = feed \o emitted
    PROVE  /\ Len(feed') >= Len(feed) /\ SubSeq(feed', 1, Len(feed)) = feed
           /\ NewEvents = emitted
<1>1. PICK S : feed \in Seq(S)
  BY DEF FeedTyped
<1>2. PICK T : emitted \in Seq(T)
  BY DEF FeedTyped
<1>3. /\ Len(feed) \in Nat /\ Len(emitted) \in Nat
      /\ Len(feed') = Len(feed) + Len(emitted)
      /\ \A i \in 1..Len(feed) : feed'[i] = feed[i]
      /\ \A i \in 1..Len(emitted) : feed'[Len(feed) + i] = emitted[i]
  BY <1>1, <1>2, ConcatIsSequence
<1>4. SubSeq(feed', 1, Len(feed)) = [i \in 1..Len(feed) |-> feed'[i]]
  BY <1>1, <1>3
<1>5. NewEvents = [i \in 1..Len(emitted) |-> feed'[Len(feed) + i]]
  BY <1>1, <1>3 DEF NewEvents
<1> QED
  BY <1>1, <1>2, <1>3, <1>4, <1>5

LEMMA FamilyExplained ==
    ASSUME NEW emitted, FeedTyped(emitted), NewEvents = emitted, NEW family, NEW step,
           OneEvent(emitted, family, step), Accounted(family, step)
    PROVE  Explained(family)
<1>1. DOMAIN NewEvents = 1..Len(emitted)
  BY DEF FeedTyped
<1>2. EventsOf(family) = {i \in 1..Len(emitted) : emitted[i].family = family}
  BY <1>1 DEF EventsOf
<1>3. CASE DOMAIN step.changes = {}
  BY <1>2, <1>3 DEF OneEvent, NoEvent, Accounted, Explained
<1>4. CASE DOMAIN step.changes # {}
  <2>1. PICK i \in 1..Len(emitted) :
            /\ emitted[i].changes = step.changes
            /\ \A j \in 1..Len(emitted) : emitted[j].family = family <=> j = i
    BY <1>4 DEF OneEvent
  <2>2. EventsOf(family) = {i} /\ NewEvents[i].changes = step.changes
    BY <2>1, <1>2
  <2> QED
    BY <2>2, <1>4 DEF Accounted, Explained
<1> QED
  BY <1>3, <1>4

LEMMA UntouchedFamilyExplained ==
    ASSUME NEW emitted, FeedTyped(emitted), NewEvents = emitted, NEW family,
           NoEvent(emitted, family), snapshots'[family] = snapshots[family]
    PROVE  Explained(family)
<1>1. DOMAIN NewEvents = 1..Len(emitted)
  BY DEF FeedTyped
<1>2. EventsOf(family) = {}
  BY <1>1 DEF EventsOf, NoEvent
<1> QED
  BY <1>2 DEF Explained

LEMMA NoAbsenceInPayloads ==
    /\ \A b \in BootstrapPayloads :
           HoldsNoAbsence(EventSnapshots(b)) /\ HoldsNoAbsence(b.elements)
    /\ \A f : IsPartial(f, Fixtures, Fixture) => HoldsNoAbsence(f)
    /\ \A s \in StatusPayloads : HoldsNoAbsence(StatusSnapshot(s))
    /\ \A e \in Events, live \in LivePayloads :
           /\ HoldsNoAbsence(LiveSnapshots(e, live))
           /\ InScope("event_live", LiveSnapshots(e, live), LiveSource(e))
<1>1. ASSUME NEW b \in BootstrapPayloads
      PROVE  HoldsNoAbsence(EventSnapshots(b)) /\ HoldsNoAbsence(b.elements)
  BY PayloadSnapshotsTyped, AbsentAssumption DEF HoldsNoAbsence, IsPartial
<1>2. ASSUME NEW f, IsPartial(f, Fixtures, Fixture) PROVE HoldsNoAbsence(f)
  BY <1>2, AbsentAssumption DEF HoldsNoAbsence, IsPartial
<1>3. ASSUME NEW s \in StatusPayloads PROVE HoldsNoAbsence(StatusSnapshot(s))
  BY AbsentAssumption DEF HoldsNoAbsence, StatusSnapshot
<1>4. ASSUME NEW e \in Events, NEW live \in LivePayloads
      PROVE  /\ HoldsNoAbsence(LiveSnapshots(e, live))
             /\ InScope("event_live", LiveSnapshots(e, live), LiveSource(e))
  BY AbsentAssumption DEF HoldsNoAbsence, LiveSnapshots, InScope, LiveSource
<1> QED
  BY <1>1, <1>2, <1>3, <1>4

LEMMA SnapshotFamilies == SnapshotsTyped => \A family \in Families : IsFamily(snapshots[family])
BY DEF SnapshotsTyped, IsFamily, IsPartial, Families

LEMMA ReferenceExplained ==
    ASSUME Typed, NEW b \in BootstrapPayloads, NEW fixtures \in FixturePayloads,
           NEW status \in StatusPayloads, NEW time \in 1..MaxTime,
           PersistReference(b, fixtures, status, time)
    PROVE  TransactionExplained
<1> DEFINE statusId == StatusSource(b.current)
           payloads == [id \in {BootstrapSource, FixturesSource, statusId} |->
                           CASE id = BootstrapSource -> b
                             [] id = FixturesSource -> fixtures
                             [] OTHER -> status]
           events   == OfferedStep("events", EventSnapshots(b), BootstrapSource, b, time, TRUE)
           elements == OfferedStep("elements", b.elements, BootstrapSource, b, time, TRUE)
           merged   == WithLiveOwnership(tables, fixtures, time)
           fixtureStep == OfferedStep("fixtures", merged, FixturesSource, fixtures, time, TRUE)
           statusStep  == OfferedStep("event_status", StatusSnapshot(status), statusId,
                                      status, time, TRUE)
           emitted1 == Announced(events) \o Announced(elements)
           emitted2 == emitted1 \o Announced(fixtureStep)
           emitted  == emitted2 \o Announced(statusStep)
<1>1. /\ sources' = RecordSources(payloads, time)
      /\ snapshots' = [snapshots EXCEPT !["events"] = events.snapshot,
                                        !["elements"] = elements.snapshot,
                                        !["fixtures"] = fixtureStep.snapshot,
                                        !["event_status"] = statusStep.snapshot]
      /\ feed' = feed \o emitted
  BY DEF PersistReference
<1>2. {BootstrapSource, FixturesSource, statusId} \subseteq SourceIds
  BY PayloadAssumption DEF IsBootstrap, SourceIds, StatusSource
<1>3. {BootstrapSource, FixturesSource, statusId} \subseteq DOMAIN sources'
  BY <1>1 DEF RecordSources
<1>4. {"events", "elements", "fixtures", "event_status"} \subseteq Families
      /\ DOMAIN snapshots = Families
  BY DEF Families, Typed, SnapshotsTyped
<1>5. IsPartial(merged, Fixtures, Fixture)
  BY PayloadAssumption, LiveOwnershipTyped DEF Typed
<1> HIDE DEF statusId, payloads, merged
<1>6. /\ FeedTyped(Announced(events)) /\ FeedTyped(Announced(elements))
      /\ FeedTyped(Announced(fixtureStep)) /\ FeedTyped(Announced(statusStep))
  BY <1>2, <1>4, AnnouncedTyped
<1>7. FeedTyped(emitted1) /\ FeedTyped(emitted2) /\ FeedTyped(emitted)
  <2>1. FeedTyped(emitted1)
    BY <1>6, FeedTypedConcat
  <2>2. FeedTyped(emitted2)
    BY <1>6, <2>1, FeedTypedConcat
  <2> QED
    BY <1>6, <2>1, <2>2, FeedTypedConcat
<1>8. /\ Len(feed') >= Len(feed) /\ SubSeq(feed', 1, Len(feed)) = feed
      /\ NewEvents = emitted
  <2> HIDE DEF emitted
  <2> QED
    BY <1>1, <1>7, AppendedEvents DEF Typed
<1>9. /\ Accounted("events", events) /\ Accounted("elements", elements)
      /\ Accounted("fixtures", fixtureStep) /\ Accounted("event_status", statusStep)
  <2>1. /\ InScope("events", EventSnapshots(b), BootstrapSource)
        /\ InScope("elements", b.elements, BootstrapSource)
        /\ InScope("fixtures", merged, FixturesSource)
        /\ InScope("event_status", StatusSnapshot(status), statusId)
    BY DEF InScope
  <2>2. /\ snapshots'["events"] = events.snapshot
        /\ snapshots'["elements"] = elements.snapshot
        /\ snapshots'["fixtures"] = fixtureStep.snapshot
        /\ snapshots'["event_status"] = statusStep.snapshot
    BY <1>1, <1>4
  <2>3. /\ IsFamily(snapshots["events"]) /\ IsFamily(snapshots["elements"])
        /\ IsFamily(snapshots["fixtures"]) /\ IsFamily(snapshots["event_status"])
    BY <1>4, SnapshotFamilies DEF Typed
  <2>4. Accounted("events", events)
    BY <1>3, <2>1, <2>2, <2>3, NoAbsenceInPayloads, StepAccounted
  <2>5. Accounted("elements", elements)
    BY <1>3, <2>1, <2>2, <2>3, NoAbsenceInPayloads, StepAccounted
  <2>6. Accounted("fixtures", fixtureStep)
    BY <1>3, <1>5, <2>1, <2>2, <2>3, NoAbsenceInPayloads, StepAccounted
  <2>7. Accounted("event_status", statusStep)
    BY <1>3, <2>1, <2>2, <2>3, NoAbsenceInPayloads, StepAccounted
  <2> QED
    BY <2>4, <2>5, <2>6, <2>7
<1>10. snapshots'["event_live"] = snapshots["event_live"]
  BY <1>1, <1>4 DEF Families
<1>11. /\ OneEvent(Announced(events), "events", events)
       /\ \A other : other # "events" => NoEvent(Announced(events), other)
  BY StepAnnouncesItself
<1>12. /\ OneEvent(Announced(elements), "elements", elements)
       /\ \A other : other # "elements" => NoEvent(Announced(elements), other)
  BY StepAnnouncesItself
<1>13. /\ OneEvent(Announced(fixtureStep), "fixtures", fixtureStep)
       /\ \A other : other # "fixtures" => NoEvent(Announced(fixtureStep), other)
  BY StepAnnouncesItself
<1>14. /\ OneEvent(Announced(statusStep), "event_status", statusStep)
       /\ \A other : other # "event_status" => NoEvent(Announced(statusStep), other)
  BY StepAnnouncesItself
<1> HIDE DEF events, elements, fixtureStep, statusStep
<1>15. /\ OneEvent(emitted1, "events", events) /\ OneEvent(emitted1, "elements", elements)
       /\ \A other : other \notin {"events", "elements"} => NoEvent(emitted1, other)
  BY <1>6, <1>11, <1>12, OneEventConcat, NoEventConcat
<1> HIDE DEF emitted1
<1>16. /\ OneEvent(emitted2, "events", events) /\ OneEvent(emitted2, "elements", elements)
       /\ OneEvent(emitted2, "fixtures", fixtureStep)
       /\ \A other : other \notin {"events", "elements", "fixtures"} => NoEvent(emitted2, other)
  BY <1>6, <1>7, <1>13, <1>15, OneEventConcat, NoEventConcat
<1> HIDE DEF emitted2
<1>17. /\ OneEvent(emitted, "events", events) /\ OneEvent(emitted, "elements", elements)
       /\ OneEvent(emitted, "fixtures", fixtureStep)
       /\ OneEvent(emitted, "event_status", statusStep)
       /\ NoEvent(emitted, "event_live")
  BY <1>6, <1>7, <1>14, <1>16, OneEventConcat, NoEventConcat
<1> HIDE DEF emitted
<1>18. \A family \in Families : Explained(family)
  <2>1. /\ Explained("events") /\ Explained("elements")
        /\ Explained("fixtures") /\ Explained("event_status")
    BY <1>7, <1>8, <1>9, <1>17, FamilyExplained
  <2>2. Explained("event_live")
    BY <1>7, <1>8, <1>10, <1>17, UntouchedFamilyExplained
  <2> QED
    BY <2>1, <2>2 DEF Families
<1> QED
  BY <1>8, <1>18 DEF TransactionExplained

LEMMA LiveExplained ==
    ASSUME Typed, NEW e \in Events, NEW status \in StatusPayloads,
           NEW fixtures \in FixturePayloads, NEW live \in LivePayloads,
           NEW time \in 1..MaxTime, PersistLive(e, status, fixtures, live, time)
    PROVE  TransactionExplained
<1> DEFINE payloads == [id \in {StatusSource(e), CurrentFixturesSource(e), LiveSource(e)} |->
                           CASE id = StatusSource(e) -> status
                             [] id = CurrentFixturesSource(e) -> fixtures
                             [] OTHER -> live]
           statusStep  == OfferedStep("event_status", StatusSnapshot(status),
                                      StatusSource(e), status, time, TRUE)
           fixtureStep == OfferedStep("fixtures", fixtures, CurrentFixturesSource(e),
                                      fixtures, time, FALSE)
           liveStep    == OfferedStep("event_live", LiveSnapshots(e, live), LiveSource(e),
                                      live, time, TRUE)
           emitted1 == Announced(statusStep) \o Announced(fixtureStep)
           emitted  == emitted1 \o Announced(liveStep)
<1>1. /\ sources' = RecordSources(payloads, time)
      /\ snapshots' = [snapshots EXCEPT !["event_status"] = statusStep.snapshot,
                                        !["fixtures"] = fixtureStep.snapshot,
                                        !["event_live"] = liveStep.snapshot]
      /\ feed' = feed \o emitted
  BY DEF PersistLive
<1>2. {StatusSource(e), CurrentFixturesSource(e), LiveSource(e)} \subseteq SourceIds
  BY DEF SourceIds
<1>3. {StatusSource(e), CurrentFixturesSource(e), LiveSource(e)} \subseteq DOMAIN sources'
  BY <1>1 DEF RecordSources
<1>4. {"fixtures", "event_status", "event_live"} \subseteq Families
      /\ DOMAIN snapshots = Families
  BY DEF Families, Typed, SnapshotsTyped
<1> HIDE DEF payloads
<1>6. /\ FeedTyped(Announced(statusStep)) /\ FeedTyped(Announced(fixtureStep))
      /\ FeedTyped(Announced(liveStep))
  BY <1>2, <1>4, AnnouncedTyped
<1>7. FeedTyped(emitted1) /\ FeedTyped(emitted)
  <2>1. FeedTyped(emitted1)
    BY <1>6, FeedTypedConcat
  <2> QED
    BY <1>6, <2>1, FeedTypedConcat
<1>8. /\ Len(feed') >= Len(feed) /\ SubSeq(feed', 1, Len(feed)) = feed
      /\ NewEvents = emitted
  <2> HIDE DEF emitted
  <2> QED
    BY <1>1, <1>7, AppendedEvents DEF Typed
<1>9. /\ Accounted("event_status", statusStep) /\ Accounted("fixtures", fixtureStep)
      /\ Accounted("event_live", liveStep)
  <2>1. /\ InScope("event_status", StatusSnapshot(status), StatusSource(e))
        /\ InScope("fixtures", fixtures, CurrentFixturesSource(e))
    BY DEF InScope
  <2>2. /\ snapshots'["event_status"] = statusStep.snapshot
        /\ snapshots'["fixtures"] = fixtureStep.snapshot
        /\ snapshots'["event_live"] = liveStep.snapshot
    BY <1>1, <1>4
  <2>3. /\ IsFamily(snapshots["fixtures"]) /\ IsFamily(snapshots["event_status"])
        /\ IsFamily(snapshots["event_live"])
    BY <1>4, SnapshotFamilies DEF Typed
  <2>4. Accounted("event_status", statusStep)
    BY <1>3, <2>1, <2>2, <2>3, NoAbsenceInPayloads, StepAccounted
  <2>5. Accounted("fixtures", fixtureStep)
    BY <1>3, <2>1, <2>2, <2>3, PayloadAssumption, NoAbsenceInPayloads, StepAccounted
  <2>6. Accounted("event_live", liveStep)
    BY <1>3, <2>2, <2>3, NoAbsenceInPayloads, StepAccounted
  <2> QED
    BY <2>4, <2>5, <2>6
<1>10. /\ snapshots'["events"] = snapshots["events"]
       /\ snapshots'["elements"] = snapshots["elements"]
  BY <1>1, <1>4 DEF Families
<1>11. /\ OneEvent(Announced(statusStep), "event_status", statusStep)
       /\ \A other : other # "event_status" => NoEvent(Announced(statusStep), other)
  BY StepAnnouncesItself
<1>12. /\ OneEvent(Announced(fixtureStep), "fixtures", fixtureStep)
       /\ \A other : other # "fixtures" => NoEvent(Announced(fixtureStep), other)
  BY StepAnnouncesItself
<1>13. /\ OneEvent(Announced(liveStep), "event_live", liveStep)
       /\ \A other : other # "event_live" => NoEvent(Announced(liveStep), other)
  BY StepAnnouncesItself
<1> HIDE DEF fixtureStep, statusStep, liveStep
<1>14. /\ OneEvent(emitted1, "event_status", statusStep)
       /\ OneEvent(emitted1, "fixtures", fixtureStep)
       /\ \A other : other \notin {"event_status", "fixtures"} => NoEvent(emitted1, other)
  BY <1>6, <1>11, <1>12, OneEventConcat, NoEventConcat
<1> HIDE DEF emitted1
<1>15. /\ OneEvent(emitted, "event_status", statusStep)
       /\ OneEvent(emitted, "fixtures", fixtureStep)
       /\ OneEvent(emitted, "event_live", liveStep)
       /\ NoEvent(emitted, "events") /\ NoEvent(emitted, "elements")
  BY <1>6, <1>7, <1>13, <1>14, OneEventConcat, NoEventConcat
<1> HIDE DEF emitted
<1>16. \A family \in Families : Explained(family)
  <2>1. Explained("event_status") /\ Explained("fixtures") /\ Explained("event_live")
    BY <1>7, <1>8, <1>9, <1>15, FamilyExplained
  <2>2. Explained("events") /\ Explained("elements")
    BY <1>7, <1>8, <1>10, <1>15, UntouchedFamilyExplained
  <2> QED
    BY <2>1, <2>2 DEF Families
<1> QED
  BY <1>8, <1>16 DEF TransactionExplained

(* Every change of the canonical snapshots can be reconstructed from the   *)
(* feed, for any upstream and any order of deliveries: each transaction    *)
(* appends at most one event per family, relative to the snapshot before   *)
(* it, whose replay gives the snapshot after it (compare_snapshot_families,*)
(* insert_change_event, persist_snapshot_diffs).                           *)
THEOREM FeedIsComplete == Spec => FeedExplainsSnapshots
<1>1. Typed /\ [Next]_vars => [TransactionExplained \/ StartedOver]_vars
  <2> SUFFICES ASSUME Typed, Next PROVE TransactionExplained \/ StartedOver
    OBVIOUS
  <2>1. CASE IngestReference
    BY <2>1, ReferenceExplained DEF IngestReference
  <2>2. CASE IngestLive
    BY <2>2, LiveExplained DEF IngestLive, CurrentFixturePayloads
  <2>3. CASE Rebaseline
    BY <2>3 DEF Rebaseline, StartedOver
  <2> QED
    BY <2>1, <2>2, <2>3 DEF Next
<1> QED
  BY <1>1, TypedInvariant, PTL DEF Spec, FeedExplainsSnapshots

-----------------------------------------------------------------------------
(* Reference rows.                                                         *)

(* Writing what differs and removing what is gone is a replacement.        *)
LEMMA OverwriteWithout ==
    ASSUME NEW rows, NEW current, IsFamily(current), NEW written, NEW removed,
           written \subseteq DOMAIN current,
           DOMAIN current \subseteq DOMAIN rows \cup written,
           \A key \in DOMAIN current \ written : rows[key] = current[key],
           removed = DOMAIN rows \ DOMAIN current
    PROVE  Without(Overwrite(rows, written, current), removed) = current
<1>1. DOMAIN Overwrite(rows, written, current) = DOMAIN rows \cup written
  BY DEF Overwrite
<1>2. (DOMAIN rows \cup written) \ removed = DOMAIN current
  OBVIOUS
<1>3. Without(Overwrite(rows, written, current), removed)
          = [key \in DOMAIN current |-> Overwrite(rows, written, current)[key]]
  BY <1>1, <1>2 DEF Without, Restrict
<1>4. \A key \in DOMAIN current : Overwrite(rows, written, current)[key] = current[key]
  BY DEF Overwrite
<1> QED
  BY <1>3, <1>4 DEF IsFamily

(* What an authoritative diff against the rows themselves writes and       *)
(* reports deleted.                                                        *)
LEMMA DiffedAgainstRows ==
    ASSUME NEW rows, NEW current, HoldsNoAbsence(rows), HoldsNoAbsence(current)
    PROVE  LET changes == Diff(rows, current, TRUE, FALSE)
               written == KeysToUpsert(changes, current, FALSE)
           IN  /\ written \subseteq DOMAIN current
               /\ DOMAIN current \subseteq DOMAIN rows \cup written
               /\ \A key \in DOMAIN current \ written : rows[key] = current[key]
               /\ DeletedKeys(changes) = DOMAIN rows \ DOMAIN current
<1> DEFINE changed == ChangedKeys(rows, current, TRUE, FALSE)
           written == KeysToUpsert(Diff(rows, current, TRUE, FALSE), current, FALSE)
<1>1. DeletedKeys(Diff(rows, current, TRUE, FALSE)) = changed \ DOMAIN current
  BY DeletedKeysOfDiff
<1>2. changed = {key \in DOMAIN rows \cup DOMAIN current :
                     Datum(rows, key) # Datum(current, key)}
  BY DEF ChangedKeys
<1>3. DOMAIN Diff(rows, current, TRUE, FALSE) = changed
  BY DEF Diff
<1>4. written = changed \cap DOMAIN current
  BY <1>1, <1>2, <1>3 DEF KeysToUpsert
<1>5. changed \ DOMAIN current = DOMAIN rows \ DOMAIN current
  BY <1>2 DEF Datum, HoldsNoAbsence
<1>6. DOMAIN current \ DOMAIN rows \subseteq changed
  BY <1>2 DEF Datum, HoldsNoAbsence
<1>7. \A key \in DOMAIN current \ changed : rows[key] = current[key]
  BY <1>2, <1>6 DEF Datum
<1> HIDE DEF changed, written
<1>8. /\ written \subseteq DOMAIN current
      /\ DOMAIN current \subseteq DOMAIN rows \cup written
      /\ \A key \in DOMAIN current \ written : rows[key] = current[key]
      /\ DeletedKeys(Diff(rows, current, TRUE, FALSE)) = DOMAIN rows \ DOMAIN current
  BY <1>1, <1>4, <1>5, <1>6, <1>7
<1> QED
  BY <1>8 DEF written

(* The reference rows, their snapshots and the source agree, once there is *)
(* a source; before it a family is either a silent baseline to come or,    *)
(* after a rebaseline, the rows.                                           *)
ComparedWithRows(family, rows) ==
    \/ snapshots[family] = rows
    \/ BootstrapSource \notin DOMAIN sources /\ snapshots[family] = NoEntities

ReferenceAgrees ==
    /\ BootstrapSource \in DOMAIN sources =>
           /\ tables.events = EventSnapshots(sources[BootstrapSource].hash)
           /\ tables.elements = sources[BootstrapSource].hash.elements
    /\ ComparedWithRows("events", tables.events)
    /\ ComparedWithRows("elements", tables.elements)

(* An accepted bootstrap answer meets one column of rows.                  *)
Meets(family, rows, current, b, time) ==
    /\ family \in {"events", "elements"}
    /\ IsFamily(rows) /\ IsFamily(current)
    /\ HoldsNoAbsence(rows) /\ HoldsNoAbsence(current)
    /\ Accepted(BootstrapSource, b, time)
    /\ ComparedWithRows(family, rows)

(* Its snapshots and rows become the answer, and the rows that are gone    *)
(* are the same whether they come from a scan or from the diff.            *)
Replaces(family, rows, current, b, time) ==
    LET step == OfferedStep(family, current, BootstrapSource, b, time, TRUE)
        gone == DOMAIN rows \ DOMAIN current
    IN  /\ step.snapshot = current
        /\ Without(Overwrite(rows, step.written, current), gone) = current
        /\ DOMAIN Overwrite(rows, step.written, current) \ DOMAIN current = gone
        /\ ~step.baseline => DeletedKeys(step.changes) = gone

(* What an accepted bootstrap answer does to one of its two families.      *)
LEMMA ReferenceColumn ==
    ASSUME NEW family, NEW rows, NEW current, NEW time, NEW b,
           Meets(family, rows, current, b, time)
    PROVE  Replaces(family, rows, current, b, time)
<1> DEFINE step == OfferedStep(family, current, BootstrapSource, b, time, TRUE)
           previous == snapshots[family]
           baseline == BootstrapSource \notin DOMAIN sources /\ previous = NoEntities
           gone == DOMAIN rows \ DOMAIN current
<1>0. /\ family \in {"events", "elements"} /\ IsFamily(rows) /\ IsFamily(current)
      /\ HoldsNoAbsence(rows) /\ HoldsNoAbsence(current)
      /\ Accepted(BootstrapSource, b, time) /\ ComparedWithRows(family, rows)
  BY DEF Meets
<1>1. Previous(family, BootstrapSource) = previous
  BY <1>0 DEF Previous
<1>2. /\ step.baseline = baseline
      /\ step.changes = Diff(previous, current, TRUE, baseline)
      /\ step.written = KeysToUpsert(Diff(previous, current, TRUE, baseline), current, baseline)
      /\ step.snapshot = Synchronize(previous, current,
                             Diff(previous, current, TRUE, baseline), TRUE, baseline)
  BY <1>0, <1>1 DEF OfferedStep, FamilyStep
<1>3. baseline \in BOOLEAN /\ (~baseline => previous = rows) /\ (baseline => previous = NoEntities)
  BY <1>0 DEF ComparedWithRows
<1> HIDE DEF step, previous, baseline
<1>4. step.snapshot = current
  <2>1. CASE baseline
    <3>1. step.snapshot = Synchronize(NoEntities, current,
                              Diff(NoEntities, current, TRUE, TRUE), TRUE, TRUE)
      BY <1>2, <1>3, <2>1
    <3>2. current = [key \in DOMAIN current |-> current[key]]
      BY <1>0 DEF IsFamily
    <3>3. Synchronize(NoEntities, current, Diff(NoEntities, current, TRUE, TRUE), TRUE, TRUE)
              = current
      BY <3>2, BaselineInstalls
    <3> QED
      BY <3>1, <3>3
  <2>2. CASE ~baseline
    <3>1. step.snapshot = Synchronize(rows, current, Diff(rows, current, TRUE, FALSE), TRUE, FALSE)
      BY <1>2, <1>3, <2>2
    <3> QED
      BY <1>0, <3>1, AuthoritativeReplaces DEF IsFamily
  <2> QED
    BY <1>3, <2>1, <2>2
<1>5. /\ step.written \subseteq DOMAIN current
      /\ DOMAIN current \subseteq DOMAIN rows \cup step.written
      /\ \A key \in DOMAIN current \ step.written : rows[key] = current[key]
      /\ ~baseline => DeletedKeys(step.changes) = DOMAIN rows \ DOMAIN current
  <2>1. CASE baseline
    <3>1. step.written = DOMAIN current
      BY <1>2, <2>1 DEF KeysToUpsert
    <3> QED
      BY <2>1, <3>1
  <2>2. CASE ~baseline
    <3>1. /\ step.written = KeysToUpsert(Diff(rows, current, TRUE, FALSE), current, FALSE)
          /\ step.changes = Diff(rows, current, TRUE, FALSE)
      BY <1>2, <1>3, <2>2
    <3> QED
      BY <1>0, <3>1, DiffedAgainstRows
  <2> QED
    BY <2>1, <2>2
<1>6. DOMAIN Overwrite(rows, step.written, current) \ DOMAIN current = gone
  BY <1>5 DEF Overwrite
<1>7. Without(Overwrite(rows, step.written, current), gone) = current
  BY <1>0, <1>5, OverwriteWithout
<1>8. ~step.baseline => DeletedKeys(step.changes) = gone
  BY <1>2, <1>5
<1> HIDE DEF gone
<1> QED
  BY <1>4, <1>6, <1>7, <1>8 DEF Replaces, step, gone

(* Only two statements and the removal touch the reference columns.        *)
LEMMA ReferenceColumnsWritten ==
    ASSUME NEW rows, RowsTyped(rows), NEW b, NEW events, NEW elements,
           NEW fixtures, NEW fixtureStep, NEW status, NEW statusStep
    PROVE  LET rows1 == WriteBootstrap(rows, b, events, elements)
               rows2 == WriteFixtures(rows1, fixtures, fixtureStep, TRUE)
               rows3 == WriteStatus(rows2, status, statusStep)
           IN  /\ rows3.events = Overwrite(rows.events, events.written, EventSnapshots(b))
               /\ rows3.elements = Overwrite(rows.elements, elements.written, b.elements)
               /\ {"events", "elements"} \subseteq DOMAIN rows3
<1> DEFINE rows1 == WriteBootstrap(rows, b, events, elements)
           rows2 == WriteFixtures(rows1, fixtures, fixtureStep, TRUE)
           rows3 == WriteStatus(rows2, status, statusStep)
<1>1. /\ rows1.events = Overwrite(rows.events, events.written, EventSnapshots(b))
      /\ rows1.elements = Overwrite(rows.elements, elements.written, b.elements)
      /\ DOMAIN rows1 = TableNames
  BY DEF WriteBootstrap, RowsTyped, TableNames
<1> HIDE DEF rows1
<1>2. /\ rows2.events = rows1.events /\ rows2.elements = rows1.elements
      /\ DOMAIN rows2 = TableNames
  BY <1>1 DEF WriteFixtures, TableNames
<1> HIDE DEF rows2
<1>3. /\ rows3.events = rows2.events /\ rows3.elements = rows2.elements
      /\ DOMAIN rows3 = TableNames
  BY <1>2 DEF WriteStatus, TableNames
<1> HIDE DEF rows3
<1>4. /\ rows3.events = Overwrite(rows.events, events.written, EventSnapshots(b))
      /\ rows3.elements = Overwrite(rows.elements, elements.written, b.elements)
      /\ {"events", "elements"} \subseteq DOMAIN rows3
  BY <1>1, <1>2, <1>3 DEF TableNames
<1> QED
  BY <1>4 DEF rows1, rows2, rows3

LEMMA RemovedColumns ==
    ASSUME NEW rows, {"events", "elements"} \subseteq DOMAIN rows, NEW events, NEW elements
    PROVE  /\ RemoveReference(rows, events, elements).events = Without(rows.events, events)
           /\ RemoveReference(rows, events, elements).elements = Without(rows.elements, elements)
BY DEF RemoveReference, RemoveDependents

LEMMA ReferenceKeepsAgreement ==
    ASSUME Typed, ReferenceAgrees, NEW b \in BootstrapPayloads, NEW fixtures \in FixturePayloads,
           NEW status \in StatusPayloads, NEW time \in 1..MaxTime,
           PersistReference(b, fixtures, status, time)
    PROVE  ReferenceAgrees'
<1> DEFINE statusId == StatusSource(b.current)
           payloads == [id \in {BootstrapSource, FixturesSource, statusId} |->
                           CASE id = BootstrapSource -> b
                             [] id = FixturesSource -> fixtures
                             [] OTHER -> status]
           events   == OfferedStep("events", EventSnapshots(b), BootstrapSource, b, time, TRUE)
           elements == OfferedStep("elements", b.elements, BootstrapSource, b, time, TRUE)
           merged   == WithLiveOwnership(tables, fixtures, time)
           fixtureStep == OfferedStep("fixtures", merged, FixturesSource, fixtures, time, TRUE)
           statusStep  == OfferedStep("event_status", StatusSnapshot(status), statusId,
                                      status, time, TRUE)
           rows1 == WriteBootstrap(tables, b, events, elements)
           rows2 == WriteFixtures(rows1, merged, fixtureStep, TRUE)
           rows3 == WriteStatus(rows2, status, statusStep)
           goneEvents   == RemovedEvents(rows3, b, events, elements)
           goneElements == RemovedElements(rows3, b, events, elements)
<1>1. /\ sources' = RecordSources(payloads, time)
      /\ tables' = RemoveReference(rows3, goneEvents, goneElements)
      /\ snapshots' = [snapshots EXCEPT !["events"] = events.snapshot,
                                        !["elements"] = elements.snapshot,
                                        !["fixtures"] = fixtureStep.snapshot,
                                        !["event_status"] = statusStep.snapshot]
  BY DEF PersistReference
<1>2. ~Conflicting(BootstrapSource, b, time)
  <2>1. \A id \in DOMAIN payloads : ~Conflicting(id, payloads[id], time)
    BY DEF PersistReference
  <2>2. BootstrapSource \in DOMAIN payloads /\ payloads[BootstrapSource] = b
    BY DEF BootstrapSource, FixturesSource, StatusSource
  <2> QED
    BY <2>1, <2>2
<1>3. /\ BootstrapSource \in DOMAIN sources'
      /\ sources'[BootstrapSource] = IF Stale(BootstrapSource, time) THEN sources[BootstrapSource]
                                     ELSE [hash |-> b, fetchedAt |-> time]
  <2>1. BootstrapSource \in DOMAIN payloads /\ payloads[BootstrapSource] = b
    BY DEF BootstrapSource, FixturesSource, StatusSource
  <2> HIDE DEF payloads
  <2> QED
    BY <1>1, <2>1 DEF RecordSources
<1>4. /\ snapshots'["events"] = events.snapshot
      /\ snapshots'["elements"] = elements.snapshot
  BY <1>1 DEF Typed, SnapshotsTyped, Families
<1> HIDE DEF payloads, statusId, merged, fixtureStep, statusStep
<1>5. /\ rows3.events = Overwrite(tables.events, events.written, EventSnapshots(b))
      /\ rows3.elements = Overwrite(tables.elements, elements.written, b.elements)
      /\ {"events", "elements"} \subseteq DOMAIN rows3
  <2> HIDE DEF events, elements
  <2> QED
    BY ReferenceColumnsWritten DEF Typed
<1> HIDE DEF rows3
<1>6. /\ tables'.events = Without(rows3.events, goneEvents)
      /\ tables'.elements = Without(rows3.elements, goneElements)
  <2> HIDE DEF goneEvents, goneElements
  <2> QED
    BY <1>1, <1>5, RemovedColumns
<1>7. /\ IsFamily(tables.events) /\ IsFamily(EventSnapshots(b))
      /\ IsFamily(tables.elements) /\ IsFamily(b.elements)
      /\ HoldsNoAbsence(tables.events) /\ HoldsNoAbsence(EventSnapshots(b))
      /\ HoldsNoAbsence(tables.elements) /\ HoldsNoAbsence(b.elements)
      /\ DOMAIN EventSnapshots(b) = b.events
  <2>1. /\ IsPartial(tables.events, Events, BOOLEAN)
        /\ IsPartial(tables.elements, Elements, ElementData)
        /\ IsPartial(EventSnapshots(b), Events, BOOLEAN)
        /\ IsPartial(b.elements, Elements, ElementData)
    BY PayloadSnapshotsTyped DEF Typed, RowsTyped
  <2>2. DOMAIN EventSnapshots(b) = b.events
    BY DEF EventSnapshots
  <2> QED
    BY <2>1, <2>2, AbsentAssumption DEF IsPartial, IsFamily, HoldsNoAbsence
<1>8. CASE Accepted(BootstrapSource, b, time)
  <2>1. ~Stale(BootstrapSource, time)
    BY <1>8 DEF Accepted, Stale, Typed, SourcesTyped
  <2>2. sources'[BootstrapSource].hash = b
    BY <1>3, <2>1
  <2>3. /\ Meets("events", tables.events, EventSnapshots(b), b, time)
        /\ Meets("elements", tables.elements, b.elements, b, time)
    BY <1>7, <1>8 DEF Meets, ReferenceAgrees
  <2>4. /\ Replaces("events", tables.events, EventSnapshots(b), b, time)
        /\ Replaces("elements", tables.elements, b.elements, b, time)
    BY <2>3, ReferenceColumn
  <2>5. /\ events.snapshot = EventSnapshots(b) /\ elements.snapshot = b.elements
        /\ Without(Overwrite(tables.events, events.written, EventSnapshots(b)),
                   DOMAIN tables.events \ b.events) = EventSnapshots(b)
        /\ Without(Overwrite(tables.elements, elements.written, b.elements),
                   DOMAIN tables.elements \ DOMAIN b.elements) = b.elements
    BY <2>4, <1>7 DEF Replaces
  <2>6. /\ goneEvents = DOMAIN tables.events \ b.events
        /\ goneElements = DOMAIN tables.elements \ DOMAIN b.elements
    <3>1. /\ DOMAIN rows3.events \ b.events = DOMAIN tables.events \ b.events
          /\ DOMAIN rows3.elements \ DOMAIN b.elements
                 = DOMAIN tables.elements \ DOMAIN b.elements
          /\ ~events.baseline => DeletedKeys(events.changes) = DOMAIN tables.events \ b.events
          /\ ~elements.baseline => DeletedKeys(elements.changes)
                                      = DOMAIN tables.elements \ DOMAIN b.elements
      BY <1>5, <1>7, <2>4 DEF Replaces
    <3> HIDE DEF events, elements
    <3> QED
      BY <3>1 DEF RemovedEvents, RemovedElements
  <2> HIDE DEF events, elements, goneEvents, goneElements
  <2>7. tables'.events = EventSnapshots(b) /\ tables'.elements = b.elements
    BY <1>5, <1>6, <2>4, <2>5, <2>6
  <2> QED
    BY <1>3, <1>4, <2>2, <2>4, <2>5, <2>7 DEF ReferenceAgrees, ComparedWithRows
<1>9. CASE ~Accepted(BootstrapSource, b, time)
  <2>1. BootstrapSource \in DOMAIN sources
    BY <1>9 DEF Accepted
  <2>2. sources'[BootstrapSource].hash = sources[BootstrapSource].hash
    <3>1. CASE Stale(BootstrapSource, time)
      BY <1>3, <3>1
    <3>2. CASE ~Stale(BootstrapSource, time)
      <4>1. time >= sources[BootstrapSource].fetchedAt
        BY <3>2, <2>1 DEF Stale, Typed, SourcesTyped
      <4>2. b = sources[BootstrapSource].hash
        BY <4>1, <2>1, <1>9 DEF Accepted
      <4> QED
        BY <1>3, <3>2, <4>2
    <3> QED
      BY <3>1, <3>2
  <2>3. events = NoStep("events") /\ elements = NoStep("elements")
    BY <1>9 DEF OfferedStep
  <2> HIDE DEF events, elements
  <2>4. /\ events.snapshot = snapshots["events"] /\ elements.snapshot = snapshots["elements"]
        /\ events.written = {} /\ elements.written = {}
        /\ goneEvents = {} /\ goneElements = {}
    BY <2>3 DEF NoStep, RemovedEvents, RemovedElements, DeletedKeys, NoEntities
  <2>5. tables'.events = tables.events /\ tables'.elements = tables.elements
    <3>1. \A rows, current : IsFamily(rows) => Without(Overwrite(rows, {}, current), {}) = rows
      BY DEF Without, Restrict, Overwrite, IsFamily
    <3> HIDE DEF goneEvents, goneElements
    <3> QED
      BY <1>5, <1>6, <1>7, <2>4, <3>1
  <2> HIDE DEF goneEvents, goneElements
  <2> QED
    BY <1>3, <1>4, <2>1, <2>2, <2>4, <2>5 DEF ReferenceAgrees, ComparedWithRows
<1> QED
  BY <1>8, <1>9

LEMMA LiveKeepsAgreement ==
    ASSUME Typed, ReferenceAgrees, NEW e \in Events, NEW status, NEW fixtures, NEW live,
           NEW time, PersistLive(e, status, fixtures, live, time)
    PROVE  ReferenceAgrees'
<1>1. /\ tables'.events = tables.events /\ tables'.elements = tables.elements
  BY DEF PersistLive, WriteStatus, WriteFixtures, WriteLive, Typed, RowsTyped, TableNames
<1>2. /\ snapshots'["events"] = snapshots["events"]
      /\ snapshots'["elements"] = snapshots["elements"]
  BY DEF PersistLive, Typed, SnapshotsTyped, Families
<1>3. PICK payloads :
          /\ DOMAIN payloads = {StatusSource(e), CurrentFixturesSource(e), LiveSource(e)}
          /\ sources' = RecordSources(payloads, time)
  BY DEF PersistLive
<1>4. BootstrapSource \notin DOMAIN payloads
  BY <1>3 DEF BootstrapSource, StatusSource, CurrentFixturesSource, LiveSource
<1>5. /\ BootstrapSource \in DOMAIN sources' <=> BootstrapSource \in DOMAIN sources
      /\ BootstrapSource \in DOMAIN sources => sources'[BootstrapSource] = sources[BootstrapSource]
  BY <1>3, <1>4 DEF RecordSources
<1> QED
  BY <1>1, <1>2, <1>5 DEF ReferenceAgrees, ComparedWithRows

LEMMA ReferenceStaysAgreed == Typed /\ ReferenceAgrees /\ [Next]_vars => ReferenceAgrees'
<1> SUFFICES ASSUME Typed, ReferenceAgrees, [Next]_vars PROVE ReferenceAgrees'
  OBVIOUS
<1>1. CASE IngestReference
  BY <1>1, ReferenceKeepsAgreement DEF IngestReference
<1>2. CASE IngestLive
  BY <1>2, LiveKeepsAgreement DEF IngestLive
<1>3. CASE Rebaseline
  BY <1>3 DEF Rebaseline, RebuiltSnapshots, Families, ReferenceAgrees, ComparedWithRows
<1>4. CASE UNCHANGED vars
  BY <1>4 DEF vars, ReferenceAgrees, ComparedWithRows
<1> QED
  BY <1>1, <1>2, <1>3, <1>4 DEF Next

(* The reference rows are the newest bootstrap answer accepted, nothing    *)
(* more and nothing less, for any rows an older schema left behind         *)
(* (persist_bootstrap_source, reconcile_removed_bootstrap_rows).           *)
THEOREM ReferenceMirrored == Spec => []ReferenceRowsMirrorBootstrap
<1>1. Init => ReferenceAgrees
  BY DEF Init, NoEntities, ReferenceAgrees, ComparedWithRows, Families
<1>2. ReferenceAgrees => ReferenceRowsMirrorBootstrap
  BY DEF ReferenceAgrees, ReferenceRowsMirrorBootstrap
<1> QED
  BY <1>1, <1>2, ReferenceStaysAgreed, TypedInvariant, PTL DEF Spec

-----------------------------------------------------------------------------
(* One family's step.                                                      *)

(* Whether or not the payload is taken: what is written comes from it,     *)
(* what is reported deleted is not in it, a baseline deletes nothing, and  *)
(* the snapshots change by what was written and, for an authoritative      *)
(* source, deleted.                                                        *)
Steps(family, current, id, step, authoritative) ==
    LET deleted == DeletedKeys(step.changes)
        removed == IF authoritative THEN deleted ELSE {}
    IN  /\ step.baseline \in BOOLEAN
        /\ step.written \subseteq DOMAIN current
        /\ deleted \subseteq DOMAIN Previous(family, id) \ DOMAIN current
        /\ step.baseline => deleted = {} /\ Previous(family, id) = NoEntities
        /\ DOMAIN step.snapshot = (DOMAIN snapshots[family] \ removed) \cup step.written
        /\ \A key \in step.written : step.snapshot[key] = current[key]
        /\ \A key \in DOMAIN step.snapshot \ step.written :
               step.snapshot[key] = snapshots[family][key]

LEMMA OfferedSteps ==
    ASSUME NEW family, NEW current, NEW id, NEW payload, NEW time,
           NEW authoritative \in BOOLEAN, HoldsNoAbsence(current)
    PROVE  Steps(family, current, id,
                 OfferedStep(family, current, id, payload, time, authoritative), authoritative)
<1> DEFINE step == OfferedStep(family, current, id, payload, time, authoritative)
           previous == Previous(family, id)
           baseline == id \notin DOMAIN sources /\ previous = NoEntities
           changes == Diff(previous, current, authoritative, baseline)
           deleted == DeletedKeys(changes)
           written == KeysToUpsert(changes, current, baseline)
<1>1. CASE ~Accepted(id, payload, time)
  <2>1. step = NoStep(family)
    BY <1>1 DEF OfferedStep
  <2>2. /\ step.baseline = FALSE /\ step.written = {} /\ step.snapshot = snapshots[family]
        /\ DeletedKeys(step.changes) = {}
    BY <2>1 DEF NoStep, DeletedKeys, NoEntities
  <2> HIDE DEF step
  <2>3. Steps(family, current, id, step, authoritative)
    BY <2>2 DEF Steps
  <2> QED
    BY <2>3 DEF step
<1>2. CASE Accepted(id, payload, time)
  <2>1. /\ step.baseline = baseline /\ step.changes = changes /\ step.written = written
        /\ step.snapshot = Synchronize(snapshots[family], current, changes,
                                       authoritative, baseline)
    BY <1>2 DEF OfferedStep, FamilyStep
  <2>2. baseline \in BOOLEAN /\ (baseline => previous = NoEntities)
    OBVIOUS
  <2> HIDE DEF step, baseline
  <2>3. deleted = ChangedKeys(previous, current, authoritative, baseline) \ DOMAIN current
    BY <2>2, DeletedKeysOfDiff
  <2>4. ChangedKeys(previous, current, authoritative, baseline)
            \subseteq DOMAIN previous \cup DOMAIN current
    BY DEF ChangedKeys
  <2>5. baseline => deleted = {}
    BY <2>3 DEF ChangedKeys
  <2>6. written \subseteq DOMAIN current
    BY <2>2, WrittenComeFromPayload
  <2>7. step.snapshot = [key \in (DOMAIN snapshots[family]
                                     \ (IF authoritative THEN deleted ELSE {})) \cup written |->
                            IF key \in written THEN current[key] ELSE snapshots[family][key]]
    BY <2>1 DEF Synchronize
  <2> HIDE DEF written, deleted, changes, previous
  <2>8. DeletedKeys(step.changes) = deleted
    BY <2>1 DEF deleted
  <2>9. deleted \subseteq DOMAIN previous \ DOMAIN current
    BY <2>3, <2>4
  <2>10. Steps(family, current, id, step, authoritative)
    BY <2>1, <2>2, <2>5, <2>6, <2>7, <2>8, <2>9 DEF Steps, previous
  <2> QED
    BY <2>10 DEF step
<1> QED
  BY <1>1, <1>2

(* The fixtures a step removes: none of those it writes.                   *)
Removed(rows, fixtures, step, authoritative) ==
    IF ~authoritative THEN {}
    ELSE IF step.baseline THEN DOMAIN rows.fixtures \ DOMAIN fixtures
    ELSE DeletedKeys(step.changes)

LEMMA RemovedAreGone ==
    ASSUME NEW rows, NEW fixtures, NEW id, NEW step, NEW authoritative \in BOOLEAN,
           Steps("fixtures", fixtures, id, step, authoritative)
    PROVE  Removed(rows, fixtures, step, authoritative) \cap DOMAIN fixtures = {}
BY DEF Steps, Removed

(* The columns WriteFixtures leaves behind.                                *)
LEMMA FixturesWritten ==
    ASSUME NEW rows, RowsTyped(rows), NEW fixtures, NEW step, NEW authoritative \in BOOLEAN,
           step.written \subseteq DOMAIN fixtures
    PROVE  LET after == WriteFixtures(rows, fixtures, step, authoritative)
               removed == Removed(rows, fixtures, step, authoritative)
           IN  /\ DOMAIN after.fixtures = (DOMAIN rows.fixtures \cup step.written) \ removed
               /\ \A f \in DOMAIN after.fixtures :
                      after.fixtures[f] = IF f \in step.written THEN FixtureRow(fixtures[f])
                                          ELSE rows.fixtures[f]
               /\ after.fixtureStats
                      = {s \in rows.fixtureStats : s[1] \notin step.written \cup removed}
                            \cup {s \in step.written \X Elements : s[2] \in fixtures[s[1]].stats}
               /\ after.explainStats = {x \in rows.explainStats : x[3] \notin removed}
               /\ after.events = rows.events /\ after.elements = rows.elements
               /\ after.status = rows.status /\ after.statusDays = rows.statusDays
               /\ after.liveElements = rows.liveElements
<1> DEFINE after == WriteFixtures(rows, fixtures, step, authoritative)
           removed == Removed(rows, fixtures, step, authoritative)
           fixtureRows == [f \in DOMAIN fixtures |-> FixtureRow(fixtures[f])]
<1>1. /\ after.fixtures = Without(Overwrite(rows.fixtures, step.written, fixtureRows), removed)
      /\ after.fixtureStats
             = {s \in rows.fixtureStats : s[1] \notin step.written \cup removed}
                   \cup {s \in step.written \X Elements : s[2] \in fixtures[s[1]].stats}
      /\ after.explainStats = {x \in rows.explainStats : x[3] \notin removed}
      /\ after.events = rows.events /\ after.elements = rows.elements
      /\ after.status = rows.status /\ after.statusDays = rows.statusDays
      /\ after.liveElements = rows.liveElements
  BY DEF WriteFixtures, Removed, RowsTyped, TableNames
<1> HIDE DEF after, removed
<1>2. /\ DOMAIN after.fixtures = (DOMAIN rows.fixtures \cup step.written) \ removed
      /\ \A f \in DOMAIN after.fixtures :
             after.fixtures[f] = IF f \in step.written THEN FixtureRow(fixtures[f])
                                 ELSE rows.fixtures[f]
  BY <1>1 DEF Without, Restrict, Overwrite
<1> QED
  BY <1>1, <1>2 DEF after, removed

-----------------------------------------------------------------------------
(* Foreign keys: every statement keeps them.                               *)

LEMMA BootstrapKeepsParents ==
    ASSUME NEW rows, RowsTyped(rows), NoOrphans(rows), NEW b, NEW events, NEW elements
    PROVE  NoOrphans(WriteBootstrap(rows, b, events, elements))
<1> DEFINE after == WriteBootstrap(rows, b, events, elements)
<1>1. /\ after.events = Overwrite(rows.events, events.written, EventSnapshots(b))
      /\ after.elements = Overwrite(rows.elements, elements.written, b.elements)
      /\ after.fixtures = rows.fixtures /\ after.fixtureStats = rows.fixtureStats
      /\ after.statusDays = rows.statusDays /\ after.liveElements = rows.liveElements
      /\ after.explainStats = rows.explainStats
  BY DEF WriteBootstrap, RowsTyped, TableNames
<1> HIDE DEF after
<1>2. /\ DOMAIN rows.events \subseteq DOMAIN after.events
      /\ DOMAIN rows.elements \subseteq DOMAIN after.elements
  BY <1>1 DEF Overwrite
<1>3. NoOrphans(after)
  BY <1>1, <1>2 DEF NoOrphans
<1> QED
  BY <1>3 DEF after

LEMMA FixturesKeepParents ==
    ASSUME NEW rows, RowsTyped(rows), NoOrphans(rows), NEW fixtures, NEW id, NEW step,
           NEW authoritative \in BOOLEAN, IsPartial(fixtures, Fixtures, Fixture),
           Steps("fixtures", fixtures, id, step, authoritative),
           FixturesInsertable(rows, fixtures, step.written)
    PROVE  NoOrphans(WriteFixtures(rows, fixtures, step, authoritative))
<1> DEFINE after == WriteFixtures(rows, fixtures, step, authoritative)
           removed == Removed(rows, fixtures, step, authoritative)
<1>1. step.written \subseteq DOMAIN fixtures
  BY DEF Steps
<1>2. removed \cap step.written = {}
  BY <1>1, RemovedAreGone
<1>3. /\ DOMAIN after.fixtures = (DOMAIN rows.fixtures \cup step.written) \ removed
      /\ \A f \in DOMAIN after.fixtures :
             after.fixtures[f] = IF f \in step.written THEN FixtureRow(fixtures[f])
                                 ELSE rows.fixtures[f]
      /\ after.fixtureStats
             = {s \in rows.fixtureStats : s[1] \notin step.written \cup removed}
                   \cup {s \in step.written \X Elements : s[2] \in fixtures[s[1]].stats}
      /\ after.explainStats = {x \in rows.explainStats : x[3] \notin removed}
      /\ after.events = rows.events /\ after.elements = rows.elements
      /\ after.statusDays = rows.statusDays /\ after.liveElements = rows.liveElements
  BY <1>1, FixturesWritten
<1> HIDE DEF after, removed
<1>4. \A f \in DOMAIN after.fixtures :
          after.fixtures[f].event \in DOMAIN after.events \cup {Null}
  <2> SUFFICES ASSUME NEW f \in DOMAIN after.fixtures
               PROVE  after.fixtures[f].event \in DOMAIN rows.events \cup {Null}
    BY <1>3
  <2>1. CASE f \in step.written
    <3>1. after.fixtures[f] = FixtureRow(fixtures[f])
      BY <2>1, <1>3
    <3> QED
      BY <2>1, <3>1 DEF FixturesInsertable, FixtureRow
  <2>2. CASE f \notin step.written
    <3>1. f \in DOMAIN rows.fixtures /\ after.fixtures[f] = rows.fixtures[f]
      BY <2>2, <1>3
    <3> QED
      BY <3>1 DEF NoOrphans
  <2> QED
    BY <2>1, <2>2
<1>5. after.fixtureStats \subseteq (DOMAIN after.fixtures) \X (DOMAIN after.elements)
  <2> SUFFICES ASSUME NEW s \in after.fixtureStats
               PROVE  s \in (DOMAIN after.fixtures) \X (DOMAIN after.elements)
    OBVIOUS
  <2>1. CASE s \in rows.fixtureStats /\ s[1] \notin step.written \cup removed
    BY <2>1, <1>3 DEF NoOrphans
  <2>2. CASE s \in step.written \X Elements /\ s[2] \in fixtures[s[1]].stats
    <3>1. s[1] \in step.written /\ s = <<s[1], s[2]>>
      BY <2>2
    <3>2. s[2] \in DOMAIN rows.elements
      BY <2>2, <3>1 DEF FixturesInsertable
    <3> QED
      BY <1>2, <1>3, <3>1, <3>2
  <2> QED
    BY <1>3, <2>1, <2>2
<1>6. \A x \in after.explainStats :
          <<x[1], x[2]>> \in after.liveElements /\ x[3] \in DOMAIN after.fixtures
  BY <1>3 DEF NoOrphans
<1>7. NoOrphans(after)
  BY <1>3, <1>4, <1>5, <1>6 DEF NoOrphans
<1> QED
  BY <1>7 DEF after

LEMMA StatusKeepsParents ==
    ASSUME NEW rows, RowsTyped(rows), NoOrphans(rows), NEW status, NEW step,
           StatusInsertable(rows, status, step.written)
    PROVE  NoOrphans(WriteStatus(rows, status, step))
BY DEF WriteStatus, StatusInsertable, NoOrphans, RowsTyped, TableNames

LEMMA LiveKeepsParents ==
    ASSUME NEW rows, RowsTyped(rows), NoOrphans(rows), NEW e, NEW live, NEW step,
           step.written \subseteq {e} \X DOMAIN live,
           LiveInsertable(rows, live, step.written)
    PROVE  NoOrphans(WriteLive(rows, e, live, step))
<1> DEFINE after == WriteLive(rows, e, live, step)
           written == {key[2] : key \in step.written}
           removed == IF step.baseline
                      THEN {p \in Elements : <<e, p>> \in rows.liveElements} \ DOMAIN live
                      ELSE {key[2] : key \in DeletedKeys(step.changes)}
<1>1. /\ after.liveElements = (rows.liveElements \ ({e} \X removed)) \cup ({e} \X written)
      /\ after.explainStats
             = {x \in rows.explainStats : ~(x[1] = e /\ x[2] \in written \cup removed)}
                   \cup {x \in {e} \X written \X Fixtures : x[3] \in live[x[2]]}
      /\ after.events = rows.events /\ after.elements = rows.elements
      /\ after.fixtures = rows.fixtures /\ after.fixtureStats = rows.fixtureStats
      /\ after.statusDays = rows.statusDays
  BY DEF WriteLive, RowsTyped, TableNames
<1>2. \A p \in written : /\ e \in DOMAIN rows.events /\ p \in DOMAIN rows.elements
                         /\ live[p] \subseteq DOMAIN rows.fixtures
  <2> SUFFICES ASSUME NEW key \in step.written
               PROVE  /\ e \in DOMAIN rows.events /\ key[2] \in DOMAIN rows.elements
                      /\ live[key[2]] \subseteq DOMAIN rows.fixtures
    OBVIOUS
  <2>1. key[1] = e
    OBVIOUS
  <2> QED
    BY <2>1 DEF LiveInsertable
<1> HIDE DEF after, written, removed
<1>3. after.liveElements \subseteq (DOMAIN after.events) \X (DOMAIN after.elements)
  BY <1>1, <1>2 DEF NoOrphans
<1>4. \A x \in after.explainStats :
          <<x[1], x[2]>> \in after.liveElements /\ x[3] \in DOMAIN after.fixtures
  <2> SUFFICES ASSUME NEW x \in after.explainStats
               PROVE  <<x[1], x[2]>> \in after.liveElements /\ x[3] \in DOMAIN after.fixtures
    OBVIOUS
  <2>1. CASE x \in rows.explainStats /\ ~(x[1] = e /\ x[2] \in written \cup removed)
    BY <2>1, <1>1 DEF NoOrphans
  <2>2. CASE x \in {e} \X written \X Fixtures /\ x[3] \in live[x[2]]
    BY <2>2, <1>1, <1>2
  <2> QED
    BY <1>1, <2>1, <2>2
<1>5. NoOrphans(after)
  BY <1>1, <1>3, <1>4 DEF NoOrphans
<1> QED
  BY <1>5 DEF after

LEMMA RemovalKeepsParents ==
    ASSUME NEW rows, RowsTyped(rows), NoOrphans(rows), NEW events, NEW elements,
           EventsRemovable(rows, events)
    PROVE  NoOrphans(RemoveReference(rows, events, elements))
<1> DEFINE after == RemoveReference(rows, events, elements)
<1>1. /\ DOMAIN after.events = DOMAIN rows.events \ events
      /\ DOMAIN after.elements = DOMAIN rows.elements \ elements
  BY DEF RemoveReference, RemoveDependents, RowsTyped, TableNames, Without, Restrict
<1>2. /\ after.fixtures = rows.fixtures
      /\ after.fixtureStats = {s \in rows.fixtureStats : s[2] \notin elements}
      /\ after.statusDays = rows.statusDays \ events
      /\ after.liveElements = {l \in rows.liveElements : l[1] \notin events /\ l[2] \notin elements}
      /\ after.explainStats = {x \in rows.explainStats : x[1] \notin events /\ x[2] \notin elements}
  BY DEF RemoveReference, RemoveDependents, RowsTyped, TableNames
<1> HIDE DEF after
<1>3. \A f \in DOMAIN after.fixtures :
          after.fixtures[f].event \in DOMAIN after.events \cup {Null}
  BY <1>1, <1>2 DEF NoOrphans, EventsRemovable
<1>4. /\ after.fixtureStats \subseteq (DOMAIN after.fixtures) \X (DOMAIN after.elements)
      /\ after.statusDays \subseteq DOMAIN after.events
  BY <1>1, <1>2 DEF NoOrphans
<1>5. after.liveElements \subseteq (DOMAIN after.events) \X (DOMAIN after.elements)
  BY <1>1, <1>2 DEF NoOrphans
<1>6. \A x \in after.explainStats :
          <<x[1], x[2]>> \in after.liveElements /\ x[3] \in DOMAIN after.fixtures
  BY <1>2 DEF NoOrphans
<1>7. NoOrphans(after)
  BY <1>3, <1>4, <1>5, <1>6 DEF NoOrphans
<1> QED
  BY <1>7 DEF after

-----------------------------------------------------------------------------
(* The two operations, stage by stage (the LETs of PersistReference and    *)
(* PersistLive).                                                           *)

EventsStep(b, time) ==
    OfferedStep("events", EventSnapshots(b), BootstrapSource, b, time, TRUE)
ElementsStep(b, time) ==
    OfferedStep("elements", b.elements, BootstrapSource, b, time, TRUE)
FixturesStep(fixtures, time) ==
    OfferedStep("fixtures", WithLiveOwnership(tables, fixtures, time), FixturesSource,
                fixtures, time, TRUE)
StatusStep(event, status, time) ==
    OfferedStep("event_status", StatusSnapshot(status), StatusSource(event), status, time, TRUE)
CurrentFixturesStep(e, fixtures, time) ==
    OfferedStep("fixtures", fixtures, CurrentFixturesSource(e), fixtures, time, FALSE)
LiveStep(e, live, time) ==
    OfferedStep("event_live", LiveSnapshots(e, live), LiveSource(e), live, time, TRUE)

AfterBootstrap(b, time) ==
    WriteBootstrap(tables, b, EventsStep(b, time), ElementsStep(b, time))
AfterFixtures(b, fixtures, time) ==
    WriteFixtures(AfterBootstrap(b, time), WithLiveOwnership(tables, fixtures, time),
                  FixturesStep(fixtures, time), TRUE)
BeforeRemoval(b, fixtures, status, time) ==
    WriteStatus(AfterFixtures(b, fixtures, time), status, StatusStep(b.current, status, time))
AfterCurrentStatus(e, status, time) ==
    WriteStatus(tables, status, StatusStep(e, status, time))
AfterCurrentFixtures(e, status, fixtures, time) ==
    WriteFixtures(AfterCurrentStatus(e, status, time), fixtures,
                  CurrentFixturesStep(e, fixtures, time), FALSE)

LEMMA ReferenceStages ==
    ASSUME Typed, NEW b \in BootstrapPayloads, NEW fixtures \in FixturePayloads,
           NEW status \in StatusPayloads, NEW time \in 1..MaxTime,
           PersistReference(b, fixtures, status, time)
    PROVE  LET merged == WithLiveOwnership(tables, fixtures, time)
               step == FixturesStep(fixtures, time)
               statusStep == StatusStep(b.current, status, time)
               before == BeforeRemoval(b, fixtures, status, time)
           IN  /\ IsPartial(merged, Fixtures, Fixture) /\ DOMAIN merged = DOMAIN fixtures
               /\ Steps("fixtures", merged, FixturesSource, step, TRUE)
               /\ Steps("event_status", StatusSnapshot(status), StatusSource(b.current),
                        statusStep, TRUE)
               /\ RowsTyped(AfterBootstrap(b, time))
               /\ RowsTyped(AfterFixtures(b, fixtures, time))
               /\ RowsTyped(before)
               /\ FixturesInsertable(AfterBootstrap(b, time), merged, step.written)
               /\ StatusInsertable(AfterFixtures(b, fixtures, time), status, statusStep.written)
               /\ \E events, elements :
                      /\ EventsRemovable(before, events)
                      /\ tables' = RemoveReference(before, events, elements)
               /\ snapshots'["fixtures"] = step.snapshot
               /\ snapshots'["event_status"] = statusStep.snapshot
               /\ snapshots'["event_live"] = snapshots["event_live"]
<1> DEFINE merged == WithLiveOwnership(tables, fixtures, time)
           events == EventsStep(b, time)
           elements == ElementsStep(b, time)
           step == FixturesStep(fixtures, time)
           statusStep == StatusStep(b.current, status, time)
           rows1 == AfterBootstrap(b, time)
           rows2 == AfterFixtures(b, fixtures, time)
           before == BeforeRemoval(b, fixtures, status, time)
           goneEvents == RemovedEvents(before, b, events, elements)
           goneElements == RemovedElements(before, b, events, elements)
<1>1. /\ FixturesInsertable(rows1, merged, step.written)
      /\ StatusInsertable(rows2, status, statusStep.written)
      /\ EventsRemovable(before, goneEvents)
      /\ tables' = RemoveReference(before, goneEvents, goneElements)
      /\ snapshots' = [snapshots EXCEPT !["events"] = events.snapshot,
                                        !["elements"] = elements.snapshot,
                                        !["fixtures"] = step.snapshot,
                                        !["event_status"] = statusStep.snapshot]
  BY DEF PersistReference, EventsStep, ElementsStep, FixturesStep, StatusStep,
         AfterBootstrap, AfterFixtures, BeforeRemoval
<1>2. IsBootstrap(b) /\ IsPartial(fixtures, Fixtures, Fixture) /\ status \in Status
  BY PayloadAssumption
<1>3. IsPartial(merged, Fixtures, Fixture) /\ DOMAIN merged = DOMAIN fixtures
  BY <1>2, LiveOwnershipTyped DEF Typed, WithLiveOwnership
<1>4. Steps("fixtures", merged, FixturesSource, step, TRUE)
  BY <1>3, NoAbsenceInPayloads, OfferedSteps DEF FixturesStep
<1>5. Steps("event_status", StatusSnapshot(status), StatusSource(b.current), statusStep, TRUE)
  BY NoAbsenceInPayloads, OfferedSteps DEF StatusStep
<1>6. events.written \subseteq b.events /\ elements.written \subseteq DOMAIN b.elements
  BY PayloadSnapshotsTyped, OfferedStepTyped DEF Typed, SnapshotsTyped, EventsStep, ElementsStep
<1>7. RowsTyped(rows1)
  BY <1>2, <1>6, WriteBootstrapTyped DEF Typed, AfterBootstrap
<1>8. RowsTyped(rows2)
  BY <1>3, <1>4, <1>7, WriteFixturesTyped DEF Steps, AfterFixtures
<1>9. RowsTyped(before)
  BY <1>2, <1>8, WriteStatusTyped DEF BeforeRemoval
<1> HIDE DEF merged, events, elements, step, statusStep, rows1, rows2, before,
             goneEvents, goneElements
<1>10. /\ snapshots'["fixtures"] = step.snapshot
       /\ snapshots'["event_status"] = statusStep.snapshot
       /\ snapshots'["event_live"] = snapshots["event_live"]
  BY <1>1 DEF Typed, SnapshotsTyped, Families
<1> QED
  BY <1>1, <1>3, <1>4, <1>5, <1>7, <1>8, <1>9, <1>10
     DEF merged, step, statusStep, rows1, rows2, before

LEMMA LiveStages ==
    ASSUME Typed, NEW e \in Events, NEW status \in StatusPayloads,
           NEW fixtures \in FixturePayloads, NEW live \in LivePayloads,
           NEW time \in 1..MaxTime, PersistLive(e, status, fixtures, live, time)
    PROVE  LET step == CurrentFixturesStep(e, fixtures, time)
               statusStep == StatusStep(e, status, time)
               liveStep == LiveStep(e, live, time)
               rows1 == AfterCurrentStatus(e, status, time)
               rows2 == AfterCurrentFixtures(e, status, fixtures, time)
           IN  /\ IsPartial(fixtures, Fixtures, Fixture)
               /\ Steps("fixtures", fixtures, CurrentFixturesSource(e), step, FALSE)
               /\ Steps("event_status", StatusSnapshot(status), StatusSource(e), statusStep, TRUE)
               /\ Steps("event_live", LiveSnapshots(e, live), LiveSource(e), liveStep, TRUE)
               /\ liveStep.written \subseteq {e} \X DOMAIN live
               /\ RowsTyped(rows1) /\ RowsTyped(rows2)
               /\ StatusInsertable(tables, status, statusStep.written)
               /\ FixturesInsertable(rows1, fixtures, step.written)
               /\ LiveInsertable(rows2, live, liveStep.written)
               /\ tables' = WriteLive(rows2, e, live, liveStep)
               /\ snapshots'["events"] = snapshots["events"]
               /\ snapshots'["elements"] = snapshots["elements"]
               /\ snapshots'["fixtures"] = step.snapshot
               /\ snapshots'["event_status"] = statusStep.snapshot
               /\ snapshots'["event_live"] = liveStep.snapshot
<1> DEFINE step == CurrentFixturesStep(e, fixtures, time)
           statusStep == StatusStep(e, status, time)
           liveStep == LiveStep(e, live, time)
           rows1 == AfterCurrentStatus(e, status, time)
           rows2 == AfterCurrentFixtures(e, status, fixtures, time)
<1>1. /\ StatusInsertable(tables, status, statusStep.written)
      /\ FixturesInsertable(rows1, fixtures, step.written)
      /\ LiveInsertable(rows2, live, liveStep.written)
      /\ tables' = WriteLive(rows2, e, live, liveStep)
      /\ snapshots' = [snapshots EXCEPT !["event_status"] = statusStep.snapshot,
                                        !["fixtures"] = step.snapshot,
                                        !["event_live"] = liveStep.snapshot]
  BY DEF PersistLive, CurrentFixturesStep, StatusStep, LiveStep,
         AfterCurrentStatus, AfterCurrentFixtures
<1>2. IsPartial(fixtures, Fixtures, Fixture) /\ status \in Status
  BY PayloadAssumption
<1>3. Steps("fixtures", fixtures, CurrentFixturesSource(e), step, FALSE)
  BY <1>2, NoAbsenceInPayloads, OfferedSteps DEF CurrentFixturesStep
<1>4. Steps("event_status", StatusSnapshot(status), StatusSource(e), statusStep, TRUE)
  BY NoAbsenceInPayloads, OfferedSteps DEF StatusStep
<1>5. Steps("event_live", LiveSnapshots(e, live), LiveSource(e), liveStep, TRUE)
  BY NoAbsenceInPayloads, OfferedSteps DEF LiveStep
<1>6. liveStep.written \subseteq {e} \X DOMAIN live
  BY <1>5, PayloadSnapshotsTyped DEF Steps
<1>7. RowsTyped(rows1)
  BY <1>2, WriteStatusTyped DEF Typed, AfterCurrentStatus
<1>8. RowsTyped(rows2)
  BY <1>2, <1>3, <1>7, WriteFixturesTyped DEF Steps, AfterCurrentFixtures
<1> HIDE DEF step, statusStep, liveStep, rows1, rows2
<1>9. /\ snapshots'["events"] = snapshots["events"]
      /\ snapshots'["elements"] = snapshots["elements"]
      /\ snapshots'["fixtures"] = step.snapshot
      /\ snapshots'["event_status"] = statusStep.snapshot
      /\ snapshots'["event_live"] = liveStep.snapshot
  BY <1>1 DEF Typed, SnapshotsTyped, Families
<1> QED
  BY <1>1, <1>2, <1>3, <1>4, <1>5, <1>6, <1>7, <1>8, <1>9
     DEF step, statusStep, liveStep, rows1, rows2

(* No transaction leaves a row without its parent, in whichever order the  *)
(* bundles arrive: a player, gameweek or fixture that goes takes with it   *)
(* what refers to it, or the transaction is refused (delete_bootstrap_     *)
(* dependents, delete_fixture_ids).                                        *)
THEOREM ParentsAlwaysThere == Spec => []NoOrphanRows
<1>1. Init => NoOrphanRows
  BY InitialTablesAssumption DEF Init, NoOrphanRows
<1>2. Typed /\ NoOrphanRows /\ [Next]_vars => NoOrphanRows'
  <2> SUFFICES ASSUME Typed, NoOrphanRows, [Next]_vars PROVE NoOrphanRows'
    OBVIOUS
  <2>1. CASE IngestReference
    <3> PICK b \in BootstrapPayloads, fixtures \in FixturePayloads,
             status \in StatusPayloads, time \in 1..MaxTime :
             PersistReference(b, fixtures, status, time)
      BY <2>1 DEF IngestReference
    <3>1. NoOrphans(AfterBootstrap(b, time))
      BY BootstrapKeepsParents DEF Typed, NoOrphanRows, AfterBootstrap
    <3>2. NoOrphans(AfterFixtures(b, fixtures, time))
      BY <3>1, ReferenceStages, FixturesKeepParents DEF AfterFixtures
    <3>3. NoOrphans(BeforeRemoval(b, fixtures, status, time))
      BY <3>2, ReferenceStages, StatusKeepsParents DEF BeforeRemoval
    <3>4. PICK events, elements :
              /\ EventsRemovable(BeforeRemoval(b, fixtures, status, time), events)
              /\ tables' = RemoveReference(BeforeRemoval(b, fixtures, status, time),
                                           events, elements)
      BY ReferenceStages
    <3>5. NoOrphans(tables')
      BY <3>3, <3>4, ReferenceStages, RemovalKeepsParents
    <3> QED
      BY <3>5 DEF NoOrphanRows
  <2>2. CASE IngestLive
    <3> PICK e \in Events, status \in StatusPayloads, live \in LivePayloads, time \in 1..MaxTime,
             fixtures \in FixturePayloads :
             PersistLive(e, status, fixtures, live, time)
      BY <2>2 DEF IngestLive, CurrentFixturePayloads
    <3>1. NoOrphans(AfterCurrentStatus(e, status, time))
      BY LiveStages, StatusKeepsParents DEF Typed, NoOrphanRows, AfterCurrentStatus
    <3>2. NoOrphans(AfterCurrentFixtures(e, status, fixtures, time))
      BY <3>1, LiveStages, FixturesKeepParents DEF AfterCurrentFixtures
    <3>3. NoOrphans(WriteLive(AfterCurrentFixtures(e, status, fixtures, time), e, live,
                              LiveStep(e, live, time)))
      <4>1. /\ RowsTyped(AfterCurrentFixtures(e, status, fixtures, time))
            /\ LiveStep(e, live, time).written \subseteq {e} \X DOMAIN live
            /\ LiveInsertable(AfterCurrentFixtures(e, status, fixtures, time), live,
                              LiveStep(e, live, time).written)
        BY LiveStages
      <4> QED
        BY <3>2, <4>1, LiveKeepsParents
    <3>4. tables' = WriteLive(AfterCurrentFixtures(e, status, fixtures, time), e, live,
                              LiveStep(e, live, time))
      BY LiveStages
    <3> QED
      BY <3>3, <3>4 DEF NoOrphanRows
  <2>3. CASE Rebaseline \/ UNCHANGED vars
    BY <2>3 DEF Rebaseline, vars, NoOrphanRows
  <2> QED
    BY <2>1, <2>2, <2>3 DEF Next
<1> QED
  BY <1>1, <1>2, TypedInvariant, PTL DEF Spec

-----------------------------------------------------------------------------
(* What only a full fixtures payload may do.                               *)

(* The fixtures payload of a reference bundle is taken exactly when it     *)
(* brings news, and is then recorded.                                      *)
LEMMA FixturesRecorded ==
    ASSUME Typed, NEW b, NEW fixtures, NEW status, NEW time \in 1..MaxTime,
           PersistReference(b, fixtures, status, time)
    PROVE  /\ Accepted(FixturesSource, fixtures, time) <=>
                  FixturesSource \in DOMAIN sources' /\ BringsNews(FixturesSource)
           /\ Accepted(FixturesSource, fixtures, time) =>
                  sources'[FixturesSource] = [hash |-> fixtures, fetchedAt |-> time]
<1>1. PICK payloads :
          /\ FixturesSource \in DOMAIN payloads /\ payloads[FixturesSource] = fixtures
          /\ \A id \in DOMAIN payloads : ~Conflicting(id, payloads[id], time)
          /\ sources' = RecordSources(payloads, time)
  <2> DEFINE payloads == [id \in {BootstrapSource, FixturesSource, StatusSource(b.current)} |->
                             CASE id = BootstrapSource -> b
                               [] id = FixturesSource -> fixtures
                               [] OTHER -> status]
  <2>1. FixturesSource \in DOMAIN payloads /\ payloads[FixturesSource] = fixtures
    BY DEF BootstrapSource, FixturesSource
  <2>2. /\ \A id \in DOMAIN payloads : ~Conflicting(id, payloads[id], time)
        /\ sources' = RecordSources(payloads, time)
    BY DEF PersistReference
  <2> HIDE DEF payloads
  <2> QED
    BY <2>1, <2>2
<1>2. ~Conflicting(FixturesSource, fixtures, time)
  BY <1>1
<1>3. /\ FixturesSource \in DOMAIN sources'
      /\ sources'[FixturesSource] = IF Stale(FixturesSource, time) THEN sources[FixturesSource]
                                    ELSE [hash |-> fixtures, fetchedAt |-> time]
  BY <1>1 DEF RecordSources
<1>4. FixturesSource \in DOMAIN sources => sources[FixturesSource].fetchedAt \in Nat
  BY BoundAssumption DEF Typed, SourcesTyped
<1>5. time \in Nat
  BY BoundAssumption
<1> QED
  BY <1>2, <1>3, <1>4, <1>5 DEF Accepted, BringsNews, Conflicting, Stale

(* No other operation touches that source.                                 *)
LEMMA OthersBringNoFixtures ==
    ASSUME \/ \E e, status, fixtures, live, time : PersistLive(e, status, fixtures, live, time)
           \/ Rebaseline
           \/ UNCHANGED vars
    PROVE  ~(FixturesSource \in DOMAIN sources' /\ BringsNews(FixturesSource))
<1>1. CASE \E e, status, fixtures, live, time : PersistLive(e, status, fixtures, live, time)
  <2> PICK e, status, fixtures, live, time : PersistLive(e, status, fixtures, live, time)
    BY <1>1
  <2>1. PICK payloads :
            /\ DOMAIN payloads = {StatusSource(e), CurrentFixturesSource(e), LiveSource(e)}
            /\ sources' = RecordSources(payloads, time)
    BY DEF PersistLive
  <2>2. FixturesSource \notin DOMAIN payloads
    BY <2>1 DEF FixturesSource, StatusSource, CurrentFixturesSource, LiveSource
  <2> QED
    BY <2>1, <2>2 DEF RecordSources, BringsNews
<1>2. CASE Rebaseline \/ UNCHANGED vars
  BY <1>2 DEF Rebaseline, vars, BringsNews
<1> QED
  BY <1>1, <1>2

(* The fixture rows after a reference bundle.                              *)
LEMMA ReferenceFixtureRows ==
    ASSUME Typed, NEW b \in BootstrapPayloads, NEW fixtures \in FixturePayloads,
           NEW status \in StatusPayloads, NEW time \in 1..MaxTime,
           PersistReference(b, fixtures, status, time)
    PROVE  /\ tables'.fixtures = AfterFixtures(b, fixtures, time).fixtures
           /\ AfterBootstrap(b, time).fixtures = tables.fixtures
           /\ AfterBootstrap(b, time).fixtureStats = tables.fixtureStats
           /\ DOMAIN tables.elements \subseteq DOMAIN AfterFixtures(b, fixtures, time).elements
           /\ \E removed :
                 /\ DOMAIN tables'.elements
                        = DOMAIN AfterFixtures(b, fixtures, time).elements \ removed
                 /\ tables'.fixtureStats = {s \in AfterFixtures(b, fixtures, time).fixtureStats :
                                                s[2] \notin removed}
<1> DEFINE rows1 == AfterBootstrap(b, time)
           rows2 == AfterFixtures(b, fixtures, time)
           rows3 == BeforeRemoval(b, fixtures, status, time)
<1>1. /\ rows1.fixtures = tables.fixtures /\ rows1.fixtureStats = tables.fixtureStats
      /\ rows1.elements = Overwrite(tables.elements, ElementsStep(b, time).written, b.elements)
  BY DEF AfterBootstrap, WriteBootstrap, Typed, RowsTyped, TableNames
<1>2. RowsTyped(rows1) /\ RowsTyped(rows2) /\ RowsTyped(rows3)
  BY ReferenceStages
<1>3. rows2.elements = rows1.elements
  BY <1>2 DEF AfterFixtures, WriteFixtures, RowsTyped, TableNames
<1>4. /\ rows3.fixtures = rows2.fixtures /\ rows3.fixtureStats = rows2.fixtureStats
      /\ rows3.elements = rows2.elements
  BY <1>2 DEF BeforeRemoval, WriteStatus, RowsTyped, TableNames
<1>5. PICK events, elements :
          EventsRemovable(rows3, events) /\ tables' = RemoveReference(rows3, events, elements)
  BY ReferenceStages
<1> HIDE DEF rows1, rows2, rows3
<1>6. /\ tables'.fixtures = rows3.fixtures
      /\ tables'.fixtureStats = {s \in rows3.fixtureStats : s[2] \notin elements}
      /\ DOMAIN tables'.elements = DOMAIN rows3.elements \ elements
  BY <1>2, <1>5 DEF RemoveReference, RemoveDependents, RowsTyped, TableNames, Without, Restrict
<1>7. DOMAIN tables.elements \subseteq DOMAIN rows2.elements
  BY <1>1, <1>3 DEF Overwrite
<1> QED
  BY <1>1, <1>4, <1>6, <1>7 DEF rows1, rows2

(* A live bundle never removes a fixture.                                  *)
LEMMA LiveKeepsFixtures ==
    ASSUME Typed, NEW e \in Events, NEW status \in StatusPayloads,
           NEW fixtures \in FixturePayloads, NEW live \in LivePayloads,
           NEW time \in 1..MaxTime, PersistLive(e, status, fixtures, live, time)
    PROVE  DOMAIN tables.fixtures \subseteq DOMAIN tables'.fixtures
<1> DEFINE rows1 == AfterCurrentStatus(e, status, time)
           rows2 == AfterCurrentFixtures(e, status, fixtures, time)
           step == CurrentFixturesStep(e, fixtures, time)
<1>1. rows1.fixtures = tables.fixtures
  BY DEF AfterCurrentStatus, WriteStatus, Typed, RowsTyped, TableNames
<1>2. /\ RowsTyped(rows1) /\ RowsTyped(rows2)
      /\ step.written \subseteq DOMAIN fixtures
      /\ tables' = WriteLive(rows2, e, live, LiveStep(e, live, time))
  BY LiveStages DEF Steps
<1>3. DOMAIN rows2.fixtures
          = (DOMAIN rows1.fixtures \cup step.written) \ Removed(rows1, fixtures, step, FALSE)
  <2> HIDE DEF rows1, step
  <2> QED
    BY <1>2, FixturesWritten DEF AfterCurrentFixtures, rows1, step
<1> HIDE DEF rows1, rows2, step
<1>4. tables'.fixtures = rows2.fixtures
  BY <1>2 DEF WriteLive, RowsTyped, TableNames
<1> QED
  BY <1>1, <1>3, <1>4 DEF Removed

(* A fixture row goes only when a full fixtures payload without it is      *)
(* accepted: current-gameweek polling, a rebaseline or a bundle that was   *)
(* turned away deletes none (persist_reference_fixture_source,             *)
(* persist_current_fixture_source).                                        *)
THEOREM DeletionNeedsFullFixtures == Spec => OnlyFullFixturesDelete
<1> DEFINE Deletion == \A f \in DOMAIN tables.fixtures \ DOMAIN tables'.fixtures :
                          /\ FixturesSource \in DOMAIN sources'
                          /\ BringsNews(FixturesSource)
                          /\ f \notin DOMAIN sources'[FixturesSource].hash
<1>1. Typed /\ [Next]_vars => [Deletion]_vars
  <2> SUFFICES ASSUME Typed, [Next]_vars PROVE Deletion
    OBVIOUS
  <2>1. CASE IngestReference
    <3> PICK b \in BootstrapPayloads, fixtures \in FixturePayloads,
             status \in StatusPayloads, time \in 1..MaxTime :
             PersistReference(b, fixtures, status, time)
      BY <2>1 DEF IngestReference
    <3> DEFINE merged == WithLiveOwnership(tables, fixtures, time)
               step == FixturesStep(fixtures, time)
               rows1 == AfterBootstrap(b, time)
               removed == Removed(rows1, merged, step, TRUE)
    <3>1. /\ RowsTyped(rows1) /\ DOMAIN merged = DOMAIN fixtures
          /\ Steps("fixtures", merged, FixturesSource, step, TRUE)
      BY ReferenceStages
    <3>2. DOMAIN tables'.fixtures = (DOMAIN tables.fixtures \cup step.written) \ removed
      <4>1. step.written \subseteq DOMAIN merged
        BY <3>1 DEF Steps
      <4>2. DOMAIN AfterFixtures(b, fixtures, time).fixtures
                = (DOMAIN rows1.fixtures \cup step.written) \ removed
        <5>1. AfterFixtures(b, fixtures, time) = WriteFixtures(rows1, merged, step, TRUE)
          BY DEF AfterFixtures
        <5> HIDE DEF merged, step, rows1
        <5>2. DOMAIN WriteFixtures(rows1, merged, step, TRUE).fixtures
                  = (DOMAIN rows1.fixtures \cup step.written) \ Removed(rows1, merged, step, TRUE)
          BY <3>1, <4>1, FixturesWritten
        <5> QED
          BY <5>1, <5>2
      <4>3. /\ tables'.fixtures = AfterFixtures(b, fixtures, time).fixtures
            /\ rows1.fixtures = tables.fixtures
        BY ReferenceFixtureRows
      <4> HIDE DEF removed, step, rows1
      <4> QED
        BY <4>2, <4>3
    <3>3. removed \cap DOMAIN fixtures = {}
      BY <3>1, RemovedAreGone
    <3>4. removed # {} => Accepted(FixturesSource, fixtures, time)
      BY DEF Removed, FixturesStep, OfferedStep, NoStep, DeletedKeys, NoEntities
    <3>5. removed # {} =>
              /\ FixturesSource \in DOMAIN sources' /\ BringsNews(FixturesSource)
              /\ sources'[FixturesSource].hash = fixtures
      <4>1. Accepted(FixturesSource, fixtures, time) =>
                FixturesSource \in DOMAIN sources' /\ BringsNews(FixturesSource)
        BY FixturesRecorded, Zenon
      <4>2. Accepted(FixturesSource, fixtures, time) =>
                sources'[FixturesSource] = [hash |-> fixtures, fetchedAt |-> time]
        BY FixturesRecorded, Zenon
      <4> HIDE DEF removed
      <4> QED
        BY <3>4, <4>1, <4>2
    <3> HIDE DEF removed, step
    <3> QED
      BY <3>2, <3>3, <3>5
  <2>2. CASE IngestLive
    <3> PICK e \in Events, status \in StatusPayloads, live \in LivePayloads, time \in 1..MaxTime,
             fixtures \in FixturePayloads : PersistLive(e, status, fixtures, live, time)
      BY <2>2 DEF IngestLive, CurrentFixturePayloads
    <3> QED
      BY LiveKeepsFixtures
  <2>3. CASE Rebaseline \/ UNCHANGED vars
    BY <2>3 DEF Rebaseline, vars
  <2> QED
    BY <2>1, <2>2, <2>3 DEF Next
<1> QED
  BY <1>1, TypedInvariant, PTL DEF Spec, OnlyFullFixturesDelete

(* What an accepted full fixtures payload leaves of a live-owned fixture.  *)
LEMMA OwnedFixtureKept ==
    ASSUME NEW rows, RowsTyped(rows), NEW fixtures, NEW step, NEW id, NEW time, NEW f,
           rows.fixtures = tables.fixtures, rows.fixtureStats = tables.fixtureStats,
           Steps("fixtures", WithLiveOwnership(tables, fixtures, time), id, step, TRUE),
           LiveOwned(tables, f, time),
           f \in DOMAIN WriteFixtures(rows, WithLiveOwnership(tables, fixtures, time),
                                      step, TRUE).fixtures
    PROVE  LET after == WriteFixtures(rows, WithLiveOwnership(tables, fixtures, time), step, TRUE)
           IN  /\ after.fixtures[f].started
               /\ \A p \in Elements : <<f, p>> \in after.fixtureStats
                                          <=> <<f, p>> \in tables.fixtureStats
<1> DEFINE merged == WithLiveOwnership(tables, fixtures, time)
           after == WriteFixtures(rows, merged, step, TRUE)
           removed == Removed(rows, merged, step, TRUE)
<1>1. step.written \subseteq DOMAIN merged
  BY DEF Steps
<1>2. /\ DOMAIN after.fixtures = (DOMAIN rows.fixtures \cup step.written) \ removed
      /\ \A g \in DOMAIN after.fixtures :
             after.fixtures[g] = IF g \in step.written THEN FixtureRow(merged[g])
                                 ELSE rows.fixtures[g]
      /\ after.fixtureStats
             = {s \in rows.fixtureStats : s[1] \notin step.written \cup removed}
                   \cup {s \in step.written \X Elements : s[2] \in merged[s[1]].stats}
  <2> HIDE DEF merged
  <2>1. PICK authoritative \in BOOLEAN : authoritative = TRUE
    OBVIOUS
  <2>2. /\ after = WriteFixtures(rows, merged, step, authoritative)
        /\ removed = Removed(rows, merged, step, authoritative)
    BY <2>1
  <2> HIDE DEF after, removed
  <2> QED
    BY <1>1, <2>2, FixturesWritten
<1>3. tables.fixtures[f].started = TRUE
  BY DEF LiveOwned, RowsTyped, IsPartial, FixtureRowType
<1>4. f \in DOMAIN merged => /\ merged[f].started = tables.fixtures[f].started
                             /\ merged[f].stats = StoredStats(tables, f)
  <2> SUFFICES ASSUME f \in DOMAIN fixtures
               PROVE  /\ merged[f].started = tables.fixtures[f].started
                      /\ merged[f].stats = StoredStats(tables, f)
    BY DEF WithLiveOwnership
  <2>1. merged[f] = [fixtures[f] EXCEPT !.started = tables.fixtures[f].started,
                                        !.stats = StoredStats(tables, f)]
    BY DEF WithLiveOwnership
  <2> QED
    BY <2>1
<1> HIDE DEF after, removed, merged
<1>5. f \notin removed /\ f \in DOMAIN after.fixtures
  BY <1>2 DEF after, merged
<1>6. after.fixtures[f].started = TRUE
  <2>1. CASE f \in step.written
    <3>1. after.fixtures[f] = FixtureRow(merged[f]) /\ f \in DOMAIN merged
      BY <2>1, <1>1, <1>2, <1>5
    <3> QED
      BY <1>3, <1>4, <3>1 DEF FixtureRow
  <2>2. CASE f \notin step.written
    <3>1. after.fixtures[f] = rows.fixtures[f]
      BY <2>2, <1>2, <1>5
    <3> QED
      BY <1>3, <3>1
  <2> QED
    BY <2>1, <2>2
<1>7. ASSUME NEW p \in Elements
      PROVE  <<f, p>> \in after.fixtureStats <=> <<f, p>> \in tables.fixtureStats
  <2>1. CASE f \in step.written
    BY <2>1, <1>1, <1>2, <1>4 DEF StoredStats
  <2>2. CASE f \notin step.written
    BY <2>2, <1>2, <1>5
  <2> QED
    BY <2>1, <2>2
<1> QED
  BY <1>6, <1>7 DEF after, merged

(* A reference bundle, however old, neither stops a live-owned fixture nor *)
(* changes the goals and assists polling has stored for players the season *)
(* still has (fixtures_with_live_ownership).                               *)
THEOREM LiveFixturesOwned == Spec => LiveFixturesProtected
<1>1. Typed /\ NoOrphanRows /\ [Next]_vars => [ReferenceKeepsLiveFixtures]_vars
  <2> SUFFICES ASSUME Typed, NoOrphanRows, [Next]_vars PROVE ReferenceKeepsLiveFixtures
    OBVIOUS
  <2>1. CASE IngestReference
    <3> PICK b \in BootstrapPayloads, fixtures \in FixturePayloads,
             status \in StatusPayloads, time \in 1..MaxTime :
             PersistReference(b, fixtures, status, time)
      BY <2>1 DEF IngestReference
    <3> SUFFICES ASSUME FixturesSource \in DOMAIN sources', BringsNews(FixturesSource),
                        NEW f \in DOMAIN tables.fixtures, f \in DOMAIN tables'.fixtures,
                        LiveOwned(tables, f, sources'[FixturesSource].fetchedAt)
                 PROVE  KeepsDynamicFields(f)
      BY DEF ReferenceKeepsLiveFixtures
    <3> DEFINE rows1 == AfterBootstrap(b, time)
               after == AfterFixtures(b, fixtures, time)
               step == FixturesStep(fixtures, time)
    <3>1. sources'[FixturesSource].fetchedAt = time
      <4>1. Accepted(FixturesSource, fixtures, time)
        BY FixturesRecorded, Zenon
      <4>2. sources'[FixturesSource] = [hash |-> fixtures, fetchedAt |-> time]
        BY <4>1, FixturesRecorded, Zenon
      <4> QED
        BY <4>2
    <3>2. LiveOwned(tables, f, time)
      BY <3>1
    <3>3. /\ tables'.fixtures = after.fixtures
          /\ rows1.fixtures = tables.fixtures /\ rows1.fixtureStats = tables.fixtureStats
          /\ DOMAIN tables.elements \subseteq DOMAIN after.elements
      BY ReferenceFixtureRows
    <3>4. PICK removed : /\ DOMAIN tables'.elements = DOMAIN after.elements \ removed
                         /\ tables'.fixtureStats = {s \in after.fixtureStats : s[2] \notin removed}
      BY ReferenceFixtureRows
    <3>5. /\ RowsTyped(rows1)
          /\ Steps("fixtures", WithLiveOwnership(tables, fixtures, time), FixturesSource, step, TRUE)
      BY ReferenceStages
    <3>6. /\ after.fixtures[f].started
          /\ \A p \in Elements : <<f, p>> \in after.fixtureStats
                                     <=> <<f, p>> \in tables.fixtureStats
      <4>1. after = WriteFixtures(rows1, WithLiveOwnership(tables, fixtures, time), step, TRUE)
        BY DEF AfterFixtures
      <4> HIDE DEF after, rows1, step
      <4>2. f \in DOMAIN after.fixtures
        BY <3>3
      <4> QED
        BY <3>2, <3>3, <3>5, <4>1, <4>2, OwnedFixtureKept
    <3> HIDE DEF after, rows1, step
    <3>7. StoredStats(tables, f) \subseteq DOMAIN after.elements
      BY <3>3 DEF StoredStats, NoOrphanRows, NoOrphans
    <3>8. StoredStats(tables', f) = StoredStats(tables, f) \cap DOMAIN (tables'.elements)
      BY <3>4, <3>6, <3>7 DEF StoredStats
    <3> QED
      BY <3>3, <3>6, <3>8 DEF KeepsDynamicFields
  <2>2. CASE IngestLive
    BY <2>2, OthersBringNoFixtures DEF IngestLive, ReferenceKeepsLiveFixtures
  <2>3. CASE Rebaseline \/ UNCHANGED vars
    BY <2>3, OthersBringNoFixtures DEF ReferenceKeepsLiveFixtures
  <2> QED
    BY <2>1, <2>2, <2>3 DEF Next
<1> QED
  BY <1>1, TypedInvariant, ParentsAlwaysThere, PTL DEF Spec, LiveFixturesProtected

-----------------------------------------------------------------------------
(* Snapshots and rows of a database that began with them.                  *)

FixturesCovered(rows, known) ==
    /\ DOMAIN known = DOMAIN rows.fixtures
    /\ \A f \in DOMAIN rows.fixtures :
           /\ rows.fixtures[f] = FixtureRow(known[f])
           /\ StoredStats(rows, f) \subseteq known[f].stats

StatusCovered(rows, known) ==
    rows.status # Null =>
        /\ "status" \in DOMAIN known
        /\ rows.status = known["status"].leagues
        /\ rows.statusDays \subseteq known["status"].days

Explains(rows, l) == {f \in Fixtures : <<l[1], l[2], f>> \in rows.explainStats}

LiveCovered(rows, known) ==
    \A l \in rows.liveElements : l \in DOMAIN known /\ Explains(rows, l) \subseteq known[l]

Covered ==
    /\ snapshots["events"] = tables.events /\ snapshots["elements"] = tables.elements
    /\ FixturesCovered(tables, snapshots["fixtures"])
    /\ StatusCovered(tables, snapshots["event_status"])
    /\ LiveCovered(tables, snapshots["event_live"])

LEMMA CoveredMeansCovered == Typed /\ Covered => SnapshotsCoverRows
<1> SUFFICES ASSUME Typed, Covered PROVE SnapshotsCoverRows
  OBVIOUS
<1> DEFINE rebuilt == RebuiltSnapshots(tables)
<1>1. rebuilt["events"] = tables.events /\ rebuilt["elements"] = tables.elements
  BY DEF RebuiltSnapshots, Families
<1>2. rebuilt["event_live"] = [l \in tables.liveElements |-> Explains(tables, l)]
  BY DEF RebuiltSnapshots, Families, Explains
<1> HIDE DEF rebuilt
<1>3. \A l \in tables.liveElements : /\ l \in DOMAIN snapshots["event_live"]
                                     /\ rebuilt["event_live"][l] \subseteq snapshots["event_live"][l]
  BY <1>2 DEF Covered, LiveCovered
<1>4. \A family \in {"events", "elements"} : snapshots[family] = rebuilt[family]
  BY <1>1 DEF Covered
<1> QED
  BY <1>3, <1>4 DEF Covered, FixturesCovered, StatusCovered, SnapshotsCoverRows, rebuilt

(* A step that is offered a payload covers the fixtures it writes; what it *)
(* removes from the rows it removes from the snapshots.                    *)
LEMMA FixturesStayCovered ==
    ASSUME NEW rows, RowsTyped(rows), NEW fixtures, NEW id, NEW step,
           NEW authoritative \in BOOLEAN,
           Steps("fixtures", fixtures, id, step, authoritative),
           FixturesCovered(rows, snapshots["fixtures"])
    PROVE  FixturesCovered(WriteFixtures(rows, fixtures, step, authoritative), step.snapshot)
<1> DEFINE after == WriteFixtures(rows, fixtures, step, authoritative)
           removed == Removed(rows, fixtures, step, authoritative)
           known == snapshots["fixtures"]
<1>1. step.written \subseteq DOMAIN fixtures
  BY DEF Steps
<1>2. /\ DOMAIN after.fixtures = (DOMAIN rows.fixtures \cup step.written) \ removed
      /\ \A f \in DOMAIN after.fixtures :
             after.fixtures[f] = IF f \in step.written THEN FixtureRow(fixtures[f])
                                 ELSE rows.fixtures[f]
      /\ after.fixtureStats
             = {s \in rows.fixtureStats : s[1] \notin step.written \cup removed}
                   \cup {s \in step.written \X Elements : s[2] \in fixtures[s[1]].stats}
  BY <1>1, FixturesWritten
<1>3. Previous("fixtures", id) = known
  BY DEF Previous
<1>4. removed = IF authoritative THEN DeletedKeys(step.changes) ELSE {}
  <2>1. step.baseline => DOMAIN known = {} /\ DeletedKeys(step.changes) = {}
    BY <1>3 DEF Steps, NoEntities
  <2>2. step.baseline => DOMAIN rows.fixtures = {}
    BY <2>1 DEF FixturesCovered
  <2> QED
    BY <2>1, <2>2 DEF Removed
<1>5. /\ DOMAIN step.snapshot = (DOMAIN known \ removed) \cup step.written
      /\ \A f \in step.written : step.snapshot[f] = fixtures[f]
      /\ \A f \in DOMAIN step.snapshot \ step.written : step.snapshot[f] = known[f]
  BY <1>4 DEF Steps
<1>6. removed \cap step.written = {}
  BY <1>1, RemovedAreGone
<1> HIDE DEF after, removed, known
<1>7. DOMAIN step.snapshot = DOMAIN after.fixtures
  BY <1>2, <1>5, <1>6 DEF FixturesCovered, known
<1>8. ASSUME NEW f \in DOMAIN after.fixtures
      PROVE  /\ after.fixtures[f] = FixtureRow(step.snapshot[f])
             /\ StoredStats(after, f) \subseteq step.snapshot[f].stats
  <2>1. CASE f \in step.written
    <3>1. after.fixtures[f] = FixtureRow(fixtures[f]) /\ step.snapshot[f] = fixtures[f]
      BY <2>1, <1>2, <1>5
    <3>2. StoredStats(after, f) \subseteq fixtures[f].stats
      BY <2>1, <1>2 DEF StoredStats
    <3> QED
      BY <3>1, <3>2
  <2>2. CASE f \notin step.written
    <3>1. /\ f \in DOMAIN rows.fixtures
          /\ after.fixtures[f] = rows.fixtures[f] /\ step.snapshot[f] = known[f]
      BY <2>2, <1>2, <1>5, <1>7
    <3>2. StoredStats(after, f) \subseteq StoredStats(rows, f)
      BY <2>2, <1>2 DEF StoredStats
    <3>3. rows.fixtures[f] = FixtureRow(known[f]) /\ StoredStats(rows, f) \subseteq known[f].stats
      BY <3>1 DEF FixturesCovered, known
    <3> QED
      BY <3>1, <3>2, <3>3
  <2> QED
    BY <2>1, <2>2
<1>9. FixturesCovered(after, step.snapshot)
  BY <1>7, <1>8 DEF FixturesCovered
<1> QED
  BY <1>9 DEF after

LEMMA StatusStaysCovered ==
    ASSUME NEW rows, RowsTyped(rows), NEW status, NEW id, NEW step,
           Steps("event_status", StatusSnapshot(status), id, step, TRUE),
           DOMAIN snapshots["event_status"] \subseteq {"status"},
           StatusCovered(rows, snapshots["event_status"])
    PROVE  StatusCovered(WriteStatus(rows, status, step), step.snapshot)
<1> DEFINE known == snapshots["event_status"]
           after == WriteStatus(rows, status, step)
<1>1. DOMAIN StatusSnapshot(status) = {"status"} /\ StatusSnapshot(status)["status"] = status
  BY DEF StatusSnapshot
<1>2. Previous("event_status", id) = known
  BY DEF Previous
<1>3. step.written \subseteq {"status"} /\ DeletedKeys(step.changes) = {}
  BY <1>1, <1>2 DEF Steps
<1>4. CASE step.written = {}
  <2>1. after = rows
    BY <1>4 DEF WriteStatus
  <2>2. /\ DOMAIN step.snapshot = DOMAIN known
        /\ \A key \in DOMAIN known : step.snapshot[key] = known[key]
    BY <1>3, <1>4 DEF Steps
  <2> HIDE DEF after
  <2>3. StatusCovered(after, step.snapshot)
    BY <2>1, <2>2 DEF StatusCovered
  <2> QED
    BY <2>3 DEF after
<1>5. CASE step.written = {"status"}
  <2>1. after.status = status.leagues /\ after.statusDays = status.days
    BY <1>5 DEF WriteStatus, RowsTyped, TableNames
  <2>2. "status" \in DOMAIN step.snapshot /\ step.snapshot["status"] = status
    BY <1>1, <1>5 DEF Steps
  <2> HIDE DEF after
  <2>3. StatusCovered(after, step.snapshot)
    BY <2>1, <2>2 DEF StatusCovered
  <2> QED
    BY <2>3 DEF after
<1> QED
  BY <1>3, <1>4, <1>5

LEMMA LiveStaysCovered ==
    ASSUME NEW rows, RowsTyped(rows), NEW e \in Events, NEW live \in LivePayloads, NEW step,
           Steps("event_live", LiveSnapshots(e, live), LiveSource(e), step, TRUE),
           step.written \subseteq {e} \X DOMAIN live,
           LiveCovered(rows, snapshots["event_live"])
    PROVE  LiveCovered(WriteLive(rows, e, live, step), step.snapshot)
<1> DEFINE known == snapshots["event_live"]
           after == WriteLive(rows, e, live, step)
           deleted == DeletedKeys(step.changes)
           written == {key[2] : key \in step.written}
           removed == IF step.baseline
                      THEN {p \in Elements : <<e, p>> \in rows.liveElements} \ DOMAIN live
                      ELSE {key[2] : key \in deleted}
<1>1. /\ after.liveElements = (rows.liveElements \ ({e} \X removed)) \cup ({e} \X written)
      /\ after.explainStats
             = {x \in rows.explainStats : ~(x[1] = e /\ x[2] \in written \cup removed)}
                   \cup {x \in {e} \X written \X Fixtures : x[3] \in live[x[2]]}
  BY DEF WriteLive, RowsTyped, TableNames
<1>2. \A key \in deleted : key \in DOMAIN known /\ key[1] = e
  BY DEF Steps, Previous, Restrict, LiveSource
<1>3. \A p : p \in written <=> <<e, p>> \in step.written
  OBVIOUS
<1>4. \A l \in rows.liveElements : l \in Events \X Elements
  BY DEF RowsTyped
<1>5. \A l \in rows.liveElements : l \in deleted => l \in {e} \X removed
  <2>1. step.baseline => deleted = {}
    BY DEF Steps
  <2> QED
    BY <2>1, <1>2, <1>4
<1>6. /\ DOMAIN step.snapshot = (DOMAIN known \ deleted) \cup step.written
      /\ \A key \in step.written : step.snapshot[key] = LiveSnapshots(e, live)[key]
      /\ \A key \in DOMAIN step.snapshot \ step.written : step.snapshot[key] = known[key]
  BY DEF Steps
<1>7. \A key \in step.written : LiveSnapshots(e, live)[key] = live[key[2]]
  BY DEF LiveSnapshots
<1> HIDE DEF known, after, deleted, written, removed
<1>8. ASSUME NEW l \in after.liveElements
      PROVE  l \in DOMAIN step.snapshot /\ Explains(after, l) \subseteq step.snapshot[l]
  <2>1. CASE l \in {e} \X written
    <3>1. l = <<e, l[2]>> /\ l[2] \in written /\ l \in step.written
      BY <2>1, <1>3
    <3>2. Explains(after, l) \subseteq live[l[2]]
      BY <3>1, <1>1 DEF Explains
    <3>3. step.snapshot[l] = live[l[2]]
      BY <3>1, <1>6, <1>7
    <3> QED
      BY <3>1, <3>2, <3>3, <1>6
  <2>2. CASE l \notin {e} \X written
    <3>1. l \in rows.liveElements /\ l \notin {e} \X removed
      BY <2>2, <1>1
    <3>2. l \notin step.written
      BY <2>2, <3>1, <1>3, <1>4
    <3>3. l \in DOMAIN known /\ Explains(rows, l) \subseteq known[l]
      BY <3>1 DEF LiveCovered, known
    <3>4. l \in DOMAIN step.snapshot /\ step.snapshot[l] = known[l]
      BY <3>1, <3>2, <3>3, <1>5, <1>6
    <3>5. Explains(after, l) \subseteq Explains(rows, l)
      BY <2>2, <3>1, <1>1, <1>4 DEF Explains
    <3> QED
      BY <3>3, <3>4, <3>5
  <2> QED
    BY <2>1, <2>2
<1>9. LiveCovered(after, step.snapshot)
  BY <1>8 DEF LiveCovered
<1> QED
  BY <1>9 DEF after

(* Rows may go from under their snapshots.                                 *)
LEMMA FewerStayCovered ==
    ASSUME NEW rows, NEW fewer, NEW known,
           fewer.liveElements \subseteq rows.liveElements,
           fewer.explainStats \subseteq rows.explainStats,
           LiveCovered(rows, known)
    PROVE  LiveCovered(fewer, known)
BY DEF LiveCovered, Explains

LEMMA ReferenceStaysCovered ==
    ASSUME Typed, Covered, NEW b \in BootstrapPayloads, NEW fixtures \in FixturePayloads,
           NEW status \in StatusPayloads, NEW time \in 1..MaxTime,
           PersistReference(b, fixtures, status, time), ReferenceAgrees'
    PROVE  Covered'
<1> DEFINE merged == WithLiveOwnership(tables, fixtures, time)
           step == FixturesStep(fixtures, time)
           statusStep == StatusStep(b.current, status, time)
           rows1 == AfterBootstrap(b, time)
           rows2 == AfterFixtures(b, fixtures, time)
           rows3 == BeforeRemoval(b, fixtures, status, time)
<1>1. /\ Steps("fixtures", merged, FixturesSource, step, TRUE)
      /\ Steps("event_status", StatusSnapshot(status), StatusSource(b.current), statusStep, TRUE)
      /\ RowsTyped(rows1) /\ RowsTyped(rows2) /\ RowsTyped(rows3)
      /\ snapshots'["fixtures"] = step.snapshot
      /\ snapshots'["event_status"] = statusStep.snapshot
      /\ snapshots'["event_live"] = snapshots["event_live"]
  BY ReferenceStages
<1>2. PICK events, elements :
          EventsRemovable(rows3, events) /\ tables' = RemoveReference(rows3, events, elements)
  BY ReferenceStages
<1>3. /\ rows1.fixtures = tables.fixtures /\ rows1.fixtureStats = tables.fixtureStats
      /\ rows1.status = tables.status /\ rows1.statusDays = tables.statusDays
      /\ rows1.liveElements = tables.liveElements /\ rows1.explainStats = tables.explainStats
  BY DEF AfterBootstrap, WriteBootstrap, Typed, RowsTyped, TableNames
<1>4. /\ rows2.status = rows1.status /\ rows2.statusDays = rows1.statusDays
      /\ rows2.liveElements = rows1.liveElements
      /\ rows2.explainStats \subseteq rows1.explainStats
  BY <1>1 DEF AfterFixtures, WriteFixtures, RowsTyped, TableNames
<1>5. /\ rows3.fixtures = rows2.fixtures /\ rows3.fixtureStats = rows2.fixtureStats
      /\ rows3.liveElements = rows2.liveElements /\ rows3.explainStats = rows2.explainStats
  BY <1>1 DEF BeforeRemoval, WriteStatus, RowsTyped, TableNames
<1>6. FixturesCovered(rows2, step.snapshot)
  <2>1. FixturesCovered(rows1, snapshots["fixtures"])
    BY <1>3 DEF Covered, FixturesCovered, StoredStats
  <2> HIDE DEF merged, step, rows1
  <2> QED
    BY <1>1, <2>1, FixturesStayCovered DEF AfterFixtures, merged, step, rows1
<1>7. StatusCovered(rows3, statusStep.snapshot)
  <2>1. StatusCovered(rows2, snapshots["event_status"])
    BY <1>3, <1>4 DEF Covered, StatusCovered
  <2>2. DOMAIN snapshots["event_status"] \subseteq {"status"}
    BY DEF Typed, SnapshotsTyped, IsPartial
  <2> HIDE DEF statusStep, rows2
  <2> QED
    BY <1>1, <2>1, <2>2, StatusStaysCovered DEF BeforeRemoval, statusStep, rows2
<1> HIDE DEF merged, step, statusStep, rows1, rows2, rows3
<1>8. /\ tables'.fixtures = rows3.fixtures
      /\ tables'.fixtureStats \subseteq rows3.fixtureStats
      /\ tables'.status = rows3.status /\ tables'.statusDays \subseteq rows3.statusDays
      /\ tables'.liveElements \subseteq rows3.liveElements
      /\ tables'.explainStats \subseteq rows3.explainStats
  BY <1>1, <1>2 DEF RemoveReference, RemoveDependents, RowsTyped, TableNames
<1>9. FixturesCovered(tables', snapshots'["fixtures"])
  BY <1>1, <1>5, <1>6, <1>8 DEF FixturesCovered, StoredStats
<1>10. StatusCovered(tables', snapshots'["event_status"])
  BY <1>1, <1>7, <1>8 DEF StatusCovered
<1>11. LiveCovered(tables', snapshots'["event_live"])
  <2>1. LiveCovered(tables, snapshots["event_live"])
    BY DEF Covered
  <2>2. /\ tables'.liveElements \subseteq tables.liveElements
        /\ tables'.explainStats \subseteq tables.explainStats
    BY <1>3, <1>4, <1>5, <1>8
  <2> QED
    BY <1>1, <2>1, <2>2, FewerStayCovered
<1>12. snapshots'["events"] = tables'.events /\ snapshots'["elements"] = tables'.elements
  <2>1. PICK payloads : /\ BootstrapSource \in DOMAIN payloads
                        /\ sources' = RecordSources(payloads, time)
    BY DEF PersistReference
  <2>2. BootstrapSource \in DOMAIN sources'
    BY <2>1 DEF RecordSources
  <2> QED
    BY <2>2 DEF ReferenceAgrees, ComparedWithRows
<1> QED
  BY <1>9, <1>10, <1>11, <1>12 DEF Covered

LEMMA PollingStaysCovered ==
    ASSUME Typed, Covered, NEW e \in Events, NEW status \in StatusPayloads,
           NEW fixtures \in FixturePayloads, NEW live \in LivePayloads,
           NEW time \in 1..MaxTime, PersistLive(e, status, fixtures, live, time)
    PROVE  Covered'
<1> DEFINE step == CurrentFixturesStep(e, fixtures, time)
           statusStep == StatusStep(e, status, time)
           liveStep == LiveStep(e, live, time)
           rows1 == AfterCurrentStatus(e, status, time)
           rows2 == AfterCurrentFixtures(e, status, fixtures, time)
<1>1. /\ Steps("fixtures", fixtures, CurrentFixturesSource(e), step, FALSE)
      /\ Steps("event_status", StatusSnapshot(status), StatusSource(e), statusStep, TRUE)
      /\ Steps("event_live", LiveSnapshots(e, live), LiveSource(e), liveStep, TRUE)
      /\ liveStep.written \subseteq {e} \X DOMAIN live
      /\ RowsTyped(rows1) /\ RowsTyped(rows2)
      /\ tables' = WriteLive(rows2, e, live, liveStep)
  BY LiveStages
<1>2. /\ snapshots'["events"] = snapshots["events"]
      /\ snapshots'["elements"] = snapshots["elements"]
      /\ snapshots'["fixtures"] = step.snapshot
      /\ snapshots'["event_status"] = statusStep.snapshot
      /\ snapshots'["event_live"] = liveStep.snapshot
  BY LiveStages
<1>3. /\ rows1.fixtures = tables.fixtures /\ rows1.fixtureStats = tables.fixtureStats
      /\ rows1.liveElements = tables.liveElements /\ rows1.explainStats = tables.explainStats
      /\ rows1.events = tables.events /\ rows1.elements = tables.elements
  BY DEF AfterCurrentStatus, WriteStatus, Typed, RowsTyped, TableNames
<1>4. /\ rows2.status = rows1.status /\ rows2.statusDays = rows1.statusDays
      /\ rows2.liveElements = rows1.liveElements
      /\ rows2.explainStats \subseteq rows1.explainStats
      /\ rows2.events = rows1.events /\ rows2.elements = rows1.elements
  BY <1>1 DEF AfterCurrentFixtures, WriteFixtures, RowsTyped, TableNames
<1>5. StatusCovered(rows1, statusStep.snapshot)
  <2>1. RowsTyped(tables) /\ StatusCovered(tables, snapshots["event_status"])
    BY DEF Typed, Covered
  <2>2. DOMAIN snapshots["event_status"] \subseteq {"status"}
    BY DEF Typed, SnapshotsTyped, IsPartial
  <2> HIDE DEF statusStep
  <2> QED
    BY <1>1, <2>1, <2>2, StatusStaysCovered DEF AfterCurrentStatus, statusStep
<1>6. FixturesCovered(rows2, step.snapshot)
  <2>1. FixturesCovered(rows1, snapshots["fixtures"])
    BY <1>3 DEF Covered, FixturesCovered, StoredStats
  <2> HIDE DEF step, rows1
  <2> QED
    BY <1>1, <2>1, FixturesStayCovered DEF AfterCurrentFixtures, step, rows1
<1>7. LiveCovered(WriteLive(rows2, e, live, liveStep), liveStep.snapshot)
  <2>1. LiveCovered(rows2, snapshots["event_live"])
    BY <1>3, <1>4, FewerStayCovered DEF Covered
  <2> HIDE DEF liveStep, rows2
  <2> QED
    BY <1>1, <2>1, LiveStaysCovered
<1> HIDE DEF step, statusStep, liveStep, rows1, rows2
<1>8. /\ tables'.fixtures = rows2.fixtures /\ tables'.fixtureStats = rows2.fixtureStats
      /\ tables'.status = rows2.status /\ tables'.statusDays = rows2.statusDays
      /\ tables'.events = rows2.events /\ tables'.elements = rows2.elements
  BY <1>1 DEF WriteLive, RowsTyped, TableNames
<1>9. FixturesCovered(tables', snapshots'["fixtures"])
  BY <1>2, <1>6, <1>8 DEF FixturesCovered, StoredStats
<1>10. StatusCovered(tables', snapshots'["event_status"])
  BY <1>2, <1>4, <1>5, <1>8 DEF StatusCovered
<1>11. LiveCovered(tables', snapshots'["event_live"])
  BY <1>1, <1>2, <1>7
<1>12. snapshots'["events"] = tables'.events /\ snapshots'["elements"] = tables'.elements
  BY <1>2, <1>3, <1>4, <1>8 DEF Covered
<1> QED
  BY <1>9, <1>10, <1>11, <1>12 DEF Covered

LEMMA RebuiltIsCovered ==
    ASSUME Typed, Rebaseline
    PROVE  Covered'
<1> DEFINE rebuilt == RebuiltSnapshots(tables)
<1>1. tables' = tables /\ snapshots' = rebuilt
  BY DEF Rebaseline
<1>2. rebuilt["events"] = tables.events /\ rebuilt["elements"] = tables.elements
  BY DEF RebuiltSnapshots, Families
<1>3. FixturesCovered(tables, rebuilt["fixtures"])
  <2>1. rebuilt["fixtures"] = [f \in DOMAIN tables.fixtures |->
                                  [event |-> tables.fixtures[f].event,
                                   kickoff |-> tables.fixtures[f].kickoff,
                                   started |-> tables.fixtures[f].started,
                                   stats |-> StoredStats(tables, f)]]
    BY DEF RebuiltSnapshots, Families
  <2>2. \A f \in DOMAIN tables.fixtures : tables.fixtures[f] \in FixtureRowType
    BY DEF Typed, RowsTyped, IsPartial
  <2> HIDE DEF rebuilt
  <2> QED
    BY <2>1, <2>2 DEF FixturesCovered, FixtureRow, FixtureRowType
<1>4. StatusCovered(tables, rebuilt["event_status"])
  <2> SUFFICES ASSUME tables.status # Null
               PROVE  StatusCovered(tables, rebuilt["event_status"])
    BY DEF StatusCovered
  <2>1. rebuilt["event_status"]
            = StatusSnapshot([leagues |-> tables.status, days |-> tables.statusDays])
    BY DEF RebuiltSnapshots, Families
  <2> HIDE DEF rebuilt
  <2> QED
    BY <2>1 DEF StatusCovered, StatusSnapshot
<1>5. LiveCovered(tables, rebuilt["event_live"])
  <2>1. rebuilt["event_live"] = [l \in tables.liveElements |-> Explains(tables, l)]
    BY DEF RebuiltSnapshots, Families, Explains
  <2> HIDE DEF rebuilt
  <2> QED
    BY <2>1 DEF LiveCovered
<1> HIDE DEF rebuilt
<1> QED
  BY <1>1, <1>2, <1>3, <1>4, <1>5 DEF Covered

(* In a database that began empty the snapshots a client diffs against     *)
(* describe the rows it reads, whatever is delivered, in whatever order,   *)
(* and after a rebaseline too.  (Rows from before the snapshot tables have *)
(* no snapshots until a source is first seen.)                             *)
THEOREM SnapshotsDescribeRows == Spec /\ tables = EmptyTables => []SnapshotsCoverRows
<1>1. Init /\ tables = EmptyTables => Covered
  BY DEF Init, EmptyTables, NoEntities, Families, Covered, FixturesCovered, StatusCovered,
         LiveCovered
<1>2. Init => ReferenceAgrees
  BY DEF Init, NoEntities, ReferenceAgrees, ComparedWithRows, Families
<1>3. Typed /\ ReferenceAgrees /\ [Next]_vars => ReferenceAgrees'
  BY ReferenceStaysAgreed
<1>4. Typed /\ Covered /\ ReferenceAgrees' /\ [Next]_vars => Covered'
  <2> SUFFICES ASSUME Typed, Covered, ReferenceAgrees', [Next]_vars PROVE Covered'
    OBVIOUS
  <2>1. CASE IngestReference
    BY <2>1, ReferenceStaysCovered DEF IngestReference
  <2>2. CASE IngestLive
    BY <2>2, PollingStaysCovered DEF IngestLive, CurrentFixturePayloads
  <2>3. CASE Rebaseline
    BY <2>3, RebuiltIsCovered
  <2>4. CASE UNCHANGED vars
    BY <2>4 DEF vars, Covered
  <2> QED
    BY <2>1, <2>2, <2>3, <2>4 DEF Next
<1> QED
  BY <1>1, <1>2, <1>3, <1>4, TypedInvariant, CoveredMeansCovered, PTL DEF Spec

-----------------------------------------------------------------------------
(* What changes no row.                                                    *)

(* The step of a family whose payload was turned away.                     *)
Idle(step) == ~step.baseline /\ step.changes = NoEntities /\ step.written = {}

LEMMA TurnedAwayIsIdle ==
    ASSUME NEW family, NEW current, NEW id, NEW payload, NEW time, NEW authoritative,
           ~Accepted(id, payload, time)
    PROVE  Idle(OfferedStep(family, current, id, payload, time, authoritative))
BY DEF OfferedStep, NoStep, Idle

LEMMA NothingRemoved ==
    ASSUME NEW rows, IsFamily(rows), NEW current
    PROVE  Overwrite(rows, {}, current) = rows /\ Without(rows, {}) = rows
BY DEF Overwrite, Without, Restrict, IsFamily

LEMMA NoneDeleted == DeletedKeys(NoEntities) = {}
BY DEF DeletedKeys, NoEntities

LEMMA RowsAreFamilies ==
    ASSUME NEW rows, RowsTyped(rows)
    PROVE  /\ rows = [name \in TableNames |-> rows[name]]
           /\ IsFamily(rows.events) /\ IsFamily(rows.elements) /\ IsFamily(rows.fixtures)
BY DEF RowsTyped, IsPartial, IsFamily

LEMMA IdleBootstrap ==
    ASSUME NEW rows, RowsTyped(rows), NEW b, NEW events, NEW elements,
           Idle(events), Idle(elements)
    PROVE  /\ WriteBootstrap(rows, b, events, elements) = rows
           /\ RemovedEvents(rows, b, events, elements) = {}
           /\ RemovedElements(rows, b, events, elements) = {}
<1>1. /\ Overwrite(rows.events, events.written, EventSnapshots(b)) = rows.events
      /\ Overwrite(rows.elements, elements.written, b.elements) = rows.elements
  BY RowsAreFamilies, NothingRemoved DEF Idle
<1>2. WriteBootstrap(rows, b, events, elements) = rows
  BY <1>1, RowsAreFamilies DEF WriteBootstrap, TableNames
<1>3. /\ RemovedEvents(rows, b, events, elements) = {}
      /\ RemovedElements(rows, b, events, elements) = {}
  BY NoneDeleted DEF Idle, RemovedEvents, RemovedElements
<1> QED
  BY <1>2, <1>3

LEMMA IdleFixtures ==
    ASSUME NEW rows, RowsTyped(rows), NEW fixtures, NEW step, NEW authoritative \in BOOLEAN,
           Idle(step)
    PROVE  WriteFixtures(rows, fixtures, step, authoritative) = rows
<1> DEFINE fixtureRows == [f \in DOMAIN fixtures |-> FixtureRow(fixtures[f])]
<1>1. Without(Overwrite(rows.fixtures, {}, fixtureRows), {}) = rows.fixtures
  <2> HIDE DEF fixtureRows
  <2> QED
    BY RowsAreFamilies, NothingRemoved
<1>2. WriteFixtures(rows, fixtures, step, authoritative)
          = [rows EXCEPT
                !.fixtures = Without(Overwrite(rows.fixtures, {}, fixtureRows), {}),
                !.fixtureStats =
                    {s \in rows.fixtureStats : s[1] \notin {}}
                        \cup {s \in {} \X Elements : s[2] \in fixtures[s[1]].stats},
                !.explainStats = {x \in rows.explainStats : x[3] \notin {}}]
  BY NoneDeleted DEF WriteFixtures, Idle
<1> HIDE DEF fixtureRows
<1>3. /\ {s \in rows.fixtureStats : s[1] \notin {}}
             \cup {s \in {} \X Elements : s[2] \in fixtures[s[1]].stats} = rows.fixtureStats
      /\ {x \in rows.explainStats : x[3] \notin {}} = rows.explainStats
  OBVIOUS
<1> QED
  BY <1>1, <1>2, <1>3, RowsAreFamilies DEF TableNames

LEMMA IdleStatus ==
    ASSUME NEW rows, NEW status, NEW step, Idle(step)
    PROVE  WriteStatus(rows, status, step) = rows
BY DEF WriteStatus, Idle

LEMMA IdleLive ==
    ASSUME NEW rows, RowsTyped(rows), NEW e, NEW live, NEW step, Idle(step)
    PROVE  WriteLive(rows, e, live, step) = rows
<1>1. {key[2] : key \in step.written} = {} /\ {key[2] : key \in DeletedKeys(step.changes)} = {}
  BY NoneDeleted DEF Idle
<1>2. WriteLive(rows, e, live, step)
          = [rows EXCEPT
                !.liveElements = (rows.liveElements \ ({e} \X {})) \cup ({e} \X {}),
                !.explainStats =
                    {x \in rows.explainStats : ~(x[1] = e /\ x[2] \in {} \cup {})}
                        \cup {x \in {e} \X {} \X Fixtures : x[3] \in live[x[2]]}]
  BY <1>1 DEF WriteLive, Idle
<1>3. /\ (rows.liveElements \ ({e} \X {})) \cup ({e} \X {}) = rows.liveElements
      /\ {x \in rows.explainStats : ~(x[1] = e /\ x[2] \in {} \cup {})}
             \cup {x \in {e} \X {} \X Fixtures : x[3] \in live[x[2]]} = rows.explainStats
  OBVIOUS
<1> QED
  BY <1>2, <1>3, RowsAreFamilies DEF TableNames

LEMMA IdleRemoval ==
    ASSUME NEW rows, RowsTyped(rows)
    PROVE  RemoveReference(rows, {}, {}) = rows
<1> DEFINE cleared == RemoveDependents(rows, {}, {})
<1>1. cleared = rows
  BY RowsAreFamilies DEF RemoveDependents, TableNames
<1>2. RemoveReference(rows, {}, {})
          = [cleared EXCEPT !.events = Without(cleared.events, {}),
                            !.elements = Without(cleared.elements, {})]
  BY DEF RemoveReference
<1> HIDE DEF cleared
<1>3. Without(rows.events, {}) = rows.events /\ Without(rows.elements, {}) = rows.elements
  BY RowsAreFamilies, NothingRemoved
<1> QED
  BY <1>1, <1>2, <1>3, RowsAreFamilies DEF TableNames

(* An accepted payload is recorded, and is news.                           *)
LEMMA AcceptedIsNews ==
    ASSUME Typed, NEW payloads, NEW time \in 1..MaxTime, NEW id \in DOMAIN payloads,
           ~Conflicting(id, payloads[id], time), sources' = RecordSources(payloads, time),
           Accepted(id, payloads[id], time)
    PROVE  id \in DOMAIN sources' /\ BringsNews(id)
<1>1. id \in DOMAIN sources'
  BY DEF RecordSources
<1>2. CASE id \notin DOMAIN sources
  BY <1>1, <1>2 DEF BringsNews
<1>3. CASE id \in DOMAIN sources
  <2>1. sources[id].fetchedAt \in Nat /\ time \in Nat
    BY <1>3, BoundAssumption DEF Typed, SourcesTyped
  <2>2. time > sources[id].fetchedAt /\ payloads[id] # sources[id].hash
    BY <1>3, <2>1 DEF Accepted, Conflicting
  <2>3. sources'[id] = [hash |-> payloads[id], fetchedAt |-> time]
    BY <2>1, <2>2 DEF RecordSources, Stale
  <2> QED
    BY <1>1, <2>2, <2>3 DEF BringsNews
<1> QED
  BY <1>2, <1>3

LEMMA ReferenceNeedsNews ==
    ASSUME Typed, NEW b \in BootstrapPayloads, NEW fixtures \in FixturePayloads,
           NEW status \in StatusPayloads, NEW time \in 1..MaxTime,
           PersistReference(b, fixtures, status, time),
           \A id \in DOMAIN sources' : ~BringsNews(id)
    PROVE  tables' = tables
<1>1. /\ ~Accepted(BootstrapSource, b, time) /\ ~Accepted(FixturesSource, fixtures, time)
      /\ ~Accepted(StatusSource(b.current), status, time)
  <2> DEFINE payloads == [id \in {BootstrapSource, FixturesSource, StatusSource(b.current)} |->
                             CASE id = BootstrapSource -> b
                               [] id = FixturesSource -> fixtures
                               [] OTHER -> status]
  <2>1. /\ {BootstrapSource, FixturesSource, StatusSource(b.current)} \subseteq DOMAIN payloads
        /\ payloads[BootstrapSource] = b /\ payloads[FixturesSource] = fixtures
        /\ payloads[StatusSource(b.current)] = status
    BY DEF BootstrapSource, FixturesSource, StatusSource
  <2>2. /\ \A id \in DOMAIN payloads : ~Conflicting(id, payloads[id], time)
        /\ sources' = RecordSources(payloads, time)
    BY DEF PersistReference
  <2> HIDE DEF payloads
  <2>3. \A id \in DOMAIN payloads : ~Accepted(id, payloads[id], time)
    BY <2>2, AcceptedIsNews
  <2> QED
    BY <2>1, <2>3
<1>2. /\ Idle(EventsStep(b, time)) /\ Idle(ElementsStep(b, time))
      /\ Idle(FixturesStep(fixtures, time)) /\ Idle(StatusStep(b.current, status, time))
  BY <1>1, TurnedAwayIsIdle DEF EventsStep, ElementsStep, FixturesStep, StatusStep
<1>3. RowsTyped(tables)
  BY DEF Typed
<1>4. AfterBootstrap(b, time) = tables
  BY <1>2, <1>3, IdleBootstrap DEF AfterBootstrap
<1>5. AfterFixtures(b, fixtures, time) = tables
  BY <1>2, <1>3, <1>4, IdleFixtures DEF AfterFixtures
<1>6. BeforeRemoval(b, fixtures, status, time) = tables
  BY <1>2, <1>5, IdleStatus DEF BeforeRemoval
<1>7. tables' = RemoveReference(BeforeRemoval(b, fixtures, status, time),
                    RemovedEvents(BeforeRemoval(b, fixtures, status, time), b,
                                  EventsStep(b, time), ElementsStep(b, time)),
                    RemovedElements(BeforeRemoval(b, fixtures, status, time), b,
                                    EventsStep(b, time), ElementsStep(b, time)))
  BY DEF PersistReference, EventsStep, ElementsStep, FixturesStep, StatusStep,
         AfterBootstrap, AfterFixtures, BeforeRemoval
<1>8. /\ RemovedEvents(tables, b, EventsStep(b, time), ElementsStep(b, time)) = {}
      /\ RemovedElements(tables, b, EventsStep(b, time), ElementsStep(b, time)) = {}
  BY <1>2, <1>3, IdleBootstrap
<1> QED
  BY <1>3, <1>6, <1>7, <1>8, IdleRemoval

LEMMA PollingNeedsNews ==
    ASSUME Typed, NEW e \in Events, NEW status \in StatusPayloads,
           NEW fixtures \in FixturePayloads, NEW live \in LivePayloads,
           NEW time \in 1..MaxTime, PersistLive(e, status, fixtures, live, time),
           \A id \in DOMAIN sources' : ~BringsNews(id)
    PROVE  tables' = tables
<1>1. /\ ~Accepted(StatusSource(e), status, time)
      /\ ~Accepted(CurrentFixturesSource(e), fixtures, time)
      /\ ~Accepted(LiveSource(e), live, time)
  <2> DEFINE payloads == [id \in {StatusSource(e), CurrentFixturesSource(e), LiveSource(e)} |->
                             CASE id = StatusSource(e) -> status
                               [] id = CurrentFixturesSource(e) -> fixtures
                               [] OTHER -> live]
  <2>1. /\ {StatusSource(e), CurrentFixturesSource(e), LiveSource(e)} \subseteq DOMAIN payloads
        /\ payloads[StatusSource(e)] = status /\ payloads[CurrentFixturesSource(e)] = fixtures
        /\ payloads[LiveSource(e)] = live
    BY DEF StatusSource, CurrentFixturesSource, LiveSource
  <2>2. /\ \A id \in DOMAIN payloads : ~Conflicting(id, payloads[id], time)
        /\ sources' = RecordSources(payloads, time)
    BY DEF PersistLive
  <2> HIDE DEF payloads
  <2>3. \A id \in DOMAIN payloads : ~Accepted(id, payloads[id], time)
    BY <2>2, AcceptedIsNews
  <2> QED
    BY <2>1, <2>3
<1>2. /\ Idle(StatusStep(e, status, time)) /\ Idle(CurrentFixturesStep(e, fixtures, time))
      /\ Idle(LiveStep(e, live, time))
  BY <1>1, TurnedAwayIsIdle DEF StatusStep, CurrentFixturesStep, LiveStep
<1>3. RowsTyped(tables)
  BY DEF Typed
<1>4. AfterCurrentStatus(e, status, time) = tables
  BY <1>2, IdleStatus DEF AfterCurrentStatus
<1>5. AfterCurrentFixtures(e, status, fixtures, time) = tables
  BY <1>2, <1>3, <1>4, IdleFixtures DEF AfterCurrentFixtures
<1>6. tables' = WriteLive(AfterCurrentFixtures(e, status, fixtures, time), e, live,
                          LiveStep(e, live, time))
  BY LiveStages
<1> QED
  BY <1>2, <1>3, <1>5, <1>6, IdleLive

(* A bundle that is delivered again, or after a newer one, writes no row:  *)
(* rows change only when one of its sources brings something different     *)
(* that was fetched later (compare_source).                                *)
THEOREM RowsNeedNews == Spec => WritesNeedNews
<1>1. Typed /\ [Next]_vars => [tables' # tables => \E id \in DOMAIN sources' : BringsNews(id)]_vars
  <2> SUFFICES ASSUME Typed, [Next]_vars, \A id \in DOMAIN sources' : ~BringsNews(id)
               PROVE  tables' = tables
    OBVIOUS
  <2>1. CASE IngestReference
    BY <2>1, ReferenceNeedsNews DEF IngestReference
  <2>2. CASE IngestLive
    BY <2>2, PollingNeedsNews DEF IngestLive, CurrentFixturePayloads
  <2>3. CASE Rebaseline \/ UNCHANGED vars
    BY <2>3 DEF Rebaseline, vars
  <2> QED
    BY <2>1, <2>2, <2>3 DEF Next
<1> QED
  BY <1>1, TypedInvariant, PTL DEF Spec, WritesNeedNews

=============================================================================
