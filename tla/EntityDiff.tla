----------------------------- MODULE EntityDiff -----------------------------
(***************************************************************************)
(* The pure diff engine of domain/changes.py and what persist_snapshot_    *)
(* diffs (postgres/database.py) does with its result.                      *)
(*                                                                         *)
(* A family of canonical snapshots is a function from entity keys to data. *)
(* The top-level fields of one entity are abstracted to one datum: a       *)
(* change holds the whole datum before and after, which is what the list   *)
(* of FieldChange records of a created, updated or deleted entity adds up  *)
(* to.  A duplicate key, on which snapshots_by_key raises, cannot be       *)
(* written as a function: such a payload has no counterpart here.          *)
(***************************************************************************)
CONSTANT Absent      \* the value of a side that is not present

(* A family in which no entity is known. *)
NoEntities == [key \in {} |-> Absent]

(* The datum of a key, with absence told apart from any JSON value. *)
Datum(family, key) == IF key \in DOMAIN family THEN family[key] ELSE Absent

(* The keys diff_entity_snapshots reports.  A key missing from the current *)
(* payload counts only when the payload is authoritative; a baseline is    *)
(* silent.                                                                 *)
ChangedKeys(previous, current, authoritative, baseline) ==
    {key \in DOMAIN previous \cup DOMAIN current :
        /\ ~baseline
        /\ Datum(previous, key) # Datum(current, key)
        /\ key \in DOMAIN current \/ authoritative}

(* diff_entity_snapshots: one change per reported key. *)
Diff(previous, current, authoritative, baseline) ==
    [key \in ChangedKeys(previous, current, authoritative, baseline) |->
        [before |-> Datum(previous, key), after |-> Datum(current, key)]]

DeletedKeys(changes) == {key \in DOMAIN changes : changes[key].after = Absent}

(* entity_keys_to_upsert: every current key of a baseline, otherwise the   *)
(* created and updated ones.                                               *)
KeysToUpsert(changes, current, baseline) ==
    IF baseline THEN DOMAIN current ELSE DOMAIN changes \ DeletedKeys(changes)

(* The snapshot table after persist_snapshot_diffs: the selected keys are  *)
(* upserted, and an authoritative source removes what it reported deleted. *)
Synchronize(stored, current, changes, authoritative, baseline) ==
    LET written == KeysToUpsert(changes, current, baseline)
        removed == IF authoritative THEN DeletedKeys(changes) ELSE {}
    IN  [key \in (DOMAIN stored \ removed) \cup written |->
            IF key \in written THEN current[key] ELSE stored[key]]

(* What a consumer of the feed does with one family event: install the     *)
(* after side of every change, forget the deleted keys.                    *)
Replay(stored, changes) ==
    [key \in (DOMAIN stored \ DeletedKeys(changes))
                 \cup (DOMAIN changes \ DeletedKeys(changes)) |->
        IF key \in DOMAIN changes THEN changes[key].after ELSE stored[key]]
=============================================================================
