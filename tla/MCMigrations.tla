---------------------------- MODULE MCMigrations ----------------------------
EXTENDS Migrations

CONSTANTS new, old, ingestion

TheKeys == {"history", "v1", "v2", "days", "points", "day", "other"}

(* Version 1 creates a table; version 2 adds a column, fills it and        *)
(* forbids it to be empty.                                                 *)
TheBodies ==
    << <<[sql |-> "create", key |-> "days", value |-> 1]>>,
       <<[sql |-> "create", key |-> "points", value |-> 1],
         [sql |-> "put", key |-> "day", value |-> 1],
         [sql |-> "alter", key |-> "day", value |-> 1]>> >>

TheRows == <<"v1", "v2">>
Releases == (new :> 2) @@ (old :> 1)

TheData == {[sql |-> "put", key |-> "day", value |-> 2],
            [sql |-> "insert", key |-> "other", value |-> 1]}

TheStatements ==
    {EnsureTable} \cup TheData \cup {Insert(v) : v \in Versions}
        \cup UNION {ToSet(TheBodies[v]) : v \in Versions}
=============================================================================
