--------------------------- MODULE MCIngestStore ---------------------------
(* Small upstreams for TLC: each run lets FPL vary part of its answers.    *)
EXTENDS IngestStore, TLC

CONSTANTS e1, e2, p1, p2, f1, f2

(* A season from its first bundle: a player joins and leaves while fixture *)
(* statistics and live points refer to him, and a fixture moves, starts    *)
(* and disappears.                                                         *)
SeasonBootstrap ==
    {[events |-> {e1}, current |-> e1, elements |-> p1 :> "a"],
     [events |-> {e1}, current |-> e1, elements |-> p1 :> "b" @@ p2 :> "a"]}

SeasonFixtures ==
    {NoEntities,
     f1 :> [event |-> e1, kickoff |-> 1, started |-> FALSE, stats |-> {}],
     f1 :> [event |-> e1, kickoff |-> 2, started |-> TRUE, stats |-> {p2}]}

SeasonLive == {NoEntities, p1 :> {} @@ p2 :> {f1}}

OneStatus == {[leagues |-> "Updated", days |-> {}]}

NewDatabase == {EmptyTables}

(* Rows left by an older schema, among them a gameweek, a player, a        *)
(* fixture and live points that upstream may no longer report.             *)
LegacyTables ==
    [EmptyTables EXCEPT
        !.events = e1 :> TRUE @@ e2 :> FALSE,
        !.status = "Updating", !.statusDays = {e1, e2}, !.elements = p1 :> "a" @@ p2 :> "a",
        !.fixtures = f1 :> [event |-> e1, kickoff |-> 1, started |-> TRUE]
                       @@ f2 :> [event |-> e1, kickoff |-> 1, started |-> FALSE],
        !.fixtureStats = {<<f1, p2>>},
        !.liveElements = {<<e1, p2>>},
        !.explainStats = {<<e1, p2, f1>>}]

LegacyDatabase == {LegacyTables}

(* The second gameweek is withdrawn or becomes the current one.            *)
LegacyBootstrap ==
    {[events |-> {e1}, current |-> e1, elements |-> p1 :> "a"],
     [events |-> {e1, e2}, current |-> e2, elements |-> p1 :> "b" @@ p2 :> "a"]}

LegacyFixtures ==
    {f2 :> [event |-> e1, kickoff |-> 1, started |-> TRUE, stats |-> {p1}],
     f1 :> [event |-> e1, kickoff |-> 1, started |-> TRUE, stats |-> {p1}]
       @@ f2 :> [event |-> e1, kickoff |-> 1, started |-> TRUE, stats |-> {p1}]}

LegacyStatus ==
    {[leagues |-> "Updating", days |-> {e1}], [leagues |-> "Updated", days |-> {e2}]}

LegacyLive == {p1 :> {}, p1 :> {} @@ p2 :> {f1}}
=============================================================================
