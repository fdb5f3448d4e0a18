------------------------------ MODULE Migrations ------------------------------
(***************************************************************************)
(* Schema migrations over the Data API (postgres/migrations.py), applied   *)
(* by operators at the same time, while an ingestion writes to the same    *)
(* database.  The history is read first; then every pending migration is   *)
(* one transaction that ends with its row of the history.                  *)
(***************************************************************************)
EXTENDS DataApiSession

CONSTANTS
    Appliers, Writers,
    Bodies,          \* the statements of every migration, in order
    Known,           \* how many of them the release of an applier has
    HistoryTable,    \* relay_schema_migrations
    VersionOf,       \* the history row of a version
    DataStatements,  \* what an ingestion may write
    MaxWrites,       \* bound: statements of an ingestion's transaction
    MaxTransactions  \* bound: transactions of an ingestion

Versions == DOMAIN Bodies

Insert(v) == [sql |-> "insert", key |-> VersionOf[v], value |-> 1]
EnsureTable == [sql |-> "put", key |-> HistoryTable, value |-> 1]

ASSUME MigrationAssumption ==
    /\ Clients = Appliers \cup Writers
    /\ Appliers \cap Writers = {}
    /\ Bodies \in Seq(Seq(Statements))
    /\ \A v \in Versions : VersionOf[v] \in Keys /\ Insert(v) \in Statements
    /\ \A u, v \in Versions : VersionOf[u] = VersionOf[v] => u = v
    /\ EnsureTable \in Statements /\ DataStatements \subseteq Statements
    /\ \A c \in Appliers : Known[c] \in Versions

(* Only its migration writes the row of a version: no other statement of a *)
(* migration or of an ingestion does.                                      *)
ASSUME HistoryAssumption ==
    \A v \in Versions :
       /\ VersionOf[v] # HistoryTable
       /\ \A st \in DataStatements : st.key # VersionOf[v]
       /\ \A u \in Versions : \A i \in DOMAIN Bodies[u] : Bodies[u][i].key # VersionOf[v]

VARIABLES
    apply,   \* what each applier is doing
    writer   \* statements and transactions an ingestion has left

vars == <<session, apply, writer>>

Heard(c, outcome) == Free(c) /\ told[c] = outcome

Continue(c, r) == apply' = [apply EXCEPT ![c] = r] /\ UNCHANGED writer

Stopped == [pc |-> "stopped"]

(* fpl-relay database apply-schema, again after it was stopped.            *)
Apply(c) ==
    /\ apply[c] = Stopped
    /\ Execute(c, EnsureTable)
    /\ Continue(c, [pc |-> "ensure"])

(* The command ends with an error.                                         *)
GiveUp(c) ==
    /\ apply[c].pc \notin {"stopped", "done"}
    /\ Heard(c, "failed")
    /\ Continue(c, Stopped)
    /\ UNCHANGED session

ReadHistory(c) ==
    /\ apply[c].pc = "ensure" /\ Heard(c, "committed")
    /\ Fetch(c)
    /\ Continue(c, [pc |-> "plan"])

Applied(rows) == {v \in Versions : rows[VersionOf[v]] # 0}

(* Mutant: a history that was cut short is refused.                        *)
WholeHistory(c) == Applied(answer[c]) \in {{}, 1..Known[c]}

(* validate_migration_history: known versions, a prefix of them.  (Names   *)
(* and checksums are those of the version.)                                *)
ValidHistory(c) == \E n \in 0..Known[c] : Applied(answer[c]) = 1..n

Plan(c) ==
    /\ apply[c].pc = "plan" /\ Heard(c, "committed")
    /\ Continue(c, IF ValidHistory(c)
                   THEN [pc |-> "next", todo |-> 1..Known[c] \ Applied(answer[c])]
                   ELSE Stopped)
    /\ UNCHANGED session

(* Mutant: the statements of a migration are not one transaction.          *)
OpenNothing(c) ==
    /\ apply[c].pc = "next" /\ Heard(c, "committed")
    /\ apply[c].todo # {}
    /\ Continue(c, [pc |-> "body", todo |-> apply[c].todo,
                    statements |-> Append(Bodies[Min(apply[c].todo)], Insert(Min(apply[c].todo)))])
    /\ UNCHANGED session

Open(c) ==
    /\ apply[c].pc = "next" /\ Heard(c, "committed")
    /\ apply[c].todo # {}
    /\ Begin(c)
    /\ LET v == Min(apply[c].todo)
       IN  Continue(c, [pc |-> "body", todo |-> apply[c].todo,
                        statements |-> Append(Bodies[v], Insert(v))])

RunStatement(c) ==
    /\ apply[c].pc = "body" /\ Free(c) /\ told[c] # "failed"
    /\ apply[c].statements # <<>>
    /\ Execute(c, Head(apply[c].statements))
    /\ Continue(c, [apply[c] EXCEPT !.statements = Tail(@)])

CommitMigration(c) ==
    /\ apply[c].pc = "body" /\ Free(c) /\ told[c] # "failed"
    /\ apply[c].statements = <<>>
    /\ Commit(c)
    /\ Continue(c, [pc |-> "next", todo |-> apply[c].todo \ {Min(apply[c].todo)}])

(* check_schema_version: the newest row is the version of this release.    *)
CheckVersion(c) ==
    /\ apply[c].pc = "next" /\ Heard(c, "committed")
    /\ apply[c].todo = {}
    /\ Fetch(c)
    /\ Continue(c, [pc |-> "check"])

Finish(c) ==
    /\ apply[c].pc = "check" /\ Heard(c, "committed")
    /\ Continue(c, IF Max(Applied(answer[c])) = Known[c] THEN [pc |-> "done"] ELSE Stopped)
    /\ UNCHANGED session

ApplierStep(c) ==
    \/ Apply(c) \/ GiveUp(c) \/ ReadHistory(c) \/ Plan(c) \/ Open(c)
    \/ RunStatement(c) \/ CommitMigration(c) \/ CheckVersion(c) \/ Finish(c)

-----------------------------------------------------------------------------
(* An ingestion: any transaction of a few writes and reads.                *)

WriterLeaves(c, statements, transactions) ==
    /\ writer' = [writer EXCEPT ![c] = [statements |-> statements, transactions |-> transactions]]
    /\ UNCHANGED apply

BeginWriting(c) ==
    /\ writer[c].transactions > 0
    /\ Begin(c)
    /\ WriterLeaves(c, MaxWrites, writer[c].transactions - 1)

Write(c) ==
    /\ connection[c].active
    /\ writer[c].statements > 0
    /\ \E st \in DataStatements : Execute(c, st)
    /\ WriterLeaves(c, writer[c].statements - 1, writer[c].transactions)

Look(c) ==
    /\ connection[c].active /\ connection[c].queue # <<>>
    /\ Fetch(c)
    /\ UNCHANGED <<apply, writer>>

EndWriting(c) ==
    /\ Commit(c) \/ Abandon(c)
    /\ UNCHANGED <<apply, writer>>

WriterStep(c) == BeginWriting(c) \/ Write(c) \/ Look(c) \/ EndWriting(c)

Init ==
    /\ SessionInit
    /\ apply = [c \in Appliers |-> Stopped]
    /\ writer = [c \in Writers |-> [statements |-> 0, transactions |-> MaxTransactions]]

Network == \E c \in Clients : Reply(c) \/ Lost(c) \/ Cancelled(c) \/ Vanish(c)

Next ==
    \/ \E c \in Appliers : ApplierStep(c)
    \/ \E c \in Writers : WriterStep(c)
    \/ (Network \/ Expire) /\ UNCHANGED <<apply, writer>>

Spec == Init /\ [][Next]_vars

(* Calls are answered, abandoned transactions expire, an ingestion ends    *)
(* its transaction, and a command that failed is given again.              *)
Fairness ==
    /\ \A c \in Clients : WF_vars(Reply(c) /\ UNCHANGED <<apply, writer>>)
    /\ WF_vars(Expire /\ UNCHANGED <<apply, writer>>)
    /\ \A c \in Appliers : WF_vars(ApplierStep(c))
    /\ \A c \in Writers : WF_vars(EndWriting(c))

FairSpec == Spec /\ Fairness

-----------------------------------------------------------------------------
(* Connections, server transactions and statements are well-formed.        *)
TypeOK ==
    /\ db \in [Keys -> 0..MaxValue]
    /\ \A c \in Clients :
         /\ server[c].open => DOMAIN server[c].effects \subseteq Keys
         /\ connection[c].queue \in Seq(Statements)
         /\ Len(connection[c].queue) < BatchSize
         /\ connection[c].active => server[c].open
         /\ told[c] \in {"nothing", "committed", "failed"}
    /\ faults \in 0..MaxFaults

(* What is a version's own: one of its statements creates it, and no other *)
(* statement writes it.  (Version 2 drops and creates a table of version 1.) *)
Objects(v) ==
    {k \in Keys \ {HistoryTable} :
        /\ \E i \in DOMAIN Bodies[v] :
              /\ Bodies[v][i].sql = "create" /\ Bodies[v][i].key = k
              /\ \A u \in Versions : \A j \in Writes(Bodies[u], k) : u = v /\ j = i
        /\ \A st \in DataStatements : st.key # k}

(* The history tells the truth at every moment: its rows are a prefix of   *)
(* the versions, the objects of an applied version exist and those of the  *)
(* others do not, whatever was lost, cancelled or applied by another.      *)
HistoryIsTrue ==
    /\ \E n \in 0..Len(Bodies) : Applied(db) = 1..n
    /\ \A v \in Versions : \A k \in Objects(v) : (db[k] # 0) <=> (v \in Applied(db))

(* However commands collide and fail, the schema arrives at the newest     *)
(* version that an applier knows.                                          *)
MigrationsComplete == <>[](Applied(db) = Versions)
=============================================================================
