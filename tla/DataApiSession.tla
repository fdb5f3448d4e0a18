---------------------------- MODULE DataApiSession ----------------------------
(***************************************************************************)
(* The connection that rds_data.py builds from calls of the Data API.      *)
(* Inside a transaction consecutive writes with the same SQL are queued    *)
(* and sent as one batch; everything else sends the queue first.  A method *)
(* of a connection is a sequence of calls, and other clients run between   *)
(* two of them.  Each call may be lost, or done while its reply is lost;   *)
(* the SDK's own retry may then repeat it.                                 *)
(***************************************************************************)
EXTENDS Integers, Sequences, SequencesExt

CONSTANTS
    Clients,
    Keys,        \* rows and schema objects
    MaxValue,    \* a row's value is in 1..MaxValue, 0 stands for no row
    Statements,  \* records: sql, key, value
    BatchSize,   \* BATCH_SIZE
    MaxFaults    \* bound: lost calls and replies

ASSUME SessionAssumption ==
    /\ BatchSize \in Nat \ {0} /\ MaxFaults \in Nat /\ MaxValue \in Nat \ {0}
    /\ \A st \in Statements : st.key \in Keys /\ st.value \in 1..MaxValue

VARIABLES
    db,          \* what is committed
    server,      \* the transaction the server holds open for a client
    orphans,     \* the locks of transactions whose client is gone
    connection,  \* RdsDataConnection and the calls its method has yet to make
    answer,      \* what a client's fetch returned
    told,        \* what a client was told of its last transaction
    faults

session == <<db, server, orphans, connection, answer, told, faults>>

-----------------------------------------------------------------------------
(* The server.                                                             *)

NoTxn == [open |-> FALSE]

Over(effects, rows) == [k \in Keys |-> IF k \in DOMAIN effects THEN effects[k] ELSE rows[k]]

(* An insert or CREATE needs the key to be free; ALTER ... SET NOT NULL    *)
(* needs the value to be there.                                            *)
Accepted(effects, st) ==
    CASE st.sql \in {"insert", "create"} -> Over(effects, db)[st.key] = 0
      [] st.sql = "alter" -> Over(effects, db)[st.key] # 0
      [] OTHER -> TRUE

(* The statements that write a key; ALTER changes no value.                *)
Writes(statements, k) ==
    {i \in DOMAIN statements : statements[i].sql # "alter" /\ statements[i].key = k}

Written(statements) ==
    {statements[i].key : i \in {j \in DOMAIN statements : statements[j].sql # "alter"}}

(* The last statement that writes a key counts.                            *)
Value(statements, k) ==
    LET st == statements[Max(Writes(statements, k))]
    IN  IF st.sql = "delete" THEN 0 ELSE st.value

After(effects, statements) ==
    LET written == Written(statements)
    IN  [k \in DOMAIN effects \cup written |->
           IF k \in written THEN Value(statements, k) ELSE effects[k]]

(* The statements of one call, up to the first that is refused.            *)
Ran(effects, statements) ==
    LET refused == {i \in DOMAIN statements :
                      ~Accepted(After(effects, SubSeq(statements, 1, i - 1)), statements[i])}
        done == IF refused = {} THEN statements ELSE SubSeq(statements, 1, Min(refused) - 1)
    IN  [ok |-> refused = {}, effects |-> After(effects, done)]

(* A row or object that another open transaction has written is locked.    *)
Locked(c, statements) ==
    \E st \in ToSet(statements) :
        \/ \E d \in Clients \ {c} : server[d].open /\ st.key \in DOMAIN server[d].effects
        \/ \E locks \in orphans : st.key \in locks

(* The server ends a transaction that nobody continues.                    *)
Expire ==
    /\ orphans # {}
    /\ \E locks \in orphans : orphans' = orphans \ {locks}
    /\ UNCHANGED <<db, server, connection, answer, told, faults>>

-----------------------------------------------------------------------------
(* RdsDataConnection.  A method replaces what is left to call.             *)

NoConnection == [active |-> FALSE, queue |-> <<>>, calls |-> <<>>]

Free(c) == connection[c].calls = <<>>

Call(op, statements) == [op |-> op, statements |-> statements]

Flush(queue) == IF queue = <<>> THEN <<>> ELSE <<Call("execute", queue)>>

Start(c, conn) ==
    /\ Free(c)
    /\ connection' = [connection EXCEPT ![c] = conn]
    /\ answer' = [answer EXCEPT ![c] = <<>>]
    /\ UNCHANGED <<db, server, orphans, told, faults>>

Begin(c) ==
    /\ ~connection[c].active
    /\ Start(c, [NoConnection EXCEPT !.calls = <<Call("begin", <<>>)>>])

ShouldBatch(st) == st.sql \in {"insert", "put", "delete"}

(* execute: queued while the SQL is the same and the batch is not full.    *)
Execute(c, st) ==
    LET conn == connection[c]
        same == conn.queue = <<>> \/ Head(conn.queue).sql = st.sql
        queue == IF same THEN Append(conn.queue, st) ELSE <<st>>
        sent == IF same THEN <<>> ELSE Flush(conn.queue)
    IN  Start(c,
          IF ~conn.active \/ ~ShouldBatch(st)
          THEN [conn EXCEPT !.queue = <<>>,
                            !.calls = Flush(conn.queue) \o <<Call("execute", <<st>>)>>]
          ELSE IF Len(queue) = BatchSize
          THEN [conn EXCEPT !.queue = <<>>, !.calls = sent \o Flush(queue)]
          ELSE [conn EXCEPT !.queue = queue, !.calls = sent])

(* Mutant: a read does not send the queue.                                 *)
FetchBeforeFlush(c) ==
    Start(c, [connection[c] EXCEPT !.calls = <<Call("fetch", <<>>)>>])

Fetch(c) ==
    LET conn == connection[c]
    IN  Start(c, [conn EXCEPT !.queue = <<>>,
                              !.calls = Flush(conn.queue) \o <<Call("fetch", <<>>)>>])

Commit(c) ==
    LET conn == connection[c]
    IN  /\ conn.active
        /\ Start(c, [conn EXCEPT !.queue = <<>>,
                                 !.calls = Flush(conn.queue) \o <<Call("commit", <<>>)>>])

(* Rolling back forgets the queue and the transaction before it calls.     *)
RolledBack == [NoConnection EXCEPT !.calls = <<Call("rollback", <<>>)>>]

(* The body of the transaction raises.                                     *)
Abandon(c) ==
    /\ connection[c].active /\ Free(c)
    /\ connection' = [connection EXCEPT ![c] = RolledBack]
    /\ told' = [told EXCEPT ![c] = "failed"]
    /\ UNCHANGED <<db, server, orphans, answer, faults>>

(* A call raises: the transaction that is still active is rolled back when *)
(* the transaction or the connection is left, whichever knows of it.       *)
Raise(c, active) ==
    /\ connection' = [connection EXCEPT ![c] = IF active THEN RolledBack ELSE NoConnection]
    /\ told' = [told EXCEPT ![c] = "failed"]

Return(c, active) ==
    connection' = [connection EXCEPT ![c].active = active, ![c].calls = Tail(@)]

Orphaned(c) ==
    orphans' = IF server[c].open /\ server[c].effects # <<>>
               THEN orphans \cup {DOMAIN server[c].effects} ELSE orphans

Close(c) == server' = [server EXCEPT ![c] = NoTxn]

(* The call does not reach the server.  What a begin, commit or rollback   *)
(* leaves open there stays until it expires.                               *)
Lost(c) ==
    LET call == Head(connection[c].calls)
        active == connection[c].active /\ call.op # "commit"
    IN  /\ ~Free(c)
        /\ faults > 0 /\ faults' = faults - 1
        /\ Raise(c, active)
        /\ IF active THEN UNCHANGED <<server, orphans>> ELSE Orphaned(c) /\ Close(c)
        /\ UNCHANGED <<db, answer>>

Opened(c) ==
    /\ Head(connection[c].calls).op = "begin"
    /\ server' = [server EXCEPT ![c] = [open |-> TRUE, effects |-> <<>>]]
    /\ Return(c, TRUE)
    /\ told' = [told EXCEPT ![c] = "nothing"]
    /\ UNCHANGED <<db, orphans, answer, faults>>

(* The server runs the statements of a call, twice when the SDK repeats    *)
(* it, and answers, refuses or is not heard.  Without a transaction they   *)
(* are committed.                                                          *)
Executed(c) ==
    LET conn == connection[c]
        call == Head(conn.calls)
    IN  /\ call.op = "execute"
        /\ ~Locked(c, call.statements)
        /\ \E runs \in {1, 2}, heard \in BOOLEAN :
             LET r == Ran(IF conn.active THEN server[c].effects ELSE <<>>,
                          IF runs = 1 THEN call.statements ELSE call.statements \o call.statements)
                 first == Ran(<<>>, call.statements)
                 kept == IF conn.active THEN r.ok ELSE first.ok
             IN  /\ IF runs = 1 /\ heard THEN UNCHANGED faults
                    ELSE faults > 0 /\ faults' = faults - 1
                 /\ IF conn.active
                    THEN server' = [server EXCEPT ![c].effects = r.effects] /\ UNCHANGED db
                    ELSE /\ db' = IF first.ok THEN Over(first.effects, db) ELSE db
                         /\ UNCHANGED server
                 /\ IF r.ok /\ heard
                    THEN /\ Return(c, conn.active)
                         /\ told' = IF conn.active THEN told ELSE [told EXCEPT ![c] = "committed"]
                    ELSE Raise(c, conn.active)
        /\ UNCHANGED <<orphans, answer>>

Fetched(c) ==
    /\ Head(connection[c].calls).op = "fetch"
    /\ answer' = [answer EXCEPT ![c] =
                    IF server[c].open THEN Over(server[c].effects, db) ELSE db]
    /\ Return(c, connection[c].active)
    /\ UNCHANGED <<db, server, orphans, told, faults>>

(* A commit is done once; its repetition by the SDK finds no transaction.  *)
Committed(c) ==
    /\ Head(connection[c].calls).op = "commit"
    /\ db' = Over(server[c].effects, db)
    /\ Close(c)
    /\ \/ /\ Return(c, FALSE)
          /\ told' = [told EXCEPT ![c] = "committed"]
          /\ UNCHANGED faults
       \/ /\ faults > 0 /\ faults' = faults - 1
          /\ Raise(c, FALSE)
    /\ UNCHANGED <<orphans, answer>>

Discarded(c) ==
    /\ Head(connection[c].calls).op = "rollback"
    /\ Close(c)
    /\ Return(c, FALSE)
    /\ UNCHANGED <<db, orphans, answer, told, faults>>

Reply(c) ==
    /\ ~Free(c)
    /\ Opened(c) \/ Executed(c) \/ Fetched(c) \/ Committed(c) \/ Discarded(c)

(* A call that waits for a lock is cancelled by the server.                *)
Cancelled(c) ==
    /\ ~Free(c)
    /\ Head(connection[c].calls).op = "execute"
    /\ Locked(c, Head(connection[c].calls).statements)
    /\ Raise(c, connection[c].active)
    /\ UNCHANGED <<db, server, orphans, answer, faults>>

(* The process of the client ends.                                         *)
Vanish(c) ==
    /\ connection[c] # NoConnection
    /\ faults > 0 /\ faults' = faults - 1
    /\ Orphaned(c) /\ Close(c)
    /\ connection' = [connection EXCEPT ![c] = NoConnection]
    /\ told' = [told EXCEPT ![c] = "failed"]
    /\ UNCHANGED <<db, answer>>

SessionInit ==
    /\ db = [k \in Keys |-> 0]
    /\ server = [c \in Clients |-> NoTxn]
    /\ orphans = {}
    /\ connection = [c \in Clients |-> NoConnection]
    /\ answer = [c \in Clients |-> <<>>]
    /\ told = [c \in Clients |-> "nothing"]
    /\ faults = MaxFaults

-----------------------------------------------------------------------------
(* The statements of the open transaction: those the server has run, those *)
(* being sent (at most two calls carry any) and those in the queue.        *)
Pending(conn) ==
    LET sent(i) == IF i \in DOMAIN conn.calls THEN conn.calls[i].statements ELSE <<>>
    IN  sent(1) \o sent(2) \o conn.queue

Transaction(conn, opened) ==
    IF conn.active THEN [open |-> TRUE, effects |-> After(opened.effects, Pending(conn))]
    ELSE NoTxn

Sql == INSTANCE SqlTransactions
         WITH txn <- [c \in Clients |-> Transaction(connection[c], server[c])]

(* Queueing, batching and lost calls do not show: the calls are a          *)
(* connection that runs every statement at once.                           *)
ImplementsSql == Sql!Spec
=============================================================================
