--------------------------- MODULE SqlTransactions ---------------------------
(***************************************************************************)
(* What the callers of a database connection rely on: a statement of a     *)
(* transaction takes effect where it stands, reads see what was written    *)
(* before them, and the whole transaction is committed or nothing of it.   *)
(* A transaction may fail at any time.  Only the outcome of a commit that  *)
(* failed is open.                                                         *)
(***************************************************************************)
EXTENDS Integers

CONSTANTS
    Clients,
    Keys,      \* rows and schema objects
    MaxValue,  \* a row's value is in 1..MaxValue, 0 stands for no row
    Statements \* records: sql, key, value

VARIABLES
    db,        \* what is committed
    txn,       \* the open transaction of a client
    answer,    \* what a client's read returned
    told       \* what a client was told of its last transaction

vars == <<db, txn, answer, told>>

NoTxn == [open |-> FALSE]

Over(effects, rows) == [k \in Keys |-> IF k \in DOMAIN effects THEN effects[k] ELSE rows[k]]

(* ALTER ... SET NOT NULL changes no value.                                *)
Effect(effects, st) ==
    IF st.sql = "alter" THEN effects
    ELSE [k \in DOMAIN effects \cup {st.key} |->
            IF k # st.key THEN effects[k] ELSE IF st.sql = "delete" THEN 0 ELSE st.value]

Init ==
    /\ db = [k \in Keys |-> 0]
    /\ txn = [c \in Clients |-> NoTxn]
    /\ answer = [c \in Clients |-> <<>>]
    /\ told = [c \in Clients |-> "nothing"]

Tell(c, outcome) == told' = [told EXCEPT ![c] = outcome]

Begin(c) ==
    /\ ~txn[c].open
    /\ Tell(c, "nothing")
    /\ UNCHANGED <<db, answer>>
    /\ txn' = [txn EXCEPT ![c] = [open |-> TRUE, effects |-> <<>>]]

Issue(c, st) ==
    /\ txn[c].open
    /\ UNCHANGED <<db, told>>
    /\ answer' = [answer EXCEPT ![c] = <<>>]
    /\ txn' = [txn EXCEPT ![c].effects = Effect(@, st)]

Forget(c) ==
    /\ answer' = [answer EXCEPT ![c] = <<>>]
    /\ UNCHANGED <<db, told, txn>>

Read(c) ==
    /\ UNCHANGED <<db, told>>
    /\ answer' = [answer EXCEPT ![c] = IF txn[c].open THEN Over(txn[c].effects, db) ELSE db]
    /\ UNCHANGED txn

Commit(c) ==
    /\ txn[c].open
    /\ Tell(c, "committed") \/ Tell(c, "failed")
    /\ db' = Over(txn[c].effects, db)
    /\ txn' = [txn EXCEPT ![c] = NoTxn]
    /\ UNCHANGED answer

Fail(c) ==
    /\ Tell(c, "failed")
    /\ UNCHANGED <<db, answer>>
    /\ txn' = [txn EXCEPT ![c] = NoTxn]

(* A statement outside a transaction is one of its own.                    *)
Single(c, st) ==
    /\ ~txn[c].open
    /\ Tell(c, "committed") \/ Tell(c, "failed")
    /\ db' = Over(Effect(<<>>, st), db)
    /\ UNCHANGED <<txn, answer>>

Next ==
    \E c \in Clients :
       \/ Begin(c) \/ Read(c) \/ Forget(c) \/ Commit(c) \/ Fail(c)
       \/ \E st \in Statements : Issue(c, st) \/ Single(c, st)

Spec == Init /\ [][Next]_vars
=============================================================================
