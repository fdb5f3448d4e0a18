-------------------------- MODULE Migrations_proofs --------------------------
(***************************************************************************)
(* Why queueing, batching and lost calls of a Data API connection do not   *)
(* show, and why the migration history tells the truth, for any number of  *)
(* releases and ingestions, any migrations, batch size and faults.         *)
(***************************************************************************)
EXTENDS Migrations, SequenceTheorems, WellFoundedInduction, TLAPS

-----------------------------------------------------------------------------
(* The greatest of a set of positions.                                     *)

LEMMA MaxIsGreatest ==
    ASSUME NEW n \in Nat, NEW S, S \subseteq 0..n, S # {}
    PROVE  Max(S) \in S /\ \A y \in S : Max(S) >= y
<1> DEFINE T == {n - x : x \in S}
<1>1. T \subseteq Nat /\ T # {}
  OBVIOUS
<1>2. PICK t \in T : \A u \in T : t <= u
  <2>1. PICK t \in T : \A u \in T : ~(<<u, t>> \in OpToRel(<, Nat))
    BY <1>1, NatLessThanWellFounded, WFMin
  <2>2. \A u \in T : ~(u < t)
    BY <1>1, <2>1 DEF OpToRel
  <2> QED
    BY <1>1, <2>2
<1>3. PICK x \in S : t = n - x
  OBVIOUS
<1>4. \A y \in S : x >= y
  <2> SUFFICES ASSUME NEW y \in S PROVE x >= y
    OBVIOUS
  <2>1. t <= n - y
    BY <1>2
  <2> QED
    BY <2>1, <1>3
<1>5. \E z \in S : \A y \in S : z >= y
  BY <1>4
<1> QED
  BY <1>5 DEF Max

LEMMA MinIsOne ==
    ASSUME NEW n \in Nat, NEW S, S \subseteq 1..n, S # {}
    PROVE  Min(S) \in S
<1>1. S \subseteq Nat
  OBVIOUS
<1>2. PICK x \in S : \A y \in S : ~(<<y, x>> \in OpToRel(<, Nat))
  BY <1>1, NatLessThanWellFounded, WFMin
<1>3. \A y \in S : ~(y < x)
  BY <1>1, <1>2 DEF OpToRel
<1>4. \A y \in S : x <= y
  BY <1>1, <1>3
<1>5. \E z \in S : \A y \in S : z <= y
  BY <1>4
<1> QED
  BY <1>5 DEF Min

LEMMA MaxIsUnique ==
    ASSUME NEW n \in Nat, NEW S, S \subseteq 0..n, NEW m \in S, \A y \in S : m >= y
    PROVE  Max(S) = m
<1>1. PICK x : x = Max(S)
  OBVIOUS
<1>2. x \in S /\ \A y \in S : x >= y
  BY <1>1, MaxIsGreatest
<1>3. x >= m /\ m >= x /\ m \in 0..n /\ x \in 0..n
  BY <1>2
<1> QED
  BY <1>1, <1>3

-----------------------------------------------------------------------------
(* The effects of statements.                                              *)

Effects == UNION {[K -> 0..MaxValue] : K \in SUBSET Keys}

LEMMA WrittenMeans ==
    ASSUME NEW statements
    PROVE  \A k : k \in Written(statements) <=> Writes(statements, k) # {}
BY DEF Writes, Written

LEMMA WrittenAreKeys ==
    ASSUME NEW s \in Seq(Statements)
    PROVE  Written(s) \subseteq Keys
BY SessionAssumption DEF Written

LEMMA AfterValue ==
    ASSUME NEW effects, NEW statements
    PROVE  After(effects, statements) =
             [k \in DOMAIN effects \cup Written(statements) |->
                IF Writes(statements, k) = {} THEN effects[k] ELSE Value(statements, k)]
BY WrittenMeans DEF After

LEMMA LastWrite ==
    ASSUME NEW s \in Seq(Statements), NEW k, Writes(s, k) # {}
    PROVE  /\ Max(Writes(s, k)) \in Writes(s, k) /\ Max(Writes(s, k)) \in 1..Len(s)
           /\ \A i \in Writes(s, k) : Max(Writes(s, k)) >= i
<1>1. Writes(s, k) \subseteq 1..Len(s) /\ Len(s) \in Nat
  BY DEF Writes
<1> QED
  BY <1>1, MaxIsGreatest

LEMMA WritesOfBoth ==
    ASSUME NEW s \in Seq(Statements), NEW t \in Seq(Statements), NEW k
    PROVE  Writes(s \o t, k) = Writes(s, k) \cup {Len(s) + j : j \in Writes(t, k)}
<1>1. /\ s \o t \in Seq(Statements) /\ Len(s \o t) = Len(s) + Len(t)
      /\ \A i \in 1..Len(s) : (s \o t)[i] = s[i]
      /\ \A j \in 1..Len(t) : (s \o t)[Len(s) + j] = t[j]
      /\ DOMAIN (s \o t) = 1..(Len(s) + Len(t)) /\ DOMAIN s = 1..Len(s) /\ DOMAIN t = 1..Len(t)
      /\ Len(s) \in Nat /\ Len(t) \in Nat
  BY ConcatProperties
<1>2. ASSUME NEW i \in Writes(s \o t, k), i \notin Writes(s, k)
      PROVE  i - Len(s) \in Writes(t, k) /\ i = Len(s) + (i - Len(s))
  <2>1. i \in 1..(Len(s) + Len(t)) /\ (s \o t)[i].sql # "alter" /\ (s \o t)[i].key = k
    BY <1>1, <1>2 DEF Writes
  <2>2. ~(i <= Len(s))
    BY <1>1, <1>2, <2>1 DEF Writes
  <2>3. i - Len(s) \in 1..Len(t) /\ i = Len(s) + (i - Len(s))
    BY <1>1, <2>1, <2>2
  <2>4. (s \o t)[i] = t[i - Len(s)]
    BY <1>1, <2>3
  <2> QED
    BY <1>1, <2>1, <2>3, <2>4 DEF Writes
<1>3. ASSUME NEW i \in Writes(s, k) PROVE i \in Writes(s \o t, k)
  BY <1>1, <1>3 DEF Writes
<1>4. ASSUME NEW j \in Writes(t, k) PROVE Len(s) + j \in Writes(s \o t, k)
  BY <1>1, <1>4 DEF Writes
<1> QED
  BY <1>2, <1>3, <1>4

LEMMA ValueOfBoth ==
    ASSUME NEW s \in Seq(Statements), NEW t \in Seq(Statements), NEW k
    PROVE  /\ Writes(t, k) # {} => Value(s \o t, k) = Value(t, k)
           /\ Writes(t, k) = {} /\ Writes(s, k) # {} => Value(s \o t, k) = Value(s, k)
<1>1. /\ s \o t \in Seq(Statements) /\ Len(s \o t) \in Nat /\ Len(s) \in Nat /\ Len(t) \in Nat
      /\ \A i \in 1..Len(s) : (s \o t)[i] = s[i]
      /\ \A j \in 1..Len(t) : (s \o t)[Len(s) + j] = t[j]
  BY ConcatProperties
<1>2. Writes(s \o t, k) \subseteq 0..Len(s \o t)
  BY <1>1 DEF Writes
<1>3. Writes(s, k) \subseteq 1..Len(s)
  BY DEF Writes
<1>4. CASE Writes(t, k) # {}
  <2>1. PICK m : m = Max(Writes(t, k))
    OBVIOUS
  <2>2. m \in Writes(t, k) /\ m \in 1..Len(t) /\ \A i \in Writes(t, k) : m >= i
    BY <1>4, <2>1, LastWrite
  <2>3. Len(s) + m \in Writes(s \o t, k)
    BY <2>2, WritesOfBoth
  <2>4. \A i \in Writes(s \o t, k) : Len(s) + m >= i
    <3> SUFFICES ASSUME NEW i \in Writes(s, k) \cup {Len(s) + j : j \in Writes(t, k)}
                 PROVE  Len(s) + m >= i
      BY WritesOfBoth
    <3>1. CASE i \in Writes(s, k)
      BY <1>1, <1>3, <2>2, <3>1
    <3>2. CASE i \in {Len(s) + j : j \in Writes(t, k)}
      <4>1. PICK j \in Writes(t, k) : i = Len(s) + j
        BY <3>2
      <4>2. j \in 1..Len(t) /\ m >= j
        BY <2>2, <4>1 DEF Writes
      <4> QED
        BY <1>1, <2>2, <4>1, <4>2
    <3> QED
      BY <3>1, <3>2
  <2>5. Max(Writes(s \o t, k)) = Len(s) + m
    BY <1>1, <1>2, <2>3, <2>4, MaxIsUnique
  <2>6. (s \o t)[Len(s) + m] = t[m]
    BY <1>1, <2>2
  <2> QED
    BY <1>4, <2>1, <2>5, <2>6 DEF Value
<1>5. CASE Writes(t, k) = {} /\ Writes(s, k) # {}
  <2>1. Writes(s \o t, k) = Writes(s, k)
    <3>1. Writes(s \o t, k) = Writes(s, k) \cup {Len(s) + j : j \in Writes(t, k)}
      BY WritesOfBoth
    <3> QED
      BY <1>5, <3>1
  <2>2. Max(Writes(s, k)) \in 1..Len(s)
    BY <1>5, LastWrite
  <2> QED
    BY <1>1, <1>5, <2>1, <2>2 DEF Value
<1> QED
  BY <1>4, <1>5

LEMMA AfterBoth ==
    ASSUME NEW effects, NEW s \in Seq(Statements), NEW t \in Seq(Statements)
    PROVE  After(effects, s \o t) = After(After(effects, s), t)
<1>1. ASSUME NEW k
      PROVE  Writes(s \o t, k) = {} <=> Writes(s, k) = {} /\ Writes(t, k) = {}
  <2>1. Writes(s \o t, k) = Writes(s, k) \cup {Len(s) + j : j \in Writes(t, k)}
    BY WritesOfBoth
  <2> QED
    BY <2>1
<1>2. Written(s \o t) = Written(s) \cup Written(t)
  BY <1>1, WrittenMeans
<1>3. DOMAIN After(effects, s) = DOMAIN effects \cup Written(s)
  BY AfterValue
<1>4. After(After(effects, s), t) =
        [k \in (DOMAIN effects \cup Written(s)) \cup Written(t) |->
           IF Writes(t, k) = {} THEN After(effects, s)[k] ELSE Value(t, k)]
  BY <1>3, AfterValue
<1>5. After(effects, s \o t) =
        [k \in (DOMAIN effects \cup Written(s)) \cup Written(t) |->
           IF Writes(s \o t, k) = {} THEN effects[k] ELSE Value(s \o t, k)]
  BY <1>2, AfterValue
<1>6. ASSUME NEW k \in (DOMAIN effects \cup Written(s)) \cup Written(t)
      PROVE  (IF Writes(t, k) = {} THEN After(effects, s)[k] ELSE Value(t, k))
               = (IF Writes(s \o t, k) = {} THEN effects[k] ELSE Value(s \o t, k))
  <2>1. CASE Writes(t, k) # {}
    BY <1>1, <2>1, ValueOfBoth
  <2>2. CASE Writes(t, k) = {}
    <3>1. k \in DOMAIN effects \cup Written(s)
      BY <1>6, <2>2, WrittenMeans
    <3>2. After(effects, s)[k] = IF Writes(s, k) = {} THEN effects[k] ELSE Value(s, k)
      BY <3>1, AfterValue
    <3> QED
      BY <1>1, <2>2, <3>2, ValueOfBoth
  <2> QED
    BY <2>1, <2>2
<1> QED
  BY <1>4, <1>5, <1>6

(* The SDK repeats a batch.                                                *)
LEMMA AfterTwice ==
    ASSUME NEW effects, NEW s \in Seq(Statements)
    PROVE  After(effects, s \o s) = After(effects, s)
<1>1. \A k : /\ Writes(s \o s, k) = {} <=> Writes(s, k) = {}
             /\ Writes(s, k) # {} => Value(s \o s, k) = Value(s, k)
  BY WritesOfBoth, ValueOfBoth
<1>2. Written(s \o s) = Written(s)
  BY <1>1, WrittenMeans
<1>3. After(effects, s \o s) =
        [k \in DOMAIN effects \cup Written(s) |->
           IF Writes(s \o s, k) = {} THEN effects[k] ELSE Value(s \o s, k)]
  BY <1>2, AfterValue
<1>4. After(effects, s) =
        [k \in DOMAIN effects \cup Written(s) |->
           IF Writes(s, k) = {} THEN effects[k] ELSE Value(s, k)]
  BY AfterValue
<1>5. \A k \in DOMAIN effects \cup Written(s) :
        (IF Writes(s \o s, k) = {} THEN effects[k] ELSE Value(s \o s, k))
          = (IF Writes(s, k) = {} THEN effects[k] ELSE Value(s, k))
  BY <1>1
<1> QED
  BY <1>3, <1>4, <1>5

LEMMA AfterNothing ==
    ASSUME NEW effects, effects = [k \in DOMAIN effects |-> effects[k]]
    PROVE  After(effects, <<>>) = effects
<1>1. \A k : Writes(<<>>, k) = {}
  BY DEF Writes
<1>2. Written(<<>>) = {}
  BY <1>1, WrittenMeans
<1> QED
  BY <1>1, <1>2, AfterValue

LEMMA AfterOne ==
    ASSUME NEW effects, effects = [k \in DOMAIN effects |-> effects[k]], NEW st \in Statements
    PROVE  After(effects, <<st>>) = Sql!Effect(effects, st)
<1>1. st.key \in Keys
  BY SessionAssumption
<1>2. <<st>>[1] = st /\ DOMAIN <<st>> = {1}
  OBVIOUS
<1>3. \A k : Writes(<<st>>, k) = IF st.sql # "alter" /\ st.key = k THEN {1} ELSE {}
  BY <1>2 DEF Writes
<1>4. CASE st.sql = "alter"
  <2>1. Written(<<st>>) = {} /\ \A k : Writes(<<st>>, k) = {}
    BY <1>3, <1>4, WrittenMeans
  <2> QED
    BY <1>4, <2>1, AfterValue DEF Sql!Effect
<1>5. CASE st.sql # "alter"
  <2>1. Written(<<st>>) = {st.key}
    BY <1>3, <1>5, WrittenMeans
  <2>2. Max({1}) = 1
    BY DEF Max
  <2>3. Value(<<st>>, st.key) = IF st.sql = "delete" THEN 0 ELSE st.value
    BY <1>2, <1>3, <1>5, <2>2 DEF Value
  <2>4. \A k : k # st.key => Writes(<<st>>, k) = {}
    BY <1>3
  <2>5. Writes(<<st>>, st.key) # {}
    BY <1>3, <1>5
  <2> QED
    BY <1>5, <2>1, <2>3, <2>4, <2>5, AfterValue DEF Sql!Effect
<1> QED
  BY <1>4, <1>5

LEMMA AfterTyped ==
    ASSUME NEW effects \in Effects, NEW s \in Seq(Statements)
    PROVE  /\ After(effects, s) \in Effects
           /\ DOMAIN After(effects, s) = DOMAIN effects \cup Written(s)
<1>1. DOMAIN effects \subseteq Keys /\ \A k \in DOMAIN effects : effects[k] \in 0..MaxValue
  BY DEF Effects
<1>2. ASSUME NEW k, Writes(s, k) # {} PROVE Value(s, k) \in 0..MaxValue
  <2>1. Max(Writes(s, k)) \in 1..Len(s)
    BY <1>2, LastWrite
  <2>2. s[Max(Writes(s, k))] \in Statements
    BY <2>1
  <2> QED
    BY <2>2, SessionAssumption DEF Value
<1>3. DOMAIN After(effects, s) = DOMAIN effects \cup Written(s)
  BY AfterValue
<1>4. \A k \in DOMAIN effects \cup Written(s) : After(effects, s)[k] \in 0..MaxValue
  <2> SUFFICES ASSUME NEW k \in DOMAIN effects \cup Written(s)
               PROVE  After(effects, s)[k] \in 0..MaxValue
    OBVIOUS
  <2>1. After(effects, s)[k] = IF Writes(s, k) = {} THEN effects[k] ELSE Value(s, k)
    BY AfterValue
  <2>2. Writes(s, k) = {} => k \in DOMAIN effects
    BY WrittenMeans
  <2> QED
    BY <1>1, <1>2, <2>1, <2>2
<1>5. After(effects, s) \in [DOMAIN effects \cup Written(s) -> 0..MaxValue]
  <2>1. After(effects, s) = [k \in DOMAIN effects \cup Written(s) |-> After(effects, s)[k]]
    BY AfterValue
  <2> QED
    BY <1>4, <2>1
<1>6. DOMAIN effects \cup Written(s) \in SUBSET Keys
  BY <1>1, WrittenAreKeys
<1> QED
  BY <1>3, <1>5, <1>6 DEF Effects

LEMMA EffectsAreFunctions ==
    ASSUME NEW effects \in Effects
    PROVE  effects = [k \in DOMAIN effects |-> effects[k]]
BY DEF Effects

LEMMA RanTyped ==
    ASSUME NEW effects \in Effects, NEW s \in Seq(Statements)
    PROVE  /\ Ran(effects, s).effects \in Effects
           /\ Ran(effects, s).ok => Ran(effects, s).effects = After(effects, s)
<1> DEFINE refused == {i \in DOMAIN s :
                         ~Accepted(After(effects, SubSeq(s, 1, i - 1)), s[i])}
           done == IF refused = {} THEN s ELSE SubSeq(s, 1, Min(refused) - 1)
<1>1. Ran(effects, s) = [ok |-> refused = {}, effects |-> After(effects, done)]
  BY DEF Ran
<1>2. refused \subseteq 1..Len(s) /\ Len(s) \in Nat
  OBVIOUS
<1> HIDE DEF refused
<1>3. done \in Seq(Statements)
  <2>1. CASE refused = {}
    BY <2>1
  <2>2. CASE refused # {}
    <3>1. Min(refused) \in 1..Len(s)
      BY <1>2, <2>2, MinIsOne
    <3>2. SubSeq(s, 1, Min(refused) - 1) \in Seq(Statements)
      BY <1>2, <3>1, SubSeqProperties
    <3> QED
      BY <2>2, <3>2
  <2> QED
    BY <2>1, <2>2
<1> HIDE DEF done
<1>4. After(effects, done) \in Effects
  BY <1>3, AfterTyped
<1>5. Ran(effects, s).ok = (refused = {}) /\ Ran(effects, s).effects = After(effects, done)
  BY <1>1
<1>6. Ran(effects, s).ok => refused = {}
  BY <1>5, Zenon
<1>7. refused = {} => done = s
  BY DEF done
<1> QED
  BY <1>4, <1>5, <1>6, <1>7

-----------------------------------------------------------------------------
(* Connections and what the server has open for them.                      *)

Calls == [op : {"begin", "execute", "fetch", "commit", "rollback"}, statements : Seq(Statements)]

(* The queue was sent before a read or a commit; outside of a transaction  *)
(* a call has one statement.                                               *)
Fits(active, queue, call) ==
    /\ call.op # "execute" => call.statements = <<>>
    /\ call.op \in {"fetch", "commit"} => queue = <<>>
    /\ active => call.op \in {"execute", "fetch", "commit"}
    /\ ~active => call.op \in {"begin", "execute", "fetch", "rollback"}
    /\ ~active /\ call.op = "execute" => Len(call.statements) = 1

(* At most two calls are left, and only the last may have no statements.   *)
CallsSound(active, queue, calls) ==
    /\ calls \in Seq(Calls)
    /\ Len(calls) <= (IF active THEN 2 ELSE 1)
    /\ \A i \in 1..Len(calls) :
         Fits(active, queue, calls[i]) /\ (calls[i].op # "execute" => i = Len(calls))

ConnectionSound(conn) ==
    /\ conn \in [active : BOOLEAN, queue : Seq(Statements), calls : Seq(Calls)]
    /\ CallsSound(conn.active, conn.queue, conn.calls)
    /\ ~conn.active => conn.queue = <<>>

(* A transaction stays open on the server exactly for a connection that    *)
(* is active, or is about to roll it back.                                 *)
ServerSound(conn, opened) ==
    /\ opened \in {NoTxn} \cup [open : {TRUE}, effects : Effects]
    /\ conn.active => opened.open
    /\ opened.open => conn.active \/ \E i \in DOMAIN conn.calls : conn.calls[i].op = "rollback"

Rows == [Keys -> 0..MaxValue]

SessionSound ==
    /\ db \in Rows
    /\ DOMAIN server = Clients /\ DOMAIN connection = Clients
    /\ server = [c \in Clients |-> server[c]] /\ connection = [c \in Clients |-> connection[c]]
    /\ \A c \in Clients :
         ConnectionSound(connection[c]) /\ ServerSound(connection[c], server[c])
    /\ answer \in [Clients -> {<<>>} \cup Rows]
    /\ told \in [Clients -> {"nothing", "committed", "failed"}]

-----------------------------------------------------------------------------
(* The methods of a connection.                                            *)

IsOne(calls, x) == calls \in Seq({x}) /\ Len(calls) = 1 /\ calls[1] = x

IsPair(calls, x, y) ==
    calls \in Seq({x, y}) /\ Len(calls) = 2 /\ calls[1] = x /\ calls[2] = y

Joined(u, s, t) == u = s \o t

LEMMA OneCall ==
    ASSUME NEW x, NEW u, u = <<x>>
    PROVE  IsOne(u, x)
BY DEF IsOne

LEMMA NothingAndOne ==
    ASSUME NEW x, NEW s, s = <<>>, NEW t, IsOne(t, x), NEW u, Joined(u, s, t)
    PROVE  IsOne(u, x)
<1>1. u = t
  BY ConcatEmptySeq DEF Joined, IsOne
<1> QED
  BY <1>1

LEMMA OneAndOne ==
    ASSUME NEW x, NEW y, NEW s, IsOne(s, x), NEW t, IsOne(t, y), NEW u, Joined(u, s, t)
    PROVE  IsPair(u, x, y)
<1>1. /\ s \in Seq({x, y}) /\ Len(s) = 1 /\ s[1] = x
      /\ t \in Seq({x, y}) /\ Len(t) = 1 /\ t[1] = y
  BY DEF IsOne
<1>2. u = s \o t
  BY DEF Joined
<1>3. /\ s \o t \in Seq({x, y}) /\ Len(s \o t) = Len(s) + Len(t)
      /\ \A i \in 1..Len(s) : (s \o t)[i] = s[i]
      /\ \A j \in 1..Len(t) : (s \o t)[Len(s) + j] = t[j]
  BY <1>1, ConcatProperties
<1>4. u[1] = x /\ u[1 + 1] = y
  BY <1>1, <1>2, <1>3
<1>5. u \in Seq({x, y}) /\ Len(u) = 2
  BY <1>1, <1>2, <1>3
<1> QED
  BY <1>4, <1>5 DEF IsPair

(* What is pending, by the number of calls.                                *)
LEMMA PendingStatements ==
    ASSUME NEW conn, conn.calls \in Seq(Calls), conn.queue \in Seq(Statements)
    PROVE  /\ conn.calls = <<>> => Pending(conn) = conn.queue
           /\ Len(conn.calls) = 1 => Pending(conn) = conn.calls[1].statements \o conn.queue
           /\ Len(conn.calls) = 2 =>
                 Pending(conn) = conn.calls[1].statements \o (conn.calls[2].statements \o conn.queue)
           /\ Len(conn.calls) <= 2 => Pending(conn) \in Seq(Statements)
<1> DEFINE sent(i) == IF i \in DOMAIN conn.calls THEN conn.calls[i].statements ELSE <<>>
<1>1. Pending(conn) = sent(1) \o sent(2) \o conn.queue
  BY DEF Pending
<1>2. DOMAIN conn.calls = 1..Len(conn.calls) /\ Len(conn.calls) \in Nat
  OBVIOUS
<1>3. \A i : sent(i) \in Seq(Statements)
  <2> SUFFICES ASSUME NEW i PROVE sent(i) \in Seq(Statements)
    OBVIOUS
  <2>1. CASE i \in DOMAIN conn.calls
    <3>1. conn.calls[i] \in Calls
      BY <2>1
    <3> QED
      BY <2>1, <3>1 DEF Calls
  <2> QED
    BY <2>1
<1>4. /\ conn.calls = <<>> => sent(1) = <<>> /\ sent(2) = <<>>
      /\ Len(conn.calls) = 1 => sent(1) = conn.calls[1].statements /\ sent(2) = <<>>
      /\ Len(conn.calls) = 2 => sent(1) = conn.calls[1].statements /\ sent(2) = conn.calls[2].statements
  BY <1>2
<1> HIDE DEF sent
<1>5. PICK s \in Seq(Statements), t \in Seq(Statements) : s = sent(1) /\ t = sent(2)
  BY <1>3
<1>6. Pending(conn) = s \o (t \o conn.queue)
  <2>1. Pending(conn) = (s \o t) \o conn.queue
    BY <1>1, <1>5
  <2>2. PICK q \in Seq(Statements) : q = conn.queue
    OBVIOUS
  <2>3. (s \o t) \o q = s \o (t \o q)
    BY ConcatAssociative
  <2> QED
    BY <2>1, <2>2, <2>3
<1>7. Pending(conn) \in Seq(Statements)
  BY <1>6, ConcatProperties
<1>8. <<>> \o conn.queue = conn.queue
  BY ConcatEmptySeq
<1> QED
  BY <1>4, <1>5, <1>6, <1>7, <1>8

-----------------------------------------------------------------------------
(* One step of one client.                                                 *)

(* What the abstract database sees of every client.                        *)
Seen == [c \in Clients |-> Transaction(connection[c], server[c])]

Replaces(c, conn, opened) ==
    /\ connection' = [connection EXCEPT ![c] = conn]
    /\ server' = [server EXCEPT ![c] = opened]

LEMMA OthersAsBefore ==
    ASSUME SessionSound, NEW c \in Clients, NEW conn, NEW opened, Replaces(c, conn, opened)
    PROVE  /\ DOMAIN server' = Clients /\ DOMAIN connection' = Clients
           /\ server' = [d \in Clients |-> server'[d]]
           /\ connection' = [d \in Clients |-> connection'[d]]
           /\ connection'[c] = conn /\ server'[c] = opened
           /\ \A d \in Clients \ {c} : connection'[d] = connection[d] /\ server'[d] = server[d]
           /\ Seen' = [Seen EXCEPT ![c] = Transaction(conn, opened)]
<1>1. /\ DOMAIN server = Clients /\ DOMAIN connection = Clients
      /\ server = [d \in Clients |-> server[d]] /\ connection = [d \in Clients |-> connection[d]]
  BY DEF SessionSound
<1>2. connection' = [d \in Clients |-> IF d = c THEN conn ELSE connection[d]]
  BY <1>1 DEF Replaces
<1>3. server' = [d \in Clients |-> IF d = c THEN opened ELSE server[d]]
  BY <1>1 DEF Replaces
<1>4. /\ connection'[c] = conn /\ server'[c] = opened
      /\ \A d \in Clients \ {c} : connection'[d] = connection[d] /\ server'[d] = server[d]
      /\ DOMAIN server' = Clients /\ DOMAIN connection' = Clients
  BY <1>2, <1>3
<1>5. Seen' = [d \in Clients |-> Transaction(connection'[d], server'[d])]
  BY DEF Seen
<1>6. Seen' = [d \in Clients |-> IF d = c THEN Transaction(conn, opened) ELSE Seen[d]]
  BY <1>4, <1>5 DEF Seen
<1>7. [Seen EXCEPT ![c] = Transaction(conn, opened)]
        = [d \in Clients |-> IF d = c THEN Transaction(conn, opened) ELSE Seen[d]]
  BY DEF Seen
<1> QED
  BY <1>2, <1>3, <1>4, <1>6, <1>7

LEMMA StaysSound ==
    ASSUME SessionSound, NEW c \in Clients, NEW conn, NEW opened, Replaces(c, conn, opened),
           ConnectionSound(conn), ServerSound(conn, opened),
           db' \in Rows, answer' \in [Clients -> {<<>>} \cup Rows],
           told' \in [Clients -> {"nothing", "committed", "failed"}]
    PROVE  SessionSound'
<1>1. ASSUME NEW d \in Clients
      PROVE  ConnectionSound(connection'[d]) /\ ServerSound(connection'[d], server'[d])
  <2>1. CASE d = c
    BY <2>1, OthersAsBefore
  <2>2. CASE d # c
    <3>1. connection'[d] = connection[d] /\ server'[d] = server[d]
      BY <2>2, OthersAsBefore
    <3> QED
      BY <3>1 DEF SessionSound
  <2> QED
    BY <2>1, <2>2
<1> QED
  BY <1>1, OthersAsBefore DEF SessionSound, Rows

LEMMA SameTransaction ==
    ASSUME SessionSound, NEW c \in Clients, NEW conn, NEW opened, Replaces(c, conn, opened),
           Transaction(conn, opened) = Transaction(connection[c], server[c])
    PROVE  Seen' = Seen
<1>1. Seen' = [Seen EXCEPT ![c] = Transaction(conn, opened)]
  BY OthersAsBefore
<1>2. Seen[c] = Transaction(conn, opened)
  BY DEF Seen
<1> QED
  BY <1>1, <1>2 DEF Seen

-----------------------------------------------------------------------------
(* The methods of a connection.                                            *)

LEMMA FreeConnection ==
    ASSUME SessionSound, NEW c \in Clients, Free(c)
    PROVE  /\ Pending(connection[c]) = connection[c].queue
           /\ connection[c].queue \in Seq(Statements)
           /\ connection[c].active \in BOOLEAN
           /\ server[c].open <=> connection[c].active
           /\ connection[c].active =>
                  server[c].effects \in Effects /\ server[c] = [open |-> TRUE, effects |-> server[c].effects]
<1>1. /\ ConnectionSound(connection[c]) /\ ServerSound(connection[c], server[c])
      /\ connection[c].calls = <<>>
  BY DEF SessionSound, Free
<1>2. /\ connection[c].calls \in Seq(Calls) /\ connection[c].queue \in Seq(Statements)
      /\ connection[c].active \in BOOLEAN
  BY <1>1 DEF ConnectionSound
<1>3. Pending(connection[c]) = connection[c].queue
  BY <1>1, <1>2, PendingStatements
<1>4. ~ \E i \in DOMAIN connection[c].calls : connection[c].calls[i].op = "rollback"
  BY <1>1
<1>5. server[c].open <=> connection[c].active
  BY <1>1, <1>2, <1>4, Zenon DEF ServerSound
<1>6. connection[c].active =>
          server[c].effects \in Effects /\ server[c] = [open |-> TRUE, effects |-> server[c].effects]
  <2> SUFFICES ASSUME connection[c].active
               PROVE  /\ server[c].effects \in Effects
                      /\ server[c] = [open |-> TRUE, effects |-> server[c].effects]
    OBVIOUS
  <2>1. PICK opened : opened = server[c]
    OBVIOUS
  <2>2. opened \in {NoTxn} \cup [open : {TRUE}, effects : Effects] /\ opened.open
    BY <1>1, <2>1 DEF ServerSound
  <2>3. opened # NoTxn
    BY <2>2 DEF NoTxn
  <2>4. opened \in [open : {TRUE}, effects : Effects]
    BY <2>2, <2>3
  <2> QED
    BY <2>1, <2>4
<1> QED
  BY <1>2, <1>3, <1>5, <1>6, Zenon

LEMMA Starting ==
    ASSUME SessionSound, NEW c \in Clients, NEW conn, Start(c, conn), ConnectionSound(conn),
           conn.active = connection[c].active
    PROVE  /\ SessionSound'
           /\ Replaces(c, conn, server[c])
           /\ Free(c) /\ db' = db /\ told' = told /\ answer' = [answer EXCEPT ![c] = <<>>]
<1>1. /\ Free(c) /\ db' = db /\ told' = told /\ answer' = [answer EXCEPT ![c] = <<>>]
      /\ connection' = [connection EXCEPT ![c] = conn] /\ server' = server
  BY DEF Start
<1>2. server' = [server EXCEPT ![c] = server[c]]
  BY <1>1 DEF SessionSound
<1>3. Replaces(c, conn, server[c])
  BY <1>1, <1>2 DEF Replaces
<1>4. ServerSound(conn, server[c])
  <2>1. ServerSound(connection[c], server[c])
    BY DEF SessionSound
  <2>2. server[c].open <=> conn.active
    BY <1>1, FreeConnection, Zenon
  <2> QED
    BY <2>1, <2>2 DEF ServerSound
<1>5. answer' \in [Clients -> {<<>>} \cup Rows]
  BY <1>1 DEF SessionSound
<1>6. db' \in Rows /\ told' \in [Clients -> {"nothing", "committed", "failed"}]
  BY <1>1 DEF SessionSound
<1>7. SessionSound'
  BY <1>3, <1>4, <1>5, <1>6, StaysSound
<1> QED
  BY <1>1, <1>3, <1>7

LEMMA Calling ==
    ASSUME SessionSound, NEW c \in Clients, NEW conn, Start(c, conn), ConnectionSound(conn),
           conn.active = connection[c].active,
           conn.active => Pending(conn) = connection[c].queue
    PROVE  SessionSound' /\ Sql!Forget(c)
<1>1. /\ SessionSound' /\ Replaces(c, conn, server[c])
      /\ Free(c) /\ db' = db /\ told' = told /\ answer' = [answer EXCEPT ![c] = <<>>]
  BY Starting
<1>2. Pending(connection[c]) = connection[c].queue
  BY <1>1, FreeConnection
<1>3. Transaction(conn, server[c]) = Transaction(connection[c], server[c])
  BY <1>2 DEF Transaction
<1>4. Seen' = Seen
  BY <1>1, <1>3, SameTransaction
<1> QED
  BY <1>1, <1>4 DEF Sql!Forget, Seen

LEMMA OpenWith ==
    ASSUME NEW open, NEW effects, NEW more
    PROVE  [[open |-> open, effects |-> effects] EXCEPT !.effects = more]
             = [open |-> open, effects |-> more]
OBVIOUS

LEMMA Issuing ==
    ASSUME SessionSound, NEW c \in Clients, NEW conn, Start(c, conn), ConnectionSound(conn),
           conn.active = TRUE, connection[c].active = TRUE,
           NEW st \in Statements, Pending(conn) = connection[c].queue \o <<st>>
    PROVE  SessionSound' /\ Sql!Issue(c, st)
<1>1. /\ SessionSound' /\ Replaces(c, conn, server[c])
      /\ Free(c) /\ db' = db /\ told' = told /\ answer' = [answer EXCEPT ![c] = <<>>]
  BY Starting
<1>2. PICK q \in Seq(Statements), e \in Effects :
        /\ q = connection[c].queue /\ Pending(connection[c]) = q
        /\ e = server[c].effects
  BY <1>1, FreeConnection
<1>3. Seen[c] = [open |-> TRUE, effects |-> After(e, q)]
  BY <1>2 DEF Seen, Transaction
<1>4. Transaction(conn, server[c]) = [open |-> TRUE, effects |-> After(e, q \o <<st>>)]
  BY <1>2 DEF Transaction
<1>5. After(e, q \o <<st>>) = Sql!Effect(After(e, q), st)
  <2>1. PICK one \in Seq(Statements) : one = <<st>>
    <3>1. <<st>> \in Seq(Statements)
      OBVIOUS
    <3> QED
      BY <3>1
  <2>2. After(e, q \o one) = After(After(e, q), one)
    BY AfterBoth
  <2>3. After(e, q) \in Effects
    BY AfterTyped
  <2>4. After(After(e, q), <<st>>) = Sql!Effect(After(e, q), st)
    BY <2>3, EffectsAreFunctions, AfterOne
  <2> QED
    BY <2>1, <2>2, <2>4
<1>6. Seen' = [Seen EXCEPT ![c] = [open |-> TRUE, effects |-> Sql!Effect(After(e, q), st)]]
  BY <1>1, <1>4, <1>5, OthersAsBefore
<1>7. [Seen EXCEPT ![c].effects = Sql!Effect(@, st)]
        = [Seen EXCEPT ![c] = [open |-> TRUE, effects |-> Sql!Effect(After(e, q), st)]]
  <2>1. PICK r, f : r = Seen[c] /\ f = Sql!Effect(After(e, q), st)
    OBVIOUS
  <2>2. r = [open |-> TRUE, effects |-> After(e, q)]
    BY <1>3, <2>1
  <2>3. [r EXCEPT !.effects = f] = [open |-> TRUE, effects |-> f]
    BY <2>2, OpenWith, Zenon
  <2>4. Sql!Effect(r.effects, st) = f
    BY <2>1, <2>2
  <2>5. [Seen EXCEPT ![c].effects = Sql!Effect(@, st)]
          = [Seen EXCEPT ![c] = [r EXCEPT !.effects = Sql!Effect(r.effects, st)]]
    BY <2>1
  <2> QED
    BY <2>1, <2>3, <2>4, <2>5
<1>8. Seen[c].open
  BY <1>3
<1> QED
  BY <1>1, <1>6, <1>7, <1>8 DEF Sql!Issue, Seen

(* Connections by what they are made of.                                   *)
Conn(active, queue, calls) == [active |-> active, queue |-> queue, calls |-> calls]

LEMMA Parts ==
    ASSUME NEW a, NEW q, NEW k, NEW conn, conn = Conn(a, q, k)
    PROVE  conn.active = a /\ conn.queue = q /\ conn.calls = k
BY DEF Conn

WithBoth(r, e, calls) == [r EXCEPT !.queue = e, !.calls = calls]

LEMMA BothReplaced ==
    ASSUME NEW a, NEW q, NEW k, NEW r, r = Conn(a, q, k), NEW e, NEW calls
    PROVE  WithBoth(r, e, calls) = Conn(a, e, calls)
<1>1. PICK s : s = [r EXCEPT !.queue = e]
  OBVIOUS
<1>2. WithBoth(r, e, calls) = [s EXCEPT !.calls = calls]
  BY <1>1 DEF WithBoth
<1>3. s = Conn(a, e, k)
  BY <1>1 DEF Conn
<1>4. [s EXCEPT !.calls = calls] = Conn(a, e, calls)
  BY <1>3 DEF Conn
<1> QED
  BY <1>2, <1>4

LEMMA PartsOf ==
    ASSUME NEW conn, ConnectionSound(conn)
    PROVE  /\ conn = Conn(conn.active, conn.queue, conn.calls)
           /\ conn.active \in BOOLEAN /\ conn.queue \in Seq(Statements) /\ conn.calls \in Seq(Calls)
<1>1. conn \in [active : BOOLEAN, queue : Seq(Statements), calls : Seq(Calls)]
  BY DEF ConnectionSound
<1> QED
  BY <1>1 DEF Conn

LEMMA NoCalls ==
    ASSUME NEW a \in BOOLEAN, NEW q \in Seq(Statements), a \/ q = <<>>
    PROVE  ConnectionSound(Conn(a, q, <<>>)) /\ Pending(Conn(a, q, <<>>)) = q
<1>1. /\ Conn(a, q, <<>>).active = a /\ Conn(a, q, <<>>).queue = q /\ Conn(a, q, <<>>).calls = <<>>
  BY DEF Conn
<1>2. CallsSound(a, q, <<>>)
  BY DEF CallsSound
<1>3. Conn(a, q, <<>>) \in [active : BOOLEAN, queue : Seq(Statements), calls : Seq(Calls)]
  BY DEF Conn
<1>4. Pending(Conn(a, q, <<>>)) = q
  BY <1>1, <1>3, PendingStatements
<1> QED
  BY <1>1, <1>2, <1>3, <1>4 DEF ConnectionSound

LEMMA SingleCall ==
    ASSUME NEW a \in BOOLEAN, NEW q \in Seq(Statements), a \/ q = <<>>,
           NEW call \in Calls, Fits(a, q, call), NEW k, IsOne(k, call)
    PROVE  ConnectionSound(Conn(a, q, k)) /\ Pending(Conn(a, q, k)) = call.statements \o q
<1>1. /\ Conn(a, q, k).active = a /\ Conn(a, q, k).queue = q /\ Conn(a, q, k).calls = k
  BY DEF Conn
<1>2. k \in Seq(Calls) /\ Len(k) = 1 /\ k[1] = call
  BY DEF IsOne
<1>3. CallsSound(a, q, k)
  BY <1>2 DEF CallsSound
<1>4. Conn(a, q, k) \in [active : BOOLEAN, queue : Seq(Statements), calls : Seq(Calls)]
  BY <1>2 DEF Conn
<1>5. Pending(Conn(a, q, k)) = call.statements \o q
  BY <1>1, <1>2, <1>4, PendingStatements
<1> QED
  BY <1>1, <1>3, <1>4, <1>5 DEF ConnectionSound

Carries(call, s) == call \in Calls /\ call.statements = s
Executes(call) == call.op = "execute"
PairSound(conn, q, s, r) == ConnectionSound(conn) /\ Pending(conn) = s \o (r \o q)

LEMMA CallPair ==
    ASSUME NEW a \in BOOLEAN, a, NEW q \in Seq(Statements),
           NEW first, NEW s, Carries(first, s), Executes(first), Fits(a, q, first),
           NEW second, NEW r, Carries(second, r), Fits(a, q, second),
           NEW k, IsPair(k, first, second)
    PROVE  PairSound(Conn(a, q, k), q, s, r)
<1>1. /\ first \in Calls /\ first.statements = s /\ first.op = "execute"
      /\ second \in Calls /\ second.statements = r
  BY DEF Carries, Executes
<1>2. /\ Conn(a, q, k).active = a /\ Conn(a, q, k).queue = q /\ Conn(a, q, k).calls = k
  BY DEF Conn
<1>3. k \in Seq(Calls) /\ Len(k) = 2 /\ k[1] = first /\ k[2] = second
  BY <1>1 DEF IsPair
<1>4. CallsSound(a, q, k)
  <2>1. \A i \in 1..Len(k) : Fits(a, q, k[i]) /\ (k[i].op # "execute" => i = Len(k))
    <3> SUFFICES ASSUME NEW i \in 1..2
                 PROVE  Fits(a, q, k[i]) /\ (k[i].op # "execute" => i = 2)
      BY <1>3
    <3>1. i = 1 \/ i = 2
      OBVIOUS
    <3> QED
      BY <1>1, <1>3, <3>1
  <2>2. Len(k) <= (IF a THEN 2 ELSE 1)
    BY <1>3
  <2> QED
    BY <1>3, <2>1, <2>2 DEF CallsSound
<1>5. Conn(a, q, k) \in [active : BOOLEAN, queue : Seq(Statements), calls : Seq(Calls)]
  BY <1>3 DEF Conn
<1>6. Pending(Conn(a, q, k)) = s \o (r \o q)
  <2>1. PICK conn : conn = Conn(a, q, k)
    OBVIOUS
  <2>2. conn.calls = k /\ conn.queue = q
    BY <1>2, <2>1
  <2>3. Pending(conn) = conn.calls[1].statements \o (conn.calls[2].statements \o conn.queue)
    BY <1>3, <2>2, PendingStatements
  <2> QED
    BY <1>1, <1>3, <2>1, <2>2, <2>3
<1> QED
  BY <1>2, <1>4, <1>5, <1>6 DEF ConnectionSound, PairSound

LEMMA CallParts ==
    ASSUME NEW op \in {"begin", "execute", "fetch", "commit", "rollback"},
           NEW s \in Seq(Statements)
    PROVE  Call(op, s) \in Calls /\ Call(op, s).op = op /\ Call(op, s).statements = s
BY DEF Call, Calls

(* What a method makes of a connection that is free.                       *)
Only(conn, ops) == \A i \in 1..Len(conn.calls) : conn.calls[i].op \in ops

(* A method that first sends the queue and then makes one call.            *)
Sends(conn, a, q, x) ==
    /\ ConnectionSound(conn) /\ conn.active = a
    /\ Pending(conn) = q \o x.statements
    /\ Only(conn, {"execute", x.op})
    /\ ~a => IsOne(conn.calls, x)

Flushed(calls, q, x) == calls = Flush(q) \o <<x>>

LEMMA FlushThen ==
    ASSUME NEW a \in BOOLEAN, NEW q \in Seq(Statements), a \/ q = <<>>,
           NEW e \in Seq(Statements), e = <<>>,
           NEW x \in Calls, Fits(a, e, x),
           NEW calls, Flushed(calls, q, x), NEW conn, conn = Conn(a, e, calls)
    PROVE  Sends(conn, a, q, x)
<1>1. conn.calls = calls /\ conn.active = a
  BY DEF Conn
<1>2. \A s \in Seq(Statements) : s \o e = s /\ e \o s = s
  BY ConcatEmptySeq
<1>3. x.statements \in Seq(Statements)
  BY DEF Calls
<1>4. PICK last : last = <<x>>
  OBVIOUS
<1>5. IsOne(last, x)
  BY <1>4, OneCall
<1>6. PICK sent : sent = Flush(q)
  OBVIOUS
<1>7. Joined(calls, sent, last)
  BY <1>4, <1>6 DEF Joined, Flushed
<1>8. CASE q = <<>>
  <2>1. sent = <<>>
    BY <1>6, <1>8 DEF Flush
  <2>2. IsOne(calls, x)
    BY <1>5, <1>7, <2>1, NothingAndOne
  <2>3. ConnectionSound(conn) /\ Pending(conn) = x.statements \o e
    BY <2>2, SingleCall
  <2>4. Only(conn, {"execute", x.op})
    BY <1>1, <2>2 DEF Only, IsOne
  <2>5. Pending(conn) = q \o x.statements
    BY <1>2, <1>3, <1>8, <2>3
  <2> QED
    BY <1>1, <2>2, <2>3, <2>4, <2>5, Zenon DEF Sends
<1>9. CASE q # <<>>
  <2>1. a
    BY <1>9
  <2>2. PICK f : f = Call("execute", q)
    OBVIOUS
  <2>3. IsPair(calls, f, x)
    <3>1. sent = <<f>>
      BY <1>6, <1>9, <2>2 DEF Flush
    <3>2. IsOne(sent, f)
      BY <3>1, OneCall
    <3> QED
      BY <1>5, <1>7, <3>2, OneAndOne
  <2>4. f \in Calls /\ f.op = "execute" /\ f.statements = q
    BY <2>2, CallParts
  <2>5. Fits(a, e, f)
    BY <2>1, <2>4 DEF Fits
  <2>6. ConnectionSound(conn) /\ Pending(conn) = q \o (x.statements \o e)
    <3>1. PICK r : r = x.statements
      OBVIOUS
    <3>2. Carries(f, q) /\ Executes(f) /\ Carries(x, r)
      BY <2>4, <3>1 DEF Carries, Executes
    <3>3. PairSound(conn, e, q, r)
      BY <2>1, <2>3, <2>5, <3>2, CallPair
    <3> QED
      BY <3>1, <3>3 DEF PairSound
  <2>7. Only(conn, {"execute", x.op})
    <3> SUFFICES ASSUME NEW i \in 1..2 PROVE calls[i].op \in {"execute", x.op}
      BY <1>1, <2>3 DEF Only, IsPair
    <3>1. i = 1 \/ i = 2
      OBVIOUS
    <3> QED
      BY <2>3, <2>4, <3>1 DEF IsPair
  <2>8. Pending(conn) = q \o x.statements
    BY <1>2, <1>3, <2>6
  <2> QED
    BY <1>1, <2>1, <2>6, <2>7, <2>8, Zenon DEF Sends
<1> QED
  BY <1>8, <1>9

(* Where a client that runs a method, or whose call is answered, leaves    *)
(* the others, and which calls it has left.                                *)
Alone(c) == \A d \in Clients \ {c} : connection'[d] = connection[d]

LEMMA ReplacesAlone ==
    ASSUME SessionSound, NEW c \in Clients, NEW conn, NEW opened, Replaces(c, conn, opened)
    PROVE  Alone(c) /\ connection'[c] = conn
BY OthersAsBefore DEF Alone

LEMMA FlushOf ==
    ASSUME SessionSound, NEW c \in Clients, NEW r, r = connection[c],
           NEW e, e = <<>>, NEW x, x \in Calls, Fits(r.active, e, x),
           NEW calls, Flushed(calls, r.queue, x),
           NEW conn, conn = WithBoth(r, e, calls)
    PROVE  Sends(conn, r.active, r.queue, x)
<1>1. ConnectionSound(r)
  BY DEF SessionSound
<1>2. PICK a \in BOOLEAN, q \in Seq(Statements) : a = r.active /\ q = r.queue
  BY <1>1, PartsOf
<1>3. a \/ q = <<>>
  BY <1>1, <1>2 DEF ConnectionSound
<1>4. e \in Seq(Statements)
  OBVIOUS
<1>5. PICK k : k = r.calls
  OBVIOUS
<1>6. r = Conn(a, q, k)
  BY <1>1, <1>2, <1>5, PartsOf
<1>7. conn = Conn(a, e, calls)
  BY <1>6, BothReplaced
<1>8. Fits(a, e, x) /\ Flushed(calls, q, x)
  BY <1>2
<1>9. Sends(conn, a, q, x)
  BY <1>3, <1>4, <1>7, <1>8, FlushThen
<1> QED
  BY <1>2, <1>9

(* The calls of a method that sends the queue and then calls op.           *)
Asks(c, op) ==
    /\ Free(c) /\ Alone(c)
    /\ connection'[c].active = connection[c].active
    /\ Only(connection'[c], {"execute", op})
    /\ ~connection[c].active =>
           Len(connection'[c].calls) = 1 /\ connection'[c].calls[1].op = op

LEMMA Asking ==
    ASSUME SessionSound, NEW c \in Clients, NEW conn, Start(c, conn),
           NEW q, q = connection[c].queue, NEW a, a = connection[c].active,
           NEW x, Sends(conn, a, q, x), NEW op, op = x.op
    PROVE  /\ SessionSound' /\ Asks(c, op) /\ Replaces(c, conn, server[c])
           /\ db' = db /\ told' = told /\ answer' = [answer EXCEPT ![c] = <<>>]
<1>1. ConnectionSound(conn) /\ conn.active = a
  BY DEF Sends
<1>2. /\ SessionSound' /\ Replaces(c, conn, server[c])
      /\ Free(c) /\ db' = db /\ told' = told /\ answer' = [answer EXCEPT ![c] = <<>>]
  BY <1>1, Starting
<1>3. Alone(c) /\ connection'[c] = conn
  BY <1>2, ReplacesAlone
<1>4. ~a => Len(conn.calls) = 1 /\ conn.calls[1].op = op
  BY DEF Sends, IsOne
<1>5. Only(conn, {"execute", op})
  BY DEF Sends
<1>6. Asks(c, op)
  BY <1>1, <1>2, <1>3, <1>4, <1>5, Zenon DEF Asks
<1> QED
  BY <1>2, <1>6

LEMMA AskingNothing ==
    ASSUME SessionSound, NEW c \in Clients, NEW op \in {"fetch", "commit"},
           NEW r, r = connection[c], NEW e, e = <<>>, NEW x, x = Call(op, <<>>),
           NEW calls, Flushed(calls, r.queue, x), op = "commit" => r.active,
           NEW conn, conn = WithBoth(r, e, calls), Start(c, conn)
    PROVE  SessionSound' /\ Asks(c, op) /\ Sql!Forget(c)
<1>1. ConnectionSound(r) /\ r.active \in BOOLEAN /\ r.queue \in Seq(Statements)
  BY PartsOf DEF SessionSound
<1>2. x \in Calls /\ x.op = op /\ x.statements = e
  BY DEF Call, Calls
<1>3. Fits(r.active, e, x)
  BY <1>1, <1>2 DEF Fits
<1>4. PICK q, a : q = r.queue /\ a = r.active
  OBVIOUS
<1>5. Sends(conn, a, q, x)
  BY <1>2, <1>3, <1>4, FlushOf
<1>6. ConnectionSound(conn) /\ conn.active = a /\ Pending(conn) = q \o x.statements
  BY <1>5 DEF Sends
<1>7. q \o e = q
  BY <1>1, <1>4, ConcatEmptySeq
<1>8. SessionSound' /\ Asks(c, op)
  BY <1>2, <1>4, <1>5, Asking
<1>9. Sql!Forget(c)
  BY <1>2, <1>4, <1>6, <1>7, Calling
<1> QED
  BY <1>8, <1>9

LEMMA FetchAsks ==
    ASSUME SessionSound, NEW c \in Clients, Fetch(c)
    PROVE  SessionSound' /\ Asks(c, "fetch") /\ Sql!Forget(c)
<1>1. PICK r, e, x : r = connection[c] /\ e = <<>> /\ x = Call("fetch", <<>>)
  OBVIOUS
<1>2. PICK calls : Flushed(calls, r.queue, x)
  BY DEF Flushed
<1>3. PICK conn : conn = WithBoth(r, e, calls)
  OBVIOUS
<1>4. Start(c, conn)
  BY <1>1, <1>2, <1>3 DEF Fetch, WithBoth, Flushed
<1> QED
  BY <1>1, <1>2, <1>3, <1>4, AskingNothing

LEMMA CommitAsks ==
    ASSUME SessionSound, NEW c \in Clients, Commit(c)
    PROVE  SessionSound' /\ Asks(c, "commit") /\ Sql!Forget(c) /\ connection[c].active
<1>1. PICK r, e, x : r = connection[c] /\ e = <<>> /\ x = Call("commit", <<>>)
  OBVIOUS
<1>2. PICK calls : Flushed(calls, r.queue, x)
  BY DEF Flushed
<1>3. PICK conn : conn = WithBoth(r, e, calls)
  OBVIOUS
<1>4. Start(c, conn) /\ r.active
  BY <1>1, <1>2, <1>3 DEF Commit, WithBoth, Flushed
<1> QED
  BY <1>1, <1>2, <1>3, <1>4, AskingNothing

(* What execute does with a statement.                                     *)
Executing(c, st) ==
    /\ Asks(c, "execute")
    /\ connection[c].active => Sql!Issue(c, st)
    /\ ~connection[c].active =>
           Sql!Forget(c) /\ connection'[c].calls[1].statements = <<st>>

IsSingle(one, st) == one = <<st>>
IsEmpty(e) == e = <<>>

(* The statement is sent by itself, after the queue.                       *)
LEMMA SendingOne ==
    ASSUME SessionSound, NEW c \in Clients, NEW st \in Statements,
           NEW r, r = connection[c], NEW e, IsEmpty(e), NEW one, IsSingle(one, st),
           NEW x, x = Call("execute", one),
           NEW calls, Flushed(calls, r.queue, x),
           NEW conn, conn = WithBoth(r, e, calls), Start(c, conn)
    PROVE  SessionSound' /\ Executing(c, st)
<1>0. e = <<>> /\ one = <<st>>
  BY DEF IsEmpty, IsSingle
<1>1. ConnectionSound(r) /\ r.active \in BOOLEAN /\ r.queue \in Seq(Statements)
  BY PartsOf DEF SessionSound
<1>2. one \in Seq(Statements) /\ Len(one) = 1
  BY <1>0
<1>3. x \in Calls /\ x.op = "execute" /\ x.statements = one
  BY <1>2 DEF Call, Calls
<1>4. Fits(r.active, e, x)
  BY <1>0, <1>1, <1>2, <1>3 DEF Fits
<1>5. PICK q, a : q = r.queue /\ a = r.active
  OBVIOUS
<1>6. Sends(conn, a, q, x)
  BY <1>0, <1>3, <1>4, <1>5, FlushOf
<1>7. /\ ConnectionSound(conn) /\ conn.active = a /\ Pending(conn) = q \o x.statements
      /\ ~a => IsOne(conn.calls, x)
  BY <1>6 DEF Sends
<1>8. SessionSound' /\ Asks(c, "execute") /\ Replaces(c, conn, server[c])
  BY <1>3, <1>5, <1>6, Asking
<1>9. r.active = TRUE => Sql!Issue(c, st)
  <2> SUFFICES ASSUME r.active = TRUE PROVE Sql!Issue(c, st)
    OBVIOUS
  <2>1. conn.active = TRUE /\ connection[c].active = TRUE
    BY <1>5, <1>7
  <2>2. Pending(conn) = connection[c].queue \o <<st>>
    BY <1>0, <1>3, <1>5, <1>7
  <2> QED
    BY <1>7, <2>1, <2>2, Issuing
<1>10. ~r.active => Sql!Forget(c) /\ connection'[c].calls[1].statements = one
  <2> SUFFICES ASSUME ~r.active
               PROVE  Sql!Forget(c) /\ connection'[c].calls[1].statements = one
    OBVIOUS
  <2>1. conn.active => Pending(conn) = connection[c].queue
    BY <1>5, <1>7
  <2>2. Sql!Forget(c)
    BY <1>5, <1>7, <2>1, Calling
  <2>3. connection'[c] = conn
    BY <1>8, ReplacesAlone
  <2>4. conn.calls[1] = x
    BY <1>5, <1>7 DEF IsOne
  <2> QED
    BY <1>3, <2>2, <2>3, <2>4
<1>11. connection[c].active => Sql!Issue(c, st)
  <2> SUFFICES ASSUME connection[c].active PROVE Sql!Issue(c, st)
    OBVIOUS
  <2>1. r.active = TRUE
    BY <1>1
  <2> QED
    BY <1>9, <2>1
<1>12. ~connection[c].active =>
          Sql!Forget(c) /\ connection'[c].calls[1].statements = <<st>>
  BY <1>0, <1>10
<1> QED
  BY <1>8, <1>11, <1>12, Zenon DEF Executing

(* The statement is queued, or completes a batch.                          *)
LEMMA Queueing ==
    ASSUME SessionSound, NEW c \in Clients, NEW st \in Statements,
           connection[c].active = TRUE, NEW conn, Start(c, conn),
           ConnectionSound(conn), conn.active = TRUE,
           Pending(conn) = connection[c].queue \o <<st>>, Only(conn, {"execute"})
    PROVE  SessionSound' /\ Asks(c, "execute") /\ Sql!Issue(c, st)
<1>1. SessionSound' /\ Sql!Issue(c, st)
  BY Issuing
<1>2. Replaces(c, conn, server[c]) /\ Free(c)
  BY Starting
<1>3. Alone(c) /\ connection'[c] = conn
  BY <1>2, ReplacesAlone
<1>4. Only(conn, {"execute", "execute"})
  BY DEF Only
<1>5. Asks(c, "execute")
  BY <1>2, <1>3, <1>4 DEF Asks
<1> QED
  BY <1>1, <1>5

Holds(a) == a

LEMMA QueuedAlone ==
    ASSUME NEW a \in BOOLEAN, Holds(a), NEW q, NEW more \in Seq(Statements),
           NEW e, e = <<>>, NEW r, r = Conn(a, q, e),
           NEW conn, conn = WithBoth(r, more, e)
    PROVE  /\ ConnectionSound(conn) /\ conn.active = a
           /\ Pending(conn) = more /\ Only(conn, {"execute"})
<1>1. conn = Conn(a, more, e)
  BY BothReplaced
<1>2. ConnectionSound(Conn(a, more, <<>>)) /\ Pending(Conn(a, more, <<>>)) = more
  BY NoCalls DEF Holds
<1>3. conn = Conn(a, more, <<>>)
  BY <1>1
<1>4. conn.active = a /\ conn.calls = <<>>
  BY <1>3 DEF Conn
<1>5. Only(conn, {"execute"})
  BY <1>4 DEF Only
<1> QED
  BY <1>2, <1>3, <1>4, <1>5

Batches(conn, a, s) ==
    /\ ConnectionSound(conn) /\ conn.active = a
    /\ Pending(conn) = s /\ Only(conn, {"execute"})

IsBatch(x, batch) == x = Call("execute", batch)

LEMMA BatchSent ==
    ASSUME NEW a \in BOOLEAN, Holds(a), NEW q, NEW batch \in Seq(Statements), NEW left \in Seq(Statements),
           NEW k, NEW r, r = Conn(a, q, k), NEW x, IsBatch(x, batch),
           NEW calls, IsOne(calls, x), NEW conn, conn = WithBoth(r, left, calls)
    PROVE  Batches(conn, a, batch \o left)
<1>1. conn = Conn(a, left, calls)
  BY BothReplaced
<1>2. x \in Calls /\ x.op = "execute" /\ x.statements = batch
  BY DEF Call, Calls, IsBatch
<1>3. Fits(a, left, x)
  BY <1>2 DEF Fits, Holds
<1>4. ConnectionSound(Conn(a, left, calls)) /\ Pending(Conn(a, left, calls)) = x.statements \o left
  BY <1>2, <1>3, SingleCall DEF Holds
<1>5. conn.active = a /\ conn.calls = calls
  BY <1>1 DEF Conn
<1>6. Only(conn, {"execute"})
  <2>1. Len(conn.calls) = 1 /\ conn.calls[1].op = "execute"
    BY <1>2, <1>5 DEF IsOne
  <2> QED
    BY <2>1 DEF Only
<1> QED
  BY <1>1, <1>2, <1>4, <1>5, <1>6 DEF Batches

LEMMA ExecuteAsks ==
    ASSUME SessionSound, NEW c \in Clients, NEW st \in Statements, Execute(c, st)
    PROVE  SessionSound' /\ Executing(c, st)
<1>1. PICK r : r = connection[c]
  OBVIOUS
<1>2. PICK e : IsEmpty(e)
  BY DEF IsEmpty
<1>3. PICK one : IsSingle(one, st)
  BY DEF IsSingle
<1>4. PICK x : x = Call("execute", one)
  OBVIOUS
<1>5. PICK q : q = r.queue
  OBVIOUS
<1> DEFINE same == q = <<>> \/ Head(q).sql = st.sql
           queue == IF same THEN Append(q, st) ELSE <<st>>
           sent == IF same THEN <<>> ELSE Flush(q)
<1>6. Start(c, IF ~r.active \/ ~ShouldBatch(st)
               THEN [r EXCEPT !.queue = <<>>, !.calls = Flush(q) \o <<Call("execute", <<st>>)>>]
               ELSE IF Len(queue) = BatchSize
               THEN [r EXCEPT !.queue = <<>>, !.calls = sent \o Flush(queue)]
               ELSE [r EXCEPT !.queue = queue, !.calls = sent])
  BY <1>1, <1>5 DEF Execute
<1>7. Free(c)
  BY <1>6 DEF Start
<1>8. /\ ConnectionSound(r) /\ r.active \in BOOLEAN /\ q \in Seq(Statements)
      /\ r = Conn(r.active, q, <<>>)
  BY <1>1, <1>5, <1>7, PartsOf DEF SessionSound, Free
<1>9. one \in Seq(Statements) /\ one = <<st>> /\ e = <<>>
  BY <1>2, <1>3 DEF IsSingle, IsEmpty
<1>10. Append(q, st) \in Seq(Statements) /\ Append(q, st) = q \o one
  BY <1>8, <1>9, AppendIsConcat
<1> HIDE DEF same
<1>11. ASSUME NEW calls, Flushed(calls, q, x), Start(c, WithBoth(r, e, calls))
       PROVE  SessionSound' /\ Executing(c, st)
  <2>1. PICK conn : conn = WithBoth(r, e, calls)
    OBVIOUS
  <2>2. Start(c, conn) /\ Flushed(calls, r.queue, x)
    BY <1>5, <1>11, <2>1
  <2> HIDE DEF queue, sent
  <2> QED
    BY <1>1, <1>2, <1>3, <1>4, <2>1, <2>2, SendingOne
<1>12. CASE ~r.active \/ ~ShouldBatch(st)
  <2>1. PICK calls : Flushed(calls, q, x)
    BY DEF Flushed
  <2>2. Start(c, WithBoth(r, e, calls))
    BY <1>4, <1>6, <1>9, <1>12, <2>1 DEF Flushed, WithBoth
  <2> QED
    BY <1>11, <2>1, <2>2
<1>13. CASE r.active /\ ShouldBatch(st) /\ Len(queue) = BatchSize /\ ~same
  <2>1. PICK calls : Flushed(calls, q, x)
    BY DEF Flushed
  <2>2. Flush(queue) = <<x>>
    <3>1. one # <<>>
      BY <1>9
    <3> QED
      BY <1>4, <1>9, <1>13, <3>1 DEF Flush
  <2>3. Start(c, WithBoth(r, e, calls))
    BY <1>6, <1>9, <1>13, <2>1, <2>2 DEF Flushed, WithBoth
  <2> QED
    BY <1>11, <2>1, <2>3
<1>14. PICK a \in BOOLEAN : a = r.active
  BY <1>8
<1>15. r = Conn(a, q, <<>>)
  BY <1>8, <1>14
<1>16. ASSUME r.active, NEW conn, Start(c, conn), ConnectionSound(conn), conn.active = a,
              Pending(conn) = q \o one, Only(conn, {"execute"})
       PROVE  SessionSound' /\ Executing(c, st)
  <2>1. connection[c].active = TRUE /\ conn.active = TRUE
    BY <1>1, <1>14, <1>16
  <2>2. Pending(conn) = connection[c].queue \o <<st>>
    BY <1>1, <1>5, <1>9, <1>16
  <2>3. SessionSound' /\ Asks(c, "execute") /\ Sql!Issue(c, st)
    BY <1>16, <2>1, <2>2, Queueing
  <2> QED
    BY <2>1, <2>3, Zenon DEF Executing
<1>17. CASE r.active /\ ShouldBatch(st) /\ Len(queue) = BatchSize /\ same
  <2>1. PICK batch \in Seq(Statements) : batch = Append(q, st)
    BY <1>10
  <2>2. PICK f : f = Call("execute", batch)
    OBVIOUS
  <2>3. batch # <<>> /\ queue = batch
    BY <1>8, <1>17, <2>1
  <2>4. PICK last : last = <<f>>
    OBVIOUS
  <2>5. IsOne(last, f)
    BY <2>4, OneCall
  <2>6. Flush(queue) = last
    BY <2>2, <2>3, <2>4 DEF Flush
  <2>7. PICK calls : Joined(calls, e, last)
    BY DEF Joined
  <2>8. IsOne(calls, f)
    BY <1>9, <2>5, <2>7, NothingAndOne
  <2>9. PICK conn : conn = WithBoth(r, e, calls)
    OBVIOUS
  <2>10. Start(c, conn)
    BY <1>6, <1>9, <1>17, <2>6, <2>7, <2>9 DEF Joined, WithBoth
  <2>11. Holds(a) /\ e \in Seq(Statements)
    BY <1>9, <1>14, <1>17 DEF Holds
  <2>12. PICK k : k = <<>>
    OBVIOUS
  <2>13. r = Conn(a, q, k)
    BY <1>15, <2>12
  <2> HIDE DEF queue, sent
  <2>14. IsBatch(f, batch)
    BY <2>2 DEF IsBatch
  <2>16. Batches(conn, a, batch \o e)
    BY <2>8, <2>9, <2>11, <2>13, <2>14, BatchSent
  <2>15. batch \o e = q \o one
    BY <1>9, <1>10, <2>1, ConcatEmptySeq
  <2> QED
    BY <1>16, <1>17, <2>10, <2>15, <2>16 DEF Batches
<1>18. CASE r.active /\ ShouldBatch(st) /\ Len(queue) # BatchSize /\ same
  <2>1. PICK more \in Seq(Statements) : more = Append(q, st)
    BY <1>10
  <2>2. PICK conn : conn = WithBoth(r, more, e)
    OBVIOUS
  <2>3. Start(c, conn)
    BY <1>6, <1>9, <1>18, <2>1, <2>2 DEF WithBoth
  <2>4. Holds(a) /\ r = Conn(a, q, e)
    BY <1>9, <1>14, <1>15, <1>18 DEF Holds
  <2> HIDE DEF queue, sent
  <2>5. /\ ConnectionSound(conn) /\ conn.active = a
        /\ Pending(conn) = more /\ Only(conn, {"execute"})
    BY <1>9, <2>2, <2>4, QueuedAlone
  <2> QED
    BY <1>10, <1>16, <1>18, <2>1, <2>3, <2>5
<1>19. CASE r.active /\ ShouldBatch(st) /\ Len(queue) # BatchSize /\ ~same
  <2>1. PICK f : f = Call("execute", q)
    OBVIOUS
  <2>2. q # <<>>
    BY <1>19 DEF same
  <2>3. PICK calls : calls = <<f>>
    OBVIOUS
  <2>4. IsOne(calls, f)
    BY <2>3, OneCall
  <2>5. sent = calls /\ queue = one
    BY <1>9, <1>19, <2>1, <2>2, <2>3 DEF Flush
  <2>6. PICK conn : conn = WithBoth(r, one, calls)
    OBVIOUS
  <2>7. Start(c, conn)
    BY <1>6, <1>19, <2>5, <2>6 DEF WithBoth
  <2>8. Holds(a)
    BY <1>14, <1>19 DEF Holds
  <2>9. PICK k : k = <<>>
    OBVIOUS
  <2>10. r = Conn(a, q, k)
    BY <1>15, <2>9
  <2> HIDE DEF queue, sent
  <2>11. IsBatch(f, q)
    BY <2>1 DEF IsBatch
  <2>12. Batches(conn, a, q \o one)
    BY <1>8, <1>9, <2>4, <2>6, <2>8, <2>10, <2>11, BatchSent
  <2> QED
    BY <1>16, <1>19, <2>7, <2>12 DEF Batches
<1> QED
  BY <1>12, <1>13, <1>17, <1>18, <1>19

-----------------------------------------------------------------------------
(* Beginning, rolling back, vanishing.                                     *)

WithCalls(r, calls) == [r EXCEPT !.calls = calls]

LEMMA CallsReplaced ==
    ASSUME NEW a, NEW q, NEW k, NEW r, r = Conn(a, q, k), NEW calls
    PROVE  WithCalls(r, calls) = Conn(a, q, calls)
BY DEF WithCalls, Conn

IsFalse(a) == a \in BOOLEAN /\ ~a

LEMMA NobodyIsSound ==
    ASSUME NEW a, IsFalse(a), NEW e, IsEmpty(e), NEW r, r = Conn(a, e, e)
    PROVE  ConnectionSound(r)
<1>1. e = <<>> /\ e \in Seq(Statements) /\ a \in BOOLEAN
  BY DEF IsFalse, IsEmpty
<1>2. ConnectionSound(Conn(a, e, <<>>))
  BY <1>1, NoCalls
<1> QED
  BY <1>1, <1>2

LEMMA NobodyCalls ==
    ASSUME NEW a, IsFalse(a), NEW e, IsEmpty(e), NEW op \in {"begin", "rollback"},
           NEW x, x = Call(op, e), NEW calls, IsOne(calls, x),
           NEW conn, conn = Conn(a, e, calls)
    PROVE  /\ ConnectionSound(conn) /\ ~conn.active /\ conn.active \in BOOLEAN
           /\ Only(conn, {op}) /\ Len(conn.calls) = 1 /\ conn.calls[1].op = op
<1>1. e \in Seq(Statements) /\ e = <<>> /\ a \in BOOLEAN
  BY DEF IsEmpty, IsFalse
<1>2. x \in Calls /\ x.op = op /\ x.statements = e
  BY <1>1 DEF Call, Calls
<1>3. Fits(a, e, x)
  BY <1>1, <1>2 DEF Fits, IsFalse
<1>4. ConnectionSound(conn)
  BY <1>1, <1>2, <1>3, SingleCall
<1>5. conn.active = a /\ conn.calls = calls
  BY DEF Conn
<1>6. Len(conn.calls) = 1 /\ conn.calls[1].op = op
  BY <1>2, <1>5 DEF IsOne
<1>7. Only(conn, {op})
  BY <1>6 DEF Only
<1> QED
  BY <1>4, <1>5, <1>6, <1>7 DEF IsFalse

LEMMA NoConnectionIs ==
    \E a, e : IsFalse(a) /\ IsEmpty(e) /\ NoConnection = Conn(a, e, e)
<1>1. PICK a : IsFalse(a) /\ a = FALSE
  BY DEF IsFalse
<1>2. PICK e : e = <<>>
  OBVIOUS
<1>3. IsEmpty(e)
  BY <1>2 DEF IsEmpty
<1>4. NoConnection = Conn(a, e, e)
  BY <1>1, <1>2 DEF NoConnection, Conn
<1> QED
  BY <1>1, <1>3, <1>4

LEMMA BeginAsks ==
    ASSUME SessionSound, NEW c \in Clients, Begin(c)
    PROVE  SessionSound' /\ Asks(c, "begin") /\ Sql!Forget(c) /\ ~connection[c].active
<1>1. PICK a, e : IsFalse(a) /\ IsEmpty(e) /\ NoConnection = Conn(a, e, e)
  BY NoConnectionIs
<1>2. PICK x : x = Call("begin", e)
  OBVIOUS
<1>3. PICK calls : calls = <<x>>
  OBVIOUS
<1>4. IsOne(calls, x)
  BY <1>3, OneCall
<1>5. PICK r : r = NoConnection
  OBVIOUS
<1>6. PICK conn : conn = WithCalls(r, calls)
  OBVIOUS
<1>7. conn = Conn(a, e, calls)
  BY <1>1, <1>5, <1>6, CallsReplaced
<1>8. Start(c, conn) /\ ~connection[c].active
  <2>1. e = <<>>
    BY <1>1 DEF IsEmpty
  <2> QED
    BY <1>2, <1>3, <1>5, <1>6, <2>1 DEF Begin, WithCalls
<1>9. /\ ConnectionSound(conn) /\ ~conn.active /\ conn.active \in BOOLEAN
      /\ Only(conn, {"begin"}) /\ Len(conn.calls) = 1 /\ conn.calls[1].op = "begin"
  BY <1>1, <1>2, <1>4, <1>7, NobodyCalls
<1>10. connection[c].active \in BOOLEAN
  BY PartsOf DEF SessionSound
<1>11. conn.active = connection[c].active /\ (conn.active => Pending(conn) = connection[c].queue)
  BY <1>8, <1>9, <1>10
<1>12. SessionSound' /\ Sql!Forget(c)
  BY <1>8, <1>9, <1>11, Calling
<1>13. Replaces(c, conn, server[c]) /\ Free(c)
  BY <1>8, <1>9, <1>11, Starting
<1>14. Alone(c) /\ connection'[c] = conn
  BY <1>13, ReplacesAlone
<1>15. Only(conn, {"execute", "begin"})
  BY <1>9 DEF Only
<1>16. Asks(c, "begin")
  BY <1>9, <1>11, <1>13, <1>14, <1>15, Zenon DEF Asks
<1> QED
  BY <1>8, <1>12, <1>16

(* What is left of a connection that has failed.                           *)
Given(conn) ==
    /\ ConnectionSound(conn) /\ ~conn.active
    /\ Only(conn, {"rollback"})

LEMMA NoConnectionGiven == Given(NoConnection) /\ NoConnection.calls = <<>>
<1>1. PICK a, e : IsFalse(a) /\ IsEmpty(e) /\ NoConnection = Conn(a, e, e)
  BY NoConnectionIs
<1>2. PICK r : r = NoConnection
  OBVIOUS
<1>3. ConnectionSound(r)
  BY <1>1, <1>2, NobodyIsSound
<1>4. r.active = a /\ r.calls = e
  BY <1>1, <1>2 DEF Conn
<1>5. ~r.active
  BY <1>1, <1>4 DEF IsFalse
<1>6. r.calls = <<>>
  BY <1>1, <1>4 DEF IsEmpty
<1>7. Only(r, {"rollback"})
  BY <1>6 DEF Only
<1> QED
  BY <1>2, <1>3, <1>5, <1>6, <1>7 DEF Given

LEMMA RolledBackGiven ==
    Given(RolledBack) /\ Len(RolledBack.calls) = 1 /\ RolledBack.calls[1].op = "rollback"
<1>1. PICK a, e : IsFalse(a) /\ IsEmpty(e) /\ NoConnection = Conn(a, e, e)
  BY NoConnectionIs
<1>2. PICK x : x = Call("rollback", e)
  OBVIOUS
<1>3. PICK calls : calls = <<x>>
  OBVIOUS
<1>4. IsOne(calls, x)
  BY <1>3, OneCall
<1>5. PICK r : r = NoConnection
  OBVIOUS
<1>6. PICK conn : conn = WithCalls(r, calls)
  OBVIOUS
<1>7. conn = Conn(a, e, calls)
  BY <1>1, <1>5, <1>6, CallsReplaced
<1>8. RolledBack = conn
  <2>1. e = <<>>
    BY <1>1 DEF IsEmpty
  <2> QED
    BY <1>2, <1>3, <1>5, <1>6, <2>1 DEF RolledBack, WithCalls
<1>9. /\ ConnectionSound(conn) /\ ~conn.active
      /\ Only(conn, {"rollback"}) /\ Len(conn.calls) = 1 /\ conn.calls[1].op = "rollback"
  BY <1>1, <1>2, <1>4, <1>7, NobodyCalls
<1> QED
  BY <1>8, <1>9 DEF Given

LEMMA Failing ==
    ASSUME SessionSound, NEW c \in Clients, NEW conn, NEW opened, Replaces(c, conn, opened),
           Given(conn), ServerSound(conn, opened),
           db' = db, answer' = answer, told' = [told EXCEPT ![c] = "failed"]
    PROVE  SessionSound' /\ Sql!Fail(c) /\ Alone(c) /\ connection'[c] = conn
<1>1. ConnectionSound(conn) /\ ~conn.active
  BY DEF Given
<1>2. /\ db' \in Rows /\ answer' \in [Clients -> {<<>>} \cup Rows]
      /\ told' \in [Clients -> {"nothing", "committed", "failed"}]
  BY DEF SessionSound
<1>3. SessionSound'
  BY <1>1, <1>2, StaysSound
<1>4. Transaction(conn, opened) = NoTxn
  BY <1>1 DEF Transaction
<1>5. Seen' = [Seen EXCEPT ![c] = NoTxn]
  BY <1>4, OthersAsBefore
<1>6. Sql!Fail(c)
  BY <1>5 DEF Sql!Fail, Sql!Tell, Sql!NoTxn, NoTxn, Seen
<1> QED
  BY <1>3, <1>6, ReplacesAlone

LEMMA NoTxnSound == ASSUME NEW conn, Given(conn) PROVE ServerSound(conn, NoTxn)
BY DEF Given, ServerSound, NoTxn

(* A client that has failed has nothing left to call but a rollback.       *)
Fails(c) == Sql!Fail(c) /\ Alone(c) /\ Only(connection'[c], {"rollback"})

LEMMA RollingBack ==
    ASSUME SessionSound, NEW c \in Clients, connection' = [connection EXCEPT ![c] = RolledBack],
           server' = server, db' = db, answer' = answer, told' = [told EXCEPT ![c] = "failed"]
    PROVE  SessionSound' /\ Fails(c)
<1>1. PICK conn : conn = RolledBack
  OBVIOUS
<1>2. Given(conn) /\ Len(conn.calls) = 1 /\ conn.calls[1].op = "rollback"
  BY <1>1, RolledBackGiven
<1>3. ServerSound(connection[c], server[c])
  BY DEF SessionSound
<1>4. conn.calls \in Seq(Calls) /\ ~conn.active
  BY <1>2, PartsOf DEF Given
<1>5. \E i \in DOMAIN conn.calls : conn.calls[i].op = "rollback"
  BY <1>2, <1>4
<1>6. ServerSound(conn, server[c])
  BY <1>3, <1>4, <1>5 DEF ServerSound
<1>7. Replaces(c, conn, server[c])
  BY <1>1 DEF Replaces, SessionSound
<1>8. SessionSound' /\ Sql!Fail(c) /\ Alone(c) /\ connection'[c] = conn
  BY <1>2, <1>6, <1>7, Failing
<1> QED
  BY <1>2, <1>8 DEF Fails, Given

LEMMA Closing ==
    ASSUME SessionSound, NEW c \in Clients, connection' = [connection EXCEPT ![c] = NoConnection],
           Close(c), db' = db, answer' = answer, told' = [told EXCEPT ![c] = "failed"]
    PROVE  SessionSound' /\ Fails(c)
<1>1. PICK conn : conn = NoConnection
  OBVIOUS
<1>2. Given(conn)
  BY <1>1, NoConnectionGiven
<1>3. ServerSound(conn, NoTxn)
  BY <1>2, NoTxnSound
<1>4. Replaces(c, conn, NoTxn)
  BY <1>1 DEF Replaces, Close
<1>5. SessionSound' /\ Sql!Fail(c) /\ Alone(c) /\ connection'[c] = conn
  BY <1>2, <1>3, <1>4, Failing
<1> QED
  BY <1>2, <1>5 DEF Fails, Given

LEMMA AbandonFails ==
    ASSUME SessionSound, NEW c \in Clients, Abandon(c)
    PROVE  SessionSound' /\ Fails(c)
BY RollingBack DEF Abandon

LEMMA VanishFails ==
    ASSUME SessionSound, NEW c \in Clients, Vanish(c)
    PROVE  SessionSound' /\ Fails(c)
BY Closing DEF Vanish

LEMMA LostFails ==
    ASSUME SessionSound, NEW c \in Clients, Lost(c)
    PROVE  SessionSound' /\ Fails(c)
<1> DEFINE active == connection[c].active /\ Head(connection[c].calls).op # "commit"
<1>1. /\ db' = db /\ answer' = answer /\ told' = [told EXCEPT ![c] = "failed"]
      /\ connection' = [connection EXCEPT ![c] = IF active THEN RolledBack ELSE NoConnection]
      /\ IF active THEN server' = server ELSE Close(c)
  BY DEF Lost, Raise
<1> HIDE DEF active
<1>2. CASE active
  BY <1>1, <1>2, RollingBack
<1>3. CASE ~active
  BY <1>1, <1>3, Closing
<1> QED
  BY <1>2, <1>3

(* The call at hand.                                                       *)
First(c, op) == connection[c].calls # <<>> /\ connection[c].calls[1].op = op

LEMMA FirstCall ==
    ASSUME SessionSound, NEW c \in Clients, ~Free(c)
    PROVE  \E k \in Seq(Calls), x \in Calls :
             /\ k = connection[c].calls /\ x = Head(k) /\ x = k[1] /\ Len(k) >= 1
             /\ connection[c].active \in BOOLEAN
             /\ Len(k) <= (IF connection[c].active THEN 2 ELSE 1)
             /\ Fits(connection[c].active, connection[c].queue, x)
             /\ x.op # "execute" => Len(k) = 1
<1>1. ConnectionSound(connection[c]) /\ connection[c].calls # <<>>
  BY DEF SessionSound, Free
<1>2. PICK k : k = connection[c].calls
  OBVIOUS
<1>3. k \in Seq(Calls) /\ k # <<>> /\ connection[c].active \in BOOLEAN
  BY <1>1, <1>2, PartsOf
<1>4. CallsSound(connection[c].active, connection[c].queue, k)
  BY <1>1, <1>2 DEF ConnectionSound
<1>5. PICK x : x = k[1]
  OBVIOUS
<1>6. Len(k) >= 1 /\ Len(k) \in Nat /\ x \in Calls /\ x = Head(k) /\ 1 \in 1..Len(k)
  BY <1>3, <1>5
<1>7. /\ Fits(connection[c].active, connection[c].queue, x)
      /\ x.op # "execute" => Len(k) = 1
      /\ Len(k) <= (IF connection[c].active THEN 2 ELSE 1)
  BY <1>4, <1>5, <1>6 DEF CallsSound
<1> QED
  BY <1>2, <1>3, <1>5, <1>6, <1>7

LEMMA NothingOpen ==
    ASSUME SessionSound, NEW c \in Clients, ~connection[c].active,
           Free(c) \/ connection[c].calls[1].op # "rollback"
    PROVE  ~server[c].open
<1>1. ServerSound(connection[c], server[c]) /\ ConnectionSound(connection[c])
  BY DEF SessionSound
<1>2. CallsSound(connection[c].active, connection[c].queue, connection[c].calls)
  BY <1>1 DEF ConnectionSound
<1>3. connection[c].calls \in Seq(Calls) /\ Len(connection[c].calls) <= 1
  BY <1>2 DEF CallsSound
<1>4. \A i \in DOMAIN connection[c].calls : connection[c].calls[i].op # "rollback"
  <2> SUFFICES ASSUME NEW i \in DOMAIN connection[c].calls
               PROVE  connection[c].calls[i].op # "rollback"
    OBVIOUS
  <2>1. i = 1 /\ connection[c].calls # <<>>
    BY <1>3
  <2> QED
    BY <2>1 DEF Free
<1> QED
  BY <1>1, <1>4 DEF ServerSound

LEMMA Raising ==
    ASSUME SessionSound, NEW c \in Clients, ~Free(c), Head(connection[c].calls).op = "execute",
           Raise(c, connection[c].active), server' = server, db' = db, answer' = answer
    PROVE  SessionSound' /\ Fails(c)
<1>1. connection[c].calls[1].op # "rollback"
  BY FirstCall
<1>2. told' = [told EXCEPT ![c] = "failed"]
  BY DEF Raise
<1>3. CASE connection[c].active
  BY <1>2, <1>3, RollingBack DEF Raise
<1>4. CASE ~connection[c].active
  <2>1. PICK conn : conn = NoConnection
    OBVIOUS
  <2>2. Given(conn)
    BY <2>1, NoConnectionGiven
  <2>3. ServerSound(connection[c], server[c]) /\ ~server[c].open
    BY <1>1, <1>4, NothingOpen DEF SessionSound
  <2>4. ServerSound(conn, server[c])
    BY <2>2, <2>3 DEF ServerSound, Given
  <2>5. Replaces(c, conn, server[c])
    BY <1>4, <2>1 DEF Replaces, Raise, SessionSound
  <2>6. SessionSound' /\ Sql!Fail(c) /\ Alone(c) /\ connection'[c] = conn
    BY <1>2, <2>2, <2>4, <2>5, Failing
  <2> QED
    BY <2>2, <2>6 DEF Fails, Given
<1> QED
  BY <1>3, <1>4

LEMMA CancelledFails ==
    ASSUME SessionSound, NEW c \in Clients, Cancelled(c)
    PROVE  SessionSound' /\ Fails(c)
BY Raising DEF Cancelled

-----------------------------------------------------------------------------
(* The answers to calls.                                                   *)

WithActive(r, b, calls) == [r EXCEPT !.active = b, !.calls = calls]

LEMMA ActiveReplaced ==
    ASSUME NEW a, NEW q, NEW k, NEW r, r = Conn(a, q, k), NEW b, NEW calls
    PROVE  WithActive(r, b, calls) = Conn(b, q, calls)
<1>1. PICK s : s = [r EXCEPT !.active = b]
  OBVIOUS
<1>2. s = Conn(b, q, k)
  BY <1>1 DEF Conn
<1>3. WithActive(r, b, calls) = [s EXCEPT !.calls = calls]
  BY <1>1 DEF WithActive
<1>4. [s EXCEPT !.calls = calls] = Conn(b, q, calls)
  BY <1>2 DEF Conn
<1> QED
  BY <1>3, <1>4

LEMMA Returning ==
    ASSUME SessionSound, NEW c \in Clients, NEW b, Return(c, b)
    PROVE  connection' = [connection EXCEPT ![c] =
                            Conn(b, connection[c].queue, Tail(connection[c].calls))]
<1>1. PICK a, q, k, r : r = connection[c] /\ a = r.active /\ q = r.queue /\ k = r.calls
  OBVIOUS
<1>2. r = Conn(a, q, k)
  BY <1>1, PartsOf DEF SessionSound
<1>3. connection' = [connection EXCEPT ![c] = WithActive(r, b, Tail(k))]
  BY <1>1 DEF Return, SessionSound, WithActive
<1>4. WithActive(r, b, Tail(k)) = Conn(b, q, Tail(k))
  BY <1>2, ActiveReplaced
<1> QED
  BY <1>1, <1>3, <1>4

(* What is left of the calls when the first is answered.                   *)
Answered(c) == Alone(c) /\ connection'[c].calls = Tail(connection[c].calls)

LEMMA TailOfOne ==
    ASSUME NEW S, NEW k \in Seq(S), Len(k) = 1
    PROVE  Tail(k) = <<>>
<1>1. k # <<>>
  OBVIOUS
<1>2. PICK u : u = Tail(k)
  OBVIOUS
<1>3. u \in Seq(S) /\ Len(u) = 0
  BY <1>1, <1>2, HeadTailProperties
<1>4. u = <<>>
  BY <1>3, EmptySeq
<1> QED
  BY <1>2, <1>4

LEMMA TailOfTwo ==
    ASSUME NEW S, NEW k \in Seq(S), Len(k) = 2
    PROVE  Tail(k) \in Seq(S) /\ Len(Tail(k)) = 1 /\ Tail(k)[1] = k[1 + 1]
<1>1. k # <<>>
  OBVIOUS
<1>2. /\ Tail(k) \in Seq(S) /\ Len(Tail(k)) = Len(k) - 1
      /\ \A i \in 1..Len(Tail(k)) : Tail(k)[i] = k[i + 1]
  BY <1>1, HeadTailProperties
<1>3. Len(Tail(k)) = 1
  BY <1>2
<1>4. Tail(k)[1] = k[1 + 1]
  BY <1>2, <1>3
<1> QED
  BY <1>2, <1>3, <1>4

LEMMA NoEffects == <<>> \in Effects /\ After(<<>>, <<>>) = <<>>
<1>1. <<>> \in [{} -> 0..MaxValue]
  OBVIOUS
<1>2. <<>> \in Effects
  BY <1>1 DEF Effects
<1>3. After(<<>>, <<>>) = <<>>
  BY <1>2, EffectsAreFunctions, AfterNothing
<1> QED
  BY <1>2, <1>3

(* A call that is alone and carries nothing is answered.                   *)
LEMMA LastAnswered ==
    ASSUME SessionSound, NEW c \in Clients, ~Free(c), NEW b \in BOOLEAN, Return(c, b),
           Head(connection[c].calls).op # "execute",
           b \/ ~connection[c].active \/ connection[c].queue = <<>>,
           NEW opened, server' = [server EXCEPT ![c] = opened]
    PROVE  \E conn : /\ Replaces(c, conn, opened) /\ ConnectionSound(conn)
                     /\ conn.active = b /\ conn.calls = <<>>
                     /\ Pending(conn) = connection[c].queue
                     /\ Answered(c)
<1>1. PICK q, k : q = connection[c].queue /\ k = connection[c].calls
  OBVIOUS
<1>2. k \in Seq(Calls) /\ Len(k) = 1
  BY <1>1, FirstCall
<1>3. Tail(k) = <<>>
  BY <1>2, TailOfOne
<1>4. q \in Seq(Statements) /\ (~connection[c].active => q = <<>>)
  BY <1>1, PartsOf DEF SessionSound, ConnectionSound
<1>5. PICK conn : conn = Conn(b, q, <<>>)
  OBVIOUS
<1>6. Replaces(c, conn, opened)
  <2>1. connection' = [connection EXCEPT ![c] = Conn(b, q, Tail(k))]
    BY <1>1, Returning
  <2> QED
    BY <1>3, <1>5, <2>1 DEF Replaces
<1>7. b \/ q = <<>>
  BY <1>1, <1>4
<1>8. ConnectionSound(conn) /\ Pending(conn) = q
  BY <1>4, <1>5, <1>7, NoCalls
<1>9. conn.active = b /\ conn.calls = <<>>
  BY <1>5 DEF Conn
<1>10. Answered(c)
  BY <1>1, <1>3, <1>6, <1>9, ReplacesAlone DEF Answered
<1> QED
  BY <1>1, <1>6, <1>8, <1>9, <1>10

LEMMA OpenedBegins ==
    ASSUME SessionSound, NEW c \in Clients, ~Free(c), Opened(c)
    PROVE  /\ SessionSound' /\ Sql!Begin(c) /\ Answered(c) /\ First(c, "begin")
           /\ Seen'[c] = [open |-> TRUE, effects |-> <<>>]
<1>1. /\ Head(connection[c].calls).op = "begin"
      /\ Return(c, TRUE)
      /\ told' = [told EXCEPT ![c] = "nothing"] /\ db' = db /\ answer' = answer
  BY DEF Opened
<1>2. PICK opened : opened = [open |-> TRUE, effects |-> <<>>]
  OBVIOUS
<1>3. server' = [server EXCEPT ![c] = opened]
  BY <1>2 DEF Opened
<1>4. PICK b \in BOOLEAN : b = TRUE /\ Holds(b)
  BY DEF Holds
<1>5. First(c, "begin") /\ ~connection[c].active
  BY <1>1, FirstCall DEF First, Fits, Free
<1>6. Return(c, b) /\ b
  BY <1>1, <1>4
<1>7. PICK conn : /\ Replaces(c, conn, opened) /\ ConnectionSound(conn)
                  /\ conn.active = b /\ conn.calls = <<>>
                  /\ Pending(conn) = connection[c].queue
                  /\ Answered(c)
  BY <1>1, <1>3, <1>6, LastAnswered
<1>8. connection[c].queue = <<>>
  BY <1>5 DEF SessionSound, ConnectionSound
<1>9. Transaction(conn, opened) = opened
  BY <1>2, <1>6, <1>7, <1>8, NoEffects DEF Transaction
<1>10. Seen' = [Seen EXCEPT ![c] = opened] /\ Seen[c] = NoTxn
  BY <1>5, <1>7, <1>9, OthersAsBefore DEF Seen, Transaction
<1>11. ServerSound(conn, opened)
  BY <1>2, <1>6, <1>7, NoEffects DEF ServerSound
<1>12. /\ db' \in Rows /\ answer' \in [Clients -> {<<>>} \cup Rows]
       /\ told' \in [Clients -> {"nothing", "committed", "failed"}]
  BY <1>1 DEF SessionSound
<1>13. SessionSound'
  BY <1>7, <1>11, <1>12, StaysSound
<1>14. Sql!Begin(c)
  BY <1>1, <1>2, <1>10 DEF Sql!Begin, Sql!Tell, Seen, NoTxn
<1> QED
  BY <1>2, <1>5, <1>7, <1>10, <1>13, <1>14 DEF Seen

LEMMA DiscardedSilently ==
    ASSUME SessionSound, NEW c \in Clients, ~Free(c), Discarded(c)
    PROVE  /\ SessionSound' /\ Answered(c) /\ Seen' = Seen
           /\ db' = db /\ answer' = answer /\ told' = told
<1>1. /\ Head(connection[c].calls).op = "rollback"
      /\ Return(c, FALSE) /\ server' = [server EXCEPT ![c] = NoTxn]
      /\ told' = told /\ db' = db /\ answer' = answer
  BY DEF Discarded, Close
<1>2. PICK b \in BOOLEAN : b = FALSE /\ IsFalse(b)
  BY DEF IsFalse
<1>3. ~connection[c].active
  BY <1>1, FirstCall DEF Fits
<1>4. PICK conn : /\ Replaces(c, conn, NoTxn) /\ ConnectionSound(conn)
                  /\ conn.active = b /\ conn.calls = <<>> /\ Answered(c)
  BY <1>1, <1>2, <1>3, LastAnswered
<1>5. Transaction(conn, NoTxn) = Transaction(connection[c], server[c])
  BY <1>2, <1>3, <1>4 DEF Transaction
<1>6. Seen' = Seen
  BY <1>4, <1>5, SameTransaction
<1>7. ServerSound(conn, NoTxn)
  BY <1>2, <1>4 DEF ServerSound, NoTxn
<1>8. SessionSound'
  BY <1>1, <1>4, <1>7, StaysSound DEF SessionSound
<1> QED
  BY <1>1, <1>4, <1>6, <1>8

(* What the server has open for a connection that is active.               *)
LEMMA OpenForActive ==
    ASSUME SessionSound, NEW c \in Clients, connection[c].active
    PROVE  /\ server[c].open /\ server[c].effects \in Effects
           /\ server[c] = [open |-> TRUE, effects |-> server[c].effects]
<1>1. PICK opened : opened = server[c]
  OBVIOUS
<1>2. opened \in {NoTxn} \cup [open : {TRUE}, effects : Effects] /\ opened.open
  BY <1>1 DEF SessionSound, ServerSound
<1>3. opened # NoTxn
  BY <1>2 DEF NoTxn
<1>4. opened \in [open : {TRUE}, effects : Effects]
  BY <1>2, <1>3
<1> QED
  BY <1>1, <1>4

(* A read or a commit finds everything sent.                               *)
LEMMA EverythingSent ==
    ASSUME SessionSound, NEW c \in Clients, ~Free(c),
           NEW op \in {"fetch", "commit"}, Head(connection[c].calls).op = op
    PROVE  /\ First(c, op) /\ connection[c].queue = <<>>
           /\ connection[c].active \in BOOLEAN
           /\ op = "commit" => connection[c].active
           /\ connection[c].active =>
                 Seen[c] = [open |-> TRUE, effects |-> server[c].effects]
           /\ ~connection[c].active => Seen[c] = NoTxn /\ ~server[c].open
<1>1. PICK k \in Seq(Calls), x \in Calls :
         /\ k = connection[c].calls /\ x = Head(k) /\ x = k[1] /\ Len(k) >= 1
         /\ connection[c].active \in BOOLEAN
         /\ Len(k) <= (IF connection[c].active THEN 2 ELSE 1)
         /\ Fits(connection[c].active, connection[c].queue, x)
         /\ x.op # "execute" => Len(k) = 1
  BY FirstCall
<1>2. PICK conn, q : conn = connection[c] /\ q = conn.queue
  OBVIOUS
<1>3. x.op = op /\ x.statements = <<>> /\ q = <<>> /\ Len(k) = 1
  BY <1>1, <1>2 DEF Fits
<1>4. Pending(conn) = <<>>
  <2>1. conn.calls = k /\ q \in Seq(Statements)
    BY <1>1, <1>2, PartsOf DEF SessionSound
  <2>2. Pending(conn) = k[1].statements \o q
    BY <1>2, <1>3, <2>1, PendingStatements
  <2> QED
    BY <1>1, <1>3, <2>2
<1>5. connection[c].active =>
        Seen[c] = [open |-> TRUE, effects |-> server[c].effects]
  <2> SUFFICES ASSUME connection[c].active
               PROVE  Seen[c] = [open |-> TRUE, effects |-> server[c].effects]
    OBVIOUS
  <2>1. PICK e \in Effects : e = server[c].effects
    BY OpenForActive
  <2>2. After(e, <<>>) = e
    BY AfterNothing, EffectsAreFunctions
  <2> QED
    BY <1>2, <1>4, <2>1, <2>2 DEF Seen, Transaction
<1>6. First(c, op)
  BY <1>1, <1>3 DEF First, Free
<1>7. op = "commit" => connection[c].active
  BY <1>1, <1>3 DEF Fits
<1>8. ~connection[c].active => Seen[c] = NoTxn /\ ~server[c].open
  <2> SUFFICES ASSUME ~connection[c].active PROVE Seen[c] = NoTxn /\ ~server[c].open
    OBVIOUS
  <2>1. connection[c].calls[1].op # "rollback"
    BY <1>1, <1>3
  <2> QED
    BY <2>1, NothingOpen DEF Seen, Transaction
<1> QED
  BY <1>1, <1>2, <1>3, <1>5, <1>6, <1>7, <1>8

LEMMA OverTyped ==
    ASSUME NEW e \in Effects, NEW rows \in Rows
    PROVE  Over(e, rows) \in Rows /\ Sql!Over(e, rows) = Over(e, rows)
BY DEF Over, Sql!Over, Rows, Effects

LEMMA FetchedReads ==
    ASSUME SessionSound, NEW c \in Clients, ~Free(c), Fetched(c)
    PROVE  SessionSound' /\ Sql!Read(c) /\ Answered(c) /\ First(c, "fetch") /\ Seen' = Seen
<1>0. PICK opened : opened = server[c]
  OBVIOUS
<1>1. /\ Head(connection[c].calls).op = "fetch"
      /\ answer' = [answer EXCEPT ![c] = IF server[c].open THEN Over(server[c].effects, db) ELSE db]
      /\ Return(c, connection[c].active)
      /\ db' = db /\ server' = server /\ told' = told
  BY DEF Fetched
<1>2. /\ First(c, "fetch") /\ connection[c].queue = <<>> /\ connection[c].active \in BOOLEAN
      /\ connection[c].active => Seen[c] = [open |-> TRUE, effects |-> server[c].effects]
      /\ ~connection[c].active => Seen[c] = NoTxn /\ ~server[c].open
  BY <1>1, EverythingSent
<1>3. server' = [server EXCEPT ![c] = server[c]]
  BY <1>1 DEF SessionSound
<1>4. PICK b \in BOOLEAN : b = connection[c].active
  BY <1>2
<1>5. PICK conn : /\ Replaces(c, conn, opened) /\ ConnectionSound(conn)
                  /\ conn.active = b /\ conn.calls = <<>>
                  /\ Pending(conn) = connection[c].queue
                  /\ Answered(c)
  BY <1>0, <1>1, <1>2, <1>3, <1>4, LastAnswered
<1>6. ASSUME connection[c].active
      PROVE  server[c].open /\ server[c].effects \in Effects
  BY <1>6, OpenForActive
<1>7. Transaction(conn, opened) = Seen[c]
  <2>1. CASE b
    <3>1. PICK e \in Effects : e = opened.effects
      BY <1>0, <1>4, <1>6, <2>1
    <3>2. After(e, <<>>) = e
      BY AfterNothing, EffectsAreFunctions
    <3> QED
      BY <1>0, <1>2, <1>4, <1>5, <2>1, <3>1, <3>2 DEF Transaction
  <2>2. CASE ~b
    BY <1>2, <1>4, <1>5, <2>2 DEF Transaction
  <2> QED
    BY <2>1, <2>2
<1>8. Seen' = Seen
  BY <1>0, <1>4, <1>5, <1>7, SameTransaction DEF Seen
<1>9. ServerSound(conn, opened)
  <2>1. ServerSound(connection[c], server[c])
    BY DEF SessionSound
  <2>2. opened \in {NoTxn} \cup [open : {TRUE}, effects : Effects]
    BY <1>0, <1>4, <2>1 DEF ServerSound
  <2>3. b => opened.open
    BY <1>0, <1>4, <1>6
  <2>4. ~b => ~opened.open
    BY <1>0, <1>2, <1>4
  <2> QED
    BY <1>5, <2>2, <2>3, <2>4 DEF ServerSound
<1>10. PICK rows \in Rows : rows = IF server[c].open THEN Over(server[c].effects, db) ELSE db
  <2>1. db \in Rows
    BY DEF SessionSound
  <2>2. CASE server[c].open
    <3>1. server[c].effects \in Effects
      BY <1>2, <1>6, <2>2
    <3> QED
      BY <2>1, <2>2, <3>1, OverTyped
  <2>3. CASE ~server[c].open
    BY <2>1, <2>3
  <2> QED
    BY <2>2, <2>3
<1>11. answer' \in [Clients -> {<<>>} \cup Rows]
  BY <1>1, <1>10 DEF SessionSound
<1>12. SessionSound'
  BY <1>1, <1>5, <1>9, <1>11, StaysSound DEF SessionSound
<1>13. rows = IF Seen[c].open THEN Sql!Over(Seen[c].effects, db) ELSE db
  <2>1. CASE b
    <3>1. PICK e \in Effects : e = server[c].effects /\ server[c].open
      BY <1>4, <1>6, <2>1
    <3>2. Seen[c] = [open |-> TRUE, effects |-> e]
      BY <1>2, <1>4, <2>1, <3>1
    <3>3. Seen[c].open /\ Seen[c].effects = e
      BY <3>2
    <3>4. rows = Over(e, db) /\ Sql!Over(e, db) = Over(e, db)
      BY <1>10, <3>1, OverTyped DEF SessionSound
    <3> QED
      BY <3>3, <3>4
  <2>2. CASE ~b
    BY <1>2, <1>4, <1>10, <2>2 DEF NoTxn
  <2> QED
    BY <2>1, <2>2
<1>14. Sql!Read(c)
  BY <1>1, <1>8, <1>10, <1>13 DEF Sql!Read, Seen
<1> QED
  BY <1>2, <1>5, <1>8, <1>12, <1>14

LEMMA CommittedCommits ==
    ASSUME SessionSound, NEW c \in Clients, ~Free(c), Committed(c)
    PROVE  SessionSound' /\ Sql!Commit(c) /\ Answered(c) /\ First(c, "commit")
<1>1. /\ Head(connection[c].calls).op = "commit"
      /\ db' = Over(server[c].effects, db)
      /\ server' = [server EXCEPT ![c] = NoTxn] /\ answer' = answer
  BY DEF Committed, Close
<1>2. /\ First(c, "commit") /\ connection[c].queue = <<>> /\ connection[c].active
      /\ Seen[c] = [open |-> TRUE, effects |-> server[c].effects]
  BY <1>1, EverythingSent
<1>3. PICK outcome \in {"committed", "failed"} :
         told' = [told EXCEPT ![c] = outcome]
  BY DEF Committed, Raise
<1>4. PICK conn : /\ Replaces(c, conn, NoTxn) /\ ConnectionSound(conn)
                  /\ ~conn.active /\ Answered(c)
  <2>1. CASE Return(c, FALSE)
    <3>1. PICK b \in BOOLEAN : b = FALSE
      OBVIOUS
    <3>2. PICK conn : /\ Replaces(c, conn, NoTxn) /\ ConnectionSound(conn)
                      /\ conn.active = b /\ Answered(c)
      BY <1>1, <1>2, <2>1, <3>1, LastAnswered
    <3> QED
      BY <3>1, <3>2
  <2>2. CASE Raise(c, FALSE)
    <3>1. PICK conn : conn = NoConnection
      OBVIOUS
    <3>2. ConnectionSound(conn) /\ ~conn.active /\ conn.calls = <<>>
      BY <3>1, NoConnectionGiven DEF Given
    <3>3. Replaces(c, conn, NoTxn)
      BY <1>1, <2>2, <3>1 DEF Replaces, Raise
    <3>4. Tail(connection[c].calls) = <<>>
      BY <1>1, FirstCall, TailOfOne
    <3>5. Answered(c)
      BY <3>2, <3>3, <3>4, ReplacesAlone DEF Answered
    <3> QED
      BY <3>2, <3>3, <3>5
  <2> QED
    BY <2>1, <2>2 DEF Committed
<1>5. PICK e \in Effects : e = server[c].effects
  BY <1>2, OpenForActive
<1>6. Over(e, db) \in Rows /\ Sql!Over(e, db) = Over(e, db)
  BY OverTyped DEF SessionSound
<1>7. ServerSound(conn, NoTxn)
  BY <1>4 DEF ServerSound, NoTxn
<1>8. told' \in [Clients -> {"nothing", "committed", "failed"}]
  BY <1>3 DEF SessionSound
<1>9. SessionSound'
  BY <1>1, <1>4, <1>5, <1>6, <1>7, <1>8, StaysSound DEF SessionSound
<1>10. Transaction(conn, NoTxn) = NoTxn
  BY <1>4 DEF Transaction
<1>11. Seen' = [Seen EXCEPT ![c] = NoTxn]
  BY <1>4, <1>10, OthersAsBefore
<1>12. Sql!Commit(c)
  <2>1. Sql!Tell(c, "committed") \/ Sql!Tell(c, "failed")
    BY <1>3 DEF Sql!Tell
  <2>2. Seen[c].open /\ db' = Sql!Over(Seen[c].effects, db)
    BY <1>1, <1>2, <1>5, <1>6
  <2> QED
    BY <1>1, <1>11, <2>1, <2>2 DEF Sql!Commit, Sql!NoTxn, NoTxn, Seen
<1> QED
  BY <1>2, <1>4, <1>9, <1>12

(* The server runs the statements of a call once, or twice.                *)
Same(x, y) == x = y

Repeated(t, s) == t = s \/ t = s \o s

LEMMA RanRepeated ==
    ASSUME NEW e \in Effects, NEW s \in Seq(Statements), NEW t, Repeated(t, s)
    PROVE  /\ Ran(e, t).effects \in Effects /\ Ran(e, t).ok \in BOOLEAN
           /\ Ran(e, t).ok => Ran(e, t).effects = After(e, s)
<1>1. t \in Seq(Statements)
  BY ConcatProperties DEF Repeated
<1>2. After(e, t) = After(e, s)
  BY AfterTwice DEF Repeated
<1>3. Ran(e, t).ok \in BOOLEAN
  BY DEF Ran
<1> QED
  BY <1>1, <1>2, <1>3, RanTyped

Opening(open, e) == [open |-> open, effects |-> e]
WithEffects(r, f) == [r EXCEPT !.effects = f]

LEMMA EffectsSet ==
    ASSUME NEW open, NEW e, NEW r, r = Opening(open, e), NEW f
    PROVE  WithEffects(r, f) = Opening(open, f)
BY DEF Opening, WithEffects

LEMMA EffectsReplaced ==
    ASSUME SessionSound, NEW c \in Clients, NEW e, server[c] = [open |-> TRUE, effects |-> e],
           NEW f, server' = [server EXCEPT ![c].effects = f]
    PROVE  server' = [server EXCEPT ![c] = [open |-> TRUE, effects |-> f]]
<1>1. PICK r : r = server[c]
  OBVIOUS
<1>2. server' = [server EXCEPT ![c] = WithEffects(r, f)]
  BY <1>1 DEF WithEffects
<1>0. PICK open : open = TRUE
  OBVIOUS
<1>3. r = Opening(open, e)
  BY <1>0, <1>1 DEF Opening
<1>4. WithEffects(r, f) = Opening(open, f)
  BY <1>3, EffectsSet
<1>5. Opening(open, f) = [open |-> TRUE, effects |-> f]
  BY <1>0 DEF Opening
<1> QED
  BY <1>2, <1>4, <1>5

(* The calls left when the first of a transaction is answered.             *)
Sent(c, s) == s = Head(connection[c].calls).statements
Remains(conn, c, a) == conn = Conn(a, connection[c].queue, Tail(connection[c].calls))

RestIsSound(conn, c, s) ==
    \E rest \in Seq(Statements) :
       /\ ConnectionSound(conn) /\ s \in Seq(Statements)
       /\ Pending(conn) = rest /\ Pending(connection[c]) = s \o rest

LEMMA RestSound ==
    ASSUME SessionSound, NEW c \in Clients, ~Free(c),
           NEW a \in BOOLEAN, Holds(a), Same(a, connection[c].active),
           NEW s, Sent(c, s), NEW conn, Remains(conn, c, a)
    PROVE  RestIsSound(conn, c, s)
<1>0. /\ s = Head(connection[c].calls).statements
      /\ conn = Conn(a, connection[c].queue, Tail(connection[c].calls))
  BY DEF Sent, Remains
<1>1. PICK k \in Seq(Calls), x \in Calls :
         /\ k = connection[c].calls /\ x = Head(k) /\ x = k[1] /\ Len(k) >= 1
         /\ connection[c].active \in BOOLEAN
         /\ Len(k) <= (IF connection[c].active THEN 2 ELSE 1)
         /\ Fits(connection[c].active, connection[c].queue, x)
         /\ x.op # "execute" => Len(k) = 1
  BY FirstCall
<1>2. PICK r, q : r = connection[c] /\ q = r.queue
  OBVIOUS
<1>3. r.calls = k /\ q \in Seq(Statements) /\ s = x.statements /\ s \in Seq(Statements)
  BY <1>0, <1>1, <1>2, PartsOf DEF SessionSound, Calls
<1>4. Len(k) = 1 \/ Len(k) = 2
  <2>1. PICK n \in Nat : n = Len(k) /\ n >= 1 /\ n <= 2
    BY <1>1
  <2>2. n = 1 \/ n = 2
    BY <2>1
  <2> QED
    BY <2>1, <2>2
<1>5. CASE Len(k) = 1
  <2>1. Tail(k) = <<>>
    BY <1>5, TailOfOne
  <2>2. conn = Conn(a, q, <<>>)
    BY <1>0, <1>1, <1>2, <2>1
  <2>3. ConnectionSound(conn) /\ Pending(conn) = q
    BY <1>3, <2>2, NoCalls DEF Holds
  <2>4. Pending(r) = s \o q
    BY <1>1, <1>2, <1>3, <1>5, PendingStatements
  <2> QED
    BY <1>2, <1>3, <2>3, <2>4 DEF RestIsSound
<1>6. CASE Len(k) = 2
  <2>1. PICK y : y = k[2]
    OBVIOUS
  <2>2. y \in Calls /\ y.statements \in Seq(Statements)
    <3>1. 2 \in 1..Len(k)
      BY <1>6
    <3>2. y \in Calls
      BY <2>1, <3>1
    <3> QED
      BY <3>2 DEF Calls
  <2>3. Fits(a, q, y)
    <3>1. CallsSound(r.active, r.queue, r.calls)
      BY <1>2 DEF SessionSound, ConnectionSound
    <3>2. Fits(r.active, r.queue, y)
      BY <1>1, <1>2, <1>6, <2>1, <3>1 DEF CallsSound
    <3>3. a = r.active
      BY <1>2 DEF Same
    <3> QED
      BY <1>2, <3>2, <3>3
  <2>4. PICK u : u = Tail(k)
    OBVIOUS
  <2>5. IsOne(u, y)
    <3>1. u \in Seq(Calls) /\ Len(u) = 1 /\ u[1] = y
      BY <1>6, <2>1, <2>4, TailOfTwo
    <3>2. u = <<y>>
      BY <3>1
    <3> QED
      BY <3>2, OneCall
  <2>6. conn = Conn(a, q, u)
    BY <1>0, <1>1, <1>2, <2>4
  <2>10. ConnectionSound(Conn(a, q, u)) /\ Pending(Conn(a, q, u)) = y.statements \o q
    BY <1>3, <2>2, <2>3, <2>5, SingleCall DEF Holds
  <2>7. ConnectionSound(conn) /\ Pending(conn) = y.statements \o q
    BY <2>6, <2>10
  <2>8. Pending(r) = s \o (y.statements \o q)
    BY <1>1, <1>2, <1>3, <1>6, <2>1, PendingStatements
  <2>9. y.statements \o q \in Seq(Statements)
    BY <1>3, <2>2, ConcatProperties
  <2> QED
    BY <1>2, <1>3, <2>7, <2>8, <2>9 DEF RestIsSound
<1> QED
  BY <1>4, <1>5, <1>6

(* An execute of an open transaction is invisible unless it fails.         *)
LEMMA ExecutedInTransaction ==
    ASSUME SessionSound, NEW c \in Clients, ~Free(c), Executed(c), Holds(connection[c].active)
    PROVE  /\ SessionSound'
           /\ \/ /\ Answered(c) /\ Seen' = Seen
                 /\ db' = db /\ answer' = answer /\ told' = told
              \/ Fails(c)
<1>1. PICK a \in BOOLEAN : \E s : /\ a = connection[c].active /\ Holds(a)
                                  /\ s = Head(connection[c].calls).statements
  BY FirstCall DEF Holds
<1>16. PICK s : /\ a = connection[c].active /\ Holds(a)
                /\ s = Head(connection[c].calls).statements
  BY <1>1
<1>15. connection[c].active
  BY DEF Holds
<1>2. PICK runs \in {1, 2}, heard \in BOOLEAN : \E t, r :
         /\ t = (IF runs = 1 THEN s ELSE s \o s)
         /\ r = Ran(server[c].effects, t)
         /\ server' = [server EXCEPT ![c].effects = r.effects]
         /\ IF r.ok /\ heard THEN Return(c, a) /\ told' = told ELSE Raise(c, a)
  BY <1>16, <1>15 DEF Executed
<1>17. PICK t, r :
         /\ t = (IF runs = 1 THEN s ELSE s \o s)
         /\ r = Ran(server[c].effects, t)
         /\ server' = [server EXCEPT ![c].effects = r.effects]
         /\ IF r.ok /\ heard THEN Return(c, a) /\ told' = told ELSE Raise(c, a)
  BY <1>2
<1>3. db' = db /\ answer' = answer
  BY <1>15 DEF Executed
<1>4. PICK e \in Effects : e = server[c].effects /\ server[c] = [open |-> TRUE, effects |-> e]
  BY <1>15, OpenForActive
<1>0. PICK q, k, conn : /\ q = connection[c].queue /\ k = connection[c].calls
                        /\ conn = Conn(a, q, Tail(k))
  OBVIOUS
<1>13. conn.active = a /\ conn.calls = Tail(k)
  BY <1>0 DEF Conn
<1>14. Same(a, connection[c].active)
  BY <1>16 DEF Same
<1>5. PICK rest \in Seq(Statements) :
         /\ ConnectionSound(conn) /\ s \in Seq(Statements)
         /\ Pending(conn) = rest /\ Pending(connection[c]) = s \o rest
  <2>1. Remains(conn, c, a)
    BY <1>0 DEF Remains
  <2>2. Holds(a) /\ Sent(c, s)
    BY <1>16 DEF Sent
  <2>3. RestIsSound(conn, c, s)
    BY <1>14, <2>1, <2>2, RestSound
  <2> QED
    BY <2>3 DEF RestIsSound
<1>6. Repeated(t, s)
  BY <1>17 DEF Repeated
<1>7. /\ Ran(e, t).effects \in Effects /\ Ran(e, t).ok \in BOOLEAN
      /\ Ran(e, t).ok => Ran(e, t).effects = After(e, s)
  BY <1>5, <1>6, RanRepeated
<1>18. PICK f \in Effects : f = r.effects
  BY <1>17, <1>4, <1>7
<1>8. PICK opened : f = r.effects /\ opened = [open |-> TRUE, effects |-> f]
  BY <1>18
<1>9. server' = [server EXCEPT ![c] = opened]
  <2>1. server' = [server EXCEPT ![c].effects = f]
    BY <1>17, <1>8
  <2>2. server' = [server EXCEPT ![c] = [open |-> TRUE, effects |-> f]]
    BY <1>4, <2>1, EffectsReplaced
  <2> QED
    BY <1>8, <2>2
<1>10. opened \in [open : {TRUE}, effects : Effects]
  BY <1>8
<1>11. CASE r.ok /\ heard
  <2>1. Return(c, a) /\ told' = told
    BY <1>17, <1>11
  <2>2. Replaces(c, conn, opened)
    BY <1>0, <1>9, <2>1, Returning DEF Replaces
  <2>3. f = After(e, s)
    BY <1>17, <1>4, <1>7, <1>8, <1>11
  <2>4. After(f, rest) = After(e, s \o rest)
    BY <1>5, <2>3, AfterBoth
  <2>5. Transaction(conn, opened) = Transaction(connection[c], server[c])
    <3>1. Transaction(conn, opened) = [open |-> TRUE, effects |-> After(f, rest)]
      BY <1>16, <1>5, <1>8, <1>13 DEF Transaction, Holds
    <3>2. Transaction(connection[c], server[c]) = [open |-> TRUE, effects |-> After(e, s \o rest)]
      BY <1>4, <1>5, <1>15 DEF Transaction
    <3> QED
      BY <2>4, <3>1, <3>2
  <2>6. Seen' = Seen
    BY <2>2, <2>5, SameTransaction
  <2>7. ServerSound(conn, opened)
    BY <1>16, <1>10, <1>13 DEF ServerSound, Holds
  <2>8. SessionSound'
    BY <1>3, <1>5, <2>1, <2>2, <2>7, StaysSound DEF SessionSound
  <2>9. Answered(c)
    BY <1>0, <1>13, <2>2, ReplacesAlone DEF Answered
  <2> QED
    BY <1>3, <2>1, <2>6, <2>8, <2>9
<1>12. CASE ~(r.ok /\ heard)
  <2>1. Raise(c, a)
    BY <1>17, <1>12
  <2>2. PICK over : over = RolledBack
    OBVIOUS
  <2>3. Given(over) /\ Len(over.calls) = 1 /\ over.calls[1].op = "rollback"
    BY <2>2, RolledBackGiven
  <2>4. \E i \in DOMAIN over.calls : over.calls[i].op = "rollback"
    <3>1. over.calls \in Seq(Calls)
      BY <2>3, PartsOf DEF Given
    <3> QED
      BY <2>3, <3>1
  <2>5. ServerSound(over, opened)
    BY <1>10, <2>4 DEF ServerSound
  <2>6. Replaces(c, over, opened) /\ told' = [told EXCEPT ![c] = "failed"]
    BY <1>16, <1>9, <2>1, <2>2 DEF Replaces, Raise, Holds
  <2>7. SessionSound' /\ Sql!Fail(c) /\ Alone(c) /\ connection'[c] = over
    BY <1>3, <2>3, <2>5, <2>6, Failing
  <2> QED
    BY <2>3, <2>7 DEF Fails, Given
<1> QED
  BY <1>11, <1>12

(* A statement that is accepted twice is accepted once.                    *)
LEMMA AcceptedTwice ==
    ASSUME NEW e \in Effects, NEW s \in Seq(Statements), Len(s) = 1,
           NEW t, Repeated(t, s), Ran(e, t).ok
    PROVE  Ran(e, s).ok
<1>1. t \in Seq(Statements) /\ 1 \in DOMAIN t /\ t[1] = s[1]
  BY ConcatProperties DEF Repeated
<1>2. SubSeq(t, 1, 1 - 1) = <<>> /\ SubSeq(s, 1, 1 - 1) = <<>>
  BY <1>1
<1>3. {i \in DOMAIN t : ~Accepted(After(e, SubSeq(t, 1, i - 1)), t[i])} = {}
  BY DEF Ran
<1>4. Accepted(After(e, <<>>), s[1])
  BY <1>1, <1>2, <1>3
<1>5. \A i \in DOMAIN s : i = 1
  OBVIOUS
<1>6. {i \in DOMAIN s : ~Accepted(After(e, SubSeq(s, 1, i - 1)), s[i])} = {}
  BY <1>2, <1>4, <1>5
<1> QED
  BY <1>6 DEF Ran

(* An execute outside of a transaction is a transaction of its own.        *)
SingleCommitted(c, st) ==
    /\ Sql!Single(c, st) /\ Answered(c) /\ First(c, "execute")
    /\ ~connection[c].active /\ connection[c].calls[1].statements = <<st>>

LEMMA ExecutedAlone ==
    ASSUME SessionSound, NEW c \in Clients, ~Free(c), Executed(c), ~connection[c].active
    PROVE  SessionSound' /\ (Fails(c) \/ \E st \in Statements : SingleCommitted(c, st))
<1>1. PICK k \in Seq(Calls), x \in Calls :
         /\ k = connection[c].calls /\ x = Head(k) /\ x = k[1] /\ Len(k) >= 1
         /\ connection[c].active \in BOOLEAN
         /\ Len(k) <= (IF connection[c].active THEN 2 ELSE 1)
         /\ Fits(connection[c].active, connection[c].queue, x)
         /\ x.op # "execute" => Len(k) = 1
  BY FirstCall
<1>2. PICK s \in Seq(Statements), a \in BOOLEAN :
         s = x.statements /\ a = connection[c].active
  BY <1>1 DEF Calls
<1>3. x.op = "execute" /\ Len(s) = 1 /\ Len(k) = 1
  BY <1>1, <1>2 DEF Executed, Fits
<1>4. PICK st \in Statements : st = s[1] /\ s = <<st>>
  BY <1>3
<1>5. First(c, "execute") /\ ~connection[c].active /\ connection[c].calls[1].statements = <<st>>
  BY <1>1, <1>2, <1>3, <1>4 DEF First, Free
<1>0. PICK f : f = Ran(<<>>, s)
  OBVIOUS
<1>20. x.statements = s /\ Head(connection[c].calls) = x
  BY <1>1, <1>2
<1>21. PICK runs \in {1, 2}, heard \in BOOLEAN : \E t, r :
         /\ t = (IF runs = 1 THEN s ELSE s \o s)
         /\ r = Ran(<<>>, t)
         /\ db' = (IF f.ok THEN Over(f.effects, db) ELSE db) /\ server' = server
         /\ IF r.ok /\ heard
            THEN Return(c, a) /\ told' = [told EXCEPT ![c] = "committed"]
            ELSE Raise(c, a)
  BY <1>0, <1>2, <1>20 DEF Executed
<1>6. PICK t, r :
         /\ t = (IF runs = 1 THEN s ELSE s \o s)
         /\ r = Ran(<<>>, t)
         /\ db' = (IF f.ok THEN Over(f.effects, db) ELSE db) /\ server' = server
         /\ IF r.ok /\ heard
            THEN Return(c, a) /\ told' = [told EXCEPT ![c] = "committed"]
            ELSE Raise(c, a)
  BY <1>21
<1>7. answer' = answer
  BY DEF Executed
<1>8. Repeated(t, s) /\ Repeated(s, s) /\ <<>> \in Effects
  BY <1>6, NoEffects DEF Repeated
<1>9. /\ f.effects \in Effects /\ f.ok \in BOOLEAN
      /\ f.ok => f.effects = Sql!Effect(<<>>, st)
  <2>1. After(<<>>, <<st>>) = Sql!Effect(<<>>, st)
    BY <1>8, EffectsAreFunctions, AfterOne
  <2> QED
    BY <1>0, <1>4, <1>8, <2>1, RanRepeated
<1>10. r.ok => f.ok
  BY <1>0, <1>3, <1>6, <1>8, AcceptedTwice
<1>11. Tail(k) = <<>>
  BY <1>3, TailOfOne
<1>12. ~server[c].open /\ ServerSound(connection[c], server[c])
  BY <1>1, <1>3, <1>5, NothingOpen DEF SessionSound
<1>13. PICK conn : /\ conn = NoConnection /\ Given(conn) /\ ~conn.active
                   /\ ConnectionSound(conn) /\ conn.calls = <<>>
  BY NoConnectionGiven DEF Given
<1>14. connection' = [connection EXCEPT ![c] = conn]
  <2>1. CASE r.ok /\ heard
    <3>1. PICK q : q = connection[c].queue
      OBVIOUS
    <3>2. q = <<>>
      BY <1>2, <1>5, <3>1 DEF SessionSound, ConnectionSound
    <3>3. connection' = [connection EXCEPT ![c] = Conn(a, q, Tail(k))]
      BY <1>1, <1>6, <2>1, <3>1, Returning
    <3>4. Conn(a, q, Tail(k)) = NoConnection
      BY <1>2, <1>5, <1>11, <3>2 DEF Conn, NoConnection
    <3> QED
      BY <1>13, <3>3, <3>4
  <2>2. CASE ~(r.ok /\ heard)
    BY <1>2, <1>5, <1>6, <1>13, <2>2 DEF Raise
  <2> QED
    BY <2>1, <2>2
<1>15. Replaces(c, conn, server[c])
  BY <1>6, <1>14 DEF Replaces, SessionSound
<1>16. ServerSound(conn, server[c])
  BY <1>12, <1>13 DEF ServerSound
<1>17. Answered(c)
  BY <1>1, <1>11, <1>13, <1>15, ReplacesAlone DEF Answered
<1>18. CASE f.ok
  <2>1. PICK e \in Effects : e = f.effects /\ e = Sql!Effect(<<>>, st)
    BY <1>9, <1>18
  <2>2. db' \in Rows /\ db' = Sql!Over(Sql!Effect(<<>>, st), db)
    BY <1>6, <1>18, <2>1, OverTyped DEF SessionSound
  <2>3. Sql!Tell(c, "committed") \/ Sql!Tell(c, "failed")
    BY <1>6 DEF Raise, Sql!Tell
  <2>4. told' \in [Clients -> {"nothing", "committed", "failed"}]
    BY <2>3 DEF Sql!Tell, SessionSound
  <2>5. SessionSound'
    BY <1>7, <1>13, <1>15, <1>16, <2>2, <2>4, StaysSound DEF SessionSound
  <2>6. Transaction(conn, server[c]) = NoTxn /\ Transaction(connection[c], server[c]) = NoTxn
    BY <1>5, <1>13 DEF Transaction
  <2>7. Seen' = Seen /\ Seen[c] = NoTxn
    BY <1>15, <2>6, SameTransaction DEF Seen
  <2>8. Sql!Single(c, st)
    BY <1>7, <2>2, <2>3, <2>7 DEF Sql!Single, Seen, NoTxn
  <2> QED
    BY <1>5, <1>17, <2>5, <2>8 DEF SingleCommitted
<1>19. CASE ~f.ok
  <2>1. told' = [told EXCEPT ![c] = "failed"] /\ db' = db
    BY <1>6, <1>10, <1>19 DEF Raise
  <2>2. SessionSound' /\ Sql!Fail(c) /\ Alone(c) /\ connection'[c] = conn
    BY <1>7, <1>13, <1>15, <1>16, <2>1, Failing
  <2> QED
    BY <1>13, <2>2 DEF Fails, Given
<1> QED
  BY <1>18, <1>19

(* What a step of the network is to the abstract database.                 *)
SessionStays == UNCHANGED <<db, Seen, answer, told>>

(* The call at hand was the last.                                          *)
Emptied(c) == Alone(c) /\ connection'[c].calls = <<>>

Networked(c) ==
    \/ /\ Sql!Begin(c) /\ Emptied(c) /\ First(c, "begin")
       /\ Seen'[c] = [open |-> TRUE, effects |-> <<>>]
    \/ Sql!Read(c) /\ Emptied(c) /\ First(c, "fetch") /\ Seen' = Seen
    \/ Sql!Commit(c) /\ Emptied(c) /\ First(c, "commit")
    \/ /\ SessionStays /\ Answered(c)
       /\ First(c, "rollback") \/ (First(c, "execute") /\ connection[c].active)
    \/ Fails(c)
    \/ \E st \in Statements : SingleCommitted(c, st) /\ Emptied(c)

LEMMA LastCallEmpties ==
    ASSUME SessionSound, NEW c \in Clients, Answered(c), NEW op, First(c, op),
           op # "execute" \/ ~connection[c].active
    PROVE  Emptied(c)
<1>1. ~Free(c)
  BY DEF First, Free
<1>2. PICK k \in Seq(Calls), x \in Calls :
         /\ k = connection[c].calls /\ x = Head(k) /\ x = k[1] /\ Len(k) >= 1
         /\ connection[c].active \in BOOLEAN
         /\ Len(k) <= (IF connection[c].active THEN 2 ELSE 1)
         /\ Fits(connection[c].active, connection[c].queue, x)
         /\ x.op # "execute" => Len(k) = 1
  BY <1>1, FirstCall
<1>3. Len(k) = 1
  <2>1. CASE op # "execute"
    BY <1>2, <2>1 DEF First
  <2>2. CASE ~connection[c].active
    <3>1. PICK n \in Nat : n = Len(k) /\ n >= 1 /\ n <= 1
      BY <1>2, <2>2
    <3> QED
      BY <3>1
  <2> QED
    BY <2>1, <2>2
<1>4. Tail(k) = <<>>
  BY <1>3, TailOfOne
<1> QED
  BY <1>2, <1>4 DEF Answered, Emptied

LEMMA NetworkSteps ==
    ASSUME SessionSound, NEW c \in Clients, Reply(c) \/ Lost(c) \/ Cancelled(c) \/ Vanish(c)
    PROVE  SessionSound' /\ Networked(c)
<1>1. CASE ~Free(c) /\ Opened(c)
  <2>1. /\ SessionSound' /\ Sql!Begin(c) /\ Answered(c) /\ First(c, "begin")
        /\ Seen'[c] = [open |-> TRUE, effects |-> <<>>]
    BY <1>1, OpenedBegins
  <2>2. Emptied(c)
    BY <2>1, LastCallEmpties
  <2> QED
    BY <2>1, <2>2, Zenon DEF Networked
<1>2. CASE ~Free(c) /\ Fetched(c)
  <2>1. SessionSound' /\ Sql!Read(c) /\ Answered(c) /\ First(c, "fetch") /\ Seen' = Seen
    BY <1>2, FetchedReads
  <2>2. Emptied(c)
    BY <2>1, LastCallEmpties
  <2> QED
    BY <2>1, <2>2, Zenon DEF Networked
<1>3. CASE ~Free(c) /\ Committed(c)
  <2>1. SessionSound' /\ Sql!Commit(c) /\ Answered(c) /\ First(c, "commit")
    BY <1>3, CommittedCommits
  <2>2. Emptied(c)
    BY <2>1, LastCallEmpties
  <2> QED
    BY <2>1, <2>2, Zenon DEF Networked
<1>4. CASE ~Free(c) /\ Discarded(c)
  <2>1. First(c, "rollback")
    BY <1>4, FirstCall DEF First, Discarded, Free
  <2> QED
    BY <1>4, <2>1, DiscardedSilently DEF Networked, SessionStays
<1>5. CASE ~Free(c) /\ Executed(c) /\ connection[c].active
  <2>1. First(c, "execute")
    BY <1>5, FirstCall DEF First, Executed, Free
  <2> QED
    BY <1>5, <2>1, ExecutedInTransaction DEF Networked, SessionStays, Holds
<1>6. CASE ~Free(c) /\ Executed(c) /\ ~connection[c].active
  <2>1. SessionSound' /\ (Fails(c) \/ \E st \in Statements : SingleCommitted(c, st))
    BY <1>6, ExecutedAlone
  <2>2. ASSUME NEW st \in Statements, SingleCommitted(c, st) PROVE Emptied(c)
    BY <2>2, LastCallEmpties DEF SingleCommitted
  <2> QED
    BY <2>1, <2>2, Zenon DEF Networked
<1>7. CASE Lost(c)
  BY <1>7, LostFails DEF Networked
<1>8. CASE Cancelled(c)
  BY <1>8, CancelledFails DEF Networked
<1>9. CASE Vanish(c)
  BY <1>9, VanishFails DEF Networked
<1> QED
  BY <1>1, <1>2, <1>3, <1>4, <1>5, <1>6, <1>7, <1>8, <1>9 DEF Reply

LEMMA SessionUnchanged ==
    ASSUME SessionSound, db' = db, server' = server, connection' = connection,
           answer' = answer, told' = told
    PROVE  SessionSound' /\ SessionStays
<1>1. SessionSound'
  BY DEF SessionSound
<1>2. Seen' = Seen
  BY DEF Seen
<1> QED
  BY <1>1, <1>2 DEF SessionStays

LEMMA ExpireSilently == ASSUME SessionSound, Expire PROVE SessionSound' /\ SessionStays
BY SessionUnchanged DEF Expire

-----------------------------------------------------------------------------
(* The callers.                                                            *)

Working(todo, statements) == [pc |-> "body", todo |-> todo, statements |-> statements]

Planned(r) ==
    /\ r.pc \in {"next", "body"} => r.todo \subseteq Versions
    /\ r.pc = "body" => /\ r = Working(r.todo, r.statements)
                       /\ r.statements \in Seq(Statements) /\ r.todo # {}

ApplySound ==
    /\ DOMAIN apply = Appliers /\ apply = [c \in Appliers |-> apply[c]]
    /\ \A c \in Appliers : Planned(apply[c])

LEMMA VersionsAre ==
    /\ Len(Bodies) \in Nat /\ Versions = 1..Len(Bodies)
    /\ \A v \in Versions : Bodies[v] \in Seq(Statements)
    /\ \A c \in Appliers : Known[c] \in Versions /\ 1..Known[c] \subseteq Versions
<1>1. Bodies \in Seq(Seq(Statements))
  BY MigrationAssumption
<1>2. Len(Bodies) \in Nat /\ Versions = 1..Len(Bodies)
  BY <1>1 DEF Versions
<1>3. \A v \in Versions : Bodies[v] \in Seq(Statements)
  BY <1>1, <1>2
<1>4. \A c \in Appliers : Known[c] \in 1..Len(Bodies)
  BY <1>2, MigrationAssumption
<1> QED
  BY <1>2, <1>3, <1>4

LEMMA LeastTodo ==
    ASSUME NEW S, S \subseteq Versions, S # {}
    PROVE  Min(S) \in S
BY VersionsAre, MinIsOne

LEMMA Continuing ==
    ASSUME ApplySound, NEW c \in Appliers, NEW r, Continue(c, r), Planned(r)
    PROVE  ApplySound' /\ apply'[c] = r /\ \A d \in Appliers \ {c} : apply'[d] = apply[d]
<1>1. apply' = [d \in Appliers |-> IF d = c THEN r ELSE apply[d]]
  BY DEF ApplySound, Continue
<1>2. /\ DOMAIN apply' = Appliers /\ apply' = [d \in Appliers |-> apply'[d]]
      /\ apply'[c] = r /\ \A d \in Appliers \ {c} : apply'[d] = apply[d]
  BY <1>1
<1>3. \A d \in Appliers : Planned(apply'[d])
  BY <1>2 DEF ApplySound
<1> QED
  BY <1>2, <1>3 DEF ApplySound, Planned, Versions

Whole(v) == Append(Bodies[v], Insert(v))

LEMMA WholeTyped ==
    ASSUME NEW v \in Versions
    PROVE  Whole(v) \in Seq(Statements)
BY VersionsAre, MigrationAssumption, AppendProperties DEF Whole

WithStatements(old, rest) == [old EXCEPT !.statements = rest]

LEMMA StatementsReplaced ==
    ASSUME NEW old, NEW todo, NEW s, old = Working(todo, s), NEW rest
    PROVE  WithStatements(old, rest) = Working(todo, rest)
BY DEF Working, WithStatements

LEMMA ApplierPlanned ==
    ASSUME ApplySound, NEW c \in Appliers, ApplierStep(c)
    PROVE  ApplySound'
<1>1. CASE Apply(c)
  BY <1>1, Continuing DEF Apply, Planned
<1>2. CASE GiveUp(c)
  BY <1>2, Continuing DEF GiveUp, Planned, Stopped
<1>3. CASE ReadHistory(c)
  BY <1>3, Continuing DEF ReadHistory, Planned
<1>4. CASE Plan(c)
  <2>1. CASE ValidHistory(c)
    <3>1. PICK r : r = [pc |-> "next", todo |-> 1..Known[c] \ Applied(answer[c])]
      OBVIOUS
    <3>2. Planned(r)
      BY <3>1, VersionsAre DEF Planned
    <3>3. Continue(c, r)
      BY <1>4, <2>1, <3>1 DEF Plan
    <3> QED
      BY <3>2, <3>3, Continuing
  <2>2. CASE ~ValidHistory(c)
    <3>1. Continue(c, Stopped)
      BY <1>4, <2>2 DEF Plan
    <3>2. Planned(Stopped)
      BY DEF Planned, Stopped
    <3> QED
      BY <3>1, <3>2, Continuing
  <2> QED
    BY <2>1, <2>2
<1>5. CASE Open(c)
  <2>1. PICK S : S = apply[c].todo
    OBVIOUS
  <2>2. S \subseteq Versions /\ S # {}
    BY <1>5, <2>1 DEF ApplySound, Planned, Open
  <2>3. PICK v \in S : v = Min(S)
    BY <2>2, LeastTodo
  <2>4. PICK r : r = Working(S, Whole(v))
    OBVIOUS
  <2>5. Planned(r)
    BY <2>2, <2>4, WholeTyped DEF Planned, Working
  <2>6. Continue(c, r)
    BY <1>5, <2>1, <2>3, <2>4 DEF Open, Whole, Working
  <2> QED
    BY <2>5, <2>6, Continuing
<1>6. CASE RunStatement(c)
  <2>0. PICK old, todo, s : old = apply[c] /\ todo = old.todo /\ s = old.statements
    OBVIOUS
  <2>1. PICK r : r = Working(todo, Tail(s))
    OBVIOUS
  <2>2. Planned(apply[c]) /\ apply[c].pc = "body" /\ apply[c].statements # <<>>
    BY <1>6 DEF RunStatement, ApplySound
  <2>7. old = Working(todo, s) /\ s \in Seq(Statements) /\ s # <<>>
    BY <2>0, <2>2 DEF Planned
  <2>9. PICK rest : rest = Tail(s)
    OBVIOUS
  <2>3. WithStatements(old, rest) = r
    BY <2>1, <2>7, <2>9, StatementsReplaced
  <2>4. Continue(c, r)
    BY <1>6, <2>0, <2>3, <2>9 DEF RunStatement, WithStatements
  <2>5. Tail(s) \in Seq(Statements)
    BY <2>7
  <2>8. todo \subseteq Versions /\ todo # {}
    BY <2>0, <2>2 DEF Planned
  <2>6. Planned(r)
    BY <2>1, <2>5, <2>8 DEF Planned, Working
  <2> QED
    BY <2>4, <2>6, Continuing
<1>7. CASE CommitMigration(c)
  <2>1. PICK r : r = [pc |-> "next", todo |-> apply[c].todo \ {Min(apply[c].todo)}]
    OBVIOUS
  <2>2. apply[c].todo \subseteq Versions
    BY <1>7 DEF CommitMigration, ApplySound, Planned
  <2>3. Planned(r)
    BY <2>1, <2>2 DEF Planned
  <2>4. Continue(c, r)
    BY <1>7, <2>1 DEF CommitMigration
  <2> QED
    BY <2>3, <2>4, Continuing
<1>8. CASE CheckVersion(c)
  BY <1>8, Continuing DEF CheckVersion, Planned
<1>9. CASE Finish(c)
  <2>1. PICK r \in {[pc |-> "done"], Stopped} : Continue(c, r)
    BY <1>9 DEF Finish
  <2>2. Planned(r)
    BY <2>1 DEF Planned, Stopped
  <2> QED
    BY <2>1, <2>2, Continuing
<1> QED
  BY <1>1, <1>2, <1>3, <1>4, <1>5, <1>6, <1>7, <1>8, <1>9 DEF ApplierStep

(* A method of a connection is a step of its transaction.                  *)
Called(c) ==
    SessionStays \/ Sql!Forget(c) \/ Sql!Fail(c) \/ \E st \in Statements : Sql!Issue(c, st)

LEMMA ExecuteCalled ==
    ASSUME SessionSound, NEW c \in Clients, NEW st \in Statements, Execute(c, st)
    PROVE  SessionSound' /\ Called(c)
<1>1. SessionSound' /\ Executing(c, st)
  BY ExecuteAsks
<1>2. Sql!Issue(c, st) \/ Sql!Forget(c)
  BY <1>1 DEF Executing
<1> QED
  BY <1>1, <1>2 DEF Called

LEMMA ApplierCalled ==
    ASSUME SessionSound, ApplySound, NEW c \in Appliers, ApplierStep(c)
    PROVE  SessionSound' /\ Called(c)
<1>0. c \in Clients /\ EnsureTable \in Statements
  BY MigrationAssumption
<1>1. CASE Apply(c)
  BY <1>0, <1>1, ExecuteCalled DEF Apply
<1>2. CASE GiveUp(c) \/ Plan(c) \/ Finish(c)
  <2>1. UNCHANGED session
    BY <1>2 DEF GiveUp, Plan, Finish
  <2> QED
    BY <2>1, SessionUnchanged DEF Called, session
<1>3. CASE ReadHistory(c) \/ CheckVersion(c)
  <2>1. Fetch(c)
    BY <1>3 DEF ReadHistory, CheckVersion
  <2> QED
    BY <1>0, <2>1, FetchAsks DEF Called
<1>4. CASE Open(c)
  <2>1. Begin(c)
    BY <1>4 DEF Open
  <2> QED
    BY <1>0, <2>1, BeginAsks DEF Called
<1>5. CASE RunStatement(c)
  <2>1. apply[c].statements \in Seq(Statements) /\ apply[c].statements # <<>>
    BY <1>5 DEF RunStatement, ApplySound, Planned
  <2>2. PICK st \in Statements : st = Head(apply[c].statements)
    BY <2>1
  <2>3. Execute(c, st)
    BY <1>5, <2>2 DEF RunStatement
  <2> QED
    BY <1>0, <2>3, ExecuteCalled
<1>6. CASE CommitMigration(c)
  <2>1. Commit(c)
    BY <1>6 DEF CommitMigration
  <2> QED
    BY <1>0, <2>1, CommitAsks DEF Called
<1> QED
  BY <1>1, <1>2, <1>3, <1>4, <1>5, <1>6 DEF ApplierStep

LEMMA WriterCalled ==
    ASSUME SessionSound, NEW c \in Writers, WriterStep(c)
    PROVE  SessionSound' /\ Called(c)
<1>0. c \in Clients
  BY MigrationAssumption
<1>1. CASE BeginWriting(c)
  BY <1>0, <1>1, BeginAsks DEF BeginWriting, Called
<1>2. CASE Write(c)
  <2>1. PICK st \in DataStatements : Execute(c, st)
    BY <1>2 DEF Write
  <2>2. st \in Statements
    BY MigrationAssumption
  <2> QED
    BY <1>0, <2>1, <2>2, ExecuteCalled
<1>3. CASE Look(c)
  BY <1>0, <1>3, FetchAsks DEF Look, Called
<1>4. CASE EndWriting(c)
  <2>1. CASE Commit(c)
    BY <1>0, <2>1, CommitAsks DEF Called
  <2>2. CASE Abandon(c)
    BY <1>0, <2>2, AbandonFails DEF Called, Fails
  <2> QED
    BY <1>4, <2>1, <2>2 DEF EndWriting
<1> QED
  BY <1>1, <1>2, <1>3, <1>4 DEF WriterStep

LEMMA InitSound ==
    ASSUME Init
    PROVE  SessionSound /\ ApplySound /\ Sql!Init
<1>1. /\ db = [k \in Keys |-> 0] /\ server = [c \in Clients |-> NoTxn]
      /\ connection = [c \in Clients |-> NoConnection]
      /\ answer = [c \in Clients |-> <<>>] /\ told = [c \in Clients |-> "nothing"]
      /\ apply = [c \in Appliers |-> Stopped]
  BY DEF Init, SessionInit
<1>2. db \in Rows
  BY <1>1, SessionAssumption DEF Rows
<1>3. ConnectionSound(NoConnection) /\ ~NoConnection.active
  BY NoConnectionGiven DEF Given
<1>4. ServerSound(NoConnection, NoTxn)
  BY NoConnectionGiven, NoTxnSound
<1>5. SessionSound
  BY <1>1, <1>2, <1>3, <1>4 DEF SessionSound
<1>6. ApplySound
  BY <1>1 DEF ApplySound, Planned, Stopped
<1>7. Seen = [c \in Clients |-> NoTxn]
  <2>1. \A c \in Clients : Transaction(connection[c], server[c]) = NoTxn
    BY <1>1, <1>3 DEF Transaction
  <2> QED
    BY <2>1 DEF Seen
<1>8. Sql!Init
  BY <1>1, <1>7 DEF Sql!Init, Seen, NoTxn, Sql!NoTxn
<1> QED
  BY <1>5, <1>6, <1>8

LEMMA StaysIsStutter == ASSUME SessionStays PROVE UNCHANGED Sql!vars
BY DEF SessionStays, Seen, Sql!vars

LEMMA StepsImplementSql ==
    ASSUME SessionSound, ApplySound, [Next]_vars
    PROVE  SessionSound' /\ ApplySound' /\ [Sql!Next]_(Sql!vars)
<1>1. ASSUME NEW c \in Clients, Called(c) PROVE [Sql!Next]_(Sql!vars)
  BY <1>1, StaysIsStutter, Zenon DEF Called, Sql!Next
<1>2. ASSUME NEW c \in Clients, Networked(c) PROVE [Sql!Next]_(Sql!vars)
  BY <1>2, StaysIsStutter, Zenon DEF Networked, SingleCommitted, Fails, Sql!Next
<1>3. ASSUME apply' = apply PROVE ApplySound'
  BY <1>3 DEF ApplySound, Planned, Versions
<1>4. ASSUME NEW c \in Appliers, ApplierStep(c)
      PROVE  SessionSound' /\ ApplySound' /\ [Sql!Next]_(Sql!vars)
  BY <1>1, <1>4, ApplierCalled, ApplierPlanned, MigrationAssumption
<1>5. ASSUME NEW c \in Writers, WriterStep(c)
      PROVE  SessionSound' /\ ApplySound' /\ [Sql!Next]_(Sql!vars)
  <2>1. apply' = apply
    BY <1>5 DEF WriterStep, BeginWriting, Write, Look, EndWriting, WriterLeaves
  <2> QED
    BY <1>1, <1>3, <1>5, <2>1, WriterCalled, MigrationAssumption
<1>6. CASE Network /\ UNCHANGED <<apply, writer>>
  BY <1>2, <1>3, <1>6, NetworkSteps DEF Network
<1>7. CASE Expire /\ UNCHANGED <<apply, writer>>
  BY <1>3, <1>7, ExpireSilently, StaysIsStutter
<1>8. CASE UNCHANGED vars
  <2>1. UNCHANGED session /\ apply' = apply
    BY <1>8 DEF vars
  <2> QED
    BY <1>3, <2>1, SessionUnchanged, StaysIsStutter DEF session
<1> QED
  BY <1>4, <1>5, <1>6, <1>7, <1>8 DEF Next

(* Queueing, batching and lost calls of rds_data.py do not show: whatever  *)
(* is lost, repeated, cancelled or abandoned, its callers see a connection *)
(* that runs every statement where it stands and commits all of a          *)
(* transaction or nothing.                                                 *)
THEOREM ConnectionsImplementSql == Spec => ImplementsSql
<1>1. Init => SessionSound /\ ApplySound /\ Sql!Init
  BY InitSound
<1>2. SessionSound /\ ApplySound /\ [Next]_vars
        => SessionSound' /\ ApplySound' /\ [Sql!Next]_(Sql!vars)
  BY StepsImplementSql
<1> QED
  BY <1>1, <1>2, PTL DEF Spec, ImplementsSql, Sql!Spec

-----------------------------------------------------------------------------
(* What a client sees of the step of another: nothing but the database.    *)

Undisturbed(d) ==
    /\ connection'[d] = connection[d] /\ Seen'[d] = Seen[d]
    /\ told'[d] = told[d] /\ answer'[d] = answer[d]

OnlyOf(c) == \A d \in Clients \ {c} : Undisturbed(d)

LEMMA SeenIs ==
    ASSUME SessionSound, NEW c \in Clients
    PROVE  /\ connection[c].active \in BOOLEAN
           /\ connection[c].active =>
                 \E e \in Effects : Seen[c] = [open |-> TRUE, effects |-> e]
           /\ ~connection[c].active => Seen[c] = NoTxn
           /\ Seen[c].open <=> connection[c].active
<1>1. ConnectionSound(connection[c])
  BY DEF SessionSound
<1>2. connection[c].active \in BOOLEAN
  BY <1>1, PartsOf
<1>3. CASE connection[c].active
  <2>1. PICK e \in Effects : e = server[c].effects
    BY <1>3, OpenForActive
  <2>2. PICK conn : conn = connection[c]
    OBVIOUS
  <2>3. conn.calls \in Seq(Calls) /\ conn.queue \in Seq(Statements) /\ Len(conn.calls) <= 2
    <3>1. CallsSound(conn.active, conn.queue, conn.calls)
      BY <1>1, <2>2 DEF ConnectionSound
    <3>2. conn.calls \in Seq(Calls) /\ conn.queue \in Seq(Statements)
      BY <1>1, <2>2, PartsOf
    <3>3. Len(conn.calls) <= 2
      BY <1>3, <2>2, <3>1 DEF CallsSound
    <3> QED
      BY <3>2, <3>3
  <2>4. Pending(conn) \in Seq(Statements)
    BY <2>3, PendingStatements
  <2>5. After(e, Pending(conn)) \in Effects
    BY <2>4, AfterTyped
  <2>6. Seen[c] = [open |-> TRUE, effects |-> After(e, Pending(conn))]
    BY <1>3, <2>1, <2>2 DEF Seen, Transaction
  <2>7. Seen[c].open
    BY <2>6
  <2> QED
    BY <1>3, <2>5, <2>6, <2>7
<1>4. CASE ~connection[c].active
  <2>1. Seen[c] = NoTxn
    BY <1>4 DEF Seen, Transaction
  <2>2. ~Seen[c].open
    BY <2>1 DEF NoTxn
  <2> QED
    BY <1>2, <1>4, <2>1, <2>2, Zenon
<1> QED
  BY <1>2, <1>3, <1>4

LEMMA SeenOthers ==
    ASSUME NEW c \in Clients, NEW r, Seen' = [Seen EXCEPT ![c] = r]
    PROVE  Seen'[c] = r /\ \A d \in Clients \ {c} : Seen'[d] = Seen[d]
BY DEF Seen

LEMMA ForgetSeen ==
    ASSUME SessionSound, NEW c \in Clients, Sql!Forget(c), Alone(c)
    PROVE  OnlyOf(c) /\ db' = db /\ Seen' = Seen /\ told' = told
<1>1. db' = db /\ Seen' = Seen /\ told' = told /\ answer' = [answer EXCEPT ![c] = <<>>]
  BY DEF Sql!Forget, Seen
<1>2. \A d \in Clients \ {c} : answer'[d] = answer[d]
  BY <1>1 DEF SessionSound
<1> QED
  BY <1>1, <1>2 DEF OnlyOf, Undisturbed, Alone

LEMMA IssueSeen ==
    ASSUME SessionSound, NEW c \in Clients, NEW st \in Statements, Sql!Issue(c, st), Alone(c),
           NEW e, Seen[c] = [open |-> TRUE, effects |-> e]
    PROVE  /\ OnlyOf(c) /\ db' = db /\ told' = told
           /\ Seen'[c] = [open |-> TRUE, effects |-> Sql!Effect(e, st)]
<1>1. /\ db' = db /\ told' = told /\ answer' = [answer EXCEPT ![c] = <<>>]
      /\ Seen' = [Seen EXCEPT ![c].effects = Sql!Effect(@, st)]
  BY DEF Sql!Issue, Seen
<1>2. \A d \in Clients \ {c} : answer'[d] = answer[d]
  BY <1>1 DEF SessionSound
<1>3. PICK r, f, open : /\ r = Seen[c] /\ f = Sql!Effect(e, st) /\ open = TRUE
  OBVIOUS
<1>4. r = Opening(open, e)
  BY <1>3 DEF Opening
<1>5. WithEffects(r, f) = Opening(open, f)
  BY <1>4, EffectsSet
<1>6. r.effects = e
  BY <1>4 DEF Opening
<1>7. Seen' = [Seen EXCEPT ![c] = WithEffects(r, f)]
  BY <1>1, <1>3, <1>6 DEF WithEffects
<1>8. Seen' = [Seen EXCEPT ![c] = Opening(open, f)]
  BY <1>5, <1>7
<1>9. Seen'[c] = Opening(open, f) /\ \A d \in Clients \ {c} : Seen'[d] = Seen[d]
  BY <1>8, SeenOthers
<1>10. Seen'[c] = [open |-> TRUE, effects |-> Sql!Effect(e, st)]
  BY <1>3, <1>9 DEF Opening
<1> QED
  BY <1>1, <1>2, <1>9, <1>10 DEF OnlyOf, Undisturbed, Alone

LEMMA FailSeen ==
    ASSUME SessionSound, NEW c \in Clients, Fails(c)
    PROVE  /\ OnlyOf(c) /\ db' = db /\ Seen'[c] = NoTxn
           /\ told'[c] = "failed" /\ Only(connection'[c], {"rollback"})
<1>1. /\ db' = db /\ answer' = answer /\ told' = [told EXCEPT ![c] = "failed"]
      /\ Seen' = [Seen EXCEPT ![c] = NoTxn] /\ Alone(c) /\ Only(connection'[c], {"rollback"})
  BY DEF Fails, Sql!Fail, Sql!Tell, Sql!NoTxn, NoTxn, Seen
<1>2. told'[c] = "failed" /\ \A d \in Clients \ {c} : told'[d] = told[d]
  BY <1>1 DEF SessionSound
<1>3. Seen'[c] = NoTxn /\ \A d \in Clients \ {c} : Seen'[d] = Seen[d]
  BY <1>1, SeenOthers
<1> QED
  BY <1>1, <1>2, <1>3 DEF OnlyOf, Undisturbed, Alone

LEMMA BeginSeen ==
    ASSUME SessionSound, NEW c \in Clients, Sql!Begin(c), Alone(c)
    PROVE  /\ OnlyOf(c) /\ db' = db /\ told'[c] = "nothing"
           /\ Seen'[c] = [open |-> TRUE, effects |-> <<>>]
<1>1. /\ db' = db /\ answer' = answer /\ told' = [told EXCEPT ![c] = "nothing"]
      /\ Seen' = [Seen EXCEPT ![c] = [open |-> TRUE, effects |-> <<>>]]
  BY DEF Sql!Begin, Sql!Tell, Seen
<1>2. told'[c] = "nothing" /\ \A d \in Clients \ {c} : told'[d] = told[d]
  BY <1>1 DEF SessionSound
<1>3. /\ Seen'[c] = [open |-> TRUE, effects |-> <<>>]
      /\ \A d \in Clients \ {c} : Seen'[d] = Seen[d]
  BY <1>1, SeenOthers
<1> QED
  BY <1>1, <1>2, <1>3 DEF OnlyOf, Undisturbed, Alone

LEMMA ReadSeen ==
    ASSUME SessionSound, NEW c \in Clients, Sql!Read(c), Alone(c), Seen' = Seen
    PROVE  /\ OnlyOf(c) /\ db' = db /\ told' = told
           /\ ~Seen[c].open => answer'[c] = db
<1>1. /\ db' = db /\ told' = told
      /\ answer' = [answer EXCEPT ![c] = IF Seen[c].open THEN Sql!Over(Seen[c].effects, db) ELSE db]
  BY DEF Sql!Read, Seen
<1>2. /\ ~Seen[c].open => answer'[c] = db
      /\ \A d \in Clients \ {c} : answer'[d] = answer[d]
  BY <1>1 DEF SessionSound
<1> QED
  BY <1>1, <1>2 DEF OnlyOf, Undisturbed, Alone

LEMMA CommitSeen ==
    ASSUME SessionSound, NEW c \in Clients, Sql!Commit(c), Alone(c),
           NEW e \in Effects, Seen[c] = [open |-> TRUE, effects |-> e]
    PROVE  /\ OnlyOf(c) /\ db' = Over(e, db) /\ Seen'[c] = NoTxn
           /\ told'[c] \in {"committed", "failed"}
<1>1. PICK outcome \in {"committed", "failed"} : told' = [told EXCEPT ![c] = outcome]
  BY DEF Sql!Commit, Sql!Tell
<1>2. /\ answer' = answer /\ Seen' = [Seen EXCEPT ![c] = NoTxn]
      /\ db' = Sql!Over(Seen[c].effects, db)
  BY DEF Sql!Commit, Sql!NoTxn, NoTxn, Seen
<1>3. told'[c] = outcome /\ \A d \in Clients \ {c} : told'[d] = told[d]
  BY <1>1 DEF SessionSound
<1>4. Seen'[c] = NoTxn /\ \A d \in Clients \ {c} : Seen'[d] = Seen[d]
  BY <1>2, SeenOthers
<1>5. db' = Over(e, db)
  BY <1>2, OverTyped DEF SessionSound
<1> QED
  BY <1>1, <1>2, <1>3, <1>4, <1>5 DEF OnlyOf, Undisturbed, Alone

LEMMA SingleSeen ==
    ASSUME SessionSound, NEW c \in Clients, NEW st, Sql!Single(c, st), Alone(c)
    PROVE  /\ OnlyOf(c) /\ db' = Sql!Over(Sql!Effect(<<>>, st), db) /\ Seen' = Seen
           /\ told'[c] \in {"committed", "failed"} /\ ~Seen[c].open
<1>1. PICK outcome \in {"committed", "failed"} : told' = [told EXCEPT ![c] = outcome]
  BY DEF Sql!Single, Sql!Tell
<1>2. /\ answer' = answer /\ Seen' = Seen /\ ~Seen[c].open
      /\ db' = Sql!Over(Sql!Effect(<<>>, st), db)
  BY DEF Sql!Single, Seen
<1>3. told'[c] = outcome /\ \A d \in Clients \ {c} : told'[d] = told[d]
  BY <1>1 DEF SessionSound
<1> QED
  BY <1>1, <1>2, <1>3 DEF OnlyOf, Undisturbed, Alone

-----------------------------------------------------------------------------
(* What a migration and an ingestion do to the history.                    *)

LEMMA WritesOfOne ==
    ASSUME NEW st, NEW one, one = <<st>>, st.sql # "alter", NEW k
    PROVE  /\ Writes(one, k) = IF st.key = k THEN {1} ELSE {}
           /\ Max({1}) = 1 /\ one[1] = st
BY DEF Writes, Max

(* The row of a version is the last thing its migration writes.            *)
LEMMA WholeWrites ==
    ASSUME NEW v \in Versions, NEW k
    PROVE  /\ k = VersionOf[v] => k \in Written(Whole(v)) /\ Value(Whole(v), k) = 1
           /\ k # VersionOf[v] => /\ k \in Written(Whole(v)) <=> Writes(Bodies[v], k) # {}
                                  /\ Writes(Bodies[v], k) # {} =>
                                        Value(Whole(v), k) = Value(Bodies[v], k)
<1>0. PICK st \in Statements : st = Insert(v)
  BY MigrationAssumption
<1>1. PICK s \in Seq(Statements) : s = Bodies[v] /\ Whole(v) = Append(s, st)
  BY <1>0, VersionsAre DEF Whole
<1>2. st.sql = "insert" /\ st.key = VersionOf[v] /\ st.value = 1
  BY <1>0 DEF Insert
<1>3. PICK one \in Seq(Statements) : one = <<st>>
  <2>1. <<st>> \in Seq(Statements)
    OBVIOUS
  <2> QED
    BY <2>1
<1>4. Append(s, st) = s \o one
  BY <1>3, AppendIsConcat
<1>5. PICK w \in Seq(Statements) : w = Whole(v) /\ w = s \o one
  BY <1>1, <1>4, WholeTyped
<1>6. Writes(one, k) = (IF st.key = k THEN {1} ELSE {}) /\ Max({1}) = 1 /\ one[1] = st
  BY <1>2, <1>3, WritesOfOne
<1>7. Writes(w, k) = Writes(s, k) \cup {Len(s) + j : j \in Writes(one, k)}
  BY <1>5, WritesOfBoth
<1>8. /\ Writes(one, k) # {} => Value(w, k) = Value(one, k)
      /\ Writes(one, k) = {} /\ Writes(s, k) # {} => Value(w, k) = Value(s, k)
  <2>1. /\ Writes(one, k) # {} => Value(s \o one, k) = Value(one, k)
        /\ Writes(one, k) = {} /\ Writes(s, k) # {} => Value(s \o one, k) = Value(s, k)
    BY ValueOfBoth
  <2> QED
    BY <1>5, <2>1
<1>9. CASE k = VersionOf[v]
  <2>1. Writes(one, k) = {1}
    BY <1>2, <1>6, <1>9
  <2>2. Writes(w, k) # {}
    BY <1>7, <2>1
  <2>3. Value(one, k) = 1
    BY <1>2, <1>6, <2>1 DEF Value
  <2> QED
    BY <1>5, <1>8, <1>9, <2>1, <2>2, <2>3, WrittenMeans
<1>10. CASE k # VersionOf[v]
  <2>1. Writes(one, k) = {}
    BY <1>2, <1>6, <1>10
  <2>2. Writes(w, k) = Writes(s, k)
    BY <1>7, <2>1
  <2> QED
    BY <1>1, <1>5, <1>8, <1>10, <2>1, <2>2, WrittenMeans
<1> QED
  BY <1>9, <1>10

LEMMA OthersRows ==
    ASSUME NEW v \in Versions, NEW u \in Versions, u # v
    PROVE  VersionOf[u] \notin Written(Whole(v))
<1>1. VersionOf[u] # VersionOf[v]
  BY MigrationAssumption
<1>2. Writes(Bodies[v], VersionOf[u]) = {}
  BY HistoryAssumption DEF Writes
<1> QED
  BY <1>1, <1>2, WholeWrites

LEMMA ObjectsAre ==
    ASSUME NEW u \in Versions, NEW k \in Objects(u)
    PROVE  /\ k \in Keys /\ k # HistoryTable
           /\ \A v \in Versions : k # VersionOf[v]
           /\ \A v \in Versions \ {u} : k \notin Written(Whole(v))
           /\ k \in Written(Whole(u)) /\ Value(Whole(u), k) # 0
           /\ \A st \in DataStatements : st.key # k
<1>1. PICK i \in DOMAIN Bodies[u] :
         /\ Bodies[u][i].sql = "create" /\ Bodies[u][i].key = k
         /\ \A v \in Versions : \A j \in Writes(Bodies[v], k) : u = v /\ j = i
  BY DEF Objects
<1>2. /\ k \in Keys /\ k # HistoryTable /\ \A st \in DataStatements : st.key # k
  BY DEF Objects
<1>3. \A v \in Versions : k # VersionOf[v]
  BY <1>1, HistoryAssumption
<1>4. \A v \in Versions \ {u} : k \notin Written(Whole(v))
  <2> SUFFICES ASSUME NEW v \in Versions \ {u} PROVE k \notin Written(Whole(v))
    OBVIOUS
  <2>1. Writes(Bodies[v], k) = {}
    BY <1>1
  <2> QED
    BY <1>3, <2>1, WholeWrites
<1>5. Writes(Bodies[u], k) = {i}
  <2>1. i \in Writes(Bodies[u], k)
    BY <1>1 DEF Writes
  <2> QED
    BY <1>1, <2>1
<1>6. Max({i}) = i
  BY DEF Max
<1>7. Bodies[u][i] \in Statements
  BY VersionsAre
<1>8. Value(Bodies[u], k) = Bodies[u][i].value
  BY <1>1, <1>5, <1>6 DEF Value
<1>9. Bodies[u][i].value \in 1..MaxValue
  BY <1>7, SessionAssumption
<1>10. k \in Written(Whole(u)) /\ Value(Whole(u), k) # 0
  BY <1>3, <1>5, <1>8, <1>9, WholeWrites
<1> QED
  BY <1>2, <1>3, <1>4, <1>10

Untouched(e) ==
    \A v \in Versions : VersionOf[v] \notin DOMAIN e /\ \A k \in Objects(v) : k \notin DOMAIN e

LEMMA HistoryKept ==
    ASSUME HistoryIsTrue, NEW e, Untouched(e), db' = Over(e, db)
    PROVE  HistoryIsTrue' /\ Applied(db') = Applied(db)
<1>1. \A v \in Versions : VersionOf[v] \in Keys
  BY MigrationAssumption
<1>2. \A v \in Versions : db'[VersionOf[v]] = db[VersionOf[v]]
  BY <1>1 DEF Untouched, Over
<1>3. \A v \in Versions : \A k \in Objects(v) : db'[k] = db[k]
  BY ObjectsAre DEF Untouched, Over
<1>4. Applied(db') = Applied(db)
  BY <1>2 DEF Applied
<1> QED
  BY <1>3, <1>4 DEF HistoryIsTrue, Versions

LEMMA IntervalGrows ==
    ASSUME NEW n \in Nat, NEW v \in Nat, v >= 1, v <= n + 1, NEW A, A = 1..n,
           NEW B, B = A \cup {v}
    PROVE  \E m \in {n, v} : B = 1..m
<1>1. CASE v <= n
  BY <1>1
<1>2. CASE v = n + 1
  <2>1. B = 1..v
    BY <1>2
  <2> QED
    BY <2>1
<1> QED
  BY <1>1, <1>2

LEMMA HistoryGrows ==
    ASSUME HistoryIsTrue, NEW v \in Versions, 1..(v - 1) \subseteq Applied(db),
           db' = Over(After(<<>>, Whole(v)), db)
    PROVE  HistoryIsTrue' /\ Applied(db') = Applied(db) \cup {v}
<1>1. Versions = 1..Len(Bodies) /\ Len(Bodies) \in Nat
  BY VersionsAre
<1>2. PICK e : e = After(<<>>, Whole(v))
  OBVIOUS
<1>3. DOMAIN e = Written(Whole(v)) /\ \A k \in Written(Whole(v)) : e[k] = Value(Whole(v), k)
  <2>1. PICK none, whole : none = <<>> /\ DOMAIN none = {} /\ whole = Whole(v)
    OBVIOUS
  <2>2. After(none, whole) =
          [k \in DOMAIN none \cup Written(whole) |->
             IF Writes(whole, k) = {} THEN none[k] ELSE Value(whole, k)]
    BY AfterValue
  <2>3. \A k : k \in Written(whole) <=> Writes(whole, k) # {}
    BY WrittenMeans
  <2>4. e = [k \in Written(whole) |-> Value(whole, k)]
    BY <1>2, <2>1, <2>2, <2>3
  <2> QED
    BY <2>1, <2>4
<1>4. \A k \in Keys : db'[k] = IF k \in Written(Whole(v)) THEN Value(Whole(v), k) ELSE db[k]
  BY <1>2, <1>3 DEF Over
<1>5. \A u \in Versions : VersionOf[u] \in Keys
  BY MigrationAssumption
<1>6. db'[VersionOf[v]] = 1
  BY <1>4, <1>5, WholeWrites
<1>7. \A u \in Versions \ {v} : db'[VersionOf[u]] = db[VersionOf[u]]
  BY <1>4, <1>5, OthersRows
<1>8. Applied(db') = Applied(db) \cup {v}
  BY <1>6, <1>7 DEF Applied
<1>9. \E n \in 0..Len(Bodies) : Applied(db') = 1..n
  <2>1. PICK n \in 0..Len(Bodies) : Applied(db) = 1..n
    BY DEF HistoryIsTrue
  <2>2. v <= n + 1
    <3>1. CASE v = 1
      BY <3>1
    <3>2. CASE v # 1
      <4>1. v - 1 \in 1..(v - 1)
        BY <1>1, <3>2
      <4> QED
        BY <1>1, <2>1, <4>1
    <3> QED
      BY <3>1, <3>2
  <2>3. v \in Nat /\ v >= 1 /\ v <= Len(Bodies)
    BY <1>1
  <2>4. PICK A, B : A = Applied(db) /\ B = Applied(db') /\ B = A \cup {v}
    BY <1>8
  <2>5. A = 1..n /\ n \in Nat /\ n <= Len(Bodies)
    BY <1>1, <2>1, <2>4
  <2>6. \E m \in {n, v} : B = 1..m
    BY <2>2, <2>3, <2>4, <2>5, IntervalGrows
  <2> QED
    BY <1>1, <2>3, <2>4, <2>5, <2>6
<1>10. ASSUME NEW u \in Versions, NEW k \in Objects(u)
       PROVE  (db'[k] # 0) <=> (u \in Applied(db'))
  <2>1. CASE u = v
    <3>1. db'[k] # 0
      BY <1>4, <2>1, ObjectsAre
    <3> QED
      BY <1>8, <2>1, <3>1
  <2>2. CASE u # v
    <3>1. db'[k] = db[k]
      BY <1>4, <2>2, ObjectsAre
    <3>2. (db[k] # 0) <=> (u \in Applied(db))
      BY DEF HistoryIsTrue
    <3> QED
      BY <1>8, <2>2, <3>1, <3>2
  <2> QED
    BY <2>1, <2>2
<1> QED
  BY <1>8, <1>9, <1>10 DEF HistoryIsTrue, Versions

LEMMA EnsuringKeeps ==
    ASSUME HistoryIsTrue, db' = Sql!Over(Sql!Effect(<<>>, EnsureTable), db)
    PROVE  HistoryIsTrue' /\ Applied(db') = Applied(db)
<1>1. PICK e : e = Sql!Effect(<<>>, EnsureTable)
  OBVIOUS
<1>2. DOMAIN e = {HistoryTable}
  BY <1>1 DEF Sql!Effect, EnsureTable
<1>3. Untouched(e)
  BY <1>2, ObjectsAre, HistoryAssumption DEF Untouched
<1>4. db' = Over(e, db)
  BY <1>1 DEF Over, Sql!Over
<1> QED
  BY <1>3, <1>4, HistoryKept

DataKeys == {st.key : st \in DataStatements}

LEMMA DataUntouched ==
    ASSUME NEW e, DOMAIN e \subseteq DataKeys
    PROVE  Untouched(e)
BY ObjectsAre, HistoryAssumption DEF Untouched, DataKeys

-----------------------------------------------------------------------------
(* The inductive invariant: where an applier is, and what that says of its *)
(* connection and of the history.                                          *)

Idle(c, ops) == ~Seen[c].open /\ Only(connection[c], ops)

Failed(c) == Idle(c, {"rollback"}) /\ told[c] = "failed"

Txn(c, effects, ops) ==
    Seen[c] = [open |-> TRUE, effects |-> effects] /\ Only(connection[c], ops)

Reached(n) == 1..n \subseteq Applied(db)

(* Outside of a transaction only the table of the history is written.      *)
Ensuring(c) ==
    /\ Idle(c, {"execute", "rollback"})
    /\ \A i \in 1..Len(connection[c].calls) :
          connection[c].calls[i].op = "execute" =>
             connection[c].calls[i].statements = <<EnsureTable>>

(* What was read may be old, but what it has is there.                     *)
Planning(c) ==
    /\ Idle(c, {"fetch", "rollback"})
    /\ told[c] = "failed" \/ First(c, "fetch") \/ Applied(answer[c]) \subseteq Applied(db)

(* Version v is next, and the server has run what is done of it.           *)
Halfway(c, v, done) ==
    /\ Reached(v - 1) /\ apply[c].todo = v..Known[c] /\ done \o apply[c].statements = Whole(v)
    /\ \/ Failed(c)
       \/ Idle(c, {"begin"}) /\ First(c, "begin") /\ done = <<>>
       \/ Txn(c, After(<<>>, done), {"execute"})

Preparing(c) == \E v \in 1..Known[c], done \in Seq(Statements) : Halfway(c, v, done)

Ready(c) ==
    /\ Idle(c, {"rollback"})
    /\ \E n \in 0..Known[c] : Reached(n) /\ apply[c].todo = (n + 1)..Known[c]

Committing(c) ==
    \E v \in 1..Known[c] :
       /\ Txn(c, After(<<>>, Whole(v)), {"execute", "commit"})
       /\ Reached(v - 1) /\ apply[c].todo = (v + 1)..Known[c]

ApplierInv(c) ==
    \/ apply[c].pc \in {"stopped", "done"} /\ Idle(c, {"rollback"})
    \/ apply[c].pc = "ensure" /\ Ensuring(c)
    \/ apply[c].pc = "plan" /\ Planning(c)
    \/ apply[c].pc = "check" /\ Idle(c, {"fetch", "rollback"})
    \/ apply[c].pc = "body" /\ Preparing(c)
    \/ apply[c].pc = "next" /\ (Failed(c) \/ Ready(c) \/ Committing(c))

WriterInv(c) ==
    /\ Seen[c].open => DOMAIN Seen[c].effects \subseteq DataKeys
    /\ ~Seen[c].open => Only(connection[c], {"begin", "rollback"})

Told == \A c \in Clients : Seen[c].open => told[c] = "nothing"

HistoryInv ==
    /\ HistoryIsTrue /\ Told
    /\ \A c \in Appliers : ApplierInv(c)
    /\ \A c \in Writers : WriterInv(c)

Keeps == Applied(db) \subseteq Applied(db')

LEMMA ReachedStays == ASSUME Keeps, NEW n, Reached(n) PROVE Reached(n)'
BY DEF Keeps, Reached, Applied

LEMMA WholeSame == \A v : Whole(v)' = Whole(v)
BY DEF Whole, Insert

LEMMA UndisturbedApplier ==
    ASSUME NEW d \in Appliers, Undisturbed(d), apply'[d] = apply[d], Keeps, ApplierInv(d)
    PROVE  ApplierInv(d)'
<1>1. /\ connection'[d] = connection[d] /\ Seen'[d] = Seen[d]
      /\ told'[d] = told[d] /\ answer'[d] = answer[d]
  BY DEF Undisturbed
<1>2. \A ops : Idle(d, ops) => Idle(d, ops)'
  BY <1>1 DEF Idle, Only
<1>3. Failed(d) => Failed(d)'
  BY <1>1, <1>2 DEF Failed
<1>4. \A effects, ops : Txn(d, effects, ops) => Txn(d, effects, ops)'
  BY <1>1 DEF Txn, Only
<1>5. \A op : First(d, op) => First(d, op)'
  BY <1>1 DEF First
<1>6. CASE apply[d].pc \in {"stopped", "done"} /\ Idle(d, {"rollback"})
  BY <1>2, <1>6 DEF ApplierInv
<1>7. CASE apply[d].pc = "ensure" /\ Ensuring(d)
  <2>1. Ensuring(d)'
    BY <1>1, <1>2, <1>7 DEF Ensuring, EnsureTable
  <2> QED
    BY <1>7, <2>1 DEF ApplierInv
<1>8. CASE apply[d].pc = "plan" /\ Planning(d)
  <2>1. Planning(d)'
    BY <1>1, <1>2, <1>5, <1>8 DEF Planning, Keeps, Applied
  <2> QED
    BY <1>8, <2>1 DEF ApplierInv
<1>9. CASE apply[d].pc = "check" /\ Idle(d, {"fetch", "rollback"})
  BY <1>2, <1>9 DEF ApplierInv
<1>10. CASE apply[d].pc = "body" /\ Preparing(d)
  <2>1. PICK v \in 1..Known[d], done \in Seq(Statements) : Halfway(d, v, done)
    BY <1>10 DEF Preparing
  <2>2. Reached(v - 1)'
    BY <2>1, ReachedStays DEF Halfway
  <2>3. Halfway(d, v, done)'
    BY <1>2, <1>3, <1>4, <1>5, <2>1, <2>2, WholeSame DEF Halfway
  <2>4. Preparing(d)'
    BY <2>3 DEF Preparing
  <2> QED
    BY <1>10, <2>4 DEF ApplierInv
<1>11. CASE apply[d].pc = "next" /\ (Failed(d) \/ Ready(d) \/ Committing(d))
  <2>1. Ready(d) => Ready(d)'
    BY <1>2, ReachedStays DEF Ready
  <2>2. Committing(d) => Committing(d)'
    BY <1>4, ReachedStays, WholeSame DEF Committing
  <2> QED
    BY <1>3, <1>11, <2>1, <2>2 DEF ApplierInv
<1> QED
  BY <1>6, <1>7, <1>8, <1>9, <1>10, <1>11 DEF ApplierInv

LEMMA UndisturbedWriter ==
    ASSUME NEW d \in Writers, Undisturbed(d), WriterInv(d)
    PROVE  WriterInv(d)'
BY DEF Undisturbed, WriterInv, Only, DataKeys

(* It is enough to follow the client that makes a step.                    *)
LEMMA Settled ==
    ASSUME HistoryInv, NEW c \in Clients, OnlyOf(c), Keeps, HistoryIsTrue',
           Seen'[c].open => told'[c] = "nothing",
           \A d \in Appliers \ {c} : apply'[d] = apply[d],
           c \in Appliers => ApplierInv(c)', c \in Writers => WriterInv(c)'
    PROVE  HistoryInv'
<1>1. Told'
  BY DEF HistoryInv, Told, OnlyOf, Undisturbed
<1>2. ASSUME NEW d \in Appliers PROVE ApplierInv(d)'
  <2>1. CASE d = c
    BY <2>1
  <2>2. CASE d # c
    BY <2>2, UndisturbedApplier, MigrationAssumption DEF HistoryInv, OnlyOf
  <2> QED
    BY <2>1, <2>2
<1>3. ASSUME NEW d \in Writers PROVE WriterInv(d)'
  <2>1. CASE d = c
    BY <2>1
  <2>2. CASE d # c
    BY <2>2, UndisturbedWriter, MigrationAssumption DEF HistoryInv, OnlyOf
  <2> QED
    BY <2>1, <2>2
<1> QED
  BY <1>1, <1>2, <1>3 DEF HistoryInv

-----------------------------------------------------------------------------
(* The network.                                                            *)

LEMMA FirstIn ==
    ASSUME SessionSound, NEW c \in Clients, NEW op, First(c, op), NEW ops, Only(connection[c], ops)
    PROVE  op \in ops
<1>1. PICK k : k = connection[c].calls
  OBVIOUS
<1>2. k \in Seq(Calls) /\ k # <<>> /\ k[1] .op = op
  BY <1>1, PartsOf DEF SessionSound, First
<1>3. 1 \in 1..Len(k)
  BY <1>2
<1> QED
  BY <1>1, <1>2, <1>3 DEF Only

LEMMA NothingLeft ==
    ASSUME NEW c, Emptied(c), NEW ops
    PROVE  Only(connection'[c], ops) /\ connection'[c].calls = <<>>
BY DEF Emptied, Only

LEMMA TailOnly ==
    ASSUME SessionSound, NEW c \in Clients, Answered(c), NEW op, First(c, op)
    PROVE  /\ \A i \in 1..Len(connection'[c].calls) :
                 /\ i + 1 \in 1..Len(connection[c].calls)
                 /\ connection'[c].calls[i] = connection[c].calls[i + 1]
           /\ \A ops : Only(connection[c], ops) => Only(connection'[c], ops)
<1>1. PICK k, u : k = connection[c].calls /\ u = connection'[c].calls
  OBVIOUS
<1>2. k \in Seq(Calls) /\ k # <<>> /\ u = Tail(k)
  BY <1>1, PartsOf DEF SessionSound, First, Answered
<1>3. Len(u) = Len(k) - 1 /\ \A i \in 1..Len(u) : u[i] = k[i + 1]
  BY <1>2, HeadTailProperties
<1>4. Len(k) \in Nat
  BY <1>2
<1>5. \A i \in 1..Len(u) : i + 1 \in 1..Len(k) /\ u[i] = k[i + 1]
  BY <1>3, <1>4
<1> QED
  BY <1>1, <1>5 DEF Only

(* A failure is the same wherever an applier is.                           *)
LEMMA ApplierFails ==
    ASSUME SessionSound, HistoryInv, NEW c \in Appliers, Fails(c), apply' = apply
    PROVE  ApplierInv(c)'
<1>0. c \in Clients
  BY MigrationAssumption
<1>1. /\ db' = db /\ Seen'[c] = NoTxn
      /\ told'[c] = "failed" /\ Only(connection'[c], {"rollback"})
  BY <1>0, FailSeen
<1>2. ~Seen'[c].open
  BY <1>1 DEF NoTxn
<1>3. \A ops : "rollback" \in ops => Idle(c, ops)'
  BY <1>1, <1>2 DEF Idle, Only
<1>4. Failed(c)'
  BY <1>1, <1>3 DEF Failed
<1>5. ApplierInv(c)
  BY DEF HistoryInv
<1>6. CASE apply[c].pc = "ensure" /\ Ensuring(c)
  <2>1. Ensuring(c)'
    BY <1>1, <1>3 DEF Ensuring, Only
  <2> QED
    BY <1>6, <2>1 DEF ApplierInv
<1>7. CASE apply[c].pc = "plan" /\ Planning(c)
  <2>1. Planning(c)'
    BY <1>1, <1>3 DEF Planning
  <2> QED
    BY <1>7, <2>1 DEF ApplierInv
<1>8. CASE apply[c].pc = "body" /\ Preparing(c)
  <2>1. PICK v \in 1..Known[c], done \in Seq(Statements) : Halfway(c, v, done)
    BY <1>8 DEF Preparing
  <2>2. Reached(v - 1)'
    BY <1>1, <2>1 DEF Halfway, Reached, Applied
  <2>3. Halfway(c, v, done)'
    BY <1>4, <2>1, <2>2, WholeSame DEF Halfway
  <2>4. Preparing(c)'
    BY <2>3 DEF Preparing
  <2> QED
    BY <1>8, <2>4 DEF ApplierInv
<1>9. CASE apply[c].pc \in {"stopped", "done"} \/ apply[c].pc = "check" \/ apply[c].pc = "next"
  BY <1>3, <1>4, <1>9 DEF ApplierInv
<1> QED
  BY <1>5, <1>6, <1>7, <1>8, <1>9 DEF ApplierInv

LEMMA ApplierBegins ==
    ASSUME SessionSound, HistoryInv, NEW c \in Appliers, apply' = apply,
           Sql!Begin(c), Emptied(c), First(c, "begin")
    PROVE  ApplierInv(c)'
<1>0. c \in Clients /\ Alone(c)
  BY MigrationAssumption DEF Emptied
<1>1. /\ db' = db /\ told'[c] = "nothing"
      /\ Seen'[c] = [open |-> TRUE, effects |-> <<>>]
  BY <1>0, BeginSeen
<1>2. \A ops : Only(connection[c], ops) => "begin" \in ops
  BY <1>0, FirstIn
<1>3. apply[c].pc = "body" /\ Preparing(c)
  BY <1>2 DEF HistoryInv, ApplierInv, Idle, Ensuring, Planning, Failed, Ready, Committing, Txn
<1>4. PICK v \in 1..Known[c], done \in Seq(Statements) : Halfway(c, v, done)
  BY <1>3 DEF Preparing
<1>5. done = <<>>
  BY <1>2, <1>4 DEF Halfway, Failed, Idle, Txn
<1>6. Txn(c, After(<<>>, done), {"execute"})'
  BY <1>1, <1>5, NothingLeft, NoEffects DEF Txn
<1>7. Reached(v - 1)'
  BY <1>1, <1>4 DEF Halfway, Reached, Applied
<1>8. Halfway(c, v, done)'
  BY <1>4, <1>6, <1>7, WholeSame DEF Halfway
<1>9. Preparing(c)'
  BY <1>8 DEF Preparing
<1> QED
  BY <1>3, <1>9 DEF ApplierInv

LEMMA ApplierReads ==
    ASSUME SessionSound, HistoryInv, NEW c \in Appliers, apply' = apply,
           Sql!Read(c), Emptied(c), First(c, "fetch"), Seen' = Seen
    PROVE  ApplierInv(c)'
<1>0. c \in Clients /\ Alone(c)
  BY MigrationAssumption DEF Emptied
<1>1. /\ db' = db /\ told' = told
      /\ ~Seen[c].open => answer'[c] = db
  BY <1>0, ReadSeen
<1>2. \A ops : Only(connection[c], ops) => "fetch" \in ops
  BY <1>0, FirstIn
<1>3. \/ apply[c].pc = "plan" /\ Planning(c)
      \/ apply[c].pc = "check" /\ Idle(c, {"fetch", "rollback"})
  BY <1>2 DEF HistoryInv, ApplierInv, Idle, Ensuring, Failed, Ready, Committing, Txn,
              Preparing, Halfway
<1>4. ~Seen[c].open
  BY <1>3 DEF Planning, Idle
<1>5. Idle(c, {"fetch", "rollback"})'
  BY <1>4, NothingLeft DEF Idle
<1>6. Applied(answer'[c]) \subseteq Applied(db')
  BY <1>1, <1>4
<1>7. Planning(c)'
  BY <1>5, <1>6 DEF Planning, Applied
<1> QED
  BY <1>3, <1>5, <1>7 DEF ApplierInv

LEMMA ApplierCommits ==
    ASSUME SessionSound, HistoryInv, NEW c \in Appliers, apply' = apply,
           Sql!Commit(c), Emptied(c), First(c, "commit")
    PROVE  ApplierInv(c)' /\ HistoryIsTrue' /\ Keeps
<1>0. c \in Clients /\ Alone(c)
  BY MigrationAssumption DEF Emptied
<1>1. \A ops : Only(connection[c], ops) => "commit" \in ops
  BY <1>0, FirstIn
<1>2. apply[c].pc = "next" /\ Committing(c)
  BY <1>1 DEF HistoryInv, ApplierInv, Idle, Ensuring, Planning, Failed, Ready, Txn,
              Preparing, Halfway
<1>3. PICK v \in 1..Known[c] :
         /\ Txn(c, After(<<>>, Whole(v)), {"execute", "commit"})
         /\ Reached(v - 1) /\ apply[c].todo = (v + 1)..Known[c]
  BY <1>2 DEF Committing
<1>4. v \in Versions
  BY VersionsAre
<1>5. PICK e \in Effects : e = After(<<>>, Whole(v))
  BY <1>4, WholeTyped, NoEffects, AfterTyped
<1>6. Seen[c] = [open |-> TRUE, effects |-> e]
  BY <1>3, <1>5 DEF Txn
<1>7. db' = Over(e, db) /\ Seen'[c] = NoTxn
  BY <1>0, <1>6, CommitSeen
<1>8. HistoryIsTrue' /\ Applied(db') = Applied(db) \cup {v}
  BY <1>3, <1>4, <1>5, <1>7, HistoryGrows DEF HistoryInv, Reached
<1>9. Keeps
  BY <1>8 DEF Keeps
<1>10. Idle(c, {"rollback"})'
  BY <1>7, NothingLeft DEF Idle, NoTxn
<1>11. Reached(v)'
  <2>1. v \in Nat /\ v >= 1
    BY <1>4, VersionsAre
  <2>2. 1..v \subseteq (1..(v - 1)) \cup {v}
    BY <2>1
  <2>3. 1..v \subseteq Applied(db')
    BY <1>3, <1>8, <2>2 DEF Reached
  <2> QED
    BY <2>3 DEF Reached, Applied
<1>12. v \in 0..Known[c]
  OBVIOUS
<1>13. Ready(c)'
  BY <1>3, <1>10, <1>11, <1>12 DEF Ready
<1> QED
  BY <1>2, <1>8, <1>9, <1>13 DEF ApplierInv

LEMMA ApplierStays ==
    ASSUME SessionSound, HistoryInv, NEW c \in Appliers, apply' = apply,
           SessionStays, Answered(c), NEW op \in {"rollback", "execute"}, First(c, op)
    PROVE  ApplierInv(c)'
<1>0. c \in Clients
  BY MigrationAssumption
<1>1. db' = db /\ Seen' = Seen /\ told' = told /\ answer' = answer
  BY DEF SessionStays
<1>2. /\ \A i \in 1..Len(connection'[c].calls) :
            /\ i + 1 \in 1..Len(connection[c].calls)
            /\ connection'[c].calls[i] = connection[c].calls[i + 1]
      /\ \A ops : Only(connection[c], ops) => Only(connection'[c], ops)
  BY <1>0, TailOnly
<1>3. \A ops : Idle(c, ops) => Idle(c, ops)'
  BY <1>1, <1>2 DEF Idle
<1>4. Failed(c) => Failed(c)'
  BY <1>1, <1>3 DEF Failed
<1>5. \A effects, ops : Txn(c, effects, ops) => Txn(c, effects, ops)'
  BY <1>1, <1>2 DEF Txn
<1>6. ~First(c, "fetch") /\ ~First(c, "begin")
  BY DEF First
<1>7. ApplierInv(c)
  BY DEF HistoryInv
<1>8. \A n : Reached(n) => Reached(n)'
  BY <1>1 DEF Reached, Applied
<1>9. CASE apply[c].pc \in {"stopped", "done"} /\ Idle(c, {"rollback"})
  BY <1>3, <1>9 DEF ApplierInv
<1>10. CASE apply[c].pc = "ensure" /\ Ensuring(c)
  <2>1. Ensuring(c)'
    BY <1>2, <1>3, <1>10 DEF Ensuring, EnsureTable
  <2> QED
    BY <1>10, <2>1 DEF ApplierInv
<1>11. CASE apply[c].pc = "plan" /\ Planning(c)
  <2>1. Planning(c)'
    BY <1>1, <1>3, <1>6, <1>11 DEF Planning, Applied
  <2> QED
    BY <1>11, <2>1 DEF ApplierInv
<1>12. CASE apply[c].pc = "check" /\ Idle(c, {"fetch", "rollback"})
  BY <1>3, <1>12 DEF ApplierInv
<1>13. CASE apply[c].pc = "body" /\ Preparing(c)
  <2>1. PICK v \in 1..Known[c], done \in Seq(Statements) : Halfway(c, v, done)
    BY <1>13 DEF Preparing
  <2>2. Halfway(c, v, done)'
    BY <1>4, <1>5, <1>6, <1>8, <2>1, WholeSame DEF Halfway
  <2>3. Preparing(c)'
    BY <2>2 DEF Preparing
  <2> QED
    BY <1>13, <2>3 DEF ApplierInv
<1>14. CASE apply[c].pc = "next" /\ (Failed(c) \/ Ready(c) \/ Committing(c))
  <2>1. Ready(c) => Ready(c)'
    BY <1>3, <1>8 DEF Ready
  <2>2. Committing(c) => Committing(c)'
    BY <1>5, <1>8, WholeSame DEF Committing
  <2> QED
    BY <1>4, <1>14, <2>1, <2>2 DEF ApplierInv
<1> QED
  BY <1>7, <1>9, <1>10, <1>11, <1>12, <1>13, <1>14 DEF ApplierInv

LEMMA ApplierSingles ==
    ASSUME SessionSound, HistoryInv, NEW c \in Appliers, apply' = apply,
           NEW st \in Statements, SingleCommitted(c, st), Emptied(c)
    PROVE  ApplierInv(c)' /\ HistoryIsTrue' /\ Keeps
<1>0. c \in Clients /\ Alone(c)
  BY MigrationAssumption DEF Emptied
<1>1. /\ Sql!Single(c, st) /\ First(c, "execute")
      /\ connection[c].calls[1].statements = <<st>>
  BY DEF SingleCommitted
<1>2. /\ db' = Sql!Over(Sql!Effect(<<>>, st), db) /\ Seen' = Seen /\ ~Seen[c].open
  BY <1>0, <1>1, SingleSeen
<1>3. \A ops : Only(connection[c], ops) => "execute" \in ops
  BY <1>0, <1>1, FirstIn
<1>4. apply[c].pc = "ensure" /\ Ensuring(c)
  <2>1. \A effects, ops : ~Txn(c, effects, ops)
    BY <1>2 DEF Txn
  <2>2. \A ops : Idle(c, ops) => "execute" \in ops
    BY <1>3 DEF Idle
  <2> QED
    BY <2>1, <2>2 DEF HistoryInv, ApplierInv, Planning, Failed, Ready, Committing,
                      Preparing, Halfway
<1>5. st = EnsureTable
  <2>1. PICK k : k = connection[c].calls
    OBVIOUS
  <2>2. k \in Seq(Calls) /\ k # <<>> /\ k[1].op = "execute" /\ k[1].statements = <<st>>
    BY <1>0, <1>1, <2>1, PartsOf DEF SessionSound, First
  <2>3. 1 \in 1..Len(k)
    BY <2>2
  <2>4. <<st>> = <<EnsureTable>>
    BY <1>4, <2>1, <2>2, <2>3 DEF Ensuring
  <2> QED
    BY <2>4
<1>6. HistoryIsTrue' /\ Applied(db') = Applied(db)
  BY <1>2, <1>5, EnsuringKeeps DEF HistoryInv
<1>7. Only(connection'[c], {"execute", "rollback"}) /\ connection'[c].calls = <<>>
  BY NothingLeft
<1>8. Ensuring(c)'
  BY <1>2, <1>7 DEF Ensuring, Idle
<1> QED
  BY <1>4, <1>6, <1>8 DEF ApplierInv, Keeps

LEMMA SameHistory ==
    ASSUME HistoryIsTrue, db' = db
    PROVE  HistoryIsTrue' /\ Keeps
BY DEF HistoryIsTrue, Keeps, Applied, Versions, Objects, Writes

LEMMA ApplierNetworked ==
    ASSUME SessionSound, HistoryInv, NEW c \in Appliers, apply' = apply, Networked(c)
    PROVE  ApplierInv(c)' /\ HistoryIsTrue' /\ Keeps
<1>0. c \in Clients /\ HistoryIsTrue
  BY MigrationAssumption DEF HistoryInv
<1>1. CASE Sql!Begin(c) /\ Emptied(c) /\ First(c, "begin")
  <2>1. db' = db
    BY <1>1 DEF Sql!Begin
  <2> QED
    BY <1>0, <1>1, <2>1, ApplierBegins, SameHistory
<1>2. CASE Sql!Read(c) /\ Emptied(c) /\ First(c, "fetch") /\ Seen' = Seen
  <2>1. db' = db
    BY <1>2 DEF Sql!Read
  <2> QED
    BY <1>0, <1>2, <2>1, ApplierReads, SameHistory
<1>3. CASE Sql!Commit(c) /\ Emptied(c) /\ First(c, "commit")
  BY <1>3, ApplierCommits
<1>4. CASE /\ SessionStays /\ Answered(c)
           /\ First(c, "rollback") \/ (First(c, "execute") /\ connection[c].active)
  <2>1. db' = db
    BY <1>4 DEF SessionStays
  <2>2. PICK op \in {"rollback", "execute"} : First(c, op)
    BY <1>4
  <2> QED
    BY <1>0, <1>4, <2>1, <2>2, ApplierStays, SameHistory
<1>5. CASE Fails(c)
  <2>1. db' = db
    BY <1>0, <1>5, FailSeen
  <2> QED
    BY <1>0, <1>5, <2>1, ApplierFails, SameHistory
<1>6. CASE \E st \in Statements : SingleCommitted(c, st) /\ Emptied(c)
  BY <1>6, ApplierSingles
<1> QED
  BY <1>1, <1>2, <1>3, <1>4, <1>5, <1>6, Zenon DEF Networked

LEMMA WriterNetworked ==
    ASSUME SessionSound, HistoryInv, NEW c \in Writers, Networked(c)
    PROVE  WriterInv(c)' /\ HistoryIsTrue' /\ Keeps
<1>0. c \in Clients /\ HistoryIsTrue
  BY MigrationAssumption DEF HistoryInv
<1>1. /\ Seen[c].open => DOMAIN Seen[c].effects \subseteq DataKeys
      /\ ~Seen[c].open => Only(connection[c], {"begin", "rollback"})
  BY DEF HistoryInv, WriterInv
<1>2. ASSUME ~Seen'[c].open, Only(connection'[c], {"begin", "rollback"})
      PROVE  WriterInv(c)'
  BY <1>2 DEF WriterInv
<1>3. CASE Sql!Begin(c) /\ Emptied(c) /\ First(c, "begin")
  <2>1. db' = db /\ Seen'[c] = [open |-> TRUE, effects |-> <<>>]
    BY <1>0, <1>3, BeginSeen DEF Emptied
  <2>2. WriterInv(c)'
    BY <2>1 DEF WriterInv
  <2> QED
    BY <1>0, <2>1, <2>2, SameHistory
<1>4. CASE Sql!Read(c) /\ Emptied(c) /\ First(c, "fetch") /\ Seen' = Seen
  <2>1. db' = db
    BY <1>0, <1>4, ReadSeen DEF Emptied
  <2>2. Only(connection'[c], {"begin", "rollback"})
    BY <1>4, NothingLeft
  <2>3. WriterInv(c)'
    BY <1>1, <1>4, <2>2 DEF WriterInv, DataKeys
  <2> QED
    BY <1>0, <2>1, <2>3, SameHistory
<1>5. CASE Sql!Commit(c) /\ Emptied(c) /\ First(c, "commit")
  <2>1. connection[c].active
    BY <1>0, <1>5, SeenIs DEF Sql!Commit, Seen
  <2>2. PICK e \in Effects : Seen[c] = [open |-> TRUE, effects |-> e]
    BY <1>0, <2>1, SeenIs
  <2>3. db' = Over(e, db) /\ Seen'[c] = NoTxn
    BY <1>0, <1>5, <2>2, CommitSeen DEF Emptied
  <2>4. DOMAIN e \subseteq DataKeys
    BY <1>1, <2>2
  <2>5. HistoryIsTrue' /\ Applied(db') = Applied(db)
    BY <1>0, <2>3, <2>4, DataUntouched, HistoryKept
  <2>6. WriterInv(c)'
    BY <1>2, <1>5, <2>3, NothingLeft DEF NoTxn
  <2> QED
    BY <2>5, <2>6 DEF Keeps
<1>6. CASE /\ SessionStays /\ Answered(c)
           /\ First(c, "rollback") \/ (First(c, "execute") /\ connection[c].active)
  <2>1. db' = db /\ Seen' = Seen
    BY <1>6 DEF SessionStays
  <2>2. \A ops : Only(connection[c], ops) => Only(connection'[c], ops)
    BY <1>0, <1>6, TailOnly
  <2>3. WriterInv(c)'
    BY <1>1, <2>1, <2>2 DEF WriterInv, DataKeys
  <2> QED
    BY <1>0, <2>1, <2>3, SameHistory
<1>7. CASE Fails(c)
  <2>1. db' = db /\ Seen'[c] = NoTxn /\ Only(connection'[c], {"rollback"})
    BY <1>0, <1>7, FailSeen
  <2>2. WriterInv(c)'
    BY <1>2, <2>1 DEF NoTxn, Only
  <2> QED
    BY <1>0, <2>1, <2>2, SameHistory
<1>8. CASE \E st \in Statements : SingleCommitted(c, st) /\ Emptied(c)
  <2>1. First(c, "execute") /\ ~connection[c].active
    BY <1>8 DEF SingleCommitted
  <2>2. Only(connection[c], {"begin", "rollback"})
    BY <1>0, <1>1, <2>1, SeenIs
  <2> QED
    BY <1>0, <2>1, <2>2, FirstIn
<1> QED
  BY <1>3, <1>4, <1>5, <1>6, <1>7, <1>8, Zenon DEF Networked

LEMMA NetworkedAlone ==
    ASSUME SessionSound, HistoryInv, NEW c \in Clients, Networked(c)
    PROVE  OnlyOf(c) /\ (Seen'[c].open => told'[c] = "nothing")
<1>0. Seen[c].open => told[c] = "nothing"
  BY DEF HistoryInv, Told
<1>1. CASE Sql!Begin(c) /\ Emptied(c)
  BY <1>1, BeginSeen DEF Emptied
<1>2. CASE Sql!Read(c) /\ Emptied(c) /\ Seen' = Seen
  BY <1>0, <1>2, ReadSeen DEF Emptied
<1>3. CASE Sql!Commit(c) /\ Emptied(c)
  <2>1. connection[c].active
    BY <1>3, SeenIs DEF Sql!Commit, Seen
  <2>2. PICK e \in Effects : Seen[c] = [open |-> TRUE, effects |-> e]
    BY <2>1, SeenIs
  <2> QED
    BY <1>3, <2>2, CommitSeen DEF Emptied, NoTxn
<1>4. CASE SessionStays /\ Answered(c)
  BY <1>0, <1>4 DEF SessionStays, Answered, Alone, OnlyOf, Undisturbed
<1>5. CASE Fails(c)
  BY <1>5, FailSeen DEF NoTxn
<1>6. CASE \E st \in Statements : SingleCommitted(c, st) /\ Emptied(c)
  BY <1>6, SingleSeen DEF SingleCommitted, Emptied
<1> QED
  BY <1>1, <1>2, <1>3, <1>4, <1>5, <1>6, Zenon DEF Networked

LEMMA NetworkTells ==
    ASSUME SessionSound, HistoryInv, Network, apply' = apply
    PROVE  HistoryInv'
<1>1. PICK c \in Clients : Reply(c) \/ Lost(c) \/ Cancelled(c) \/ Vanish(c)
  BY DEF Network
<1>2. Networked(c)
  BY <1>1, NetworkSteps
<1>3. OnlyOf(c) /\ (Seen'[c].open => told'[c] = "nothing")
  BY <1>2, NetworkedAlone
<1>4. CASE c \in Appliers
  <2>1. c \notin Writers
    BY <1>4, MigrationAssumption
  <2> QED
    BY <1>2, <1>3, <1>4, <2>1, ApplierNetworked, Settled
<1>5. CASE c \in Writers
  <2>1. c \notin Appliers
    BY <1>5, MigrationAssumption
  <2> QED
    BY <1>2, <1>3, <1>5, <2>1, WriterNetworked, Settled
<1> QED
  BY <1>4, <1>5, MigrationAssumption

-----------------------------------------------------------------------------
(* The steps of an applier.                                                *)

LEMMA ForgetTells ==
    ASSUME SessionSound, HistoryInv, NEW c \in Clients, Sql!Forget(c), Alone(c),
           \A d \in Appliers \ {c} : apply'[d] = apply[d],
           c \in Appliers => ApplierInv(c)', c \in Writers => WriterInv(c)'
    PROVE  HistoryInv'
<1>1. OnlyOf(c) /\ db' = db /\ Seen' = Seen /\ told' = told
  BY ForgetSeen
<1>2. HistoryIsTrue' /\ Keeps
  BY <1>1, SameHistory DEF HistoryInv
<1>3. Seen'[c].open => told'[c] = "nothing"
  BY <1>1 DEF HistoryInv, Told
<1> QED
  BY <1>1, <1>2, <1>3, Settled

LEMMA IssueTells ==
    ASSUME SessionSound, HistoryInv, NEW c \in Clients, NEW st \in Statements,
           Sql!Issue(c, st), Alone(c), NEW e, Seen[c] = [open |-> TRUE, effects |-> e],
           \A d \in Appliers \ {c} : apply'[d] = apply[d],
           c \in Appliers => ApplierInv(c)', c \in Writers => WriterInv(c)'
    PROVE  HistoryInv'
<1>1. OnlyOf(c) /\ db' = db /\ told' = told
  BY IssueSeen
<1>2. HistoryIsTrue' /\ Keeps
  BY <1>1, SameHistory DEF HistoryInv
<1>3. Seen[c].open
  OBVIOUS
<1>4. told'[c] = "nothing"
  BY <1>1, <1>3 DEF HistoryInv, Told
<1> QED
  BY <1>1, <1>2, <1>4, Settled

LEMMA StayTells ==
    ASSUME SessionSound, HistoryInv, NEW c \in Clients, UNCHANGED session,
           \A d \in Appliers \ {c} : apply'[d] = apply[d],
           c \in Appliers => ApplierInv(c)', c \in Writers => WriterInv(c)'
    PROVE  HistoryInv'
<1>1. db' = db /\ Seen' = Seen /\ told' = told /\ answer' = answer /\ connection' = connection
  BY DEF session, Seen
<1>2. HistoryIsTrue' /\ Keeps
  BY <1>1, SameHistory DEF HistoryInv
<1>3. Seen'[c].open => told'[c] = "nothing"
  BY <1>1 DEF HistoryInv, Told
<1>4. OnlyOf(c)
  BY <1>1 DEF OnlyOf, Undisturbed
<1> QED
  BY <1>2, <1>3, <1>4, Settled

(* Outside of a transaction a method makes one call.                       *)
LEMMA AskedIdle ==
    ASSUME SessionSound, NEW c \in Clients, NEW op, Asks(c, op), ~Seen[c].open, Seen' = Seen
    PROVE  /\ connection'[c].calls[1].op = op
           /\ \A i \in 1..Len(connection'[c].calls) : i = 1
           /\ \A ops : op \in ops => Idle(c, ops)'
<1>1. Len(connection'[c].calls) = 1 /\ connection'[c].calls[1].op = op
  BY SeenIs DEF Asks
<1>2. \A i \in 1..Len(connection'[c].calls) : i = 1
  BY <1>1
<1>3. \A ops : op \in ops => Only(connection'[c], ops)
  BY <1>1, <1>2 DEF Only
<1> QED
  BY <1>1, <1>2, <1>3 DEF Idle

LEMMA FreeOnly ==
    ASSUME NEW c, Free(c)
    PROVE  (\A ops : Only(connection[c], ops)) /\ \A op : ~First(c, op)
BY DEF Free, Only, First

LEMMA ApplyTells ==
    ASSUME SessionSound, ApplySound, HistoryInv, NEW c \in Appliers, Apply(c)
    PROVE  HistoryInv'
<1>0. c \in Clients /\ c \notin Writers /\ EnsureTable \in Statements
  BY MigrationAssumption
<1>1. /\ apply'[c] = [pc |-> "ensure"] /\ \A d \in Appliers \ {c} : apply'[d] = apply[d]
  BY Continuing DEF Apply, Planned
<1>2. ~Seen[c].open
  BY DEF Apply, Stopped, HistoryInv, ApplierInv, Idle
<1>3. Executing(c, EnsureTable)
  BY <1>0, ExecuteAsks DEF Apply
<1>4. /\ Asks(c, "execute") /\ Alone(c) /\ Sql!Forget(c)
      /\ connection'[c].calls[1].statements = <<EnsureTable>>
  BY <1>0, <1>2, <1>3, SeenIs DEF Executing, Asks
<1>5. Seen' = Seen
  BY <1>0, <1>4, ForgetSeen
<1>6. /\ \A i \in 1..Len(connection'[c].calls) : i = 1
      /\ Idle(c, {"execute", "rollback"})'
  BY <1>0, <1>2, <1>4, <1>5, AskedIdle
<1>7. Ensuring(c)'
  BY <1>4, <1>6 DEF Ensuring, EnsureTable
<1>8. ApplierInv(c)'
  BY <1>1, <1>7 DEF ApplierInv
<1> QED
  BY <1>0, <1>1, <1>4, <1>8, ForgetTells

LEMMA EndTells ==
    ASSUME SessionSound, ApplySound, HistoryInv, NEW c \in Appliers, GiveUp(c) \/ Finish(c)
    PROVE  HistoryInv'
<1>0. c \in Clients /\ c \notin Writers
  BY MigrationAssumption
<1>1. PICK r \in {[pc |-> "done"], Stopped} : Continue(c, r)
  BY DEF GiveUp, Finish
<1>2. Planned(r) /\ r.pc \in {"stopped", "done"}
  BY <1>1 DEF Planned, Stopped
<1>3. /\ apply'[c].pc \in {"stopped", "done"} /\ \A d \in Appliers \ {c} : apply'[d] = apply[d]
  BY <1>1, <1>2, Continuing
<1>4. UNCHANGED session /\ Free(c) /\ told[c] \in {"failed", "committed"}
  BY DEF GiveUp, Finish, Heard
<1>5. ~Seen[c].open
  BY <1>0, <1>4 DEF HistoryInv, Told
<1>6. Idle(c, {"rollback"})'
  BY <1>4, <1>5, FreeOnly DEF Idle, session, Seen, Only
<1>7. ApplierInv(c)'
  BY <1>3, <1>6 DEF ApplierInv
<1> QED
  BY <1>0, <1>3, <1>4, <1>7, StayTells

LEMMA ReadTells ==
    ASSUME SessionSound, ApplySound, HistoryInv, NEW c \in Appliers,
           ReadHistory(c) \/ CheckVersion(c)
    PROVE  HistoryInv'
<1>0. c \in Clients /\ c \notin Writers
  BY MigrationAssumption
<1>1. PICK r \in {[pc |-> "plan"], [pc |-> "check"]} : Continue(c, r)
  BY DEF ReadHistory, CheckVersion
<1>2. Planned(r) /\ r.pc \in {"plan", "check"}
  BY <1>1 DEF Planned
<1>3. /\ apply'[c].pc \in {"plan", "check"} /\ \A d \in Appliers \ {c} : apply'[d] = apply[d]
  BY <1>1, <1>2, Continuing
<1>4. Fetch(c) /\ Free(c) /\ told[c] = "committed"
  BY DEF ReadHistory, CheckVersion, Heard
<1>5. ~Seen[c].open
  BY <1>0, <1>4 DEF HistoryInv, Told
<1>6. Asks(c, "fetch") /\ Alone(c) /\ Sql!Forget(c)
  BY <1>0, <1>4, FetchAsks DEF Asks
<1>7. Seen' = Seen
  BY <1>0, <1>6, ForgetSeen
<1>8. Idle(c, {"fetch", "rollback"})' /\ connection'[c].calls[1].op = "fetch"
  BY <1>0, <1>5, <1>6, <1>7, AskedIdle
<1>9. Len(connection'[c].calls) = 1
  BY <1>0, <1>5, <1>6, SeenIs DEF Asks
<1>10. First(c, "fetch")'
  BY <1>8, <1>9 DEF First
<1>11. Planning(c)'
  BY <1>8, <1>10 DEF Planning
<1>12. ApplierInv(c)'
  BY <1>3, <1>8, <1>11 DEF ApplierInv
<1> QED
  BY <1>0, <1>3, <1>6, <1>12, ForgetTells

LEMMA IntervalParts ==
    ASSUME NEW n \in Nat, NEW m \in Nat, n <= m
    PROVE  /\ (1..m) \ (1..n) = (n + 1)..m
           /\ (n + 1)..m # {} => Min((n + 1)..m) = n + 1
           /\ ((n + 1)..m) \ {n + 1} = (n + 2)..m
<1>1. (1..m) \ (1..n) = (n + 1)..m /\ ((n + 1)..m) \ {n + 1} = (n + 2)..m
  OBVIOUS
<1>2. ASSUME (n + 1)..m # {}
      PROVE  Min((n + 1)..m) = n + 1
  <2>1. PICK S : S = (n + 1)..m
    OBVIOUS
  <2>2. n + 1 \in S /\ \A y \in S : n + 1 <= y
    BY <1>2, <2>1
  <2>3. PICK x : x = Min(S)
    OBVIOUS
  <2>4. x \in S /\ \A y \in S : x <= y
    BY <2>2, <2>3 DEF Min
  <2>5. x <= n + 1 /\ n + 1 <= x /\ x \in Nat
    BY <2>1, <2>2, <2>4
  <2> QED
    BY <2>1, <2>3, <2>5
<1> QED
  BY <1>1, <1>2

LEMMA PlanTells ==
    ASSUME SessionSound, ApplySound, HistoryInv, NEW c \in Appliers, Plan(c)
    PROVE  HistoryInv'
<1>0. c \in Clients /\ c \notin Writers
  BY MigrationAssumption
<1>1. UNCHANGED session /\ Free(c) /\ told[c] = "committed"
  BY DEF Plan, Heard
<1>2. Planning(c)
  BY DEF Plan, HistoryInv, ApplierInv
<1>3. Applied(answer[c]) \subseteq Applied(db) /\ ~Seen[c].open
  BY <1>1, <1>2, FreeOnly DEF Planning, Idle
<1>4. Idle(c, {"rollback"})'
  BY <1>1, <1>3, FreeOnly DEF Idle, session, Seen, Only
<1>5. CASE ValidHistory(c)
  <2>1. PICK n \in 0..Known[c] : Applied(answer[c]) = 1..n
    BY <1>5 DEF ValidHistory
  <2>2. Known[c] \in Nat /\ n \in Nat /\ n <= Known[c]
    BY <2>1, VersionsAre
  <2>3. PICK todo : todo = (n + 1)..Known[c]
    OBVIOUS
  <2>4. 1..Known[c] \ Applied(answer[c]) = todo
    BY <2>1, <2>2, <2>3, IntervalParts
  <2>5. PICK r : r = [pc |-> "next", todo |-> todo]
    OBVIOUS
  <2>6. Continue(c, r)
    BY <1>5, <2>4, <2>5 DEF Plan
  <2>7. Planned(r)
    BY <2>2, <2>3, <2>4, <2>5, VersionsAre DEF Planned
  <2>8. /\ apply'[c].pc = "next" /\ apply'[c].todo = todo
        /\ \A d \in Appliers \ {c} : apply'[d] = apply[d]
    BY <2>5, <2>6, <2>7, Continuing
  <2>9. Reached(n)'
    BY <1>1, <1>3, <2>1 DEF Reached, session, Applied
  <2>10. Ready(c)'
    BY <1>4, <2>1, <2>3, <2>8, <2>9 DEF Ready
  <2>11. ApplierInv(c)'
    BY <2>8, <2>10 DEF ApplierInv
  <2> QED
    BY <1>0, <1>1, <2>8, <2>11, StayTells
<1>6. CASE ~ValidHistory(c)
  <2>1. Continue(c, Stopped)
    BY <1>6 DEF Plan
  <2>2. Planned(Stopped) /\ Stopped.pc = "stopped"
    BY DEF Planned, Stopped
  <2>3. /\ apply'[c].pc = "stopped" /\ \A d \in Appliers \ {c} : apply'[d] = apply[d]
    BY <2>1, <2>2, Continuing
  <2>4. ApplierInv(c)'
    BY <1>4, <2>3 DEF ApplierInv
  <2> QED
    BY <1>0, <1>1, <2>3, <2>4, StayTells
<1> QED
  BY <1>5, <1>6

(* A transaction begins with the version after those that are there.       *)
LEMMA OpenTells ==
    ASSUME SessionSound, ApplySound, HistoryInv, NEW c \in Appliers, Open(c)
    PROVE  HistoryInv'
<1>0. c \in Clients /\ c \notin Writers
  BY MigrationAssumption
<1>1. Begin(c) /\ Free(c) /\ told[c] = "committed" /\ apply[c].todo # {} /\ apply[c].pc = "next"
  BY DEF Open, Heard
<1>2. ~Seen[c].open
  BY <1>0, <1>1 DEF HistoryInv, Told
<1>3. Ready(c)
  <2>1. \A effects, ops : ~Txn(c, effects, ops)
    BY <1>2 DEF Txn
  <2>2. ~Failed(c)
    BY <1>1 DEF Failed
  <2> QED
    BY <1>1, <2>1, <2>2 DEF HistoryInv, ApplierInv, Committing
<1>4. PICK n \in 0..Known[c] : Reached(n) /\ apply[c].todo = (n + 1)..Known[c]
  BY <1>3 DEF Ready
<1>5. Known[c] \in Nat /\ n \in Nat /\ n <= Known[c]
  BY <1>4, VersionsAre
<1>6. PICK v : v = n + 1
  OBVIOUS
<1>7. v \in 1..Known[c] /\ v - 1 = n
  BY <1>1, <1>4, <1>5, <1>6
<1>8. PICK todo : todo = v..Known[c] /\ todo = apply[c].todo
  BY <1>4, <1>6
<1>9. v \in Versions /\ todo \subseteq Versions /\ todo # {}
  BY <1>1, <1>7, <1>8, VersionsAre
<1>10. Min(todo) = v
  BY <1>5, <1>6, <1>8, <1>9, IntervalParts
<1>11. PICK r : r = Working(todo, Whole(v))
  OBVIOUS
<1>12. Continue(c, r)
  BY <1>8, <1>10, <1>11 DEF Open, Whole, Working
<1>13. Planned(r)
  BY <1>9, <1>11, WholeTyped DEF Planned, Working
<1>14. /\ apply'[c].pc = "body" /\ apply'[c].todo = todo /\ apply'[c].statements = Whole(v)
       /\ \A d \in Appliers \ {c} : apply'[d] = apply[d]
  BY <1>11, <1>12, <1>13, Continuing DEF Working
<1>15. Asks(c, "begin") /\ Alone(c) /\ Sql!Forget(c)
  BY <1>0, <1>1, BeginAsks DEF Asks
<1>16. Seen' = Seen /\ db' = db
  BY <1>0, <1>15, ForgetSeen
<1>17. Idle(c, {"begin"})' /\ connection'[c].calls[1].op = "begin"
  BY <1>0, <1>2, <1>15, <1>16, AskedIdle
<1>18. Len(connection'[c].calls) = 1
  BY <1>0, <1>2, <1>15, SeenIs DEF Asks
<1>19. First(c, "begin")'
  BY <1>17, <1>18 DEF First
<1>20. Reached(v - 1)'
  BY <1>4, <1>7, <1>16 DEF Reached, Applied
<1>21. PICK none \in Seq(Statements) : none = <<>>
  <2>1. <<>> \in Seq(Statements)
    OBVIOUS
  <2> QED
    BY <2>1
<1>22. none \o apply'[c].statements = Whole(v)
  BY <1>9, <1>14, <1>21, WholeTyped, ConcatEmptySeq
<1>23. Halfway(c, v, none)'
  BY <1>8, <1>14, <1>17, <1>19, <1>20, <1>21, <1>22, WholeSame DEF Halfway
<1>24. Preparing(c)'
  BY <1>7, <1>23 DEF Preparing
<1>25. ApplierInv(c)'
  BY <1>14, <1>24 DEF ApplierInv
<1> QED
  BY <1>0, <1>14, <1>15, <1>25, ForgetTells

OneMore(more, done, s) == more = done \o <<Head(s)>>

LEMMA OneMoreDone ==
    ASSUME NEW done \in Seq(Statements), NEW s \in Seq(Statements), s # <<>>,
           NEW more, OneMore(more, done, s)
    PROVE  /\ Head(s) \in Statements /\ more \in Seq(Statements)
           /\ more \o Tail(s) = done \o s
           /\ After(<<>>, more) = Sql!Effect(After(<<>>, done), Head(s))
<1>0. PICK st : st = Head(s) /\ more = done \o <<st>>
  BY DEF OneMore
<1>1. st \in Statements /\ Tail(s) \in Seq(Statements)
  BY <1>0
<1>2. PICK one \in Seq(Statements) : one = <<st>>
  <2>1. <<st>> \in Seq(Statements)
    BY <1>1
  <2> QED
    BY <2>1
<1>3. more = done \o one
  BY <1>0, <1>2
<1>4. one \o Tail(s) = s
  BY <1>0, <1>2
<1>5. more \in Seq(Statements)
  BY <1>3, ConcatProperties
<1>6. (done \o one) \o Tail(s) = done \o (one \o Tail(s))
  BY <1>1, <1>2, ConcatAssociative
<1>7. After(<<>>, more) = After(After(<<>>, done), one)
  BY <1>3, AfterBoth
<1>8. After(<<>>, done) \in Effects
  BY NoEffects, AfterTyped
<1>9. After(After(<<>>, done), one) = Sql!Effect(After(<<>>, done), st)
  <2>1. PICK e : e = After(<<>>, done)
    OBVIOUS
  <2>2. e = [k \in DOMAIN e |-> e[k]]
    BY <1>8, <2>1, EffectsAreFunctions
  <2>3. After(e, <<st>>) = Sql!Effect(e, st)
    BY <1>1, <2>2, AfterOne
  <2> QED
    BY <1>2, <2>1, <2>3
<1> QED
  BY <1>0, <1>1, <1>3, <1>4, <1>5, <1>6, <1>7, <1>9

LEMMA RunTells ==
    ASSUME SessionSound, ApplySound, HistoryInv, NEW c \in Appliers, RunStatement(c)
    PROVE  HistoryInv'
<1>0. c \in Clients /\ c \notin Writers
  BY MigrationAssumption
<1>1. PICK old, todo, s, rest :
         old = apply[c] /\ todo = old.todo /\ s = old.statements /\ rest = Tail(s)
  OBVIOUS
<1>2. /\ apply[c].pc = "body" /\ Free(c) /\ told[c] # "failed" /\ s # <<>>
      /\ Execute(c, Head(s))
  BY <1>1 DEF RunStatement
<1>3. Planned(apply[c])
  BY DEF ApplySound
<1>4. old = Working(todo, s) /\ s \in Seq(Statements) /\ todo \subseteq Versions /\ todo # {}
  BY <1>1, <1>2, <1>3 DEF Planned
<1>5. PICK v \in 1..Known[c], done \in Seq(Statements) : Halfway(c, v, done)
  BY <1>2 DEF HistoryInv, ApplierInv, Preparing
<1>6. Txn(c, After(<<>>, done), {"execute"})
  BY <1>2, <1>5, FreeOnly DEF Halfway, Failed
<1>7. PICK st, more : st = Head(s) /\ OneMore(more, done, s)
  BY DEF OneMore
<1>8. /\ st \in Statements /\ more \in Seq(Statements) /\ more \o rest = done \o s
      /\ After(<<>>, more) = Sql!Effect(After(<<>>, done), st)
  BY <1>1, <1>2, <1>4, <1>7, OneMoreDone
<1>9. PICK r : r = Working(todo, rest)
  OBVIOUS
<1>10. WithStatements(old, rest) = r
  BY <1>4, <1>9, StatementsReplaced
<1>11. Continue(c, r)
  BY <1>1, <1>10 DEF RunStatement, WithStatements
<1>12. Planned(r)
  <2>1. rest \in Seq(Statements)
    BY <1>1, <1>2, <1>4
  <2> QED
    BY <1>4, <1>9, <2>1 DEF Planned, Working
<1>13. /\ apply'[c].pc = "body" /\ apply'[c].todo = todo /\ apply'[c].statements = rest
       /\ \A d \in Appliers \ {c} : apply'[d] = apply[d]
  BY <1>9, <1>11, <1>12, Continuing DEF Working
<1>14. PICK e : e = After(<<>>, done)
  OBVIOUS
<1>15. Seen[c] = [open |-> TRUE, effects |-> e]
  BY <1>6, <1>14 DEF Txn
<1>16. connection[c].active
  BY <1>0, <1>15, SeenIs
<1>17. Executing(c, st)
  BY <1>0, <1>2, <1>7, <1>8, ExecuteAsks
<1>18. Asks(c, "execute") /\ Alone(c) /\ Sql!Issue(c, st)
  BY <1>16, <1>17 DEF Executing, Asks
<1>19. db' = db /\ Seen'[c] = [open |-> TRUE, effects |-> Sql!Effect(e, st)]
  BY <1>0, <1>8, <1>15, <1>18, IssueSeen
<1>20. Only(connection'[c], {"execute"})
  BY <1>18 DEF Asks, Only
<1>21. Txn(c, After(<<>>, more), {"execute"})'
  BY <1>8, <1>14, <1>19, <1>20 DEF Txn
<1>22. Reached(v - 1)'
  BY <1>5, <1>19 DEF Halfway, Reached, Applied
<1>23. more \o apply'[c].statements = Whole(v) /\ apply'[c].todo = v..Known[c]
  BY <1>1, <1>5, <1>8, <1>13 DEF Halfway
<1>24. Halfway(c, v, more)'
  BY <1>21, <1>22, <1>23, WholeSame DEF Halfway
<1>25. Preparing(c)'
  BY <1>8, <1>24 DEF Preparing
<1>26. ApplierInv(c)'
  BY <1>13, <1>25 DEF ApplierInv
<1> QED
  BY <1>0, <1>8, <1>13, <1>15, <1>18, <1>26, IssueTells

(* The transaction that is committed is the whole migration.               *)
LEMMA CommitTells ==
    ASSUME SessionSound, ApplySound, HistoryInv, NEW c \in Appliers, CommitMigration(c)
    PROVE  HistoryInv'
<1>0. c \in Clients /\ c \notin Writers
  BY MigrationAssumption
<1>1. /\ apply[c].pc = "body" /\ Free(c) /\ told[c] # "failed"
      /\ apply[c].statements = <<>> /\ Commit(c)
  BY DEF CommitMigration
<1>2. PICK v \in 1..Known[c], done \in Seq(Statements) : Halfway(c, v, done)
  BY <1>1 DEF HistoryInv, ApplierInv, Preparing
<1>3. Txn(c, After(<<>>, done), {"execute"})
  BY <1>1, <1>2, FreeOnly DEF Halfway, Failed
<1>4. done = Whole(v)
  BY <1>1, <1>2, ConcatEmptySeq DEF Halfway
<1>5. PICK n \in Nat : n = v - 1 /\ v = n + 1 /\ n + 2 = v + 1 /\ n <= Known[c]
  BY <1>2, VersionsAre
<1>6. PICK todo : todo = (n + 1)..Known[c] /\ todo = apply[c].todo
  BY <1>2, <1>5 DEF Halfway
<1>7. Known[c] \in Nat /\ n + 1 \in todo
  BY <1>2, <1>5, <1>6, VersionsAre
<1>8. Min(todo) = n + 1 /\ todo \ {n + 1} = (n + 2)..Known[c]
  BY <1>5, <1>6, <1>7, IntervalParts
<1>9. PICK r : r = [pc |-> "next", todo |-> (n + 2)..Known[c]]
  OBVIOUS
<1>10. Continue(c, r)
  BY <1>6, <1>8, <1>9 DEF CommitMigration
<1>11. Planned(r)
  BY <1>5, <1>7, <1>9, VersionsAre DEF Planned
<1>12. /\ apply'[c].pc = "next" /\ apply'[c].todo = (v + 1)..Known[c]
       /\ \A d \in Appliers \ {c} : apply'[d] = apply[d]
  BY <1>5, <1>9, <1>10, <1>11, Continuing
<1>13. Asks(c, "commit") /\ Alone(c) /\ Sql!Forget(c)
  BY <1>0, <1>1, CommitAsks DEF Asks
<1>14. Seen' = Seen /\ db' = db
  BY <1>0, <1>13, ForgetSeen
<1>15. Txn(c, After(<<>>, Whole(v)), {"execute", "commit"})'
  BY <1>3, <1>4, <1>13, <1>14, WholeSame DEF Txn, Asks
<1>16. Reached(v - 1)'
  BY <1>2, <1>14 DEF Halfway, Reached, Applied
<1>17. Committing(c)'
  BY <1>2, <1>12, <1>15, <1>16, WholeSame DEF Committing
<1>18. ApplierInv(c)'
  BY <1>12, <1>17 DEF ApplierInv
<1> QED
  BY <1>0, <1>12, <1>13, <1>18, ForgetTells

LEMMA ApplierTells ==
    ASSUME SessionSound, ApplySound, HistoryInv, NEW c \in Appliers, ApplierStep(c)
    PROVE  HistoryInv'
BY ApplyTells, EndTells, ReadTells, PlanTells, OpenTells, RunTells, CommitTells
   DEF ApplierStep

-----------------------------------------------------------------------------
(* The steps of an ingestion.                                              *)

LEMMA WriterForgets ==
    ASSUME SessionSound, HistoryInv, NEW c \in Writers, apply' = apply,
           Sql!Forget(c), Alone(c), ~Seen[c].open => Only(connection'[c], {"begin", "rollback"})
    PROVE  HistoryInv'
<1>0. c \in Clients /\ c \notin Appliers
  BY MigrationAssumption
<1>1. Seen' = Seen
  BY <1>0, ForgetSeen
<1>2. Seen[c].open => DOMAIN Seen[c].effects \subseteq DataKeys
  BY DEF HistoryInv, WriterInv
<1>3. WriterInv(c)'
  BY <1>1, <1>2 DEF WriterInv, DataKeys
<1> QED
  BY <1>0, <1>3, ForgetTells

LEMMA WriteTells ==
    ASSUME SessionSound, HistoryInv, NEW c \in Writers, Write(c), apply' = apply
    PROVE  HistoryInv'
<1>0. c \in Clients /\ c \notin Appliers
  BY MigrationAssumption
<1>1. PICK st \in DataStatements : Execute(c, st) /\ connection[c].active
  BY DEF Write
<1>2. st \in Statements /\ st.key \in DataKeys
  BY MigrationAssumption DEF DataKeys
<1>3. PICK e \in Effects : Seen[c] = [open |-> TRUE, effects |-> e]
  BY <1>0, <1>1, SeenIs
<1>4. Alone(c) /\ Sql!Issue(c, st)
  BY <1>0, <1>1, <1>2, ExecuteAsks DEF Executing, Asks
<1>5. Seen'[c] = [open |-> TRUE, effects |-> Sql!Effect(e, st)]
  BY <1>0, <1>2, <1>3, <1>4, IssueSeen
<1>6. DOMAIN e \subseteq DataKeys
  BY <1>3 DEF HistoryInv, WriterInv
<1>7. DOMAIN Sql!Effect(e, st) \subseteq DataKeys
  BY <1>2, <1>6 DEF Sql!Effect
<1>8. WriterInv(c)'
  BY <1>5, <1>7 DEF WriterInv, DataKeys
<1> QED
  BY <1>0, <1>2, <1>3, <1>4, <1>8, IssueTells

LEMMA WriterTells ==
    ASSUME SessionSound, HistoryInv, NEW c \in Writers, WriterStep(c)
    PROVE  HistoryInv'
<1>0. c \in Clients /\ c \notin Appliers
  BY MigrationAssumption
<1>1. apply' = apply
  BY DEF WriterStep, BeginWriting, Write, Look, EndWriting, WriterLeaves
<1>2. CASE BeginWriting(c)
  <2>1. Asks(c, "begin") /\ Alone(c) /\ Sql!Forget(c) /\ ~connection[c].active
    BY <1>0, <1>2, BeginAsks DEF BeginWriting, Asks
  <2>2. Seen' = Seen /\ ~Seen[c].open
    BY <1>0, <2>1, ForgetSeen, SeenIs
  <2>3. Idle(c, {"begin", "rollback"})'
    BY <1>0, <2>1, <2>2, AskedIdle
  <2> QED
    BY <1>1, <2>1, <2>3, WriterForgets DEF Idle
<1>3. CASE Write(c)
  BY <1>1, <1>3, WriteTells
<1>4. CASE Look(c)
  <2>1. Alone(c) /\ Sql!Forget(c) /\ connection[c].active
    BY <1>0, <1>4, FetchAsks DEF Look, Asks
  <2>2. Seen[c].open
    BY <1>0, <2>1, SeenIs
  <2> QED
    BY <1>1, <2>1, <2>2, WriterForgets
<1>5. CASE EndWriting(c) /\ Commit(c)
  <2>1. Alone(c) /\ Sql!Forget(c) /\ connection[c].active
    BY <1>0, <1>5, CommitAsks DEF Asks
  <2>2. Seen[c].open
    BY <1>0, <2>1, SeenIs
  <2> QED
    BY <1>1, <2>1, <2>2, WriterForgets
<1>6. CASE EndWriting(c) /\ Abandon(c)
  <2>1. Fails(c)
    BY <1>0, <1>6, AbandonFails
  <2>2. /\ OnlyOf(c) /\ db' = db /\ Seen'[c] = NoTxn
        /\ Only(connection'[c], {"rollback"})
    BY <1>0, <2>1, FailSeen
  <2>3. ~Seen'[c].open
    BY <2>2 DEF NoTxn
  <2>4. WriterInv(c)'
    BY <2>2, <2>3 DEF WriterInv, Only
  <2>5. HistoryIsTrue' /\ Keeps
    BY <2>2, SameHistory DEF HistoryInv
  <2> QED
    BY <1>0, <1>1, <2>2, <2>3, <2>4, <2>5, Settled
<1> QED
  BY <1>2, <1>3, <1>4, <1>5, <1>6 DEF WriterStep, EndWriting

-----------------------------------------------------------------------------
LEMMA InitTells ==
    ASSUME Init
    PROVE  HistoryInv
<1>1. /\ db = [k \in Keys |-> 0] /\ apply = [c \in Appliers |-> Stopped]
      /\ connection = [c \in Clients |-> NoConnection]
  BY DEF Init, SessionInit
<1>2. SessionSound
  BY InitSound
<1>3. ~NoConnection.active /\ NoConnection.calls = <<>>
  BY NoConnectionGiven DEF Given, NoConnection
<1>4. ASSUME NEW c \in Clients PROVE ~Seen[c].open /\ \A ops : Only(connection[c], ops)
  <2>1. ~connection[c].active /\ Free(c)
    BY <1>1, <1>3 DEF Free
  <2> QED
    BY <1>2, <2>1, SeenIs, FreeOnly
<1>5. Applied(db) = {}
  BY <1>1, MigrationAssumption DEF Applied
<1>6. HistoryIsTrue
  <2>1. PICK n \in 0..Len(Bodies) : n = 0
    BY VersionsAre
  <2>2. 1..n = {}
    BY <2>1
  <2>3. \A v \in Versions : \A k \in Objects(v) : db[k] = 0
    BY <1>1, ObjectsAre
  <2> QED
    BY <1>5, <2>2, <2>3 DEF HistoryIsTrue
<1>7. Told
  BY <1>4 DEF Told
<1>8. ASSUME NEW c \in Appliers PROVE ApplierInv(c)
  <2>1. apply[c].pc = "stopped"
    BY <1>1 DEF Stopped
  <2> QED
    BY <1>4, <2>1, MigrationAssumption DEF ApplierInv, Idle
<1>9. ASSUME NEW c \in Writers PROVE WriterInv(c)
  BY <1>4, MigrationAssumption DEF WriterInv
<1> QED
  BY <1>6, <1>7, <1>8, <1>9 DEF HistoryInv

LEMMA SilentTells ==
    ASSUME SessionSound, HistoryInv, SessionStays, connection' = connection, apply' = apply
    PROVE  HistoryInv'
<1>1. db' = db /\ Seen' = Seen /\ told' = told /\ answer' = answer
  BY DEF SessionStays
<1>2. HistoryIsTrue' /\ Keeps
  BY <1>1, SameHistory DEF HistoryInv
<1>3. \A d \in Clients : Undisturbed(d)
  BY <1>1 DEF Undisturbed
<1>4. Told'
  BY <1>1 DEF HistoryInv, Told
<1>5. \A d \in Appliers : ApplierInv(d)'
  BY <1>2, <1>3, UndisturbedApplier, MigrationAssumption DEF HistoryInv
<1>6. \A d \in Writers : WriterInv(d)'
  BY <1>3, UndisturbedWriter, MigrationAssumption DEF HistoryInv
<1> QED
  BY <1>2, <1>4, <1>5, <1>6 DEF HistoryInv

LEMMA StepsTell ==
    ASSUME SessionSound, ApplySound, HistoryInv, [Next]_vars
    PROVE  HistoryInv'
<1>1. CASE \E c \in Appliers : ApplierStep(c)
  BY <1>1, ApplierTells
<1>2. CASE \E c \in Writers : WriterStep(c)
  BY <1>2, WriterTells
<1>3. CASE Network /\ UNCHANGED <<apply, writer>>
  BY <1>3, NetworkTells
<1>4. CASE Expire /\ UNCHANGED <<apply, writer>>
  <2>1. connection' = connection
    BY <1>4 DEF Expire
  <2> QED
    BY <1>4, <2>1, ExpireSilently, SilentTells
<1>5. CASE UNCHANGED vars
  <2>1. UNCHANGED session /\ apply' = apply
    BY <1>5 DEF vars
  <2>2. SessionStays /\ connection' = connection
    BY <2>1, SessionUnchanged DEF session
  <2> QED
    BY <2>1, <2>2, SilentTells
<1> QED
  BY <1>1, <1>2, <1>3, <1>4, <1>5 DEF Next

(* apply_migrations and its callers, at the same time and whatever fails:  *)
(* the rows of relay_schema_migrations are a prefix of the versions, and   *)
(* what a version creates exists exactly when its row does.                *)
THEOREM HistoryTellsTheTruth == Spec => []HistoryIsTrue
<1>1. Init => SessionSound /\ ApplySound /\ HistoryInv
  BY InitSound, InitTells
<1>2. SessionSound /\ ApplySound /\ HistoryInv /\ [Next]_vars
        => SessionSound' /\ ApplySound' /\ HistoryInv'
  BY StepsImplementSql, StepsTell
<1>3. HistoryInv => HistoryIsTrue
  BY DEF HistoryInv
<1> QED
  BY <1>1, <1>2, <1>3, PTL DEF Spec

=============================================================================
