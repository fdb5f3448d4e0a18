------------------------- MODULE ActivityFeed_proofs -------------------------
(***************************************************************************)
(* Why the Activity page never steps over an event, for any number of      *)
(* writers, any page size, and any deaths, failures and visits.            *)
(*                                                                         *)
(* An id is closed when no transaction that may still commit holds it or a *)
(* smaller one.  All the page builds on are closed ids, so that what the   *)
(* feed has up to such an id only ever shrinks.                            *)
(***************************************************************************)
EXTENDS ActivityFeed, FiniteSetTheorems, WellFoundedInduction, TLAPS

-----------------------------------------------------------------------------
(* The inductive invariant.                                                *)

WriterSteps == {"idle", "locked", "writing", "ended", "dead"}

(* A transaction that may still commit.                                    *)
InTransaction(w) == writer[w].pc \in {"locked", "writing"}

Closed(n) ==
    /\ n < nextId
    /\ \A w \in Writers : InTransaction(w) => \A id \in writer[w].ids : n < id

(* One writer at a time holds the lock that spans its commit, and all it   *)
(* may commit is above all that is committed.                              *)
StoreSound ==
    /\ feed \subseteq Ids /\ nextId \in 1..MaxId + 1 /\ lock \in Writers \cup {None}
    /\ writer \in [Writers -> [pc : WriterSteps, ids : SUBSET Ids]]
    /\ \A w \in Writers : writer[w].pc \in {"locked", "writing", "ended"} => lock = w
    /\ \A w \in Writers : InTransaction(w) => \A id \in writer[w].ids : id < nextId
    /\ \A id \in feed : Closed(id)

(* What is in the feed from one id up to another is among these.           *)
Has(ids, from, to) ==
    \A id \in feed : id <= to /\ (from = None \/ id >= from) => id \in ids

PageTyped ==
    page \in [open : BOOLEAN, hidden : BOOLEAN, initialized : BOOLEAN,
              loaded : SUBSET Ids, lastSeen : 0..MaxId, before : Ids \cup {None}]

PageSound ==
    /\ PageTyped
    /\ Closed(page.lastSeen)
    /\ \A id \in page.loaded : id <= page.lastSeen
    /\ page.before # None => page.before <= page.lastSeen
    /\ ~page.initialized => page.before = None /\ page.lastSeen = 0
    /\ ~page.open => poll = Idle /\ older = Idle
    /\ page.initialized => Has(page.loaded, page.before, page.lastSeen)

Pages == [items : SUBSET Ids, next : Ids \cup {None}]
Cursors == Ids \cup {0, None}
AskedPolls == [pc : {"asked"}, after : Cursors, got : SUBSET Ids]
AnsweredPolls == [pc : {"answered"}, after : Cursors, got : SUBSET Ids, page : Pages]

(* The first page of a visit: the newest events, without a hole.           *)
RecentSound(p) ==
    /\ \A id \in feed : (\E j \in p.items : id <= j) /\ (p.next = None \/ id >= p.next)
                            => id \in p.items
    /\ p.next # None => p.next \in p.items

(* A page after a cursor: the oldest events beyond it, without a hole.     *)
AfterSound(p, after) ==
    /\ \A id \in feed : id > after /\ (\E j \in p.items : id <= j) => id \in p.items
    /\ \A j \in p.items : j > after
    /\ p.next # None => p.next \in p.items /\ \A j \in p.items : j <= p.next

PollSound ==
    \/ poll = Idle
    \/ /\ poll \in AskedPolls \cup AnsweredPolls
       /\ poll.after = None <=> ~page.initialized
       /\ poll.after # None =>
              /\ Closed(poll.after) /\ page.lastSeen <= poll.after
              /\ \A id \in poll.got : id <= poll.after
              /\ Has(page.loaded \cup poll.got, page.before, poll.after)
       /\ poll.pc = "answered" =>
              /\ \A j \in poll.page.items : Closed(j)
              /\ poll.after = None => RecentSound(poll.page)
              /\ poll.after # None => AfterSound(poll.page, poll.after)

AskedOlder == [pc : {"asked"}, before : Ids]
AnsweredOlder == [pc : {"answered"}, page : Pages]

(* A page before a cursor: the newest events below it, without a hole.     *)
BeforeSound(p, before) ==
    /\ \A j \in p.items : j < before
    /\ p.next # None => p.next \in p.items
    /\ \A id \in feed : id < before /\ (p.next = None \/ id >= p.next) => id \in p.items

OlderSound ==
    \/ older = Idle
    \/ /\ older \in AskedOlder \cup AnsweredOlder
       /\ page.initialized /\ page.before # None
       /\ older.pc = "asked" => older.before = page.before
       /\ older.pc = "answered" => BeforeSound(older.page, page.before)

FeedSound == StoreSound /\ PageSound /\ PollSound /\ OlderSound

-----------------------------------------------------------------------------
(* Least and greatest ids, and the two ends of a set of ids.               *)

LEMMA LeastNatural ==
    ASSUME NEW S, S \subseteq Nat, S # {}
    PROVE  \E x \in S : \A y \in S : x <= y
<1>1. PICK x \in S : \A y \in S : ~(<<y, x>> \in OpToRel(<, Nat))
  BY NatLessThanWellFounded, WFMin
<1>2. \A y \in S : ~(y < x)
  BY <1>1 DEF OpToRel
<1> QED
  BY <1>2

LEMMA MinIsLeast ==
    ASSUME NEW S, S \subseteq Nat, S # {}
    PROVE  Min(S) \in S /\ \A y \in S : Min(S) <= y
<1>1. \E x \in S : \A y \in S : x =< y
  BY LeastNatural
<1> QED
  BY <1>1 DEF Min

LEMMA MaxIsGreatest ==
    ASSUME NEW n \in Nat, NEW S, S \subseteq 0..n, S # {}
    PROVE  Max(S) \in S /\ \A y \in S : Max(S) >= y
<1> DEFINE T == {n - x : x \in S}
<1>1. T \subseteq Nat /\ T # {}
  OBVIOUS
<1>2. PICK t \in T : \A u \in T : t <= u
  BY <1>1, LeastNatural
<1>3. PICK x \in S : t = n - x
  OBVIOUS
<1>4. \A y \in S : x >= y
  <2> SUFFICES ASSUME NEW y \in S PROVE x >= y
    OBVIOUS
  <2>1. t <= n - y
    BY <1>2
  <2> QED
    BY <2>1, <1>3
<1>5. \E z \in S : \A y \in S : z >= y
  BY <1>4
<1> QED
  BY <1>5 DEF Max

LEMMA IdsAreNaturals ==
    MaxId \in Nat /\ \A id \in Ids : id \in Nat /\ 1 <= id /\ id <= MaxId
BY FeedAssumption DEF Ids

LEMMA IdsFinite ==
    ASSUME NEW S, S \subseteq Ids
    PROVE  IsFiniteSet(S) /\ Cardinality(S) \in Nat
<1>1. IsFiniteSet(1..MaxId)
  BY FS_Interval, FeedAssumption
<1> QED
  BY <1>1, FS_Subset, FS_CardinalityType DEF Ids

(* Both ends are closed towards their end.                                 *)
LEMMA NewestUpward ==
    ASSUME NEW S, S \subseteq Ids, NEW i \in Newest(S), NEW k \in S, k >= i
    PROVE  k \in Newest(S)
<1> DEFINE A == {j \in S : j > k}
           B == {j \in S : j > i}
<1>0. i \in S
  BY DEF Newest
<1>1. A \subseteq B /\ B \subseteq Ids /\ A \subseteq Ids
  BY <1>0, IdsAreNaturals
<1>2. Cardinality(B) < Limit
  BY DEF Newest
<1> HIDE DEF A, B
<1>3. Cardinality(A) <= Cardinality(B) /\ Cardinality(A) \in Nat /\ Cardinality(B) \in Nat
  BY <1>1, IdsFinite, FS_Subset
<1>4. Cardinality(A) < Limit
  BY <1>2, <1>3, FeedAssumption
<1> QED
  BY <1>4 DEF Newest, A

LEMMA OldestDownward ==
    ASSUME NEW S, S \subseteq Ids, NEW i \in Oldest(S), NEW k \in S, k <= i
    PROVE  k \in Oldest(S)
<1> DEFINE A == {j \in S : j < k}
           B == {j \in S : j < i}
<1>0. i \in S
  BY DEF Oldest
<1>1. A \subseteq B /\ B \subseteq Ids /\ A \subseteq Ids
  BY <1>0, IdsAreNaturals
<1>2. Cardinality(B) < Limit
  BY DEF Oldest
<1> HIDE DEF A, B
<1>3. Cardinality(A) <= Cardinality(B) /\ Cardinality(A) \in Nat /\ Cardinality(B) \in Nat
  BY <1>1, IdsFinite, FS_Subset
<1>4. Cardinality(A) < Limit
  BY <1>2, <1>3, FeedAssumption
<1> QED
  BY <1>4 DEF Oldest, A

(* A page that is not full is the last: nothing older was left out.        *)
LEMMA ShortPageIsAll ==
    ASSUME NEW S, S \subseteq Ids, Cardinality(Newest(S)) # Limit
    PROVE  Newest(S) = S
<1> SUFFICES ASSUME S \ Newest(S) # {} PROVE FALSE
  BY DEF Newest
<1> DEFINE x == Max(S \ Newest(S))
           above == {j \in S : j > x}
           m == Min(above)
           rest == {j \in S : j > m}
<1>1. x \in S \ Newest(S) /\ \A y \in S \ Newest(S) : x >= y
  <2>1. S \ Newest(S) \subseteq 0..MaxId /\ MaxId \in Nat
    BY IdsAreNaturals
  <2> QED
    BY <2>1, MaxIsGreatest
<1> HIDE DEF x
<1>2. Newest(S) = above
  <2>1. \A j \in S : j > x => j \in Newest(S)
    BY <1>1 DEF Ids
  <2>2. \A j \in Newest(S) : j \in S /\ j > x
    <3> SUFFICES ASSUME NEW j \in Newest(S) PROVE j \in S /\ j > x
      OBVIOUS
    <3>1. j \in S
      BY DEF Newest
    <3>2. ~(x >= j)
      BY <1>1, NewestUpward
    <3> QED
      BY <1>1, <3>1, <3>2 DEF Ids
  <2> QED
    BY <2>1, <2>2
<1>3. above \subseteq Ids /\ rest \subseteq Ids
  OBVIOUS
<1>4. Cardinality(above) \in Nat /\ Cardinality(above) >= Limit
  BY <1>1, <1>3, IdsFinite, FeedAssumption DEF Newest
<1>5. above # {}
  BY <1>4, FS_EmptySet, FeedAssumption
<1>6. m \in above /\ \A y \in above : m <= y
  BY <1>3, <1>5, MinIsLeast DEF Ids
<1> HIDE DEF m
<1>7. above = rest \cup {m} /\ m \notin rest
  <2>1. \A j \in S : j > x <=> j > m \/ j = m
    <3> SUFFICES ASSUME NEW j \in S PROVE j > x <=> j > m \/ j = m
      OBVIOUS
    <3>1. m \in S /\ m > x
      BY <1>6
    <3>2. j > x => m <= j
      BY <1>6
    <3> HIDE DEF above
    <3> QED
      BY <1>1, <3>1, <3>2, IdsAreNaturals
  <2>2. m \in S
    BY <1>6
  <2> QED
    BY <2>1, <2>2, IdsAreNaturals
<1>8. Cardinality(rest) < Limit /\ Cardinality(rest) \in Nat
  BY <1>2, <1>3, <1>6, IdsFinite DEF Newest
<1> HIDE DEF above, rest
<1>9. Cardinality(above) = Cardinality(rest) + 1
  BY <1>3, <1>7, IdsFinite, FS_AddElement
<1> QED
  BY <1>2, <1>4, <1>8, <1>9, FeedAssumption

-----------------------------------------------------------------------------
(* Writers.                                                                *)

(* Nothing appears up to a closed id, and it stays closed.                 *)
KeepsClosed ==
    \A n \in 0..MaxId : Closed(n) =>
        Closed(n)' /\ \A id \in feed' : id <= n => id \in feed

WriterMoves(w, pc, ids) ==
    /\ w \in Writers /\ pc \in WriterSteps /\ ids \in SUBSET Ids
    /\ writer[w].pc # "idle" \/ pc = "locked"
    /\ writer' = [writer EXCEPT ![w] = [pc |-> pc, ids |-> ids]]

LEMMA MovedWriter ==
    ASSUME StoreSound, NEW w, NEW pc, NEW ids, WriterMoves(w, pc, ids)
    PROVE  /\ writer' \in [Writers -> [pc : WriterSteps, ids : SUBSET Ids]]
           /\ writer'[w].pc = pc /\ writer'[w].ids = ids
           /\ \A v \in Writers \ {w} : writer'[v] = writer[v]
BY DEF StoreSound, WriterMoves

(* A step that draws no id and commits none, and leaves the lock with      *)
(* those who need it.                                                      *)
Quiet(w, pc, ids) ==
    /\ WriterMoves(w, pc, ids)
    /\ ids = {} \/ pc = "dead"
    /\ UNCHANGED <<feed, nextId>>
    /\ lock' \in Writers \cup {None}
    /\ \A v \in Writers : writer'[v].pc \in {"locked", "writing", "ended"} => lock' = v

LEMMA QuietStep ==
    ASSUME StoreSound, NEW w, NEW pc, NEW ids, Quiet(w, pc, ids)
    PROVE  StoreSound' /\ KeepsClosed
<1>1. /\ writer' \in [Writers -> [pc : WriterSteps, ids : SUBSET Ids]]
      /\ writer'[w].pc = pc /\ writer'[w].ids = ids
      /\ \A v \in Writers \ {w} : writer'[v] = writer[v]
  BY MovedWriter DEF Quiet
<1>2. /\ feed' = feed /\ nextId' = nextId /\ lock' \in Writers \cup {None}
      /\ ids = {} \/ pc = "dead"
      /\ \A v \in Writers : writer'[v].pc \in {"locked", "writing", "ended"} => lock' = v
  BY DEF Quiet
<1>3. ASSUME NEW v \in Writers, InTransaction(v)', NEW id \in writer'[v].ids
      PROVE  InTransaction(v) /\ id \in writer[v].ids
  BY <1>1, <1>2, <1>3 DEF InTransaction
<1>4. \A n : Closed(n) => Closed(n)'
  BY <1>2, <1>3 DEF Closed
<1>5. KeepsClosed
  BY <1>2, <1>4 DEF KeepsClosed
<1>6. \A v \in Writers : InTransaction(v)' => \A id \in writer'[v].ids : id < nextId'
  BY <1>2, <1>3 DEF StoreSound
<1>7. \A id \in feed' : Closed(id)'
  BY <1>2, <1>4 DEF StoreSound
<1>8. feed' \subseteq Ids /\ nextId' \in 1..MaxId + 1
  BY <1>2 DEF StoreSound
<1>9. StoreSound'
  BY <1>1, <1>2, <1>6, <1>7, <1>8 DEF StoreSound
<1> QED
  BY <1>5, <1>9

LEMMA TakeLockQuiet ==
    ASSUME StoreSound, NEW w \in Writers, TakeLock(w)
    PROVE  Quiet(w, "locked", {})
<1>1. WriterMoves(w, "locked", {}) /\ feed' = feed /\ nextId' = nextId /\ lock' = w
  BY DEF TakeLock, At, Goes, WriterMoves, WriterSteps
<1>2. \A v \in Writers : writer'[v].pc \in {"locked", "writing", "ended"} => lock' = v
  <2> SUFFICES ASSUME NEW v \in Writers \ {w}
               PROVE  writer[v].pc \notin {"locked", "writing", "ended"}
    BY <1>1, MovedWriter
  <2> QED
    BY FeedAssumption DEF TakeLock, StoreSound
<1> QED
  BY <1>1, <1>2 DEF Quiet

LEMMA RollBackQuiet ==
    ASSUME StoreSound, NEW w \in Writers, RollBack(w)
    PROVE  Quiet(w, "ended", {})
<1>1. /\ WriterMoves(w, "ended", {}) /\ feed' = feed /\ nextId' = nextId
      /\ lock' = lock /\ lock = w
  BY DEF RollBack, At, Goes, WriterMoves, WriterSteps, StoreSound
<1>2. \A v \in Writers : writer'[v].pc \in {"locked", "writing", "ended"} => lock' = v
  BY <1>1, MovedWriter DEF StoreSound
<1> QED
  BY <1>1, <1>2 DEF Quiet

LEMMA ReleaseLockQuiet ==
    ASSUME StoreSound, NEW w \in Writers, ReleaseLock(w)
    PROVE  Quiet(w, "idle", {})
<1>1. /\ WriterMoves(w, "idle", {}) /\ feed' = feed /\ nextId' = nextId
      /\ lock = w /\ lock' = None
  BY DEF ReleaseLock, Unlocked, At, Goes, WriterMoves, WriterSteps, StoreSound
<1>2. \A v \in Writers : writer'[v].pc \notin {"locked", "writing", "ended"}
  BY <1>1, MovedWriter DEF StoreSound
<1> QED
  BY <1>1, <1>2 DEF Quiet

LEMMA DieQuiet ==
    ASSUME StoreSound, NEW w \in Writers, Die(w)
    PROVE  Quiet(w, "dead", writer[w].ids)
<1>1. /\ WriterMoves(w, "dead", writer[w].ids) /\ feed' = feed /\ nextId' = nextId
      /\ lock' = lock
  BY DEF Die, At, Goes, WriterMoves, WriterSteps, StoreSound
<1>2. \A v \in Writers : writer'[v].pc \in {"locked", "writing", "ended"} => lock' = v
  BY <1>1, MovedWriter DEF StoreSound
<1>3. lock' \in Writers \cup {None}
  BY <1>1 DEF StoreSound
<1> QED
  BY <1>1, <1>2, <1>3 DEF Quiet

LEMMA ExpireWritesQuiet ==
    ASSUME StoreSound, NEW w \in Writers, ExpireWrites(w)
    PROVE  Quiet(w, "idle", {})
<1>1. WriterMoves(w, "idle", {}) /\ feed' = feed /\ nextId' = nextId /\ lock' = lock
  BY DEF ExpireWrites, At, Goes, WriterMoves, WriterSteps
<1>2. \A v \in Writers : writer'[v].pc \in {"locked", "writing", "ended"} => lock' = v
  BY <1>1, MovedWriter DEF StoreSound
<1>3. lock' \in Writers \cup {None}
  BY <1>1 DEF StoreSound
<1> QED
  BY <1>1, <1>2, <1>3 DEF Quiet

LEMMA ExpireLockKeepsClosed ==
    ASSUME StoreSound, NEW w \in Writers, ExpireLock(w)
    PROVE  StoreSound' /\ KeepsClosed
<1>1. /\ writer[w].pc = "dead" /\ lock = w /\ lock' = None
      /\ feed' = feed /\ nextId' = nextId /\ writer' = writer
  BY DEF ExpireLock, At, Unlocked
<1>2. \A v \in Writers : writer[v].pc \notin {"locked", "writing", "ended"}
  BY <1>1 DEF StoreSound
<1>3. \A n : Closed(n)' <=> Closed(n)
  BY <1>1 DEF Closed, InTransaction
<1>4. KeepsClosed
  BY <1>1, <1>3 DEF KeepsClosed
<1>5. StoreSound'
  BY <1>1, <1>2, <1>3 DEF StoreSound, InTransaction
<1> QED
  BY <1>4, <1>5

(* The id drawn is above everything.                                       *)
LEMMA InsertKeepsClosed ==
    ASSUME StoreSound, NEW w \in Writers, InsertChangeEvent(w)
    PROVE  StoreSound' /\ KeepsClosed
<1>1. /\ writer[w].pc \in {"locked", "writing"} /\ nextId <= MaxId
      /\ nextId' = nextId + 1 /\ feed' = feed /\ lock' = lock /\ lock = w
      /\ nextId \in Ids /\ nextId \in Nat
  BY IdsAreNaturals DEF InsertChangeEvent, At, StoreSound, Ids
<1>2. WriterMoves(w, "writing", writer[w].ids \cup {nextId})
  BY <1>1 DEF InsertChangeEvent, Goes, WriterMoves, WriterSteps, StoreSound
<1>3. /\ writer' \in [Writers -> [pc : WriterSteps, ids : SUBSET Ids]]
      /\ writer'[w].pc = "writing" /\ writer'[w].ids = writer[w].ids \cup {nextId}
      /\ \A v \in Writers \ {w} : writer'[v] = writer[v]
  BY <1>2, MovedWriter
<1>4. ASSUME NEW n \in 0..MaxId, Closed(n) PROVE Closed(n)'
  <2>1. n < nextId /\ n \in Nat
    BY <1>4, IdsAreNaturals DEF Closed
  <2>2. ASSUME NEW v \in Writers, InTransaction(v)', NEW id \in writer'[v].ids
        PROVE  n < id
    <3>1. CASE v = w
      BY <1>1, <1>3, <1>4, <2>1, <2>2, <3>1 DEF Closed, InTransaction
    <3>2. CASE v # w
      BY <1>3, <1>4, <2>2, <3>2 DEF Closed, InTransaction
    <3> QED
      BY <3>1, <3>2
  <2> QED
    BY <1>1, <2>1, <2>2 DEF Closed
<1>5. KeepsClosed
  BY <1>1, <1>4 DEF KeepsClosed
<1>6. ASSUME NEW v \in Writers, InTransaction(v)', NEW id \in writer'[v].ids
      PROVE  id < nextId'
  <2>1. id \in Nat
    BY <1>3, <1>6, IdsAreNaturals
  <2>2. CASE v = w
    BY <1>1, <1>3, <1>6, <2>1, <2>2 DEF StoreSound, InTransaction
  <2>3. CASE v # w
    <3>1. id < nextId
      BY <1>3, <1>6, <2>3 DEF StoreSound, InTransaction
    <3> QED
      BY <1>1, <2>1, <3>1
  <2> QED
    BY <2>2, <2>3
<1>7. \A id \in feed' : Closed(id)'
  BY <1>1, <1>4, IdsAreNaturals DEF StoreSound
<1>8. /\ feed' \subseteq Ids /\ nextId' \in 1..MaxId + 1 /\ lock' \in Writers \cup {None}
      /\ \A v \in Writers : writer'[v].pc \in {"locked", "writing", "ended"} => lock' = v
  BY <1>1, <1>3, IdsAreNaturals DEF StoreSound
<1>9. StoreSound'
  BY <1>3, <1>6, <1>7, <1>8 DEF StoreSound
<1> QED
  BY <1>5, <1>9

(* What a commit makes visible is above everything that was closed.        *)
LEMMA CommitKeepsClosed ==
    ASSUME StoreSound, NEW w \in Writers, Commit(w)
    PROVE  StoreSound' /\ KeepsClosed
<1>1. /\ writer[w].pc = "writing" /\ feed' = feed \cup writer[w].ids
      /\ nextId' = nextId /\ lock' = lock /\ lock = w
  BY DEF Commit, At, StoreSound
<1>2. WriterMoves(w, "ended", {})
  BY <1>1 DEF Commit, Goes, WriterMoves, WriterSteps
<1>3. /\ writer' \in [Writers -> [pc : WriterSteps, ids : SUBSET Ids]]
      /\ writer'[w].pc = "ended" /\ writer'[w].ids = {}
      /\ \A v \in Writers \ {w} : writer'[v] = writer[v]
  BY <1>2, MovedWriter
<1>4. \A v \in Writers : ~InTransaction(v)'
  BY <1>1, <1>3 DEF InTransaction, StoreSound
<1>5. \A n : n < nextId => Closed(n)'
  BY <1>1, <1>4 DEF Closed
<1>6. InTransaction(w) /\ writer[w].ids \subseteq Ids
  BY <1>1 DEF InTransaction, StoreSound
<1>7. KeepsClosed
  <2> SUFFICES ASSUME NEW n \in 0..MaxId, Closed(n)
               PROVE  Closed(n)' /\ \A id \in feed' : id <= n => id \in feed
    BY DEF KeepsClosed
  <2>1. Closed(n)'
    BY <1>5 DEF Closed
  <2>2. \A id \in writer[w].ids : n < id
    BY <1>6 DEF Closed
  <2>3. \A id \in writer[w].ids : ~(id <= n)
    BY <1>6, <2>2, IdsAreNaturals
  <2> QED
    BY <1>1, <2>1, <2>3
<1>8. \A id \in feed' : id < nextId
  BY <1>1, <1>6 DEF StoreSound, Closed
<1>9. /\ feed' \subseteq Ids /\ nextId' \in 1..MaxId + 1 /\ lock' \in Writers \cup {None}
      /\ \A v \in Writers : writer'[v].pc \in {"locked", "writing", "ended"} => lock' = v
  BY <1>1, <1>3, <1>6 DEF StoreSound
<1>10. StoreSound'
  BY <1>3, <1>4, <1>5, <1>8, <1>9 DEF StoreSound
<1> QED
  BY <1>7, <1>10

LEMMA RebaselineKeepsClosed ==
    ASSUME StoreSound, Rebaseline
    PROVE  StoreSound' /\ KeepsClosed
BY DEF Rebaseline, StoreSound, KeepsClosed, Closed, InTransaction

LEMMA WritersKeepClosed ==
    ASSUME StoreSound, Ingest \/ (\E w \in Writers : Die(w)) \/ Rebaseline
    PROVE  StoreSound' /\ KeepsClosed
<1>1. ASSUME NEW w \in Writers,
             \/ TakeLock(w) \/ RollBack(w) \/ ReleaseLock(w)
             \/ Die(w) \/ ExpireWrites(w)
      PROVE  StoreSound' /\ KeepsClosed
  BY <1>1, QuietStep, TakeLockQuiet, RollBackQuiet, ReleaseLockQuiet, DieQuiet, ExpireWritesQuiet
<1>2. ASSUME NEW w \in Writers, InsertChangeEvent(w) \/ Commit(w) \/ ExpireLock(w)
      PROVE  StoreSound' /\ KeepsClosed
  BY <1>2, InsertKeepsClosed, CommitKeepsClosed, ExpireLockKeepsClosed
<1>3. CASE Rebaseline
  BY <1>3, RebaselineKeepsClosed
<1> QED
  BY <1>1, <1>2, <1>3 DEF Ingest, Expire

-----------------------------------------------------------------------------
(* What writers do leaves the page's knowledge true.                       *)

LEMMA PageOutlivesWrites ==
    ASSUME PageSound, KeepsClosed, UNCHANGED Client
    PROVE  PageSound'
<1>1. page' = page /\ poll' = poll /\ older' = older
  BY DEF Client
<1>2. page.lastSeen \in 0..MaxId /\ Closed(page.lastSeen)
  BY DEF PageSound, PageTyped
<1>3. Closed(page.lastSeen)'
  BY <1>1, <1>2 DEF KeepsClosed, Closed, InTransaction
<1>4. \A id \in feed' : id <= page.lastSeen => id \in feed
  BY <1>2 DEF KeepsClosed
<1>5. ASSUME page.initialized PROVE Has(page.loaded, page.before, page.lastSeen)'
  BY <1>1, <1>4, <1>5 DEF PageSound, Has
<1>6. page'.initialized => Has(page.loaded, page.before, page.lastSeen)'
  BY <1>1, <1>5
<1> QED
  BY <1>1, <1>3, <1>6 DEF PageSound, PageTyped

LEMMA PollOutlivesWrites ==
    ASSUME PollSound, KeepsClosed, UNCHANGED Client
    PROVE  PollSound'
<1>1. page' = page /\ poll' = poll
  BY DEF Client
<1>2. CASE poll = Idle
  BY <1>1, <1>2 DEF PollSound
<1>3. CASE poll # Idle
  <2>1. poll \in AskedPolls \cup AnsweredPolls /\ poll'.pc = poll.pc
    BY <1>1, <1>3 DEF PollSound
  <2>2. poll.after = None <=> ~page.initialized
    BY <1>3 DEF PollSound
  <2>3. ASSUME poll.after # None
        PROVE  /\ Closed(poll.after)' /\ page.lastSeen <= poll.after
               /\ \A id \in poll.got : id <= poll.after
               /\ Has(page.loaded \cup poll.got, page.before, poll.after)'
    <3>1. poll.after \in 0..MaxId
      BY <2>1, <2>3, IdsAreNaturals DEF AskedPolls, AnsweredPolls, Cursors
    <3>2. /\ Closed(poll.after) /\ page.lastSeen <= poll.after
          /\ \A id \in poll.got : id <= poll.after
          /\ Has(page.loaded \cup poll.got, page.before, poll.after)
      BY <1>3, <2>3 DEF PollSound
    <3>3. \A id \in feed' : id <= poll.after => id \in feed
      BY <3>1, <3>2 DEF KeepsClosed
    <3>4. Has(page.loaded \cup poll.got, page.before, poll.after)'
      BY <1>1, <3>2, <3>3 DEF Has
    <3>5. Closed(poll.after)'
      BY <1>1, <3>1, <3>2 DEF KeepsClosed, Closed, InTransaction
    <3> QED
      BY <3>2, <3>4, <3>5
  <2>4. ASSUME poll.pc = "answered"
        PROVE  /\ \A j \in poll.page.items : Closed(j)'
               /\ poll.after = None => RecentSound(poll.page)'
               /\ poll.after # None => AfterSound(poll.page, poll.after)'
    <3>1. poll.page.items \subseteq 0..MaxId
      BY <2>1, <2>4, IdsAreNaturals DEF AskedPolls, AnsweredPolls, Pages
    <3>2. \A j \in poll.page.items : Closed(j)
      BY <1>3, <2>4 DEF PollSound
    <3>3. \A j \in poll.page.items : \A id \in feed' : id <= j => id \in feed
      BY <3>1, <3>2 DEF KeepsClosed
    <3>4. ASSUME poll.after = None PROVE RecentSound(poll.page)'
      <4>1. RecentSound(poll.page)
        BY <1>3, <2>4, <3>4 DEF PollSound
      <4> QED
        BY <1>1, <3>3, <4>1 DEF RecentSound
    <3>5. ASSUME poll.after # None PROVE AfterSound(poll.page, poll.after)'
      <4>1. AfterSound(poll.page, poll.after)
        BY <1>3, <2>4, <3>5 DEF PollSound
      <4> QED
        BY <1>1, <3>3, <4>1 DEF AfterSound
    <3>6. \A j \in poll.page.items : Closed(j)'
      BY <3>1, <3>2 DEF KeepsClosed, Closed, InTransaction
    <3> QED
      BY <3>4, <3>5, <3>6
  <2> QED
    BY <1>1, <2>1, <2>2, <2>3, <2>4 DEF PollSound
<1> QED
  BY <1>2, <1>3

LEMMA OlderOutlivesWrites ==
    ASSUME PageSound, OlderSound, KeepsClosed, StoreSound', UNCHANGED Client
    PROVE  OlderSound'
<1>1. page' = page /\ older' = older
  BY DEF Client
<1>2. CASE older = Idle
  BY <1>1, <1>2 DEF OlderSound
<1>3. CASE older # Idle
  <2>1. /\ older \in AskedOlder \cup AnsweredOlder
        /\ page.initialized /\ page.before # None
        /\ older.pc = "asked" => older.before = page.before
        /\ older.pc = "answered" => BeforeSound(older.page, page.before)
    BY <1>3 DEF OlderSound
  <2>2. /\ page.before \in Ids /\ page.lastSeen \in 0..MaxId
        /\ Closed(page.lastSeen) /\ page.before <= page.lastSeen
    BY <2>1 DEF PageSound, PageTyped
  <2>3. \A id \in feed' : id <= page.lastSeen => id \in feed
    BY <2>2 DEF KeepsClosed
  <2>4. \A id \in feed' : id < page.before => id <= page.lastSeen
    BY <2>2, IdsAreNaturals DEF StoreSound
  <2>5. ASSUME older.pc = "answered" PROVE BeforeSound(older.page, page.before)'
    BY <1>1, <2>1, <2>3, <2>4, <2>5 DEF BeforeSound
  <2> QED
    BY <1>1, <2>1, <2>5 DEF OlderSound
<1> QED
  BY <1>2, <1>3

-----------------------------------------------------------------------------
(* The answers of the read API.                                            *)

LEMMA FullPageHasLast ==
    ASSUME NEW S, S \subseteq Ids, NEW last, S # {} => last \in S
    PROVE  /\ NextCursor(S, last) # None => NextCursor(S, last) = last /\ last \in S
           /\ NextCursor(S, last) = None => Cardinality(S) # Limit
           /\ NextCursor(S, last) \in Ids \cup {None}
<1>1. Cardinality(S) = Limit => S # {}
  BY FS_EmptySet, FeedAssumption
<1>2. None \notin Ids
  BY FeedAssumption, IdsAreNaturals
<1> QED
  BY <1>1, <1>2 DEF NextCursor

LEMMA RecentAnswer ==
    ASSUME StoreSound
    PROVE  RecentPage \in Pages /\ RecentPage.items \subseteq feed /\ RecentSound(RecentPage)
<1> DEFINE items == Newest(feed)
           next == NextCursor(items, Min(items))
<1>1. feed \subseteq Ids
  BY DEF StoreSound
<1>2. items \subseteq feed
  BY DEF Newest
<1>3. items # {} => Min(items) \in items /\ \A y \in items : Min(items) <= y
  <2>1. items \subseteq Nat
    BY <1>1, <1>2, IdsAreNaturals
  <2> QED
    BY <2>1, MinIsLeast
<1>4. /\ next # None => next \in items
      /\ next = None => Cardinality(items) # Limit
      /\ next \in Ids \cup {None}
  <2>1. items \subseteq Ids
    BY <1>1, <1>2
  <2> HIDE DEF items
  <2> QED
    BY <2>1, <1>3, FullPageHasLast
<1>5. RecentPage = [items |-> items, next |-> next]
  BY DEF RecentPage
<1>6. next = None => items = feed
  BY <1>1, <1>4, ShortPageIsAll
<1>7. \A i \in items, k \in feed : k >= i => k \in items
  BY <1>1, NewestUpward
<1> HIDE DEF items, next
<1>8. \A id \in feed : next = None \/ id >= next => id \in items
  BY <1>4, <1>6, <1>7
<1> QED
  BY <1>1, <1>2, <1>4, <1>5, <1>8 DEF Pages, RecentSound

LEMMA AnswerAfter ==
    ASSUME StoreSound, NEW n \in Nat
    PROVE  /\ PageAfter(n) \in Pages /\ PageAfter(n).items \subseteq feed
           /\ AfterSound(PageAfter(n), n)
<1> DEFINE beyond == {i \in feed : i > n}
           items == Oldest(beyond)
           next == NextCursor(items, Max(items))
<1>1. feed \subseteq Ids /\ beyond \subseteq Ids
  BY DEF StoreSound
<1>2. items \subseteq beyond
  BY DEF Oldest
<1>3. items # {} => Max(items) \in items /\ \A y \in items : Max(items) >= y
  <2>1. items \subseteq 0..MaxId /\ MaxId \in Nat
    BY <1>1, <1>2, IdsAreNaturals
  <2> HIDE DEF items
  <2> QED
    BY <2>1, MaxIsGreatest
<1>4. /\ next # None => next = Max(items) /\ next \in items
      /\ next \in Ids \cup {None}
  <2>1. items \subseteq Ids
    BY <1>1, <1>2
  <2> HIDE DEF items
  <2> QED
    BY <2>1, <1>3, FullPageHasLast
<1>5. PageAfter(n) = [items |-> items, next |-> next]
  BY DEF PageAfter
<1>6. \A i \in items, k \in beyond : k <= i => k \in items
  BY <1>1, OldestDownward
<1>7. \A j \in items : j \in feed /\ j > n
  BY <1>2
<1>8. \A k \in feed : k > n => k \in beyond
  OBVIOUS
<1> HIDE DEF items, next, beyond
<1>9. next # None => \A j \in items : j <= next
  BY <1>1, <1>3, <1>4, <1>7, IdsAreNaturals
<1> QED
  BY <1>1, <1>4, <1>5, <1>6, <1>7, <1>8, <1>9 DEF Pages, AfterSound

LEMMA AnswerBefore ==
    ASSUME StoreSound, NEW b \in Ids
    PROVE  PageBefore(b) \in Pages /\ BeforeSound(PageBefore(b), b)
<1> DEFINE below == {i \in feed : i < b}
           items == Newest(below)
           next == NextCursor(items, Min(items))
<1>1. feed \subseteq Ids /\ below \subseteq Ids
  BY DEF StoreSound
<1>2. items \subseteq below
  BY DEF Newest
<1>3. items # {} => Min(items) \in items /\ \A y \in items : Min(items) <= y
  <2>1. items \subseteq Nat
    BY <1>1, <1>2, IdsAreNaturals
  <2> QED
    BY <2>1, MinIsLeast
<1>4. /\ next # None => next \in items
      /\ next = None => Cardinality(items) # Limit
      /\ next \in Ids \cup {None}
  <2>1. items \subseteq Ids
    BY <1>1, <1>2
  <2> HIDE DEF items
  <2> QED
    BY <2>1, <1>3, FullPageHasLast
<1>5. PageBefore(b) = [items |-> items, next |-> next]
  BY DEF PageBefore
<1>6. next = None => items = below
  <2> HIDE DEF below
  <2> QED
    BY <1>1, <1>4, ShortPageIsAll
<1>7. \A i \in items, k \in below : k >= i => k \in items
  <2> HIDE DEF below
  <2> QED
    BY <1>1, NewestUpward
<1>8. \A k \in feed : k < b => k \in below
  OBVIOUS
<1>9. \A j \in items : j \in Ids /\ j < b
  BY <1>1, <1>2
<1> HIDE DEF items, next, below
<1>10. \A id \in feed : id < b /\ (next = None \/ id >= next) => id \in items
  BY <1>4, <1>6, <1>7, <1>8
<1> QED
  BY <1>4, <1>5, <1>9, <1>10 DEF Pages, BeforeSound

-----------------------------------------------------------------------------
(* The page.                                                               *)

LEMMA StoreStands ==
    ASSUME UNCHANGED store
    PROVE  /\ feed' = feed /\ nextId' = nextId /\ writer' = writer
           /\ StoreSound => StoreSound'
BY DEF store, StoreSound, Closed, InTransaction

LEMMA ClosedBelow ==
    ASSUME StoreSound, NEW n \in 0..MaxId, Closed(n), NEW m \in 0..MaxId, m <= n
    PROVE  Closed(m)
<1>1. \A w \in Writers : \A id \in writer[w].ids : id \in Nat
  BY IdsAreNaturals DEF StoreSound
<1>2. nextId \in Nat
  BY DEF StoreSound
<1>3. m \in Nat /\ n \in Nat
  BY IdsAreNaturals
<1> QED
  BY <1>1, <1>2, <1>3 DEF Closed

LEMMA ZeroIsClosed ==
    ASSUME StoreSound
    PROVE  Closed(0)
<1>1. \A w \in Writers : \A id \in writer[w].ids : 0 < id
  BY IdsAreNaturals DEF StoreSound
<1> QED
  BY <1>1 DEF Closed, StoreSound

(* The page knows what it knew; it may be hidden, shown or left.           *)
KnowsTheSame ==
    /\ PageTyped'
    /\ page'.loaded = page.loaded /\ page'.lastSeen = page.lastSeen
    /\ page'.before = page.before /\ page'.initialized = page.initialized

LEMMA PageKept ==
    ASSUME PageSound, KnowsTheSame, UNCHANGED store,
           ~page'.open => poll' = Idle /\ older' = Idle
    PROVE  PageSound'
<1>1. Closed(page.lastSeen)'
  BY StoreStands DEF PageSound, KnowsTheSame, Closed, InTransaction
<1>2. page'.initialized => Has(page.loaded, page.before, page.lastSeen)'
  BY StoreStands DEF PageSound, KnowsTheSame, Has
<1> QED
  BY <1>1, <1>2 DEF PageSound, KnowsTheSame

LEMMA OlderKept ==
    ASSUME OlderSound, UNCHANGED <<store, older>>,
           page'.before = page.before, page'.initialized = page.initialized
    PROVE  OlderSound'
<1>1. feed' = feed
  BY StoreStands
<1>2. older.pc = "answered" => (BeforeSound(older.page, page.before)' <=> BeforeSound(older.page, page.before))
  BY <1>1 DEF BeforeSound
<1> QED
  BY <1>2 DEF OlderSound

LEMMA SameKnowledge ==
    ASSUME PageSound
    PROVE  /\ page' = page => KnowsTheSame
           /\ \A h \in BOOLEAN : page' = [page EXCEPT !.hidden = h] => KnowsTheSame
           /\ page' = [page EXCEPT !.open = FALSE] => KnowsTheSame
<1>1. PageTyped
  BY DEF PageSound
<1>2. page' = page => KnowsTheSame
  BY <1>1 DEF PageTyped, KnowsTheSame
<1>3. \A h \in BOOLEAN : page' = [page EXCEPT !.hidden = h] => KnowsTheSame
  BY <1>1 DEF PageTyped, KnowsTheSame
<1>4. page' = [page EXCEPT !.open = FALSE] => KnowsTheSame
  BY <1>1 DEF PageTyped, KnowsTheSame
<1> QED
  BY <1>2, <1>3, <1>4

(* A run of queryFn begins at the last id seen.                            *)
LEMMA AskedIsSound ==
    ASSUME PageSound, KnowsTheSame, UNCHANGED store, poll' = Asked
    PROVE  PollSound'
<1>1. page.initialized \in BOOLEAN /\ page.lastSeen \in 0..MaxId
  BY DEF PageSound, PageTyped
<1>2. CASE page.initialized = TRUE
  <2>1. poll' = [pc |-> "asked", after |-> page.lastSeen, got |-> {}]
    BY <1>2 DEF Asked
  <2>2. page.lastSeen \in Cursors /\ page.lastSeen # None
    BY <1>1, FeedAssumption DEF Cursors, Ids
  <2>3. poll' \in AskedPolls /\ poll'.after = page.lastSeen /\ poll'.got = {} /\ poll'.pc = "asked"
    BY <2>1, <2>2 DEF AskedPolls
  <2>4. Closed(poll.after)'
    BY <2>3, StoreStands DEF PageSound, Closed, InTransaction
  <2>5. page'.lastSeen <= poll'.after
    BY <1>1, <2>3 DEF KnowsTheSame
  <2>6. Has(page.loaded \cup poll.got, page.before, poll.after)'
    BY <1>2, <2>3, StoreStands DEF PageSound, KnowsTheSame, Has
  <2> QED
    BY <1>2, <2>2, <2>3, <2>4, <2>5, <2>6 DEF PollSound, KnowsTheSame
<1>3. CASE page.initialized = FALSE
  <2>1. poll' = [pc |-> "asked", after |-> None, got |-> {}]
    BY <1>3 DEF Asked
  <2>2. poll' \in AskedPolls /\ poll'.after = None /\ poll'.pc = "asked"
    BY <2>1 DEF AskedPolls, Cursors
  <2> QED
    BY <1>3, <2>2 DEF PollSound, KnowsTheSame
<1> QED
  BY <1>1, <1>2, <1>3

LEMMA StartPollSound ==
    ASSUME FeedSound, StartPoll, UNCHANGED store
    PROVE  FeedSound'
<1>1. KnowsTheSame
  BY SameKnowledge DEF FeedSound, StartPoll
<1>2. PageSound'
  BY <1>1, PageKept DEF FeedSound, StartPoll, PageSound
<1>3. PollSound'
  BY <1>1, AskedIsSound DEF FeedSound, StartPoll
<1>4. OlderSound'
  BY OlderKept DEF FeedSound, StartPoll
<1> QED
  BY <1>2, <1>3, <1>4, StoreStands DEF FeedSound

LEMMA PollFailsSound ==
    ASSUME FeedSound, PollFails, UNCHANGED store
    PROVE  FeedSound'
<1>1. KnowsTheSame
  BY SameKnowledge DEF FeedSound, PollFails
<1>2. PageSound'
  BY <1>1, PageKept DEF FeedSound, PollFails, PageSound
<1>3. PollSound'
  BY DEF PollFails, PollSound
<1>4. OlderSound'
  BY OlderKept DEF FeedSound, PollFails
<1> QED
  BY <1>2, <1>3, <1>4, StoreStands DEF FeedSound

LEMMA PollKept ==
    ASSUME PollSound, KnowsTheSame, UNCHANGED <<store, poll>>
    PROVE  PollSound'
<1>1. feed' = feed /\ writer' = writer /\ nextId' = nextId
  BY StoreStands
<1>2. /\ page'.loaded = page.loaded /\ page'.lastSeen = page.lastSeen
      /\ page'.before = page.before /\ page'.initialized = page.initialized
  BY DEF KnowsTheSame
<1> QED
  BY <1>1, <1>2 DEF PollSound, Closed, InTransaction, Has, RecentSound, AfterSound

LEMMA HideSound ==
    ASSUME FeedSound, Hide, UNCHANGED store
    PROVE  FeedSound'
<1>1. KnowsTheSame
  BY SameKnowledge DEF FeedSound, Hide
<1>2. page.open /\ page' = [page EXCEPT !.hidden = TRUE] /\ PageTyped
  BY DEF Hide, FeedSound, PageSound
<1>3. page'.open = page.open
  BY <1>2 DEF PageTyped
<1>4. PageSound'
  BY <1>1, <1>2, <1>3, PageKept DEF FeedSound
<1>5. PollSound'
  BY <1>1, PollKept DEF FeedSound, Hide
<1>6. OlderSound'
  BY <1>1, OlderKept DEF FeedSound, Hide, KnowsTheSame
<1> QED
  BY <1>4, <1>5, <1>6, StoreStands DEF FeedSound

LEMMA ShowSound ==
    ASSUME FeedSound, Show, UNCHANGED store
    PROVE  FeedSound'
<1>1. KnowsTheSame
  BY SameKnowledge DEF FeedSound, Show
<1>2. page.open /\ page' = [page EXCEPT !.hidden = FALSE] /\ PageTyped
  BY DEF Show, FeedSound, PageSound
<1>3. page'.open = page.open
  BY <1>2 DEF PageTyped
<1>4. PageSound'
  BY <1>1, <1>2, <1>3, PageKept DEF FeedSound
<1>5. PollSound'
  <2>1. poll' = poll \/ poll' = Asked
    BY DEF Show
  <2> QED
    BY <1>1, <2>1, PollKept, AskedIsSound DEF FeedSound, Show
<1>6. OlderSound'
  BY <1>1, OlderKept DEF FeedSound, Show, KnowsTheSame
<1> QED
  BY <1>4, <1>5, <1>6, StoreStands DEF FeedSound

LEMMA LeaveSound ==
    ASSUME FeedSound, Leave, UNCHANGED store
    PROVE  FeedSound'
<1>1. KnowsTheSame
  BY SameKnowledge DEF FeedSound, Leave
<1>2. poll' = Idle /\ older' = Idle
  BY DEF Leave
<1>3. PageSound'
  BY <1>1, <1>2, PageKept DEF FeedSound
<1> QED
  BY <1>2, <1>3, StoreStands DEF FeedSound, PollSound, OlderSound

(* A visit begins from nothing.                                            *)
LEMMA OpenSound ==
    ASSUME FeedSound, Open, UNCHANGED store
    PROVE  FeedSound'
<1>1. page' = FreshPage /\ older' = Idle
  BY DEF FeedSound, Open, PageSound
<1>2. Closed(0)'
  <2>1. Closed(0)
    BY ZeroIsClosed DEF FeedSound
  <2> QED
    BY <2>1, StoreStands DEF Closed, InTransaction
<1>3. /\ PageTyped' /\ page'.lastSeen = 0 /\ page'.loaded = {} /\ page'.before = None
      /\ page'.open = TRUE /\ page'.initialized = FALSE
  BY <1>1, IdsAreNaturals DEF FreshPage, PageTyped
<1>4. PageSound'
  BY <1>2, <1>3 DEF PageSound, Closed, InTransaction
<1>5. PollSound'
  <2>1. poll' = Idle \/ poll' = [pc |-> "asked", after |-> None, got |-> {}]
    BY DEF Open
  <2>2. CASE poll' = Idle
    BY <2>2 DEF PollSound
  <2>3. CASE poll' = [pc |-> "asked", after |-> None, got |-> {}]
    BY <1>3, <2>3 DEF PollSound, AskedPolls, Cursors
  <2> QED
    BY <2>1, <2>2, <2>3
<1> QED
  BY <1>1, <1>4, <1>5, StoreStands DEF FeedSound, OlderSound

-----------------------------------------------------------------------------
(* What the page does with answers.                                        *)

(* An open request: what PollSound says when poll is not Idle.             *)
LEMMA Polling ==
    ASSUME FeedSound, poll # Idle
    PROVE  /\ page.open = TRUE /\ poll \in AskedPolls \cup AnsweredPolls
           /\ poll.after = None => page.initialized = FALSE
           /\ poll.after # None =>
                 /\ page.initialized = TRUE /\ poll.after \in 0..MaxId
                 /\ Closed(poll.after) /\ page.lastSeen <= poll.after
                 /\ \A id \in poll.got : id <= poll.after
                 /\ Has(page.loaded \cup poll.got, page.before, poll.after)
           /\ poll.pc = "answered" =>
                 /\ poll.page \in Pages
                 /\ \A j \in poll.page.items : Closed(j)
                 /\ poll.after = None => RecentSound(poll.page)
                 /\ poll.after # None => AfterSound(poll.page, poll.after)
<1>1. page.open \in BOOLEAN /\ page.initialized \in BOOLEAN /\ page.open
  BY DEF FeedSound, PageSound, PageTyped
<1>2. poll \in AskedPolls \cup AnsweredPolls
  BY DEF FeedSound, PollSound
<1>3. poll.after # None => poll.after \in 0..MaxId
  BY <1>2, IdsAreNaturals DEF AskedPolls, AnsweredPolls, Cursors
<1>4. poll.pc = "answered" => poll.page \in Pages
  BY <1>2 DEF AskedPolls, AnsweredPolls
<1> QED
  BY <1>1, <1>2, <1>3, <1>4 DEF FeedSound, PollSound

LEMMA AnswerPollSound ==
    ASSUME FeedSound, AnswerPoll, UNCHANGED store
    PROVE  FeedSound'
<1>1. /\ poll.pc = "asked" /\ page' = page /\ older' = older
      /\ poll' = [pc |-> "answered", after |-> poll.after, got |-> poll.got,
                  page |-> IF poll.after = None THEN RecentPage ELSE PageAfter(poll.after)]
  BY DEF AnswerPoll
<1> DEFINE answer == IF poll.after = None THEN RecentPage ELSE PageAfter(poll.after)
<1>2. poll \in AskedPolls \cup AnsweredPolls /\ poll # Idle
  BY <1>1 DEF FeedSound, PollSound, Idle
<1>3. poll.after \in Cursors /\ poll.got \in SUBSET Ids
  BY <1>2 DEF AskedPolls, AnsweredPolls
<1>4. /\ answer \in Pages /\ answer.items \subseteq feed
      /\ poll.after = None => RecentSound(answer)
      /\ poll.after # None => AfterSound(answer, poll.after)
  <2>1. CASE poll.after = None
    <3>1. answer = RecentPage
      BY <2>1
    <3> QED
      BY <2>1, <3>1, RecentAnswer DEF FeedSound
  <2>2. CASE poll.after # None
    <3>1. answer = PageAfter(poll.after) /\ poll.after \in Nat
      BY <1>3, <2>2, IdsAreNaturals DEF Cursors
    <3> QED
      BY <2>2, <3>1, AnswerAfter DEF FeedSound
  <2> QED
    BY <2>1, <2>2
<1> HIDE DEF answer
<1>5. poll' = [pc |-> "answered", after |-> poll.after, got |-> poll.got, page |-> answer]
  BY <1>1 DEF answer
<1>6. /\ poll' \in AnsweredPolls /\ poll'.pc = "answered" /\ poll'.after = poll.after
      /\ poll'.got = poll.got /\ poll'.page = answer
  BY <1>3, <1>4, <1>5 DEF AnsweredPolls
<1>7. feed' = feed /\ writer' = writer /\ nextId' = nextId /\ StoreSound'
  BY StoreStands DEF FeedSound
<1>8. \A j \in poll'.page.items : Closed(j)'
  BY <1>4, <1>6, <1>7 DEF StoreSound
<1>9. /\ poll'.after = None => RecentSound(poll.page)'
      /\ poll'.after # None => AfterSound(poll.page, poll.after)'
  BY <1>4, <1>6, <1>7 DEF RecentSound, AfterSound
<1>10. poll'.after = None <=> ~page'.initialized
  BY <1>1, <1>2, <1>6 DEF FeedSound, PollSound
<1>11. poll'.after # None =>
          /\ Closed(poll.after)' /\ page'.lastSeen <= poll'.after
          /\ \A id \in poll'.got : id <= poll'.after
          /\ Has(page.loaded \cup poll.got, page.before, poll.after)'
  BY <1>1, <1>2, <1>6, <1>7 DEF FeedSound, PollSound, Closed, InTransaction, Has
<1>12. PollSound'
  BY <1>6, <1>8, <1>9, <1>10, <1>11 DEF PollSound
<1>13. PageSound'
  <2>1. KnowsTheSame
    BY <1>1, SameKnowledge DEF FeedSound
  <2>2. page'.open
    BY <1>1, <1>2, Polling
  <2> QED
    BY <2>1, <2>2, PageKept DEF FeedSound
<1>14. OlderSound'
  BY <1>1, OlderKept DEF FeedSound
<1> QED
  BY <1>7, <1>12, <1>13, <1>14 DEF FeedSound

(* readChangesAfter: the cursor moves over ids the run has.                *)
LEMMA ReceiveMoreSound ==
    ASSUME FeedSound, ReceiveMore, UNCHANGED store
    PROVE  FeedSound'
<1>1. /\ poll.pc = "answered" /\ poll.after # None /\ poll.page.next # None
      /\ poll' = [pc |-> "asked", after |-> poll.page.next, got |-> poll.got \cup poll.page.items]
      /\ page' = page /\ older' = older /\ poll # Idle
  BY DEF ReceiveMore, Idle
<1> DEFINE n == poll.page.next
           i == poll.page.items
           a == poll.after
<1>2. /\ poll \in AskedPolls \cup AnsweredPolls /\ page.open = TRUE /\ page.initialized = TRUE
      /\ a \in 0..MaxId /\ page.lastSeen <= a /\ poll.page \in Pages
      /\ \A id \in poll.got : id <= a
      /\ Has(page.loaded \cup poll.got, page.before, a)
      /\ \A j \in i : Closed(j)
      /\ AfterSound(poll.page, a)
  BY <1>1, Polling
<1>3. i \subseteq Ids /\ n \in Ids /\ poll.got \subseteq Ids /\ page.lastSeen \in 0..MaxId
  BY <1>1, <1>2 DEF Pages, AskedPolls, AnsweredPolls, FeedSound, PageSound, PageTyped
<1>4. n \in i /\ (\A j \in i : j <= n) /\ (\A j \in i : j > a)
  BY <1>1, <1>2 DEF AfterSound
<1>5. /\ poll' \in AskedPolls /\ poll'.pc = "asked" /\ poll'.after = n
      /\ poll'.got = poll.got \cup i
  BY <1>1, <1>3 DEF AskedPolls, Cursors
<1>6. feed' = feed /\ writer' = writer /\ nextId' = nextId /\ StoreSound'
  BY StoreStands DEF FeedSound
<1>7. Closed(poll.after)'
  BY <1>2, <1>4, <1>5, <1>6 DEF Closed, InTransaction
<1>8. page.lastSeen <= n /\ \A id \in poll.got \cup i : id <= n
  BY <1>2, <1>3, <1>4, IdsAreNaturals
<1>9. \A id \in feed : id <= n /\ (page.before = None \/ id >= page.before)
                          => id \in page.loaded \cup (poll.got \cup i)
  <2> SUFFICES ASSUME NEW id \in feed, id <= n, page.before = None \/ id >= page.before
               PROVE  id \in page.loaded \cup (poll.got \cup i)
    OBVIOUS
  <2>1. id \in Nat /\ a \in Nat
    BY <1>2, IdsAreNaturals DEF FeedSound, StoreSound
  <2>2. CASE id <= a
    BY <1>2, <2>2 DEF Has
  <2>3. CASE id > a
    BY <1>2, <1>4, <2>3 DEF AfterSound
  <2> QED
    BY <2>1, <2>2, <2>3
<1>10. Has(page.loaded \cup poll.got, page.before, poll.after)'
  BY <1>1, <1>5, <1>6, <1>9 DEF Has
<1>11. n # None
  BY <1>1
<1>12. PollSound'
  BY <1>1, <1>2, <1>5, <1>7, <1>8, <1>10, <1>11 DEF PollSound
<1>13. PageSound'
  BY <1>1, <1>2, SameKnowledge, PageKept DEF FeedSound
<1>14. OlderSound'
  BY <1>1, OlderKept DEF FeedSound
<1> QED
  BY <1>6, <1>12, <1>13, <1>14 DEF FeedSound

(* The first answer of a visit is all the page has.                        *)
LEMMA ReceiveRecentSound ==
    ASSUME FeedSound, ReceiveRecent, UNCHANGED store
    PROVE  FeedSound'
<1> DEFINE items == poll.page.items
           next == poll.page.next
           last == Max(items \cup {0})
<1>1. /\ poll.pc = "answered" /\ poll.after = None /\ poll # Idle
      /\ page' = [page EXCEPT !.initialized = TRUE, !.loaded = items,
                              !.lastSeen = last, !.before = next]
      /\ poll' = Idle /\ older' = older
  BY DEF ReceiveRecent, Idle
<1>2. /\ page.open = TRUE /\ page.initialized = FALSE /\ poll.page \in Pages
      /\ (\A j \in items : Closed(j)) /\ RecentSound(poll.page) /\ PageTyped
  BY <1>1, Polling DEF FeedSound, PageSound
<1>3. items \subseteq Ids /\ next \in Ids \cup {None}
  BY <1>2 DEF Pages
<1>4. last \in items \cup {0} /\ (\A j \in items \cup {0} : last >= j) /\ last \in 0..MaxId
  <2>1. items \cup {0} \subseteq 0..MaxId /\ MaxId \in Nat
    BY <1>3, IdsAreNaturals
  <2> QED
    BY <2>1, MaxIsGreatest
<1>5. next # None => next \in items
  BY <1>2 DEF RecentSound
<1>6. Closed(last)
  BY <1>2, <1>4, ZeroIsClosed DEF FeedSound
<1> HIDE DEF last
<1>7. \A id \in feed : id <= last /\ (next = None \/ id >= next) => id \in items
  <2> SUFFICES ASSUME NEW id \in feed, id <= last, next = None \/ id >= next
               PROVE  id \in items
    OBVIOUS
  <2>1. id \in Nat /\ id >= 1
    BY IdsAreNaturals DEF FeedSound, StoreSound
  <2>2. last \in items
    BY <1>4, <2>1
  <2> QED
    BY <1>2, <2>2 DEF RecentSound
<1>8. /\ PageTyped' /\ page'.loaded = items /\ page'.lastSeen = last /\ page'.before = next
      /\ page'.initialized = TRUE /\ page'.open = TRUE
  BY <1>1, <1>2, <1>3, <1>4 DEF PageTyped
<1>9. feed' = feed /\ writer' = writer /\ nextId' = nextId /\ StoreSound'
  BY StoreStands DEF FeedSound
<1>10. \A j \in items : j <= last
  BY <1>3, <1>4, IdsAreNaturals
<1>11. next # None => next <= last
  BY <1>5, <1>10
<1>12. Closed(page.lastSeen)' /\ Has(page.loaded, page.before, page.lastSeen)'
  BY <1>6, <1>7, <1>8, <1>9 DEF Closed, InTransaction, Has
<1>13. PageSound'
  BY <1>8, <1>10, <1>11, <1>12 DEF PageSound
<1>14. older' = Idle
  BY <1>1, <1>2 DEF FeedSound, OlderSound
<1> QED
  BY <1>1, <1>9, <1>13, <1>14 DEF FeedSound, PollSound, OlderSound

(* A finished run is merged with what the page has by then.                *)
LEMMA ReceiveLastSound ==
    ASSUME FeedSound, ReceiveLast, UNCHANGED store
    PROVE  FeedSound'
<1> DEFINE items == poll.page.items
           a == poll.after
           merged == page.loaded \cup poll.got \cup items
           last == Max(merged \cup {page.lastSeen})
<1>1. /\ poll.pc = "answered" /\ a # None /\ poll # Idle
      /\ page' = [page EXCEPT !.loaded = merged, !.lastSeen = last]
      /\ poll' = Idle /\ older' = older
  BY DEF ReceiveLast, Idle
<1>2. /\ poll \in AskedPolls \cup AnsweredPolls /\ page.open = TRUE /\ page.initialized = TRUE
      /\ a \in 0..MaxId /\ Closed(a) /\ page.lastSeen <= a /\ poll.page \in Pages
      /\ \A id \in poll.got : id <= a
      /\ Has(page.loaded \cup poll.got, page.before, a)
      /\ \A j \in items : Closed(j)
      /\ AfterSound(poll.page, a)
  BY <1>1, Polling
<1>3. /\ PageTyped /\ page.loaded \subseteq Ids /\ page.lastSeen \in 0..MaxId
      /\ page.before \in Ids \cup {None}
      /\ page.before # None => page.before <= page.lastSeen
      /\ \A id \in page.loaded : id <= page.lastSeen
  BY DEF FeedSound, PageSound, PageTyped
<1>4. items \subseteq Ids /\ poll.got \subseteq Ids
  BY <1>2 DEF Pages, AskedPolls, AnsweredPolls
<1>5. merged \cup {page.lastSeen} \subseteq 0..MaxId /\ MaxId \in Nat
  BY <1>3, <1>4, IdsAreNaturals
<1>6. last \in merged \cup {page.lastSeen} /\ \A j \in merged \cup {page.lastSeen} : last >= j
  <2> HIDE DEF merged
  <2> QED
    BY <1>5, MaxIsGreatest
<1>7. last \in 0..MaxId
  BY <1>5, <1>6
<1> HIDE DEF last
<1>8. last <= a \/ last \in items
  BY <1>2, <1>3, <1>4, <1>6, IdsAreNaturals
<1>9. Closed(last)
  BY <1>2, <1>7, <1>8, ClosedBelow DEF FeedSound
<1>10. \A id \in feed : id <= last /\ (page.before = None \/ id >= page.before) => id \in merged
  <2> SUFFICES ASSUME NEW id \in feed, id <= last, page.before = None \/ id >= page.before
               PROVE  id \in merged
    OBVIOUS
  <2>1. id \in Nat /\ a \in Nat /\ last \in Nat
    BY <1>2, <1>7, IdsAreNaturals DEF FeedSound, StoreSound
  <2>2. CASE id <= a
    BY <1>2, <2>2 DEF Has
  <2>3. CASE id > a
    <3>1. last \in items
      BY <1>8, <2>1, <2>3
    <3> QED
      BY <1>2, <2>3, <3>1 DEF AfterSound
  <2> QED
    BY <2>1, <2>2, <2>3
<1>11. (\A j \in merged : j <= last) /\ page.lastSeen <= last
  BY <1>5, <1>6, <1>7
<1>12. page.before # None => page.before <= last
  BY <1>3, <1>7, <1>11, IdsAreNaturals
<1>13. merged \subseteq Ids
  BY <1>3, <1>4
<1> HIDE DEF merged
<1>14. /\ PageTyped' /\ page'.loaded = merged /\ page'.lastSeen = last
       /\ page'.before = page.before /\ page'.initialized = TRUE /\ page'.open = TRUE
  BY <1>1, <1>2, <1>3, <1>7, <1>13 DEF PageTyped
<1>15. feed' = feed /\ writer' = writer /\ nextId' = nextId /\ StoreSound'
  BY StoreStands DEF FeedSound
<1>16. Closed(page.lastSeen)' /\ Has(page.loaded, page.before, page.lastSeen)'
  BY <1>9, <1>10, <1>14, <1>15 DEF Closed, InTransaction, Has
<1>17. PageSound'
  BY <1>11, <1>12, <1>14, <1>16 DEF PageSound
<1>18. OlderSound'
  BY <1>1, <1>2, <1>14, OlderKept DEF FeedSound
<1> QED
  BY <1>1, <1>15, <1>17, <1>18 DEF FeedSound, PollSound

LEMMA LoadOlderSound ==
    ASSUME FeedSound, LoadOlder, UNCHANGED store
    PROVE  FeedSound'
<1>1. /\ page.open /\ page.before \in Int /\ page' = page /\ poll' = poll
      /\ older' = [pc |-> "asked", before |-> page.before]
  BY DEF LoadOlder
<1>2. KnowsTheSame
  BY <1>1, SameKnowledge DEF FeedSound
<1>3. PageSound' /\ PollSound'
  BY <1>1, <1>2, PageKept, PollKept DEF FeedSound
<1>4. page.before \in Ids /\ page.before # None /\ page.initialized
  BY <1>1, FeedAssumption DEF FeedSound, PageSound, PageTyped
<1>5. older' \in AskedOlder /\ older'.pc = "asked" /\ older'.before = page.before
  BY <1>1, <1>4 DEF AskedOlder
<1>6. OlderSound'
  BY <1>1, <1>4, <1>5 DEF OlderSound
<1> QED
  BY <1>3, <1>6, StoreStands DEF FeedSound

LEMMA AnswerOlderSound ==
    ASSUME FeedSound, AnswerOlder, UNCHANGED store
    PROVE  FeedSound'
<1>1. page' = page /\ poll' = poll
  BY DEF AnswerOlder
<1>2. KnowsTheSame
  BY <1>1, SameKnowledge DEF FeedSound
<1>3. ~page.open => older' = Idle
  BY DEF FeedSound, PageSound, AnswerOlder, Idle
<1>4. PageSound' /\ PollSound'
  BY <1>1, <1>2, <1>3, PageKept, PollKept DEF FeedSound, PageSound
<1>5. CASE older' = older
  BY <1>1, <1>4, <1>5, OlderKept, StoreStands DEF FeedSound
<1>6. CASE older' # older
  <2>1. older.pc = "asked" /\ older' = [pc |-> "answered", page |-> PageBefore(older.before)]
    BY <1>6 DEF AnswerOlder
  <2>2. /\ older \in AskedOlder /\ older.before = page.before
        /\ page.initialized /\ page.before # None
    BY <2>1 DEF FeedSound, OlderSound, Idle, AskedOlder, AnsweredOlder
  <2>3. older.before \in Ids
    BY <2>2 DEF AskedOlder
  <2> DEFINE answer == PageBefore(older.before)
  <2>4. answer \in Pages /\ BeforeSound(answer, page.before)
    BY <2>2, <2>3, AnswerBefore DEF FeedSound
  <2> HIDE DEF answer
  <2>5. older' = [pc |-> "answered", page |-> answer]
    BY <2>1 DEF answer
  <2>6. older' \in AnsweredOlder /\ older'.pc = "answered" /\ older'.page = answer
    BY <2>4, <2>5 DEF AnsweredOlder
  <2>7. BeforeSound(older.page, page.before)'
    BY <1>1, <2>4, <2>6, StoreStands DEF BeforeSound
  <2>8. OlderSound'
    BY <1>1, <2>2, <2>6, <2>7 DEF OlderSound
  <2> QED
    BY <1>4, <2>8, StoreStands DEF FeedSound
<1> QED
  BY <1>5, <1>6

LEMMA OlderFailsSound ==
    ASSUME FeedSound, OlderFails, UNCHANGED store
    PROVE  FeedSound'
<1>1. page' = page /\ poll' = poll /\ (older' = older \/ older' = Idle)
  BY DEF OlderFails
<1>2. KnowsTheSame
  BY <1>1, SameKnowledge DEF FeedSound
<1>3. PageSound' /\ PollSound'
  BY <1>1, <1>2, PageKept, PollKept DEF FeedSound, PageSound
<1>4. OlderSound'
  <2>1. older' = Idle => OlderSound'
    BY DEF OlderSound
  <2>2. older' = older => OlderSound'
    BY <1>1, OlderKept DEF FeedSound
  <2> QED
    BY <1>1, <2>1, <2>2
<1> QED
  BY <1>3, <1>4, StoreStands DEF FeedSound

LEMMA ReceiveLeftSound ==
    ASSUME FeedSound, ReceiveLeft, UNCHANGED store
    PROVE  FeedSound'
<1>1. page' = page /\ poll' = poll /\ older' = older
  BY DEF ReceiveLeft
<1>2. KnowsTheSame
  BY <1>1, SameKnowledge DEF FeedSound
<1>3. PageSound' /\ PollSound' /\ OlderSound'
  BY <1>1, <1>2, PageKept, PollKept, OlderKept DEF FeedSound, PageSound
<1> QED
  BY <1>3, StoreStands DEF FeedSound

(* Older events are merged; whatever the poll is at, it knows them too.    *)
LEMMA ReceiveOlderSound ==
    ASSUME FeedSound, ReceiveOlder, UNCHANGED store
    PROVE  FeedSound'
<1> DEFINE items == older.page.items
           next == older.page.next
           b == page.before
           merged == page.loaded \cup items
<1>1. /\ older.pc = "answered" /\ older # Idle /\ older' = Idle /\ poll' = poll
      /\ page' = [page EXCEPT !.loaded = merged, !.before = next]
  BY DEF ReceiveOlder, Idle
<1>2. /\ older \in AnsweredOlder /\ page.initialized /\ b # None
      /\ BeforeSound(older.page, b)
  BY <1>1 DEF FeedSound, OlderSound, AskedOlder, AnsweredOlder
<1>3. items \subseteq Ids /\ next \in Ids \cup {None}
  BY <1>2 DEF AnsweredOlder, Pages
<1>4. /\ PageTyped /\ page.loaded \subseteq Ids /\ page.lastSeen \in 0..MaxId
      /\ b \in Ids /\ b <= page.lastSeen
      /\ \A id \in page.loaded : id <= page.lastSeen
      /\ Closed(page.lastSeen) /\ Has(page.loaded, b, page.lastSeen)
  BY <1>2 DEF FeedSound, PageSound, PageTyped
<1>5. page.open = TRUE /\ page.initialized = TRUE
  BY <1>1, <1>2 DEF FeedSound, PageSound, PageTyped
<1>6. (\A j \in items : j < b) /\ (next # None => next \in items)
  BY <1>2 DEF BeforeSound
<1>7. (\A j \in merged : j <= page.lastSeen) /\ (next # None => next <= page.lastSeen)
  BY <1>3, <1>4, <1>6, IdsAreNaturals
<1>8. \A id \in feed : ~(id >= b) /\ (next = None \/ id >= next) => id \in items
  <2>1. \A id \in feed : ~(id >= b) => id < b
    BY <1>4, IdsAreNaturals DEF FeedSound, StoreSound
  <2> QED
    BY <1>2, <2>1 DEF BeforeSound
<1>9. merged \subseteq Ids
  BY <1>3, <1>4
<1>10. \A id \in feed : id <= page.lastSeen /\ (next = None \/ id >= next) => id \in merged
  BY <1>4, <1>8 DEF Has
<1> HIDE DEF merged
<1>11. /\ PageTyped' /\ page'.loaded = merged /\ page'.lastSeen = page.lastSeen
       /\ page'.before = next /\ page'.initialized = TRUE /\ page'.open = TRUE
  BY <1>1, <1>3, <1>4, <1>5, <1>9 DEF PageTyped
<1>12. feed' = feed /\ writer' = writer /\ nextId' = nextId /\ StoreSound'
  BY StoreStands DEF FeedSound
<1>13. Closed(page.lastSeen)' /\ Has(page.loaded, page.before, page.lastSeen)'
  BY <1>4, <1>10, <1>11, <1>12 DEF Closed, InTransaction, Has
<1>14. PageSound'
  BY <1>7, <1>11, <1>13 DEF PageSound
<1>15. PollSound'
  <2>1. CASE poll = Idle
    BY <1>1, <2>1 DEF PollSound
  <2>2. CASE poll # Idle
    <3>1. /\ poll.after # None /\ poll \in AskedPolls \cup AnsweredPolls
          /\ Closed(poll.after) /\ page.lastSeen <= poll.after
          /\ \A id \in poll.got : id <= poll.after
          /\ Has(page.loaded \cup poll.got, b, poll.after)
      BY <1>5, <2>2, Polling
    <3>2. poll.pc = "answered" => (\A j \in poll.page.items : Closed(j)) /\ AfterSound(poll.page, poll.after)
      BY <2>2, <3>1, Polling
    <3>3. \A id \in feed : id <= poll.after /\ (next = None \/ id >= next) => id \in merged \cup poll.got
      BY <1>8, <3>1 DEF Has, merged
    <3>4. Closed(poll.after)' /\ Has(page.loaded \cup poll.got, page.before, poll.after)'
      BY <1>1, <1>11, <1>12, <3>1, <3>3 DEF Closed, InTransaction, Has
    <3>5. poll.pc = "answered" => (\A j \in poll.page.items : Closed(j)') /\ AfterSound(poll.page, poll.after)'
      BY <1>1, <1>12, <3>2 DEF Closed, InTransaction, AfterSound
    <3> QED
      BY <1>1, <1>11, <3>1, <3>4, <3>5 DEF PollSound
  <2> QED
    BY <2>1, <2>2
<1> QED
  BY <1>1, <1>12, <1>14, <1>15 DEF FeedSound, OlderSound

-----------------------------------------------------------------------------
LEMMA FeedSoundAtFirst == Init => FeedSound
<1> SUFFICES ASSUME Init PROVE FeedSound
  OBVIOUS
<1>1. /\ feed = {} /\ nextId = 1 /\ lock = None
      /\ writer = [w \in Writers |-> [pc |-> "idle", ids |-> {}]]
      /\ poll = Idle /\ older = Idle /\ page = [FreshPage EXCEPT !.open = FALSE]
  BY DEF Init
<1>2. /\ writer \in [Writers -> [pc : WriterSteps, ids : SUBSET Ids]]
      /\ \A w \in Writers : writer[w].pc = "idle"
  BY <1>1 DEF WriterSteps
<1>3. StoreSound
  BY <1>1, <1>2, FeedAssumption DEF StoreSound, InTransaction
<1>4. /\ PageTyped /\ page.lastSeen = 0 /\ page.loaded = {} /\ page.before = None
      /\ page.initialized = FALSE
  <2>1. page = [open |-> FALSE, hidden |-> FALSE, initialized |-> FALSE, loaded |-> {},
                lastSeen |-> 0, before |-> None]
    BY <1>1 DEF FreshPage
  <2> QED
    BY <2>1, IdsAreNaturals DEF PageTyped
<1>5. PageSound
  BY <1>1, <1>3, <1>4, ZeroIsClosed DEF PageSound
<1> QED
  BY <1>1, <1>3, <1>5 DEF FeedSound, PollSound, OlderSound

LEMMA FeedSoundStep == FeedSound /\ [Next]_vars => FeedSound'
<1> SUFFICES ASSUME FeedSound, [Next]_vars PROVE FeedSound'
  OBVIOUS
<1>1. ASSUME Ingest \/ (\E w \in Writers : Die(w)) \/ Rebaseline, UNCHANGED Client
      PROVE  FeedSound'
  <2>1. StoreSound' /\ KeepsClosed
    BY <1>1, WritersKeepClosed DEF FeedSound
  <2> QED
    BY <1>1, <2>1, PageOutlivesWrites, PollOutlivesWrites, OlderOutlivesWrites DEF FeedSound
<1>2. ASSUME Requests \/ Hide \/ Show \/ Leave, UNCHANGED store PROVE FeedSound'
  BY <1>2, StartPollSound, AnswerPollSound, ReceiveRecentSound, ReceiveMoreSound,
     ReceiveLastSound, HideSound, ShowSound, LeaveSound DEF Requests
<1>3. ASSUME LoadOlder \/ AnswerOlder \/ ReceiveOlder \/ ReceiveLeft, UNCHANGED store
      PROVE  FeedSound'
  BY <1>3, LoadOlderSound, AnswerOlderSound, ReceiveOlderSound, ReceiveLeftSound
<1>4. ASSUME PollFails \/ OlderFails \/ Open, UNCHANGED store PROVE FeedSound'
  BY <1>4, PollFailsSound, OlderFailsSound, OpenSound
<1>5. CASE UNCHANGED vars
  <2>1. UNCHANGED store /\ page' = page /\ poll' = poll /\ older' = older
    BY <1>5 DEF vars
  <2>2. KnowsTheSame
    BY <2>1, SameKnowledge DEF FeedSound
  <2>3. PageSound' /\ PollSound' /\ OlderSound'
    BY <2>1, <2>2, PageKept, PollKept, OlderKept DEF FeedSound, PageSound
  <2> QED
    BY <2>1, <2>3, StoreStands DEF FeedSound
<1>6. CASE Next
  BY <1>1, <1>2, <1>3, <1>4, <1>6 DEF Next, store
<1> QED
  BY <1>5, <1>6

(* The invariant holds in every state the feed and the page can be in.     *)
LEMMA FeedSoundAlways == Spec => []FeedSound
BY FeedSoundAtFirst, FeedSoundStep, PTL DEF Spec

(* Whichever writers die, roll back or wait, and however polls, loads of   *)
(* older events, failures and visits interleave, the page has every event  *)
(* of relay_change_events between the oldest and the newest it reached:    *)
(* readChangesAfter may go on from lastSeenEventId (ActivityPage.tsx).     *)
THEOREM PageHasNoGaps == Spec => []NoGaps
<1>1. FeedSound => NoGaps
  BY DEF FeedSound, PageSound, NoGaps, Has
<1> QED
  BY <1>1, FeedSoundAlways, PTL

(* An event that becomes visible is above every event that already was:    *)
(* ids are drawn under the ingestion lock, which outlives the commit.      *)
THEOREM CommitsAscend ==
    Spec => [][\A new \in feed' \ feed : \A old \in feed : old < new]_vars
<1> DEFINE Ascends == \A new \in feed' \ feed : \A old \in feed : old < new
<1>1. FeedSound /\ [Next]_vars => [Ascends]_vars
  <2> SUFFICES ASSUME FeedSound, Next PROVE Ascends
    OBVIOUS
  <2>1. CASE Ingest \/ (\E w \in Writers : Die(w)) \/ Rebaseline
    <3>1. StoreSound' /\ KeepsClosed
      BY <2>1, WritersKeepClosed DEF FeedSound
    <3>2. feed \subseteq Ids /\ feed' \subseteq Ids
      BY <3>1 DEF FeedSound, StoreSound
    <3> SUFFICES ASSUME NEW new \in feed', new \notin feed, NEW old \in feed PROVE old < new
      OBVIOUS
    <3>3. ~(new <= old)
      BY <3>1, <3>2, IdsAreNaturals DEF KeepsClosed, FeedSound, StoreSound
    <3> QED
      BY <3>2, <3>3, IdsAreNaturals
  <2>2. CASE UNCHANGED store
    BY <2>2 DEF store
  <2> QED
    BY <2>1, <2>2 DEF Next, store
<1> QED
  BY <1>1, FeedSoundAlways, PTL DEF Spec

=============================================================================
