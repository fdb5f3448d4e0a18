----------------------------- MODULE ActivityFeed -----------------------------
(***************************************************************************)
(* Change events from the transaction that writes them to the page that    *)
(* shows them:                                                             *)
(*                                                                         *)
(*   ingestion, rebaseline -> relay_change_events -> read API              *)
(*     -> Activity page (client/src/features/activity)                     *)
(*                                                                         *)
(* Ids are drawn from a sequence inside a transaction and become visible   *)
(* at its commit; the page reads on from the greatest id it has seen.  The *)
(* ingestion lock is a transaction of its own, around the one that writes. *)
(***************************************************************************)
EXTENDS Integers, FiniteSets, FiniteSetsExt

CONSTANTS
    Writers,         \* processes that ingest: Lambda invocations, a command
    Limit,           \* the page size, CHANGE_PAGE_SIZE
    None,            \* null
    MaxId,           \* bound: ids drawn from the sequence
    MaxDeaths,       \* bound: writers killed
    MaxRebaselines,  \* bound
    MaxErrors,       \* bound: requests that fail
    MaxVisits        \* bound: times the page is opened

ASSUME FeedAssumption ==
    /\ Limit \in Nat \ {0} /\ None \notin Int \cup Writers
    /\ {MaxId, MaxDeaths, MaxRebaselines, MaxErrors, MaxVisits} \subseteq Nat

VARIABLES
    feed,    \* the committed ids of relay_change_events
    nextId,  \* the sequence
    lock,    \* who holds the advisory lock
    writer,  \* each writer's step, and the ids of its open transaction
    page,    \* the page: is it open and visible, and its refs and state
    shown,   \* React Query's data of ["change-events"]
    poll,    \* the run of its queryFn
    older,   \* loadOlder
    left,    \* a loadOlder of the visit before
    budget   \* what is left of the bounds

store == <<feed, nextId, lock, writer>>
vars == <<store, page, shown, poll, older, left, budget>>

Ids == 1..MaxId
Idle == [pc |-> "idle"]

Spend(what) == budget[what] > 0 /\ budget' = [budget EXCEPT ![what] = @ - 1]

-----------------------------------------------------------------------------
(* Writers.                                                                *)

At(w, pc) == writer[w].pc = pc
Goes(w, pc, ids) == writer' = [writer EXCEPT ![w] = [pc |-> pc, ids |-> ids]]

(* Mutant: pg_try_advisory_xact_lock's answer is not looked at.            *)
TakeLockAnyway(w) ==
    /\ At(w, "idle")
    /\ lock' = w
    /\ Goes(w, "locked", {})
    /\ UNCHANGED <<feed, nextId>>

TakeLock(w) ==
    /\ At(w, "idle") /\ lock = None
    /\ lock' = w
    /\ Goes(w, "locked", {})
    /\ UNCHANGED <<feed, nextId>>

InsertChangeEvent(w) ==
    /\ At(w, "locked") \/ At(w, "writing")
    /\ nextId <= MaxId
    /\ Goes(w, "writing", writer[w].ids \cup {nextId})
    /\ nextId' = nextId + 1
    /\ UNCHANGED <<feed, lock>>

Commit(w) ==
    /\ At(w, "writing")
    /\ feed' = feed \cup writer[w].ids
    /\ Goes(w, "ended", {})
    /\ UNCHANGED <<nextId, lock>>

(* A statement failed, or nothing was written.                             *)
RollBack(w) ==
    /\ At(w, "locked") \/ At(w, "writing")
    /\ Goes(w, "ended", {})
    /\ UNCHANGED <<feed, nextId, lock>>

Unlocked(w) == lock' = IF lock = w THEN None ELSE lock

ReleaseLock(w) ==
    /\ At(w, "ended")
    /\ Unlocked(w)
    /\ Goes(w, "idle", {})
    /\ UNCHANGED <<feed, nextId>>

(* A killed writer leaves both transactions open on the server.            *)
Die(w) ==
    /\ At(w, "locked") \/ At(w, "writing")
    /\ Goes(w, "dead", writer[w].ids)
    /\ UNCHANGED <<feed, nextId, lock>>

(* The server ends an abandoned transaction: the lock's, then or before,   *)
(* the one that writes; what that one wrote never becomes visible.         *)
ExpireLock(w) ==
    /\ At(w, "dead") /\ lock = w
    /\ Unlocked(w)
    /\ UNCHANGED <<feed, nextId, writer>>

ExpireWrites(w) ==
    /\ At(w, "dead") /\ lock # w
    /\ Goes(w, "idle", {})
    /\ UNCHANGED <<feed, nextId, lock>>

(* rebaseline_current_change_feed: lock and deletion in one transaction.   *)
Rebaseline ==
    /\ lock = None /\ feed # {}
    /\ feed' = {}
    /\ UNCHANGED <<nextId, lock, writer>>

Expire == \E w \in Writers : ExpireLock(w) \/ ExpireWrites(w)

Ingest ==
    \/ \E w \in Writers : TakeLock(w) \/ InsertChangeEvent(w) \/ Commit(w)
                            \/ RollBack(w) \/ ReleaseLock(w)
    \/ Expire

-----------------------------------------------------------------------------
(* The read API: each answer is one query.                                 *)

Newest(ids) == {i \in ids : Cardinality({j \in ids : j > i}) < Limit}
Oldest(ids) == {i \in ids : Cardinality({j \in ids : j < i}) < Limit}

(* The cursor of a page: its last id, unless the page is not full.         *)
NextCursor(items, last) == IF Cardinality(items) = Limit THEN last ELSE None

RecentPage ==
    LET items == Newest(feed) IN [items |-> items, next |-> NextCursor(items, Min(items))]

PageBefore(id) ==
    LET items == Newest({i \in feed : i < id})
    IN  [items |-> items, next |-> NextCursor(items, Min(items))]

PageAfter(id) ==
    LET items == Oldest({i \in feed : i > id})
    IN  [items |-> items, next |-> NextCursor(items, Max(items))]

-----------------------------------------------------------------------------
(* The page.  initialized, loaded, lastSeen and before are its refs and    *)
(* the state nextBeforeId; they are new with each visit.                   *)

FreshPage == [open |-> TRUE, hidden |-> FALSE, initialized |-> FALSE, loaded |-> {},
              lastSeen |-> 0, before |-> None]

(* queryFn, up to its first request.                                       *)
Asked ==
    IF page.initialized
    THEN [pc |-> "asked", after |-> page.lastSeen, got |-> {}]
    ELSE [pc |-> "asked", after |-> None, got |-> {}]

(* Mutant: polling stops after an error.                                   *)
StartPollUnlessFailed ==
    /\ page.open /\ ~page.hidden
    /\ poll = Idle /\ budget.errors = MaxErrors
    /\ poll' = Asked
    /\ UNCHANGED <<page, shown, older, left>>

(* refetchInterval, and the Refresh button.                                *)
StartPoll ==
    /\ page.open /\ ~page.hidden
    /\ poll = Idle
    /\ poll' = Asked
    /\ UNCHANGED <<page, shown, older, left>>

AnswerPoll ==
    /\ poll.pc = "asked"
    /\ poll' = [pc |-> "answered", after |-> poll.after, got |-> poll.got,
                page |-> IF poll.after = None THEN RecentPage ELSE PageAfter(poll.after)]
    /\ UNCHANGED <<page, shown, older, left>>

(* The first answer of a visit.                                            *)
ReceiveRecent ==
    /\ poll.pc = "answered" /\ poll.after = None
    /\ LET items == poll.page.items
       IN  /\ page' = [page EXCEPT !.initialized = TRUE, !.loaded = items,
                                   !.lastSeen = Max(items \cup {0}), !.before = poll.page.next]
           /\ shown' = items
    /\ poll' = Idle
    /\ UNCHANGED <<older, left>>

(* readChangesAfter follows its cursor ...                                 *)
ReceiveMore ==
    /\ poll.pc = "answered" /\ poll.after # None /\ poll.page.next # None
    /\ poll' = [pc |-> "asked", after |-> poll.page.next, got |-> poll.got \cup poll.page.items]
    /\ UNCHANGED <<page, shown, older, left>>

(* ... and is merged with what the page has by then.                       *)
ReceiveLast ==
    /\ poll.pc = "answered" /\ poll.after # None /\ poll.page.next = None
    /\ LET merged == page.loaded \cup poll.got \cup poll.page.items
       IN  /\ page' = [page EXCEPT !.loaded = merged,
                                   !.lastSeen = Max(merged \cup {page.lastSeen})]
           /\ shown' = merged
    /\ poll' = Idle
    /\ UNCHANGED <<older, left>>

(* A failing page leaves the refs alone.                                   *)
PollFails ==
    /\ poll # Idle
    /\ poll' = Idle
    /\ UNCHANGED <<page, shown, older, left>>

Hide ==
    /\ page.open /\ ~page.hidden
    /\ page' = [page EXCEPT !.hidden = TRUE]
    /\ UNCHANGED <<shown, poll, older, left>>

(* visibilityChanged refetches; a run that already has data is cancelled.  *)
Show ==
    /\ page.open /\ page.hidden
    /\ page' = [page EXCEPT !.hidden = FALSE]
    /\ poll' = IF poll # Idle /\ shown = None THEN poll ELSE Asked
    /\ UNCHANGED <<shown, older, left>>

LoadOlder ==
    /\ page.open /\ page.before \in Int /\ older = Idle
    /\ older' = [pc |-> "asked", before |-> page.before]
    /\ UNCHANGED <<page, shown, poll, left>>

AnswerOlder ==
    \/ /\ older.pc = "asked"
       /\ older' = [pc |-> "answered", page |-> PageBefore(older.before)]
       /\ UNCHANGED <<page, shown, poll, left>>
    \/ /\ left.pc = "asked"
       /\ left' = [pc |-> "answered", page |-> PageBefore(left.before), loaded |-> left.loaded]
       /\ UNCHANGED <<page, shown, poll, older>>

ReceiveOlder ==
    /\ older.pc = "answered"
    /\ LET merged == page.loaded \cup older.page.items
       IN  /\ page' = [page EXCEPT !.loaded = merged, !.before = older.page.next]
           /\ shown' = merged
    /\ older' = Idle
    /\ UNCHANGED <<poll, left>>

(* setQueryData of a visit that is over still reaches the cache.           *)
ReceiveLeft ==
    /\ left.pc = "answered"
    /\ shown' = left.loaded \cup left.page.items
    /\ left' = Idle
    /\ UNCHANGED <<page, poll, older>>

OlderFails ==
    \/ older # Idle /\ older' = Idle /\ UNCHANGED <<page, shown, poll, left>>
    \/ left # Idle /\ left' = Idle /\ UNCHANGED <<page, shown, poll, older>>

(* Leaving aborts the poll; loadOlder has no signal to abort it.           *)
Leave ==
    /\ page.open /\ left = Idle
    /\ page' = [page EXCEPT !.open = FALSE]
    /\ poll' = Idle
    /\ left' = IF older.pc = "asked"
               THEN [pc |-> "asked", before |-> older.before, loaded |-> page.loaded]
               ELSE IF older.pc = "answered"
               THEN [pc |-> "answered", page |-> older.page, loaded |-> page.loaded]
               ELSE Idle
    /\ older' = Idle
    /\ UNCHANGED shown

(* The cache may have been kept, and what it has be fresh enough.          *)
Open ==
    /\ ~page.open
    /\ page' = FreshPage
    /\ shown' \in {shown, None}
    /\ poll' \in {[pc |-> "asked", after |-> None, got |-> {}]}
                   \cup (IF shown' # None THEN {Idle} ELSE {})
    /\ UNCHANGED <<older, left>>

Requests == StartPoll \/ AnswerPoll \/ ReceiveRecent \/ ReceiveMore \/ ReceiveLast

-----------------------------------------------------------------------------
Init ==
    /\ feed = {} /\ nextId = 1 /\ lock = None
    /\ writer = [w \in Writers |-> [pc |-> "idle", ids |-> {}]]
    /\ page = [FreshPage EXCEPT !.open = FALSE]
    /\ shown = None
    /\ poll = Idle /\ older = Idle /\ left = Idle
    /\ budget = [deaths |-> MaxDeaths, rebaselines |-> MaxRebaselines,
                 errors |-> MaxErrors, visits |-> MaxVisits]

Client == <<page, shown, poll, older, left>>

Next ==
    \/ Ingest /\ UNCHANGED <<Client, budget>>
    \/ (\E w \in Writers : Die(w)) /\ Spend("deaths") /\ UNCHANGED Client
    \/ Rebaseline /\ Spend("rebaselines") /\ UNCHANGED Client
    \/ (Requests \/ Hide \/ Show \/ Leave) /\ UNCHANGED <<store, budget>>
    \/ (LoadOlder \/ AnswerOlder \/ ReceiveOlder \/ ReceiveLeft) /\ UNCHANGED <<store, budget>>
    \/ (PollFails \/ OlderFails) /\ Spend("errors") /\ UNCHANGED store
    \/ Open /\ Spend("visits") /\ UNCHANGED store

Spec == Init /\ [][Next]_vars

(* The browser polls and the API answers.  Nothing is assumed of writers.  *)
Fairness == WF_vars(Requests /\ UNCHANGED <<store, budget>>)
FairSpec == Spec /\ Fairness

-----------------------------------------------------------------------------
(* Type invariant.                                                         *)
TypeOK ==
    /\ feed \subseteq Ids /\ nextId \in 1..MaxId + 1
    /\ lock \in Writers \cup {None}
    /\ \A w \in Writers : writer[w].ids \subseteq Ids
    /\ page.loaded \subseteq Ids /\ page.lastSeen \in 0..MaxId
    /\ page.before \in Ids \cup {None}
    /\ shown = None \/ shown \subseteq Ids

(* The page has every event of the feed from where its history begins to   *)
(* the last one it saw: no event becomes visible below the cursor later,   *)
(* whichever writers died or failed, and no request, failed, late or of    *)
(* another visit, leaves a hole that later polls would step over.          *)
NoGaps ==
    page.initialized =>
        \A id \in feed :
            (id <= page.lastSeen /\ (page.before = None \/ id >= page.before))
                => id \in page.loaded

(* While the page is open and visible it catches up again and again with   *)
(* the feed, whatever was lost, left over or deleted in between: every     *)
(* change is shown that does not belong to history not loaded yet.         *)
CatchesUp ==
    []<>(\/ ~page.open \/ page.hidden
         \/ shown # None /\ \A id \in feed : id \in shown \/ (page.before # None /\ id < page.before))
=============================================================================
