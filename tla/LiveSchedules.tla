---------------------------- MODULE LiveSchedules ----------------------------
(***************************************************************************)
(* Planning of live polling: the reference branch of process_collected_    *)
(* payload and reconcile_schedules (lambda_ingestion.py) against the       *)
(* EventBridge schedules of the live group, which fire while it runs, and  *)
(* the polling chains they start.  Every call of the Scheduler API is a    *)
(* step; an invocation may end between any two.  Live bundles write the    *)
(* same rows of the database between two reference bundles.                *)
(*                                                                         *)
(* A chain polls its gameweek until its window_end, or breaks off before   *)
(* (PollsUntilTheEnd of CollectionPipeline says when).                     *)
(***************************************************************************)
EXTENDS MatchWindows, FiniteSets

CONSTANTS
    Events, Fixtures,
    Kickoffs,        \* kickoff times
    Dates,           \* bound: the gameweeks and kickoff times FPL may announce
    RefreshEvery,    \* a reference refresh completes in every such period
    MaxMoves,        \* bound: changes of a fixture by FPL
    MaxFaults,       \* bound: reconciliations that fail, chains that break
                     \* off, and bundles that a change of FPL overtakes
    MaxClock         \* bound on time

ASSUME BoundAssumption ==
    /\ Events \subseteq Nat /\ Kickoffs \subseteq Nat
    /\ {RefreshEvery, MaxMoves, MaxFaults, MaxClock} \subseteq Nat

ASSUME FixturesAssumption == IsFiniteSet(Fixtures)

Fixture == [event : Events \cup {Null}, kickoff : Kickoffs \cup {Null}]

ASSUME DatesAssumption == Dates \subseteq Fixture

VARIABLES
    clock,
    answers,     \* the fixtures as FPL has had them, the newest last
    accepted,    \* source -> the newest answer taken from it
    stored,      \* the fixtures in the database
    schedules,   \* the live group: name -> schedule
    reconciler,  \* the running invocation
    chains,      \* the windows of the polling chains under way
    refreshed,   \* when the last refresh completed
    changedAt,   \* when a stored fixture last changed
    polledAt,    \* when the gameweek was last polled
    brokenUntil, \* until when nobody takes up a chain that broke off
    faults       \* what is left of MaxFaults

database == <<accepted, stored, changedAt>>

vars == <<clock, answers, database, schedules, reconciler, chains, refreshed,
          polledAt, brokenUntil, faults>>

world == <<clock, answers, brokenUntil>>

SpendFault == faults > 0 /\ faults' = faults - 1

-----------------------------------------------------------------------------
(* The scheduler service.                                                  *)

(* A schedule that fired stays (ActionAfterCompletion NONE), and fires     *)
(* again only if it is given a new time.                                   *)
Definition(window, now) ==
    [window |-> window, at |-> ScheduleAt(window, now), fired |-> FALSE]

Due(name) == ~schedules[name].fired /\ schedules[name].at <= clock

(* The schedule sends the first job of its window, which is polled until   *)
(* the window is over or the chain breaks off.  Chains of equal windows    *)
(* count as one: they poll together, and the worst is that both break off. *)
Fire(name) ==
    /\ Due(name)
    /\ schedules' = [schedules EXCEPT ![name].fired = TRUE]
    /\ chains' = chains \cup {schedules[name].window}
    /\ polledAt' = [polledAt EXCEPT ![schedules[name].window.event] = clock]
    /\ UNCHANGED <<reconciler, refreshed, faults, database, world>>

(* A result is dropped for the lock of a killed invocation, or a message   *)
(* is given up after three receives.  The retained schedule of the window  *)
(* does not start it again; the matches with which the window began have   *)
(* to be over before it is planned under another name.                     *)
Break(c) ==
    /\ SpendFault
    /\ chains' = chains \ {c}
    /\ brokenUntil' = [brokenUntil EXCEPT ![c.event] =
           LaterOf(@, c.start + BeforeKickoff + AfterKickoff)]
    /\ UNCHANGED <<clock, answers, schedules, reconciler, refreshed, polledAt, database>>

-----------------------------------------------------------------------------
(* The fixtures in the database: the full list of a reference bundle and   *)
(* the gameweek's of a live bundle are sources with watermarks of their    *)
(* own that write the same rows (IngestStore).  Null stands for the former.*)

Source == Events \cup {Null}

Upstream == Last(answers)

Payload(v, source) ==
    [f \in {g \in Fixtures : source \in {Null, answers[v][g].event}} |-> answers[v][f]]

(* An answer that is not stale writes all its rows, unless its payload is  *)
(* equal to the last one; equal times and gameweeks do not make it equal.  *)
Persist(v, source) ==
    /\ IF v < Len(answers) THEN SpendFault ELSE UNCHANGED faults
    /\ \/ /\ v >= accepted[source]
          /\ stored' = [f \in Fixtures |->
                 IF source \in {Null, answers[v][f].event} THEN answers[v][f] ELSE stored[f]]
       \/ /\ \/ v < accepted[source]
             \/ accepted[source] > 0
                /\ Payload(v, source) = Payload(accepted[source], source)
          /\ stored' = stored
    /\ accepted' = [accepted EXCEPT ![source] = LaterOf(@, v)]
    /\ changedAt' = IF stored' = stored THEN changedAt ELSE clock

-----------------------------------------------------------------------------
(* The reference branch of the ingestion Lambda.                           *)

Idle == [pc |-> "idle"]

(* The bundle holds an answer of FPL, late or not.  What is planned are    *)
(* the stored fixtures, with the now read when the invocation starts.      *)
Start ==
    /\ reconciler = Idle
    /\ \E v \in DOMAIN answers : Persist(v, Null)
    /\ reconciler' = [pc |-> "list", now |-> clock,
                      windows |-> BuildMatchWindows(stored', clock)]
    /\ UNCHANGED <<schedules, chains, refreshed, polledAt, world>>

Names(windows) == {ScheduleName(windows[i]) : i \in DOMAIN windows}

List ==
    /\ reconciler.pc = "list"
    /\ reconciler' = [pc |-> "delete", now |-> reconciler.now,
                      windows |-> reconciler.windows,
                      existing |-> DOMAIN schedules,
                      obsolete |-> DOMAIN schedules \ Names(reconciler.windows)]
    /\ UNCHANGED <<schedules, chains, refreshed, polledAt, faults, database, world>>

FirstName(names) ==
    CHOOSE m \in names : \A n \in names :
        m[1] < n[1] \/ (m[1] = n[1] /\ m[2] <= n[2])

(* Obsolete schedules go first, in the order of their names.               *)
Delete ==
    /\ reconciler.pc = "delete" /\ reconciler.obsolete # {}
    /\ LET name == FirstName(reconciler.obsolete)
       IN  /\ schedules' = Restrict(schedules, DOMAIN schedules \ {name})
           /\ reconciler' = [reconciler EXCEPT !.obsolete = @ \ {name}]
    /\ UNCHANGED <<chains, refreshed, polledAt, faults, database, world>>

Deleted ==
    /\ reconciler.pc = "delete" /\ reconciler.obsolete = {}
    /\ reconciler' = [reconciler EXCEPT !.pc = "ensure"]
    /\ UNCHANGED <<schedules, chains, refreshed, polledAt, faults, database, world>>

(* Mutant: a window that has started is never planned.                     *)
RetainedByStart(name, window) == window.start <= reconciler.now

(* An existing schedule whose window has started is left alone.            *)
Retained(name, window) ==
    name \in reconciler.existing /\ window.start <= reconciler.now

(* Mutant: existing schedules are never touched.                           *)
UpToDateByName(name, window) == name \in reconciler.existing

(* The complete definitions are compared.                                  *)
UpToDate(name, window) ==
    /\ name \in reconciler.existing
    /\ schedules[name].window = window
    /\ schedules[name].at = ScheduleAt(window, reconciler.now)

(* The next desired window: skipped, created or updated.                   *)
Ensure ==
    /\ reconciler.pc = "ensure" /\ reconciler.windows # <<>>
    /\ LET window == Head(reconciler.windows)
           name == ScheduleName(window)
       IN  IF Retained(name, window) \/ UpToDate(name, window)
           THEN UNCHANGED schedules
           ELSE schedules' = [n \in DOMAIN schedules \cup {name} |->
                    IF n = name THEN Definition(window, reconciler.now)
                    ELSE schedules[n]]
    /\ reconciler' = [reconciler EXCEPT !.windows = Tail(@)]
    /\ UNCHANGED <<chains, refreshed, polledAt, faults, database, world>>

Complete ==
    /\ reconciler.pc = "ensure" /\ reconciler.windows = <<>>
    /\ refreshed' = reconciler.now
    /\ reconciler' = Idle
    /\ UNCHANGED <<schedules, chains, polledAt, faults, database, world>>

(* A Scheduler call raises or the invocation is killed; SQS or the next    *)
(* hour brings another one, which starts over.                             *)
Fail ==
    /\ reconciler # Idle /\ SpendFault
    /\ reconciler' = Idle
    /\ UNCHANGED <<schedules, chains, refreshed, polledAt, database, world>>

-----------------------------------------------------------------------------
(* The live branch: a bundle of a gameweek that is or was polled, fetched  *)
(* whenever, is ingested between two reconciliations (reserved concurrency *)
(* of one).                                                                *)
LiveBundle(e, v) ==
    /\ reconciler = Idle
    /\ polledAt[e] > 0
    /\ Persist(v, e)
    /\ UNCHANGED <<schedules, reconciler, chains, refreshed, polledAt, world>>

(* FPL moves a fixture to another time or gameweek, or withdraws its date. *)
Move(f, fixture) ==
    /\ Len(answers) <= MaxMoves /\ Upstream[f] # fixture
    /\ answers' = Append(answers, [Upstream EXCEPT ![f] = fixture])
    /\ UNCHANGED <<clock, schedules, reconciler, chains, refreshed, polledAt,
                   brokenUntil, faults, database>>

Alive(time) == {c \in chains : c.end > time}

(* Schedules are punctual, and a refresh completes every RefreshEvery.     *)
Tick ==
    /\ clock < MaxClock
    /\ \A name \in DOMAIN schedules : ~Due(name)
    /\ clock < refreshed + RefreshEvery
    /\ clock' = clock + 1
    /\ chains' = Alive(clock + 1)
    /\ polledAt' = [e \in Events |->
           IF \E c \in Alive(clock + 1) : c.event = e
           THEN clock + 1 ELSE polledAt[e]]
    /\ UNCHANGED <<answers, schedules, reconciler, refreshed, brokenUntil, faults,
                   database>>

-----------------------------------------------------------------------------
Init ==
    /\ clock = 0
    /\ stored \in [Fixtures -> Dates]
    /\ answers = <<stored>>
    /\ accepted = [s \in Source |-> IF s = Null THEN 1 ELSE 0]
    /\ schedules = [n \in {} |-> Idle]
    /\ reconciler = Idle
    /\ chains = {}
    /\ refreshed = 0
    /\ changedAt = 0
    /\ polledAt = [e \in Events |-> 0]
    /\ brokenUntil = [e \in Events |-> 0]
    /\ faults = MaxFaults

Reconcile == Start \/ List \/ Delete \/ Deleted \/ Ensure \/ Complete

Next ==
    \/ Reconcile
    \/ Fail
    \/ \E name \in DOMAIN schedules : Fire(name)
    \/ \E c \in chains : Break(c)
    \/ \E e \in Events, v \in DOMAIN answers : LiveBundle(e, v)
    \/ \E f \in Fixtures, fixture \in Dates : Move(f, fixture)
    \/ Tick

Spec == Init /\ [][Next]_vars

-----------------------------------------------------------------------------
(* Types of the schedules, the invocation and the chains.                  *)
TypeOK ==
    /\ clock \in 0..MaxClock
    /\ answers \in Seq([Fixtures -> Fixture]) /\ answers # <<>>
    /\ accepted \in [Source -> 0..Len(answers)]
    /\ stored \in [Fixtures -> Fixture]
    /\ DOMAIN schedules \subseteq Events \X Int
    /\ \A name \in DOMAIN schedules :
           /\ name = ScheduleName(schedules[name].window)
           /\ schedules[name].at \in Nat /\ schedules[name].fired \in BOOLEAN
           /\ schedules[name].at >= schedules[name].window.start
    /\ reconciler.pc \in {"idle", "list", "delete", "ensure"}
    /\ \A c \in chains : c.event \in Events
    /\ brokenUntil \in [Events -> Nat]
    /\ refreshed \in 0..clock

(* What an invocation is about to plan are the connected components of the *)
(* windows of the stored fixtures that are not over (build_match_windows), *)
(* before, during, at the end of and after every match.                    *)
WindowsAreMerged ==
    reconciler.pc = "list" =>
        IsMergeOf(reconciler.windows, Candidates(stored, reconciler.now))

(* A completed reconciliation leaves exactly the planned windows: no other *)
(* schedule, and for each window that had not started the whole definition *)
(* of this window, whatever failed runs and firings came before.           *)
Reconciled ==
    [][reconciler.pc = "ensure" /\ reconciler' = Idle /\ refreshed' # refreshed =>
          LET windows == BuildMatchWindows(stored, reconciler.now)
          IN  /\ DOMAIN schedules = Names(windows)
              /\ \A i \in DOMAIN windows :
                     windows[i].start > reconciler.now =>
                         schedules[ScheduleName(windows[i])].window = windows[i]]_vars

(* Once the stored fixtures have not changed for that long, a match is     *)
(* never left unpolled for longer than a refresh period and a catch-up     *)
(* delay for each fixture: whichever schedules were deleted, retained or   *)
(* renamed when windows merged, split, moved or ended, whichever bundle    *)
(* came late or was skipped, and whichever run failed half-way.  When a    *)
(* chain broke off, this begins anew where the matches with which its      *)
(* window began are over.  (A run that finds a match over just before a    *)
(* catch-up fires deletes it; if this run fails, a refresh period passes   *)
(* before there is another catch-up.  That can happen once for each        *)
(* match.)                                                                 *)
Grace == (RefreshEvery + CatchUp) * Cardinality(Fixtures)

InPlay(f) ==
    /\ Scheduled(stored[f])
    /\ stored[f].kickoff - BeforeKickoff + Grace < clock
    /\ clock < stored[f].kickoff + AfterKickoff
    /\ changedAt + Grace < clock
    /\ brokenUntil[stored[f].event] + Grace < clock

MatchesArePolled ==
    \A f \in Fixtures : InPlay(f) => clock - polledAt[stored[f].event] <= Grace

(* docs/collector.md: "Each live window keeps a stable retained Scheduler  *)
(* identity while active, so reference reconciliation cannot restart an    *)
(* already-fired polling chain."                                           *)
OneChainPerGameweek ==
    \A e \in Events : Cardinality({c \in Alive(clock) : c.event = e}) <= 1
=============================================================================
