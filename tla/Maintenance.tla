------------------------------ MODULE Maintenance ------------------------------
(***************************************************************************)
(* Production maintenance: AdministrationService (administration.py) runs  *)
(* begin, end, restore, pause and rebaseline as sequences of calls to the  *)
(* database, the Scheduler, SQS and the NAS, while collection goes on.     *)
(* Every call is a step; the workstation may die between any two, and the  *)
(* command is then given again.                                            *)
(*                                                                         *)
(* A queue is the set of jobs it holds (CollectionPipeline counts          *)
(* messages).  The community schedule is treated like the reference one,   *)
(* its queue like the others, and both are left out.                       *)
(***************************************************************************)
EXTENDS Naturals, Functions

CONSTANTS
    Windows,         \* live windows; also the names of their schedules
    StartOf, EndOf,  \* when a window starts and ends
    CollectorRuns,   \* possible states of the collector at first
    Commands,        \* the commands the operator gives
    MaxFirings,      \* bound: firings of the hourly schedule
    MaxReplans,      \* bound: changes of the fixtures
    MaxRebaselines,  \* bound: rebaselines
    MaxCrashes,      \* bound: commands and invocations that are cut short
    MaxClock         \* bound on time

Reference == "reference"

Names == Windows \cup {Reference}

ASSUME WindowAssumption ==
    /\ Reference \notin Windows
    /\ StartOf \in [Windows -> Nat] /\ EndOf \in [Windows -> Nat]
    /\ \A w \in Windows : StartOf[w] < EndOf[w]

ASSUME CommandAssumption ==
    /\ CollectorRuns \subseteq BOOLEAN
    /\ Commands \subseteq {"begin", "pause", "rebaseline", "end", "restore"}

ASSUME BoundAssumption ==
    {MaxFirings, MaxReplans, MaxRebaselines, MaxCrashes, MaxClock} \subseteq Nat

VARIABLES
    clock,
    schedules,   \* name -> its definition in the Scheduler
    planned,     \* windows of the fixtures in the database
    fetch,       \* jobs in the fetch queue, in flight or not
    results,     \* jobs in the result queue, in flight or not
    collecting,  \* the NAS collector runs
    lambda,      \* the ingestion invocation
    record,      \* the open maintenance row
    operator,    \* the command under way
    originally,  \* whether begin opened the row and the collector ran then
    budget       \* what is left of the bounds

vars == <<clock, schedules, planned, fetch, results, collecting, lambda, record,
          operator, originally, budget>>

queues == <<fetch, results>>

Closed == [phase |-> "none"]

Open == record.phase # "none"

Stopped == [pc |-> "idle"]

(* The collector's state as nas.status reports it.                         *)
Status == IF collecting THEN "running" ELSE "stopped"

-----------------------------------------------------------------------------
(* The Scheduler, SQS and the collector.                                   *)

Recurring(state) == [state |-> state, at |-> 0, fired |-> FALSE]

OneTime(state, at) == [state |-> state, at |-> at, fired |-> FALSE]

(* update_schedule writes the whole definition; a trigger that has fired   *)
(* does not fire again at the same time.                                   *)
Rewritten(name, state, at) ==
    [state |-> state, at |-> at,
     fired |-> schedules[name].fired /\ schedules[name].at = at]

Due(w) ==
    /\ w \in DOMAIN schedules
    /\ schedules[w].state = "ENABLED" /\ schedules[w].at = clock /\ ~schedules[w].fired

FireWindow(w) ==
    /\ Due(w)
    /\ schedules' = [schedules EXCEPT ![w].fired = TRUE]
    /\ fetch' = fetch \cup {w}
    /\ UNCHANGED <<clock, planned, results, collecting, lambda, record, operator,
                   originally, budget>>

FireReference ==
    /\ schedules[Reference].state = "ENABLED" /\ budget.firings > 0
    /\ fetch' = fetch \cup {Reference}
    /\ budget' = [budget EXCEPT !.firings = @ - 1]
    /\ UNCHANGED <<clock, schedules, planned, results, collecting, lambda, record,
                   operator, originally>>

(* A set holds one result of a job: a second one is collected when it has  *)
(* been handled (a live job is delayed by minutes, the other is hourly).   *)
Collect(job) ==
    /\ collecting /\ job \in fetch /\ job \notin results
    /\ fetch' = fetch \ {job}
    /\ results' = results \cup {job}
    /\ UNCHANGED <<clock, schedules, planned, collecting, lambda, record, operator,
                   originally, budget>>

(* Mutant: messages in flight are not counted.                             *)
VisibleQueuesEmpty ==
    fetch = {} /\ results \subseteq {j \in results : lambda # Stopped /\ lambda.job = j}

(* The depth of a queue counts visible, delayed and in-flight messages.    *)
QueuesEmpty == fetch = {} /\ results = {}

-----------------------------------------------------------------------------
(* The ingestion Lambda.                                                   *)

LambdaOnly == <<clock, planned, collecting, record, operator, originally, budget>>

(* The bundle is persisted.                                                *)
Ingest(job) ==
    /\ lambda = Stopped /\ job \in results
    /\ lambda' = [pc |-> "flag", job |-> job, now |-> clock]
    /\ UNCHANGED <<schedules, queues, LambdaOnly>>

(* maintenance_active, after the commit.                                   *)
ReadFlag ==
    /\ lambda.pc = "flag"
    /\ lambda' = [lambda EXCEPT !.pc =
           IF Open THEN "return"
           ELSE IF lambda.job = Reference THEN "list"
           ELSE IF lambda.now < EndOf[lambda.job] THEN "requeue" ELSE "return"]
    /\ UNCHANGED <<schedules, queues, LambdaOnly>>

Requeue ==
    /\ lambda.pc = "requeue"
    /\ fetch' = fetch \cup {lambda.job}
    /\ lambda' = [lambda EXCEPT !.pc = "return"]
    /\ UNCHANGED <<schedules, results, LambdaOnly>>

(* reconcile_schedules: windows that are over are planned no more.         *)
List ==
    /\ lambda.pc = "list"
    /\ LET existing == DOMAIN schedules \cap Windows
           desired == {w \in planned : EndOf[w] > lambda.now}
       IN  lambda' = [pc |-> "reconcile", job |-> lambda.job, now |-> lambda.now,
                      existing |-> existing, obsolete |-> existing \ desired,
                      desired |-> desired]
    /\ UNCHANGED <<schedules, queues, LambdaOnly>>

DeleteObsolete(w) ==
    /\ lambda.pc = "reconcile" /\ w \in lambda.obsolete
    /\ schedules' = Restrict(schedules, DOMAIN schedules \ {w})
    /\ lambda' = [lambda EXCEPT !.obsolete = @ \ {w}]
    /\ UNCHANGED <<queues, LambdaOnly>>

ScheduleAt(w, now) == IF StartOf[w] > now THEN StartOf[w] ELSE now + 1

(* The complete definitions are compared, the state included.              *)
Ensure(w) ==
    /\ lambda.pc = "reconcile" /\ lambda.obsolete = {} /\ w \in lambda.desired
    /\ LET at == ScheduleAt(w, lambda.now)
       IN  schedules' =
               IF w \notin lambda.existing
               THEN [n \in DOMAIN schedules \cup {w} |->
                        IF n = w THEN OneTime("ENABLED", at) ELSE schedules[n]]
               ELSE IF StartOf[w] <= lambda.now THEN schedules
               ELSE [schedules EXCEPT ![w] = Rewritten(w, "ENABLED", at)]
    /\ lambda' = [lambda EXCEPT !.desired = @ \ {w}]
    /\ UNCHANGED <<queues, LambdaOnly>>

Return ==
    /\ \/ lambda.pc = "return"
       \/ lambda.pc = "reconcile" /\ lambda.obsolete = {} /\ lambda.desired = {}
    /\ results' = results \ {lambda.job}
    /\ lambda' = Stopped
    /\ UNCHANGED <<schedules, fetch, LambdaOnly>>

(* The message is delivered again.                                         *)
InvocationFails ==
    /\ lambda # Stopped /\ budget.crashes > 0
    /\ budget' = [budget EXCEPT !.crashes = @ - 1]
    /\ lambda' = Stopped
    /\ UNCHANGED <<clock, schedules, planned, queues, collecting, record, operator,
                   originally>>

-----------------------------------------------------------------------------
(* Commands that pause collection.                                         *)

OperatorOnly == <<clock, planned, results, lambda>>

Given(command) == command \in Commands /\ operator = Stopped

(* begin reads the collector's state, pause does not; both look for the    *)
(* open row, and continue one that is entering.                            *)
Pause(command) ==
    /\ command \in {"begin", "pause"} /\ Given(command)
    /\ record.phase \in {"none", "entering"}
    /\ operator' = [pc |-> IF Open THEN "disable" ELSE "snapshot", command |-> command,
                    ran |-> IF command = "begin" THEN Status ELSE "unknown",
                    names |-> IF Open THEN DOMAIN record.schedules ELSE {}]
    /\ UNCHANGED <<schedules, fetch, collecting, record, originally, budget, OperatorOnly>>

Snapshot ==
    /\ operator.pc = "snapshot"
    /\ operator' = [pc |-> "open", command |-> operator.command, ran |-> operator.ran,
                    names |-> DOMAIN schedules, schedules |-> schedules]
    /\ UNCHANGED <<schedules, fetch, collecting, record, originally, budget, OperatorOnly>>

OpenRecord ==
    /\ operator.pc = "open"
    /\ record' = [phase |-> "entering", schedules |-> operator.schedules,
                  ran |-> operator.ran]
    /\ originally' = (collecting /\ operator.command = "begin")
    /\ operator' = [pc |-> "disable", command |-> operator.command,
                    ran |-> operator.ran, names |-> operator.names]
    /\ UNCHANGED <<schedules, fetch, collecting, budget, OperatorOnly>>

(* update_schedule with the recorded definition; it raises if the schedule *)
(* is gone.                                                                *)
Disable(name) ==
    /\ operator.pc = "disable" /\ name \in operator.names
    /\ IF name \in DOMAIN schedules
       THEN /\ schedules' = [schedules EXCEPT ![name] =
                   Rewritten(name, "DISABLED", record.schedules[name].at)]
            /\ operator' = [operator EXCEPT !.names = @ \ {name}]
       ELSE operator' = Stopped /\ UNCHANGED schedules
    /\ UNCHANGED <<fetch, collecting, record, originally, budget, OperatorOnly>>

Disabled ==
    /\ operator.pc = "disable" /\ operator.names = {}
    /\ operator' = IF operator.command = "pause" THEN Stopped
                   ELSE [operator EXCEPT !.pc = "drain"]
    /\ UNCHANGED <<schedules, fetch, collecting, record, originally, budget, OperatorOnly>>

(* The steps that drain the queues, and the calls that follow.             *)
CallAfter(drain) ==
    CASE drain = "drain" -> "stop"
      [] drain = "drain again" -> "check"
      [] drain = "drain reference" -> "send live"
      [] drain = "drain live" -> "stop again"
      [] drain = "quiesce" -> "rebuild"

Drains == {"drain", "drain again", "drain reference", "drain live", "quiesce"}

(* drain_queues waits for depths of zero.  The next call looks at nothing: *)
(* a schedule may fire in between.                                         *)
Drain ==
    /\ operator.pc \in Drains /\ QueuesEmpty
    /\ operator' = [operator EXCEPT !.pc = CallAfter(@)]
    /\ UNCHANGED <<schedules, fetch, collecting, record, originally, budget, OperatorOnly>>

(* The collector stops if it was seen running.                             *)
StopCollector ==
    /\ operator.pc = "stop"
    /\ collecting' = (collecting /\ operator.ran # "running")
    /\ operator' = [operator EXCEPT !.pc = "drain again"]
    /\ UNCHANGED <<schedules, fetch, record, originally, budget, OperatorOnly>>

(* activate_maintenance reads the depths once more.                        *)
Check ==
    /\ operator.pc = "check"
    /\ operator' = IF QueuesEmpty THEN [operator EXCEPT !.pc = "activate"] ELSE Stopped
    /\ UNCHANGED <<schedules, fetch, collecting, record, originally, budget, OperatorOnly>>

(* Mutant: the last begin decides.                                         *)
ActivateWithLastSeen ==
    /\ operator.pc = "activate"
    /\ record' = [record EXCEPT !.phase = "active", !.ran = operator.ran]
    /\ operator' = Stopped
    /\ UNCHANGED <<schedules, fetch, collecting, originally, budget, OperatorOnly>>

(* The recorded state of the collector wins.                               *)
Activate ==
    /\ operator.pc = "activate"
    /\ record' = [record EXCEPT !.phase = "active",
                                !.ran = IF @ = "unknown" THEN operator.ran ELSE @]
    /\ operator' = Stopped
    /\ UNCHANGED <<schedules, fetch, collecting, originally, budget, OperatorOnly>>

-----------------------------------------------------------------------------
(* Commands that resume it.                                                *)

(* Mutant: end does not continue an exit.                                  *)
EndActive ==
    /\ Given("end")
    /\ record.phase = "active" /\ QueuesEmpty
    /\ operator' = [pc |-> "exit", command |-> "end"]
    /\ UNCHANGED <<schedules, fetch, collecting, record, originally, budget, OperatorOnly>>

End ==
    /\ Given("end")
    /\ record.phase \in {"active", "exiting"} /\ QueuesEmpty
    /\ operator' = [pc |-> "exit", command |-> "end"]
    /\ UNCHANGED <<schedules, fetch, collecting, record, originally, budget, OperatorOnly>>

(* restore_schedules leaves the collector alone.                           *)
Restore ==
    /\ Given("restore") /\ Open /\ QueuesEmpty
    /\ operator' = [pc |-> "exit", command |-> "restore"]
    /\ UNCHANGED <<schedules, fetch, collecting, record, originally, budget, OperatorOnly>>

Restoring(command) ==
    [pc |-> "restore", command |-> command, now |-> clock,
     names |-> DOMAIN record.schedules]

(* A row without a recorded collector state stops end here.                *)
BeginExit ==
    /\ operator.pc = "exit"
    /\ record' = [record EXCEPT !.phase = "exiting"]
    /\ operator' = IF operator.command = "restore" THEN Restoring("restore")
                   ELSE IF record.ran = "unknown" THEN Stopped
                   ELSE [operator EXCEPT !.pc = "start"]
    /\ UNCHANGED <<schedules, fetch, collecting, originally, budget, OperatorOnly>>

StartCollector ==
    /\ operator.pc = "start"
    /\ collecting' = (collecting \/ record.ran = "running")
    /\ operator' = Restoring("end")
    /\ UNCHANGED <<schedules, fetch, record, originally, budget, OperatorOnly>>

(* Mutant: a trigger that has passed is not given another chance.          *)
RestoredWithoutCatchUp(name) ==
    LET was == record.schedules[name]
    IN  IF name = Reference \/ was.at > operator.now
        THEN Rewritten(name, was.state, was.at)
        ELSE Rewritten(name, "DISABLED", was.at)

(* restored_schedule.                                                      *)
Restored(name) ==
    LET was == record.schedules[name]
    IN  IF name = Reference \/ was.state = "DISABLED" \/ was.at > operator.now
        THEN Rewritten(name, was.state, was.at)
        ELSE IF EndOf[name] <= operator.now
        THEN Rewritten(name, "DISABLED", was.at)
        ELSE Rewritten(name, "ENABLED", operator.now + 1)

RestoreOne(name) ==
    /\ operator.pc = "restore" /\ name \in operator.names
    /\ IF name \in DOMAIN schedules
       THEN /\ schedules' = [schedules EXCEPT ![name] = Restored(name)]
            /\ operator' = [operator EXCEPT !.names = @ \ {name}]
       ELSE operator' = Stopped /\ UNCHANGED schedules
    /\ UNCHANGED <<fetch, collecting, record, originally, budget, OperatorOnly>>

Close ==
    /\ operator.pc = "restore" /\ operator.names = {}
    /\ record' = Closed
    /\ operator' = IF /\ operator.command = "end" /\ record.ran = "running"
                      /\ record.schedules[Reference].state = "ENABLED"
                   THEN [pc |-> "catch up", command |-> "end"] ELSE Stopped
    /\ UNCHANGED <<schedules, fetch, collecting, originally, budget, OperatorOnly>>

SendReference ==
    /\ operator.pc = "catch up"
    /\ fetch' = fetch \cup {Reference}
    /\ operator' = Stopped
    /\ UNCHANGED <<schedules, collecting, record, originally, budget, OperatorOnly>>

-----------------------------------------------------------------------------
(* Rebaseline, with or without a refresh.                                  *)

Rebaseline(refresh) ==
    /\ Given("rebaseline") /\ record.phase = "active" /\ budget.rebaselines > 0
    /\ collecting' = (collecting \/ refresh)
    /\ operator' = [pc |-> IF refresh THEN "send reference" ELSE "quiesce",
                    command |-> "rebaseline"]
    /\ budget' = [budget EXCEPT !.rebaselines = @ - 1]
    /\ UNCHANGED <<schedules, fetch, record, originally, OperatorOnly>>

RefreshReference ==
    /\ operator.pc = "send reference"
    /\ fetch' = fetch \cup {Reference}
    /\ operator' = [operator EXCEPT !.pc = "drain reference"]
    /\ UNCHANGED <<schedules, collecting, record, originally, budget, OperatorOnly>>

RefreshLive(w) ==
    /\ operator.pc = "send live"
    /\ fetch' = fetch \cup {w}
    /\ operator' = [operator EXCEPT !.pc = "drain live"]
    /\ UNCHANGED <<schedules, collecting, record, originally, budget, OperatorOnly>>

StopAfterRefresh ==
    /\ operator.pc = "stop again"
    /\ collecting' = FALSE
    /\ operator' = [operator EXCEPT !.pc = "quiesce"]
    /\ UNCHANGED <<schedules, fetch, record, originally, budget, OperatorOnly>>

(* finally: a drain that times out, or a send that fails.                  *)
RefreshFails ==
    /\ operator.pc \in {"send reference", "drain reference", "send live", "drain live"}
    /\ budget.crashes > 0
    /\ budget' = [budget EXCEPT !.crashes = @ - 1]
    /\ collecting' = FALSE
    /\ operator' = Stopped
    /\ UNCHANGED <<schedules, fetch, record, originally, OperatorOnly>>

Rebuild ==
    /\ operator.pc = "rebuild"
    /\ operator' = Stopped
    /\ UNCHANGED <<schedules, fetch, collecting, record, originally, budget, OperatorOnly>>

(* The workstation dies, or a call fails.                                  *)
Crash ==
    /\ operator # Stopped /\ budget.crashes > 0
    /\ budget' = [budget EXCEPT !.crashes = @ - 1]
    /\ operator' = Stopped
    /\ UNCHANGED <<schedules, fetch, collecting, record, originally, OperatorOnly>>

-----------------------------------------------------------------------------
(* A refreshed fixture list has other windows.                             *)
Replan(windows) ==
    /\ budget.replans > 0 /\ windows # planned
    /\ planned' = windows
    /\ budget' = [budget EXCEPT !.replans = @ - 1]
    /\ UNCHANGED <<clock, schedules, queues, collecting, lambda, record, operator,
                   originally>>

Tick ==
    /\ clock < MaxClock
    /\ \A w \in Windows : ~Due(w)
    /\ clock' = clock + 1
    /\ UNCHANGED <<schedules, planned, queues, collecting, lambda, record, operator,
                   originally, budget>>

Init ==
    /\ clock = 0
    /\ planned = Windows
    /\ schedules = [n \in Names |-> IF n = Reference THEN Recurring("ENABLED")
                                    ELSE OneTime("ENABLED", ScheduleAt(n, 0))]
    /\ fetch = {} /\ results = {}
    /\ collecting \in CollectorRuns /\ originally = collecting
    /\ lambda = Stopped /\ operator = Stopped
    /\ record = Closed
    /\ budget = [firings |-> MaxFirings, replans |-> MaxReplans,
                 rebaselines |-> MaxRebaselines, crashes |-> MaxCrashes]

LambdaStep ==
    \/ \E job \in Names : Ingest(job)
    \/ ReadFlag \/ Requeue \/ List \/ Return
    \/ \E w \in Windows : DeleteObsolete(w) \/ Ensure(w)

(* The next call of the command under way.                                 *)
Proceed ==
    \/ Snapshot \/ OpenRecord \/ Disabled \/ Drain \/ StopCollector \/ Check \/ Activate
    \/ BeginExit \/ StartCollector \/ Close \/ SendReference
    \/ RefreshReference \/ StopAfterRefresh \/ Rebuild
    \/ \E name \in Names : Disable(name) \/ RestoreOne(name)
    \/ \E w \in Windows : RefreshLive(w)

Next ==
    \/ Proceed \/ End \/ Restore
    \/ \E command \in Commands : Pause(command)
    \/ \E refresh \in BOOLEAN : Rebaseline(refresh)
    \/ LambdaStep
    \/ \E job \in Names : Collect(job)
    \/ \E w \in Windows : FireWindow(w)
    \/ FireReference
    \/ RefreshFails \/ Crash \/ InvocationFails
    \/ \E windows \in SUBSET Windows : Replan(windows)
    \/ Tick

Spec == Init /\ [][Next]_vars

(* The operator carries on and gives the command again that completes the  *)
(* open window; the collector and the Lambda work.                         *)
Fairness ==
    /\ WF_vars(Proceed)
    /\ WF_vars(Pause("begin") /\ Open)
    /\ WF_vars(End)
    /\ WF_vars(LambdaStep)
    /\ \A job \in Names : WF_vars(Collect(job))

FairSpec == Spec /\ Fairness

-----------------------------------------------------------------------------
(* Types of the schedules, the queues, the row and the command.            *)
TypeOK ==
    /\ clock \in 0..MaxClock
    /\ Reference \in DOMAIN schedules /\ DOMAIN schedules \subseteq Names
    /\ \A n \in DOMAIN schedules :
           /\ schedules[n].state \in {"ENABLED", "DISABLED"}
           /\ schedules[n].at \in 0..(MaxClock + 1) \cup {StartOf[w] : w \in Windows}
           /\ schedules[n].fired \in BOOLEAN
    /\ fetch \subseteq Names /\ results \subseteq Names
    /\ collecting \in BOOLEAN /\ originally \in BOOLEAN
    /\ record.phase \in {"none", "entering", "active", "exiting"}
    /\ Open => record.ran \in {"running", "stopped", "unknown"}
    /\ record.phase = "active" => record.ran # "unknown"
    /\ lambda # Stopped => lambda.job \in results
    /\ planned \subseteq Windows

(* From activation to the closing of the row, only the operator writes     *)
(* schedules: an invocation that reconciles after an earlier look at the   *)
(* flag is drained first, and later ones see the flag.                     *)
OperatorOwnsSchedules ==
    [][(record.phase \in {"active", "exiting"} /\ schedules' # schedules) =>
          \/ operator.pc = "restore"
          \/ \E w \in Windows : Due(w)
                /\ schedules' = [schedules EXCEPT ![w].fired = TRUE]]_vars

(* When the row is closed every schedule has the state it had before       *)
(* maintenance, however often begin and end were cut short and repeated;   *)
(* only the schedules of windows that are over may stay disabled.          *)
StatesComeBack ==
    [][(Open /\ record'.phase = "none") =>
          \A n \in DOMAIN record.schedules :
              LET was == record.schedules[n].state
              IN  IF n \in Windows /\ EndOf[n] <= clock
                  THEN was = "DISABLED" => schedules[n].state = "DISABLED"
                  ELSE schedules[n].state = was]_vars

(* docs/administration.md: "The collector is restored only if it was       *)
(* running originally" - and if begin opened the row, end restores it.     *)
(* (A row that pause opened has no state of the collector to go by.)       *)
CollectorRestored ==
    [][(Open /\ record'.phase = "none" /\ operator.command = "end" /\ originally) =>
          collecting]_vars

(* A command or an invocation was cut short before.                        *)
CutShort == budget.crashes < MaxCrashes

(* The change feed is rebuilt when no result is on its way, although a     *)
(* schedule that a late reconciliation enabled again may fire after the    *)
(* drain (drain_queues and the rebuild are separate calls): the collector  *)
(* is stopped.  Only a rebaseline whose refresh was cut short leaves it    *)
(* running for a later one without refresh, and then a result may come.    *)
RebaselineIsQuiet ==
    [][(operator.pc = "rebuild" /\ operator' = Stopped /\ budget' = budget) =>
          \/ results = {} /\ lambda = Stopped
          \/ collecting /\ CutShort]_vars

(* A reconciliation that looked at the flag before the row was opened may  *)
(* delete a recorded schedule: begin's and end's update_schedule then      *)
(* raises, however often they are given.                                   *)
Missing == Open /\ ~(DOMAIN record.schedules \subseteq DOMAIN schedules)

(* Such a reconciliation may also enable one again; if it fires when the   *)
(* collector has been stopped, the queues never drain and end refuses.     *)
Stranded == fetch # {} /\ ~collecting

(* Wherever begin and end are cut short, giving them again completes the   *)
(* window, unless a late reconciliation took away a recorded schedule or   *)
(* left a job behind that nobody collects.                                 *)
MaintenanceCompletes == Open ~> (~Open \/ Missing \/ Stranded)

(* docs/administration.md: "It then disables reference, community, and     *)
(* live schedules; ... and marks the window active."                       *)
SchedulesDisabled ==
    record.phase = "active" =>
        \A n \in DOMAIN schedules : schedules[n].state = "DISABLED"

=============================================================================
