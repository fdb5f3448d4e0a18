----------------------------- MODULE AdminConsole -----------------------------
(***************************************************************************)
(* The terminal console: the application's event loop (app.py), its pool   *)
(* of blocking threads, and the Make process it manages                    *)
(* (process_runner.py).  Steps of the loop are atomic between two awaits;  *)
(* threads, the process and its monitor run beside them.  A command runs   *)
(* once: two uses of one target are two tasks.                             *)
(***************************************************************************)
EXTENDS Naturals, Sequences

CONSTANTS
    Commands,        \* the targets the operator chooses from
    MaxTasks,        \* bound: commands of a session
    MaxStops,        \* bound: presses of the Stop button
    MaxLogFailures   \* bound: failing writes of the event log

-----------------------------------------------------------------------------
(* The catalogue, without "help", which only turns to a page.              *)

LocalTargets ==
    {"doctor", "install", "setup", "local-dev", "local-up", "local-client", "local-logs",
     "local-ps", "local-down", "local-db-status", "local-db-migrate"}

AwsTargets ==
    {"aws-doctor", "aws-status", "aws-app-revision", "aws-db-status", "aws-db-migrate",
     "aws-queues-status", "aws-queues-drain", "aws-dlqs-status", "aws-dlq-peek",
     "aws-send-reference", "aws-send-live", "aws-send-community", "aws-schedules-status",
     "aws-schedules-bootstrap-pause", "aws-schedules-bootstrap-restore",
     "aws-maintenance-status", "aws-schedules-pause", "aws-schedules-restore",
     "aws-rebaseline-current"}

NasTargets ==
    {"nas-doctor", "nas-status", "nas-start", "nas-stop", "nas-logs", "nas-update", "nas-rollback"}

ProductionTargets ==
    {"prod-doctor", "prod-status", "prod-maintenance-begin", "prod-maintenance-end",
     "prod-rebaseline-current"}

QualityTargets == {"lint", "test", "check", "infra", "images", "ci"}

MakeTargets == LocalTargets \cup QualityTargets

AdminTargets == AwsTargets \cup NasTargets \cup ProductionTargets

(* The administration commands that only read.                             *)
Reads ==
    {"aws-doctor", "aws-status", "aws-app-revision", "aws-db-status", "aws-queues-status",
     "aws-queues-drain", "aws-dlqs-status", "aws-dlq-peek", "aws-schedules-status",
     "aws-maintenance-status", "nas-doctor", "nas-status", "nas-logs",
     "prod-doctor", "prod-status"}

ProductionChanges == AdminTargets \ Reads

(* Commands that ask for a reason, a revision, a queue or a file first.    *)
WithForm ==
    {"aws-schedules-bootstrap-pause", "aws-schedules-bootstrap-restore", "aws-schedules-pause",
     "aws-rebaseline-current", "aws-dlq-peek", "nas-update", "nas-rollback",
     "prod-maintenance-begin", "prod-rebaseline-current"}

(* Commands that are given the callback for progress.                      *)
Reporting == {"aws-queues-drain", "aws-rebaseline-current", "prod-maintenance-begin",
              "prod-maintenance-end", "prod-rebaseline-current"}

(* Commands after whose failure the maintenance state is read.             *)
Recovering == {"aws-rebaseline-current", "aws-schedules-pause", "aws-schedules-restore",
               "prod-maintenance-begin", "prod-maintenance-end", "prod-rebaseline-current"}

(* Commands whose result is shown in a screen of its own.                  *)
Shown == {"aws-dlq-peek", "nas-logs"}

ASSUME ConsoleAssumption ==
    /\ Commands \subseteq MakeTargets \cup AdminTargets
    /\ {MaxTasks, MaxStops, MaxLogFailures} \subseteq Nat

Tasks == 1..MaxTasks
Stops == (MaxTasks + 1)..(MaxTasks + MaxStops)
None == 0

VARIABLES
    task,           \* how far a task is
    target,         \* the target it runs
    reservation,    \* _exclusive_reservation
    adminTarget,    \* _active_admin_target
    activeProcess,  \* _active_process
    force,          \* _force_termination_available
    stopShown,      \* whether the Stop button is displayed
    runner,         \* MakeProcessRunner: _starting and _active
    process,        \* ManagedMakeProcess, by task
    signals,        \* the signals a process was sent
    stops,          \* the workers that presses of Stop start
    timers,         \* running five-second timers
    screens,        \* the stack of modal screens, by owner
    console,
    logFailures

exclusion == <<reservation, adminTarget, activeProcess>>
stopping == <<signals, stops, timers>>
vars == <<task, target, exclusion, force, stopShown, runner, process, stopping, screens, console,
          logFailures>>

-----------------------------------------------------------------------------
(* The event log may refuse an event: a full disk, or an event that is     *)
(* larger than a file may be.  Where a step goes on the same way whether   *)
(* or not its event was written, or as it does on another failure, the     *)
(* write is left out.                                                      *)

Write(ok) ==
    /\ ok \/ logFailures < MaxLogFailures
    /\ logFailures' = IF ok THEN logFailures ELSE logFailures + 1

Exclusive(t) == target[t] \notin Reads

\* Mutant: a command that waits for its form does not count.
ActiveWithoutReservation == adminTarget # None \/ activeProcess # None

ExclusiveActive == reservation # None \/ adminTarget # None \/ activeProcess # None

Alive(p) == p # None /\ process[p] = "alive"

Loop == console = "open"

Unreserve(t) == reservation' = IF reservation = t THEN None ELSE reservation

Goes(t, pc) == task' = [task EXCEPT ![t] = pc] /\ UNCHANGED target

-----------------------------------------------------------------------------
(* A command from its button to its form.                                  *)

(* The next command; a task is "new" until it is chosen.                   *)
Request(t) ==
    /\ Loop /\ screens = <<>>
    /\ task[t] = "new" /\ \A u \in Tasks : u < t => task[u] # "new"
    /\ task' = [task EXCEPT ![t] = "requested"]
    /\ \E c \in Commands : target' = [target EXCEPT ![t] = c]
    /\ UNCHANGED <<exclusion, force, stopShown, runner, process, stopping, screens, console,
                   logFailures>>

(* A make target is handed to a thread.  An administration command is      *)
(* marked active and logged before the block that would unmark it: when    *)
(* the log refuses, only the reservation is given back.                    *)
Run(t) ==
    /\ UNCHANGED <<activeProcess, force, runner, process, stopping, console>>
    /\ \/ /\ target[t] \in MakeTargets
          /\ Goes(t, "launching") /\ stopShown' = FALSE
          /\ reservation' = t
          /\ UNCHANGED <<adminTarget, logFailures>>
       \/ /\ target[t] \notin MakeTargets
          /\ adminTarget' = IF Exclusive(t) THEN t ELSE adminTarget
          /\ \/ /\ Write(TRUE)
                /\ Goes(t, "operating") /\ stopShown' = FALSE
                /\ reservation' = IF Exclusive(t) THEN t ELSE reservation
             \/ /\ Write(FALSE)
                /\ Goes(t, "over") /\ Unreserve(t)
                /\ UNCHANGED stopShown

(* A missing prerequisite, or another command that is active, refuses it.  *)
Refuse(t) ==
    /\ Goes(t, "over")
    /\ UNCHANGED <<exclusion, force, stopShown, runner, process, stopping, screens, console,
                   logFailures>>

OpenForm(t) ==
    /\ target[t] \in WithForm
    /\ reservation' = IF Exclusive(t) THEN t ELSE reservation
    /\ screens' = <<t>> \o screens /\ Goes(t, "form")
    /\ UNCHANGED <<adminTarget, activeProcess, force, stopShown, runner, process, stopping,
                   console, logFailures>>

Dispatch(t) ==
    /\ Loop /\ task[t] = "requested"
    /\ \/ Refuse(t)
       \/ /\ ~(Exclusive(t) /\ ExclusiveActive)
          /\ OpenForm(t) \/ (target[t] \notin WithForm /\ Run(t) /\ UNCHANGED screens)

\* Mutant: a cancelled form keeps its reservation.
CancelReserved(t) ==
    /\ Goes(t, "over")
    /\ UNCHANGED <<exclusion, force, stopShown, runner, process, stopping, console, logFailures>>

(* Cancelled, or values that the parameter model rejects.                  *)
Cancel(t) ==
    /\ Goes(t, "over") /\ Unreserve(t)
    /\ UNCHANGED <<adminTarget, activeProcess, force, stopShown, runner, process, stopping, console,
                   logFailures>>

AnswerForm(t) ==
    /\ Loop /\ task[t] = "form" /\ screens # <<>> /\ Head(screens) = t
    /\ screens' = Tail(screens)
    /\ Cancel(t) \/ Run(t)

-----------------------------------------------------------------------------
(* A make target: the thread that starts it, the process, its monitor.     *)

Launch(t) ==
    /\ task[t] = "launching"
    /\ \/ /\ runner.starting \/ runner.active # None
          /\ Goes(t, "failed") /\ UNCHANGED runner
       \/ /\ ~runner.starting /\ runner.active = None
          /\ Goes(t, "starting") /\ runner' = [runner EXCEPT !.starting = TRUE]
    /\ UNCHANGED <<exclusion, force, stopShown, process, stopping, screens, console, logFailures>>

(* The start is logged before the process is made.                         *)
Spawn(t) ==
    /\ task[t] = "starting"
    /\ \/ /\ Write(TRUE)
          /\ Goes(t, "started")
          /\ runner' = [starting |-> FALSE, active |-> t]
          /\ process' = [process EXCEPT ![t] = "alive"]
          /\ UNCHANGED logFailures
       \/ /\ Goes(t, "failed")
          /\ runner' = [runner EXCEPT !.starting = FALSE]
          /\ UNCHANGED <<process, logFailures>>
    /\ UNCHANGED <<exclusion, force, stopShown, stopping, screens, console>>

Adopt(t) ==
    /\ Loop /\ task[t] = "started"
    /\ Goes(t, "watching")
    /\ activeProcess' = t /\ stopShown' = TRUE
    /\ UNCHANGED <<reservation, adminTarget, force, runner, process, stopping, screens, console,
                   logFailures>>

Exit(t) ==
    /\ process[t] = "alive"
    /\ process' = [process EXCEPT ![t] = "exited"]
    /\ UNCHANGED <<task, target, exclusion, force, stopShown, runner, stopping, screens, console,
                   logFailures>>

(* The monitor makes the result, which takes the signals, logs it, frees   *)
(* the runner and then lets wait return.                                   *)
Release(t) ==
    /\ process[t] = "exited"
    /\ process' = [process EXCEPT ![t] = "released"]
    /\ signals' = [signals EXCEPT ![t] = {}]
    /\ runner' = IF runner.active = t THEN [runner EXCEPT !.active = None] ELSE runner
    /\ UNCHANGED <<task, target, exclusion, force, stopShown, stops, timers, screens, console,
                   logFailures>>

Complete(t) ==
    /\ process[t] = "released"
    /\ process' = [process EXCEPT ![t] = "completed"]
    /\ UNCHANGED <<task, target, exclusion, force, stopShown, runner, stopping, screens, console,
                   logFailures>>

\* Mutant: the console lets go of a process that has exited, before its
\* monitor is done.
EndedEarly(t) ==
    \/ task[t] = "failed"
    \/ task[t] = "watching" /\ process[t] \in {"exited", "released", "completed"}

Ended(t) == task[t] = "failed" \/ (task[t] = "watching" /\ process[t] = "completed")

MakeEnds(t) ==
    /\ Loop /\ target[t] \in MakeTargets /\ Ended(t)
    /\ Goes(t, "over")
    /\ activeProcess' = None /\ force' = FALSE /\ stopShown' = FALSE /\ Unreserve(t)
    /\ UNCHANGED <<adminTarget, runner, process, stopping, screens, console, logFailures>>

-----------------------------------------------------------------------------
(* An administration command: a thread runs it; reports of its progress    *)
(* are drawn by the loop while the thread waits.                           *)

Operate(t) ==
    /\ task[t] \in {"operating", "reported"}
    /\ \E pc \in {"succeeded", "failed"} : Goes(t, pc)
    /\ UNCHANGED <<exclusion, force, stopShown, runner, process, stopping, screens, console,
                   logFailures>>

Report(t) ==
    /\ task[t] = "operating" /\ target[t] \in Reporting
    /\ Goes(t, "reporting")
    /\ UNCHANGED <<exclusion, force, stopShown, runner, process, stopping, screens, console,
                   logFailures>>

Draw(t) ==
    /\ Loop /\ task[t] = "reporting"
    /\ Goes(t, "reported")
    /\ UNCHANGED <<exclusion, force, stopShown, runner, process, stopping, screens, console,
                   logFailures>>

CommandEnds(t) ==
    /\ Goes(t, "over")
    /\ adminTarget' = IF Exclusive(t) THEN None ELSE adminTarget
    /\ stopShown' = FALSE /\ Unreserve(t)

(* The result is logged and shown, some in a screen of its own; a change   *)
(* then reads the state once.  A result the log refuses is a failure.      *)
Succeeded(t) ==
    /\ task[t] = "succeeded"
    /\ \/ /\ target[t] \in ProductionChanges /\ Goes(t, "rereading")
          /\ UNCHANGED <<reservation, adminTarget, stopShown, screens>>
       \/ /\ target[t] \in Shown /\ Goes(t, "showing")
          /\ screens' = <<t>> \o screens
          /\ UNCHANGED <<reservation, adminTarget, stopShown>>
       \/ /\ target[t] \in Reads \ Shown /\ CommandEnds(t) /\ UNCHANGED screens

(* The failure is logged; a maintenance workflow then reads how far it is. *)
Failed(t) ==
    /\ task[t] = "failed" /\ target[t] \notin MakeTargets
    /\ UNCHANGED screens
    /\ \/ CommandEnds(t)
       \/ /\ target[t] \in Recovering /\ Goes(t, "recovering")
          /\ UNCHANGED <<reservation, adminTarget, stopShown>>

(* The refresh may fail before the block that handles its failure.         *)
Reread(t) ==
    /\ UNCHANGED screens
    /\ \/ /\ task[t] \in {"rereading", "recovering"}
          /\ CommandEnds(t)
       \/ /\ task[t] = "rereading" /\ Goes(t, "failed")
          /\ UNCHANGED <<reservation, adminTarget, stopShown>>

CloseResult(t) ==
    /\ task[t] = "showing" /\ Head(screens) = t
    /\ screens' = Tail(screens)
    /\ CommandEnds(t)

Conclude(t) ==
    /\ Loop
    /\ Succeeded(t) \/ Failed(t) \/ Reread(t) \/ CloseResult(t)
    /\ UNCHANGED <<activeProcess, force, runner, process, stopping, console, logFailures>>

-----------------------------------------------------------------------------
(* Stop.  Every press starts a worker, which takes the process once.       *)

StopOver == [pc |-> "over", of |-> None]

StopAt(w, pc) == stops[w].pc = pc

PressStop(w) ==
    /\ Loop /\ screens = <<>> /\ stopShown
    /\ StopAt(w, "idle") /\ \A v \in Stops : v < w => ~StopAt(v, "idle")
    /\ \/ /\ ~Alive(activeProcess)
          /\ stops' = [stops EXCEPT ![w] = StopOver] /\ UNCHANGED screens
       \/ /\ Alive(activeProcess) /\ ~force
          /\ stops' = [stops EXCEPT ![w] = [pc |-> "interrupting", of |-> activeProcess]]
          /\ UNCHANGED screens
       \/ /\ Alive(activeProcess) /\ force
          /\ stops' = [stops EXCEPT ![w] = [pc |-> "asking", of |-> activeProcess]]
          /\ screens' = <<w>>
    /\ UNCHANGED <<task, target, exclusion, force, stopShown, runner, process, signals, timers,
                   console, logFailures>>

(* The signal is sent before it is logged.                                 *)
Signalled(w, p, signal, next) ==
    /\ \/ /\ ~Alive(p)
          /\ stops' = [stops EXCEPT ![w] = StopOver]
          /\ UNCHANGED <<signals, logFailures>>
       \/ /\ Alive(p)
          /\ signals' = [signals EXCEPT ![p] = @ \cup {signal}]
          /\ \E ok \in BOOLEAN :
               /\ Write(ok)
               /\ stops' = [stops EXCEPT ![w] = IF ok THEN next ELSE StopOver]
    /\ UNCHANGED <<task, target, exclusion, force, stopShown, runner, process, timers, screens,
                   console>>

Interrupt(w) ==
    /\ StopAt(w, "interrupting")
    /\ Signalled(w, stops[w].of, "SIGINT", [pc |-> "interrupted", of |-> stops[w].of])

\* Mutant: no timer is set.
WaitUntimed(w) ==
    /\ Loop /\ StopAt(w, "interrupted")
    /\ stops' = [stops EXCEPT ![w] = StopOver]
    /\ stopShown' = TRUE
    /\ UNCHANGED <<task, target, exclusion, force, runner, process, signals, timers, screens,
                   console, logFailures>>

Wait(w) ==
    /\ Loop /\ StopAt(w, "interrupted")
    /\ stops' = [stops EXCEPT ![w] = StopOver]
    /\ stopShown' = TRUE /\ timers' = timers + 1
    /\ UNCHANGED <<task, target, exclusion, force, runner, process, signals, screens, console,
                   logFailures>>

(* A timer does not know the process it was set for.                       *)
OfferForce ==
    /\ Loop /\ timers > 0
    /\ timers' = timers - 1
    /\ force' = (force \/ Alive(activeProcess))
    /\ UNCHANGED <<task, target, exclusion, stopShown, runner, process, signals, stops, screens,
                   console, logFailures>>

Confirm(w) ==
    /\ Loop /\ StopAt(w, "asking") /\ Head(screens) = w
    /\ screens' = Tail(screens)
    /\ \/ stops' = [stops EXCEPT ![w] = StopOver]
       \/ stops' = [stops EXCEPT ![w].pc = "terminating"]
    /\ UNCHANGED <<task, target, exclusion, force, stopShown, runner, process, signals, timers, console,
                   logFailures>>

\* Mutant: the process is looked up again after the dialog.
TerminateActive(w) ==
    /\ StopAt(w, "terminating")
    /\ Signalled(w, activeProcess, "SIGTERM", StopOver)

Terminate(w) ==
    /\ StopAt(w, "terminating")
    /\ Signalled(w, stops[w].of, "SIGTERM", StopOver)

-----------------------------------------------------------------------------
(* Leaving: the loop ends, and waits for the pool's threads.               *)

\* Mutant: only what runs forbids it.
QuitUnreserved ==
    /\ Loop /\ activeProcess = None /\ adminTarget = None
    /\ console' = "closing"
    /\ UNCHANGED <<task, target, exclusion, force, stopShown, runner, process, stopping, screens,
                   logFailures>>

Quit ==
    /\ Loop /\ ~ExclusiveActive
    /\ console' = "closing"
    /\ UNCHANGED <<task, target, exclusion, force, stopShown, runner, process, stopping, screens,
                   logFailures>>

InThread == \/ \E t \in Tasks : task[t] \in {"launching", "starting", "operating", "reporting",
                                             "reported", "rereading", "recovering"}
            \/ \E w \in Stops : stops[w].pc \in {"interrupting", "terminating"}

Unmount ==
    /\ console = "closing" /\ ~InThread
    /\ console' = "closed"
    /\ UNCHANGED <<task, target, exclusion, force, stopShown, runner, process, stopping, screens,
                   logFailures>>

-----------------------------------------------------------------------------
Init ==
    /\ task = [t \in Tasks |-> "new"] /\ target = [t \in Tasks |-> "help"]
    /\ reservation = None /\ adminTarget = None /\ activeProcess = None
    /\ force = FALSE /\ stopShown = FALSE
    /\ runner = [starting |-> FALSE, active |-> None]
    /\ process = [t \in Tasks |-> "none"]
    /\ signals = [t \in Tasks |-> {}]
    /\ stops = [w \in Stops |-> [pc |-> "idle", of |-> None]]
    /\ timers = 0 /\ screens = <<>>
    /\ console = "open" /\ logFailures = 0

(* What happens without the operator, except that a process ends.  Open    *)
(* screens are answered.                                                   *)
Progress ==
    \/ \E t \in Tasks :
         \/ Dispatch(t) \/ AnswerForm(t) \/ Launch(t) \/ Spawn(t) \/ Adopt(t)
         \/ Release(t) \/ Complete(t) \/ MakeEnds(t)
         \/ Operate(t) \/ Report(t) \/ Draw(t) \/ Conclude(t)
    \/ \E w \in Stops : Interrupt(w) \/ Wait(w) \/ Confirm(w) \/ Terminate(w)
    \/ OfferForce \/ Unmount

Next ==
    \/ Progress
    \/ \E t \in Tasks : Request(t) \/ Exit(t)
    \/ \E w \in Stops : PressStop(w)
    \/ Quit

Spec == Init /\ [][Next]_vars

(* Each task and press runs once, so the loop, the threads and the         *)
(* operator's answers need to be fair only as a whole.                     *)
FairSpec == Spec /\ WF_vars(Progress)
-----------------------------------------------------------------------------
(* Type invariant: owners of flags and screens are at the step that sets   *)
(* them, and only processes that were made are alive or signalled.         *)
TypeOK ==
    /\ {reservation, adminTarget, activeProcess, runner.active} \subseteq Tasks \cup {None}
    /\ activeProcess # None => task[activeProcess] = "watching"
    /\ \A t \in Tasks :
         /\ process[t] \in {"none", "alive", "exited", "released", "completed"}
         /\ task[t] \in {"started", "watching"} => process[t] # "none"
         /\ signals[t] # {} => signals[t] \subseteq {"SIGINT", "SIGTERM"} /\ process[t] # "none"
    /\ \A i \in 1..Len(screens) :
         screens[i] \in {t \in Tasks : task[t] \in {"form", "showing"}}
                       \cup {w \in Stops : stops[w].pc = "asking"}
    /\ logFailures \in 0..MaxLogFailures

InFlight(t) == task[t] \notin {"new", "requested", "over"}

(* Only one write or local task runs at a time, from its form to the last  *)
(* read after it, whatever was requested while a form was open or a start  *)
(* was under way.                                                          *)
OneOperation ==
    \A t, u \in Tasks :
        Exclusive(t) /\ Exclusive(u) /\ InFlight(t) /\ InFlight(u) => t = u

(* The runner's own check that no other process is active never refuses    *)
(* what the console allowed: its slot is free once the console's is.       *)
RunnerNeverRefuses ==
    \A t \in Tasks : task[t] = "launching" => ~runner.starting /\ runner.active = None

(* The console is left only when no process runs and no change is under    *)
(* way, started or about to be.                                            *)
QuietExit ==
    console # "open" => \A t \in Tasks : ~Alive(t) /\ ~(Exclusive(t) /\ InFlight(t))

(* SIGTERM reaches only the process whose name the operator confirmed,     *)
(* though that process may end and another start while the dialog is open. *)
TerminationIsConfirmed ==
    [][\A p \in Tasks : "SIGTERM" \in signals'[p] \ signals[p]
                          => \E w \in Stops : stops[w] = [pc |-> "terminating", of |-> p]]_vars

(* A process that survives SIGINT can be terminated: once the signal is    *)
(* sent and logged, force termination is on offer for it unless it ends.   *)
EscalationIsOffered ==
    (\E w \in Stops : StopAt(w, "interrupted") /\ Alive(stops[w].of))
        ~> (force \/ ~Alive(activeProcess))

(* The log refused the start of a change, which no longer runs.            *)
Abandoned == adminTarget # None /\ task[adminTarget] = "over"

(* The console is busy only as long as something runs: a cancelled form,   *)
(* a failed start, a failed refresh or a process that ended leaves it free *)
(* for the next command (except a change whose start the log refused).     *)
BusyForAReason ==
    ExclusiveActive ~> (~ExclusiveActive \/ Abandoned \/ \E p \in Tasks : Alive(p))

(* A console that was told to quit ends.                                   *)
QuitEnds == (console = "closing") ~> (console = "closed")
=============================================================================
