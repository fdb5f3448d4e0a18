------------------------- MODULE AdminConsole_proofs -------------------------
(***************************************************************************)
(* Proofs about the terminal console: one write operation at a time, a     *)
(* process runner that never refuses what the console allowed, a quiet     *)
(* exit, and terminations that were confirmed.                             *)
(***************************************************************************)
EXTENDS AdminConsole, TLAPS

-----------------------------------------------------------------------------
(* Types of what the proofs look at.                                       *)

Steps == {"new", "requested", "form", "launching", "starting", "started", "watching",
          "operating", "reporting", "reported", "succeeded", "failed", "rereading",
          "recovering", "showing", "over"}

ConsoleTyped ==
    /\ task \in [Tasks -> Steps] /\ target \in [Tasks -> Commands \cup {"help"}]
    /\ process \in [Tasks -> {"none", "alive", "exited", "released", "completed"}]
    /\ signals \in [Tasks -> SUBSET {"SIGINT", "SIGTERM"}]
    /\ reservation \in Tasks \cup {None}
    /\ runner \in [starting : BOOLEAN, active : Tasks \cup {None}]

(* The reservation is the operation's from its form to its last read.      *)
Owned == \A t \in Tasks : Exclusive(t) /\ InFlight(t) => reservation = t

(* The steps of a Make target, and its process, which the console outlives *)
(* only once its monitor is done.                                          *)
MakeSound ==
    \A t \in Tasks :
        /\ task[t] \in {"launching", "starting", "started", "watching"} =>
               target[t] \in MakeTargets
        /\ process[t] \in {"alive", "exited", "released"} =>
               task[t] \in {"started", "watching"}

(* The runner is taken by a task that is starting its process, or by a     *)
(* process whose monitor is not done.                                      *)
RunnerSound ==
    /\ runner.starting => \E t \in Tasks : task[t] = "starting"
    /\ runner.active # None => process[runner.active] \in {"alive", "exited"}

QuietLoop == console # "open" => \A t \in Tasks : ~(Exclusive(t) /\ InFlight(t))

ConsoleSound == ConsoleTyped /\ Owned /\ MakeSound /\ RunnerSound /\ QuietLoop

LEMMA NoneIsNoTask == None \notin Tasks
BY ConsoleAssumption DEF None, Tasks

LEMMA MakeIsExclusive == MakeTargets \cap Reads = {}
BY DEF MakeTargets, LocalTargets, QualityTargets, Reads

LEMMA SoundMeansSafe == ConsoleSound => OneOperation /\ RunnerNeverRefuses /\ QuietExit
<1> SUFFICES ASSUME ConsoleSound
             PROVE  OneOperation /\ RunnerNeverRefuses /\ QuietExit
  OBVIOUS
<1>1. OneOperation
  BY DEF ConsoleSound, Owned, OneOperation
<1>2. ASSUME NEW t \in Tasks, task[t] \in {"launching", "starting", "started", "watching"}
      PROVE  Exclusive(t) /\ InFlight(t) /\ reservation = t
  <2>1. Exclusive(t)
    BY <1>2, MakeIsExclusive DEF ConsoleSound, MakeSound, Exclusive
  <2>2. InFlight(t)
    BY <1>2 DEF InFlight
  <2> QED
    BY <2>1, <2>2 DEF ConsoleSound, Owned
<1>3. RunnerNeverRefuses
  <2> SUFFICES ASSUME NEW t \in Tasks, task[t] = "launching"
               PROVE  ~runner.starting /\ runner.active = None
    BY DEF RunnerNeverRefuses
  <2>1. reservation = t
    BY <1>2
  <2>2. ~runner.starting
    BY <1>2, <2>1 DEF ConsoleSound, RunnerSound
  <2>3. ASSUME runner.active # None
        PROVE  FALSE
    <3>1. runner.active \in Tasks
      BY <2>3 DEF ConsoleSound, ConsoleTyped
    <3>2. task[runner.active] \in {"started", "watching"}
      BY <2>3, <3>1 DEF ConsoleSound, RunnerSound, MakeSound
    <3> QED
      BY <1>2, <2>1, <3>1, <3>2
  <2> QED
    BY <2>2, <2>3
<1>4. QuietExit
  <2>1. \A t \in Tasks : Alive(t) => Exclusive(t) /\ InFlight(t)
    BY <1>2 DEF ConsoleSound, MakeSound, Alive
  <2> QED
    BY <2>1 DEF ConsoleSound, QuietLoop, QuietExit
<1> QED
  BY <1>1, <1>3, <1>4

-----------------------------------------------------------------------------
(* A command from its button to the end of its form.                       *)

LEMMA RequestKeepsSound ==
    ASSUME ConsoleSound, NEW t \in Tasks, Request(t)
    PROVE  ConsoleSound'
<1>1. /\ task[t] = "new" /\ task' = [task EXCEPT ![t] = "requested"]
      /\ \A u \in Tasks \ {t} : target'[u] = target[u]
      /\ target' \in [Tasks -> Commands \cup {"help"}]
      /\ UNCHANGED <<reservation, runner, process, signals, console>>
  <2>1. PICK c \in Commands : target' = [target EXCEPT ![t] = c]
    BY DEF Request
  <2> QED
    BY <2>1 DEF Request, exclusion, stopping, ConsoleSound, ConsoleTyped
<1>2. ASSUME NEW u \in Tasks
      PROVE  Exclusive(u)' /\ InFlight(u)' => u # t /\ Exclusive(u) /\ InFlight(u)
  BY <1>1 DEF Exclusive, InFlight, ConsoleSound, ConsoleTyped
<1>3. ConsoleTyped'
  BY <1>1 DEF ConsoleSound, ConsoleTyped, Steps
<1>6. RunnerSound'
  <2>1. \A u \in Tasks : task[u] = "starting" => task'[u] = "starting"
    BY <1>1 DEF ConsoleSound, ConsoleTyped
  <2> QED
    BY <1>1, <2>1 DEF ConsoleSound, RunnerSound
<1>4. MakeSound'
  BY <1>1 DEF ConsoleSound, ConsoleTyped, MakeSound
<1>5. Owned' /\ QuietLoop'
  BY <1>1, <1>2 DEF ConsoleSound, Owned, QuietLoop
<1> QED
  BY <1>3, <1>4, <1>5, <1>6 DEF ConsoleSound

(* A task goes on by itself: the reservation stays, is given back with the *)
(* end of the task, or is taken while it is free.                          *)
Advances(t, pc) ==
    /\ Goes(t, pc) /\ UNCHANGED <<runner, process, signals, console>>
    /\ task[t] # "starting"
    /\ pc \in {"launching", "starting", "started", "watching"} => target[t] \in MakeTargets
    /\ process[t] \in {"alive", "exited", "released"} => pc \in {"started", "watching"}
    /\ \/ reservation' = reservation /\ (pc = "over" \/ InFlight(t) \/ ~Exclusive(t))
       \/ Unreserve(t) /\ pc = "over"
       \/ reservation' = t /\ reservation \in {None, t} /\ (console = "open" \/ InFlight(t))

LEMMA AdvancesKeepsSound ==
    ASSUME ConsoleSound, NEW t \in Tasks, NEW pc \in Steps, Advances(t, pc)
    PROVE  ConsoleSound'
<1>1. /\ task' = [task EXCEPT ![t] = pc] /\ target' = target
      /\ UNCHANGED <<runner, process, signals, console>>
      /\ task \in [Tasks -> Steps]
      /\ reservation \in Tasks \cup {None}
  BY DEF Advances, Goes, ConsoleSound, ConsoleTyped
<1>2. reservation' \in {reservation, None, t}
  BY DEF Advances, Unreserve
<1>3. ConsoleTyped'
  BY <1>1, <1>2 DEF ConsoleSound, ConsoleTyped
<1>4. ASSUME NEW u \in Tasks \ {t}
      PROVE  (Exclusive(u)' <=> Exclusive(u)) /\ (InFlight(u)' <=> InFlight(u))
  BY <1>1, <1>4 DEF Exclusive, InFlight
<1>5. (Exclusive(t)' <=> Exclusive(t)) /\ (InFlight(t)' <=> pc \notin {"new", "requested", "over"})
  BY <1>1 DEF Exclusive, InFlight
<1>6. Owned'
  <2>1. CASE reservation' = reservation /\ (pc = "over" \/ InFlight(t) \/ ~Exclusive(t))
    BY <1>4, <1>5, <2>1 DEF ConsoleSound, Owned
  <2>2. CASE Unreserve(t) /\ pc = "over"
    BY <1>4, <1>5, <2>2 DEF ConsoleSound, Owned, Unreserve
  <2>3. CASE reservation' = t /\ reservation \in {None, t}
    BY <1>4, <1>5, <2>3, NoneIsNoTask DEF ConsoleSound, Owned
  <2> QED
    BY <2>1, <2>2, <2>3 DEF Advances
<1>7. MakeSound'
  BY <1>1 DEF Advances, ConsoleSound, MakeSound
<1>8. RunnerSound'
  <2>1. \A u \in Tasks : task[u] = "starting" => task'[u] = "starting"
    BY <1>1 DEF Advances
  <2> QED
    BY <1>1, <2>1 DEF ConsoleSound, RunnerSound
<1>9. QuietLoop'
  <2>1. console = "open" \/ pc = "over" \/ InFlight(t) \/ ~Exclusive(t)
    BY DEF Advances
  <2> QED
    BY <1>1, <1>4, <1>5, <2>1 DEF ConsoleSound, QuietLoop
<1> QED
  BY <1>3, <1>6, <1>7, <1>8, <1>9 DEF ConsoleSound

(* The start of a command, with the reservation free or its own.           *)
LEMMA RunAdvances ==
    ASSUME ConsoleSound, NEW t \in Tasks, Run(t), task[t] \in {"requested", "form"},
           Exclusive(t) => reservation \in {None, t}, console = "open"
    PROVE  ConsoleSound'
<1>0. /\ UNCHANGED <<runner, process, signals, console>>
      /\ process[t] \notin {"alive", "exited", "released"}
  BY DEF Run, stopping, ConsoleSound, MakeSound
<1>1. CASE target[t] \in MakeTargets
  <2>1. Exclusive(t)
    BY <1>1, MakeIsExclusive DEF Exclusive
  <2>2. Advances(t, "launching")
    BY <1>0, <1>1, <2>1 DEF Run, Advances
  <2> QED
    BY <2>2, AdvancesKeepsSound DEF Steps
<1>2. CASE target[t] \notin MakeTargets
  <2>1. CASE Goes(t, "operating") /\ reservation' = IF Exclusive(t) THEN t ELSE reservation
    <3>1. Advances(t, "operating")
      BY <1>0, <1>2, <2>1 DEF Advances
    <3> QED
      BY <3>1, AdvancesKeepsSound DEF Steps
  <2>2. CASE Goes(t, "over") /\ Unreserve(t)
    <3>1. Advances(t, "over")
      BY <1>0, <1>2, <2>2 DEF Advances
    <3> QED
      BY <3>1, AdvancesKeepsSound DEF Steps
  <2> QED
    BY <1>2, <2>1, <2>2 DEF Run
<1> QED
  BY <1>1, <1>2

LEMMA DispatchKeepsSound ==
    ASSUME ConsoleSound, NEW t \in Tasks, Dispatch(t) \/ AnswerForm(t)
    PROVE  ConsoleSound'
<1>0. /\ task[t] \in {"requested", "form"} /\ console = "open"
      /\ process[t] \notin {"alive", "exited", "released"}
  BY DEF Dispatch, AnswerForm, Loop, ConsoleSound, MakeSound
<1>1. CASE Dispatch(t) /\ Refuse(t)
  <2>1. Advances(t, "over")
    BY <1>0, <1>1 DEF Refuse, Advances, exclusion, stopping
  <2> QED
    BY <2>1, AdvancesKeepsSound DEF Steps
<1>2. CASE Dispatch(t) /\ ~Refuse(t)
  <2>1. Exclusive(t) => reservation = None
    BY <1>2 DEF Dispatch, ExclusiveActive
  <2>2. CASE OpenForm(t)
    <3>1. Advances(t, "form")
      BY <1>0, <2>1, <2>2 DEF OpenForm, Advances, stopping
    <3> QED
      BY <3>1, AdvancesKeepsSound DEF Steps
  <2>3. CASE Run(t)
    BY <1>0, <2>1, <2>3, RunAdvances
  <2> QED
    BY <1>2, <2>2, <2>3 DEF Dispatch
<1>3. CASE AnswerForm(t)
  <2>1. task[t] = "form" /\ (Exclusive(t) => reservation = t)
    BY <1>3 DEF AnswerForm, ConsoleSound, Owned, InFlight
  <2>2. CASE Cancel(t)
    <3>1. Advances(t, "over")
      BY <1>0, <2>1, <2>2 DEF Cancel, Advances, stopping
    <3> QED
      BY <3>1, AdvancesKeepsSound DEF Steps
  <2>3. CASE Run(t)
    BY <1>0, <2>1, <2>3, RunAdvances
  <2> QED
    BY <1>3, <2>2, <2>3 DEF AnswerForm
<1> QED
  BY <1>1, <1>2, <1>3

-----------------------------------------------------------------------------
(* A Make target and its process.                                          *)

LEMMA MakeKeepsSound ==
    ASSUME ConsoleSound, NEW t \in Tasks,
           \/ Launch(t) \/ Spawn(t) \/ Adopt(t) \/ Exit(t) \/ Release(t) \/ Complete(t)
           \/ MakeEnds(t)
    PROVE  ConsoleSound'
<1>0. /\ task \in [Tasks -> Steps] /\ t \in DOMAIN process
      /\ runner \in [starting : BOOLEAN, active : Tasks \cup {None}]
  BY DEF ConsoleSound, ConsoleTyped
<1>1. CASE Launch(t)
  <2>1. /\ task[t] = "launching" /\ process[t] \notin {"alive", "exited", "released"}
        /\ target[t] \in MakeTargets /\ InFlight(t)
        /\ UNCHANGED <<reservation, process, signals, console, target>>
    BY <1>1 DEF Launch, exclusion, stopping, Goes, ConsoleSound, MakeSound, InFlight
  <2>2. CASE Goes(t, "failed") /\ UNCHANGED runner
    <3>1. Advances(t, "failed")
      BY <2>1, <2>2 DEF Advances
    <3> QED
      BY <3>1, AdvancesKeepsSound DEF Steps
  <2>3. CASE Goes(t, "starting") /\ runner' = [runner EXCEPT !.starting = TRUE]
    <3>1. task' = [task EXCEPT ![t] = "starting"]
      BY <2>3 DEF Goes
    <3>2. \A u \in Tasks : (Exclusive(u)' <=> Exclusive(u)) /\ (InFlight(u)' <=> InFlight(u))
      BY <1>0, <2>1, <3>1 DEF Exclusive, InFlight
    <3>3. ConsoleTyped'
      BY <2>1, <2>3, <3>1 DEF ConsoleSound, ConsoleTyped, Steps
    <3>4. MakeSound'
      BY <1>0, <2>1, <3>1 DEF ConsoleSound, MakeSound
    <3>5. RunnerSound'
      BY <1>0, <2>1, <2>3, <3>1 DEF ConsoleSound, RunnerSound
    <3> QED
      BY <2>1, <3>2, <3>3, <3>4, <3>5 DEF ConsoleSound, Owned, QuietLoop
  <2> QED
    BY <1>1, <2>2, <2>3 DEF Launch
<1>2. CASE Spawn(t)
  <2>1. /\ task[t] = "starting" /\ process[t] \notin {"alive", "exited", "released"}
        /\ target[t] \in MakeTargets
        /\ UNCHANGED <<reservation, signals, console, target>>
    BY <1>2 DEF Spawn, exclusion, stopping, Goes, ConsoleSound, MakeSound
  <2>2. CASE /\ task' = [task EXCEPT ![t] = "started"]
             /\ runner' = [starting |-> FALSE, active |-> t]
             /\ process' = [process EXCEPT ![t] = "alive"]
    <3>1. \A u \in Tasks : (Exclusive(u)' <=> Exclusive(u)) /\ (InFlight(u)' <=> InFlight(u))
      BY <1>0, <2>1, <2>2 DEF Exclusive, InFlight
    <3>2. ConsoleTyped'
      BY <2>1, <2>2 DEF ConsoleSound, ConsoleTyped, Steps
    <3>3. MakeSound'
      BY <1>0, <2>1, <2>2 DEF ConsoleSound, MakeSound
    <3>4. RunnerSound'
      BY <1>0, <2>2 DEF ConsoleSound, RunnerSound
    <3> QED
      BY <2>1, <3>1, <3>2, <3>3, <3>4 DEF ConsoleSound, Owned, QuietLoop
  <2>3. CASE /\ task' = [task EXCEPT ![t] = "failed"]
             /\ runner' = [runner EXCEPT !.starting = FALSE]
             /\ process' = process
    <3>1. \A u \in Tasks : (Exclusive(u)' <=> Exclusive(u)) /\ (InFlight(u)' <=> InFlight(u))
      BY <1>0, <2>1, <2>3 DEF Exclusive, InFlight
    <3>2. ConsoleTyped'
      BY <1>0, <2>1, <2>3 DEF ConsoleSound, ConsoleTyped, Steps
    <3>3. MakeSound'
      BY <1>0, <2>1, <2>3 DEF ConsoleSound, MakeSound
    <3>4. RunnerSound'
      BY <1>0, <2>3 DEF ConsoleSound, RunnerSound
    <3> QED
      BY <2>1, <3>1, <3>2, <3>3, <3>4 DEF ConsoleSound, Owned, QuietLoop
  <2> QED
    BY <1>2, <2>2, <2>3 DEF Spawn, Goes
<1>3. CASE Adopt(t)
  <2>1. /\ task[t] = "started" /\ target[t] \in MakeTargets /\ InFlight(t)
    BY <1>3 DEF Adopt, ConsoleSound, MakeSound, InFlight
  <2>2. Advances(t, "watching")
    BY <1>3, <2>1 DEF Adopt, Advances, stopping
  <2> QED
    BY <2>2, AdvancesKeepsSound DEF Steps
<1>4. CASE MakeEnds(t)
  <2>1. task[t] \in {"failed", "watching"} /\ process[t] \notin {"alive", "exited", "released"}
    BY <1>4 DEF MakeEnds, Ended, ConsoleSound, MakeSound
  <2>2. Advances(t, "over")
    BY <1>4, <2>1 DEF MakeEnds, Advances, stopping
  <2> QED
    BY <2>2, AdvancesKeepsSound DEF Steps
<1>5. CASE Exit(t) \/ Release(t) \/ Complete(t)
  <2>1. /\ UNCHANGED <<task, target, reservation, console>>
        /\ signals' \in [Tasks -> SUBSET {"SIGINT", "SIGTERM"}]
        /\ process[t] \in {"alive", "exited", "released"}
    BY <1>5 DEF Exit, Release, Complete, exclusion, stopping, ConsoleSound, ConsoleTyped
  <2>6. PICK how \in {"exited", "released", "completed"} :
             /\ process' = [process EXCEPT ![t] = how]
             /\ \/ how = "exited" /\ runner' = runner
                \/ how = "completed" /\ process[t] = "released" /\ runner' = runner
                \/ /\ how = "released"
                   /\ runner' = IF runner.active = t THEN [runner EXCEPT !.active = None] ELSE runner
    BY <1>5 DEF Exit, Release, Complete, exclusion, stopping, ConsoleSound, ConsoleTyped
  <2>2. \A u \in Tasks : (Exclusive(u)' <=> Exclusive(u)) /\ (InFlight(u)' <=> InFlight(u))
    BY <2>1 DEF Exclusive, InFlight
  <2>3. ConsoleTyped'
    BY <1>0, <2>1, <2>6 DEF ConsoleSound, ConsoleTyped
  <2>4. MakeSound'
    <3>1. \A u \in Tasks \ {t} : process'[u] = process[u]
      BY <2>6
    <3>2. task[t] \in {"started", "watching"}
      BY <2>1 DEF ConsoleSound, MakeSound
    <3> QED
      BY <2>1, <3>1, <3>2 DEF ConsoleSound, MakeSound
  <2>5. RunnerSound'
    BY <1>0, <2>1, <2>6 DEF ConsoleSound, ConsoleTyped, RunnerSound
  <2> QED
    BY <2>1, <2>2, <2>3, <2>4, <2>5 DEF ConsoleSound, Owned, QuietLoop
<1> QED
  BY <1>1, <1>2, <1>3, <1>4, <1>5

-----------------------------------------------------------------------------
(* An administration command.                                              *)

LEMMA OperateKeepsSound ==
    ASSUME ConsoleSound, NEW t \in Tasks,
           Operate(t) \/ Report(t) \/ Draw(t) \/ Conclude(t)
    PROVE  ConsoleSound'
<1>0. ASSUME NEW pc \in Steps \ {"launching", "starting", "started", "watching"},
             Goes(t, pc), UNCHANGED <<runner, process, signals, console>>,
             task[t] \in {"operating", "reporting", "reported", "succeeded", "failed",
                          "rereading", "recovering", "showing"},
             reservation' = reservation \/ (pc = "over" /\ Unreserve(t))
      PROVE  ConsoleSound'
  <2>1. InFlight(t) /\ process[t] \notin {"alive", "exited", "released"}
    BY <1>0 DEF InFlight, ConsoleSound, MakeSound
  <2>2. Advances(t, pc)
    BY <1>0, <2>1 DEF Advances
  <2> QED
    BY <2>2, AdvancesKeepsSound
<1>1. CASE Operate(t) \/ Report(t) \/ Draw(t)
  BY <1>0, <1>1 DEF Operate, Report, Draw, exclusion, stopping, Steps
<1>2. CASE Conclude(t)
  <2>1. UNCHANGED <<runner, process, signals, console>>
    BY <1>2 DEF Conclude, stopping
  <2>2. task[t] \in {"succeeded", "failed", "rereading", "recovering", "showing"}
    BY <1>2 DEF Conclude, Succeeded, Failed, Reread, CloseResult
  <2>3. \/ Goes(t, "over") /\ Unreserve(t)
        \/ \E pc \in {"rereading", "showing", "recovering", "failed"} :
               Goes(t, pc) /\ reservation' = reservation
    BY <1>2 DEF Conclude, Succeeded, Failed, Reread, CloseResult, CommandEnds
  <2> QED
    BY <1>0, <2>1, <2>2, <2>3 DEF Steps
<1> QED
  BY <1>1, <1>2

-----------------------------------------------------------------------------
(* Signals, timers, and leaving.                                           *)

LEMMA StopKeepsSound ==
    ASSUME ConsoleSound,
           \/ \E w \in Stops : \/ PressStop(w) \/ Interrupt(w) \/ Wait(w)
                               \/ Confirm(w) \/ Terminate(w)
           \/ OfferForce \/ UNCHANGED vars
    PROVE  ConsoleSound'
<1>1. UNCHANGED <<task, target, reservation, runner, process, console>>
  BY DEF PressStop, Interrupt, Wait, Confirm, Terminate, Signalled, OfferForce, exclusion, vars
<1>2. signals' \in [Tasks -> SUBSET {"SIGINT", "SIGTERM"}]
  <2>1. \/ signals' = signals
        \/ \E p, signal : signal \in {"SIGINT", "SIGTERM"}
                             /\ signals' = [signals EXCEPT ![p] = @ \cup {signal}]
    BY DEF PressStop, Interrupt, Wait, Confirm, Terminate, Signalled, OfferForce, stopping, vars
  <2> QED
    BY <2>1 DEF ConsoleSound, ConsoleTyped
<1>3. \A u \in Tasks : (Exclusive(u)' <=> Exclusive(u)) /\ (InFlight(u)' <=> InFlight(u))
  BY <1>1 DEF Exclusive, InFlight
<1> QED
  BY <1>1, <1>2, <1>3
  DEF ConsoleSound, ConsoleTyped, Owned, MakeSound, RunnerSound, QuietLoop

(* The console is left with the reservation free, so with no operation     *)
(* under way.                                                              *)
LEMMA QuitKeepsSound ==
    ASSUME ConsoleSound, Quit \/ Unmount
    PROVE  ConsoleSound'
<1>1. UNCHANGED <<task, target, reservation, runner, process, signals>>
  BY DEF Quit, Unmount, exclusion, stopping
<1>2. \A u \in Tasks : (Exclusive(u)' <=> Exclusive(u)) /\ (InFlight(u)' <=> InFlight(u))
  BY <1>1 DEF Exclusive, InFlight
<1>3. \A u \in Tasks : ~(Exclusive(u) /\ InFlight(u))
  <2>1. CASE Quit
    <3>1. reservation = None
      BY <2>1 DEF Quit, ExclusiveActive
    <3> QED
      BY <3>1, NoneIsNoTask DEF ConsoleSound, Owned
  <2>2. CASE Unmount
    BY <2>2 DEF Unmount, ConsoleSound, QuietLoop
  <2> QED
    BY <2>1, <2>2
<1> QED
  BY <1>1, <1>2, <1>3
  DEF ConsoleSound, ConsoleTyped, Owned, MakeSound, RunnerSound, QuietLoop

LEMMA ConsoleStaysSound == ConsoleSound /\ [Next]_vars => ConsoleSound'
BY RequestKeepsSound, DispatchKeepsSound, MakeKeepsSound, OperateKeepsSound, StopKeepsSound,
   QuitKeepsSound
DEF Next, Progress

LEMMA ConsoleInvariant == Spec => []ConsoleSound
<1>1. Init => ConsoleSound
  BY DEF Init, ConsoleSound, ConsoleTyped, Owned, MakeSound, RunnerSound, QuietLoop, InFlight,
         Steps
<1> QED
  BY <1>1, ConsoleStaysSound, PTL DEF Spec

-----------------------------------------------------------------------------

(* From its form to the last read after it, a write or local command has   *)
(* the console to itself.                                                  *)
THEOREM OperationsExclude == Spec => []OneOperation
BY ConsoleInvariant, SoundMeansSafe, PTL

(* When a thread comes to start a process, the runner's slot is free.      *)
THEOREM RunnerAlwaysReady == Spec => []RunnerNeverRefuses
BY ConsoleInvariant, SoundMeansSafe, PTL

(* Whoever leaves the console leaves no process and no change behind.      *)
THEOREM ExitIsQuiet == Spec => []QuietExit
BY ConsoleInvariant, SoundMeansSafe, PTL

(* What a press of Stop has taken, and where it is.                        *)
StopsTyped ==
    /\ activeProcess \in Tasks \cup {None}
    /\ stops \in [Stops -> [pc : {"idle", "interrupting", "interrupted", "asking",
                                 "terminating", "over"},
                            of : Tasks \cup {None}]]

LEMMA SignalledKeepsStops ==
    ASSUME StopsTyped, NEW w \in Stops, NEW p, NEW signal,
           NEW next \in [pc : {"over", "interrupted"}, of : Tasks \cup {None}],
           Signalled(w, p, signal, next)
    PROVE  StopsTyped'
<1>1. activeProcess' = activeProcess
  BY DEF Signalled, exclusion
<1>2. stops' = [stops EXCEPT ![w] = StopOver] \/ stops' = [stops EXCEPT ![w] = next]
  BY DEF Signalled
<1> QED
  BY <1>1, <1>2 DEF StopsTyped, StopOver

LEMMA StopsInvariant == Spec => []StopsTyped
<1>1. Init => StopsTyped
  BY DEF Init, StopsTyped
<1>2. ASSUME StopsTyped, [Next]_vars
      PROVE  StopsTyped'
  <2>1. ASSUME NEW w \in Stops, PressStop(w)
        PROVE  StopsTyped'
    <3>1. activeProcess' = activeProcess
      BY <2>1 DEF PressStop, exclusion
    <3>2. \/ stops' = [stops EXCEPT ![w] = StopOver]
          \/ stops' = [stops EXCEPT ![w] = [pc |-> "interrupting", of |-> activeProcess]]
          \/ stops' = [stops EXCEPT ![w] = [pc |-> "asking", of |-> activeProcess]]
      BY <2>1 DEF PressStop
    <3> QED
      BY <1>2, <3>1, <3>2 DEF StopsTyped, StopOver
  <2>2. ASSUME NEW w \in Stops, Wait(w) \/ Confirm(w)
        PROVE  StopsTyped'
    BY <1>2, <2>2 DEF Wait, Confirm, StopsTyped, StopOver, exclusion
  <2>3. ASSUME NEW w \in Stops, Interrupt(w) \/ Terminate(w)
        PROVE  StopsTyped'
    <3>1. /\ StopOver \in [pc : {"over", "interrupted"}, of : Tasks \cup {None}]
          /\ [pc |-> "interrupted", of |-> stops[w].of]
                 \in [pc : {"over", "interrupted"}, of : Tasks \cup {None}]
      BY <1>2 DEF StopsTyped, StopOver
    <3> QED
      BY <1>2, <2>3, <3>1, SignalledKeepsStops DEF Interrupt, Terminate
  <2>4. ASSUME NEW t \in Tasks, Adopt(t) \/ MakeEnds(t)
        PROVE  StopsTyped'
    BY <1>2, <2>4 DEF Adopt, MakeEnds, StopsTyped, stopping
  <2>5. CASE UNCHANGED <<activeProcess, stops>>
    BY <1>2, <2>5 DEF StopsTyped
  <2>6. ASSUME NEW t \in Tasks,
               \/ Request(t) \/ Dispatch(t) \/ AnswerForm(t) \/ Launch(t) \/ Spawn(t)
               \/ Exit(t) \/ Release(t) \/ Complete(t)
               \/ Operate(t) \/ Report(t) \/ Draw(t) \/ Conclude(t)
        PROVE  UNCHANGED <<activeProcess, stops>>
    BY <2>6 DEF Request, Dispatch, AnswerForm, Refuse, OpenForm, Run, Cancel, Launch, Spawn,
           Exit, Release, Complete, Operate, Report, Draw, Conclude, exclusion, stopping
  <2>7. ASSUME OfferForce \/ Quit \/ Unmount \/ UNCHANGED vars
        PROVE  UNCHANGED <<activeProcess, stops>>
    BY <2>7 DEF OfferForce, Quit, Unmount, exclusion, stopping, vars
  <2> QED
    BY <1>2, <2>1, <2>2, <2>3, <2>4, <2>5, <2>6, <2>7 DEF Next, Progress
<1> QED
  BY <1>1, <1>2, PTL DEF Spec

(* SIGTERM reaches only the process whose termination was confirmed,       *)
(* whatever ended or started while the dialog was open.                    *)
THEOREM TerminationsConfirmed == Spec => TerminationIsConfirmed
<1> DEFINE Confirmed == \A p \in Tasks : "SIGTERM" \in signals'[p] \ signals[p]
                          => \E w \in Stops : stops[w] = [pc |-> "terminating", of |-> p]
<1>1. ASSUME ConsoleSound, StopsTyped, [Next]_vars, NEW p \in Tasks,
             "SIGTERM" \in signals'[p] \ signals[p]
      PROVE  \E w \in Stops : stops[w] = [pc |-> "terminating", of |-> p]
  <2>1. \E w \in Stops : Terminate(w) \/ Interrupt(w)
    <3>1. ASSUME NEW t \in Tasks,
                 \/ Request(t) \/ Dispatch(t) \/ AnswerForm(t) \/ Launch(t) \/ Spawn(t)
                 \/ Exit(t) \/ Adopt(t) \/ Complete(t) \/ MakeEnds(t)
                 \/ Operate(t) \/ Report(t) \/ Draw(t) \/ Conclude(t)
          PROVE  UNCHANGED signals
      BY <3>1 DEF Request, Dispatch, AnswerForm, Refuse, OpenForm, Run, Cancel, Launch, Spawn,
           Adopt, MakeEnds, Exit, Complete, Operate, Report, Draw, Conclude, stopping
    <3>2. ASSUME NEW t \in Tasks, Release(t)
          PROVE  signals'[p] \subseteq signals[p]
      BY <1>1, <3>2 DEF Release, ConsoleSound, ConsoleTyped
    <3>3. ASSUME NEW w \in Stops, PressStop(w) \/ Wait(w) \/ Confirm(w)
          PROVE  UNCHANGED signals
      BY <3>3 DEF PressStop, Wait, Confirm
    <3>4. ASSUME OfferForce \/ Quit \/ Unmount \/ UNCHANGED vars
          PROVE  UNCHANGED signals
      BY <3>4 DEF OfferForce, Quit, Unmount, stopping, vars
    <3> QED
      BY <1>1, <3>1, <3>2, <3>3, <3>4 DEF Next, Progress
  <2>2. PICK w \in Stops : Terminate(w) \/ Interrupt(w)
    BY <2>1
  <2>3. PICK signal \in {"SIGTERM", "SIGINT"} :
          /\ stops[w].pc = IF signal = "SIGTERM" THEN "terminating" ELSE "interrupting"
          /\ signals' = signals \/ signals' = [signals EXCEPT ![stops[w].of] = @ \cup {signal}]
    BY <2>2 DEF Terminate, Interrupt, Signalled, StopAt
  <2>4. signal = "SIGTERM" /\ stops[w].of = p
    BY <1>1, <2>3 DEF ConsoleSound, ConsoleTyped
  <2>5. stops[w] = [pc |-> stops[w].pc, of |-> stops[w].of]
    BY <1>1 DEF StopsTyped
  <2> QED
    BY <2>3, <2>4, <2>5
<1>2. ConsoleSound /\ StopsTyped /\ [Next]_vars => [Confirmed]_vars
  BY <1>1
<1> QED
  BY <1>2, ConsoleInvariant, StopsInvariant, PTL DEF Spec, TerminationIsConfirmed

=============================================================================
