-------------------------- MODULE Maintenance_proofs --------------------------
(***************************************************************************)
(* Why production maintenance owns the schedules, brings their states and  *)
(* the collector back, and rebuilds the feed in silence, for any windows,  *)
(* commands and number of crashes.                                         *)
(***************************************************************************)
EXTENDS Maintenance, TLAPS

-----------------------------------------------------------------------------
(* Types of what the Scheduler, the Lambda and the operator hold.          *)

Times == 0..(MaxClock + 1) \cup {StartOf[w] : w \in Windows}

Definitions == [state : {"ENABLED", "DISABLED"}, at : Times, fired : BOOLEAN]

WellFormed(s) ==
    /\ s = [n \in DOMAIN s |-> s[n]]
    /\ Reference \in DOMAIN s /\ DOMAIN s \subseteq Names
    /\ \A n \in DOMAIN s : s[n] \in Definitions

SchedulesSound == clock \in 0..MaxClock /\ planned \subseteq Windows /\ WellFormed(schedules)

CountsSound ==
    /\ fetch \subseteq Names /\ results \subseteq Names
    /\ collecting \in BOOLEAN /\ originally \in BOOLEAN
    /\ budget \in [firings : Nat, replans : Nat, rebaselines : Nat, crashes : Nat]

(* A result is not deleted before its invocation returns.                  *)
LambdaSound ==
    /\ \/ lambda = Stopped
       \/ lambda \in [pc : {"flag", "requeue", "list", "return"}, job : Names,
                      now : 0..MaxClock]
       \/ lambda \in [pc : {"reconcile"}, job : Names, now : 0..MaxClock,
                      existing : SUBSET Windows, obsolete : SUBSET Windows,
                      desired : SUBSET Windows]
    /\ lambda # Stopped => lambda.job \in results

Seen == {"running", "stopped"}

RecordSound ==
    \/ record = Closed
    \/ /\ record \in [phase : {"entering", "active", "exiting"},
                      schedules : {record.schedules}, ran : Seen \cup {"unknown"}]
       /\ WellFormed(record.schedules)
       /\ record.phase = "active" => record.ran # "unknown"

(* begin has looked at the collector, pause has not.                       *)
Looked == operator.ran \in (IF operator.command = "begin" THEN Seen ELSE {"unknown"})

Entering == {"drain", "stop", "drain again", "check", "activate"}

Refreshing == {"send reference", "drain reference", "send live", "drain live", "stop again"}

Rebaselining == Refreshing \cup {"quiesce", "rebuild"}

(* A command under way, and the phase in which it makes its calls.         *)
CommandSound ==
    /\ operator.pc \in {"idle", "snapshot", "open", "disable", "exit", "start", "restore",
                        "catch up"} \cup Entering \cup Rebaselining
    /\ operator.pc = "idle" => operator = Stopped
    /\ operator.pc \in {"snapshot", "disable"} =>
           /\ operator \in [pc : {"snapshot", "disable"}, command : {"begin", "pause"},
                            ran : {operator.ran}, names : SUBSET Names]
           /\ Looked
           /\ record.phase = IF operator.pc = "snapshot" THEN "none" ELSE "entering"
    /\ operator.pc = "open" =>
           /\ operator \in [pc : {"open"}, command : {"begin", "pause"},
                            ran : {operator.ran}, names : SUBSET Names,
                            schedules : {operator.schedules}]
           /\ Looked /\ WellFormed(operator.schedules) /\ ~Open
           /\ operator.names \subseteq DOMAIN operator.schedules
    /\ operator.pc \in Entering =>
           /\ operator \in [pc : Entering, command : {"begin"}, ran : Seen,
                            names : SUBSET Names]
           /\ record.phase = "entering"
    /\ operator.pc \in {"exit", "start"} =>
           /\ operator \in [pc : {"exit", "start"}, command : {"end", "restore"}] /\ Open
           /\ operator.pc = "start" => operator.command = "end" /\ record.phase = "exiting"
    /\ operator.pc = "restore" =>
           /\ operator \in [pc : {"restore"}, command : {"end", "restore"},
                            now : 0..MaxClock, names : SUBSET Names]
           /\ record.phase = "exiting"
    /\ operator.pc \in {"disable", "restore"} =>
           operator.names \subseteq DOMAIN record.schedules
    /\ operator.pc = "catch up" => ~Open
    /\ operator.pc \in Rebaselining =>
           /\ operator \in [pc : Rebaselining, command : {"rebaseline"}]
           /\ record.phase = "active"

-----------------------------------------------------------------------------
(* What the four properties rest on.                                       *)

(* An invocation that plans looked at the flag before the row was opened,  *)
(* and was drained before it is active or exiting.                         *)
Planning == lambda.pc \in {"list", "reconcile"}

Drained ==
    record.phase \in {"active", "exiting"} \/ operator.pc \in {"activate", "exit"} => ~Planning

(* What restoring has done so far.                                         *)
CameBack(n) ==
    /\ n \in DOMAIN schedules
    /\ \/ schedules[n].state = record.schedules[n].state
       \/ n \in Windows /\ EndOf[n] <= operator.now /\ schedules[n].state = "DISABLED"

ComingBack ==
    operator.pc = "restore" =>
        /\ operator.now <= clock
        /\ \A n \in DOMAIN record.schedules \ operator.names : CameBack(n)

(* A collector that ran is recorded as running before it is stopped, and   *)
(* started before the row can be closed.                                   *)
CollectorSound ==
    /\ originally /\ Open => record.ran = "running"
    /\ operator.pc \in {"snapshot", "open"} /\ operator.command = "begin" =>
           operator.ran = Status
    /\ operator.pc = "restore" /\ operator.command = "end" /\ record.ran = "running" =>
           collecting

TypesSound == SchedulesSound /\ CountsSound /\ LambdaSound /\ RecordSound /\ CommandSound

MaintenanceSound == TypesSound /\ Drained /\ ComingBack /\ CollectorSound

-----------------------------------------------------------------------------
(* Definitions of schedules.                                               *)

LEMMA StatesOf ==
    ASSUME NEW s, WellFormed(s), NEW n \in DOMAIN s
    PROVE  /\ s[n].state \in {"ENABLED", "DISABLED"} /\ s[n].at \in Times
           /\ s[n].fired \in BOOLEAN /\ n \in Names
           /\ s[n] = [state |-> s[n].state, at |-> s[n].at, fired |-> s[n].fired]
BY DEF WellFormed, Definitions

LEMMA RewrittenIs ==
    ASSUME WellFormed(schedules), NEW n \in DOMAIN schedules,
           NEW state \in {"ENABLED", "DISABLED"}, NEW at \in Times
    PROVE  Rewritten(n, state, at) \in Definitions /\ Rewritten(n, state, at).state = state
BY StatesOf DEF Rewritten, Definitions

Replaced(t, s, n, d) == t = [s EXCEPT ![n] = d]

LEMMA ReplacedIs ==
    ASSUME NEW s, WellFormed(s), NEW n \in DOMAIN s, NEW d \in Definitions,
           NEW t, Replaced(t, s, n, d)
    PROVE  /\ WellFormed(t) /\ DOMAIN t = DOMAIN s /\ t[n] = d
           /\ \A m \in DOMAIN s \ {n} : t[m] = s[m]
BY DEF WellFormed, Replaced

LEMMA FiredTyped ==
    ASSUME NEW d \in Definitions
    PROVE  /\ [d EXCEPT !.fired = TRUE] \in Definitions
           /\ [d EXCEPT !.fired = TRUE].state = d.state
<1>1. PICK a \in BOOLEAN : a = TRUE
  OBVIOUS
<1>2. [d EXCEPT !.fired = a] \in Definitions /\ [d EXCEPT !.fired = a].state = d.state
  BY DEF Definitions
<1> QED
  BY <1>1, <1>2

Fired(t, s, n) == t = [s EXCEPT ![n].fired = TRUE]

LEMMA FiredIs ==
    ASSUME NEW s, WellFormed(s), NEW n \in DOMAIN s, NEW t, Fired(t, s, n)
    PROVE  /\ WellFormed(t) /\ DOMAIN t = DOMAIN s
           /\ \A m \in DOMAIN s : t[m].state = s[m].state
<1>1. PICK d : d = [s[n] EXCEPT !.fired = TRUE]
  OBVIOUS
<1>2. Replaced(t, s, n, d)
  BY <1>1 DEF Fired, Replaced
<1>3. d \in Definitions /\ d.state = s[n].state
  <2>1. s[n] \in Definitions
    BY DEF WellFormed
  <2> QED
    BY <1>1, <2>1, FiredTyped
<1> QED
  BY <1>2, <1>3, ReplacedIs

LEMMA WindowsAreNotReference ==
    /\ Windows \subseteq Names /\ \A w \in Windows : w # Reference
    /\ \A w \in Windows : StartOf[w] \in Times /\ EndOf[w] \in Nat
BY WindowAssumption DEF Names, Times

LEMMA ScheduleAtIs ==
    ASSUME NEW w \in Windows, NEW now \in 0..MaxClock
    PROVE  ScheduleAt(w, now) \in Times
<1>1. MaxClock \in Nat
  BY BoundAssumption
<1>2. now + 1 \in 0..(MaxClock + 1)
  BY <1>1
<1> QED
  BY <1>2, WindowsAreNotReference DEF ScheduleAt, Times

LEMMA AddedIs ==
    ASSUME NEW s, WellFormed(s), NEW w \in Windows, NEW d \in Definitions,
           NEW t, t = [n \in DOMAIN s \cup {w} |-> IF n = w THEN d ELSE s[n]]
    PROVE  WellFormed(t)
<1>1. DOMAIN t = DOMAIN s \cup {w} /\ t = [n \in DOMAIN t |-> t[n]]
  OBVIOUS
<1>2. \A n \in DOMAIN t : t[n] \in Definitions
  BY <1>1 DEF WellFormed
<1> QED
  BY <1>1, <1>2, WindowsAreNotReference DEF WellFormed

LEMMA RemovedIs ==
    ASSUME NEW s, WellFormed(s), NEW w \in Windows, NEW t, t = Restrict(s, DOMAIN s \ {w})
    PROVE  WellFormed(t)
BY WindowsAreNotReference DEF WellFormed, Restrict

-----------------------------------------------------------------------------
(* What a step leaves alone.                                               *)

LEMMA OperatorRests ==
    ASSUME RecordSound, CommandSound, CollectorSound,
           UNCHANGED <<record, operator, originally, collecting>>
    PROVE  RecordSound' /\ CommandSound' /\ CollectorSound'
<1>1. \A s : WellFormed(s)' <=> WellFormed(s)
  BY DEF WellFormed, Definitions, Times
<1>2. RecordSound'
  BY <1>1 DEF RecordSound, Closed
<1>3. CommandSound'
  BY <1>1 DEF CommandSound, Stopped, Open, Looked
<1>4. CollectorSound'
  BY DEF CollectorSound, Open, Status
<1> QED
  BY <1>2, <1>3, <1>4

LEMMA SchedulesRest ==
    ASSUME ComingBack, SchedulesSound, UNCHANGED <<record, operator, schedules>>,
           clock' = clock
    PROVE  ComingBack' /\ (planned' = planned => SchedulesSound')
<1>1. WellFormed(schedules)'
  BY DEF SchedulesSound, WellFormed, Definitions, Times
<1>2. ComingBack'
  BY DEF ComingBack, CameBack
<1> QED
  BY <1>1, <1>2 DEF SchedulesSound

LEMMA LambdaRests ==
    ASSUME LambdaSound, lambda' = lambda, results \subseteq results'
    PROVE  LambdaSound'
BY DEF LambdaSound, Stopped

(* The schedules, the clock, the row and the command are as they were.     *)
LEMMA StaysSound ==
    ASSUME MaintenanceSound, CountsSound', LambdaSound', Drained',
           UNCHANGED <<clock, planned, schedules, record, operator, originally, collecting>>
    PROVE  MaintenanceSound'
<1>1. RecordSound' /\ CommandSound' /\ CollectorSound'
  BY OperatorRests DEF MaintenanceSound, TypesSound
<1>2. ComingBack' /\ SchedulesSound'
  BY SchedulesRest DEF MaintenanceSound, TypesSound
<1> QED
  BY <1>1, <1>2 DEF MaintenanceSound, TypesSound

-----------------------------------------------------------------------------
(* The ingestion Lambda.                                                   *)

LEMMA IngestSound ==
    ASSUME MaintenanceSound, NEW job \in Names, Ingest(job)
    PROVE  MaintenanceSound'
<1>1. CountsSound'
  BY DEF Ingest, LambdaOnly, queues, CountsSound, MaintenanceSound, TypesSound
<1>2. LambdaSound' /\ Drained'
  BY DEF Ingest, LambdaOnly, queues, LambdaSound, Drained, Planning, Stopped, MaintenanceSound,
         TypesSound, SchedulesSound
<1> QED
  BY <1>1, <1>2, StaysSound DEF Ingest, LambdaOnly

LEMMA ReadFlagSound ==
    ASSUME MaintenanceSound, ReadFlag
    PROVE  MaintenanceSound'
<1>1. CountsSound'
  BY DEF ReadFlag, LambdaOnly, queues, CountsSound, MaintenanceSound, TypesSound
<1>2. lambda \in [pc : {"flag", "requeue", "list", "return"}, job : Names, now : 0..MaxClock]
      /\ lambda # Stopped /\ lambda.job \in results
  BY DEF ReadFlag, LambdaSound, Stopped, MaintenanceSound, TypesSound
<1>3. PICK pc \in {"requeue", "list", "return"} :
          lambda' = [lambda EXCEPT !.pc = pc] /\ (Open => pc = "return")
  BY DEF ReadFlag
<1>4. LambdaSound'
  BY <1>2, <1>3 DEF ReadFlag, LambdaOnly, queues, LambdaSound, Stopped
<1>5. Drained'
  <2>1. operator.pc \in {"activate", "exit"} => Open
    BY DEF CommandSound, Entering, Open, MaintenanceSound, TypesSound
  <2> QED
    BY <1>2, <1>3, <2>1 DEF ReadFlag, LambdaOnly, Drained, Planning, Open
<1> QED
  BY <1>1, <1>4, <1>5, StaysSound DEF ReadFlag, LambdaOnly

LEMMA RequeueSound ==
    ASSUME MaintenanceSound, Requeue
    PROVE  MaintenanceSound'
<1>1. lambda \in [pc : {"flag", "requeue", "list", "return"}, job : Names, now : 0..MaxClock]
      /\ lambda # Stopped /\ lambda.job \in results
  BY DEF Requeue, LambdaSound, Stopped, MaintenanceSound, TypesSound
<1>2. CountsSound'
  BY <1>1 DEF Requeue, LambdaOnly, CountsSound, MaintenanceSound, TypesSound
<1>3. LambdaSound' /\ Drained'
  BY <1>1 DEF Requeue, LambdaOnly, LambdaSound, Drained, Planning, Stopped
<1> QED
  BY <1>2, <1>3, StaysSound DEF Requeue, LambdaOnly

LEMMA ListSound ==
    ASSUME MaintenanceSound, List
    PROVE  MaintenanceSound'
<1>1. lambda \in [pc : {"flag", "requeue", "list", "return"}, job : Names, now : 0..MaxClock]
      /\ lambda # Stopped /\ lambda.job \in results
  BY DEF List, LambdaSound, Stopped, MaintenanceSound, TypesSound
<1>2. CountsSound'
  BY DEF List, LambdaOnly, queues, CountsSound, MaintenanceSound, TypesSound
<1>3. PICK e \in SUBSET Windows : \E o \in SUBSET Windows, d \in SUBSET Windows :
          lambda' = [pc |-> "reconcile", job |-> lambda.job, now |-> lambda.now,
                     existing |-> e, obsolete |-> o, desired |-> d]
  BY DEF List, MaintenanceSound, TypesSound, SchedulesSound
<1>4. LambdaSound'
  BY <1>1, <1>3 DEF List, LambdaOnly, queues, LambdaSound, Stopped
<1>5. Drained'
  BY DEF List, LambdaOnly, Drained, Planning, MaintenanceSound
<1> QED
  BY <1>2, <1>4, <1>5, StaysSound DEF List, LambdaOnly

(* A write to a schedule finds the command not restoring.                  *)
LEMMA Reconciles ==
    ASSUME MaintenanceSound, lambda.pc = "reconcile"
    PROVE  /\ lambda \in [pc : {"reconcile"}, job : Names, now : 0..MaxClock,
                          existing : SUBSET Windows, obsolete : SUBSET Windows,
                          desired : SUBSET Windows]
           /\ lambda # Stopped /\ lambda.job \in results
           /\ record.phase \notin {"active", "exiting"} /\ operator.pc # "restore"
<1>1. record.phase \notin {"active", "exiting"}
  BY DEF Drained, Planning, MaintenanceSound
<1>2. operator.pc # "restore"
  BY <1>1 DEF MaintenanceSound, TypesSound, CommandSound
<1> QED
  BY <1>1, <1>2 DEF LambdaSound, Stopped, MaintenanceSound, TypesSound

LEMMA ReconciledSound ==
    ASSUME MaintenanceSound, lambda.pc = "reconcile", WellFormed(schedules)', LambdaSound',
           lambda'.pc = "reconcile", UNCHANGED <<queues, LambdaOnly>>
    PROVE  MaintenanceSound'
<1>1. RecordSound' /\ CommandSound' /\ CollectorSound'
  BY OperatorRests DEF MaintenanceSound, TypesSound, LambdaOnly
<1>2. CountsSound' /\ SchedulesSound'
  BY DEF LambdaOnly, queues, CountsSound, SchedulesSound, MaintenanceSound, TypesSound
<1>3. ComingBack' /\ Drained'
  BY Reconciles DEF LambdaOnly, ComingBack, Drained, Planning, MaintenanceSound
<1> QED
  BY <1>1, <1>2, <1>3 DEF MaintenanceSound, TypesSound

LEMMA DeleteObsoleteSound ==
    ASSUME MaintenanceSound, NEW w \in Windows, DeleteObsolete(w)
    PROVE  MaintenanceSound'
<1>1. WellFormed(schedules) /\ lambda.pc = "reconcile"
  BY DEF DeleteObsolete, MaintenanceSound, TypesSound, SchedulesSound
<1>2. PICK t : t = Restrict(schedules, DOMAIN schedules \ {w}) /\ t = schedules'
  BY DEF DeleteObsolete
<1>3. WellFormed(t)
  BY <1>1, <1>2, RemovedIs
<1>4. WellFormed(schedules)'
  BY <1>2, <1>3 DEF WellFormed, Definitions, Times
<1>5. LambdaSound' /\ lambda'.pc = "reconcile"
  BY <1>1, Reconciles DEF DeleteObsolete, LambdaSound, Stopped, queues
<1> QED
  BY <1>1, <1>4, <1>5, ReconciledSound DEF DeleteObsolete

LEMMA EnsureSound ==
    ASSUME MaintenanceSound, NEW w \in Windows, Ensure(w)
    PROVE  MaintenanceSound'
<1>1. WellFormed(schedules) /\ lambda.pc = "reconcile"
  BY DEF Ensure, MaintenanceSound, TypesSound, SchedulesSound
<1>2. lambda.now \in 0..MaxClock
  BY <1>1, Reconciles
<1>3. PICK at \in Times : at = ScheduleAt(w, lambda.now)
  BY <1>2, ScheduleAtIs
<1>4. WellFormed(schedules)'
  <2>1. CASE w \notin lambda.existing
    <3>1. PICK d \in Definitions : d = OneTime("ENABLED", at)
      BY <1>3 DEF OneTime, Definitions
    <3>2. PICK t : /\ t = [n \in DOMAIN schedules \cup {w} |-> IF n = w THEN d ELSE schedules[n]]
                   /\ t = schedules'
      BY <1>3, <2>1, <3>1 DEF Ensure
    <3>3. WellFormed(t)
      BY <1>1, <3>2, AddedIs
    <3> QED
      BY <3>2, <3>3 DEF WellFormed, Definitions, Times
  <2>2. CASE w \in lambda.existing /\ StartOf[w] <= lambda.now
    BY <1>1, <2>2 DEF Ensure, WellFormed, Definitions, Times
  <2>3. CASE w \in lambda.existing /\ ~(StartOf[w] <= lambda.now)
    <3>1. PICK d : d = Rewritten(w, "ENABLED", at)
      OBVIOUS
    <3>2. PICK t : Replaced(t, schedules, w, d) /\ t = schedules'
      BY <1>3, <2>3, <3>1 DEF Ensure, Replaced
    <3>3. WellFormed(t)
      <4>1. CASE w \in DOMAIN schedules
        BY <1>1, <3>1, <3>2, <4>1, RewrittenIs, ReplacedIs
      <4>2. CASE w \notin DOMAIN schedules
        BY <1>1, <3>2, <4>2 DEF Replaced, WellFormed
      <4> QED
        BY <4>1, <4>2
    <3> QED
      BY <3>2, <3>3 DEF WellFormed, Definitions, Times
  <2> QED
    BY <2>1, <2>2, <2>3
<1>5. LambdaSound' /\ lambda'.pc = "reconcile"
  BY <1>1, Reconciles DEF Ensure, LambdaSound, Stopped, queues
<1> QED
  BY <1>1, <1>4, <1>5, ReconciledSound DEF Ensure

LEMMA ReturnSound ==
    ASSUME MaintenanceSound, Return
    PROVE  MaintenanceSound'
<1>1. CountsSound'
  BY DEF Return, LambdaOnly, CountsSound, MaintenanceSound, TypesSound
<1>2. LambdaSound' /\ Drained'
  BY DEF Return, LambdaOnly, LambdaSound, Drained, Planning, Stopped
<1> QED
  BY <1>1, <1>2, StaysSound DEF Return, LambdaOnly

LEMMA LambdaStepSound ==
    ASSUME MaintenanceSound, LambdaStep
    PROVE  MaintenanceSound'
BY IngestSound, ReadFlagSound, RequeueSound, ListSound, ReturnSound, DeleteObsoleteSound,
   EnsureSound DEF LambdaStep

-----------------------------------------------------------------------------
(* The Scheduler, the collector, the fixtures and time.                    *)

LEMMA FireWindowSound ==
    ASSUME MaintenanceSound, NEW w \in Windows, FireWindow(w)
    PROVE  MaintenanceSound'
<1>1. WellFormed(schedules) /\ w \in DOMAIN schedules
  BY DEF FireWindow, Due, MaintenanceSound, TypesSound, SchedulesSound
<1>2. PICK t : Fired(t, schedules, w) /\ t = schedules'
  BY DEF FireWindow, Fired
<1>3. /\ WellFormed(t) /\ DOMAIN t = DOMAIN schedules
      /\ \A m \in DOMAIN schedules : t[m].state = schedules[m].state
  BY <1>1, <1>2, FiredIs
<1>4. WellFormed(schedules)'
  BY <1>2, <1>3 DEF WellFormed, Definitions, Times
<1>5. SchedulesSound'
  BY <1>4 DEF FireWindow, SchedulesSound, MaintenanceSound, TypesSound
<1>6. CountsSound'
  BY WindowsAreNotReference DEF FireWindow, CountsSound, MaintenanceSound, TypesSound
<1>7. LambdaSound' /\ Drained'
  BY DEF FireWindow, LambdaSound, Stopped, Drained, Planning, MaintenanceSound, TypesSound
<1>8. RecordSound' /\ CommandSound' /\ CollectorSound'
  BY OperatorRests DEF FireWindow, MaintenanceSound, TypesSound
<1>9. ComingBack'
  BY <1>2, <1>3 DEF FireWindow, ComingBack, CameBack, MaintenanceSound
<1> QED
  BY <1>5, <1>6, <1>7, <1>8, <1>9 DEF MaintenanceSound, TypesSound

LEMMA FireReferenceSound ==
    ASSUME MaintenanceSound, FireReference
    PROVE  MaintenanceSound'
<1>1. CountsSound'
  BY DEF FireReference, CountsSound, MaintenanceSound, TypesSound, Names
<1>2. LambdaSound' /\ Drained'
  BY DEF FireReference, LambdaSound, Stopped, Drained, Planning, MaintenanceSound, TypesSound
<1> QED
  BY <1>1, <1>2, StaysSound DEF FireReference

LEMMA CollectSound ==
    ASSUME MaintenanceSound, NEW job \in Names, Collect(job)
    PROVE  MaintenanceSound'
<1>1. CountsSound'
  BY DEF Collect, CountsSound, MaintenanceSound, TypesSound
<1>2. LambdaSound'
  BY LambdaRests DEF Collect, MaintenanceSound, TypesSound
<1>3. Drained'
  BY DEF Collect, Drained, Planning, MaintenanceSound
<1> QED
  BY <1>1, <1>2, <1>3, StaysSound DEF Collect

LEMMA InvocationFailsSound ==
    ASSUME MaintenanceSound, InvocationFails
    PROVE  MaintenanceSound'
<1>1. CountsSound'
  BY DEF InvocationFails, queues, CountsSound, MaintenanceSound, TypesSound
<1>2. LambdaSound' /\ Drained'
  BY DEF InvocationFails, queues, LambdaSound, Stopped, Drained, Planning
<1> QED
  BY <1>1, <1>2, StaysSound DEF InvocationFails

LEMMA ReplanSound ==
    ASSUME MaintenanceSound, NEW windows \in SUBSET Windows, Replan(windows)
    PROVE  MaintenanceSound'
<1>1. CountsSound'
  BY DEF Replan, queues, CountsSound, MaintenanceSound, TypesSound
<1>2. LambdaSound' /\ Drained'
  BY DEF Replan, queues, LambdaSound, Stopped, Drained, Planning, MaintenanceSound, TypesSound
<1>3. RecordSound' /\ CommandSound' /\ CollectorSound'
  BY OperatorRests DEF Replan, MaintenanceSound, TypesSound
<1>4. WellFormed(schedules)'
  BY DEF Replan, SchedulesSound, WellFormed, Definitions, Times, MaintenanceSound, TypesSound
<1>5. SchedulesSound'
  BY <1>4 DEF Replan, SchedulesSound, MaintenanceSound, TypesSound
<1>6. ComingBack'
  BY SchedulesRest DEF Replan, MaintenanceSound, TypesSound
<1> QED
  BY <1>1, <1>2, <1>3, <1>5, <1>6 DEF MaintenanceSound, TypesSound

LEMMA TickSound ==
    ASSUME MaintenanceSound, Tick
    PROVE  MaintenanceSound'
<1>1. CountsSound'
  BY DEF Tick, queues, CountsSound, MaintenanceSound, TypesSound
<1>2. LambdaSound' /\ Drained'
  BY DEF Tick, queues, LambdaSound, Stopped, Drained, Planning, MaintenanceSound, TypesSound
<1>3. RecordSound' /\ CommandSound' /\ CollectorSound'
  BY OperatorRests DEF Tick, MaintenanceSound, TypesSound
<1>4. WellFormed(schedules)'
  BY DEF Tick, SchedulesSound, WellFormed, Definitions, Times, MaintenanceSound, TypesSound
<1>5. clock \in 0..MaxClock /\ MaxClock \in Nat /\ clock' \in 0..MaxClock /\ clock <= clock'
  BY BoundAssumption DEF Tick, SchedulesSound, MaintenanceSound, TypesSound
<1>6. SchedulesSound'
  BY <1>4, <1>5 DEF Tick, SchedulesSound, MaintenanceSound, TypesSound
<1>7. operator.pc = "restore" => operator.now \in Nat
  BY BoundAssumption DEF CommandSound, MaintenanceSound, TypesSound
<1>8. ComingBack'
  BY <1>5, <1>7 DEF Tick, ComingBack, CameBack, MaintenanceSound
<1> QED
  BY <1>1, <1>2, <1>3, <1>6, <1>8 DEF MaintenanceSound, TypesSound

-----------------------------------------------------------------------------
(* What a step of a command has to show.                                   *)

LEMMA CommandMoves ==
    ASSUME MaintenanceSound, UNCHANGED <<clock, planned, schedules, results, lambda>>,
           CountsSound', RecordSound', CommandSound', Drained', ComingBack', CollectorSound'
    PROVE  MaintenanceSound'
<1>1. WellFormed(schedules)'
  BY DEF SchedulesSound, WellFormed, Definitions, Times, MaintenanceSound, TypesSound
<1>2. SchedulesSound'
  BY <1>1 DEF SchedulesSound, MaintenanceSound, TypesSound
<1>3. LambdaSound'
  BY LambdaRests DEF MaintenanceSound, TypesSound
<1> QED
  BY <1>2, <1>3 DEF MaintenanceSound, TypesSound

(* The row is as it was, and nothing is being restored.                    *)
LEMMA CommandProceeds ==
    ASSUME MaintenanceSound,
           UNCHANGED <<clock, planned, schedules, results, lambda, record>>,
           operator'.pc # "restore", operator'.pc \in {"activate", "exit"} => ~Planning,
           CountsSound', CommandSound', CollectorSound'
    PROVE  MaintenanceSound'
<1>1. \A s : WellFormed(s)' <=> WellFormed(s)
  BY DEF WellFormed, Definitions, Times
<1>2. RecordSound'
  BY <1>1 DEF RecordSound, Closed, MaintenanceSound, TypesSound
<1>3. Drained' /\ ComingBack'
  BY DEF Drained, Planning, ComingBack, MaintenanceSound
<1> QED
  BY <1>2, <1>3, CommandMoves

LEMMA CommandStops ==
    ASSUME MaintenanceSound,
           UNCHANGED <<clock, planned, schedules, results, lambda, record, originally>>,
           operator' = Stopped, CountsSound'
    PROVE  MaintenanceSound'
<1>1. CommandSound' /\ operator'.pc \notin {"restore", "activate", "exit"}
  BY DEF CommandSound, Entering, Rebaselining, Refreshing, Stopped
<1>2. CollectorSound'
  BY DEF CollectorSound, Stopped, Open, MaintenanceSound
<1> QED
  BY <1>1, <1>2, CommandProceeds

(* What an empty result queue says of the Lambda.                          *)
LEMMA EmptyIsDrained ==
    ASSUME MaintenanceSound, QueuesEmpty
    PROVE  results = {} /\ lambda = Stopped
BY DEF QueuesEmpty, LambdaSound, MaintenanceSound, TypesSound

-----------------------------------------------------------------------------
(* Commands that pause collection.                                         *)

LEMMA PauseSound ==
    ASSUME MaintenanceSound, NEW command, Pause(command)
    PROVE  MaintenanceSound'
<1>1. CountsSound'
  BY DEF Pause, OperatorOnly, CountsSound, MaintenanceSound, TypesSound
<1>2. Open => WellFormed(record.schedules)
  BY DEF RecordSound, Open, Closed, MaintenanceSound, TypesSound
<1>3. PICK names \in SUBSET Names :
          /\ names = (IF Open THEN DOMAIN record.schedules ELSE {})
          /\ operator' = [pc |-> IF Open THEN "disable" ELSE "snapshot", command |-> command,
                          ran |-> IF command = "begin" THEN Status ELSE "unknown",
                          names |-> names]
  BY <1>2 DEF Pause, WellFormed
<1>4. PICK ran : ran = (IF command = "begin" THEN Status ELSE "unknown")
  OBVIOUS
<1>5. /\ command \in {"begin", "pause"}
      /\ ran \in (IF command = "begin" THEN Seen ELSE {"unknown"})
      /\ record.phase = IF Open THEN "entering" ELSE "none"
  BY <1>4 DEF Pause, Status, Seen, Open
<1>6. CommandSound' /\ operator'.pc # "restore"
  <2>1. CASE Open
    <3>1. operator' = [pc |-> "disable", command |-> command, ran |-> ran, names |-> names]
      BY <2>1, <1>3, <1>4
    <3>2. record' = record
      BY DEF Pause
    <3> QED
      BY <2>1, <1>3, <1>5, <3>1, <3>2 DEF CommandSound, Entering, Rebaselining, Refreshing, Looked, Seen
  <2>2. CASE ~Open
    <3>1. operator' = [pc |-> "snapshot", command |-> command, ran |-> ran, names |-> names]
      BY <2>2, <1>3, <1>4
    <3>2. record' = record
      BY DEF Pause
    <3> QED
      BY <2>2, <1>3, <1>5, <3>1, <3>2 DEF CommandSound, Entering, Rebaselining, Refreshing, Looked, Seen
  <2> QED
    BY <2>1, <2>2
<1>7. CollectorSound'
  BY <1>3 DEF Pause, CollectorSound, Open, Status, MaintenanceSound
<1> QED
  BY <1>1, <1>6, <1>7, CommandProceeds DEF Pause, OperatorOnly

LEMMA SnapshotSound ==
    ASSUME MaintenanceSound, Snapshot
    PROVE  MaintenanceSound'
<1>1. CountsSound'
  BY DEF Snapshot, OperatorOnly, CountsSound, MaintenanceSound, TypesSound
<1>2. /\ WellFormed(schedules) /\ operator.command \in {"begin", "pause"} /\ Looked
      /\ record.phase = "none" /\ operator.pc = "snapshot"
  BY DEF Snapshot, SchedulesSound, CommandSound, MaintenanceSound, TypesSound
<1>3. operator' = [pc |-> "open", command |-> operator.command, ran |-> operator.ran,
                   names |-> DOMAIN schedules, schedules |-> schedules]
      /\ record' = record
  BY DEF Snapshot
<1>4. WellFormed(operator.schedules)'
  BY <1>2, <1>3 DEF WellFormed, Definitions, Times
<1>5. CommandSound' /\ operator'.pc # "restore"
  <2>1. DOMAIN schedules \subseteq Names
    BY <1>2 DEF WellFormed
  <2> QED
    BY <1>2, <1>3, <1>4, <2>1 DEF CommandSound, Entering, Rebaselining, Refreshing, Looked, Open
<1>6. CollectorSound'
  BY <1>2, <1>3 DEF Snapshot, CollectorSound, Open, Status, MaintenanceSound
<1> QED
  BY <1>1, <1>5, <1>6, CommandProceeds DEF Snapshot, OperatorOnly

LEMMA OpenRecordSound ==
    ASSUME MaintenanceSound, OpenRecord
    PROVE  MaintenanceSound'
<1>1. /\ operator.pc = "open" /\ operator.command \in {"begin", "pause"} /\ Looked
      /\ operator.names \in SUBSET Names /\ operator.names \subseteq DOMAIN operator.schedules
      /\ WellFormed(operator.schedules)
  BY DEF OpenRecord, CommandSound, MaintenanceSound, TypesSound
<1>2. /\ operator' = [pc |-> "disable", command |-> operator.command,
                      ran |-> operator.ran, names |-> operator.names]
      /\ record' = [phase |-> "entering", schedules |-> operator.schedules,
                    ran |-> operator.ran]
      /\ originally' = (collecting /\ operator.command = "begin")
  BY DEF OpenRecord
<1>3. CountsSound'
  BY <1>2 DEF OpenRecord, OperatorOnly, CountsSound, MaintenanceSound, TypesSound
<1>4. WellFormed(record.schedules)'
  BY <1>1, <1>2 DEF WellFormed, Definitions, Times
<1>5. RecordSound'
  BY <1>1, <1>2, <1>4 DEF RecordSound, Looked, Seen
<1>6. CommandSound' /\ Drained' /\ ComingBack'
  BY <1>1, <1>2 DEF CommandSound, Entering, Rebaselining, Refreshing, Looked, Drained, Planning, ComingBack
<1>7. CollectorSound'
  <2>1. originally' => operator.ran = "running"
    BY <1>1, <1>2 DEF CollectorSound, Status, MaintenanceSound
  <2> QED
    BY <1>2, <2>1 DEF CollectorSound
<1> QED
  BY <1>3, <1>5, <1>6, <1>7, CommandMoves DEF OpenRecord, OperatorOnly

LEMMA DisableSound ==
    ASSUME MaintenanceSound, NEW name \in Names, Disable(name)
    PROVE  MaintenanceSound'
<1>1. CountsSound'
  BY DEF Disable, OperatorOnly, CountsSound, MaintenanceSound, TypesSound
<1>2. CASE name \notin DOMAIN schedules
  BY <1>1, <1>2, CommandStops DEF Disable, OperatorOnly
<1>3. CASE name \in DOMAIN schedules
  <2>1. /\ operator.pc = "disable" /\ record.phase = "entering" /\ Looked
        /\ operator \in [pc : {"snapshot", "disable"}, command : {"begin", "pause"},
                         ran : {operator.ran}, names : SUBSET Names]
        /\ operator.names \subseteq DOMAIN record.schedules
        /\ name \in DOMAIN record.schedules
    BY DEF Disable, CommandSound, MaintenanceSound, TypesSound
  <2>2. WellFormed(record.schedules) /\ WellFormed(schedules)
    BY <2>1 DEF RecordSound, Closed, SchedulesSound, MaintenanceSound, TypesSound
  <2>3. record.schedules[name].at \in Times
    BY <2>1, <2>2, StatesOf
  <2>4. PICK d \in Definitions : d = Rewritten(name, "DISABLED", record.schedules[name].at)
    BY <1>3, <2>2, <2>3, RewrittenIs
  <2>5. PICK t : Replaced(t, schedules, name, d) /\ t = schedules'
    BY <1>3, <2>4 DEF Disable, Replaced
  <2>6. WellFormed(t)
    BY <1>3, <2>2, <2>5, ReplacedIs
  <2>7. WellFormed(schedules)'
    BY <2>5, <2>6 DEF WellFormed, Definitions, Times
  <2>8. SchedulesSound'
    BY <2>7 DEF Disable, OperatorOnly, SchedulesSound, MaintenanceSound, TypesSound
  <2>9. LambdaSound' /\ Drained'
    BY <1>3, <2>1 DEF Disable, OperatorOnly, LambdaSound, Stopped, Drained, Planning,
       MaintenanceSound, TypesSound
  <2>10. record' = record /\ operator' = [operator EXCEPT !.names = @ \ {name}]
    BY <1>3 DEF Disable
  <2>11. CommandSound' /\ ComingBack'
    BY <2>1, <2>10 DEF CommandSound, Entering, Rebaselining, Refreshing, Looked, ComingBack
  <2>12. RecordSound'
    <3>1. \A s : WellFormed(s)' <=> WellFormed(s)
      BY DEF WellFormed, Definitions, Times
    <3> QED
      BY <2>10, <3>1 DEF RecordSound, Closed, MaintenanceSound, TypesSound
  <2>13. CollectorSound'
    BY <2>1, <2>10 DEF Disable, CollectorSound, Open, MaintenanceSound
  <2> QED
    BY <1>1, <2>8, <2>9, <2>11, <2>12, <2>13 DEF MaintenanceSound, TypesSound
<1> QED
  BY <1>2, <1>3

LEMMA DisabledSound ==
    ASSUME MaintenanceSound, Disabled
    PROVE  MaintenanceSound'
<1>1. CountsSound'
  BY DEF Disabled, OperatorOnly, CountsSound, MaintenanceSound, TypesSound
<1>2. CASE operator.command = "pause"
  BY <1>1, <1>2, CommandStops DEF Disabled, OperatorOnly
<1>3. CASE operator.command # "pause"
  <2>1. /\ operator.pc = "disable" /\ record.phase = "entering" /\ Looked
        /\ operator \in [pc : {"snapshot", "disable"}, command : {"begin", "pause"},
                         ran : {operator.ran}, names : SUBSET Names]
    BY DEF Disabled, CommandSound, MaintenanceSound, TypesSound
  <2>2. record' = record /\ operator' = [operator EXCEPT !.pc = "drain"]
    BY <1>3 DEF Disabled
  <2>3. CommandSound' /\ operator'.pc \notin {"restore", "activate", "exit"}
    BY <1>3, <2>1, <2>2 DEF CommandSound, Entering, Rebaselining, Refreshing, Looked
  <2>4. CollectorSound'
    BY <2>1, <2>2 DEF Disabled, CollectorSound, Open, MaintenanceSound
  <2> QED
    BY <1>1, <2>3, <2>4, CommandProceeds DEF Disabled, OperatorOnly
<1> QED
  BY <1>2, <1>3

(* After a drain nothing plans.                                            *)
LEMMA DrainSound ==
    ASSUME MaintenanceSound, Drain
    PROVE  MaintenanceSound'
<1>1. CountsSound'
  BY DEF Drain, OperatorOnly, CountsSound, MaintenanceSound, TypesSound
<1>2. ~Planning
  BY EmptyIsDrained DEF Drain, Planning, Stopped
<1>3. PICK pc \in {"stop", "check", "send live", "stop again", "rebuild"} :
          /\ operator' = [operator EXCEPT !.pc = pc]
          /\ operator.pc \in {"drain", "drain again"} => pc \in {"stop", "check"}
          /\ operator.pc \in {"drain reference", "drain live", "quiesce"} =>
                 pc \in {"send live", "stop again", "rebuild"}
  BY DEF Drain, Drains, CallAfter
<1>4. record' = record /\ operator.pc \in Drains
  BY DEF Drain
<1>5. CommandSound' /\ operator'.pc # "restore"
  <2>1. CASE operator.pc \in {"drain", "drain again"}
    BY <1>3, <1>4, <2>1 DEF CommandSound, Entering, Rebaselining, Refreshing, MaintenanceSound,
       TypesSound
  <2>2. CASE operator.pc \in {"drain reference", "drain live", "quiesce"}
    BY <1>3, <1>4, <2>2 DEF CommandSound, Entering, Rebaselining, Refreshing, MaintenanceSound,
       TypesSound
  <2> QED
    BY <1>4, <2>1, <2>2 DEF Drains
<1>6. CollectorSound'
  BY <1>3, <1>4, <1>5 DEF Drain, CollectorSound, Open, MaintenanceSound, CommandSound,
     Entering, Rebaselining, Refreshing, Drains
<1> QED
  BY <1>1, <1>2, <1>5, <1>6, CommandProceeds DEF Drain, OperatorOnly

LEMMA StopCollectorSound ==
    ASSUME MaintenanceSound, StopCollector
    PROVE  MaintenanceSound'
<1>1. CountsSound'
  BY DEF StopCollector, OperatorOnly, CountsSound, MaintenanceSound, TypesSound
<1>2. /\ operator \in [pc : Entering, command : {"begin"}, ran : Seen, names : SUBSET Names]
      /\ operator.pc = "stop" /\ record.phase = "entering"
  BY DEF StopCollector, CommandSound, Entering, MaintenanceSound, TypesSound
<1>3. record' = record /\ operator' = [operator EXCEPT !.pc = "drain again"]
  BY DEF StopCollector
<1>4. CommandSound' /\ operator'.pc \notin {"restore", "activate", "exit"}
  BY <1>2, <1>3 DEF CommandSound, Entering, Rebaselining, Refreshing
<1>5. CollectorSound'
  BY <1>2, <1>3 DEF StopCollector, CollectorSound, Open, MaintenanceSound
<1> QED
  BY <1>1, <1>4, <1>5, CommandProceeds DEF StopCollector, OperatorOnly

LEMMA CheckSound ==
    ASSUME MaintenanceSound, Check
    PROVE  MaintenanceSound'
<1>1. CountsSound'
  BY DEF Check, OperatorOnly, CountsSound, MaintenanceSound, TypesSound
<1>2. CASE ~QueuesEmpty
  BY <1>1, <1>2, CommandStops DEF Check, OperatorOnly
<1>3. CASE QueuesEmpty
  <2>1. /\ operator \in [pc : Entering, command : {"begin"}, ran : Seen, names : SUBSET Names]
        /\ operator.pc = "check" /\ record.phase = "entering"
    BY DEF Check, CommandSound, Entering, MaintenanceSound, TypesSound
  <2>2. record' = record /\ operator' = [operator EXCEPT !.pc = "activate"]
    BY <1>3 DEF Check
  <2>3. CommandSound' /\ operator'.pc # "restore"
    BY <2>1, <2>2 DEF CommandSound, Entering, Rebaselining, Refreshing
  <2>4. CollectorSound'
    BY <2>1, <2>2 DEF Check, CollectorSound, Open, MaintenanceSound
  <2>5. ~Planning
    BY <1>3, EmptyIsDrained DEF Planning, Stopped
  <2> QED
    BY <1>1, <2>3, <2>4, <2>5, CommandProceeds DEF Check, OperatorOnly
<1> QED
  BY <1>2, <1>3

LEMMA ActivateSound ==
    ASSUME MaintenanceSound, Activate
    PROVE  MaintenanceSound'
<1>1. CountsSound'
  BY DEF Activate, OperatorOnly, CountsSound, MaintenanceSound, TypesSound
<1>2. /\ operator.ran \in Seen /\ record.phase = "entering"
  BY DEF Activate, CommandSound, Entering, MaintenanceSound, TypesSound
<1>3. /\ record \in [phase : {"entering", "active", "exiting"},
                     schedules : {record.schedules}, ran : Seen \cup {"unknown"}]
      /\ WellFormed(record.schedules)
  BY <1>2 DEF RecordSound, Closed, MaintenanceSound, TypesSound
<1>4. PICK ran \in Seen :
          /\ record' = [record EXCEPT !.phase = "active", !.ran = ran]
          /\ record.ran = "running" => ran = "running"
  BY <1>2, <1>3 DEF Activate, Seen
<1>5. WellFormed(record.schedules)'
  BY <1>3, <1>4 DEF WellFormed, Definitions, Times
<1>6. RecordSound' /\ record'.phase = "active"
  BY <1>3, <1>4, <1>5 DEF RecordSound, Seen
<1>7. Drained'
  BY DEF Activate, OperatorOnly, Drained, Planning, MaintenanceSound
<1>8. CommandSound' /\ ComingBack'
  BY DEF Activate, CommandSound, Entering, Rebaselining, Refreshing, ComingBack, Stopped
<1>9. CollectorSound'
  BY <1>2, <1>3, <1>4 DEF Activate, CollectorSound, Stopped, Open, MaintenanceSound
<1> QED
  BY <1>1, <1>6, <1>7, <1>8, <1>9, CommandMoves DEF Activate, OperatorOnly

-----------------------------------------------------------------------------
(* Commands that resume it.                                                *)

LEMMA EndSound ==
    ASSUME MaintenanceSound, End
    PROVE  MaintenanceSound'
<1>1. CountsSound'
  BY DEF End, OperatorOnly, CountsSound, MaintenanceSound, TypesSound
<1>2. operator' = [pc |-> "exit", command |-> "end"] /\ record' = record
      /\ record.phase \in {"active", "exiting"}
  BY DEF End
<1>3. CommandSound' /\ operator'.pc # "restore"
  BY <1>2 DEF CommandSound, Open, Entering, Rebaselining, Refreshing
<1>4. CollectorSound'
  BY <1>2 DEF End, CollectorSound, Open, MaintenanceSound
<1>5. ~Planning
  BY EmptyIsDrained DEF End, Planning, Stopped
<1> QED
  BY <1>1, <1>3, <1>4, <1>5, CommandProceeds DEF End, OperatorOnly

LEMMA RecordIs ==
    ASSUME MaintenanceSound, Open
    PROVE  /\ record \in [phase : {"entering", "active", "exiting"},
                          schedules : {record.schedules}, ran : Seen \cup {"unknown"}]
           /\ WellFormed(record.schedules)
BY DEF RecordSound, Closed, Open, MaintenanceSound, TypesSound

LEMMA ExitingIs ==
    ASSUME MaintenanceSound, Open, record' = [record EXCEPT !.phase = "exiting"]
    PROVE  /\ RecordSound' /\ record'.phase = "exiting"
           /\ record'.ran = record.ran /\ record'.schedules = record.schedules
<1>1. WellFormed(record.schedules)'
  BY RecordIs DEF WellFormed, Definitions, Times
<1> QED
  BY <1>1, RecordIs DEF RecordSound

LEMMA RestoreSound ==
    ASSUME MaintenanceSound, Restore
    PROVE  MaintenanceSound'
<1>1. CountsSound'
  BY DEF Restore, OperatorOnly, CountsSound, MaintenanceSound, TypesSound
<1>2. operator' = [pc |-> "exit", command |-> "restore"] /\ record' = record /\ Open
  BY DEF Restore
<1>3. CommandSound' /\ operator'.pc # "restore"
  BY <1>2 DEF CommandSound, Open, Entering, Rebaselining, Refreshing
<1>4. CollectorSound'
  BY <1>2 DEF Restore, CollectorSound, Open, MaintenanceSound
<1>5. ~Planning
  BY EmptyIsDrained DEF Restore, Planning, Stopped
<1> QED
  BY <1>1, <1>3, <1>4, <1>5, CommandProceeds DEF Restore, OperatorOnly

LEMMA BeginExitSound ==
    ASSUME MaintenanceSound, BeginExit
    PROVE  MaintenanceSound'
<1>1. CountsSound'
  BY DEF BeginExit, OperatorOnly, CountsSound, MaintenanceSound, TypesSound
<1>2. /\ operator.pc = "exit" /\ Open
      /\ operator \in [pc : {"exit", "start"}, command : {"end", "restore"}]
  BY DEF BeginExit, CommandSound, MaintenanceSound, TypesSound
<1>3. /\ RecordSound' /\ record'.phase = "exiting" /\ record'.ran = record.ran
      /\ record'.schedules = record.schedules
  BY <1>2, ExitingIs DEF BeginExit
<1>4. WellFormed(record.schedules) /\ clock \in 0..MaxClock /\ clock \in Nat
  BY <1>2, RecordIs, BoundAssumption DEF SchedulesSound, MaintenanceSound, TypesSound
<1>5. Drained'
  BY <1>2 DEF BeginExit, OperatorOnly, Drained, Planning, MaintenanceSound
<1>6. CommandSound' /\ ComingBack' /\ CollectorSound'
  <2>1. CASE operator.command = "restore"
    <3>1. /\ operator' = [pc |-> "restore", command |-> "restore", now |-> clock,
                          names |-> DOMAIN record.schedules]
          /\ clock' = clock /\ UNCHANGED <<collecting, originally>>
      BY <2>1 DEF BeginExit, Restoring, OperatorOnly
    <3>2. CommandSound'
      BY <1>3, <1>4, <3>1 DEF CommandSound, WellFormed, Entering, Rebaselining, Refreshing
    <3>3. ComingBack' /\ CollectorSound'
      BY <1>2, <1>3, <1>4, <3>1 DEF ComingBack, CollectorSound, MaintenanceSound
    <3> QED
      BY <3>2, <3>3
  <2>2. CASE operator.command # "restore"
    <3>1. operator.command = "end"
      BY <1>2, <2>2
    <3>2. operator' = Stopped \/ operator' = [operator EXCEPT !.pc = "start"]
      BY <2>2 DEF BeginExit
    <3>3. CommandSound' /\ operator'.pc \in {"idle", "start"}
      <4>1. CASE operator' = Stopped
        BY <4>1 DEF CommandSound, Stopped, Entering, Rebaselining, Refreshing
      <4>2. CASE operator' = [operator EXCEPT !.pc = "start"]
        BY <1>2, <1>3, <3>1, <4>2 DEF CommandSound, Open, Entering, Rebaselining, Refreshing
      <4> QED
        BY <3>2, <4>1, <4>2
    <3>4. ComingBack' /\ CollectorSound'
      BY <1>2, <1>3, <3>3 DEF BeginExit, ComingBack, CollectorSound, MaintenanceSound
    <3> QED
      BY <3>3, <3>4
  <2> QED
    BY <2>1, <2>2
<1> QED
  BY <1>1, <1>3, <1>5, <1>6, CommandMoves DEF BeginExit, OperatorOnly

LEMMA StartCollectorSound ==
    ASSUME MaintenanceSound, StartCollector
    PROVE  MaintenanceSound'
<1>1. CountsSound'
  BY DEF StartCollector, OperatorOnly, CountsSound, MaintenanceSound, TypesSound
<1>2. record.phase = "exiting" /\ Open
  BY DEF StartCollector, CommandSound, Open, MaintenanceSound, TypesSound
<1>3. WellFormed(record.schedules) /\ clock \in 0..MaxClock /\ clock \in Nat
  BY <1>2, RecordIs, BoundAssumption DEF SchedulesSound, MaintenanceSound, TypesSound
<1>4. /\ operator' = [pc |-> "restore", command |-> "end", now |-> clock,
                      names |-> DOMAIN record.schedules]
      /\ record' = record /\ clock' = clock
      /\ collecting' = (collecting \/ record.ran = "running") /\ originally' = originally
  BY DEF StartCollector, Restoring, OperatorOnly
<1>5. RecordSound'
  <2>1. \A s : WellFormed(s)' <=> WellFormed(s)
    BY DEF WellFormed, Definitions, Times
  <2> QED
    BY <1>4, <2>1 DEF RecordSound, Closed, MaintenanceSound, TypesSound
<1>6. CommandSound'
  BY <1>2, <1>3, <1>4 DEF CommandSound, Entering, Rebaselining, Refreshing, WellFormed
<1>7. Drained' /\ ComingBack'
  BY <1>3, <1>4 DEF StartCollector, OperatorOnly, Drained, Planning, ComingBack, MaintenanceSound
<1>8. CollectorSound'
  BY <1>2, <1>4 DEF CollectorSound, Open, MaintenanceSound
<1> QED
  BY <1>1, <1>5, <1>6, <1>7, <1>8, CommandMoves DEF StartCollector, OperatorOnly

(* A restored definition has its recorded state, or its window is over.    *)
LEMMA RestoredIs ==
    ASSUME MaintenanceSound, operator.pc = "restore", NEW name \in operator.names,
           name \in DOMAIN schedules
    PROVE  /\ Restored(name) \in Definitions
           /\ \/ Restored(name).state = record.schedules[name].state
              \/ /\ name \in Windows /\ EndOf[name] <= operator.now
                 /\ Restored(name).state = "DISABLED"
<1>1. /\ record.phase = "exiting" /\ operator.now \in 0..MaxClock
      /\ name \in DOMAIN record.schedules /\ name \in Names
  BY DEF CommandSound, MaintenanceSound, TypesSound
<1>2. WellFormed(record.schedules) /\ WellFormed(schedules)
  BY <1>1, RecordIs DEF Open, SchedulesSound, MaintenanceSound, TypesSound
<1>3. PICK was : /\ was = record.schedules[name]
                 /\ was.state \in {"ENABLED", "DISABLED"} /\ was.at \in Times
  BY <1>1, <1>2, StatesOf
<1>4. \A state \in {"ENABLED", "DISABLED"}, at \in Times :
          Rewritten(name, state, at) \in Definitions /\ Rewritten(name, state, at).state = state
  BY <1>2, RewrittenIs
<1>5. operator.now + 1 \in Times
  <2>1. MaxClock \in Nat
    BY BoundAssumption
  <2> QED
    BY <1>1, <2>1 DEF Times
<1>6. \/ Restored(name) = Rewritten(name, was.state, was.at)
      \/ /\ name # Reference /\ EndOf[name] <= operator.now
         /\ Restored(name) = Rewritten(name, "DISABLED", was.at)
      \/ /\ was.state # "DISABLED"
         /\ Restored(name) = Rewritten(name, "ENABLED", operator.now + 1)
  BY <1>3 DEF Restored
<1>7. name # Reference => name \in Windows
  BY <1>1 DEF Names
<1> QED
  BY <1>3, <1>4, <1>5, <1>6, <1>7

LEMMA RestoreOneSound ==
    ASSUME MaintenanceSound, NEW name \in Names, RestoreOne(name)
    PROVE  MaintenanceSound'
<1>1. CountsSound'
  BY DEF RestoreOne, OperatorOnly, CountsSound, MaintenanceSound, TypesSound
<1>2. CASE name \notin DOMAIN schedules
  BY <1>1, <1>2, CommandStops DEF RestoreOne, OperatorOnly
<1>3. CASE name \in DOMAIN schedules
  <2>1. /\ operator.pc = "restore" /\ name \in operator.names /\ record.phase = "exiting"
        /\ operator \in [pc : {"restore"}, command : {"end", "restore"},
                         now : 0..MaxClock, names : SUBSET Names]
        /\ operator.names \subseteq DOMAIN record.schedules
        /\ WellFormed(schedules)
    BY DEF RestoreOne, CommandSound, SchedulesSound, MaintenanceSound, TypesSound
  <2>2. PICK d \in Definitions :
            /\ d = Restored(name)
            /\ \/ d.state = record.schedules[name].state
               \/ name \in Windows /\ EndOf[name] <= operator.now /\ d.state = "DISABLED"
    BY <1>3, <2>1, RestoredIs
  <2>3. PICK t : Replaced(t, schedules, name, d) /\ t = schedules'
    BY <1>3, <2>2 DEF RestoreOne, Replaced
  <2>4. /\ WellFormed(t) /\ DOMAIN t = DOMAIN schedules /\ t[name] = d
        /\ \A m \in DOMAIN schedules \ {name} : t[m] = schedules[m]
    BY <1>3, <2>1, <2>3, ReplacedIs
  <2>5. WellFormed(schedules)'
    BY <2>3, <2>4 DEF WellFormed, Definitions, Times
  <2>6. SchedulesSound'
    BY <2>5 DEF RestoreOne, OperatorOnly, SchedulesSound, MaintenanceSound, TypesSound
  <2>7. LambdaSound' /\ Drained'
    BY <1>3, <2>1 DEF RestoreOne, OperatorOnly, LambdaSound, Stopped, Drained, Planning,
       MaintenanceSound, TypesSound
  <2>8. record' = record /\ operator' = [operator EXCEPT !.names = @ \ {name}]
    BY <1>3 DEF RestoreOne
  <2>9. /\ operator'.names = operator.names \ {name} /\ operator'.now = operator.now
        /\ operator'.pc = "restore" /\ operator'.command = operator.command
        /\ operator' \in [pc : {"restore"}, command : {"end", "restore"},
                         now : 0..MaxClock, names : SUBSET Names]
    BY <2>1, <2>8
  <2>10. CommandSound'
    BY <2>1, <2>8, <2>9 DEF CommandSound, Entering, Rebaselining, Refreshing
  <2>11. RecordSound'
    <3>1. \A s : WellFormed(s)' <=> WellFormed(s)
      BY DEF WellFormed, Definitions, Times
    <3> QED
      BY <2>8, <3>1 DEF RecordSound, Closed, MaintenanceSound, TypesSound
  <2>12. CollectorSound'
    BY <2>1, <2>8, <2>9 DEF RestoreOne, CollectorSound, Open, MaintenanceSound
  <2>13. ComingBack'
    <3>1. operator.now <= clock /\ \A n \in DOMAIN record.schedules \ operator.names : CameBack(n)
      BY <2>1 DEF ComingBack, MaintenanceSound
    <3>2. clock' = clock
      BY DEF RestoreOne, OperatorOnly
    <3>3. ASSUME NEW n \in DOMAIN record.schedules, n \notin operator'.names
          PROVE  CameBack(n)'
      <4>1. CASE n = name
        BY <1>3, <2>2, <2>3, <2>4, <2>8, <2>9, <4>1 DEF CameBack
      <4>2. CASE n # name
        <5>1. CameBack(n)
          BY <2>9, <3>1, <3>3, <4>2
        <5> QED
          BY <2>3, <2>4, <2>8, <2>9, <4>2, <5>1 DEF CameBack
      <4> QED
        BY <4>1, <4>2
    <3> QED
      BY <2>8, <2>9, <3>1, <3>2, <3>3 DEF ComingBack
  <2> QED
    BY <1>1, <2>6, <2>7, <2>10, <2>11, <2>12, <2>13 DEF MaintenanceSound, TypesSound
<1> QED
  BY <1>2, <1>3

LEMMA CloseSound ==
    ASSUME MaintenanceSound, Close
    PROVE  MaintenanceSound'
<1>1. CountsSound'
  BY DEF Close, OperatorOnly, CountsSound, MaintenanceSound, TypesSound
<1>2. record' = Closed /\ record'.phase = "none"
  BY DEF Close, Closed
<1>3. operator' = Stopped \/ operator' = [pc |-> "catch up", command |-> "end"]
  BY DEF Close
<1>4. operator'.pc \in {"idle", "catch up"} /\ (operator'.pc = "idle" => operator' = Stopped)
  <2>1. CASE operator' = Stopped
    BY <2>1 DEF Stopped
  <2>2. CASE operator' = [pc |-> "catch up", command |-> "end"]
    BY <2>2
  <2> QED
    BY <1>3, <2>1, <2>2
<1>5. RecordSound' /\ Drained' /\ ComingBack'
  BY <1>2, <1>4 DEF RecordSound, Closed, Drained, Planning, ComingBack
<1>6. CommandSound'
  BY <1>2, <1>4 DEF CommandSound, Entering, Rebaselining, Refreshing, Open
<1>7. CollectorSound'
  BY <1>2, <1>4 DEF CollectorSound, Open
<1> QED
  BY <1>1, <1>5, <1>6, <1>7, CommandMoves DEF Close, OperatorOnly

LEMMA SendReferenceSound ==
    ASSUME MaintenanceSound, SendReference
    PROVE  MaintenanceSound'
<1>1. CountsSound'
  BY DEF SendReference, OperatorOnly, CountsSound, Names, MaintenanceSound, TypesSound
<1> QED
  BY <1>1, CommandStops DEF SendReference, OperatorOnly

-----------------------------------------------------------------------------
(* Rebaseline, and commands that are cut short.                            *)

(* A rebaseline goes on in the active window.                              *)
LEMMA RebaselineMoves ==
    ASSUME MaintenanceSound, record.phase = "active",
           UNCHANGED <<clock, planned, schedules, results, lambda, record, originally>>,
           operator' \in [pc : Rebaselining, command : {"rebaseline"}],
           CountsSound'
    PROVE  MaintenanceSound'
<1>1. CommandSound' /\ operator'.pc \notin {"restore", "activate", "exit"}
  BY DEF CommandSound, Entering, Rebaselining, Refreshing
<1>2. CollectorSound'
  BY DEF CollectorSound, Open, MaintenanceSound, Rebaselining, Refreshing
<1> QED
  BY <1>1, <1>2, CommandProceeds

LEMMA RebaselineSound ==
    ASSUME MaintenanceSound, NEW refresh \in BOOLEAN, Rebaseline(refresh)
    PROVE  MaintenanceSound'
<1>1. CountsSound'
  <2>1. budget' \in [firings : Nat, replans : Nat, rebaselines : Nat, crashes : Nat]
    <3>1. budget.rebaselines > 0 /\ budget' = [budget EXCEPT !.rebaselines = @ - 1]
      BY DEF Rebaseline
    <3>2. budget \in [firings : Nat, replans : Nat, rebaselines : Nat, crashes : Nat]
      BY DEF CountsSound, MaintenanceSound, TypesSound
    <3> QED
      BY <3>1, <3>2
  <2>2. collecting' \in BOOLEAN
    BY DEF Rebaseline
  <2> QED
    BY <2>1, <2>2 DEF Rebaseline, OperatorOnly, CountsSound, MaintenanceSound, TypesSound
<1>2. operator' \in [pc : Rebaselining, command : {"rebaseline"}]
  BY DEF Rebaseline, Rebaselining, Refreshing
<1> QED
  BY <1>1, <1>2, RebaselineMoves DEF Rebaseline, OperatorOnly

LEMMA RebaselineIs ==
    ASSUME MaintenanceSound,
           operator.pc \in Rebaselining
    PROVE  /\ operator \in [pc : Rebaselining, command : {"rebaseline"}]
           /\ record.phase = "active"
BY DEF CommandSound, MaintenanceSound, TypesSound

LEMMA RefreshReferenceSound ==
    ASSUME MaintenanceSound, RefreshReference
    PROVE  MaintenanceSound'
<1>1. CountsSound'
  BY DEF RefreshReference, OperatorOnly, CountsSound, Names, MaintenanceSound, TypesSound
<1>2. operator' \in [pc : Rebaselining, command : {"rebaseline"}]
  BY RebaselineIs DEF RefreshReference, Rebaselining, Refreshing
<1> QED
  BY <1>1, <1>2, RebaselineIs, RebaselineMoves DEF RefreshReference, OperatorOnly, Rebaselining, Refreshing

LEMMA RefreshLiveSound ==
    ASSUME MaintenanceSound, NEW w \in Windows, RefreshLive(w)
    PROVE  MaintenanceSound'
<1>1. CountsSound'
  BY DEF RefreshLive, OperatorOnly, CountsSound, Names, MaintenanceSound, TypesSound
<1>2. operator' \in [pc : Rebaselining, command : {"rebaseline"}]
  BY RebaselineIs DEF RefreshLive, Rebaselining, Refreshing
<1> QED
  BY <1>1, <1>2, RebaselineIs, RebaselineMoves DEF RefreshLive, OperatorOnly, Rebaselining, Refreshing

LEMMA StopAfterRefreshSound ==
    ASSUME MaintenanceSound, StopAfterRefresh
    PROVE  MaintenanceSound'
<1>1. CountsSound'
  BY DEF StopAfterRefresh, OperatorOnly, CountsSound, MaintenanceSound, TypesSound
<1>2. operator' \in [pc : Rebaselining, command : {"rebaseline"}]
  BY RebaselineIs DEF StopAfterRefresh, Rebaselining, Refreshing
<1> QED
  BY <1>1, <1>2, RebaselineIs, RebaselineMoves DEF StopAfterRefresh, OperatorOnly, Rebaselining, Refreshing

LEMMA CutShortSound ==
    ASSUME MaintenanceSound, RefreshFails \/ Rebuild \/ Crash
    PROVE  MaintenanceSound'
<1>1. CASE RefreshFails
  <2>1. CountsSound'
    <3>1. budget.crashes > 0 /\ budget' = [budget EXCEPT !.crashes = @ - 1]
          /\ collecting' = FALSE
      BY <1>1 DEF RefreshFails
    <3>2. budget \in [firings : Nat, replans : Nat, rebaselines : Nat, crashes : Nat]
      BY DEF CountsSound, MaintenanceSound, TypesSound
    <3>3. budget' \in [firings : Nat, replans : Nat, rebaselines : Nat, crashes : Nat]
      BY <3>1, <3>2
    <3>4. UNCHANGED <<fetch, results, originally>>
      BY <1>1 DEF RefreshFails, OperatorOnly
    <3> QED
      BY <3>1, <3>3, <3>4 DEF CountsSound, MaintenanceSound, TypesSound
  <2> QED
    BY <1>1, <2>1, CommandStops DEF RefreshFails, OperatorOnly
<1>2. CASE Rebuild
  <2>1. CountsSound'
    BY <1>2 DEF Rebuild, OperatorOnly, CountsSound, MaintenanceSound, TypesSound
  <2> QED
    BY <1>2, <2>1, CommandStops DEF Rebuild, OperatorOnly
<1>3. CASE Crash
  <2>1. CountsSound'
    BY <1>3 DEF Crash, OperatorOnly, CountsSound, MaintenanceSound, TypesSound
  <2> QED
    BY <1>3, <2>1, CommandStops DEF Crash, OperatorOnly
<1> QED
  BY <1>1, <1>2, <1>3

-----------------------------------------------------------------------------
(* The inductive invariant.                                                *)

LEMMA InitSound ==
    ASSUME Init
    PROVE  MaintenanceSound
<1>1. MaxClock \in Nat /\ 0 \in 0..MaxClock
  BY BoundAssumption
<1>2. /\ clock = 0 /\ planned = Windows /\ fetch = {} /\ results = {} /\ lambda = Stopped
      /\ operator = Stopped /\ record = Closed
  BY DEF Init
<1>3. collecting \in BOOLEAN /\ originally \in BOOLEAN
  BY CommandAssumption DEF Init
<1>4. budget \in [firings : Nat, replans : Nat, rebaselines : Nat, crashes : Nat]
  BY BoundAssumption DEF Init
<1>5. WellFormed(schedules)
  <2>1. Recurring("ENABLED") \in Definitions
    BY <1>1 DEF Recurring, Definitions, Times
  <2>2. ASSUME NEW n \in Names, n # Reference
        PROVE  OneTime("ENABLED", ScheduleAt(n, 0)) \in Definitions
    BY <1>1, <2>2, ScheduleAtIs DEF OneTime, Definitions, Names
  <2>3. PICK f \in [Names -> Definitions] : f = schedules
    BY <2>1, <2>2 DEF Init
  <2> QED
    BY <2>3 DEF WellFormed, Names
<1>6. TypesSound
  <2>1. SchedulesSound
    BY <1>1, <1>2, <1>5 DEF SchedulesSound
  <2>2. CountsSound
    BY <1>2, <1>3, <1>4 DEF CountsSound
  <2>3. LambdaSound /\ RecordSound /\ CommandSound
    BY <1>2 DEF LambdaSound, RecordSound, CommandSound, Entering, Rebaselining, Refreshing, Stopped
  <2> QED
    BY <2>1, <2>2, <2>3 DEF TypesSound
<1>7. Drained /\ ComingBack /\ CollectorSound
  BY <1>2 DEF Drained, Planning, ComingBack, CollectorSound, Stopped, Closed, Open
<1> QED
  BY <1>6, <1>7 DEF MaintenanceSound

LEMMA ProceedSound ==
    ASSUME MaintenanceSound, Proceed
    PROVE  MaintenanceSound'
BY SnapshotSound, OpenRecordSound, DisabledSound, DrainSound, StopCollectorSound, CheckSound, ActivateSound,
   BeginExitSound, StartCollectorSound, CloseSound, SendReferenceSound,
   RefreshReferenceSound, StopAfterRefreshSound, CutShortSound, DisableSound,
   RestoreOneSound, RefreshLiveSound DEF Proceed

LEMMA NextSound ==
    ASSUME MaintenanceSound, [Next]_vars
    PROVE  MaintenanceSound'
<1>1. CASE Next
  BY <1>1, ProceedSound, EndSound, RestoreSound, PauseSound, RebaselineSound,
     LambdaStepSound, CollectSound, FireWindowSound, FireReferenceSound, CutShortSound,
     InvocationFailsSound, ReplanSound, TickSound DEF Next
<1>2. CASE UNCHANGED vars
  <2>1. CountsSound'
    BY <1>2 DEF vars, CountsSound, MaintenanceSound, TypesSound
  <2>2. LambdaSound' /\ Drained'
    BY <1>2 DEF vars, LambdaSound, Stopped, Drained, Planning, MaintenanceSound, TypesSound
  <2> QED
    BY <1>2, <2>1, <2>2, StaysSound DEF vars
<1> QED
  BY <1>1, <1>2

LEMMA SoundHolds == Spec => []MaintenanceSound
BY InitSound, NextSound, PTL DEF Spec

(* Schedules, jobs, the row and the invocation have their types, an active *)
(* row knows whether the collector ran, and the invocation's result is     *)
(* still in its queue.                                                     *)
THEOREM TypesHold == Spec => []TypeOK
<1>1. ASSUME MaintenanceSound PROVE TypeOK
  <2>1. clock \in 0..MaxClock /\ planned \subseteq Windows /\ WellFormed(schedules)
    BY <1>1 DEF SchedulesSound, MaintenanceSound, TypesSound
  <2>2. \A n \in DOMAIN schedules :
            /\ schedules[n].state \in {"ENABLED", "DISABLED"}
            /\ schedules[n].at \in 0..(MaxClock + 1) \cup {StartOf[w] : w \in Windows}
            /\ schedules[n].fired \in BOOLEAN
    BY <2>1, StatesOf DEF Times
  <2>3. /\ fetch \subseteq Names /\ results \subseteq Names
        /\ collecting \in BOOLEAN /\ originally \in BOOLEAN
        /\ lambda # Stopped => lambda.job \in results
    BY <1>1 DEF CountsSound, LambdaSound, MaintenanceSound, TypesSound
  <2>4. /\ record.phase \in {"none", "entering", "active", "exiting"}
        /\ Open => record.ran \in {"running", "stopped", "unknown"}
        /\ record.phase = "active" => record.ran # "unknown"
    BY <1>1 DEF RecordSound, Closed, Open, Seen, MaintenanceSound, TypesSound
  <2> QED
    BY <2>1, <2>2, <2>3, <2>4 DEF TypeOK, WellFormed
<1> QED
  BY <1>1, SoundHolds, PTL

-----------------------------------------------------------------------------
(* Who writes schedules.                                                   *)

LEMMA Owned ==
    ASSUME MaintenanceSound, [Next]_vars, record.phase \in {"active", "exiting"},
           schedules' # schedules
    PROVE  \/ operator.pc = "restore"
           \/ \E w \in Windows : Due(w)
                 /\ schedules' = [schedules EXCEPT ![w].fired = TRUE]
<1>1. ~LambdaStep
  <2>1. lambda.pc # "reconcile"
    BY DEF Drained, Planning, MaintenanceSound
  <2>2. \A w \in Windows : ~DeleteObsolete(w) /\ ~Ensure(w)
    BY <2>1 DEF DeleteObsolete, Ensure
  <2>3. ~ReadFlag /\ ~Requeue /\ ~List /\ ~Return /\ \A job \in Names : ~Ingest(job)
    BY DEF ReadFlag, Requeue, List, Return, Ingest
  <2> QED
    BY <2>2, <2>3 DEF LambdaStep
<1>2. ASSUME Proceed PROVE operator.pc = "restore"
  <2>1. \A name \in Names : ~Disable(name)
    BY DEF Disable, CommandSound, MaintenanceSound, TypesSound
  <2>2. ~Snapshot /\ ~OpenRecord /\ ~Disabled /\ ~Drain /\ ~Check /\ ~StopCollector /\ ~Activate
    BY DEF Snapshot, OpenRecord, Disabled, Drain, Check, StopCollector, Activate
  <2>3. ~BeginExit /\ ~StartCollector /\ ~Close /\ ~SendReference
    BY DEF BeginExit, StartCollector, Close, SendReference
  <2>4. /\ ~RefreshReference /\ ~StopAfterRefresh /\ ~Rebuild
        /\ \A w \in Windows : ~RefreshLive(w)
    BY DEF RefreshReference, StopAfterRefresh, Rebuild, RefreshLive
  <2>5. \A name \in Names : RestoreOne(name) => operator.pc = "restore"
    BY DEF RestoreOne
  <2> QED
    BY <1>2, <2>1, <2>2, <2>3, <2>4, <2>5 DEF Proceed
<1>3. ~End /\ ~Restore /\ (\A c \in Commands : ~Pause(c)) /\ \A r \in BOOLEAN : ~Rebaseline(r)
  BY DEF End, Restore, Pause, Rebaseline
<1>4. /\ ~FireReference /\ ~RefreshFails /\ ~Crash /\ ~InvocationFails /\ ~Tick
      /\ (\A job \in Names : ~Collect(job)) /\ \A ws \in SUBSET Windows : ~Replan(ws)
  BY DEF FireReference, RefreshFails, Crash, InvocationFails, Tick, Collect, Replan
<1>5. \A w \in Windows : FireWindow(w) =>
          Due(w) /\ schedules' = [schedules EXCEPT ![w].fired = TRUE]
  BY DEF FireWindow
<1>6. Next
  BY DEF vars
<1> QED
  BY <1>1, <1>2, <1>3, <1>4, <1>5, <1>6 DEF Next

(* From activation to the closing of the row no invocation writes a        *)
(* schedule: whatever the windows, the commands and where they are cut     *)
(* short, the drain has outlasted every earlier look at the flag.          *)
THEOREM SchedulesOwned == Spec => OperatorOwnsSchedules
<1>1. MaintenanceSound /\ [Next]_vars =>
          [(record.phase \in {"active", "exiting"} /\ schedules' # schedules) =>
              \/ operator.pc = "restore"
              \/ \E w \in Windows : Due(w)
                    /\ schedules' = [schedules EXCEPT ![w].fired = TRUE]]_vars
  BY Owned
<1> QED
  BY <1>1, SoundHolds, PTL DEF Spec, OperatorOwnsSchedules

-----------------------------------------------------------------------------
(* Closing the row.                                                        *)

LEMMA OnlyCloseCloses ==
    ASSUME MaintenanceSound, [Next]_vars, Open, record'.phase = "none"
    PROVE  Close
<1>1. record' # record
  BY DEF Open
<1>2. ~LambdaStep
  <2>1. \A w \in Windows : ~DeleteObsolete(w) /\ ~Ensure(w)
    BY <1>1 DEF DeleteObsolete, Ensure, LambdaOnly
  <2>2. ~ReadFlag /\ ~Requeue /\ ~List /\ ~Return /\ \A job \in Names : ~Ingest(job)
    BY <1>1 DEF ReadFlag, Requeue, List, Return, Ingest, LambdaOnly
  <2> QED
    BY <2>1, <2>2 DEF LambdaStep
<1>3. ASSUME Proceed PROVE Close
  <2>1. \A name \in Names : ~Disable(name) /\ ~RestoreOne(name)
    BY <1>1 DEF Disable, RestoreOne
  <2>2. ~Snapshot /\ ~Disabled /\ ~Drain /\ ~Check /\ ~StopCollector /\ ~StartCollector /\ ~SendReference
    BY <1>1 DEF Snapshot, Disabled, Drain, Check, StopCollector, StartCollector, SendReference
  <2>3. /\ ~RefreshReference /\ ~StopAfterRefresh /\ ~Rebuild
        /\ \A w \in Windows : ~RefreshLive(w)
    BY <1>1 DEF RefreshReference, StopAfterRefresh, Rebuild, RefreshLive
  <2>4. ~OpenRecord
    BY DEF OpenRecord
  <2>5. ~BeginExit
    BY RecordIs DEF BeginExit
  <2>6. ASSUME Activate PROVE FALSE
    <3>1. PICK ran : record' = [record EXCEPT !.phase = "active", !.ran = ran]
      BY <2>6 DEF Activate
    <3> QED
      BY <3>1, RecordIs
  <2> QED
    BY <1>3, <2>1, <2>2, <2>3, <2>4, <2>5, <2>6 DEF Proceed
<1>4. ~End /\ (\A c \in Commands : ~Pause(c)) /\ \A r \in BOOLEAN : ~Rebaseline(r)
  BY <1>1 DEF End, Pause, Rebaseline
<1>5. ~Restore
  BY RecordIs DEF Restore
<1>6. /\ ~FireReference /\ ~RefreshFails /\ ~Crash /\ ~InvocationFails /\ ~Tick
      /\ (\A job \in Names : ~Collect(job)) /\ (\A w \in Windows : ~FireWindow(w))
      /\ \A ws \in SUBSET Windows : ~Replan(ws)
  BY <1>1 DEF FireReference, RefreshFails, Crash, InvocationFails, Tick, Collect,
     FireWindow, Replan
<1>7. Next
  BY <1>1 DEF vars
<1> QED
  BY <1>2, <1>3, <1>4, <1>5, <1>6, <1>7 DEF Next

LEMMA ClosedRestored ==
    ASSUME MaintenanceSound, [Next]_vars, Open, record'.phase = "none",
           NEW n \in DOMAIN record.schedules
    PROVE  LET was == record.schedules[n].state
           IN  IF n \in Windows /\ EndOf[n] <= clock
               THEN was = "DISABLED" => schedules[n].state = "DISABLED"
               ELSE schedules[n].state = was
<1>1. operator.pc = "restore" /\ operator.names = {}
  BY OnlyCloseCloses DEF Close
<1>2. CameBack(n) /\ operator.now <= clock
  BY <1>1 DEF ComingBack, MaintenanceSound
<1>3. operator.now \in Nat /\ clock \in Nat
  BY <1>1, BoundAssumption DEF CommandSound, SchedulesSound, MaintenanceSound, TypesSound
<1>4. n \in Windows => EndOf[n] \in Nat
  BY WindowsAreNotReference
<1> QED
  BY <1>2, <1>3, <1>4 DEF CameBack

(* However often begin and end were cut short and given again, closing the *)
(* row finds every recorded schedule back in its state, or its window over *)
(* and disabled.                                                           *)
THEOREM StatesCameBack == Spec => StatesComeBack
<1>1. MaintenanceSound /\ [Next]_vars =>
          [(Open /\ record'.phase = "none") =>
              \A n \in DOMAIN record.schedules :
                  LET was == record.schedules[n].state
                  IN  IF n \in Windows /\ EndOf[n] <= clock
                      THEN was = "DISABLED" => schedules[n].state = "DISABLED"
                      ELSE schedules[n].state = was]_vars
  BY ClosedRestored
<1> QED
  BY <1>1, SoundHolds, PTL DEF Spec, StatesComeBack

LEMMA ClosedCollecting ==
    ASSUME MaintenanceSound, [Next]_vars, Open, record'.phase = "none",
           operator.command = "end", originally
    PROVE  collecting
BY OnlyCloseCloses DEF Close, CollectorSound, MaintenanceSound

(* A collector that ran when begin opened the row runs when end closes it, *)
(* though begin may have stopped it and been given again.                  *)
THEOREM CollectorIsRestored == Spec => CollectorRestored
<1>1. MaintenanceSound /\ [Next]_vars =>
          [(Open /\ record'.phase = "none" /\ operator.command = "end" /\ originally) =>
              collecting]_vars
  BY ClosedCollecting
<1> QED
  BY <1>1, SoundHolds, PTL DEF Spec, CollectorRestored

-----------------------------------------------------------------------------
(* Rebaseline.                                                             *)

(* Between begin's look at the collector and its stop nothing moves it;    *)
(* from then on only a refresh has it run, or one that was cut short.      *)
CollectorStopped ==
    /\ operator.pc \in {"snapshot", "open", "disable", "drain", "stop"}
           /\ operator.command = "begin" => operator.ran = Status
    /\ operator.pc \in {"drain again", "check", "activate"} => ~collecting
    /\ record.phase = "active" /\ collecting => CutShort \/ operator.pc \in Refreshing

(* A stopped collector keeps the result queue empty after the drain.       *)
StaysQuiet == operator.pc = "rebuild" /\ ~collecting => results = {}

QuietSound == CollectorStopped /\ StaysQuiet /\ budget.crashes <= MaxCrashes

LEMMA BudgetIs ==
    ASSUME MaintenanceSound
    PROVE  /\ budget \in [firings : Nat, replans : Nat, rebaselines : Nat, crashes : Nat]
           /\ budget.crashes \in Nat /\ MaxCrashes \in Nat
BY BoundAssumption DEF CountsSound, MaintenanceSound, TypesSound

(* The operator rests.                                                     *)
LEMMA QuietRests ==
    ASSUME MaintenanceSound, QuietSound, UNCHANGED <<record, operator, collecting>>,
           budget' = budget \/ budget'.crashes = budget.crashes
               \/ budget' = [budget EXCEPT !.crashes = @ - 1],
           results' \subseteq results \/ collecting
    PROVE  QuietSound'
<1>1. budget'.crashes = budget.crashes \/ budget'.crashes = budget.crashes - 1
  BY BudgetIs
<1>2. CutShort => CutShort'
  BY <1>1, BudgetIs DEF CutShort
<1>3. CollectorStopped'
  BY <1>2 DEF QuietSound, CollectorStopped, Status
<1>4. StaysQuiet'
  BY DEF QuietSound, StaysQuiet
<1>5. budget'.crashes <= MaxCrashes
  BY <1>1, BudgetIs DEF QuietSound
<1> QED
  BY <1>3, <1>4, <1>5 DEF QuietSound

(* No command is under way, or one that neither looks nor rebaselines.     *)
LEMMA QuietAside ==
    ASSUME MaintenanceSound, QuietSound,
           operator'.pc \in {"idle", "exit", "start", "restore", "catch up"},
           record'.phase = "active" /\ collecting' =>
               record.phase = "active" /\ collecting /\ operator.pc \notin Refreshing,
           UNCHANGED budget
    PROVE  QuietSound'
BY DEF QuietSound, CollectorStopped, StaysQuiet, CutShort, Refreshing

LEMMA QuietCrash ==
    ASSUME MaintenanceSound, QuietSound, budget.crashes > 0,
           budget' = [budget EXCEPT !.crashes = @ - 1], operator' = Stopped
    PROVE  QuietSound'
<1>1. budget'.crashes = budget.crashes - 1
  BY BudgetIs
<1>2. budget.crashes <= MaxCrashes
  BY DEF QuietSound
<1>3. CutShort' /\ budget'.crashes <= MaxCrashes
  BY <1>1, <1>2, BudgetIs DEF CutShort
<1>4. CollectorStopped' /\ StaysQuiet'
  BY <1>3 DEF CollectorStopped, StaysQuiet, Stopped
<1> QED
  BY <1>3, <1>4 DEF QuietSound

LEMMA QuietWorld ==
    ASSUME MaintenanceSound, QuietSound,
           \/ LambdaStep \/ FireReference \/ InvocationFails \/ Tick
           \/ \E job \in Names : Collect(job)
           \/ \E w \in Windows : FireWindow(w)
           \/ \E windows \in SUBSET Windows : Replan(windows)
    PROVE  QuietSound'
<1>1. ASSUME LambdaStep
      PROVE  UNCHANGED <<record, operator, collecting, budget>> /\ results' \subseteq results
  BY <1>1 DEF LambdaStep, Ingest, ReadFlag, Requeue, List, Return, DeleteObsolete, Ensure,
     LambdaOnly, queues
<1>2. ASSUME \/ FireReference \/ \E windows \in SUBSET Windows : Replan(windows)
      PROVE  /\ UNCHANGED <<record, operator, collecting, results>>
             /\ budget'.crashes = budget.crashes
  BY <1>2, BudgetIs DEF FireReference, Replan, queues
<1>3. ASSUME InvocationFails
      PROVE  /\ UNCHANGED <<record, operator, collecting, results>>
             /\ budget' = [budget EXCEPT !.crashes = @ - 1]
  BY <1>3 DEF InvocationFails, queues
<1>4. ASSUME Tick \/ \E w \in Windows : FireWindow(w)
      PROVE  UNCHANGED <<record, operator, collecting, results, budget>>
  BY <1>4 DEF Tick, FireWindow, queues
<1>5. ASSUME \E job \in Names : Collect(job)
      PROVE  UNCHANGED <<record, operator, collecting, budget>> /\ collecting
  BY <1>5 DEF Collect
<1> QED
  BY <1>1, <1>2, <1>3, <1>4, <1>5, QuietRests

LEMMA QuietBegin ==
    ASSUME MaintenanceSound, QuietSound,
           \/ Snapshot \/ OpenRecord \/ Disabled \/ Drain \/ StopCollector \/ Check \/ Activate
           \/ \E command \in Commands : Pause(command)
           \/ \E name \in Names : Disable(name)
    PROVE  QuietSound'
<1>1. CASE \E command \in Commands : Pause(command)
  <2>1. PICK command : Pause(command)
    BY <1>1
  <2>2. /\ operator'.pc \in {"disable", "snapshot"} /\ operator'.command = command
        /\ command = "begin" => operator'.ran = Status
        /\ UNCHANGED <<collecting, record, budget>>
    BY <2>1 DEF Pause
  <2>3. record.phase # "active"
    BY <2>1 DEF Pause
  <2> QED
    BY <2>2, <2>3 DEF QuietSound, CollectorStopped, StaysQuiet, Status
<1>2. CASE Snapshot \/ OpenRecord
  <2>1. /\ operator'.pc \in {"open", "disable"} /\ operator'.command = operator.command
        /\ operator'.ran = operator.ran /\ operator.pc \in {"snapshot", "open"}
        /\ record'.phase # "active" /\ UNCHANGED <<collecting, budget>>
    <3>1. CASE Snapshot
      <4>1. operator.pc = "snapshot" /\ record.phase = "none"
        BY <3>1 DEF Snapshot, CommandSound, MaintenanceSound, TypesSound
      <4>2. record' = record
        BY <3>1 DEF Snapshot
      <4> QED
        BY <3>1, <4>1, <4>2 DEF Snapshot
    <3>2. CASE OpenRecord
      BY <3>2 DEF OpenRecord
    <3> QED
      BY <1>2, <3>1, <3>2
  <2> QED
    BY <2>1 DEF QuietSound, CollectorStopped, StaysQuiet, Status
<1>3. CASE Disabled \/ \E name \in Names : Disable(name)
  <2>1. /\ operator.pc = "disable" /\ record.phase = "entering"
        /\ operator \in [pc : {"snapshot", "disable"}, command : {"begin", "pause"},
                         ran : {operator.ran}, names : SUBSET Names]
        /\ UNCHANGED <<collecting, record, budget>>
    BY <1>3 DEF Disabled, Disable, CommandSound, MaintenanceSound, TypesSound
  <2>2. \/ operator' = Stopped
        \/ \E names : operator' = [operator EXCEPT !.names = names]
        \/ operator' = [operator EXCEPT !.pc = "drain"]
    BY <1>3 DEF Disabled, Disable
  <2>3. CASE operator' = Stopped
    BY <2>1, <2>3, QuietAside DEF Stopped
  <2>4. CASE operator' # Stopped
    <3>1. /\ operator'.pc \in {"disable", "drain"} /\ operator'.command = operator.command
          /\ operator'.ran = operator.ran
      BY <2>1, <2>2, <2>4
    <3> QED
      BY <2>1, <3>1 DEF QuietSound, CollectorStopped, StaysQuiet, Status
  <2> QED
    BY <2>3, <2>4
<1>4. CASE Drain
  <2>1. results = {} /\ UNCHANGED <<collecting, record, budget, results>>
    BY <1>4, EmptyIsDrained DEF Drain, OperatorOnly
  <2>2. PICK pc : /\ operator' = [operator EXCEPT !.pc = pc] /\ pc = CallAfter(operator.pc)
                  /\ operator.pc \in Drains
    BY <1>4 DEF Drain
  <2>3. CASE operator.pc \in {"drain", "drain again"}
    <3>1. /\ operator \in [pc : Entering, command : {"begin"}, ran : Seen, names : SUBSET Names]
          /\ record.phase = "entering"
      BY <2>3 DEF CommandSound, Entering, MaintenanceSound, TypesSound
    <3>2. /\ operator'.pc = pc /\ operator'.ran = operator.ran /\ operator.command = "begin"
          /\ operator.pc = "drain" => pc = "stop"
          /\ operator.pc = "drain again" => pc = "check"
      BY <2>2, <3>1, <2>3 DEF CallAfter
    <3> QED
      BY <2>1, <2>3, <3>1, <3>2 DEF QuietSound, CollectorStopped, StaysQuiet, Status
  <2>4. CASE operator.pc \in {"drain reference", "drain live", "quiesce"}
    <3>1. operator \in [pc : Rebaselining, command : {"rebaseline"}]
      BY <2>4, RebaselineIs DEF Rebaselining, Refreshing
    <3>2. /\ operator'.pc = pc
          /\ operator.pc = "drain reference" => pc = "send live"
          /\ operator.pc = "drain live" => pc = "stop again"
          /\ operator.pc = "quiesce" => pc = "rebuild"
      BY <2>2, <3>1, <2>4 DEF CallAfter
    <3>3. CutShort' <=> CutShort
      BY <2>1 DEF CutShort
    <3> QED
      BY <2>1, <2>4, <3>2, <3>3 DEF QuietSound, CollectorStopped, StaysQuiet, Refreshing
  <2> QED
    BY <2>2, <2>3, <2>4 DEF Drains
<1>5. CASE StopCollector
  <2>1. /\ operator \in [pc : Entering, command : {"begin"}, ran : Seen, names : SUBSET Names]
        /\ operator.pc = "stop" /\ record.phase = "entering"
    BY <1>5 DEF StopCollector, CommandSound, Entering, MaintenanceSound, TypesSound
  <2>2. operator.ran = Status
    BY <2>1 DEF QuietSound, CollectorStopped
  <2>3. operator'.pc = "drain again" /\ ~collecting' /\ UNCHANGED <<record, budget>>
    BY <1>5, <2>1, <2>2 DEF StopCollector, Status
  <2> QED
    BY <2>1, <2>3 DEF QuietSound, CollectorStopped, StaysQuiet
<1>7. CASE Check
  <2>1. /\ operator \in [pc : Entering, command : {"begin"}, ran : Seen, names : SUBSET Names]
        /\ operator.pc = "check" /\ record.phase = "entering"
    BY <1>7 DEF Check, CommandSound, Entering, MaintenanceSound, TypesSound
  <2>2. ~collecting' /\ operator'.pc \in {"idle", "activate"} /\ UNCHANGED <<record, budget>>
    BY <1>7, <2>1 DEF Check, Stopped, QuietSound, CollectorStopped
  <2> QED
    BY <2>1, <2>2 DEF QuietSound, CollectorStopped, StaysQuiet
<1>6. CASE Activate
  <2>1. ~collecting' /\ operator'.pc = "idle" /\ UNCHANGED budget
    BY <1>6 DEF Activate, QuietSound, CollectorStopped, Stopped
  <2> QED
    BY <2>1 DEF QuietSound, CollectorStopped, StaysQuiet
<1> QED
  BY <1>1, <1>2, <1>3, <1>4, <1>5, <1>6, <1>7

LEMMA QuietResume ==
    ASSUME MaintenanceSound, QuietSound,
           \/ End \/ Restore \/ BeginExit \/ StartCollector \/ Close \/ SendReference
           \/ \E name \in Names : RestoreOne(name)
    PROVE  QuietSound'
<1>1. CASE End \/ Restore
  <2>1. operator.pc = "idle" /\ operator'.pc = "exit" /\ UNCHANGED <<collecting, record, budget>>
    BY <1>1 DEF End, Restore, Given, Stopped
  <2>2. record'.phase = "active" /\ collecting' =>
            record.phase = "active" /\ collecting /\ operator.pc \notin Refreshing
    BY <2>1 DEF Refreshing
  <2> QED
    BY <2>1, <2>2, QuietAside
<1>2. CASE BeginExit
  <2>1. record'.phase = "exiting"
    BY <1>2, ExitingIs DEF BeginExit, CommandSound, MaintenanceSound, TypesSound
  <2>2. operator \in [pc : {"exit", "start"}, command : {"end", "restore"}]
    BY <1>2 DEF BeginExit, CommandSound, MaintenanceSound, TypesSound
  <2>3. operator'.pc \in {"idle", "start", "restore"}
    BY <1>2, <2>2 DEF BeginExit, Restoring, Stopped
  <2> QED
    BY <1>2, <2>1, <2>3, QuietAside DEF BeginExit
<1>3. CASE StartCollector
  BY <1>3, QuietAside DEF StartCollector, Restoring, CommandSound, MaintenanceSound, TypesSound
<1>4. CASE Close
  BY <1>4, QuietAside DEF Close, Closed, Stopped
<1>5. CASE SendReference
  BY <1>5, QuietAside DEF SendReference, Stopped, CommandSound, Open, MaintenanceSound,
     TypesSound
<1>6. CASE \E name \in Names : RestoreOne(name)
  <2>1. /\ operator.pc = "restore" /\ record.phase = "exiting" /\ UNCHANGED <<record, budget>>
        /\ operator \in [pc : {"restore"}, command : {"end", "restore"},
                         now : 0..MaxClock, names : SUBSET Names]
    BY <1>6 DEF RestoreOne, CommandSound, MaintenanceSound, TypesSound
  <2>2. operator'.pc \in {"idle", "restore"}
    BY <1>6, <2>1 DEF RestoreOne, Stopped
  <2> QED
    BY <2>1, <2>2, QuietAside
<1> QED
  BY <1>1, <1>2, <1>3, <1>4, <1>5, <1>6

LEMMA QuietRebaseline ==
    ASSUME MaintenanceSound, QuietSound,
           \/ RefreshReference \/ StopAfterRefresh \/ Rebuild \/ RefreshFails \/ Crash
           \/ \E refresh \in BOOLEAN : Rebaseline(refresh)
           \/ \E w \in Windows : RefreshLive(w)
    PROVE  QuietSound'
<1>1. CASE \E refresh \in BOOLEAN : Rebaseline(refresh)
  <2>1. PICK refresh \in BOOLEAN : Rebaseline(refresh)
    BY <1>1
  <2>2. /\ operator.pc = "idle" /\ collecting' = (collecting \/ refresh)
        /\ operator'.pc = (IF refresh THEN "send reference" ELSE "quiesce")
        /\ UNCHANGED record /\ budget'.crashes = budget.crashes
    BY <2>1, BudgetIs DEF Rebaseline, Given, Stopped
  <2> QED
    BY <2>2 DEF QuietSound, CollectorStopped, StaysQuiet, CutShort, Refreshing
<1>2. CASE RefreshReference \/ \E w \in Windows : RefreshLive(w)
  <2>1. /\ operator \in [pc : Rebaselining, command : {"rebaseline"}]
        /\ operator.pc \in Refreshing
    BY <1>2, RebaselineIs DEF RefreshReference, RefreshLive, Rebaselining, Refreshing
  <2>2. /\ operator'.pc \in {"drain reference", "drain live"}
        /\ UNCHANGED <<collecting, record, budget>>
    BY <1>2, <2>1 DEF RefreshReference, RefreshLive
  <2> QED
    BY <2>2 DEF QuietSound, CollectorStopped, StaysQuiet, Refreshing
<1>3. CASE StopAfterRefresh
  <2>1. operator \in [pc : Rebaselining, command : {"rebaseline"}]
    BY <1>3, RebaselineIs DEF StopAfterRefresh, Rebaselining, Refreshing
  <2>2. operator'.pc = "quiesce" /\ ~collecting' /\ UNCHANGED <<record, budget>>
    BY <1>3, <2>1 DEF StopAfterRefresh
  <2> QED
    BY <2>2 DEF QuietSound, CollectorStopped, StaysQuiet
<1>4. CASE Rebuild
  BY <1>4, QuietAside DEF Rebuild, Stopped, Refreshing
<1>5. CASE RefreshFails \/ Crash
  BY <1>5, QuietCrash DEF RefreshFails, Crash
<1> QED
  BY <1>1, <1>2, <1>3, <1>4, <1>5

LEMMA QuietNext ==
    ASSUME MaintenanceSound, QuietSound, [Next]_vars
    PROVE  QuietSound'
<1>1. CASE Next
  BY <1>1, QuietWorld, QuietBegin, QuietResume, QuietRebaseline DEF Next, Proceed
<1>2. CASE UNCHANGED vars
  BY <1>2, QuietRests DEF vars
<1> QED
  BY <1>1, <1>2

LEMMA QuietHolds == Spec => []QuietSound
<1>1. Init => QuietSound
  BY BoundAssumption DEF Init, QuietSound, CollectorStopped, StaysQuiet, Stopped, Closed
<1> QED
  BY <1>1, QuietNext, SoundHolds, PTL DEF Spec

LEMMA QuietWhenRebuilt ==
    ASSUME MaintenanceSound, QuietSound, operator.pc = "rebuild"
    PROVE  \/ results = {} /\ lambda = Stopped
           \/ collecting /\ CutShort
<1>1. record.phase = "active"
  BY RebaselineIs DEF Rebaselining
<1>2. CASE collecting
  BY <1>1, <1>2 DEF QuietSound, CollectorStopped, Refreshing
<1>3. CASE ~collecting
  BY <1>3 DEF QuietSound, StaysQuiet, LambdaSound, MaintenanceSound, TypesSound
<1> QED
  BY <1>2, <1>3

(* With the collector stopped the feed is rebuilt when no result is on its *)
(* way and no invocation under way, though schedules may fire after the    *)
(* drain; and the collector is stopped unless something was cut short.     *)
THEOREM RebuiltQuietly == Spec => RebaselineIsQuiet
<1>1. MaintenanceSound /\ QuietSound =>
          [(operator.pc = "rebuild" /\ operator' = Stopped /\ budget' = budget) =>
              \/ results = {} /\ lambda = Stopped
              \/ collecting /\ CutShort]_vars
  BY QuietWhenRebuilt
<1> QED
  BY <1>1, SoundHolds, QuietHolds, PTL DEF Spec, RebaselineIsQuiet

=============================================================================
