------------------------- MODULE CollectionPipeline -------------------------
(***************************************************************************)
(* One collection cycle:                                                   *)
(*                                                                         *)
(*   Scheduler -> fetch queue -> NAS collector -> S3 -> result queue       *)
(*             -> ingestion Lambda -> database, and back for live polling  *)
(*                                                                         *)
(* CollectorWorker (collector.py) and the ingestion handler                *)
(* (lambda_ingestion.py) are modelled call by call, so that each may stop  *)
(* between any two calls.  Both queues are standard SQS queues as          *)
(* template-app.yaml configures them.  The database is the watermark of    *)
(* each source (IngestStore has the rest).                                 *)
(*                                                                         *)
(* Upstream answers are a function of the fetch time: one collector works  *)
(* through one job at a time, so fetches do not overlap.                   *)
(***************************************************************************)
EXTENDS Naturals, FiniteSets, Functions

CONSTANTS
    References,     \* reference jobs, one per firing of the hourly schedule
    Windows,        \* merged polling windows: the live jobs
    EventOf,        \* the gameweek of a window
    WindowEnd,      \* window_end of a window
    MessageIds,     \* bound: messages a queue can hold
    MaxReceives,    \* maxReceiveCount of both redrive policies
    MaxTriggers,    \* bound: firings per job
    MaxFaults,      \* bound: failures and redeliveries
    MaxMaintenance, \* bound: maintenance windows
    MaxClock        \* bound on time

Jobs == References \cup Windows

Nobody == "nobody"

ASSUME JobAssumption ==
    /\ References \cap Windows = {}
    /\ DOMAIN EventOf = Windows
    /\ WindowEnd \in [Windows -> Nat]
    /\ \A w \in Windows : EventOf[w] # "reference"

ASSUME IdAssumption == Nobody \notin MessageIds

ASSUME BoundAssumption ==
    {MaxReceives, MaxTriggers, MaxFaults, MaxMaintenance, MaxClock} \subseteq Nat

VARIABLES
    clock,
    fetchQueue,   \* id -> message carrying a job
    resultQueue,  \* id -> message carrying the job and an S3 pointer
    bucket,       \* collected payloads
    collector,    \* the worker's process_message
    lambda,       \* the one concurrent invocation of the handler
    lock,         \* who holds the ingestion advisory lock
    stored,       \* newest fetch time persisted per source
    maintenance,  \* the open maintenance row, if any
    settled,      \* how a job last ended
    budget        \* what is left of the bounds

vars == <<clock, fetchQueue, resultQueue, bucket, collector, lambda, lock,
          stored, maintenance, settled, budget>>

environment == <<maintenance, clock>>

(* maintenance_active                                                      *)
MaintenanceOpen == maintenance # "none"

(* Every bundle of a kind writes the same source identities.               *)
SourceOf(j) == IF j \in Windows THEN EventOf[j] ELSE "reference"

Sources == {SourceOf(j) : j \in Jobs}

Payload == [job : Jobs, fetchedAt : 0..MaxClock]

-----------------------------------------------------------------------------
(* Standard queues: unordered, a received message is hidden until it is    *)
(* deleted or its visibility timeout ends.                                 *)

Free(queue) == MessageIds \ DOMAIN queue

(* The message is sent under an id that is not in use.  A delayed message  *)
(* becomes visible like one whose timeout ends.                            *)
Sent(queue, body, delayed) ==
    LET id == CHOOSE i \in Free(queue) : TRUE
    IN  [i \in DOMAIN queue \cup {id} |->
            IF i = id THEN [body |-> body, received |-> 0, visible |-> ~delayed]
            ELSE queue[i]]

(* Mutant: no redrive policy.                                              *)
ReceivableForever(queue) == {i \in DOMAIN queue : queue[i].visible}

Receivable(queue) ==
    {i \in DOMAIN queue : queue[i].visible /\ queue[i].received < MaxReceives}

Exhausted(queue) ==
    {i \in DOMAIN queue : queue[i].visible /\ queue[i].received >= MaxReceives}

Received(queue, i) ==
    [queue EXCEPT ![i].received = @ + 1, ![i].visible = FALSE]

Deleted(queue, i) == Restrict(queue, DOMAIN queue \ {i})

SpendFault == /\ budget.faults > 0
              /\ budget' = [budget EXCEPT !.faults = @ - 1]

SettleAs(j, how) == settled' = [settled EXCEPT ![j] = how]

-----------------------------------------------------------------------------
(* The collector.                                                          *)

Resting == [pc |-> "idle", msg |-> Nobody]

ReceiveJob(i) ==
    /\ collector.pc = "idle"
    /\ i \in Receivable(fetchQueue)
    /\ fetchQueue' = Received(fetchQueue, i)
    /\ collector' = [pc |-> "collect", msg |-> i]
    /\ UNCHANGED <<resultQueue, bucket, lambda, lock, stored, settled, budget, environment>>

(* _collect stamps the bundle before the first request.                    *)
Collect ==
    /\ collector.pc = "collect"
    /\ collector' = [pc |-> "upload", msg |-> collector.msg,
                     payload |-> [job |-> fetchQueue[collector.msg].body,
                                  fetchedAt |-> clock]]
    /\ UNCHANGED <<fetchQueue, resultQueue, bucket, lambda, lock, stored, settled,
                   budget, environment>>

(* Mutant: the pointer is published while the upload is under way.         *)
UploadLater ==
    /\ collector.pc = "upload"
    /\ collector' = [collector EXCEPT !.pc = "publish"]
    /\ UNCHANGED <<fetchQueue, resultQueue, bucket, lambda, lock, stored, settled,
                   budget, environment>>

Upload ==
    /\ collector.pc = "upload"
    /\ bucket' = bucket \cup {collector.payload}
    /\ collector' = [collector EXCEPT !.pc = "publish"]
    /\ UNCHANGED <<fetchQueue, resultQueue, lambda, lock, stored, settled, budget,
                   environment>>

Publish ==
    /\ collector.pc = "publish"
    /\ Free(resultQueue) # {}
    /\ resultQueue' = Sent(resultQueue, collector.payload, FALSE)
    /\ collector' = [collector EXCEPT !.pc = "acknowledge"]
    /\ UNCHANGED <<fetchQueue, bucket, lambda, lock, stored, settled, budget, environment>>

(* Mutant: the job is acknowledged when it is collected.                   *)
AcknowledgeEarly ==
    /\ collector.pc \in {"upload", "publish", "acknowledge"}
    /\ collector.msg \in DOMAIN fetchQueue
    /\ fetchQueue' = Deleted(fetchQueue, collector.msg)
    /\ collector' = IF collector.pc = "acknowledge" THEN Resting ELSE collector
    /\ UNCHANGED <<resultQueue, bucket, lambda, lock, stored, settled, budget, environment>>

Acknowledge ==
    /\ collector.pc = "acknowledge"
    /\ fetchQueue' = Deleted(fetchQueue, collector.msg)
    /\ collector' = Resting
    /\ UNCHANGED <<resultQueue, bucket, lambda, lock, stored, settled, budget, environment>>

(* run swallows every exception of process_message, and a restarted        *)
(* process has forgotten the message too: no acknowledgement.              *)
CollectorFails ==
    /\ collector.pc # "idle"
    /\ SpendFault
    /\ collector' = Resting
    /\ UNCHANGED <<fetchQueue, resultQueue, bucket, lambda, lock, stored, settled,
                   environment>>

-----------------------------------------------------------------------------
(* The ingestion Lambda: one record per invocation, one invocation at a    *)
(* time.  now is read when the invocation starts.                          *)

Finished == [pc |-> "idle", msg |-> Nobody]

HandledPayload == resultQueue[lambda.msg].body

Invoke(i) ==
    /\ lambda.pc = "idle"
    /\ i \in Receivable(resultQueue)
    /\ resultQueue' = Received(resultQueue, i)
    /\ lambda' = [pc |-> "load", msg |-> i, now |-> clock, attempt |-> 1, requeued |-> FALSE,
                  maintained |-> MaintenanceOpen]
    /\ UNCHANGED <<fetchQueue, bucket, collector, lock, stored, settled, budget, environment>>

(* load_payload_bundle: the exact bytes the message points at.             *)
Load ==
    /\ lambda.pc = "load"
    /\ HandledPayload \in bucket
    /\ lambda' = [lambda EXCEPT !.pc = "lock"]
    /\ UNCHANGED <<fetchQueue, resultQueue, bucket, collector, lock, stored, settled,
                   budget, environment>>

(* Mutant: a resuming database is taken for a finished ingestion.          *)
DatabaseWakesUnnoticed ==
    /\ lambda.pc = "lock"
    /\ lambda.attempt = 1
    /\ lambda' = [lambda EXCEPT !.pc = "return"]
    /\ UNCHANGED <<fetchQueue, resultQueue, bucket, collector, lock, stored, settled,
                   budget, environment>>

(* persist_with_database_resume: Aurora is resuming; wait and try once     *)
(* more.                                                                   *)
DatabaseWakes ==
    /\ lambda.pc = "lock"
    /\ lambda.attempt = 1
    /\ lambda' = [lambda EXCEPT !.attempt = 2]
    /\ UNCHANGED <<fetchQueue, resultQueue, bucket, collector, lock, stored, settled,
                   budget, environment>>

TakeLock ==
    /\ lambda.pc = "lock"
    /\ lock = "free"
    /\ lock' = "invocation"
    /\ lambda' = [lambda EXCEPT !.pc = "persist"]
    /\ UNCHANGED <<fetchQueue, resultQueue, bucket, collector, stored, settled, budget,
                   environment>>

(* handler returns skipped_lock_held, and SQS deletes the message.         *)
SkipLockHeld ==
    /\ lambda.pc = "lock"
    /\ lock # "free"
    /\ resultQueue' = Deleted(resultQueue, lambda.msg)
    /\ SettleAs(HandledPayload.job, "dropped")
    /\ lambda' = Finished
    /\ UNCHANGED <<fetchQueue, bucket, collector, lock, stored, budget, environment>>

(* compare_source: an older fetch changes nothing.                         *)
Newest(j, time) ==
    IF time > stored[SourceOf(j)] THEN time ELSE stored[SourceOf(j)]

(* The transaction commits, the lock is released, and only then is the     *)
(* maintenance flag looked at.                                             *)
Persist ==
    /\ lambda.pc = "persist"
    /\ stored' = [stored EXCEPT ![SourceOf(HandledPayload.job)] =
                      Newest(HandledPayload.job, HandledPayload.fetchedAt)]
    /\ lock' = "free"
    /\ lambda' = [lambda EXCEPT !.pc = "plan"]
    /\ UNCHANGED <<fetchQueue, resultQueue, bucket, collector, settled, budget, environment>>

(* Mutant: the chain stops when the next poll would come too late.         *)
KeepsPollingInTime(j) == ~MaintenanceOpen /\ j \in Windows /\ lambda.now + 1 < WindowEnd[j]

(* Mutant: the chain ignores its window.                                   *)
KeepsPollingForever(j) == ~MaintenanceOpen /\ j \in Windows

(* next_live_delay.                                                        *)
KeepsPolling(j) == ~MaintenanceOpen /\ j \in Windows /\ lambda.now < WindowEnd[j]

Plan ==
    /\ lambda.pc = "plan"
    /\ lambda' = [lambda EXCEPT !.pc = IF KeepsPolling(HandledPayload.job)
                                       THEN "requeue" ELSE "return"]
    /\ UNCHANGED <<fetchQueue, resultQueue, bucket, collector, lock, stored, settled,
                   budget, environment>>

Requeue ==
    /\ lambda.pc = "requeue"
    /\ Free(fetchQueue) # {}
    /\ fetchQueue' = Sent(fetchQueue, HandledPayload.job, TRUE)
    /\ SettleAs(HandledPayload.job, "no")
    /\ lambda' = [lambda EXCEPT !.pc = "return", !.requeued = TRUE]
    /\ UNCHANGED <<resultQueue, bucket, collector, lock, stored, budget, environment>>

Return ==
    /\ lambda.pc = "return"
    /\ resultQueue' = Deleted(resultQueue, lambda.msg)
    /\ IF lambda.requeued THEN UNCHANGED settled
       ELSE SettleAs(HandledPayload.job, "finished")
    /\ lambda' = Finished
    /\ UNCHANGED <<fetchQueue, bucket, collector, lock, stored, budget, environment>>

(* An exception rolls the lock transaction back; a killed invocation (180  *)
(* seconds) leaves it to the Data API to time out.  SQS keeps the message  *)
(* in either case, and also when the deletion is lost.                     *)
InvocationFails ==
    /\ lambda.pc # "idle"
    /\ SpendFault
    /\ IF lambda.pc = "persist" THEN lock' \in {"free", "orphan"} ELSE UNCHANGED lock
    /\ lambda' = Finished
    /\ UNCHANGED <<fetchQueue, resultQueue, bucket, collector, stored, settled, environment>>

(* The poller received a message the reserved concurrency has no room for. *)
Throttle(i) ==
    /\ lambda.pc # "idle"
    /\ i \in Receivable(resultQueue)
    /\ SpendFault
    /\ resultQueue' = Received(resultQueue, i)
    /\ UNCHANGED <<fetchQueue, bucket, collector, lambda, lock, stored, settled, environment>>

-----------------------------------------------------------------------------
(* SQS, the schedules, and the database's other users.                     *)

(* The visibility timeout of 240 seconds is longer than an invocation.     *)
FetchReappears(i) ==
    /\ i \in DOMAIN fetchQueue /\ ~fetchQueue[i].visible
    /\ i # collector.msg
    /\ fetchQueue' = [fetchQueue EXCEPT ![i].visible = TRUE]
    /\ UNCHANGED <<resultQueue, bucket, collector, lambda, lock, stored, settled, budget,
                   environment>>

ResultReappears(i) ==
    /\ i \in DOMAIN resultQueue /\ ~resultQueue[i].visible
    /\ i # lambda.msg
    /\ resultQueue' = [resultQueue EXCEPT ![i].visible = TRUE]
    /\ UNCHANGED <<fetchQueue, bucket, collector, lambda, lock, stored, settled, budget,
                   environment>>

BuryFetch(i) ==
    /\ i \in Exhausted(fetchQueue)
    /\ fetchQueue' = Deleted(fetchQueue, i)
    /\ SettleAs(fetchQueue[i].body, "dead")
    /\ UNCHANGED <<resultQueue, bucket, collector, lambda, lock, stored, budget, environment>>

BuryResult(i) ==
    /\ i \in Exhausted(resultQueue)
    /\ resultQueue' = Deleted(resultQueue, i)
    /\ SettleAs(resultQueue[i].body.job, "dead")
    /\ UNCHANGED <<fetchQueue, bucket, collector, lambda, lock, stored, budget, environment>>

(* A schedule fires, or an administrator sends the job.                    *)
Trigger(j) ==
    /\ budget.triggers[j] > 0
    /\ Free(fetchQueue) # {}
    /\ fetchQueue' = Sent(fetchQueue, j, FALSE)
    /\ SettleAs(j, "no")
    /\ budget' = [budget EXCEPT !.triggers[j] = @ - 1]
    /\ UNCHANGED <<resultQueue, bucket, collector, lambda, lock, stored, environment>>

(* The row is opened under the ingestion lock; an invocation under way     *)
(* remembers (for PollsUntilTheEnd) that it was.                           *)
BeginMaintenance ==
    /\ ~MaintenanceOpen /\ lock = "free" /\ budget.maintenance > 0
    /\ maintenance' = "open"
    /\ budget' = [budget EXCEPT !.maintenance = @ - 1]
    /\ lambda' = IF lambda.pc = "idle" THEN lambda ELSE [lambda EXCEPT !.maintained = TRUE]
    /\ UNCHANGED <<clock, fetchQueue, resultQueue, bucket, collector, lock, stored, settled>>

(* end refuses as long as a working queue has messages; then the schedules *)
(* are restored, and last the row is closed (Maintenance has the steps).   *)
BeginExit ==
    /\ maintenance = "open" /\ lock # "rebaseline"
    /\ DOMAIN fetchQueue = {} /\ DOMAIN resultQueue = {}
    /\ maintenance' = "exiting"
    /\ UNCHANGED <<clock, fetchQueue, resultQueue, bucket, collector, lambda, lock,
                   stored, settled, budget>>

EndMaintenance ==
    /\ maintenance = "exiting"
    /\ maintenance' = "none"
    /\ UNCHANGED <<clock, fetchQueue, resultQueue, bucket, collector, lambda, lock,
                   stored, settled, budget>>

(* Administrative rebaseline under the same advisory lock.                 *)
BeginRebaseline ==
    /\ maintenance = "open" /\ lock = "free"
    /\ lock' = "rebaseline"
    /\ UNCHANGED <<fetchQueue, resultQueue, bucket, collector, lambda, stored, settled,
                   budget, environment>>

(* A rebaseline ends, or the Data API gives up on an abandoned             *)
(* transaction.                                                            *)
ReleaseLock ==
    /\ lock \in {"rebaseline", "orphan"}
    /\ lock' = "free"
    /\ UNCHANGED <<fetchQueue, resultQueue, bucket, collector, lambda, stored, settled,
                   budget, environment>>

Tick ==
    /\ clock < MaxClock
    /\ clock' = clock + 1
    /\ UNCHANGED <<fetchQueue, resultQueue, bucket, collector, lambda, lock, stored,
                   maintenance, settled, budget>>

-----------------------------------------------------------------------------
NoMessages == [i \in {} |-> Nobody]

Init ==
    /\ clock = 0
    /\ fetchQueue = NoMessages /\ resultQueue = NoMessages
    /\ bucket = {}
    /\ collector = Resting /\ lambda = Finished
    /\ lock = "free"
    /\ stored = [s \in Sources |-> 0]
    /\ maintenance = "none"
    /\ settled = [j \in Jobs |-> "never"]
    /\ budget = [faults |-> MaxFaults, maintenance |-> MaxMaintenance,
                 triggers |-> [j \in Jobs |-> MaxTriggers]]

CollectorStep ==
    \/ \E i \in MessageIds : ReceiveJob(i)
    \/ Collect \/ Upload \/ Publish \/ Acknowledge

LambdaStep ==
    \/ \E i \in MessageIds : Invoke(i)
    \/ Load \/ TakeLock \/ SkipLockHeld \/ Persist \/ Plan \/ Requeue \/ Return

QueueStep ==
    \E i \in MessageIds :
        FetchReappears(i) \/ ResultReappears(i) \/ BuryFetch(i) \/ BuryResult(i)

Fault ==
    \/ CollectorFails \/ InvocationFails \/ DatabaseWakes
    \/ \E i \in MessageIds : Throttle(i)

Operation ==
    \/ \E j \in Jobs : Trigger(j)
    \/ BeginMaintenance \/ BeginExit \/ EndMaintenance \/ BeginRebaseline \/ ReleaseLock

Next == CollectorStep \/ LambdaStep \/ QueueStep \/ Fault \/ Operation \/ Tick

Spec == Init /\ [][Next]_vars

(* The collector loops for as long as its container runs, which restarts   *)
(* it; Lambda invokes while there are messages; SQS ends visibility        *)
(* timeouts and redrives; locks are released; time passes.                 *)
Fairness ==
    /\ WF_vars(CollectorStep)
    /\ WF_vars(LambdaStep)
    /\ \A i \in MessageIds :
           /\ WF_vars(FetchReappears(i)) /\ WF_vars(ResultReappears(i))
           /\ WF_vars(BuryFetch(i)) /\ WF_vars(BuryResult(i))
    /\ WF_vars(ReleaseLock)
    /\ WF_vars(Tick)

FairSpec == Spec /\ Fairness

-----------------------------------------------------------------------------
(* Types of the queues, the two workers and the database.                  *)
TypeOK ==
    /\ clock \in 0..MaxClock
    /\ \A queue \in {fetchQueue, resultQueue} :
           /\ DOMAIN queue \subseteq MessageIds
           /\ \A i \in DOMAIN queue :
                  queue[i].received \in 0..MaxReceives /\ queue[i].visible \in BOOLEAN
    /\ \A i \in DOMAIN fetchQueue : fetchQueue[i].body \in Jobs
    /\ \A i \in DOMAIN resultQueue : resultQueue[i].body \in Payload
    /\ bucket \subseteq Payload
    /\ collector.pc \in {"idle", "collect", "upload", "publish", "acknowledge"}
    /\ collector.pc # "idle" => collector.msg \in DOMAIN fetchQueue
    /\ lambda.pc \in {"idle", "load", "lock", "persist", "plan", "requeue", "return"}
    /\ lambda.pc # "idle" => lambda.msg \in DOMAIN resultQueue
    /\ lock \in {"free", "invocation", "orphan", "rebaseline"}
    /\ stored \in [Sources -> 0..MaxClock]
    /\ maintenance \in {"none", "open", "exiting"}
    /\ settled \in [Jobs -> {"never", "no", "finished", "dropped", "dead"}]

(* Every pointer in the result queue leads to its bundle: upload comes     *)
(* before publish, whatever fails in between (process_message).            *)
PointersResolve == \A i \in DOMAIN resultQueue : resultQueue[i].body \in bucket

Outstanding(j) ==
    \/ \E i \in DOMAIN fetchQueue : fetchQueue[i].body = j
    \/ \E i \in DOMAIN resultQueue : resultQueue[i].body.job = j

JobPhase ==
    [j \in Jobs |->
        IF Outstanding(j) THEN "owed"
        ELSE IF settled[j] \in {"never", "no"} THEN "idle" ELSE settled[j]]

Delivery == INSTANCE JobDelivery WITH phase <- JobPhase

(* No job is forgotten: until it is finished, dropped for the lock or      *)
(* dead, some queue holds a message for it, whichever call of the          *)
(* collector or the Lambda fails, and a live window holds one between      *)
(* every two polls.                                                        *)
NoJobForgotten == Delivery!Spec

(* Every job that is accepted is settled, and every polling chain ends.    *)
EveryJobSettles == \A j \in Jobs : Outstanding(j) ~> ~Outstanding(j)

(* A result leaves its queue with its data in the database, superseded by  *)
(* newer data, or after it was refused: lock taken or receives used up.    *)
AcknowledgedMeansStored ==
    [][\A i \in DOMAIN resultQueue \ DOMAIN resultQueue' :
          LET payload == resultQueue[i].body
          IN  \/ stored[SourceOf(payload.job)] >= payload.fetchedAt
              \/ lock # "free"
              \/ resultQueue[i].visible /\ resultQueue[i].received = MaxReceives]_vars

Failures == MaxFaults - budget.faults

(* A window is polled until it is over.  While it is not, each of its      *)
(* messages leaves its queue only handed on (a job as a published result,  *)
(* a result as the next job), unless as many calls failed as a message has *)
(* receives; or, for a result, because maintenance was open at some time   *)
(* during its invocation (the flag is read after the commit, and may be    *)
(* older or younger than the result), or because of the lock, which then   *)
(* is the one a killed invocation left.                                    *)
PollsUntilTheEnd ==
    [][/\ \A i \in DOMAIN fetchQueue \ DOMAIN fetchQueue' :
              \/ collector.pc = "acknowledge" /\ collector.msg = i
              \/ Failures >= MaxReceives
       /\ \A i \in DOMAIN resultQueue \ DOMAIN resultQueue' :
              resultQueue[i].body.job \in Windows =>
                  \/ clock >= WindowEnd[resultQueue[i].body.job]
                  \/ Failures >= MaxReceives
                  \/ /\ lambda.pc # "idle" /\ lambda.msg = i
                     /\ lambda.requeued \/ lambda.maintained \/ lock = "orphan"]_vars

(* docs/architecture.md: "payload hashes and database constraints make     *)
(* repeated SQS delivery idempotent".  Delivered again, a job of a window  *)
(* that fired once still leads to one next poll.                           *)
OneNextPoll ==
    \A w \in Windows :
        Cardinality({i \in DOMAIN fetchQueue :
            fetchQueue[i].body = w /\ fetchQueue[i].received = 0}) <= 1
=============================================================================
