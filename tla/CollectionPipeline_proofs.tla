----------------------- MODULE CollectionPipeline_proofs -----------------------
(***************************************************************************)
(* Proofs about the collection pipeline: its types, that every pointer     *)
(* resolves, what an acknowledged result means, that a window is polled    *)
(* until it is over, and that no job is forgotten: CollectionPipeline      *)
(* implements JobDelivery.                                                 *)
(***************************************************************************)
EXTENDS CollectionPipeline, TLAPS

-----------------------------------------------------------------------------
(* The queue operators.                                                    *)

Message(Body) == [body : Body, received : 0..MaxReceives, visible : BOOLEAN]

IsQueue(queue, Body) ==
    DOMAIN queue \subseteq MessageIds /\ queue \in [DOMAIN queue -> Message(Body)]

(* A queue with a sent message holds it under a new id, beside all others. *)
Adds(sent, queue, body) ==
    \E id \in Free(queue) :
        /\ DOMAIN sent = DOMAIN queue \cup {id}
        /\ sent[id].body = body /\ sent[id].received = 0
        /\ \A i \in DOMAIN queue : sent[i] = queue[i]

LEMMA SentMessage ==
    ASSUME NEW Body, NEW queue, IsQueue(queue, Body), NEW body \in Body,
           Free(queue) # {},
           NEW sent \in {Sent(queue, body, TRUE), Sent(queue, body, FALSE)}
    PROVE  IsQueue(sent, Body) /\ Adds(sent, queue, body)
<1> DEFINE id == CHOOSE i \in Free(queue) : TRUE
<1>1. id \in Free(queue)
  OBVIOUS
<1>2. PICK visible \in BOOLEAN :
        sent = [i \in DOMAIN queue \cup {id} |->
                  IF i = id THEN [body |-> body, received |-> 0, visible |-> visible]
                  ELSE queue[i]]
  BY DEF Sent
<1>3. [body |-> body, received |-> 0, visible |-> visible] \in Message(Body)
  BY BoundAssumption DEF Message
<1> HIDE DEF id
<1>4. /\ DOMAIN sent = DOMAIN queue \cup {id}
      /\ sent[id].body = body /\ sent[id].received = 0
  BY <1>2
<1>5. \A i \in DOMAIN queue : sent[i] = queue[i]
  BY <1>1, <1>2 DEF Free
<1>6. IsQueue(sent, Body)
  BY <1>1, <1>2, <1>3 DEF Free, IsQueue
<1> QED
  BY <1>1, <1>4, <1>5, <1>6 DEF Adds

(* Receiving hides a message and counts; it changes nothing else.          *)
SameElsewhere(changed, queue, i) ==
    /\ DOMAIN changed = DOMAIN queue
    /\ \A k \in DOMAIN queue : changed[k].body = queue[k].body
    /\ \A k \in DOMAIN queue \ {i} : changed[k] = queue[k]

LEMMA ReceivedMessage ==
    ASSUME NEW Body, NEW queue, IsQueue(queue, Body), NEW i \in Receivable(queue)
    PROVE  /\ IsQueue(Received(queue, i), Body)
           /\ SameElsewhere(Received(queue, i), queue, i)
           /\ ~Received(queue, i)[i].visible
           /\ Received(queue, i)[i].received = queue[i].received + 1
<1>1. i \in DOMAIN queue /\ queue[i].received < MaxReceives
  BY DEF Receivable
<1>2. queue[i] \in Message(Body)
  BY <1>1 DEF IsQueue
<1> DEFINE counted == [queue EXCEPT ![i].received = @ + 1]
           taken == [body |-> queue[i].body, received |-> queue[i].received + 1,
                     visible |-> FALSE]
<1>3. taken \in Message(Body)
  BY <1>1, <1>2, BoundAssumption DEF Message
<1>4. /\ counted[i] = [queue[i] EXCEPT !.received = @ + 1]
      /\ DOMAIN counted = DOMAIN queue
      /\ \A k \in DOMAIN queue \ {i} : counted[k] = queue[k]
  BY <1>1 DEF IsQueue
<1>5. Received(queue, i) = [counted EXCEPT ![i].visible = FALSE]
  BY DEF Received
<1> HIDE DEF counted
<1>6. Received(queue, i)[i] = [counted[i] EXCEPT !.visible = FALSE]
  BY <1>1, <1>4, <1>5
<1>7. Received(queue, i)[i] = taken
  BY <1>2, <1>4, <1>6 DEF Message
<1>8. /\ DOMAIN Received(queue, i) = DOMAIN queue
      /\ \A k \in DOMAIN queue \ {i} : Received(queue, i)[k] = queue[k]
      /\ Received(queue, i) = [k \in DOMAIN queue |-> Received(queue, i)[k]]
  BY <1>4, <1>5
<1>9. Received(queue, i) \in [DOMAIN queue -> Message(Body)]
  BY <1>3, <1>7, <1>8 DEF IsQueue
<1> QED
  BY <1>1, <1>7, <1>8, <1>9 DEF IsQueue, SameElsewhere

(* The end of a visibility timeout changes nothing but the visibility.     *)
LEMMA ReappearedMessage ==
    ASSUME NEW Body, NEW queue, IsQueue(queue, Body), NEW i \in DOMAIN queue
    PROVE  LET shown == [queue EXCEPT ![i].visible = TRUE]
           IN  /\ IsQueue(shown, Body) /\ SameElsewhere(shown, queue, i)
               /\ shown[i].received = queue[i].received
<1> DEFINE shown == [queue EXCEPT ![i].visible = TRUE]
           again == [body |-> queue[i].body, received |-> queue[i].received,
                     visible |-> TRUE]
<1>1. queue[i] \in Message(Body)
  BY DEF IsQueue
<1>2. shown[i] = [queue[i] EXCEPT !.visible = TRUE]
  OBVIOUS
<1>3. shown[i] = again /\ again \in Message(Body)
  BY <1>1, <1>2 DEF Message
<1>4. /\ DOMAIN shown = DOMAIN queue
      /\ \A k \in DOMAIN queue \ {i} : shown[k] = queue[k]
      /\ shown = [k \in DOMAIN queue |-> shown[k]]
  OBVIOUS
<1> HIDE DEF shown
<1>5. shown \in [DOMAIN queue -> Message(Body)]
  BY <1>3, <1>4 DEF IsQueue
<1> QED
  BY <1>3, <1>4, <1>5 DEF IsQueue, SameElsewhere, shown

(* Deleting a message leaves all others as they are.                       *)
Drops(changed, queue, i) ==
    /\ DOMAIN changed = DOMAIN queue \ {i}
    /\ \A k \in DOMAIN queue \ {i} : changed[k] = queue[k]

LEMMA DeletedMessage ==
    ASSUME NEW Body, NEW queue, IsQueue(queue, Body), NEW i
    PROVE  IsQueue(Deleted(queue, i), Body) /\ Drops(Deleted(queue, i), queue, i)
BY DEF Deleted, Restrict, IsQueue, Drops


-----------------------------------------------------------------------------
(* Types: what TypeOK says, with the records of the two workers and the    *)
(* messages they hold, which nobody else receives or deletes meanwhile.    *)

WorldTyped ==
    /\ clock \in 0..MaxClock
    /\ bucket \subseteq Payload
    /\ lock \in {"free", "invocation", "orphan", "rebaseline"}
    /\ stored \in [Sources -> 0..MaxClock]
    /\ maintenance \in {"none", "open", "exiting"}
    /\ settled \in [Jobs -> {"never", "no", "finished", "dropped", "dead"}]

QueuesTyped == IsQueue(fetchQueue, Jobs) /\ IsQueue(resultQueue, Payload)

CollectorTyped ==
    \/ collector = Resting
    \/ collector \in [pc : {"collect"}, msg : MessageIds]
    \/ collector \in [pc : {"upload", "publish", "acknowledge"}, msg : MessageIds,
                      payload : Payload]

LambdaTyped ==
    \/ lambda = Finished
    \/ lambda \in [pc : {"load", "lock", "persist", "plan", "requeue", "return"},
                   msg : MessageIds, now : 0..MaxClock, attempt : {1, 2},
                   requeued : BOOLEAN, maintained : BOOLEAN]

Held ==
    /\ collector.pc # "idle" =>
           collector.msg \in DOMAIN fetchQueue /\ ~fetchQueue[collector.msg].visible
    /\ lambda.pc # "idle" =>
           lambda.msg \in DOMAIN resultQueue /\ ~resultQueue[lambda.msg].visible

Typed == WorldTyped /\ QueuesTyped /\ CollectorTyped /\ LambdaTyped /\ Held

LEMMA TypedImpliesTypeOK == Typed => TypeOK
<1> SUFFICES ASSUME Typed PROVE TypeOK
  OBVIOUS
<1>1. /\ collector.pc \in {"idle", "collect", "upload", "publish", "acknowledge"}
      /\ lambda.pc \in {"idle", "load", "lock", "persist", "plan", "requeue", "return"}
  BY DEF Typed, CollectorTyped, LambdaTyped, Resting, Finished
<1>2. \A i \in DOMAIN fetchQueue : fetchQueue[i] \in Message(Jobs)
  BY DEF Typed, QueuesTyped, IsQueue
<1>3. \A i \in DOMAIN resultQueue : resultQueue[i] \in Message(Payload)
  BY DEF Typed, QueuesTyped, IsQueue
<1>4. /\ \A i \in DOMAIN fetchQueue : /\ fetchQueue[i].body \in Jobs
                                       /\ fetchQueue[i].received \in 0..MaxReceives
                                       /\ fetchQueue[i].visible \in BOOLEAN
      /\ \A i \in DOMAIN resultQueue : /\ resultQueue[i].body \in Payload
                                        /\ resultQueue[i].received \in 0..MaxReceives
                                        /\ resultQueue[i].visible \in BOOLEAN
  BY <1>2, <1>3 DEF Message
<1>5. \A queue \in {fetchQueue, resultQueue} :
         /\ DOMAIN queue \subseteq MessageIds
         /\ \A i \in DOMAIN queue :
                queue[i].received \in 0..MaxReceives /\ queue[i].visible \in BOOLEAN
  BY <1>4 DEF Typed, QueuesTyped, IsQueue
<1> QED
  BY <1>1, <1>4, <1>5 DEF TypeOK, Typed, WorldTyped, Held

LEMMA JobsHaveSources == \A j \in Jobs : SourceOf(j) \in Sources
BY DEF Sources

LEMMA WorkersKnown ==
    ASSUME CollectorTyped, LambdaTyped
    PROVE  /\ collector.pc = "idle" => collector = Resting
           /\ collector.pc = "collect" =>
                  collector \in [pc : {"collect"}, msg : MessageIds]
           /\ collector.pc \in {"upload", "publish", "acknowledge"} =>
                  collector \in [pc : {"upload", "publish", "acknowledge"}, msg : MessageIds,
                                 payload : Payload]
           /\ collector.pc \in {"idle", "collect", "upload", "publish", "acknowledge"}
           /\ lambda.pc = "idle" => lambda = Finished
           /\ lambda.pc # "idle" =>
                  lambda \in [pc : {"load", "lock", "persist", "plan", "requeue", "return"},
                              msg : MessageIds, now : 0..MaxClock, attempt : {1, 2},
                              requeued : BOOLEAN, maintained : BOOLEAN]
           /\ collector.msg \in MessageIds \cup {Nobody}
           /\ lambda.msg \in MessageIds \cup {Nobody}
BY DEF CollectorTyped, LambdaTyped, Resting, Finished

(* What the Lambda works on is a payload.                                  *)
LEMMA HandledIsPayload ==
    ASSUME QueuesTyped, Held, lambda.pc # "idle"
    PROVE  /\ HandledPayload \in Payload
           /\ HandledPayload.job \in Jobs /\ HandledPayload.fetchedAt \in 0..MaxClock
           /\ SourceOf(HandledPayload.job) \in Sources
<1>1. resultQueue[lambda.msg] \in Message(Payload)
  BY DEF QueuesTyped, Held, IsQueue
<1>2. HandledPayload \in Payload
  BY <1>1 DEF HandledPayload, Message
<1> QED
  BY <1>2, JobsHaveSources DEF Payload

LEMMA CollectorKeepsTypes ==
    ASSUME Typed, CollectorStep \/ CollectorFails
    PROVE  Typed'
<1> USE DEF Typed
<1>0. /\ IsQueue(fetchQueue, Jobs) /\ IsQueue(resultQueue, Payload)
      /\ MaxClock \in Nat
  BY BoundAssumption DEF QueuesTyped
<1>1. ASSUME NEW i \in MessageIds, ReceiveJob(i)
      PROVE  Typed'
  <2>1. /\ i \in Receivable(fetchQueue) /\ i \in DOMAIN fetchQueue
        /\ fetchQueue' = Received(fetchQueue, i)
        /\ collector' = [pc |-> "collect", msg |-> i]
        /\ UNCHANGED <<resultQueue, bucket, lambda, lock, stored, settled, environment>>
    BY <1>1 DEF ReceiveJob, Receivable
  <2>2. IsQueue(fetchQueue', Jobs) /\ SameElsewhere(fetchQueue', fetchQueue, i) /\ ~fetchQueue'[i].visible
    BY <1>0, <2>1, ReceivedMessage
  <2> QED
    BY <1>0, <2>1, <2>2
    DEF SameElsewhere, WorldTyped, QueuesTyped, CollectorTyped, LambdaTyped, Held, environment
<1>2. CASE Collect
  <2>1. fetchQueue[collector.msg].body \in Jobs
    BY <1>0, <1>2 DEF Collect, Held, IsQueue, Message
  <2>2. [job |-> fetchQueue[collector.msg].body, fetchedAt |-> clock] \in Payload
    BY <2>1 DEF Payload, WorldTyped
  <2>3. collector' \in [pc : {"upload", "publish", "acknowledge"}, msg : MessageIds,
                        payload : Payload]
        /\ collector'.msg = collector.msg
    BY <1>2, <2>2, WorkersKnown DEF Collect
  <2> QED
    BY <1>2, <2>3 DEF Collect, WorldTyped, QueuesTyped, CollectorTyped, LambdaTyped, Held, environment
<1>3. CASE Upload \/ Publish
  <2>1. collector \in [pc : {"upload", "publish", "acknowledge"}, msg : MessageIds,
                       payload : Payload]
    BY <1>3, WorkersKnown DEF Upload, Publish
  <2>2. /\ collector' \in [pc : {"upload", "publish", "acknowledge"}, msg : MessageIds,
                           payload : Payload]
        /\ collector'.msg = collector.msg
        /\ UNCHANGED <<fetchQueue, lambda, lock, stored, settled, environment>>
    BY <1>3, <2>1 DEF Upload, Publish
  <2>3. bucket' \subseteq Payload
    BY <1>3, <2>1 DEF Upload, Publish, WorldTyped
  <2>4. /\ IsQueue(resultQueue', Payload)
        /\ \A i \in DOMAIN resultQueue : i \in DOMAIN resultQueue' /\ resultQueue'[i] = resultQueue[i]
    <3>1. CASE Upload
      BY <3>1, <1>0 DEF Upload
    <3>2. CASE Publish
      <4>1. /\ collector.payload \in Payload /\ Free(resultQueue) # {}
            /\ resultQueue' \in {Sent(resultQueue, collector.payload, TRUE),
                                 Sent(resultQueue, collector.payload, FALSE)}
        BY <3>2, <2>1 DEF Publish
      <4>2. IsQueue(resultQueue', Payload) /\ Adds(resultQueue', resultQueue, collector.payload)
        BY <1>0, <4>1, SentMessage
      <4> QED
        BY <4>2 DEF Adds
    <3> QED
      BY <1>3, <3>1, <3>2
  <2> QED
    BY <1>3, <2>2, <2>3, <2>4
    DEF WorldTyped, QueuesTyped, CollectorTyped, LambdaTyped, Held, environment, Upload, Publish
<1>4. CASE Acknowledge
  <2>1. IsQueue(fetchQueue', Jobs) /\ collector' = Resting
    BY <1>0, <1>4, DeletedMessage DEF Acknowledge
  <2> QED
    BY <1>4, <2>1 DEF Acknowledge, WorldTyped, QueuesTyped, CollectorTyped, LambdaTyped, Held, Resting,
       environment
<1>5. CASE CollectorFails
  BY <1>5 DEF CollectorFails, WorldTyped, QueuesTyped, CollectorTyped, LambdaTyped, Held, Resting,
     environment
<1> QED
  BY <1>1, <1>2, <1>3, <1>4, <1>5 DEF CollectorStep

LEMMA LambdaKeepsTypes ==
    ASSUME Typed, LambdaStep \/ InvocationFails \/ DatabaseWakes
    PROVE  Typed'
<1> USE DEF Typed
<1>0. /\ IsQueue(fetchQueue, Jobs) /\ IsQueue(resultQueue, Payload)
      /\ MaxClock \in Nat
  BY BoundAssumption DEF QueuesTyped
<1>1. ASSUME NEW i \in MessageIds, Invoke(i)
      PROVE  Typed'
  <2>1. /\ i \in Receivable(resultQueue) /\ i \in DOMAIN resultQueue
        /\ resultQueue' = Received(resultQueue, i)
        /\ lambda' = [pc |-> "load", msg |-> i, now |-> clock, attempt |-> 1,
                      requeued |-> FALSE, maintained |-> MaintenanceOpen]
        /\ MaintenanceOpen \in BOOLEAN
        /\ UNCHANGED <<fetchQueue, bucket, collector, lock, stored, settled, environment>>
    BY <1>1 DEF Invoke, Receivable, MaintenanceOpen
  <2>2. IsQueue(resultQueue', Payload) /\ SameElsewhere(resultQueue', resultQueue, i) /\ ~resultQueue'[i].visible
    BY <1>0, <2>1, ReceivedMessage
  <2>3. LambdaTyped'
    BY <2>1 DEF LambdaTyped, WorldTyped
  <2> QED
    BY <1>0, <2>1, <2>2, <2>3
    DEF SameElsewhere, WorldTyped, QueuesTyped, CollectorTyped, Held, environment
<1>2. CASE Load \/ Plan \/ DatabaseWakes
  <2>1. /\ UNCHANGED <<fetchQueue, resultQueue, bucket, collector, lock, stored, settled, environment>>
        /\ lambda.pc # "idle"
        /\ \/ \E pc \in {"lock", "requeue", "return"} : lambda' = [lambda EXCEPT !.pc = pc]
           \/ lambda' = [lambda EXCEPT !.attempt = 2]
    BY <1>2 DEF Load, Plan, DatabaseWakes
  <2>2. LambdaTyped' /\ lambda'.msg = lambda.msg /\ lambda'.pc # "idle"
    BY <2>1, WorkersKnown DEF LambdaTyped
  <2> QED
    BY <2>1, <2>2 DEF WorldTyped, QueuesTyped, CollectorTyped, Held, environment
<1>3. CASE TakeLock
  <2>1. LambdaTyped' /\ lambda'.msg = lambda.msg /\ lambda'.pc # "idle"
    BY <1>3, WorkersKnown DEF TakeLock, LambdaTyped
  <2> QED
    BY <1>3, <2>1 DEF TakeLock, WorldTyped, QueuesTyped, CollectorTyped, Held, environment
<1>4. CASE Persist
  <2>1. LambdaTyped' /\ lambda'.msg = lambda.msg /\ lambda'.pc # "idle"
    BY <1>4, WorkersKnown DEF Persist, LambdaTyped
  <2>2. /\ HandledPayload.fetchedAt \in 0..MaxClock
        /\ SourceOf(HandledPayload.job) \in Sources
    BY <1>4, HandledIsPayload DEF Persist
  <2>3. Newest(HandledPayload.job, HandledPayload.fetchedAt) \in 0..MaxClock
    BY <2>2 DEF Newest, WorldTyped
  <2>4. stored' \in [Sources -> 0..MaxClock]
    BY <1>4, <2>2, <2>3 DEF Persist, WorldTyped
  <2> QED
    BY <1>4, <2>1, <2>4 DEF Persist, WorldTyped, QueuesTyped, CollectorTyped, Held, environment
<1>5. CASE Requeue
  <2>1. LambdaTyped' /\ lambda'.msg = lambda.msg /\ lambda'.pc # "idle"
    BY <1>5, WorkersKnown DEF Requeue, LambdaTyped
  <2>2. HandledPayload.job \in Jobs
    BY <1>5, HandledIsPayload DEF Requeue
  <2>3. /\ Free(fetchQueue) # {}
        /\ fetchQueue' \in {Sent(fetchQueue, HandledPayload.job, TRUE),
                            Sent(fetchQueue, HandledPayload.job, FALSE)}
    BY <1>5 DEF Requeue
  <2>4. IsQueue(fetchQueue', Jobs) /\ Adds(fetchQueue', fetchQueue, HandledPayload.job)
    BY <1>0, <2>2, <2>3, SentMessage
  <2>5. \A i \in DOMAIN fetchQueue : i \in DOMAIN fetchQueue' /\ fetchQueue'[i] = fetchQueue[i]
    BY <2>4 DEF Adds
  <2>6. settled' \in [Jobs -> {"never", "no", "finished", "dropped", "dead"}]
    BY <1>5, <2>2 DEF Requeue, SettleAs, WorldTyped
  <2> QED
    BY <1>0, <1>5, <2>1, <2>4, <2>5, <2>6
    DEF Requeue, WorldTyped, QueuesTyped, CollectorTyped, Held, environment
<1>6. CASE SkipLockHeld \/ Return
  <2>1. lambda' = Finished /\ IsQueue(resultQueue', Payload)
    BY <1>0, <1>6, DeletedMessage DEF SkipLockHeld, Return
  <2>2. HandledPayload.job \in Jobs
    BY <1>6, HandledIsPayload DEF SkipLockHeld, Return
  <2>3. settled' \in [Jobs -> {"never", "no", "finished", "dropped", "dead"}]
    BY <1>6, <2>2 DEF SkipLockHeld, Return, SettleAs, WorldTyped
  <2> QED
    BY <1>0, <1>6, <2>1, <2>3
    DEF SkipLockHeld, Return, WorldTyped, QueuesTyped, CollectorTyped, LambdaTyped, Held, environment,
        Finished
<1>7. CASE InvocationFails
  BY <1>7 DEF InvocationFails, WorldTyped, QueuesTyped, CollectorTyped, LambdaTyped, Held, Finished,
     environment
<1> QED
  BY <1>1, <1>2, <1>3, <1>4, <1>5, <1>6, <1>7 DEF LambdaStep

LEMMA EnvironmentKeepsTypes ==
    ASSUME Typed,
           \/ QueueStep \/ Operation \/ Tick \/ UNCHANGED vars
           \/ \E i \in MessageIds : Throttle(i)
    PROVE  Typed'
<1> USE DEF Typed
<1>0. /\ IsQueue(fetchQueue, Jobs) /\ IsQueue(resultQueue, Payload)
      /\ MaxClock \in Nat
      /\ collector.msg \in MessageIds \cup {Nobody} /\ lambda.msg \in MessageIds \cup {Nobody}
  BY BoundAssumption, WorkersKnown DEF QueuesTyped
<1>1. ASSUME NEW i \in MessageIds, FetchReappears(i)
      PROVE  Typed'
  <2>1. IsQueue(fetchQueue', Jobs) /\ SameElsewhere(fetchQueue', fetchQueue, i)
    BY <1>0, <1>1, ReappearedMessage DEF FetchReappears
  <2> QED
    BY <1>0, <1>1, <2>1
    DEF FetchReappears, SameElsewhere, WorldTyped, QueuesTyped, CollectorTyped, LambdaTyped, Held,
       environment
<1>2. ASSUME NEW i \in MessageIds, ResultReappears(i)
      PROVE  Typed'
  <2>1. IsQueue(resultQueue', Payload) /\ SameElsewhere(resultQueue', resultQueue, i)
    BY <1>0, <1>2, ReappearedMessage DEF ResultReappears
  <2> QED
    BY <1>0, <1>2, <2>1
    DEF ResultReappears, SameElsewhere, WorldTyped, QueuesTyped, CollectorTyped, LambdaTyped, Held,
       environment
<1>3. ASSUME NEW i \in MessageIds, BuryFetch(i)
      PROVE  Typed'
  <2>1. IsQueue(fetchQueue', Jobs) /\ Drops(fetchQueue', fetchQueue, i)
    BY <1>0, <1>3, DeletedMessage DEF BuryFetch
  <2>2. i \in DOMAIN fetchQueue /\ fetchQueue[i].visible
    BY <1>3 DEF BuryFetch, Exhausted
  <2>3. fetchQueue[i].body \in Jobs
    BY <1>0, <2>2 DEF IsQueue, Message
  <2>4. settled' \in [Jobs -> {"never", "no", "finished", "dropped", "dead"}]
    BY <1>3, <2>3 DEF BuryFetch, SettleAs, WorldTyped
  <2> QED
    BY <1>0, <1>3, <2>1, <2>2, <2>4
    DEF BuryFetch, Drops, WorldTyped, QueuesTyped, CollectorTyped, LambdaTyped, Held, environment
<1>4. ASSUME NEW i \in MessageIds, BuryResult(i)
      PROVE  Typed'
  <2>1. IsQueue(resultQueue', Payload) /\ Drops(resultQueue', resultQueue, i)
    BY <1>0, <1>4, DeletedMessage DEF BuryResult
  <2>2. i \in DOMAIN resultQueue /\ resultQueue[i].visible
    BY <1>4 DEF BuryResult, Exhausted
  <2>3. resultQueue[i].body.job \in Jobs
    BY <1>0, <2>2 DEF IsQueue, Message, Payload
  <2>4. settled' \in [Jobs -> {"never", "no", "finished", "dropped", "dead"}]
    BY <1>4, <2>3 DEF BuryResult, SettleAs, WorldTyped
  <2> QED
    BY <1>0, <1>4, <2>1, <2>2, <2>4
    DEF BuryResult, Drops, WorldTyped, QueuesTyped, CollectorTyped, LambdaTyped, Held, environment
<1>5. ASSUME NEW i \in MessageIds, Throttle(i)
      PROVE  Typed'
  <2>1. /\ i \in Receivable(resultQueue) /\ i \in DOMAIN resultQueue /\ resultQueue[i].visible
        /\ resultQueue' = Received(resultQueue, i)
    BY <1>5 DEF Throttle, Receivable
  <2>2. IsQueue(resultQueue', Payload) /\ SameElsewhere(resultQueue', resultQueue, i)
    BY <1>0, <2>1, ReceivedMessage
  <2> QED
    BY <1>0, <1>5, <2>1, <2>2
    DEF Throttle, SameElsewhere, WorldTyped, QueuesTyped, CollectorTyped, LambdaTyped, Held, environment
<1>6. ASSUME NEW j \in Jobs, Trigger(j)
      PROVE  Typed'
  <2>1. /\ Free(fetchQueue) # {}
        /\ fetchQueue' \in {Sent(fetchQueue, j, TRUE), Sent(fetchQueue, j, FALSE)}
    BY <1>6 DEF Trigger
  <2>2. IsQueue(fetchQueue', Jobs) /\ Adds(fetchQueue', fetchQueue, j)
    BY <1>0, <2>1, SentMessage
  <2>3. \A i \in DOMAIN fetchQueue : i \in DOMAIN fetchQueue' /\ fetchQueue'[i] = fetchQueue[i]
    BY <2>2 DEF Adds
  <2>4. settled' \in [Jobs -> {"never", "no", "finished", "dropped", "dead"}]
    BY <1>6 DEF Trigger, SettleAs, WorldTyped
  <2>5. UNCHANGED <<resultQueue, bucket, collector, lambda, lock, stored, environment>>
    BY <1>6 DEF Trigger
  <2> QED
    BY <1>0, <2>2, <2>3, <2>4, <2>5
    DEF WorldTyped, QueuesTyped, CollectorTyped, LambdaTyped, Held, environment
<1>7. CASE BeginMaintenance
  <2>1. LambdaTyped' /\ lambda'.msg = lambda.msg /\ lambda'.pc = lambda.pc
    <3>1. CASE lambda.pc = "idle"
      BY <1>7, <3>1, WorkersKnown DEF BeginMaintenance, LambdaTyped
    <3>2. CASE lambda.pc # "idle"
      BY <1>7, <3>2, WorkersKnown DEF BeginMaintenance, LambdaTyped
    <3> QED
      BY <3>1, <3>2
  <2>2. WorldTyped' /\ QueuesTyped' /\ CollectorTyped'
    BY <1>7 DEF BeginMaintenance, WorldTyped, QueuesTyped, CollectorTyped
  <2>3. Held'
    BY <1>7, <2>1 DEF BeginMaintenance, Held
  <2> QED
    BY <2>1, <2>2, <2>3
<1>8. CASE BeginExit \/ EndMaintenance \/ BeginRebaseline \/ ReleaseLock \/ Tick \/ UNCHANGED vars
  BY <1>0, <1>8
  DEF BeginExit, EndMaintenance, BeginRebaseline, ReleaseLock, Tick, vars, WorldTyped, QueuesTyped,
      CollectorTyped, LambdaTyped, Held, environment
<1> QED
  BY <1>1, <1>2, <1>3, <1>4, <1>5, <1>6, <1>7, <1>8 DEF QueueStep, Operation

LEMMA TypesKept == Typed /\ [Next]_vars => Typed'
BY CollectorKeepsTypes, LambdaKeepsTypes, EnvironmentKeepsTypes DEF Next, Fault

LEMMA TypedInvariant == Spec => []Typed
<1>1. Init => Typed
  <2> SUFFICES ASSUME Init PROVE Typed
    OBVIOUS
  <2>1. IsQueue(NoMessages, Jobs) /\ IsQueue(NoMessages, Payload)
    BY DEF NoMessages, IsQueue
  <2> QED
    BY <2>1, BoundAssumption
    DEF Init, Typed, WorldTyped, QueuesTyped, CollectorTyped, LambdaTyped, Held, Resting, Finished
<1> QED
  BY <1>1, TypesKept, PTL DEF Spec

(* The queues, the two workers and the database are well-formed, and what  *)
(* a worker holds stays in its queue, whichever call fails.                *)
THEOREM TypeCorrect == Spec => []TypeOK
BY TypedInvariant, TypedImpliesTypeOK, PTL

-----------------------------------------------------------------------------
(* What the workers know of the message they hold: the bundle is of its    *)
(* job and, once published, stored; a result that is past its commit is    *)
(* stored, and the polling of its window ends only at its end or for       *)
(* maintenance.  Who may hold the lock, and what the receives of a message *)
(* were used for.                                                          *)

CollectorSound ==
    /\ collector.pc \in {"upload", "publish", "acknowledge"} =>
           collector.payload.job = fetchQueue[collector.msg].body
    /\ collector.pc \in {"publish", "acknowledge"} => collector.payload \in bucket

StoredWhenCommitted ==
    lambda.pc \in {"plan", "requeue", "return"} =>
        stored[SourceOf(HandledPayload.job)] >= HandledPayload.fetchedAt

EndsForAReason ==
    lambda.pc # "idle" =>
        /\ lambda.now <= clock
        /\ MaintenanceOpen => lambda.maintained
        /\ lambda.requeued => lambda.pc = "return"
        /\ lambda.pc = "return" /\ ~lambda.requeued /\ HandledPayload.job \in Windows =>
               clock >= WindowEnd[HandledPayload.job] \/ lambda.maintained

LockHeldForAReason ==
    /\ lock = "invocation" => lambda.pc = "persist"
    /\ lock = "rebaseline" => maintenance = "open"

BudgetTyped ==
    budget \in [faults : 0..MaxFaults, maintenance : 0..MaxMaintenance,
                triggers : [Jobs -> 0..MaxTriggers]]

(* Receives that did not fail are those of the messages in hands.          *)
FetchFailed ==
    \A i \in DOMAIN fetchQueue :
        fetchQueue[i].received <=
            Failures + IF collector.pc # "idle" /\ collector.msg = i THEN 1 ELSE 0

ResultsFailed ==
    \A i \in DOMAIN resultQueue :
        resultQueue[i].received <=
            Failures + IF lambda.pc # "idle" /\ lambda.msg = i THEN 1 ELSE 0

-----------------------------------------------------------------------------
(* A job whose last end is "no" is carried by a message that will not be   *)
(* deleted before another message or an end of the job exists: not the one *)
(* the collector is about to acknowledge, nor a result whose next poll is  *)
(* queued.                                                                 *)

FetchCarries(j) ==
    \E i \in DOMAIN fetchQueue :
        /\ fetchQueue[i].body = j
        /\ ~(collector.pc = "acknowledge" /\ collector.msg = i)

ResultCarries(j) ==
    \E i \in DOMAIN resultQueue :
        /\ resultQueue[i].body.job = j
        /\ ~(lambda.pc = "return" /\ lambda.requeued /\ lambda.msg = i)

Accounted ==
    \A j \in Jobs :
        /\ settled[j] = "no" => FetchCarries(j) \/ ResultCarries(j)
        /\ settled[j] = "never" => ~Outstanding(j)

-----------------------------------------------------------------------------
(* What any step does to the two queues.                                   *)

SameBodies(changed, queue) ==
    /\ DOMAIN changed = DOMAIN queue
    /\ \A k \in DOMAIN queue : changed[k].body = queue[k].body

FetchEffect ==
    \/ SameBodies(fetchQueue', fetchQueue)
    \/ /\ Requeue
       /\ HandledPayload.job \in Jobs
       /\ Adds(fetchQueue', fetchQueue, HandledPayload.job)
    \/ \E j \in Jobs : Trigger(j) /\ Adds(fetchQueue', fetchQueue, j)
    \/ Acknowledge /\ Drops(fetchQueue', fetchQueue, collector.msg)
    \/ \E i \in MessageIds : BuryFetch(i) /\ Drops(fetchQueue', fetchQueue, i)

ResultEffect ==
    \/ SameBodies(resultQueue', resultQueue)
    \/ /\ Publish
       /\ collector.payload \in Payload
       /\ Adds(resultQueue', resultQueue, collector.payload)
    \/ (SkipLockHeld \/ Return) /\ Drops(resultQueue', resultQueue, lambda.msg)
    \/ \E i \in MessageIds : BuryResult(i) /\ Drops(resultQueue', resultQueue, i)

LEMMA FetchQueueSteps ==
    ASSUME Typed, [Next]_vars
    PROVE  FetchEffect
<1>0. IsQueue(fetchQueue, Jobs) /\ QueuesTyped /\ Held
  BY DEF Typed, QueuesTyped
<1>1. ASSUME NEW i \in MessageIds, ReceiveJob(i)
      PROVE  FetchEffect
  <2>1. i \in Receivable(fetchQueue) /\ fetchQueue' = Received(fetchQueue, i)
    BY <1>1 DEF ReceiveJob
  <2>2. SameElsewhere(fetchQueue', fetchQueue, i)
    BY <1>0, <2>1, ReceivedMessage
  <2> QED
    BY <2>2 DEF SameElsewhere, SameBodies, FetchEffect
<1>2. ASSUME NEW i \in MessageIds, FetchReappears(i)
      PROVE  FetchEffect
  <2>1. SameElsewhere(fetchQueue', fetchQueue, i)
    BY <1>0, <1>2, ReappearedMessage DEF FetchReappears
  <2> QED
    BY <2>1 DEF SameElsewhere, SameBodies, FetchEffect
<1>3. ASSUME NEW i \in MessageIds, BuryFetch(i)
      PROVE  FetchEffect
  <2>1. Drops(fetchQueue', fetchQueue, i)
    BY <1>0, <1>3, DeletedMessage DEF BuryFetch
  <2> QED
    BY <1>3, <2>1 DEF FetchEffect
<1>4. CASE Acknowledge
  <2>1. Drops(fetchQueue', fetchQueue, collector.msg)
    BY <1>0, <1>4, DeletedMessage DEF Acknowledge
  <2> QED
    BY <1>4, <2>1 DEF FetchEffect
<1>5. CASE Requeue
  <2>1. HandledPayload.job \in Jobs
    BY <1>0, <1>5, HandledIsPayload DEF Requeue
  <2>2. /\ Free(fetchQueue) # {}
        /\ fetchQueue' \in {Sent(fetchQueue, HandledPayload.job, TRUE),
                            Sent(fetchQueue, HandledPayload.job, FALSE)}
    BY <1>5 DEF Requeue
  <2>3. Adds(fetchQueue', fetchQueue, HandledPayload.job)
    BY <1>0, <2>1, <2>2, SentMessage
  <2> QED
    BY <1>5, <2>1, <2>3 DEF FetchEffect
<1>6. ASSUME NEW j \in Jobs, Trigger(j)
      PROVE  FetchEffect
  <2>1. /\ Free(fetchQueue) # {}
        /\ fetchQueue' \in {Sent(fetchQueue, j, TRUE), Sent(fetchQueue, j, FALSE)}
    BY <1>6 DEF Trigger
  <2>2. Adds(fetchQueue', fetchQueue, j)
    BY <1>0, <2>1, SentMessage
  <2> QED
    BY <1>6, <2>2 DEF FetchEffect
<1>7. CASE UNCHANGED fetchQueue
  BY <1>7 DEF FetchEffect, SameBodies
<1>8. \/ UNCHANGED fetchQueue \/ Acknowledge \/ Requeue
      \/ \E i \in MessageIds : ReceiveJob(i) \/ FetchReappears(i) \/ BuryFetch(i)
      \/ \E j \in Jobs : Trigger(j)
  BY DEF Next, CollectorStep, LambdaStep, QueueStep, Fault, Operation, vars,
         Collect, Upload, Publish, CollectorFails, Invoke, Load, TakeLock, SkipLockHeld,
         Persist, Plan, Return, ResultReappears, BuryResult, InvocationFails, DatabaseWakes,
         Throttle, BeginMaintenance, BeginExit, EndMaintenance, BeginRebaseline, ReleaseLock,
         Tick
<1> QED
  BY <1>1, <1>2, <1>3, <1>4, <1>5, <1>6, <1>7, <1>8

LEMMA ResultQueueSteps ==
    ASSUME Typed, [Next]_vars
    PROVE  ResultEffect
<1>0. IsQueue(resultQueue, Payload) /\ CollectorTyped /\ LambdaTyped
  BY DEF Typed, QueuesTyped
<1>1. ASSUME NEW i \in MessageIds, Invoke(i) \/ Throttle(i)
      PROVE  ResultEffect
  <2>1. i \in Receivable(resultQueue) /\ resultQueue' = Received(resultQueue, i)
    BY <1>1 DEF Invoke, Throttle
  <2>2. SameElsewhere(resultQueue', resultQueue, i)
    BY <1>0, <2>1, ReceivedMessage
  <2> QED
    BY <2>2 DEF SameElsewhere, SameBodies, ResultEffect
<1>2. ASSUME NEW i \in MessageIds, ResultReappears(i)
      PROVE  ResultEffect
  <2>1. SameElsewhere(resultQueue', resultQueue, i)
    BY <1>0, <1>2, ReappearedMessage DEF ResultReappears
  <2> QED
    BY <2>1 DEF SameElsewhere, SameBodies, ResultEffect
<1>3. ASSUME NEW i \in MessageIds, BuryResult(i)
      PROVE  ResultEffect
  <2>1. Drops(resultQueue', resultQueue, i)
    BY <1>0, <1>3, DeletedMessage DEF BuryResult
  <2> QED
    BY <1>3, <2>1 DEF ResultEffect
<1>4. CASE SkipLockHeld \/ Return
  <2>1. Drops(resultQueue', resultQueue, lambda.msg)
    BY <1>0, <1>4, DeletedMessage DEF SkipLockHeld, Return
  <2> QED
    BY <1>4, <2>1 DEF ResultEffect
<1>5. CASE Publish
  <2>1. /\ collector.payload \in Payload /\ Free(resultQueue) # {}
        /\ resultQueue' \in {Sent(resultQueue, collector.payload, TRUE),
                             Sent(resultQueue, collector.payload, FALSE)}
    BY <1>0, <1>5, WorkersKnown DEF Publish
  <2>2. Adds(resultQueue', resultQueue, collector.payload)
    BY <1>0, <2>1, SentMessage
  <2> QED
    BY <1>5, <2>1, <2>2 DEF ResultEffect
<1>6. CASE UNCHANGED resultQueue
  BY <1>6 DEF ResultEffect, SameBodies
<1>7. \/ UNCHANGED resultQueue \/ SkipLockHeld \/ Return \/ Publish
      \/ \E i \in MessageIds : Invoke(i) \/ Throttle(i) \/ ResultReappears(i) \/ BuryResult(i)
  BY DEF Next, CollectorStep, LambdaStep, QueueStep, Fault, Operation, vars,
         ReceiveJob, Collect, Upload, Acknowledge, CollectorFails, Load, TakeLock,
         Persist, Plan, Requeue, FetchReappears, BuryFetch, InvocationFails, DatabaseWakes,
         Trigger, BeginMaintenance, BeginExit, EndMaintenance, BeginRebaseline, ReleaseLock,
         Tick
<1> QED
  BY <1>1, <1>2, <1>3, <1>4, <1>5, <1>6, <1>7

(* A message that stays in a queue keeps its body.                         *)
LEMMA BodiesKept ==
    ASSUME Typed, [Next]_vars
    PROVE  /\ \A i \in DOMAIN fetchQueue \cap DOMAIN fetchQueue' :
                  fetchQueue'[i].body = fetchQueue[i].body
           /\ \A i \in DOMAIN resultQueue \cap DOMAIN resultQueue' :
                  resultQueue'[i].body = resultQueue[i].body
<1>1. FetchEffect /\ ResultEffect
  BY FetchQueueSteps, ResultQueueSteps
<1>2. \A i \in DOMAIN fetchQueue \cap DOMAIN fetchQueue' :
          fetchQueue'[i].body = fetchQueue[i].body
  BY <1>1 DEF FetchEffect, SameBodies, Adds, Drops
<1>3. \A i \in DOMAIN resultQueue \cap DOMAIN resultQueue' :
          resultQueue'[i].body = resultQueue[i].body
  BY <1>1 DEF ResultEffect, SameBodies, Adds, Drops
<1> QED
  BY <1>2, <1>3

(* The collector's message and its bundle belong together.                 *)
LEMMA CollectorStaysSound ==
    ASSUME Typed, Typed', CollectorSound, [Next]_vars
    PROVE  CollectorSound'
<1>1. CASE \/ \E i \in MessageIds : ReceiveJob(i)
           \/ Acknowledge \/ CollectorFails
  <2>1. collector'.pc \in {"idle", "collect"}
    BY <1>1 DEF ReceiveJob, Acknowledge, CollectorFails, Resting
  <2> QED
    BY <2>1 DEF CollectorSound
<1>2. CASE Collect
  BY <1>2 DEF Collect, CollectorSound
<1>3. CASE Upload \/ Publish
  <2>1. /\ collector \in [pc : {"upload", "publish", "acknowledge"}, msg : MessageIds,
                          payload : Payload]
    BY <1>3, WorkersKnown DEF Upload, Publish, Typed
  <2>2. /\ collector'.payload = collector.payload /\ collector'.msg = collector.msg
        /\ fetchQueue' = fetchQueue
        /\ collector.payload \in bucket'
    BY <1>3, <2>1 DEF Upload, Publish, CollectorSound
  <2> QED
    BY <2>1, <2>2 DEF CollectorSound
<1>4. CASE UNCHANGED <<collector, bucket>>
  <2>1. collector.pc # "idle" => fetchQueue'[collector.msg].body = fetchQueue[collector.msg].body
    BY <1>4, BodiesKept DEF Typed, Held
  <2> QED
    BY <1>4, <2>1 DEF CollectorSound
<1>5. \/ \E i \in MessageIds : ReceiveJob(i)
      \/ Acknowledge \/ CollectorFails \/ Collect \/ Upload \/ Publish
      \/ UNCHANGED <<collector, bucket>>
  BY DEF Next, CollectorStep, LambdaStep, QueueStep, Fault, Operation, vars,
         Invoke, Load, TakeLock, SkipLockHeld, Persist, Plan, Requeue, Return,
         FetchReappears, ResultReappears, BuryFetch, BuryResult, InvocationFails,
         DatabaseWakes, Throttle, Trigger, BeginMaintenance, BeginExit, EndMaintenance,
         BeginRebaseline, ReleaseLock, Tick
<1> QED
  BY <1>1, <1>2, <1>3, <1>4, <1>5

LEMMA BucketGrows == [Next]_vars => bucket \subseteq bucket'
BY DEF Next, CollectorStep, LambdaStep, QueueStep, Fault, Operation, vars,
       ReceiveJob, Collect, Upload, Publish, Acknowledge, CollectorFails,
       Invoke, Load, TakeLock, SkipLockHeld, Persist, Plan, Requeue, Return,
       FetchReappears, ResultReappears, BuryFetch, BuryResult, InvocationFails,
       DatabaseWakes, Throttle, Trigger, BeginMaintenance, BeginExit, EndMaintenance,
       BeginRebaseline, ReleaseLock, Tick

LEMMA PointersStayResolved ==
    ASSUME Typed, CollectorSound, PointersResolve, [Next]_vars
    PROVE  PointersResolve'
<1>1. ResultEffect /\ bucket \subseteq bucket'
  BY ResultQueueSteps, BucketGrows
<1>2. Publish => collector.payload \in bucket
  BY DEF Publish, CollectorSound
<1>3. ASSUME NEW i \in DOMAIN resultQueue'
      PROVE  resultQueue'[i].body \in bucket'
  <2>1. CASE i \in DOMAIN resultQueue
    BY <1>1, <1>3, <2>1, BodiesKept DEF PointersResolve
  <2>2. CASE i \notin DOMAIN resultQueue
    <3>1. Publish /\ Adds(resultQueue', resultQueue, collector.payload)
      BY <1>1, <1>3, <2>2 DEF ResultEffect, SameBodies, Drops
    <3>2. resultQueue'[i].body = collector.payload
      BY <1>3, <2>2, <3>1 DEF Adds
    <3> QED
      BY <1>1, <1>2, <3>1, <3>2
  <2> QED
    BY <2>1, <2>2
<1> QED
  BY <1>3 DEF PointersResolve

-----------------------------------------------------------------------------
(* The Lambda: what it has committed stays stored, and its chain ends for  *)
(* a reason.                                                               *)

LEMMA StoredRises ==
    ASSUME Typed, [Next]_vars
    PROVE  \A s \in Sources : stored'[s] \in Nat /\ stored[s] \in Nat /\ stored'[s] >= stored[s]
<1>1. stored \in [Sources -> 0..MaxClock] /\ MaxClock \in Nat
  BY BoundAssumption DEF Typed, WorldTyped
<1>2. CASE Persist
  <2>1. /\ HandledPayload.fetchedAt \in 0..MaxClock
        /\ SourceOf(HandledPayload.job) \in Sources
    BY <1>2, HandledIsPayload DEF Persist, Typed
  <2> QED
    BY <1>1, <1>2, <2>1 DEF Persist, Newest
<1>3. CASE UNCHANGED stored
  BY <1>1, <1>3
<1>4. Persist \/ UNCHANGED stored
  BY DEF Next, CollectorStep, LambdaStep, QueueStep, Fault, Operation, vars,
         ReceiveJob, Collect, Upload, Publish, Acknowledge, CollectorFails,
         Invoke, Load, TakeLock, SkipLockHeld, Plan, Requeue, Return,
         FetchReappears, ResultReappears, BuryFetch, BuryResult, InvocationFails,
         DatabaseWakes, Throttle, Trigger, BeginMaintenance, BeginExit, EndMaintenance,
         BeginRebaseline, ReleaseLock, Tick
<1> QED
  BY <1>2, <1>3, <1>4

(* How a step moves the invocation.                                        *)
LambdaMoves ==
    \/ lambda' = Finished
    \/ \E i \in MessageIds : Invoke(i)
    \/ Persist \/ Plan \/ Requeue
    \/ /\ lambda.pc \in {"load", "lock"}
       /\ lambda' \in {[lambda EXCEPT !.pc = "lock"], [lambda EXCEPT !.pc = "persist"],
                       [lambda EXCEPT !.attempt = 2]}
       /\ UNCHANGED <<clock, maintenance>>
    \/ BeginMaintenance
    \/ UNCHANGED lambda /\ UNCHANGED maintenance
    \/ UNCHANGED lambda /\ maintenance' \in {"none", "exiting"} /\ MaintenanceOpen

LEMMA LambdaSteps == [Next]_vars => LambdaMoves
<1>1. CASE Load \/ TakeLock \/ DatabaseWakes
  BY <1>1 DEF Load, TakeLock, DatabaseWakes, LambdaMoves, environment
<1>2. CASE BeginExit \/ EndMaintenance
  BY <1>2 DEF BeginExit, EndMaintenance, LambdaMoves, MaintenanceOpen
<1>3. CASE SkipLockHeld \/ Return \/ InvocationFails
  BY <1>3 DEF SkipLockHeld, Return, InvocationFails, LambdaMoves
<1>4. CASE (\E i \in MessageIds : Invoke(i)) \/ Persist \/ Plan \/ Requeue \/ BeginMaintenance
  BY <1>4 DEF LambdaMoves
<1>5. CASE UNCHANGED <<lambda, maintenance>>
  BY <1>5 DEF LambdaMoves
<1>6. ASSUME [Next]_vars
      PROVE  \/ Load \/ TakeLock \/ DatabaseWakes \/ BeginExit \/ EndMaintenance
             \/ SkipLockHeld \/ Return \/ InvocationFails
             \/ (\E i \in MessageIds : Invoke(i)) \/ Persist \/ Plan \/ Requeue \/ BeginMaintenance
             \/ UNCHANGED <<lambda, maintenance>>
  BY <1>6 DEF Next, CollectorStep, LambdaStep, QueueStep, Fault, Operation, vars, environment,
         ReceiveJob, Collect, Upload, Publish, Acknowledge, CollectorFails,
         FetchReappears, ResultReappears, BuryFetch, BuryResult,
         Throttle, Trigger, BeginRebaseline, ReleaseLock, Tick
<1> QED
  BY <1>1, <1>2, <1>3, <1>4, <1>5, <1>6

(* While an invocation is under way, the payload it handles does not       *)
(* change.                                                                 *)
LEMMA HandledStays ==
    ASSUME Typed, Typed', [Next]_vars, lambda.pc # "idle", lambda'.pc # "idle",
           lambda'.msg = lambda.msg
    PROVE  HandledPayload' = HandledPayload
<1>1. lambda.msg \in DOMAIN resultQueue \cap DOMAIN resultQueue'
  BY DEF Typed, Held
<1>2. resultQueue'[lambda.msg].body = resultQueue[lambda.msg].body
  BY <1>1, BodiesKept
<1> QED
  BY <1>2 DEF HandledPayload

(* An invocation that goes on keeps its message and its time, and reaches  *)
(* the steps behind the commit by the commit only.                         *)
LEMMA InvocationGoesOn ==
    ASSUME Typed, [Next]_vars, lambda'.pc # "idle", ~\E i \in MessageIds : Invoke(i)
    PROVE  /\ lambda.pc # "idle" /\ lambda'.msg = lambda.msg /\ lambda'.now = lambda.now
           /\ lambda'.pc \in {"plan", "requeue", "return"} =>
                  Persist \/ lambda.pc \in {"plan", "requeue", "return"}
<1>1. LambdaMoves
  BY LambdaSteps
<1>2. /\ lambda.pc = "idle" => lambda = Finished
      /\ lambda.pc # "idle" =>
             lambda \in [pc : {"load", "lock", "persist", "plan", "requeue", "return"},
                         msg : MessageIds, now : 0..MaxClock, attempt : {1, 2},
                         requeued : BOOLEAN, maintained : BOOLEAN]
  BY WorkersKnown DEF Typed
<1>3. CASE Persist \/ Plan \/ Requeue
  BY <1>2, <1>3 DEF Persist, Plan, Requeue
<1>4. CASE BeginMaintenance
  <2>1. lambda.pc # "idle"
    BY <1>4 DEF BeginMaintenance
  <2>2. lambda' = [lambda EXCEPT !.maintained = TRUE]
    BY <1>4, <2>1 DEF BeginMaintenance
  <2> QED
    BY <1>2, <2>1, <2>2
<1>5. CASE UNCHANGED lambda
  BY <1>5
<1>6. CASE /\ lambda.pc \in {"load", "lock"}
           /\ lambda' \in {[lambda EXCEPT !.pc = "lock"], [lambda EXCEPT !.pc = "persist"],
                           [lambda EXCEPT !.attempt = 2]}
  BY <1>2, <1>6
<1>7. lambda' # Finished
  BY DEF Finished
<1> QED
  BY <1>1, <1>3, <1>4, <1>5, <1>6, <1>7 DEF LambdaMoves

LEMMA CommittedStaysStored ==
    ASSUME Typed, Typed', StoredWhenCommitted, [Next]_vars
    PROVE  StoredWhenCommitted'
<1> SUFFICES ASSUME lambda'.pc \in {"plan", "requeue", "return"}
             PROVE  stored'[SourceOf(HandledPayload'.job)] >= HandledPayload'.fetchedAt
  BY DEF StoredWhenCommitted, SourceOf
<1>1. ~\E i \in MessageIds : Invoke(i)
  BY DEF Invoke
<1>2. /\ lambda.pc # "idle" /\ lambda'.msg = lambda.msg
      /\ Persist \/ lambda.pc \in {"plan", "requeue", "return"}
  BY <1>1, InvocationGoesOn
<1>3. HandledPayload' = HandledPayload
  BY <1>2, HandledStays
<1>4. /\ HandledPayload.fetchedAt \in 0..MaxClock /\ MaxClock \in Nat
      /\ SourceOf(HandledPayload.job) \in Sources
  BY <1>2, HandledIsPayload, BoundAssumption DEF Typed
<1>5. CASE Persist
  BY <1>3, <1>4, <1>5 DEF Persist, Newest, Typed, WorldTyped
<1>6. CASE ~Persist
  <2>1. stored[SourceOf(HandledPayload.job)] >= HandledPayload.fetchedAt
    BY <1>2, <1>6 DEF StoredWhenCommitted
  <2> QED
    BY <1>3, <1>4, <2>1, StoredRises
<1> QED
  BY <1>5, <1>6

LEMMA ReasonsRemain ==
    ASSUME Typed, Typed', EndsForAReason, [Next]_vars
    PROVE  EndsForAReason'
<1> SUFFICES ASSUME lambda'.pc # "idle"
             PROVE  EndsForAReason'
  BY DEF EndsForAReason
<1>1. LambdaMoves /\ LambdaTyped /\ CollectorTyped
  BY LambdaSteps DEF Typed
<1>2. clock \in Nat /\ clock' \in Nat /\ clock' >= clock
  <2>1. Tick \/ clock' = clock
    BY DEF Next, CollectorStep, LambdaStep, QueueStep, Fault, Operation, vars, environment,
           ReceiveJob, Collect, Upload, Publish, Acknowledge, CollectorFails,
           Invoke, Load, TakeLock, SkipLockHeld, Persist, Plan, Requeue, Return,
           FetchReappears, ResultReappears, BuryFetch, BuryResult, InvocationFails,
           DatabaseWakes, Throttle, Trigger, BeginMaintenance, BeginExit, EndMaintenance,
           BeginRebaseline, ReleaseLock
  <2> QED
    BY <2>1, BoundAssumption DEF Tick, Typed, WorldTyped
<1>3. ASSUME NEW i \in MessageIds, Invoke(i)
      PROVE  EndsForAReason'
  BY <1>2, <1>3 DEF Invoke, EndsForAReason, MaintenanceOpen, environment
<1>4. CASE ~\E i \in MessageIds : Invoke(i)
  <2>1. lambda.pc # "idle" /\ lambda'.msg = lambda.msg /\ lambda'.now = lambda.now
    BY <1>4, InvocationGoesOn
  <2>2. HandledPayload' = HandledPayload
    BY <2>1, HandledStays
  <2>3. lambda \in [pc : {"load", "lock", "persist", "plan", "requeue", "return"},
                    msg : MessageIds, now : 0..MaxClock, attempt : {1, 2},
                    requeued : BOOLEAN, maintained : BOOLEAN]
    BY <1>1, <2>1, WorkersKnown
  <2>4. CASE Plan
    <3>1. /\ HandledPayload.job \in Jobs
      BY <2>1, HandledIsPayload DEF Typed
    <3>2. WindowEnd \in [Windows -> Nat] /\ MaxClock \in Nat
      BY JobAssumption, BoundAssumption
    <3>3. /\ lambda' = [lambda EXCEPT !.pc = IF KeepsPolling(HandledPayload.job)
                                             THEN "requeue" ELSE "return"]
          /\ UNCHANGED <<clock, maintenance>> /\ lambda.pc = "plan"
      BY <2>4 DEF Plan, environment
    <3> QED
      BY <1>2, <2>2, <2>3, <3>2, <3>3 DEF EndsForAReason, KeepsPolling, MaintenanceOpen
  <2>5. CASE Persist
    BY <1>2, <2>2, <2>3, <2>5 DEF Persist, EndsForAReason, MaintenanceOpen, environment
  <2>6. CASE Requeue
    BY <1>2, <2>2, <2>3, <2>6 DEF Requeue, EndsForAReason, MaintenanceOpen, environment
  <2>7. CASE BeginMaintenance
    BY <1>2, <2>1, <2>2, <2>3, <2>7 DEF BeginMaintenance, EndsForAReason, MaintenanceOpen
  <2>8. CASE ~Plan /\ ~Persist /\ ~Requeue /\ ~BeginMaintenance
    <3>1. WindowEnd \in [Windows -> Nat] /\ MaxClock \in Nat
      BY JobAssumption, BoundAssumption
    <3>2. /\ lambda'.pc = "return" => lambda.pc = "return"
          /\ lambda'.requeued = lambda.requeued /\ lambda'.maintained = lambda.maintained
          /\ lambda.requeued => lambda'.pc = lambda.pc
          /\ MaintenanceOpen' => MaintenanceOpen
      BY <1>1, <1>4, <2>1, <2>3, <2>8 DEF LambdaMoves, Finished, MaintenanceOpen, EndsForAReason
    <3> QED
      BY <1>2, <2>1, <2>2, <2>3, <3>1, <3>2 DEF EndsForAReason
  <2> QED
    BY <2>4, <2>5, <2>6, <2>7, <2>8
<1> QED
  BY <1>3, <1>4

LEMMA LockStaysExplained ==
    ASSUME Typed, LockHeldForAReason, [Next]_vars
    PROVE  LockHeldForAReason'
<1>1. CASE TakeLock
  <2>1. lambda'.pc = "persist"
    BY <1>1, WorkersKnown DEF TakeLock, Typed
  <2> QED
    BY <1>1, <2>1 DEF TakeLock, LockHeldForAReason
<1>2. CASE BeginMaintenance
  BY <1>2 DEF BeginMaintenance, LockHeldForAReason
<1>3. CASE BeginExit
  BY <1>3 DEF BeginExit, LockHeldForAReason
<1>4. CASE EndMaintenance
  BY <1>4 DEF EndMaintenance, LockHeldForAReason
<1>5. CASE Persist \/ ReleaseLock
  BY <1>5 DEF Persist, ReleaseLock, LockHeldForAReason
<1>6. CASE BeginRebaseline
  BY <1>6 DEF BeginRebaseline, LockHeldForAReason, environment
<1>7. CASE InvocationFails
  BY <1>7 DEF InvocationFails, LockHeldForAReason, environment
<1>8. CASE /\ UNCHANGED <<lock, maintenance>>
           /\ lambda.pc # "persist" \/ UNCHANGED lambda
  BY <1>8 DEF LockHeldForAReason
<1>9. \/ TakeLock \/ BeginMaintenance \/ BeginExit \/ EndMaintenance \/ Persist
      \/ ReleaseLock \/ BeginRebaseline \/ InvocationFails
      \/ /\ UNCHANGED <<lock, maintenance>>
         /\ lambda.pc # "persist" \/ UNCHANGED lambda
  BY DEF Next, CollectorStep, LambdaStep, QueueStep, Fault, Operation, vars, environment,
         ReceiveJob, Collect, Upload, Publish, Acknowledge, CollectorFails,
         Invoke, Load, SkipLockHeld, Plan, Requeue, Return,
         FetchReappears, ResultReappears, BuryFetch, BuryResult,
         DatabaseWakes, Throttle, Trigger, Tick
<1> QED
  BY <1>1, <1>2, <1>3, <1>4, <1>5, <1>6, <1>7, <1>8, <1>9

LEMMA FailuresCount ==
    ASSUME BudgetTyped, [Next]_vars
    PROVE  /\ BudgetTyped' /\ Failures \in Nat /\ Failures' \in Nat /\ Failures' >= Failures
           /\ SpendFault => Failures' = Failures + 1
<1>0. /\ {MaxFaults, MaxMaintenance, MaxTriggers} \subseteq Nat
      /\ budget.faults \in 0..MaxFaults /\ budget.maintenance \in 0..MaxMaintenance
      /\ budget.triggers \in [Jobs -> 0..MaxTriggers]
  BY BoundAssumption DEF BudgetTyped
<1>1. CASE SpendFault
  <2>1. budget.faults - 1 \in 0..MaxFaults
    BY <1>0, <1>1 DEF SpendFault
  <2>2. BudgetTyped' /\ budget'.faults = budget.faults - 1
    BY <1>1, <2>1 DEF SpendFault, BudgetTyped
  <2> QED
    BY <1>0, <2>1, <2>2 DEF Failures
<1>2. CASE budget' = budget
  BY <1>0, <1>2 DEF BudgetTyped, Failures, SpendFault
<1>3. CASE BeginMaintenance
  <2>1. budget.maintenance - 1 \in 0..MaxMaintenance
    BY <1>0, <1>3 DEF BeginMaintenance
  <2>2. BudgetTyped' /\ budget'.faults = budget.faults
    BY <1>3, <2>1 DEF BeginMaintenance, BudgetTyped
  <2>3. budget'.maintenance # budget.maintenance
    BY <1>0, <1>3, <2>1 DEF BeginMaintenance, BudgetTyped
  <2> QED
    BY <1>0, <2>2, <1>1 DEF Failures
<1>4. ASSUME NEW j \in Jobs, Trigger(j)
      PROVE  BudgetTyped' /\ budget'.faults = budget.faults
  <2>1. budget.triggers[j] - 1 \in 0..MaxTriggers
    BY <1>0, <1>4 DEF Trigger
  <2>2. [budget.triggers EXCEPT ![j] = @ - 1] \in [Jobs -> 0..MaxTriggers]
    BY <1>0, <2>1
  <2>3. budget' = [budget EXCEPT !.triggers = [budget.triggers EXCEPT ![j] = @ - 1]]
    BY <1>4 DEF Trigger
  <2> QED
    BY <2>2, <2>3 DEF BudgetTyped
<1>5. SpendFault \/ budget' = budget \/ BeginMaintenance \/ \E j \in Jobs : Trigger(j)
  BY DEF Next, CollectorStep, LambdaStep, QueueStep, Fault, Operation, vars,
         ReceiveJob, Collect, Upload, Publish, Acknowledge, CollectorFails,
         Invoke, Load, TakeLock, SkipLockHeld, Persist, Plan, Requeue, Return,
         FetchReappears, ResultReappears, BuryFetch, BuryResult, InvocationFails,
         DatabaseWakes, Throttle, BeginExit, EndMaintenance, BeginRebaseline,
         ReleaseLock, Tick
<1> QED
  BY <1>0, <1>1, <1>2, <1>3, <1>4, <1>5 DEF Failures

LEMMA QueuedAreCounted ==
    ASSUME QueuesTyped
    PROVE  /\ \A i \in DOMAIN fetchQueue : fetchQueue[i].received \in Nat
           /\ \A i \in DOMAIN resultQueue : resultQueue[i].received \in Nat
<1>1. MaxReceives \in Nat
  BY BoundAssumption
<1>2. \A i \in DOMAIN fetchQueue : fetchQueue[i] \in Message(Jobs)
  BY DEF QueuesTyped, IsQueue
<1>3. \A i \in DOMAIN resultQueue : resultQueue[i] \in Message(Payload)
  BY DEF QueuesTyped, IsQueue
<1> QED
  BY <1>1, <1>2, <1>3 DEF Message

LEMMA FetchFailuresCounted ==
    ASSUME Typed, Typed', BudgetTyped, FetchFailed, [Next]_vars
    PROVE  FetchFailed'
<1>0. /\ IsQueue(fetchQueue, Jobs) /\ QueuesTyped
      /\ Failures \in Nat /\ Failures' \in Nat /\ Failures' >= Failures
      /\ SpendFault => Failures' = Failures + 1
      /\ \A i \in DOMAIN fetchQueue : fetchQueue[i].received \in Nat
  BY FailuresCount, QueuedAreCounted DEF Typed, QueuesTyped
<1>1. ASSUME NEW k \in MessageIds, ReceiveJob(k)
      PROVE  FetchFailed'
  <2>1. /\ k \in Receivable(fetchQueue) /\ fetchQueue' = Received(fetchQueue, k)
        /\ k \in DOMAIN fetchQueue /\ collector.pc = "idle"
        /\ collector'.pc = "collect" /\ collector'.msg = k
    BY <1>1 DEF ReceiveJob, Receivable
  <2>2. /\ SameElsewhere(fetchQueue', fetchQueue, k)
        /\ fetchQueue'[k].received = fetchQueue[k].received + 1
    BY <1>0, <2>1, ReceivedMessage
  <2> QED
    BY <1>0, <2>1, <2>2 DEF FetchFailed, SameElsewhere
<1>2. ASSUME NEW k \in MessageIds, FetchReappears(k)
      PROVE  FetchFailed'
  <2>1. /\ SameElsewhere(fetchQueue', fetchQueue, k)
        /\ fetchQueue'[k].received = fetchQueue[k].received
        /\ UNCHANGED collector
    BY <1>0, <1>2, ReappearedMessage DEF FetchReappears
  <2>2. \A i \in DOMAIN fetchQueue' :
            i \in DOMAIN fetchQueue /\ fetchQueue'[i].received = fetchQueue[i].received
    BY <2>1 DEF SameElsewhere
  <2> QED
    BY <1>0, <2>1, <2>2 DEF FetchFailed
<1>3. ASSUME NEW k, Drops(fetchQueue', fetchQueue, k),
             UNCHANGED collector \/ k = collector.msg
      PROVE  FetchFailed'
  BY <1>0, <1>3 DEF FetchFailed, Drops
<1>4. ASSUME NEW body, Adds(fetchQueue', fetchQueue, body), UNCHANGED collector
      PROVE  FetchFailed'
  BY <1>0, <1>4 DEF FetchFailed, Adds
<1>5. CASE CollectorFails
  BY <1>0, <1>5 DEF CollectorFails, FetchFailed
<1>6. CASE Collect \/ Upload \/ Publish
  <2>1. /\ UNCHANGED fetchQueue /\ collector.pc # "idle"
        /\ collector'.msg = collector.msg /\ collector'.pc # "idle"
    <3>1. CASE Collect
      BY <3>1 DEF Collect
    <3>2. CASE Upload \/ Publish
      <4>1. collector \in [pc : {"upload", "publish", "acknowledge"}, msg : MessageIds,
                           payload : Payload]
        BY <3>2, WorkersKnown DEF Upload, Publish, Typed
      <4> QED
        BY <3>2, <4>1 DEF Upload, Publish
    <3> QED
      BY <1>6, <3>1, <3>2
  <2> QED
    BY <1>0, <2>1 DEF FetchFailed
<1>7. CASE UNCHANGED <<fetchQueue, collector>>
  BY <1>0, <1>7 DEF FetchFailed
<1>8. \/ UNCHANGED <<fetchQueue, collector>>
      \/ CollectorFails \/ Collect \/ Upload \/ Publish \/ Acknowledge \/ Requeue
      \/ \E k \in MessageIds : ReceiveJob(k) \/ FetchReappears(k) \/ BuryFetch(k)
      \/ \E j \in Jobs : Trigger(j)
  BY DEF Next, CollectorStep, LambdaStep, QueueStep, Fault, Operation, vars,
         Invoke, Load, TakeLock, SkipLockHeld, Persist, Plan, Return, ResultReappears,
         BuryResult, InvocationFails, DatabaseWakes, Throttle, BeginMaintenance,
         BeginExit, EndMaintenance, BeginRebaseline, ReleaseLock, Tick
<1>9. CASE Acknowledge
  <2>1. Drops(fetchQueue', fetchQueue, collector.msg)
    BY <1>0, <1>9, DeletedMessage DEF Acknowledge
  <2> QED
    BY <1>3, <2>1
<1>10. ASSUME NEW k \in MessageIds, BuryFetch(k)
       PROVE  FetchFailed'
  <2>1. Drops(fetchQueue', fetchQueue, k) /\ UNCHANGED collector
    BY <1>0, <1>10, DeletedMessage DEF BuryFetch
  <2> QED
    BY <1>3, <2>1
<1>11. ASSUME NEW j \in Jobs, Trigger(j)
       PROVE  FetchFailed'
  <2>1. /\ Free(fetchQueue) # {} /\ UNCHANGED collector
        /\ fetchQueue' \in {Sent(fetchQueue, j, TRUE), Sent(fetchQueue, j, FALSE)}
    BY <1>11 DEF Trigger
  <2> QED
    BY <1>0, <1>4, <2>1, SentMessage
<1>12. CASE Requeue
  <2>1. HandledPayload.job \in Jobs
    BY <1>12, HandledIsPayload DEF Requeue, Typed
  <2>2. /\ Free(fetchQueue) # {} /\ UNCHANGED collector
        /\ fetchQueue' \in {Sent(fetchQueue, HandledPayload.job, TRUE),
                            Sent(fetchQueue, HandledPayload.job, FALSE)}
    BY <1>12 DEF Requeue
  <2> QED
    BY <1>0, <1>4, <2>1, <2>2, SentMessage
<1> QED
  BY <1>1, <1>2, <1>5, <1>6, <1>7, <1>8, <1>9, <1>10, <1>11, <1>12

LEMMA ResultFailuresCounted ==
    ASSUME Typed, Typed', BudgetTyped, ResultsFailed, [Next]_vars
    PROVE  ResultsFailed'
<1>0. /\ IsQueue(resultQueue, Payload) /\ QueuesTyped
      /\ Failures \in Nat /\ Failures' \in Nat /\ Failures' >= Failures
      /\ SpendFault => Failures' = Failures + 1
      /\ \A i \in DOMAIN resultQueue : resultQueue[i].received \in Nat
  BY FailuresCount, QueuedAreCounted DEF Typed, QueuesTyped
<1>1. ASSUME NEW k \in MessageIds, Invoke(k) \/ Throttle(k)
      PROVE  ResultsFailed'
  <2>1. /\ k \in Receivable(resultQueue) /\ resultQueue' = Received(resultQueue, k)
        /\ k \in DOMAIN resultQueue
        /\ \/ lambda.pc = "idle" /\ lambda'.pc = "load" /\ lambda'.msg = k
           \/ UNCHANGED lambda /\ Failures' = Failures + 1
    BY <1>0, <1>1 DEF Invoke, Throttle, Receivable
  <2>2. /\ SameElsewhere(resultQueue', resultQueue, k)
        /\ resultQueue'[k].received = resultQueue[k].received + 1
    BY <1>0, <2>1, ReceivedMessage
  <2> QED
    BY <1>0, <2>1, <2>2 DEF ResultsFailed, SameElsewhere
<1>2. ASSUME NEW k \in MessageIds, ResultReappears(k)
      PROVE  ResultsFailed'
  <2>1. /\ SameElsewhere(resultQueue', resultQueue, k)
        /\ resultQueue'[k].received = resultQueue[k].received
        /\ UNCHANGED lambda
    BY <1>0, <1>2, ReappearedMessage DEF ResultReappears
  <2>2. \A i \in DOMAIN resultQueue' :
            i \in DOMAIN resultQueue /\ resultQueue'[i].received = resultQueue[i].received
    BY <2>1 DEF SameElsewhere
  <2> QED
    BY <1>0, <2>1, <2>2 DEF ResultsFailed
<1>3. ASSUME NEW k, Drops(resultQueue', resultQueue, k),
             UNCHANGED lambda \/ k = lambda.msg
      PROVE  ResultsFailed'
  BY <1>0, <1>3 DEF ResultsFailed, Drops
<1>4. CASE Publish
  <2>1. /\ collector.payload \in Payload /\ Free(resultQueue) # {} /\ UNCHANGED lambda
        /\ resultQueue' \in {Sent(resultQueue, collector.payload, TRUE),
                             Sent(resultQueue, collector.payload, FALSE)}
    BY <1>4, WorkersKnown DEF Publish, Typed
  <2>2. Adds(resultQueue', resultQueue, collector.payload)
    BY <1>0, <2>1, SentMessage
  <2> QED
    BY <1>0, <2>1, <2>2 DEF ResultsFailed, Adds
<1>5. CASE InvocationFails
  BY <1>0, <1>5 DEF InvocationFails, ResultsFailed
<1>6. CASE Load \/ TakeLock \/ Persist \/ Plan \/ Requeue \/ DatabaseWakes \/ BeginMaintenance
  <2>1. /\ UNCHANGED resultQueue
        /\ lambda.pc # "idle" => lambda'.msg = lambda.msg /\ lambda'.pc # "idle"
    BY <1>6, WorkersKnown DEF Load, TakeLock, Persist, Plan, Requeue, DatabaseWakes,
       BeginMaintenance, Typed
  <2> QED
    BY <1>0, <2>1 DEF ResultsFailed
<1>7. CASE UNCHANGED <<resultQueue, lambda>>
  BY <1>0, <1>7 DEF ResultsFailed
<1>8. \/ UNCHANGED <<resultQueue, lambda>>
      \/ InvocationFails \/ Publish \/ Load \/ TakeLock \/ Persist \/ Plan \/ Requeue
      \/ DatabaseWakes \/ BeginMaintenance \/ SkipLockHeld \/ Return
      \/ \E k \in MessageIds : Invoke(k) \/ Throttle(k) \/ ResultReappears(k) \/ BuryResult(k)
  BY DEF Next, CollectorStep, LambdaStep, QueueStep, Fault, Operation, vars,
         ReceiveJob, Collect, Upload, Acknowledge, CollectorFails, FetchReappears,
         BuryFetch, Trigger, BeginExit, EndMaintenance, BeginRebaseline, ReleaseLock, Tick
<1>9. CASE SkipLockHeld \/ Return
  <2>1. Drops(resultQueue', resultQueue, lambda.msg)
    BY <1>0, <1>9, DeletedMessage DEF SkipLockHeld, Return
  <2> QED
    BY <1>3, <2>1
<1>10. ASSUME NEW k \in MessageIds, BuryResult(k)
       PROVE  ResultsFailed'
  <2>1. Drops(resultQueue', resultQueue, k) /\ UNCHANGED lambda
    BY <1>0, <1>10, DeletedMessage DEF BuryResult
  <2> QED
    BY <1>3, <2>1
<1> QED
  BY <1>1, <1>2, <1>4, <1>5, <1>6, <1>7, <1>8, <1>9, <1>10

(* A message is given up only after as many failures as it has receives.   *)
LEMMA ExhaustedByFailures ==
    ASSUME Typed, BudgetTyped, FetchFailed, ResultsFailed
    PROVE  (Exhausted(fetchQueue) # {} \/ Exhausted(resultQueue) # {})
           => Failures >= MaxReceives
<1>0. Failures \in Nat /\ MaxReceives \in Nat
  BY BoundAssumption DEF Failures, BudgetTyped
<1>1. \A i \in DOMAIN fetchQueue :
          fetchQueue[i].visible => fetchQueue[i].received <= Failures
  BY <1>0, QueuedAreCounted DEF FetchFailed, Typed, Held
<1>2. \A i \in DOMAIN resultQueue :
          resultQueue[i].visible => resultQueue[i].received <= Failures
  BY <1>0, QueuedAreCounted DEF ResultsFailed, Typed, Held
<1> QED
  BY <1>0, <1>1, <1>2, QueuedAreCounted DEF Exhausted, Typed

-----------------------------------------------------------------------------
(* The inductive invariant, but for the accounting of jobs.                *)

WorkersSound ==
    /\ Typed
    /\ CollectorSound /\ PointersResolve
    /\ StoredWhenCommitted /\ EndsForAReason
    /\ LockHeldForAReason /\ BudgetTyped /\ FetchFailed /\ ResultsFailed

LEMMA WorkersInvariant == Spec => []WorkersSound
<1> DEFINE Sound == /\ CollectorSound /\ PointersResolve /\ StoredWhenCommitted
                    /\ EndsForAReason /\ LockHeldForAReason
                    /\ BudgetTyped /\ FetchFailed /\ ResultsFailed
<1>1. Init => Sound
  BY BoundAssumption
  DEF Init, CollectorSound, PointersResolve, StoredWhenCommitted, EndsForAReason,
      LockHeldForAReason, BudgetTyped, FetchFailed, ResultsFailed, NoMessages, Resting, Finished
<1>2. Sound /\ Typed /\ Typed' /\ [Next]_vars => Sound'
  BY CollectorStaysSound, PointersStayResolved, CommittedStaysStored, ReasonsRemain,
     LockStaysExplained, FailuresCount, FetchFailuresCounted, ResultFailuresCounted
<1>3. Spec => []Typed
  BY TypedInvariant
<1> QED
  BY <1>1, <1>2, <1>3, PTL DEF Spec, WorkersSound

(* Every pointer in the result queue leads to its bundle: the upload comes *)
(* before the publication, whatever fails in between (process_message).    *)
THEOREM PointersAlwaysResolve == Spec => []PointersResolve
BY WorkersInvariant, PTL DEF WorkersSound

(* A result leaves its queue with its data stored, or refused: because the *)
(* lock was taken, or with its receives used up.                           *)
THEOREM ResultsLeaveStored == Spec => AcknowledgedMeansStored
<1> DEFINE Left == \A i \in DOMAIN resultQueue \ DOMAIN resultQueue' :
                      LET payload == resultQueue[i].body
                      IN  \/ stored[SourceOf(payload.job)] >= payload.fetchedAt
                          \/ lock # "free"
                          \/ resultQueue[i].visible /\ resultQueue[i].received = MaxReceives
<1>1. ASSUME WorkersSound, [Next]_vars, NEW i \in DOMAIN resultQueue \ DOMAIN resultQueue'
      PROVE  \/ stored[SourceOf(resultQueue[i].body.job)] >= resultQueue[i].body.fetchedAt
             \/ lock # "free"
             \/ resultQueue[i].visible /\ resultQueue[i].received = MaxReceives
  <2>1. ResultEffect
    BY <1>1, ResultQueueSteps DEF WorkersSound
  <2>2. CASE SkipLockHeld
    BY <2>2 DEF SkipLockHeld
  <2>3. CASE Return /\ Drops(resultQueue', resultQueue, lambda.msg)
    <3>1. lambda.pc = "return" /\ i = lambda.msg
      BY <1>1, <2>3 DEF Return, Drops
    <3>2. HandledPayload = resultQueue[i].body
      BY <3>1 DEF HandledPayload
    <3> QED
      BY <1>1, <3>1, <3>2 DEF WorkersSound, StoredWhenCommitted
  <2>4. ASSUME NEW k \in MessageIds, BuryResult(k), Drops(resultQueue', resultQueue, k)
        PROVE  resultQueue[i].visible /\ resultQueue[i].received = MaxReceives
    <3>1. i = k /\ resultQueue[i].visible /\ resultQueue[i].received >= MaxReceives
      BY <1>1, <2>4 DEF BuryResult, Exhausted, Drops
    <3>2. resultQueue[i] \in Message(Payload)
      BY <1>1 DEF WorkersSound, Typed, QueuesTyped, IsQueue
    <3>3. resultQueue[i].received \in 0..MaxReceives /\ MaxReceives \in Nat
      BY <3>2, BoundAssumption DEF Message
    <3> QED
      BY <3>1, <3>3
  <2>5. ~SameBodies(resultQueue', resultQueue)
    BY <1>1 DEF SameBodies
  <2>6. ~Adds(resultQueue', resultQueue, collector.payload)
    BY <1>1 DEF Adds
  <2> QED
    BY <2>1, <2>2, <2>3, <2>4, <2>5, <2>6 DEF ResultEffect
<1>2. WorkersSound /\ [Next]_vars => [Left]_vars
  BY <1>1
<1> QED
  BY <1>2, WorkersInvariant, PTL DEF Spec, AcknowledgedMeansStored

(* A window is polled until it is over: before that, its messages leave    *)
(* the queues only handed on, for maintenance, for the lock of a killed    *)
(* invocation, or after as many failures as a message has receives.        *)
THEOREM WindowsPolledToTheEnd == Spec => PollsUntilTheEnd
<1> DEFINE HandedOn ==
               /\ \A i \in DOMAIN fetchQueue \ DOMAIN fetchQueue' :
                      \/ collector.pc = "acknowledge" /\ collector.msg = i
                      \/ Failures >= MaxReceives
               /\ \A i \in DOMAIN resultQueue \ DOMAIN resultQueue' :
                      resultQueue[i].body.job \in Windows =>
                          \/ clock >= WindowEnd[resultQueue[i].body.job]
                          \/ Failures >= MaxReceives
                          \/ /\ lambda.pc # "idle" /\ lambda.msg = i
                             /\ lambda.requeued \/ lambda.maintained \/ lock = "orphan"
<1>1. ASSUME WorkersSound, [Next]_vars, NEW i \in DOMAIN fetchQueue \ DOMAIN fetchQueue'
      PROVE  \/ collector.pc = "acknowledge" /\ collector.msg = i
             \/ Failures >= MaxReceives
  <2>1. FetchEffect
    BY <1>1, FetchQueueSteps DEF WorkersSound
  <2>2. CASE Acknowledge /\ Drops(fetchQueue', fetchQueue, collector.msg)
    BY <1>1, <2>2 DEF Acknowledge, Drops
  <2>3. ASSUME NEW k \in MessageIds, BuryFetch(k), Drops(fetchQueue', fetchQueue, k)
        PROVE  Failures >= MaxReceives
    <3>1. i = k /\ i \in Exhausted(fetchQueue)
      BY <1>1, <2>3 DEF BuryFetch, Drops
    <3> QED
      BY <1>1, <3>1, ExhaustedByFailures DEF WorkersSound
  <2>4. ~SameBodies(fetchQueue', fetchQueue) /\ \A j \in Jobs : ~Adds(fetchQueue', fetchQueue, j)
    BY <1>1 DEF SameBodies, Adds
  <2> QED
    BY <2>1, <2>2, <2>3, <2>4 DEF FetchEffect
<1>2. ASSUME WorkersSound, [Next]_vars, NEW i \in DOMAIN resultQueue \ DOMAIN resultQueue',
             resultQueue[i].body.job \in Windows
      PROVE  \/ clock >= WindowEnd[resultQueue[i].body.job]
             \/ Failures >= MaxReceives
             \/ /\ lambda.pc # "idle" /\ lambda.msg = i
                /\ lambda.requeued \/ lambda.maintained \/ lock = "orphan"
  <2>1. ResultEffect
    BY <1>2, ResultQueueSteps DEF WorkersSound
  <2>2. CASE SkipLockHeld /\ Drops(resultQueue', resultQueue, lambda.msg)
    <3>1. i = lambda.msg /\ lambda.pc = "lock" /\ lock # "free"
      BY <1>2, <2>2 DEF SkipLockHeld, Drops
    <3>2. lock = "orphan" \/ lambda.maintained
      BY <1>2, <3>1 DEF WorkersSound, LockHeldForAReason, EndsForAReason, MaintenanceOpen,
         Typed, WorldTyped
    <3> QED
      BY <3>1, <3>2
  <2>3. CASE Return /\ Drops(resultQueue', resultQueue, lambda.msg)
    <3>1. i = lambda.msg /\ lambda.pc = "return" /\ HandledPayload = resultQueue[i].body
      BY <1>2, <2>3 DEF Return, Drops, HandledPayload
    <3> QED
      BY <1>2, <3>1 DEF WorkersSound, EndsForAReason
  <2>4. ASSUME NEW k \in MessageIds, BuryResult(k), Drops(resultQueue', resultQueue, k)
        PROVE  Failures >= MaxReceives
    <3>1. i = k /\ i \in Exhausted(resultQueue)
      BY <1>2, <2>4 DEF BuryResult, Drops
    <3> QED
      BY <1>2, <3>1, ExhaustedByFailures DEF WorkersSound
  <2>5. ~SameBodies(resultQueue', resultQueue)
    BY <1>2 DEF SameBodies
  <2>6. ~Adds(resultQueue', resultQueue, collector.payload)
    BY <1>2 DEF Adds
  <2> QED
    BY <2>1, <2>2, <2>3, <2>4, <2>5, <2>6 DEF ResultEffect
<1>3. WorkersSound /\ [Next]_vars => [HandedOn]_vars
  BY <1>1, <1>2
<1> QED
  BY <1>3, WorkersInvariant, PTL DEF Spec, PollsUntilTheEnd

-----------------------------------------------------------------------------
(* No job is forgotten.  Each step of the pipeline leaves a job as it is,  *)
(* or moves one job and leaves all others.                                 *)

Untouched(j) ==
    /\ settled'[j] = settled[j]
    /\ Outstanding(j)' <=> Outstanding(j)
    /\ FetchCarries(j) \/ ResultCarries(j) => FetchCarries(j)' \/ ResultCarries(j)'

(* The job had a message or gets one; it never becomes a job nobody sent,  *)
(* and while it is unsettled it stays carried.                             *)
Moved(j) ==
    /\ Outstanding(j) \/ Outstanding(j)'
    /\ settled'[j] # "never"
    /\ settled'[j] = "no" => FetchCarries(j)' \/ ResultCarries(j)'

MovesOne ==
    \/ \A k \in Jobs : Untouched(k)
    \/ \E j \in Jobs : Moved(j) /\ \A k \in Jobs \ {j} : Untouched(k)

(* The collector exchanges its message for the result.                     *)
LEMMA CollectorMovesOne ==
    ASSUME WorkersSound, WorkersSound', Accounted, CollectorStep \/ CollectorFails
    PROVE  MovesOne
<1>0. FetchEffect /\ ResultEffect /\ Typed /\ Typed'
  BY FetchQueueSteps, ResultQueueSteps DEF WorkersSound, Next, Fault
<1>1. CASE Publish
  <2>1. /\ collector \in [pc : {"upload", "publish", "acknowledge"}, msg : MessageIds,
                          payload : Payload]
        /\ collector.pc = "publish" /\ lambda' = lambda /\ fetchQueue' = fetchQueue
        /\ settled' = settled
        /\ collector.msg \in DOMAIN fetchQueue
        /\ collector.msg = collector'.msg
        /\ fetchQueue[collector.msg].body = collector.payload.job
    BY <1>0, <1>1, WorkersKnown DEF Publish, Typed, Held, WorkersSound, CollectorSound
  <2>2. PICK j \in Jobs : j = collector.payload.job
    BY <2>1 DEF Payload
  <2>3. Adds(resultQueue', resultQueue, collector.payload)
    <3>1. /\ IsQueue(resultQueue, Payload) /\ Free(resultQueue) # {}
          /\ collector.payload \in Payload
          /\ resultQueue' \in {Sent(resultQueue, collector.payload, TRUE),
                               Sent(resultQueue, collector.payload, FALSE)}
      BY <1>0, <1>1, <2>1 DEF Publish, Typed, QueuesTyped
    <3> QED
      BY <3>1, SentMessage
  <2>4. PICK id \in Free(resultQueue) :
          /\ DOMAIN resultQueue' = DOMAIN resultQueue \cup {id}
          /\ resultQueue'[id].body = collector.payload
          /\ \A i \in DOMAIN resultQueue : resultQueue'[i] = resultQueue[i]
    BY <2>3 DEF Adds
  <2>5. lambda.pc # "idle" => lambda.msg # id
    BY <1>0, <2>4 DEF Typed, Held, Free
  <2>6. Outstanding(j) /\ Outstanding(j)' /\ ResultCarries(j)'
    BY <2>1, <2>2, <2>4, <2>5 DEF Outstanding, ResultCarries
  <2>7. settled'[j] # "never"
    BY <2>1, <2>2, <2>6 DEF Accounted
  <2>8. ASSUME NEW k \in Jobs \ {j}
        PROVE  Untouched(k)
    <3>1. Outstanding(k)' <=> Outstanding(k)
      BY <2>1, <2>2, <2>4, <2>8 DEF Outstanding, Free
    <3>2. FetchCarries(k) => FetchCarries(k)'
      BY <2>1, <2>2, <2>8 DEF FetchCarries
    <3>3. ResultCarries(k) => ResultCarries(k)'
      BY <2>1, <2>4 DEF ResultCarries
    <3> QED
      BY <2>1, <3>1, <3>2, <3>3 DEF Untouched
  <2> QED
    BY <2>2, <2>6, <2>7, <2>8 DEF MovesOne, Moved
<1>2. CASE Acknowledge
  <2>1. /\ collector.pc = "acknowledge" /\ lambda' = lambda /\ resultQueue' = resultQueue
        /\ settled' = settled /\ collector' = Resting
        /\ collector.msg \in DOMAIN fetchQueue
    BY <1>0, <1>2 DEF Acknowledge, Typed, Held
  <2>2. PICK j \in Jobs : j = fetchQueue[collector.msg].body
    BY <1>0, <2>1 DEF Typed, QueuesTyped, IsQueue, Message
  <2>3. Drops(fetchQueue', fetchQueue, collector.msg)
    <3>1. IsQueue(fetchQueue, Jobs) /\ fetchQueue' = Deleted(fetchQueue, collector.msg)
      BY <1>0, <1>2 DEF Acknowledge, Typed, QueuesTyped
    <3> QED
      BY <3>1, DeletedMessage
  <2>4. ASSUME NEW k \in Jobs, FetchCarries(k) \/ ResultCarries(k)
        PROVE  FetchCarries(k)' \/ ResultCarries(k)'
    BY <2>1, <2>3, <2>4 DEF FetchCarries, ResultCarries, Resting, Drops
  <2>5. ASSUME NEW k \in Jobs \ {j}
        PROVE  Untouched(k)
    <3>1. Outstanding(k)' <=> Outstanding(k)
      BY <2>1, <2>2, <2>3, <2>5 DEF Outstanding, Drops
    <3> QED
      BY <2>1, <2>4, <3>1 DEF Untouched
  <2>6. Outstanding(j) /\ settled'[j] # "never"
    BY <2>1, <2>2 DEF Outstanding, Accounted
  <2>7. settled'[j] = "no" => FetchCarries(j)' \/ ResultCarries(j)'
    BY <2>1, <2>2, <2>4 DEF Accounted
  <2> QED
    BY <2>2, <2>5, <2>6, <2>7 DEF MovesOne, Moved
<1>3. CASE \/ \E i \in MessageIds : ReceiveJob(i)
           \/ Collect \/ Upload \/ CollectorFails
  <2>1. SameBodies(fetchQueue', fetchQueue) /\ resultQueue' = resultQueue
    <3>1. CASE \E i \in MessageIds : ReceiveJob(i)
      <4>1. PICK i \in MessageIds : ReceiveJob(i)
        BY <3>1
      <4>2. IsQueue(fetchQueue, Jobs) /\ i \in Receivable(fetchQueue)
            /\ fetchQueue' = Received(fetchQueue, i) /\ resultQueue' = resultQueue
        BY <1>0, <4>1 DEF ReceiveJob, Typed, QueuesTyped
      <4>3. SameElsewhere(fetchQueue', fetchQueue, i)
        BY <4>2, ReceivedMessage
      <4> QED
        BY <4>2, <4>3 DEF SameElsewhere, SameBodies
    <3>2. CASE Collect \/ Upload \/ CollectorFails
      BY <3>2 DEF Collect, Upload, CollectorFails, SameBodies
    <3> QED
      BY <1>3, <3>1, <3>2
  <2>2. settled' = settled /\ lambda' = lambda /\ collector'.pc # "acknowledge"
    <3>1. CASE Upload
      BY <1>0, <3>1, WorkersKnown DEF Upload, Typed
    <3>2. CASE (\E i \in MessageIds : ReceiveJob(i)) \/ Collect \/ CollectorFails
      BY <3>2 DEF ReceiveJob, Collect, CollectorFails, Resting
    <3> QED
      BY <1>3, <3>1, <3>2
  <2>3. ASSUME NEW k \in Jobs
        PROVE  Untouched(k)
    BY <2>1, <2>2 DEF Untouched, Outstanding, FetchCarries, ResultCarries, SameBodies
  <2> QED
    BY <2>3 DEF MovesOne
<1> QED
  BY <1>1, <1>2, <1>3 DEF CollectorStep

(* A job leaves the hands of the Lambda ended, or with its next poll       *)
(* queued.                                                                 *)
LEMMA LambdaMovesOne ==
    ASSUME WorkersSound, WorkersSound', Accounted,
           LambdaStep \/ InvocationFails \/ DatabaseWakes
    PROVE  MovesOne
<1>0. /\ Typed /\ Typed' /\ IsQueue(fetchQueue, Jobs) /\ IsQueue(resultQueue, Payload)
      /\ settled \in [Jobs -> {"never", "no", "finished", "dropped", "dead"}]
  BY DEF WorkersSound, Typed, QueuesTyped, WorldTyped
<1>1. CASE Requeue
  <2>1. /\ lambda \in [pc : {"load", "lock", "persist", "plan", "requeue", "return"},
                       msg : MessageIds, now : 0..MaxClock, attempt : {1, 2},
                       requeued : BOOLEAN, maintained : BOOLEAN]
        /\ lambda.pc = "requeue" /\ lambda' = [lambda EXCEPT !.pc = "return", !.requeued = TRUE]
        /\ collector' = collector /\ resultQueue' = resultQueue
        /\ lambda.msg \in DOMAIN resultQueue
    BY <1>0, <1>1, WorkersKnown DEF Requeue, Typed, Held
  <2>2. PICK j \in Jobs : j = HandledPayload.job
    BY <1>0, <2>1, HandledIsPayload DEF Typed
  <2>3. Adds(fetchQueue', fetchQueue, j)
    <3>1. /\ Free(fetchQueue) # {}
          /\ fetchQueue' \in {Sent(fetchQueue, j, TRUE), Sent(fetchQueue, j, FALSE)}
      BY <1>1, <2>2 DEF Requeue
    <3> QED
      BY <1>0, <3>1, SentMessage
  <2>4. PICK id \in Free(fetchQueue) :
          /\ DOMAIN fetchQueue' = DOMAIN fetchQueue \cup {id}
          /\ fetchQueue'[id].body = j
          /\ \A i \in DOMAIN fetchQueue : fetchQueue'[i] = fetchQueue[i]
    BY <2>3 DEF Adds
  <2>5. collector.pc # "idle" => collector.msg # id
    BY <1>0, <2>4 DEF Typed, Held, Free
  <2>6. Outstanding(j)' /\ FetchCarries(j)'
    BY <2>1, <2>4, <2>5 DEF Outstanding, FetchCarries
  <2>7. settled' = [settled EXCEPT ![j] = "no"]
    BY <1>1, <2>2 DEF Requeue, SettleAs
  <2>8. ASSUME NEW k \in Jobs \ {j}
        PROVE  Untouched(k)
    <3>1. Outstanding(k)' <=> Outstanding(k)
      BY <2>1, <2>4, <2>8 DEF Outstanding, Free
    <3>2. FetchCarries(k) => FetchCarries(k)'
      BY <2>1, <2>4 DEF FetchCarries
    <3>3. ResultCarries(k) => ResultCarries(k)'
      BY <2>1, <2>2, <2>8 DEF ResultCarries, HandledPayload
    <3>4. settled'[k] = settled[k]
      BY <1>0, <2>7, <2>8
    <3> QED
      BY <3>1, <3>2, <3>3, <3>4 DEF Untouched
  <2> QED
    BY <1>0, <2>2, <2>6, <2>7, <2>8 DEF MovesOne, Moved
<1>2. CASE SkipLockHeld \/ Return
  <2>1. /\ lambda.pc \in {"lock", "return"} /\ lambda' = Finished
        /\ lambda.pc = "return" <=> Return
        /\ collector' = collector /\ fetchQueue' = fetchQueue
        /\ lambda.msg \in DOMAIN resultQueue
    BY <1>0, <1>2 DEF SkipLockHeld, Return, Typed, Held
  <2>2. PICK j \in Jobs : j = HandledPayload.job
    BY <1>0, <2>1, HandledIsPayload DEF Typed
  <2>3. Drops(resultQueue', resultQueue, lambda.msg)
    <3>1. resultQueue' = Deleted(resultQueue, lambda.msg)
      BY <1>2 DEF SkipLockHeld, Return
    <3> QED
      BY <1>0, <3>1, DeletedMessage
  <2>4. \/ lambda.pc = "return" /\ lambda.requeued /\ settled' = settled
        \/ \E how \in {"dropped", "finished"} : settled' = [settled EXCEPT ![j] = how]
    BY <1>2, <2>2 DEF SkipLockHeld, Return, SettleAs
  <2>5. Outstanding(j)
    BY <2>1, <2>2 DEF Outstanding, HandledPayload
  <2>6. ASSUME NEW k \in Jobs \ {j}
        PROVE  Untouched(k)
    <3>1. Outstanding(k)' <=> Outstanding(k)
      BY <2>1, <2>2, <2>3, <2>6 DEF Outstanding, Drops, HandledPayload
    <3>2. FetchCarries(k) => FetchCarries(k)'
      BY <2>1 DEF FetchCarries
    <3>3. ResultCarries(k) => ResultCarries(k)'
      BY <2>1, <2>2, <2>3, <2>6 DEF ResultCarries, Drops, HandledPayload, Finished
    <3>4. settled'[k] = settled[k]
      BY <1>0, <2>4, <2>6
    <3> QED
      BY <3>1, <3>2, <3>3, <3>4 DEF Untouched
  <2>7. Moved(j)
    <3>1. CASE lambda.pc = "return" /\ lambda.requeued /\ settled' = settled
      <4>1. settled[j] = "no" => FetchCarries(j) \/ ResultCarries(j)
        BY DEF Accounted
      <4>2. FetchCarries(j) => FetchCarries(j)'
        BY <2>1 DEF FetchCarries
      <4>3. ResultCarries(j) => ResultCarries(j)'
        BY <2>1, <2>3, <3>1 DEF ResultCarries, Drops, Finished
      <4>4. settled[j] # "never"
        BY <2>5 DEF Accounted
      <4> QED
        BY <2>5, <3>1, <4>1, <4>2, <4>3, <4>4 DEF Moved
    <3>2. CASE \E how \in {"dropped", "finished"} : settled' = [settled EXCEPT ![j] = how]
      BY <1>0, <2>5, <3>2 DEF Moved
    <3> QED
      BY <2>4, <3>1, <3>2
  <2> QED
    BY <2>6, <2>7 DEF MovesOne
<1>3. CASE \/ \E i \in MessageIds : Invoke(i)
           \/ Load \/ TakeLock \/ Persist \/ Plan \/ InvocationFails \/ DatabaseWakes
  <2>1. SameBodies(resultQueue', resultQueue) /\ fetchQueue' = fetchQueue
    <3>1. CASE \E i \in MessageIds : Invoke(i)
      <4>1. PICK i \in MessageIds : Invoke(i)
        BY <3>1
      <4>2. i \in Receivable(resultQueue)
            /\ resultQueue' = Received(resultQueue, i) /\ fetchQueue' = fetchQueue
        BY <4>1 DEF Invoke
      <4>3. SameElsewhere(resultQueue', resultQueue, i)
        BY <1>0, <4>2, ReceivedMessage
      <4> QED
        BY <4>2, <4>3 DEF SameElsewhere, SameBodies
    <3>2. CASE Load \/ TakeLock \/ Persist \/ Plan \/ InvocationFails \/ DatabaseWakes
      BY <3>2 DEF Load, TakeLock, Persist, Plan, InvocationFails, DatabaseWakes, SameBodies
    <3> QED
      BY <1>3, <3>1, <3>2
  <2>2. settled' = settled /\ collector' = collector
    BY <1>3 DEF Invoke, Load, TakeLock, Persist, Plan, InvocationFails, DatabaseWakes
  <2>3. ~(lambda'.pc = "return" /\ lambda'.requeued)
    <3>1. CASE (\E i \in MessageIds : Invoke(i)) \/ InvocationFails
      BY <3>1 DEF Invoke, InvocationFails, Finished
    <3>2. CASE Load \/ TakeLock \/ Persist \/ Plan \/ DatabaseWakes
      <4>1. /\ lambda \in [pc : {"load", "lock", "persist", "plan", "requeue", "return"},
                           msg : MessageIds, now : 0..MaxClock, attempt : {1, 2},
                           requeued : BOOLEAN, maintained : BOOLEAN]
            /\ ~lambda.requeued
        BY <1>0, <3>2, WorkersKnown
        DEF Load, TakeLock, Persist, Plan, DatabaseWakes, Typed, WorkersSound, EndsForAReason
      <4> QED
        BY <3>2, <4>1 DEF Load, TakeLock, Persist, Plan, DatabaseWakes
    <3> QED
      BY <1>3, <3>1, <3>2
  <2>4. ASSUME NEW k \in Jobs
        PROVE  Untouched(k)
    BY <2>1, <2>2, <2>3 DEF Untouched, Outstanding, FetchCarries, ResultCarries, SameBodies
  <2> QED
    BY <2>4 DEF MovesOne
<1> QED
  BY <1>1, <1>2, <1>3 DEF LambdaStep

(* The queues bury what they give up, and schedules send; the rest leaves  *)
(* every job alone.                                                        *)
LEMMA EnvironmentMovesOne ==
    ASSUME WorkersSound, WorkersSound', Accounted,
           \/ QueueStep \/ Operation \/ Tick \/ UNCHANGED vars
           \/ \E i \in MessageIds : Throttle(i)
    PROVE  MovesOne
<1>0. /\ Typed /\ Typed' /\ IsQueue(fetchQueue, Jobs) /\ IsQueue(resultQueue, Payload)
      /\ settled \in [Jobs -> {"never", "no", "finished", "dropped", "dead"}]
  BY DEF WorkersSound, Typed, QueuesTyped, WorldTyped
<1>1. ASSUME NEW i \in MessageIds, BuryFetch(i)
      PROVE  MovesOne
  <2>1. /\ i \in DOMAIN fetchQueue /\ fetchQueue' = Deleted(fetchQueue, i)
        /\ UNCHANGED <<resultQueue, collector, lambda>>
    BY <1>1 DEF BuryFetch, Exhausted
  <2>2. PICK j \in Jobs : j = fetchQueue[i].body
    BY <1>0, <2>1 DEF IsQueue, Message
  <2>3. Drops(fetchQueue', fetchQueue, i)
    BY <1>0, <2>1, DeletedMessage
  <2>4. settled' = [settled EXCEPT ![j] = "dead"] /\ Outstanding(j)
    BY <1>1, <2>1, <2>2 DEF BuryFetch, SettleAs, Outstanding
  <2>5. ASSUME NEW k \in Jobs \ {j}
        PROVE  Untouched(k)
    <3>1. Outstanding(k)' <=> Outstanding(k)
      BY <2>1, <2>2, <2>3, <2>5 DEF Outstanding, Drops
    <3>2. FetchCarries(k) => FetchCarries(k)'
      BY <2>1, <2>2, <2>3, <2>5 DEF FetchCarries, Drops
    <3>3. ResultCarries(k) => ResultCarries(k)'
      BY <2>1 DEF ResultCarries
    <3> QED
      BY <1>0, <2>4, <2>5, <3>1, <3>2, <3>3 DEF Untouched
  <2> QED
    BY <1>0, <2>4, <2>5 DEF MovesOne, Moved
<1>2. ASSUME NEW i \in MessageIds, BuryResult(i)
      PROVE  MovesOne
  <2>1. /\ i \in DOMAIN resultQueue /\ resultQueue' = Deleted(resultQueue, i)
        /\ UNCHANGED <<fetchQueue, collector, lambda>>
    BY <1>2 DEF BuryResult, Exhausted
  <2>2. PICK j \in Jobs : j = resultQueue[i].body.job
    BY <1>0, <2>1 DEF IsQueue, Message, Payload
  <2>3. Drops(resultQueue', resultQueue, i)
    BY <1>0, <2>1, DeletedMessage
  <2>4. settled' = [settled EXCEPT ![j] = "dead"] /\ Outstanding(j)
    BY <1>2, <2>1, <2>2 DEF BuryResult, SettleAs, Outstanding
  <2>5. ASSUME NEW k \in Jobs \ {j}
        PROVE  Untouched(k)
    <3>1. Outstanding(k)' <=> Outstanding(k)
      BY <2>1, <2>2, <2>3, <2>5 DEF Outstanding, Drops
    <3>2. ResultCarries(k) => ResultCarries(k)'
      BY <2>1, <2>2, <2>3, <2>5 DEF ResultCarries, Drops
    <3>3. FetchCarries(k) => FetchCarries(k)'
      BY <2>1 DEF FetchCarries
    <3> QED
      BY <1>0, <2>4, <2>5, <3>1, <3>2, <3>3 DEF Untouched
  <2> QED
    BY <1>0, <2>4, <2>5 DEF MovesOne, Moved
<1>3. ASSUME NEW j \in Jobs, Trigger(j)
      PROVE  MovesOne
  <2>1. /\ Free(fetchQueue) # {} /\ UNCHANGED <<resultQueue, collector, lambda>>
        /\ fetchQueue' \in {Sent(fetchQueue, j, TRUE), Sent(fetchQueue, j, FALSE)}
        /\ settled' = [settled EXCEPT ![j] = "no"]
    BY <1>3 DEF Trigger, SettleAs
  <2>2. Adds(fetchQueue', fetchQueue, j)
    BY <1>0, <2>1, SentMessage
  <2>3. PICK id \in Free(fetchQueue) :
          /\ DOMAIN fetchQueue' = DOMAIN fetchQueue \cup {id}
          /\ fetchQueue'[id].body = j
          /\ \A i \in DOMAIN fetchQueue : fetchQueue'[i] = fetchQueue[i]
    BY <2>2 DEF Adds
  <2>4. collector.pc # "idle" => collector.msg # id
    BY <1>0, <2>3 DEF Typed, Held, Free
  <2>5. Outstanding(j)' /\ FetchCarries(j)'
    BY <2>1, <2>3, <2>4 DEF Outstanding, FetchCarries
  <2>6. ASSUME NEW k \in Jobs \ {j}
        PROVE  Untouched(k)
    <3>1. Outstanding(k)' <=> Outstanding(k)
      BY <2>1, <2>3, <2>6 DEF Outstanding, Free
    <3>2. FetchCarries(k) => FetchCarries(k)'
      BY <2>1, <2>3 DEF FetchCarries
    <3>3. ResultCarries(k) => ResultCarries(k)'
      BY <2>1 DEF ResultCarries
    <3> QED
      BY <1>0, <2>1, <2>6, <3>1, <3>2, <3>3 DEF Untouched
  <2> QED
    BY <1>0, <2>1, <2>5, <2>6 DEF MovesOne, Moved
<1>4. CASE /\ SameBodies(fetchQueue', fetchQueue) /\ SameBodies(resultQueue', resultQueue)
           /\ settled' = settled /\ collector' = collector
           /\ lambda'.pc = lambda.pc
           /\ lambda.pc # "idle" => lambda'.msg = lambda.msg /\ lambda'.requeued = lambda.requeued
  <2>1. ASSUME NEW k \in Jobs
        PROVE  Untouched(k)
    BY <1>4 DEF Untouched, Outstanding, FetchCarries, ResultCarries, SameBodies
  <2> QED
    BY <2>1 DEF MovesOne
<1>5. ASSUME NEW i \in MessageIds, FetchReappears(i)
      PROVE  MovesOne
  <2>1. SameElsewhere(fetchQueue', fetchQueue, i)
    BY <1>0, <1>5, ReappearedMessage DEF FetchReappears
  <2> QED
    BY <1>4, <1>5, <2>1 DEF FetchReappears, SameElsewhere, SameBodies
<1>6. ASSUME NEW i \in MessageIds, ResultReappears(i)
      PROVE  MovesOne
  <2>1. SameElsewhere(resultQueue', resultQueue, i)
    BY <1>0, <1>6, ReappearedMessage DEF ResultReappears
  <2> QED
    BY <1>4, <1>6, <2>1 DEF ResultReappears, SameElsewhere, SameBodies
<1>7. ASSUME NEW i \in MessageIds, Throttle(i)
      PROVE  MovesOne
  <2>1. i \in Receivable(resultQueue) /\ resultQueue' = Received(resultQueue, i)
    BY <1>7 DEF Throttle
  <2>2. SameElsewhere(resultQueue', resultQueue, i)
    BY <1>0, <2>1, ReceivedMessage
  <2> QED
    BY <1>4, <1>7, <2>2 DEF Throttle, SameElsewhere, SameBodies
<1>8. CASE BeginMaintenance
  <2>1. lambda'.pc = lambda.pc
        /\ (lambda.pc # "idle" => lambda'.msg = lambda.msg /\ lambda'.requeued = lambda.requeued)
    <3>1. CASE lambda.pc = "idle"
      BY <1>8, <3>1 DEF BeginMaintenance
    <3>2. CASE lambda.pc # "idle"
      BY <1>0, <1>8, <3>2, WorkersKnown DEF BeginMaintenance, Typed
    <3> QED
      BY <3>1, <3>2
  <2>2. SameBodies(fetchQueue', fetchQueue) /\ SameBodies(resultQueue', resultQueue)
    BY <1>8 DEF BeginMaintenance, SameBodies
  <2>3. settled' = settled /\ collector' = collector
    BY <1>8 DEF BeginMaintenance
  <2> QED
    BY <1>4, <2>1, <2>2, <2>3
<1>9. CASE BeginExit \/ EndMaintenance \/ BeginRebaseline \/ ReleaseLock \/ Tick \/ UNCHANGED vars
  <2>1. UNCHANGED <<fetchQueue, resultQueue, settled, collector, lambda>>
    BY <1>9 DEF BeginExit, EndMaintenance, BeginRebaseline, ReleaseLock, Tick, vars
  <2>2. SameBodies(fetchQueue', fetchQueue) /\ SameBodies(resultQueue', resultQueue)
    BY <2>1 DEF SameBodies
  <2> QED
    BY <1>4, <2>1, <2>2
<1> QED
  BY <1>1, <1>2, <1>3, <1>5, <1>6, <1>7, <1>8, <1>9 DEF QueueStep, Operation

LEMMA EveryStepMovesOne ==
    ASSUME WorkersSound, WorkersSound', Accounted, [Next]_vars
    PROVE  MovesOne
BY CollectorMovesOne, LambdaMovesOne, EnvironmentMovesOne DEF Next, Fault

LEMMA JobsStayAccounted ==
    ASSUME Accounted, MovesOne
    PROVE  Accounted'
<1>1. ASSUME NEW k \in Jobs, Untouched(k)
      PROVE  /\ settled'[k] = "no" => FetchCarries(k)' \/ ResultCarries(k)'
             /\ settled'[k] = "never" => ~Outstanding(k)'
  BY <1>1 DEF Untouched, Accounted
<1>2. ASSUME NEW j \in Jobs, Moved(j)
      PROVE  /\ settled'[j] = "no" => FetchCarries(j)' \/ ResultCarries(j)'
             /\ settled'[j] = "never" => ~Outstanding(j)'
  BY <1>2 DEF Moved
<1>3. \A k \in Jobs : Untouched(k) \/ Moved(k)
  BY DEF MovesOne
<1>4. ASSUME NEW k \in Jobs
      PROVE  /\ settled'[k] = "no" => FetchCarries(k)' \/ ResultCarries(k)'
             /\ settled'[k] = "never" => ~Outstanding(k)'
  BY <1>1, <1>2, <1>3
<1> QED
  BY <1>4 DEF Accounted

LEMMA AccountedInvariant == Spec => [](WorkersSound /\ Accounted)
<1>1. Init => Accounted
  BY DEF Init, Accounted, Outstanding, NoMessages
<1>2. WorkersSound /\ WorkersSound' /\ Accounted /\ [Next]_vars => Accounted'
  BY EveryStepMovesOne, JobsStayAccounted
<1> QED
  BY <1>1, <1>2, WorkersInvariant, PTL DEF Spec

-----------------------------------------------------------------------------
(* The refinement.                                                         *)

LEMMA PhasesFollow ==
    ASSUME WorkersSound, WorkersSound', Accounted, Accounted', MovesOne
    PROVE  Delivery!Next \/ UNCHANGED JobPhase
<1>0. /\ settled \in [Jobs -> {"never", "no", "finished", "dropped", "dead"}]
      /\ settled' \in [Jobs -> {"never", "no", "finished", "dropped", "dead"}]
  BY DEF WorkersSound, Typed, WorldTyped
<1>1. /\ JobPhase = [j \in Jobs |->
                        IF Outstanding(j) THEN "owed"
                        ELSE IF settled[j] \in {"never", "no"} THEN "idle" ELSE settled[j]]
      /\ JobPhase' = [j \in Jobs |->
                         IF Outstanding(j)' THEN "owed"
                         ELSE IF settled'[j] \in {"never", "no"} THEN "idle" ELSE settled'[j]]
  BY DEF JobPhase
<1>2. ASSUME NEW k \in Jobs, Untouched(k)
      PROVE  JobPhase'[k] = JobPhase[k]
  BY <1>1, <1>2 DEF Untouched
<1>3. CASE \A k \in Jobs : Untouched(k)
  BY <1>1, <1>2, <1>3
<1>4. ASSUME NEW j \in Jobs, Moved(j), \A k \in Jobs \ {j} : Untouched(k)
      PROVE  Delivery!Next \/ UNCHANGED JobPhase
  <2>1. JobPhase' = [JobPhase EXCEPT ![j] = JobPhase'[j]]
    BY <1>1, <1>2, <1>4
  <2>2. CASE Outstanding(j)'
    <3>1. JobPhase'[j] = "owed"
      BY <1>1, <2>2
    <3>2. JobPhase[j] # "owed" => Delivery!Accept(j)
      BY <2>1, <3>1 DEF Delivery!Accept
    <3>3. JobPhase[j] = "owed" => UNCHANGED JobPhase
      BY <1>1, <2>1, <3>1
    <3> QED
      BY <3>2, <3>3 DEF Delivery!Next
  <2>3. CASE ~Outstanding(j)'
    <3>1. JobPhase[j] = "owed"
      BY <1>1, <1>4, <2>3 DEF Moved
    <3>2. ~FetchCarries(j)' /\ ~ResultCarries(j)'
      BY <2>3 DEF Outstanding, FetchCarries, ResultCarries
    <3>3. settled'[j] \in {"finished", "dropped", "dead"}
      BY <1>0, <1>4, <3>2 DEF Moved
    <3>4. JobPhase'[j] \in Delivery!Settled
      BY <1>1, <2>3, <3>3 DEF Delivery!Settled
    <3>5. Delivery!Settle(j)
      BY <2>1, <3>1, <3>4 DEF Delivery!Settle
    <3> QED
      BY <3>5 DEF Delivery!Next
  <2> QED
    BY <2>2, <2>3
<1> QED
  BY <1>3, <1>4 DEF MovesOne

(* No job is forgotten: whichever call of the collector or the Lambda      *)
(* fails, a job that was accepted is owed, with a message in some queue,   *)
(* until it is finished, dropped for the lock, or dead.                    *)
THEOREM PipelineDelivers == Spec => NoJobForgotten
<1>1. Init => Delivery!Init
  <2> SUFFICES ASSUME Init PROVE Delivery!Init
    OBVIOUS
  <2>1. \A j \in Jobs : ~Outstanding(j) /\ settled[j] = "never"
    BY DEF Init, Outstanding, NoMessages
  <2> QED
    BY <2>1 DEF Delivery!Init, JobPhase
<1>2. /\ WorkersSound /\ Accounted /\ (WorkersSound /\ Accounted)' /\ [Next]_vars
      => [Delivery!Next]_JobPhase
  BY EveryStepMovesOne, PhasesFollow
<1> QED
  BY <1>1, <1>2, AccountedInvariant, PTL DEF Spec, NoJobForgotten, Delivery!Spec

=============================================================================
