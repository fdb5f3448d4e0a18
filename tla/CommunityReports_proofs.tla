----------------------- MODULE CommunityReports_proofs -----------------------
(***************************************************************************)
(* Why a strategy has one report and every run of its job answers with it, *)
(* why what is cited is sound, counts are accepted and nothing retained is *)
(* extracted again, for any manifest, listings, limits, edits and faults.  *)
(***************************************************************************)
EXTENDS CommunityReports, FiniteSetTheorems, SequenceTheorems, TLAPS

-----------------------------------------------------------------------------
(* The inductive invariant.                                                *)

Jobs == StrategyJobs \cup {DispatchJob(d) : d \in Days}
Messages == [job : Jobs, receives : Nat]
SourceSet(r) == ToSet(SourcesOf[r.job.strategy])

(* What a worker holds at each of its steps.                               *)
Holds(r, fields) == DOMAIN r \ {"msg"} = {"pc"} \cup fields

ForJob(r, fields) == Holds(r, {"job"} \cup fields) /\ r.job \in StrategyJobs

DiscoverFields == {"asOf", "expired"}
LookupFields == DiscoverFields \cup {"unread", "found"}
MaterializeFields == LookupFields \cup {"hits", "topical", "known"}
DraftFields == MaterializeFields \cup {"made", "failed", "writes"}

(* Documents of the window, of sources that were read, each counted once.  *)
Distinct(documents) ==
    \A f \in documents : \A g \in documents \ {f} :
        f.doc # g.doc /\ UrlOf[f.doc] # UrlOf[g.doc]

FoundSound(r) ==
    /\ r.unread \subseteq SourceSet(r)
    /\ IsFiniteSet(r.found) /\ Distinct(r.found)
    /\ \A f \in r.found :
         /\ f.source \in SourceSet(r) \ r.unread
         /\ f.published \in Int /\ InWindow(r.job, f.published)

(* The extraction of a document was not stored when the run looked.        *)
Unknown(r, f) == <<KeyOf(r.job, f), f.published>> \notin r.known

MissesSound(r) ==
    /\ r.hits \subseteq r.found
    /\ \A f \in r.found \ r.hits : Unknown(r, f)

(* Hits and extractions are disjoint, and no source of theirs failed.      *)
DraftSound(r) ==
    /\ r.hits \cup r.made \subseteq r.found
    /\ r.hits \cap r.made = {} /\ r.hits \cup r.made # {}
    /\ r.failed \subseteq SourceSet(r) \ r.unread
    /\ \A f \in r.hits \cup r.made : f.source \notin r.failed
    /\ \A f \in r.made : Unknown(r, f)
    /\ r.writes \in Nat /\ r.writes <= Cardinality(r.made)

Timely(r) == r.asOf \in Nat /\ r.asOf <= now

Dispatching(r) ==
    /\ r.pc = "dispatch" /\ DOMAIN r = {"pc", "msg", "todo"}
    /\ r.msg.job.day \in Days
    /\ r.todo \in Seq(ToSet(Strategies))

Begun(r) == r.pc \in {"check", "start"} /\ ForJob(r, {})
Pruning(r) == r.pc = "prune" /\ ForJob(r, {"asOf"}) /\ Timely(r)
Discovering(r) == r.pc = "discover" /\ ForJob(r, DiscoverFields) /\ Timely(r)
LookingUp(r) == r.pc = "lookup" /\ ForJob(r, LookupFields) /\ Timely(r) /\ FoundSound(r)

Materializing(r) ==
    /\ r.pc = "materialize" /\ ForJob(r, MaterializeFields)
    /\ FoundSound(r) /\ MissesSound(r)

Drafting(r) ==
    /\ r.pc \in {"store", "publish"} /\ ForJob(r, DraftFields)
    /\ FoundSound(r) /\ DraftSound(r)

ReadingBack(r) == r.pc = "read back" /\ ForJob(r, {}) /\ r.job \in DOMAIN reports

Answering(r) ==
    /\ r.pc = "done" /\ ForJob(r, {"answer"})
    /\ r.job \in DOMAIN reports /\ r.answer = reports[r.job]

InRun(r) ==
    \/ Dispatching(r) \/ Begun(r) \/ Pruning(r) \/ Discovering(r) \/ LookingUp(r)
    \/ Materializing(r) \/ Drafting(r) \/ ReadingBack(r) \/ Answering(r)

WithMessage(r) == "msg" \in DOMAIN r /\ r.msg \in Messages

Works(w, r) == r = Idle \/ (InRun(r) /\ (w = "lambda" => WithMessage(r)))

WorkersSound == DOMAIN workers = Workers /\ \A w \in Workers : Works(w, workers[w])

MessagesSound == queue \subseteq Messages /\ dead \subseteq Messages

WorldSound == now \in 0..MaxDay /\ upstream \in [Documents -> [title : Nat, published : Int]]

(* What was ever extracted is still in the cache, or has expired.          *)
Retained ==
    \A x \in stored :
        /\ x[2] \in Int
        /\ x[2] + Retention > now =>
             \E e \in cache : e.key = x[1] /\ e.expires = x[2] + Retention

ReportsSound == DOMAIN reports \subseteq StrategyJobs /\ EvidenceIsSound

CommunitySound == WorkersSound /\ MessagesSound /\ WorldSound /\ Retained /\ ReportsSound

-----------------------------------------------------------------------------
(* Steps of one worker leave what the others hold true.                    *)

ReportsKept ==
    \A job \in DOMAIN reports : job \in DOMAIN reports' /\ reports'[job] = reports[job]

LEMMA WorksStays ==
    ASSUME now \in Nat, now' \in Nat, now <= now', ReportsKept, NEW w, NEW r, Works(w, r)
    PROVE  Works(w, r)'
<1>1. Timely(r) => Timely(r)'
  BY DEF Timely
<1>2. ReadingBack(r) => ReadingBack(r)'
  BY DEF ReadingBack, ReportsKept
<1>3. Answering(r) => Answering(r)'
  BY DEF Answering, ReportsKept
<1>4. Pruning(r) => Pruning(r)'
  BY <1>1 DEF Pruning
<1>5. Discovering(r) => Discovering(r)'
  BY <1>1 DEF Discovering
<1>6. LookingUp(r) => LookingUp(r)'
  BY <1>1 DEF LookingUp
<1>7. InRun(r) => InRun(r)'
  BY <1>2, <1>3, <1>4, <1>5, <1>6 DEF InRun
<1> QED
  BY <1>7 DEF Works

LEMMA WorkersStay ==
    ASSUME WorkersSound, now \in Nat, now' \in Nat, now <= now', ReportsKept,
           NEW w \in Workers, NEW s, Go(w, s), Works(w, s)'
    PROVE  WorkersSound'
<1>1. DOMAIN workers' = Workers /\ workers'[w] = s
  BY DEF WorkersSound, Go
<1>2. ASSUME NEW v \in Workers \ {w} PROVE Works(v, workers[v])'
  <2>1. PICK r : r = workers[v]
    OBVIOUS
  <2>2. workers'[v] = r
    BY <2>1 DEF WorkersSound, Go
  <2>3. Works(v, r)'
    BY <2>1, WorksStays DEF WorkersSound
  <2> QED
    BY <2>2, <2>3
<1>3. Works(w, workers[w])'
  BY <1>1
<1> QED
  BY <1>1, <1>2, <1>3 DEF WorkersSound

LEMMA TablesStand ==
    ASSUME UNCHANGED <<now, upstream, tables>>
    PROVE  /\ now' = now /\ reports' = reports /\ ReportsKept
           /\ WorldSound => WorldSound'
           /\ Retained => Retained'
           /\ ReportsSound => ReportsSound'
<1>1. now' = now /\ upstream' = upstream /\ cache' = cache /\ reports' = reports /\ stored' = stored
  BY DEF tables
<1>2. ReportsKept
  BY <1>1 DEF ReportsKept
<1>3. WorldSound => WorldSound'
  BY <1>1 DEF WorldSound
<1>4. Retained => Retained'
  BY <1>1 DEF Retained
<1>5. ReportsSound => ReportsSound'
  BY <1>1 DEF ReportsSound, EvidenceIsSound
<1> QED
  BY <1>1, <1>2, <1>3, <1>4, <1>5

LEMMA TodayIsNatural ==
    ASSUME WorldSound
    PROVE  now \in Nat /\ MaxDay \in Nat
BY BoundAssumption DEF WorldSound

(* A worker moves on and the tables stand.                                 *)
LEMMA LocalStep ==
    ASSUME CommunitySound, NEW w \in Workers, NEW s, Works(w, s), Go(w, s),
           UNCHANGED <<now, upstream, tables>>, MessagesSound'
    PROVE  CommunitySound'
<1>1. now \in Nat /\ now' = now /\ ReportsKept
  BY TablesStand, TodayIsNatural DEF CommunitySound
<1>2. Works(w, s)'
  BY <1>1, WorksStays
<1>3. WorkersSound'
  BY <1>1, <1>2, WorkersStay DEF CommunitySound
<1> QED
  BY <1>3, TablesStand DEF CommunitySound

LEMMA MessagesStand ==
    ASSUME MessagesSound, UNCHANGED messages
    PROVE  MessagesSound'
BY DEF MessagesSound, messages

(* A message that comes back is the one the Lambda holds.                  *)
LEMMA ReturnedSound ==
    ASSUME CommunitySound, NEW w \in Workers, workers[w] # Idle, Returned(w)
    PROVE  MessagesSound'
<1>1. w = "lambda" => workers[w].msg \in Messages
  BY DEF CommunitySound, WorkersSound, Works, WithMessage
<1> QED
  BY <1>1 DEF Returned, CommunitySound, MessagesSound, messages

LEMMA FailSound ==
    ASSUME CommunitySound, NEW w \in Workers, workers[w] # Idle, Fail(w),
           UNCHANGED <<now, upstream, tables>>
    PROVE  CommunitySound'
<1>1. Works(w, Idle)
  BY DEF Works
<1>2. MessagesSound'
  BY ReturnedSound DEF Fail
<1> QED
  BY <1>1, <1>2, LocalStep DEF Fail

LEMMA AbortSound ==
    ASSUME CommunitySound, NEW w \in Workers, Abort(w)
    PROVE  CommunitySound'
<1>1. Fail(w) /\ workers[w] # Idle /\ UNCHANGED <<now, upstream, tables>>
  BY DEF Abort, Fail
<1> QED
  BY <1>1, FailSound

-----------------------------------------------------------------------------
(* The queue.                                                              *)

LEMMA JobKinds ==
    /\ \A job \in Jobs : job.day \in Days
    /\ \A job \in Jobs : job.kind # "community_dispatch" => job \in StrategyJobs
    /\ \A s \in ToSet(Strategies), d \in Days : StrategyJob(s, d) \in StrategyJobs
    /\ \A job \in StrategyJobs : job.day \in Days /\ job.strategy \in ToSet(Strategies)
BY DEF Jobs, StrategyJobs, StrategyJob, DispatchJob

LEMMA SentSound ==
    ASSUME MessagesSound, NEW job \in Jobs
    PROVE  Sent(job) \subseteq Messages
BY DEF Sent, MessagesSound, Messages

LEMMA ReceiveSound ==
    ASSUME CommunitySound, NEW m \in queue, Receive(m)
    PROVE  CommunitySound'
<1>1. m \in Messages /\ workers["lambda"] = Idle /\ "lambda" \in Workers
  BY DEF CommunitySound, MessagesSound, Receive, Workers
<1> DEFINE taken == [m EXCEPT !.receives = @ + 1]
           s == IF m.job.kind = "community_dispatch"
                THEN [pc |-> "dispatch", msg |-> taken, todo |-> Strategies]
                ELSE [pc |-> "check", msg |-> taken, job |-> m.job]
<1>2. taken \in Messages /\ taken.job = m.job /\ m.job \in Jobs
  BY <1>1 DEF Messages
<1>3. /\ queue' = (queue \ {m}) \cup {taken} /\ dead' = dead
      /\ Go("lambda", s) /\ UNCHANGED <<now, upstream, tables>>
  BY DEF Receive, environment
<1>4. MessagesSound'
  BY <1>2, <1>3 DEF CommunitySound, MessagesSound
<1> HIDE DEF taken
<1>5. Works("lambda", s)
  <2>1. CASE m.job.kind = "community_dispatch"
    <3>1. s.pc = "dispatch" /\ DOMAIN s = {"pc", "msg", "todo"} /\ s.msg = taken /\ s.todo = Strategies
      BY <2>1
    <3> HIDE DEF s
    <3>2. Dispatching(s)
      BY <1>2, <3>1, JobKinds, StrategyAssumption DEF Dispatching
    <3> QED
      BY <1>2, <3>1, <3>2 DEF Works, InRun, WithMessage
  <2>2. CASE m.job.kind # "community_dispatch"
    <3>1. s.pc = "check" /\ DOMAIN s = {"pc", "msg", "job"} /\ s.msg = taken /\ s.job = m.job
      BY <2>2
    <3> HIDE DEF s
    <3>2. Begun(s)
      BY <1>2, <2>2, <3>1, JobKinds DEF Begun, ForJob, Holds
    <3> QED
      BY <1>2, <3>1, <3>2 DEF Works, InRun, WithMessage
  <2> QED
    BY <2>1, <2>2
<1> HIDE DEF s
<1> QED
  BY <1>1, <1>3, <1>4, <1>5, LocalStep

(* What a worker's step says of it.                                        *)
LEMMA Phases ==
    ASSUME NEW w, NEW r, Works(w, r)
    PROVE  /\ r.pc = "dispatch" => Dispatching(r)
           /\ r.pc \in {"check", "start"} => Begun(r)
           /\ r.pc = "prune" => Pruning(r)
           /\ r.pc = "discover" => Discovering(r)
           /\ r.pc = "lookup" => LookingUp(r)
           /\ r.pc = "materialize" => Materializing(r)
           /\ r.pc \in {"store", "publish"} => Drafting(r)
           /\ r.pc = "read back" => ReadingBack(r)
           /\ r.pc = "done" => Answering(r)
           /\ r.pc # "idle" => r # Idle /\ (w = "lambda" => WithMessage(r))
<1>1. r = Idle => r.pc = "idle"
  BY DEF Idle
<1>2. Dispatching(r) => r.pc = "dispatch"
  BY DEF Dispatching
<1>3. Begun(r) => r.pc \in {"check", "start"}
  BY DEF Begun
<1>4. Pruning(r) => r.pc = "prune"
  BY DEF Pruning
<1>5. Discovering(r) => r.pc = "discover"
  BY DEF Discovering
<1>6. LookingUp(r) => r.pc = "lookup"
  BY DEF LookingUp
<1>7. Materializing(r) => r.pc = "materialize"
  BY DEF Materializing
<1>8. Drafting(r) => r.pc \in {"store", "publish"}
  BY DEF Drafting
<1>9. ReadingBack(r) => r.pc = "read back"
  BY DEF ReadingBack
<1>10. Answering(r) => r.pc = "done"
  BY DEF Answering
<1> QED
  BY <1>1, <1>2, <1>3, <1>4, <1>5, <1>6, <1>7, <1>8, <1>9, <1>10 DEF Works, InRun

LEMMA DispatchSound ==
    ASSUME CommunitySound, Dispatch
    PROVE  CommunitySound'
<1>1. PICK r : r = workers["lambda"]
  OBVIOUS
<1>2. "lambda" \in Workers /\ Works("lambda", r)
  BY <1>1 DEF CommunitySound, WorkersSound, Workers
<1>3. PICK s : s = [r EXCEPT !.todo = Tail(@)]
  OBVIOUS
<1>4. /\ r.pc = "dispatch" /\ r.todo # <<>> /\ Go("lambda", s)
      /\ queue' = Sent(StrategyJob(Head(r.todo), r.msg.job.day)) /\ dead' = dead
      /\ UNCHANGED <<now, upstream, tables>>
  BY <1>1, <1>3 DEF Dispatch, environment
<1>5. Dispatching(r) /\ WithMessage(r)
  BY <1>2, <1>4, Phases
<1>6. r.todo \in Seq(ToSet(Strategies)) /\ DOMAIN r = {"pc", "msg", "todo"} /\ r.msg.job.day \in Days
  BY <1>5 DEF Dispatching
<1>7. Head(r.todo) \in ToSet(Strategies) /\ Tail(r.todo) \in Seq(ToSet(Strategies))
  BY <1>4, <1>6, HeadTailProperties
<1>8. s.pc = "dispatch" /\ DOMAIN s = {"pc", "msg", "todo"} /\ s.msg = r.msg /\ s.todo = Tail(r.todo)
  BY <1>3, <1>4, <1>6
<1>9. Works("lambda", s)
  BY <1>5, <1>6, <1>7, <1>8 DEF Works, InRun, Dispatching, WithMessage
<1>10. StrategyJob(Head(r.todo), r.msg.job.day) \in Jobs
  BY <1>6, <1>7, JobKinds DEF Jobs
<1>11. MessagesSound'
  BY <1>4, <1>10, SentSound DEF CommunitySound, MessagesSound
<1> QED
  BY <1>2, <1>4, <1>9, <1>11, LocalStep

LEMMA AcknowledgeSound ==
    ASSUME CommunitySound, NEW w \in Workers, Acknowledge(w)
    PROVE  CommunitySound'
<1>1. Works(w, Idle)
  BY DEF Works
<1>2. MessagesSound'
  BY DEF CommunitySound, MessagesSound, Acknowledge
<1> QED
  BY <1>1, <1>2, LocalStep DEF Acknowledge, environment

LEMMA RunByHandSound ==
    ASSUME CommunitySound, NEW job \in StrategyJobs, RunByHand(job)
    PROVE  CommunitySound'
<1>1. PICK s : s = [pc |-> "start", job |-> job]
  OBVIOUS
<1>2. Works("manual", s)
  BY <1>1 DEF Works, InRun, Begun, ForJob, Holds
<1>3. MessagesSound'
  BY MessagesStand DEF RunByHand, CommunitySound
<1> QED
  BY <1>1, <1>2, <1>3, LocalStep DEF RunByHand, Workers

LEMMA RedriveSound ==
    ASSUME CommunitySound, NEW m \in dead, Redrive(m)
    PROVE  CommunitySound'
<1>1. MessagesSound'
  BY DEF CommunitySound, MessagesSound, Messages, Redrive
<1>2. UNCHANGED <<now, upstream, tables>> /\ workers' = workers
  BY DEF Redrive
<1>3. WorkersSound'
  BY <1>2, TablesStand, TodayIsNatural, WorksStays DEF CommunitySound, WorkersSound
<1> QED
  BY <1>1, <1>2, <1>3, TablesStand DEF CommunitySound

LEMMA NextDaySound ==
    ASSUME CommunitySound, NextDay
    PROVE  CommunitySound'
<1>1. /\ now \in Nat /\ now < MaxDay /\ MaxDay \in Nat /\ now' = now + 1 /\ now + 1 \in Days
      /\ queue' = Sent(DispatchJob(now + 1)) /\ dead' = dead
      /\ workers' = workers /\ upstream' = upstream
      /\ cache' = cache /\ reports' = reports /\ stored' = stored
  BY TodayIsNatural DEF NextDay, CommunitySound, tables, Days
<1>2. DispatchJob(now + 1) \in Jobs
  BY <1>1 DEF Jobs
<1>3. MessagesSound'
  BY <1>1, <1>2, SentSound DEF CommunitySound, MessagesSound
<1>4. WorldSound'
  BY <1>1 DEF CommunitySound, WorldSound
<1>5. WorkersSound'
  <2>1. ReportsKept /\ now' \in Nat /\ now <= now'
    BY <1>1 DEF ReportsKept
  <2> SUFFICES ASSUME NEW w \in Workers PROVE Works(w, workers[w])'
    BY <1>1 DEF CommunitySound, WorkersSound
  <2>2. PICK r : r = workers[w]
    OBVIOUS
  <2>3. Works(w, r)'
    BY <1>1, <2>1, <2>2, WorksStays DEF CommunitySound, WorkersSound
  <2> QED
    BY <1>1, <2>2, <2>3
<1>6. Retained'
  BY <1>1, StrategyAssumption DEF CommunitySound, Retained
<1>7. ReportsSound'
  BY <1>1 DEF CommunitySound, ReportsSound, EvidenceIsSound
<1> QED
  BY <1>3, <1>4, <1>5, <1>6, <1>7 DEF CommunitySound

LEMMA EditSound ==
    ASSUME CommunitySound, NEW d \in Documents, Edit(d)
    PROVE  CommunitySound'
<1>1. /\ now' = now /\ workers' = workers /\ cache' = cache
      /\ reports' = reports /\ stored' = stored /\ UNCHANGED messages
      /\ \/ upstream' = [upstream EXCEPT ![d].title = @ + 1]
         \/ upstream' = [upstream EXCEPT ![d].published = now]
  BY DEF Edit, tables
<1>2. WorldSound'
  BY <1>1, TodayIsNatural DEF CommunitySound, WorldSound
<1>3. ReportsKept
  BY <1>1 DEF ReportsKept
<1>4. WorkersSound'
  BY <1>1, <1>3, TodayIsNatural, WorksStays DEF CommunitySound, WorkersSound
<1>5. Retained' /\ ReportsSound'
  BY <1>1 DEF CommunitySound, Retained, ReportsSound, EvidenceIsSound
<1> QED
  BY <1>1, <1>2, <1>4, <1>5, MessagesStand DEF CommunitySound

-----------------------------------------------------------------------------
(* CommunityService.run.                                                   *)

LEMMA CheckSound ==
    ASSUME CommunitySound, NEW w \in Workers, Check(w)
    PROVE  CommunitySound'
<1>1. PICK r : r = workers[w]
  OBVIOUS
<1>2. PICK s : s = IF r.job \in DOMAIN reports THEN Done(r, reports[r.job])
                   ELSE IF r.pc = "check" THEN [r EXCEPT !.pc = "start"]
                   ELSE With(Base(r), [pc |-> "prune", asOf |-> now])
  OBVIOUS
<1>3. r.pc \in {"check", "start"} /\ Go(w, s) /\ UNCHANGED messages /\ UNCHANGED <<now, upstream, tables>>
  BY <1>1, <1>2 DEF Check, environment
<1>4. Begun(r) /\ (w = "lambda" => WithMessage(r))
  BY <1>1, <1>3, Phases DEF CommunitySound, WorkersSound
<1>5. /\ DOMAIN r \ {"msg"} = {"pc", "job"} /\ r.job \in StrategyJobs
      /\ now \in Nat /\ now <= now
  BY <1>4, TodayIsNatural DEF Begun, ForJob, Holds, CommunitySound
<1>6. CASE r.job \in DOMAIN reports
  <2>1. s = Done(r, reports[r.job])
    BY <1>2, <1>6
  <2>2. /\ s.pc = "done" /\ s.job = r.job /\ s.answer = reports[r.job]
        /\ DOMAIN s \ {"msg"} = {"pc", "job", "answer"}
        /\ "msg" \in DOMAIN r => "msg" \in DOMAIN s /\ s.msg = r.msg
    BY <1>5, <2>1 DEF Done, Base, With
  <2>3. Works(w, s)
    BY <1>4, <1>5, <1>6, <2>2 DEF Works, InRun, Answering, ForJob, Holds, WithMessage
  <2> QED
    BY <1>3, <2>3, LocalStep, MessagesStand DEF CommunitySound
<1>7. CASE r.job \notin DOMAIN reports /\ r.pc = "check"
  <2>1. s = [r EXCEPT !.pc = "start"]
    BY <1>2, <1>7
  <2>2. /\ s.pc = "start" /\ s.job = r.job /\ DOMAIN s \ {"msg"} = {"pc", "job"}
        /\ "msg" \in DOMAIN r => "msg" \in DOMAIN s /\ s.msg = r.msg
    BY <1>5, <2>1
  <2>3. Works(w, s)
    BY <1>4, <1>5, <2>2 DEF Works, InRun, Begun, ForJob, Holds, WithMessage
  <2> QED
    BY <1>3, <2>3, LocalStep, MessagesStand DEF CommunitySound
<1>8. CASE r.job \notin DOMAIN reports /\ r.pc # "check"
  <2>1. s = With(Base(r), [pc |-> "prune", asOf |-> now])
    BY <1>2, <1>8
  <2>2. /\ s.pc = "prune" /\ s.job = r.job /\ s.asOf = now
        /\ DOMAIN s \ {"msg"} = {"pc", "job", "asOf"}
        /\ "msg" \in DOMAIN r => "msg" \in DOMAIN s /\ s.msg = r.msg
    BY <1>5, <2>1 DEF Base, With
  <2>3. Works(w, s)
    BY <1>4, <1>5, <2>2 DEF Works, InRun, Pruning, Timely, ForJob, Holds, WithMessage
  <2> QED
    BY <1>3, <2>3, LocalStep, MessagesStand DEF CommunitySound
<1> QED
  BY <1>6, <1>7, <1>8

LEMMA PruneSound ==
    ASSUME CommunitySound, NEW w \in Workers, Prune(w)
    PROVE  CommunitySound'
<1>1. PICK r : r = workers[w]
  OBVIOUS
<1>2. PICK s : s = With([r EXCEPT !.pc = "discover"], [expired |-> Cardinality(Expired(r.asOf))])
  OBVIOUS
<1>3. /\ r.pc = "prune" /\ cache' = cache \ Expired(r.asOf) /\ Go(w, s) /\ UNCHANGED messages
      /\ now' = now /\ upstream' = upstream /\ reports' = reports /\ stored' = stored
  BY <1>1, <1>2 DEF Prune, At, environment
<1>4. Pruning(r) /\ (w = "lambda" => WithMessage(r))
  BY <1>1, <1>3, Phases DEF CommunitySound, WorkersSound
<1>5. /\ DOMAIN r \ {"msg"} = {"pc", "job", "asOf"} /\ r.job \in StrategyJobs
      /\ now \in Nat /\ now <= now /\ r.asOf \in Nat /\ r.asOf <= now
  BY <1>4, TodayIsNatural DEF Pruning, Timely, ForJob, Holds, CommunitySound
<1>6. /\ s.pc = "discover" /\ s.job = r.job /\ s.asOf = r.asOf
      /\ DOMAIN s \ {"msg"} = {"pc", "job", "asOf", "expired"}
      /\ "msg" \in DOMAIN r => "msg" \in DOMAIN s /\ s.msg = r.msg
  BY <1>2, <1>5 DEF With
<1>7. Works(w, s)
  BY <1>4, <1>5, <1>6 DEF Works, InRun, Discovering, DiscoverFields, Timely, ForJob, Holds, WithMessage
<1>8. Retained'
  <2> SUFFICES ASSUME NEW x \in stored, x[2] + Retention > now
               PROVE  \E e \in cache' : e.key = x[1] /\ e.expires = x[2] + Retention
    BY <1>3 DEF CommunitySound, Retained
  <2>1. x[2] \in Int /\ Retention \in Nat
    BY StrategyAssumption DEF CommunitySound, Retained
  <2>2. PICK e \in cache : e.key = x[1] /\ e.expires = x[2] + Retention
    BY DEF CommunitySound, Retained
  <2>3. ~(e.expires <= r.asOf)
    BY <1>5, <2>1, <2>2
  <2> QED
    BY <1>3, <2>2, <2>3 DEF Expired
<1>9. ReportsKept /\ ReportsSound' /\ WorldSound'
  BY <1>3 DEF ReportsKept, CommunitySound, ReportsSound, EvidenceIsSound, WorldSound
<1>10. Works(w, s)'
  BY <1>3, <1>5, <1>7, <1>9, WorksStays
<1>11. WorkersSound'
  BY <1>3, <1>5, <1>9, <1>10, WorkersStay DEF CommunitySound
<1> QED
  BY <1>3, <1>8, <1>9, <1>11, MessagesStand DEF CommunitySound

-----------------------------------------------------------------------------
(* Manifests and listings are finite.                                      *)

LEMMA ImageIsFinite ==
    ASSUME NEW S, IsFiniteSet(S), NEW f, f = [x \in S |-> f[x]]
    PROVE  /\ IsFiniteSet({f[x] : x \in S})
           /\ (\A x \in S : \A y \in S : f[x] = f[y] => x = y)
                  => Cardinality({f[x] : x \in S}) = Cardinality(S)
<1> DEFINE T == {f[x] : x \in S}
<1>1. f \in [S -> T]
  OBVIOUS
<1>2. \A t \in T : \E x \in S : f[x] = t
  OBVIOUS
<1> HIDE DEF T
<1>3. f \in Surjection(S, T)
  BY <1>1, <1>2 DEF Surjection
<1>4. /\ IsFiniteSet(T)
      /\ Cardinality(T) = Cardinality(S) <=> f \in Injection(S, T)
  BY <1>3, FS_Surjection, Zenon
<1>5. (\A x \in S : \A y \in S : f[x] = f[y] => x = y) => f \in Injection(S, T)
  BY <1>1 DEF Injection, IsInjective
<1> QED
  BY <1>4, <1>5 DEF T

LEMMA SequenceSet ==
    ASSUME NEW S, NEW s \in Seq(S)
    PROVE  /\ IsFiniteSet(ToSet(s)) /\ ToSet(s) \subseteq S
           /\ IsInjective(s) => Cardinality(ToSet(s)) = Len(s)
           /\ DOMAIN s = 1..Len(s) /\ Len(s) \in Nat
           /\ \A n \in DOMAIN s : s[n] \in ToSet(s)
<1>1. s \in [1..Len(s) -> S] /\ Len(s) \in Nat /\ DOMAIN s = 1..Len(s)
  BY LenProperties
<1>2. IsFiniteSet(1..Len(s)) /\ Cardinality(1..Len(s)) = Len(s)
  <2>1. PICK n \in Nat : n = Len(s)
    BY <1>1
  <2>2. IsFiniteSet(1..n) /\ Cardinality(1..n) = IF 1 > n THEN 0 ELSE n - 1 + 1
    BY FS_Interval
  <2> QED
    BY <2>1, <2>2
<1>3. ToSet(s) = {s[n] : n \in 1..Len(s)}
  BY <1>1 DEF ToSet
<1>4. s = [n \in 1..Len(s) |-> s[n]]
  BY <1>1
<1>5. IsInjective(s) => \A m \in 1..Len(s) : \A n \in 1..Len(s) : s[m] = s[n] => m = n
  BY <1>1 DEF IsInjective
<1>6. /\ IsFiniteSet({s[n] : n \in 1..Len(s)})
      /\ (\A m \in 1..Len(s) : \A n \in 1..Len(s) : s[m] = s[n] => m = n)
             => Cardinality({s[n] : n \in 1..Len(s)}) = Cardinality(1..Len(s))
  <2>1. PICK indices : indices = 1..Len(s)
    OBVIOUS
  <2>2. IsFiniteSet(indices) /\ s = [n \in indices |-> s[n]]
    BY <1>2, <1>4, <2>1
  <2>3. /\ IsFiniteSet({s[n] : n \in indices})
        /\ (\A m \in indices : \A n \in indices : s[m] = s[n] => m = n)
               => Cardinality({s[n] : n \in indices}) = Cardinality(indices)
    BY <2>2, ImageIsFinite
  <2> QED
    BY <2>1, <2>3
<1> QED
  BY <1>1, <1>2, <1>3, <1>5, <1>6

LEMMA ManifestIsFinite ==
    /\ \A k \in ToSet(Strategies) :
         /\ SourcesOf[k] \in Seq(Sources) /\ SourcesOf[k] # <<>>
         /\ IsFiniteSet(ToSet(SourcesOf[k])) /\ ToSet(SourcesOf[k]) \subseteq Sources
         /\ Cardinality(ToSet(SourcesOf[k])) = Len(SourcesOf[k])
         /\ Len(SourcesOf[k]) \in Nat /\ DOMAIN SourcesOf[k] = 1..Len(SourcesOf[k])
         /\ \A n \in DOMAIN SourcesOf[k] : SourcesOf[k][n] \in ToSet(SourcesOf[k])
    /\ IsFiniteSet(Sources) /\ IsFiniteSet(Documents)
    /\ \A s \in Sources : \A i \in DOMAIN Lists[s] :
         i \in Nat /\ Lists[s][i] \in ToSet(Lists[s]) /\ Lists[s][i] \in Documents
<1>1. \A k \in ToSet(Strategies) :
         /\ SourcesOf[k] \in Seq(Sources) /\ SourcesOf[k] # <<>>
         /\ IsFiniteSet(ToSet(SourcesOf[k])) /\ ToSet(SourcesOf[k]) \subseteq Sources
         /\ Cardinality(ToSet(SourcesOf[k])) = Len(SourcesOf[k])
         /\ Len(SourcesOf[k]) \in Nat /\ DOMAIN SourcesOf[k] = 1..Len(SourcesOf[k])
         /\ \A n \in DOMAIN SourcesOf[k] : SourcesOf[k][n] \in ToSet(SourcesOf[k])
  BY StrategyAssumption, SequenceSet
<1>2. IsFiniteSet(ToSet(Strategies))
  BY StrategyAssumption, SequenceSet
<1>3. IsFiniteSet(Sources)
  <2>1. PICK f : f = [k \in ToSet(Strategies) |-> ToSet(SourcesOf[k])]
    OBVIOUS
  <2>2. IsFiniteSet({f[k] : k \in ToSet(Strategies)})
    BY <1>2, <2>1, ImageIsFinite
  <2>3. {f[k] : k \in ToSet(Strategies)} = {ToSet(SourcesOf[k]) : k \in ToSet(Strategies)}
    BY <2>1
  <2> QED
    BY <1>1, <2>2, <2>3, FS_UNION DEF Sources
<1>4. \A s \in Sources : /\ IsFiniteSet(ToSet(Lists[s])) /\ DOMAIN Lists[s] = 1..Len(Lists[s])
                         /\ ToSet(Lists[s]) \subseteq Documents
                         /\ \A i \in DOMAIN Lists[s] : Lists[s][i] \in ToSet(Lists[s])
                         /\ Len(Lists[s]) \in Nat
  BY ListingAssumption, SequenceSet
<1>5. IsFiniteSet(Documents)
  <2>1. PICK f : f = [s \in Sources |-> ToSet(Lists[s])]
    OBVIOUS
  <2>2. IsFiniteSet({f[s] : s \in Sources})
    BY <1>3, <2>1, ImageIsFinite
  <2>3. {f[s] : s \in Sources} = {ToSet(Lists[s]) : s \in Sources}
    BY <2>1
  <2> QED
    BY <1>4, <2>2, <2>3, FS_UNION DEF Documents
<1> QED
  BY <1>1, <1>3, <1>4, <1>5

-----------------------------------------------------------------------------
(* Discovery.                                                              *)

LEMMA DiscoveredIsShown ==
    ASSUME NEW job, NEW source
    PROVE  Discovered(job, source) \subseteq Shown(job, source)
<1>1. DiscoveredPosts(job, source) \subseteq Shown(job, source)
  BY DEF DiscoveredPosts, FirstOf
<1>2. DiscoveredVideos(job, source) \subseteq Shown(job, source)
  BY DEF DiscoveredVideos
<1>3. DiscoveredArticles(job, source) \subseteq Shown(job, source)
  BY DEF DiscoveredArticles, FirstOf
<1> QED
  BY <1>1, <1>2, <1>3 DEF Discovered

(* Each document a run keeps is of the window and of a source that was     *)
(* read, and differs from the others.                                      *)
LEMMA FoundIsSound ==
    ASSUME WorldSound, NEW job \in StrategyJobs, NEW unread, NEW sources, NEW results, NEW found,
           sources = SourcesOf[job.strategy],
           results = [n \in DOMAIN sources |->
                         IF sources[n] \in unread THEN {} ELSE Discovered(job, sources[n])],
           found = Deduplicated(sources, results)
    PROVE  /\ IsFiniteSet(found) /\ Distinct(found)
           /\ \A f \in found : /\ f.source \in ToSet(sources) \ unread
                               /\ f.published \in Int /\ InWindow(job, f.published)
<1> DEFINE listed == UNION {{n} \X results[n] : n \in DOMAIN sources}
           Located(at) == Document(sources[at[1]], at[2])
           kept == {b \in listed : \A a \in listed : Earlier(a, b) => ~SameDocument(Located(a), Located(b))}
<1>1. found = {Located(at) : at \in kept}
  BY DEF Deduplicated
<1>2. job.strategy \in ToSet(Strategies)
  BY JobKinds
<1>3. \A at \in listed : /\ at[1] \in Nat /\ at[2] \in Nat
                         /\ sources[at[1]] \in ToSet(sources) \ unread
                         /\ sources[at[1]] \in Sources
                         /\ at[2] \in Shown(job, sources[at[1]])
                         /\ at = <<at[1], at[2]>>
  <2> SUFFICES ASSUME NEW n \in DOMAIN sources, NEW i \in results[n]
               PROVE  /\ n \in Nat /\ i \in Nat
                      /\ sources[n] \in ToSet(sources) \ unread
                      /\ sources[n] \in Sources
                      /\ i \in Shown(job, sources[n])
    OBVIOUS
  <2>1. n \in Nat /\ sources[n] \in ToSet(sources) /\ ToSet(sources) \subseteq Sources
    BY <1>2, ManifestIsFinite
  <2>2. sources[n] \notin unread /\ i \in Discovered(job, sources[n])
    OBVIOUS
  <2>3. i \in Shown(job, sources[n])
    BY <2>2, DiscoveredIsShown
  <2>4. i \in Nat
    BY <2>1, <2>3, ManifestIsFinite DEF Shown, Listed
  <2> QED
    BY <2>1, <2>2, <2>3, <2>4
<1> HIDE DEF listed
<1>4. \A at \in listed :
        LET f == Located(at)
        IN  /\ f.source \in ToSet(sources) \ unread /\ f.doc \in Documents
            /\ f.published \in Int /\ InWindow(job, f.published)
  <2> SUFFICES ASSUME NEW at \in listed
               PROVE  /\ Located(at).source \in ToSet(sources) \ unread
                      /\ Located(at).doc \in Documents
                      /\ Located(at).published \in Int /\ InWindow(job, Located(at).published)
    OBVIOUS
  <2>1. PICK s, i : s = sources[at[1]] /\ i = at[2]
    OBVIOUS
  <2>2. s \in ToSet(sources) \ unread /\ s \in Sources /\ i \in Shown(job, s)
    BY <1>3, <2>1
  <2>3. i \in DOMAIN Lists[s] /\ InWindow(job, upstream[Lists[s][i]].published)
    BY <2>2 DEF Shown, Listed, PublishedAt
  <2>4. Lists[s][i] \in Documents /\ upstream[Lists[s][i]].published \in Int
    BY <2>2, <2>3, ManifestIsFinite DEF WorldSound
  <2>5. Located(at) = [source |-> s, doc |-> Lists[s][i],
                     published |-> upstream[Lists[s][i]].published, revision |-> Revision(s, Lists[s][i])]
    BY <2>1 DEF Document
  <2> QED
    BY <2>2, <2>3, <2>4, <2>5
<1>5. Distinct(found)
  <2> SUFFICES ASSUME NEW b \in kept, NEW c \in kept, Located(b) # Located(c)
               PROVE  ~SameDocument(Located(b), Located(c))
    BY <1>1 DEF Distinct, SameDocument
  <2>1. b \in listed /\ c \in listed /\ b # c
    OBVIOUS
  <2>2. Earlier(b, c) \/ Earlier(c, b)
    BY <1>3, <2>1 DEF Earlier
  <2> QED
    BY <2>1, <2>2 DEF SameDocument
<1>6. IsFiniteSet(found)
  <2>1. PICK f : f = [d \in found |-> d.doc]
    OBVIOUS
  <2>2. \A d \in found : d.doc \in Documents
    BY <1>1, <1>4
  <2>3. f \in Injection(found, Documents)
    BY <1>5, <2>1, <2>2 DEF Injection, IsInjective, Distinct
  <2> QED
    BY <2>3, ManifestIsFinite, FS_Injection
<1>7. \A f \in found : /\ f.source \in ToSet(sources) \ unread
                       /\ f.published \in Int /\ InWindow(job, f.published)
  BY <1>1, <1>4
<1> QED
  BY <1>5, <1>6, <1>7

LEMMA DiscoverSound ==
    ASSUME CommunitySound, NEW w \in Workers, Discover(w)
    PROVE  CommunitySound'
<1>1. PICK r : r = workers[w]
  OBVIOUS
<1>2. r.pc = "discover" /\ UNCHANGED <<now, upstream, tables>> /\ workers[w] # Idle
  BY <1>1 DEF Discover, At, Idle
<1>3. Discovering(r) /\ (w = "lambda" => WithMessage(r))
  BY <1>1, <1>2, Phases DEF CommunitySound, WorkersSound
<1>4. DOMAIN r \ {"msg"} = {"pc", "job", "asOf", "expired"} /\ r.job \in StrategyJobs /\ Timely(r)
  BY <1>3 DEF Discovering, DiscoverFields, ForJob, Holds
<1>5. PICK sources, unread, results, found :
          /\ sources = SourcesOf[r.job.strategy] /\ unread \subseteq ToSet(sources)
          /\ results = [n \in DOMAIN sources |->
                           IF sources[n] \in unread THEN {} ELSE Discovered(r.job, sources[n])]
          /\ found = Deduplicated(sources, results)
          /\ IF found = {} THEN Fail(w)
             ELSE /\ Go(w, With([r EXCEPT !.pc = "lookup"], [unread |-> unread, found |-> found]))
                  /\ UNCHANGED messages
  BY <1>1 DEF Discover
<1>6. CASE found = {}
  BY <1>2, <1>5, <1>6, FailSound
<1>7. CASE found # {}
  <2>1. PICK s : s = With([r EXCEPT !.pc = "lookup"], [unread |-> unread, found |-> found])
    OBVIOUS
  <2>2. Go(w, s) /\ UNCHANGED messages
    BY <1>5, <1>7, <2>1
  <2>3. /\ s.pc = "lookup" /\ s.job = r.job /\ s.asOf = r.asOf /\ s.unread = unread /\ s.found = found
        /\ DOMAIN s \ {"msg"} = {"pc", "job", "asOf", "expired", "unread", "found"}
        /\ "msg" \in DOMAIN r => "msg" \in DOMAIN s /\ s.msg = r.msg
    BY <1>4, <2>1 DEF With
  <2>4. /\ IsFiniteSet(found) /\ Distinct(found)
        /\ \A f \in found : /\ f.source \in ToSet(sources) \ unread
                            /\ f.published \in Int /\ InWindow(r.job, f.published)
    <3>1. WorldSound
      BY DEF CommunitySound
    <3>2. PICK job \in StrategyJobs : job = r.job
      BY <1>4
    <3>3. /\ sources = SourcesOf[job.strategy] /\ found = Deduplicated(sources, results)
          /\ results = [n \in DOMAIN sources |->
                           IF sources[n] \in unread THEN {} ELSE Discovered(job, sources[n])]
      BY <1>5, <3>2
    <3>4. /\ IsFiniteSet(found) /\ Distinct(found)
          /\ \A f \in found : /\ f.source \in ToSet(sources) \ unread
                              /\ f.published \in Int /\ InWindow(job, f.published)
      BY <3>1, <3>3, FoundIsSound
    <3> QED
      BY <3>2, <3>4
  <2>5. FoundSound(s)
    BY <1>5, <2>3, <2>4 DEF FoundSound, SourceSet
  <2>6. LookingUp(s)
    BY <1>4, <2>3, <2>5 DEF LookingUp, LookupFields, DiscoverFields, ForJob, Holds, Timely
  <2>7. Works(w, s)
    BY <1>3, <2>3, <2>6 DEF Works, InRun, WithMessage
  <2> QED
    BY <1>2, <2>2, <2>7, LocalStep, MessagesStand DEF CommunitySound
<1> QED
  BY <1>6, <1>7

-----------------------------------------------------------------------------
(* The cache.                                                              *)

(* While a document's rows are retained, the run finds the one it needs.   *)
LEMMA RetainedIsFound ==
    ASSUME CommunitySound, NEW r, LookingUp(r), NEW f \in r.found,
           now < r.job.day + Retention - Lookback,
           <<KeyOf(r.job, f), f.published>> \in stored
    PROVE  \E e \in Entries(r) : e.key = KeyOf(r.job, f)
<1>1. /\ r.asOf \in Nat /\ r.asOf <= now /\ now \in Nat
      /\ f.published \in Int /\ r.job.day - Lookback <= f.published
      /\ Lookback \in Nat /\ Retention \in Nat
  BY TodayIsNatural, StrategyAssumption DEF LookingUp, Timely, FoundSound, InWindow, CommunitySound
<1>2. r.job.day \in Nat
  BY JobKinds, TodayIsNatural DEF LookingUp, ForJob, Days, CommunitySound
<1>3. f.published + Retention > now
  BY <1>1, <1>2
<1>4. PICK e \in cache : e.key = KeyOf(r.job, f) /\ e.expires = f.published + Retention
  <2>1. PICK x : x = <<KeyOf(r.job, f), f.published>>
    OBVIOUS
  <2>2. x \in stored /\ x[1] = KeyOf(r.job, f) /\ x[2] = f.published
    BY <2>1
  <2> QED
    BY <1>3, <2>2 DEF CommunitySound, Retained
<1>5. e.expires > r.asOf
  BY <1>1, <1>3, <1>4
<1> QED
  BY <1>4, <1>5 DEF Entries

LEMMA LookupSound ==
    ASSUME CommunitySound, NEW w \in Workers, Lookup(w)
    PROVE  CommunitySound'
<1>1. PICK r : r = workers[w]
  OBVIOUS
<1>2. r.pc = "lookup" /\ UNCHANGED <<now, upstream, tables>> /\ workers[w] # Idle
  BY <1>1 DEF Lookup, At, Idle, environment
<1>3. LookingUp(r) /\ (w = "lambda" => WithMessage(r))
  BY <1>1, <1>2, Phases DEF CommunitySound, WorkersSound
<1>4. /\ DOMAIN r \ {"msg"} = {"pc", "job", "asOf", "expired", "unread", "found"}
      /\ r.job \in StrategyJobs /\ FoundSound(r)
  BY <1>3 DEF LookingUp, LookupFields, DiscoverFields, ForJob, Holds
<1>5. PICK hits, topical, known :
          /\ hits = {f \in r.found : {e \in Entries(r) : e.key = KeyOf(r.job, f)} # {}}
          /\ known = IF now < r.job.day + Retention - Lookback THEN stored ELSE {}
          /\ \/ Fail(w)
             \/ /\ Go(w, With([r EXCEPT !.pc = "materialize"],
                              [hits |-> hits, topical |-> topical, known |-> known]))
                /\ UNCHANGED messages
  BY <1>1 DEF Lookup
<1>6. CASE Fail(w)
  BY <1>2, <1>6, FailSound
<1>7. CASE /\ Go(w, With([r EXCEPT !.pc = "materialize"],
                         [hits |-> hits, topical |-> topical, known |-> known]))
           /\ UNCHANGED messages
  <2>1. PICK s : s = With([r EXCEPT !.pc = "materialize"],
                          [hits |-> hits, topical |-> topical, known |-> known])
    OBVIOUS
  <2>2. /\ s.pc = "materialize" /\ s.job = r.job /\ s.unread = r.unread /\ s.found = r.found
        /\ s.hits = hits /\ s.topical = topical /\ s.known = known
        /\ DOMAIN s \ {"msg"} = {"pc", "job", "asOf", "expired", "unread", "found",
                                 "hits", "topical", "known"}
        /\ "msg" \in DOMAIN r => "msg" \in DOMAIN s /\ s.msg = r.msg
    BY <1>4, <2>1 DEF With
  <2>3. FoundSound(s)
    BY <1>4, <2>2 DEF FoundSound, SourceSet
  <2>4. \A f \in r.found \ hits : <<KeyOf(r.job, f), f.published>> \notin known
    <3> SUFFICES ASSUME NEW f \in r.found, f \notin hits,
                        <<KeyOf(r.job, f), f.published>> \in known
                 PROVE  FALSE
      OBVIOUS
    <3>1. /\ now < r.job.day + Retention - Lookback
          /\ <<KeyOf(r.job, f), f.published>> \in stored
      BY <1>5
    <3>2. \E e \in Entries(r) : e.key = KeyOf(r.job, f)
      BY <1>3, <3>1, RetainedIsFound
    <3> QED
      BY <1>5, <3>2
  <2>5. MissesSound(s)
    BY <1>5, <2>2, <2>4 DEF MissesSound, Unknown
  <2>6. Materializing(s)
    BY <1>4, <2>2, <2>3, <2>5 DEF Materializing, MaterializeFields, LookupFields, DiscoverFields,
                                  ForJob, Holds
  <2>7. Works(w, s)
    BY <1>3, <2>2, <2>6 DEF Works, InRun, WithMessage
  <2> QED
    BY <1>2, <1>7, <2>1, <2>7, LocalStep, MessagesStand DEF CommunitySound
<1> QED
  BY <1>5, <1>6, <1>7

LEMMA MaterializeSound ==
    ASSUME CommunitySound, NEW w \in Workers, Materialize(w)
    PROVE  CommunitySound'
<1>1. PICK r : r = workers[w]
  OBVIOUS
<1>2. r.pc = "materialize" /\ UNCHANGED <<now, upstream, tables>> /\ workers[w] # Idle
  <2>1. At(w, "materialize") /\ UNCHANGED <<now, upstream, tables>>
    BY Zenon DEF Materialize
  <2> QED
    BY <1>1, <2>1 DEF At, Idle
<1>3. Materializing(r) /\ (w = "lambda" => WithMessage(r))
  BY <1>1, <1>2, Phases DEF CommunitySound, WorkersSound
<1>4. /\ DOMAIN r \ {"msg"} = {"pc", "job", "asOf", "expired", "unread", "found",
                               "hits", "topical", "known"}
      /\ r.job \in StrategyJobs /\ FoundSound(r) /\ MissesSound(r)
  BY <1>3 DEF Materializing, MaterializeFields, LookupFields, DiscoverFields, ForJob, Holds
<1>5. PICK failed, made, hits, topical, pc :
          /\ failed \subseteq {f.source : f \in r.found \ r.hits}
          /\ made \subseteq r.found \ r.hits /\ \A f \in made : f.source \notin failed
          /\ hits = KeptHits(r, failed)
          /\ pc \in {"store", "publish"}
          /\ IF made \cup hits = {} THEN Fail(w)
             ELSE /\ Go(w, With([r EXCEPT !.pc = pc, !.hits = hits,
                                          !.topical = (@ \cap hits) \cup topical],
                                [made |-> made, failed |-> failed, writes |-> 0]))
                  /\ UNCHANGED messages
  <2>1. PICK outcome :
          LET misses == r.found \ r.hits
              requested == {f.source : f \in misses}
              failed == {s \in requested : outcome[s].failed}
              made == {f \in misses : f.source \notin failed
                                      /\ f \notin outcome[f.source].excluded}
              hits == KeptHits(r, failed)
          IN  \E topical \in Extractions(made) :
                IF made \cup hits = {} THEN Fail(w)
                ELSE /\ Go(w, With([r EXCEPT !.pc = IF made = {} THEN "publish" ELSE "store",
                                             !.hits = hits,
                                             !.topical = (@ \cap hits) \cup topical],
                                   [made |-> made, failed |-> failed, writes |-> 0]))
                     /\ UNCHANGED messages
    BY <1>1 DEF Materialize
  <2>2. PICK failed, made, hits :
          /\ failed = {s \in {f.source : f \in r.found \ r.hits} : outcome[s].failed}
          /\ made = {f \in r.found \ r.hits : f.source \notin failed
                                              /\ f \notin outcome[f.source].excluded}
          /\ hits = KeptHits(r, failed)
    OBVIOUS
  <2>3. PICK topical :
          IF made \cup hits = {} THEN Fail(w)
          ELSE /\ Go(w, With([r EXCEPT !.pc = IF made = {} THEN "publish" ELSE "store",
                                       !.hits = hits,
                                       !.topical = (@ \cap hits) \cup topical],
                             [made |-> made, failed |-> failed, writes |-> 0]))
               /\ UNCHANGED messages
    BY <2>1, <2>2
  <2>4. PICK pc : pc = IF made = {} THEN "publish" ELSE "store"
    OBVIOUS
  <2> QED
    BY <2>2, <2>3, <2>4
<1>6. CASE made \cup hits = {}
  BY <1>2, <1>5, <1>6, FailSound
<1>7. CASE made \cup hits # {}
  <2>1. PICK s : s = With([r EXCEPT !.pc = pc, !.hits = hits,
                                    !.topical = (@ \cap hits) \cup topical],
                          [made |-> made, failed |-> failed, writes |-> 0])
    OBVIOUS
  <2>2. Go(w, s) /\ UNCHANGED messages
    BY <1>5, <1>7, <2>1
  <2>3. /\ s.pc = pc /\ s.job = r.job /\ s.unread = r.unread /\ s.found = r.found
        /\ s.hits = hits /\ s.known = r.known
        /\ s.made = made /\ s.failed = failed /\ s.writes = 0
    <3>1. PICK r1 : r1 = [r EXCEPT !.pc = pc, !.hits = hits,
                                   !.topical = (@ \cap hits) \cup topical]
      OBVIOUS
    <3>2. /\ DOMAIN r1 = DOMAIN r /\ r1.pc = pc /\ r1.job = r.job /\ r1.unread = r.unread
          /\ r1.found = r.found /\ r1.hits = hits /\ r1.known = r.known
      BY <1>4, <3>1
    <3>3. s = With(r1, [made |-> made, failed |-> failed, writes |-> 0])
      BY <2>1, <3>1
    <3>4. /\ s.pc = r1.pc /\ s.job = r1.job /\ s.unread = r1.unread /\ s.found = r1.found
          /\ s.hits = r1.hits /\ s.known = r1.known
      BY <1>4, <3>2, <3>3 DEF With
    <3>5. s.made = made /\ s.failed = failed /\ s.writes = 0
      BY <1>4, <3>2, <3>3 DEF With
    <3> QED
      BY <3>2, <3>4, <3>5
  <2>4. /\ DOMAIN s \ {"msg"} = {"pc", "job", "asOf", "expired", "unread", "found",
                                 "hits", "topical", "known", "made", "failed", "writes"}
        /\ "msg" \in DOMAIN r => "msg" \in DOMAIN s /\ s.msg = r.msg
    BY <1>4, <2>1 DEF With
  <2>5. FoundSound(s)
    BY <1>4, <2>3 DEF FoundSound, SourceSet
  <2>6. hits \subseteq r.hits /\ \A f \in hits : f.source \notin failed
    BY <1>5 DEF KeptHits, Of
  <2>7. 0 <= Cardinality(made) /\ Cardinality(made) \in Nat
    BY <1>4, <1>5, FS_Subset, FS_CardinalityType DEF FoundSound
  <2>8. DraftSound(s)
    <3>1. hits \cup made \subseteq r.found /\ hits \cap made = {} /\ hits \cup made # {}
      BY <1>4, <1>5, <1>7, <2>6 DEF MissesSound
    <3>2. failed \subseteq SourceSet(r) \ r.unread
      BY <1>4, <1>5 DEF FoundSound
    <3>3. \A f \in hits \cup made : f.source \notin failed
      BY <1>5, <2>6
    <3>4. \A f \in made : <<KeyOf(r.job, f), f.published>> \notin r.known
      BY <1>4, <1>5 DEF MissesSound, Unknown
    <3> QED
      BY <2>3, <2>7, <3>1, <3>2, <3>3, <3>4 DEF DraftSound, SourceSet, Unknown
  <2>9. Drafting(s)
    BY <1>4, <1>5, <2>3, <2>4, <2>5, <2>8 DEF Drafting, DraftFields, MaterializeFields, LookupFields,
                                             DiscoverFields, ForJob, Holds
  <2>10. Works(w, s)
    BY <1>3, <2>4, <2>9 DEF Works, InRun, WithMessage
  <2> QED
    BY <1>2, <2>2, <2>10, LocalStep, MessagesStand DEF CommunitySound
<1> QED
  BY <1>6, <1>7

LEMMA StoreSound ==
    ASSUME CommunitySound, NEW w \in Workers, Store(w)
    PROVE  CommunitySound'
<1>1. PICK r : r = workers[w]
  OBVIOUS
<1>2. PICK new, s :
          /\ new = {f \in r.made : \A e \in cache : e.key # KeyOf(r.job, f)}
          /\ s = [r EXCEPT !.pc = "publish", !.writes = Cardinality(new)]
  OBVIOUS
<1>3. /\ r.pc = "store" /\ Go(w, s) /\ UNCHANGED messages
      /\ now' = now /\ upstream' = upstream /\ reports' = reports
      /\ cache' = cache \cup
            {[key |-> KeyOf(r.job, f), published |-> f.published,
              expires |-> ExpiresAt(f.published), topics |-> f \in r.topical] : f \in new}
      /\ stored' = stored \cup {<<KeyOf(r.job, f), f.published>> : f \in new}
  BY <1>1, <1>2 DEF Store, At, environment
<1>4. Drafting(r) /\ (w = "lambda" => WithMessage(r))
  BY <1>1, <1>3, Phases DEF CommunitySound, WorkersSound
<1>5. /\ DOMAIN r \ {"msg"} = {"pc", "job", "asOf", "expired", "unread", "found",
                               "hits", "topical", "known", "made", "failed", "writes"}
      /\ r.job \in StrategyJobs /\ FoundSound(r) /\ DraftSound(r)
  BY <1>4 DEF Drafting, DraftFields, MaterializeFields, LookupFields, DiscoverFields, ForJob, Holds
<1>6. /\ s.pc = "publish" /\ s.writes = Cardinality(new) /\ DOMAIN s = DOMAIN r
      /\ s.job = r.job /\ s.unread = r.unread /\ s.found = r.found
      /\ s.hits = r.hits /\ s.known = r.known /\ s.made = r.made /\ s.failed = r.failed
      /\ "msg" \in DOMAIN r => s.msg = r.msg
  BY <1>2, <1>5
<1>7. Cardinality(new) <= Cardinality(r.made) /\ Cardinality(new) \in Nat
  <2>1. r.made \subseteq r.found /\ IsFiniteSet(r.found)
    BY <1>5 DEF FoundSound, DraftSound
  <2>2. new \subseteq r.made /\ IsFiniteSet(r.made)
    BY <1>2, <2>1, FS_Subset
  <2> QED
    BY <2>2, FS_Subset, FS_CardinalityType
<1>8. FoundSound(s) /\ DraftSound(s)
  BY <1>5, <1>6, <1>7 DEF FoundSound, DraftSound, SourceSet, Unknown
<1>9. Drafting(s)
  BY <1>5, <1>6, <1>8 DEF Drafting, DraftFields, MaterializeFields, LookupFields, DiscoverFields,
                         ForJob, Holds
<1>10. Works(w, s)
  BY <1>4, <1>6, <1>9 DEF Works, InRun, WithMessage
<1>11. Retained'
  <2> SUFFICES ASSUME NEW x \in stored'
               PROVE  /\ x[2] \in Int
                      /\ x[2] + Retention > now =>
                           \E e \in cache' : e.key = x[1] /\ e.expires = x[2] + Retention
    BY <1>3 DEF Retained
  <2>1. CASE x \in stored
    BY <1>3, <2>1 DEF CommunitySound, Retained
  <2>2. CASE x \notin stored
    <3>1. PICK f \in new : x = <<KeyOf(r.job, f), f.published>>
      BY <1>3, <2>2
    <3>2. x[1] = KeyOf(r.job, f) /\ x[2] = f.published /\ f \in r.found
      BY <1>2, <1>5, <3>1 DEF DraftSound
    <3>3. f.published \in Int
      BY <1>5, <3>2 DEF FoundSound
    <3>4. PICK e : e = [key |-> KeyOf(r.job, f), published |-> f.published,
                        expires |-> ExpiresAt(f.published), topics |-> f \in r.topical]
      OBVIOUS
    <3>5. e \in cache'
      BY <1>3, <3>1, <3>4, Zenon
    <3>6. e.key = x[1] /\ e.expires = x[2] + Retention
      BY <3>2, <3>4 DEF ExpiresAt
    <3> QED
      BY <3>2, <3>3, <3>5, <3>6
  <2> QED
    BY <2>1, <2>2
<1>12. ReportsKept /\ ReportsSound' /\ WorldSound'
  BY <1>3 DEF ReportsKept, CommunitySound, ReportsSound, EvidenceIsSound, WorldSound
<1>13. now \in Nat /\ now <= now
  BY TodayIsNatural DEF CommunitySound
<1>14. Works(w, s)'
  BY <1>3, <1>10, <1>12, <1>13, WorksStays
<1>15. WorkersSound'
  BY <1>3, <1>12, <1>13, <1>14, WorkersStay DEF CommunitySound
<1> QED
  BY <1>3, <1>11, <1>12, <1>15, MessagesStand DEF CommunitySound

-----------------------------------------------------------------------------
(* Publication.                                                            *)

LEMMA DisjointUnion ==
    ASSUME NEW S, NEW T, IsFiniteSet(S), IsFiniteSet(T), S \cap T = {}
    PROVE  /\ Cardinality(S) \in Nat /\ Cardinality(T) \in Nat
           /\ Cardinality(S \cup T) = Cardinality(S) + Cardinality(T)
<1>1. Cardinality(S) \in Nat /\ Cardinality(T) \in Nat
  BY FS_CardinalityType
<1>2. Cardinality(S \cup T) = Cardinality(S) + Cardinality(T) - Cardinality(S \cap T)
  BY FS_Union
<1>3. Cardinality(S \cap T) = 0
  BY FS_EmptySet
<1> QED
  BY <1>1, <1>2, <1>3

(* The counts of a draft: CollectionCoverage ...                           *)
LEMMA CoverageIsAccepted ==
    ASSUME NEW r, Drafting(r)
    PROVE  CoverageAccepted(r)
<1>1. r.job.strategy \in ToSet(Strategies) /\ FoundSound(r) /\ DraftSound(r)
  BY JobKinds DEF Drafting, ForJob
<1>2. PICK S, n : S = SourceSet(r) /\ n = Len(SourcesOf[r.job.strategy])
  OBVIOUS
<1>3. IsFiniteSet(S) /\ Cardinality(S) = n /\ n \in Nat
  BY <1>1, <1>2, ManifestIsFinite DEF SourceSet
<1>4. r.unread \subseteq S /\ r.failed \subseteq S /\ r.unread \cap r.failed = {}
  BY <1>1, <1>2 DEF FoundSound, DraftSound
<1>5. IsFiniteSet(r.unread) /\ IsFiniteSet(r.failed)
  BY <1>3, <1>4, FS_Subset
<1>6. /\ Cardinality(r.unread) \in Nat /\ Cardinality(r.failed) \in Nat
      /\ Cardinality(r.unread \cup r.failed) = Cardinality(r.unread) + Cardinality(r.failed)
  BY <1>4, <1>5, DisjointUnion
<1>7. PICK f \in r.hits \cup r.made : f.source \in S \ (r.unread \cup r.failed)
  BY <1>1, <1>2 DEF FoundSound, DraftSound
<1>8. r.unread \cup r.failed \subseteq S /\ r.unread \cup r.failed # S
  BY <1>4, <1>7
<1>9. /\ Cardinality(r.unread \cup r.failed) <= Cardinality(S)
      /\ Cardinality(S) = Cardinality(r.unread \cup r.failed) => S = r.unread \cup r.failed
  BY <1>3, <1>8, FS_Subset
<1>10. Cardinality(r.unread \cup r.failed) < n
  BY <1>3, <1>6, <1>8, <1>9
<1> QED
  BY <1>2, <1>3, <1>6, <1>10 DEF CoverageAccepted, Successful

(* ... and ExtractionCacheUsage.                                           *)
LEMMA UsageIsAccepted ==
    ASSUME NEW r, Drafting(r)
    PROVE  UsageAccepted(r)
<1>1. FoundSound(r) /\ DraftSound(r)
  BY DEF Drafting
<1>2. PICK E : E = r.found \ Of(r.found, r.failed)
  OBVIOUS
<1>3. /\ r.hits \cup r.made \subseteq E /\ r.hits \cap r.made = {}
      /\ E \subseteq r.found /\ IsFiniteSet(r.found)
  BY <1>1, <1>2 DEF FoundSound, DraftSound, Of
<1>4. IsFiniteSet(E) /\ IsFiniteSet(r.hits) /\ IsFiniteSet(r.made) /\ IsFiniteSet(r.hits \cup r.made)
  <2>1. IsFiniteSet(E)
    BY <1>3, FS_Subset
  <2> QED
    BY <1>3, <2>1, FS_Subset
<1>5. /\ Cardinality(E) \in Nat /\ Cardinality(r.hits) \in Nat /\ Cardinality(r.made) \in Nat
      /\ Cardinality(r.hits \cup r.made) <= Cardinality(E)
      /\ Cardinality(r.hits \cup r.made) = Cardinality(r.hits) + Cardinality(r.made)
  <2>1. Cardinality(E) \in Nat /\ Cardinality(r.hits \cup r.made) <= Cardinality(E)
    BY <1>3, <1>4, FS_Subset, FS_CardinalityType
  <2> QED
    BY <1>3, <1>4, <2>1, DisjointUnion
<1>6. r.writes \in Nat /\ r.writes <= Cardinality(r.made)
  BY <1>1 DEF DraftSound
<1> QED
  BY <1>2, <1>5, <1>6 DEF UsageAccepted

LEMMA PublishSound ==
    ASSUME CommunitySound, NEW w \in Workers, Publish(w)
    PROVE  CommunitySound'
<1>1. PICK r : r = workers[w]
  OBVIOUS
<1>2. /\ r.pc = "publish" /\ workers[w] # Idle
      /\ now' = now /\ upstream' = upstream /\ cache' = cache /\ stored' = stored
  BY <1>1 DEF Publish, At, Idle, environment
<1>3. Drafting(r) /\ (w = "lambda" => WithMessage(r))
  BY <1>1, <1>2, Phases DEF CommunitySound, WorkersSound
<1>4. "job" \in DOMAIN r /\ r.job \in StrategyJobs /\ FoundSound(r) /\ DraftSound(r)
  BY <1>3 DEF Drafting, ForJob, Holds
<1>5. \/ Fail(w) /\ reports' = reports
      \/ \E evidence \in Evidence(r) : Insert(w, Report(r, evidence)) /\ UNCHANGED messages
  BY <1>1 DEF Publish
<1>6. CASE Fail(w) /\ reports' = reports
  BY <1>2, <1>6, FailSound DEF tables
<1>7. CASE \E evidence \in Evidence(r) : Insert(w, Report(r, evidence)) /\ UNCHANGED messages
  <2>1. PICK evidence \in Evidence(r) : Insert(w, Report(r, evidence)) /\ UNCHANGED messages
    BY <1>7
  <2>2. PICK report : report = [evidence |-> evidence, failures |-> r.unread \cup r.failed]
    OBVIOUS
  <2>3. report = Report(r, evidence) /\ UNCHANGED messages /\ Insert(w, report)
    BY <2>1, <2>2 DEF Report
  <2>4. CASE r.job \in DOMAIN reports
    <3>1. PICK s : s = With(Base(r), [pc |-> "read back"])
      OBVIOUS
    <3>2. Go(w, s) /\ reports' = reports
      BY <1>1, <2>3, <2>4, <3>1 DEF Insert
    <3>3. /\ s.pc = "read back" /\ s.job = r.job /\ DOMAIN s \ {"msg"} = {"pc", "job"}
          /\ "msg" \in DOMAIN r => "msg" \in DOMAIN s /\ s.msg = r.msg
      BY <1>4, <3>1 DEF Base, With
    <3>4. Works(w, s)
      BY <1>3, <1>4, <2>4, <3>3 DEF Works, InRun, ReadingBack, ForJob, Holds, WithMessage
    <3> QED
      BY <1>2, <2>3, <3>2, <3>4, LocalStep, MessagesStand DEF CommunitySound, tables
  <2>5. CASE r.job \notin DOMAIN reports
    <3>1. PICK s : s = Done(r, report)
      OBVIOUS
    <3>2. Go(w, s) /\ reports' = With(reports, [job \in {r.job} |-> report])
      BY <1>1, <2>3, <2>5, <3>1 DEF Insert
    <3>3. /\ DOMAIN reports' = DOMAIN reports \cup {r.job} /\ reports'[r.job] = report
          /\ \A job \in DOMAIN reports : reports'[job] = reports[job]
      BY <2>5, <3>2 DEF With
    <3>4. /\ s.pc = "done" /\ s.job = r.job /\ s.answer = report
          /\ DOMAIN s \ {"msg"} = {"pc", "job", "answer"}
          /\ "msg" \in DOMAIN r => "msg" \in DOMAIN s /\ s.msg = r.msg
      BY <1>4, <3>1 DEF Done, Base, With
    <3>5. Works(w, s)'
      BY <1>3, <1>4, <3>3, <3>4 DEF Works, InRun, Answering, ForJob, Holds, WithMessage
    <3>6. ReportsKept
      BY <3>3 DEF ReportsKept
    <3>7. WorkersSound'
      BY <1>2, <3>2, <3>5, <3>6, WorkersStay, TodayIsNatural DEF CommunitySound
    <3>8. /\ evidence # {} /\ Distinct(evidence)
          /\ \A f \in evidence : InWindow(r.job, f.published) /\ f.source \notin r.unread \cup r.failed
      BY <1>4 DEF Evidence, FoundSound, DraftSound, Distinct
    <3>9. report.evidence = evidence /\ report.failures = r.unread \cup r.failed
      BY <2>2
    <3>10. ReportsSound'
      <4>1. DOMAIN reports' \subseteq StrategyJobs
        BY <1>4, <3>3 DEF CommunitySound, ReportsSound
      <4>2. ASSUME NEW job \in DOMAIN reports'
            PROVE  /\ reports'[job].evidence # {}
                   /\ \A f \in reports'[job].evidence :
                        /\ InWindow(job, f.published)
                        /\ f.source \notin reports'[job].failures
                        /\ \A g \in reports'[job].evidence \ {f} :
                             f.doc # g.doc /\ UrlOf[f.doc] # UrlOf[g.doc]
        <5>1. CASE job = r.job
          BY <3>3, <3>8, <3>9, <5>1 DEF Distinct
        <5>2. CASE job \in DOMAIN reports
          BY <3>3, <5>2 DEF CommunitySound, ReportsSound, EvidenceIsSound
        <5> QED
          BY <3>3, <5>1, <5>2
      <4> QED
        BY <4>1, <4>2 DEF ReportsSound, EvidenceIsSound
    <3>11. Retained' /\ WorldSound'
      BY <1>2 DEF CommunitySound, Retained, WorldSound
    <3> QED
      BY <2>3, <3>7, <3>10, <3>11, MessagesStand DEF CommunitySound
  <2> QED
    BY <2>4, <2>5
<1> QED
  BY <1>5, <1>6, <1>7

LEMMA ReadBackSound ==
    ASSUME CommunitySound, NEW w \in Workers, ReadBack(w)
    PROVE  CommunitySound'
<1>1. PICK r : r = workers[w]
  OBVIOUS
<1>2. PICK s : s = Done(r, reports[r.job])
  OBVIOUS
<1>3. /\ r.pc = "read back" /\ Go(w, s) /\ UNCHANGED messages
      /\ UNCHANGED <<now, upstream, tables>>
  BY <1>1, <1>2 DEF ReadBack, At, environment
<1>4. ReadingBack(r) /\ (w = "lambda" => WithMessage(r))
  BY <1>1, <1>3, Phases DEF CommunitySound, WorkersSound
<1>5. /\ DOMAIN r \ {"msg"} = {"pc", "job"} /\ r.job \in StrategyJobs /\ r.job \in DOMAIN reports
  BY <1>4 DEF ReadingBack, ForJob, Holds
<1>6. /\ s.pc = "done" /\ s.job = r.job /\ s.answer = reports[r.job]
      /\ DOMAIN s \ {"msg"} = {"pc", "job", "answer"}
      /\ "msg" \in DOMAIN r => "msg" \in DOMAIN s /\ s.msg = r.msg
  BY <1>2, <1>5 DEF Done, Base, With
<1>7. Works(w, s)
  BY <1>4, <1>5, <1>6 DEF Works, InRun, Answering, ForJob, Holds, WithMessage
<1> QED
  BY <1>3, <1>7, LocalStep, MessagesStand DEF CommunitySound

-----------------------------------------------------------------------------
LEMMA CommunitySoundAtFirst == Init => CommunitySound
<1> SUFFICES ASSUME Init PROVE CommunitySound
  OBVIOUS
<1>1. /\ now = 0 /\ queue = {} /\ dead = {} /\ reports = <<>> /\ stored = {}
      /\ workers = [w \in Workers |-> Idle]
      /\ upstream = [d \in Documents |-> [title |-> 0, published |-> FirstShown[d]]]
  BY DEF Init
<1>2. WorkersSound
  BY <1>1 DEF WorkersSound, Works
<1>3. WorldSound
  BY <1>1, BoundAssumption, ListingAssumption DEF WorldSound
<1> QED
  BY <1>1, <1>2, <1>3 DEF CommunitySound, MessagesSound, Retained, ReportsSound, EvidenceIsSound

LEMMA CommunitySoundStep == CommunitySound /\ [Next]_vars => CommunitySound'
<1> SUFFICES ASSUME CommunitySound, [Next]_vars PROVE CommunitySound'
  OBVIOUS
<1>1. ASSUME NEW w \in Workers, Step(w) PROVE CommunitySound'
  BY <1>1, CheckSound, PruneSound, DiscoverSound, LookupSound, MaterializeSound, StoreSound,
     PublishSound, ReadBackSound, AcknowledgeSound DEF Step
<1>2. CASE LambdaStep \/ Step("manual")
  BY <1>1, <1>2, ReceiveSound, DispatchSound DEF LambdaStep, Workers
<1>3. CASE \E w \in Workers : Abort(w)
  BY <1>3, AbortSound
<1>4. CASE \E job \in StrategyJobs : RunByHand(job)
  BY <1>4, RunByHandSound
<1>5. CASE \E m \in dead : Redrive(m)
  BY <1>5, RedriveSound
<1>6. CASE NextDay
  BY <1>6, NextDaySound
<1>7. CASE \E d \in Documents : Edit(d)
  BY <1>7, EditSound
<1>8. CASE UNCHANGED vars
  <2>1. UNCHANGED <<now, upstream, tables>> /\ UNCHANGED messages /\ workers' = workers
    BY <1>8 DEF vars, tables, messages
  <2>2. WorkersSound'
    BY <2>1, TablesStand, TodayIsNatural, WorksStays DEF CommunitySound, WorkersSound
  <2> QED
    BY <2>1, <2>2, TablesStand, MessagesStand DEF CommunitySound
<1> QED
  BY <1>2, <1>3, <1>4, <1>5, <1>6, <1>7, <1>8 DEF Next

(* The invariant holds in every state of queue, workers and tables.        *)
LEMMA CommunitySoundAlways == Spec => []CommunitySound
BY CommunitySoundAtFirst, CommunitySoundStep, PTL DEF Spec

(* CollectionCoverage and ExtractionCacheUsage accept the counts of every  *)
(* run, whichever sources failed in either phase of it and whatever other  *)
(* runs stored meanwhile: no paid work is lost to a refused draft.         *)
THEOREM CountsAccepted == Spec => []DraftsAreAccepted
<1>1. CommunitySound => DraftsAreAccepted
  <2> SUFFICES ASSUME CommunitySound, NEW w \in Workers, At(w, "publish")
               PROVE  CoverageAccepted(workers[w]) /\ UsageAccepted(workers[w])
    BY DEF DraftsAreAccepted
  <2>1. Drafting(workers[w])
    BY Phases DEF CommunitySound, WorkersSound, At
  <2> QED
    BY <2>1, CoverageIsAccepted, UsageIsAccepted
<1> QED
  BY <1>1, CommunitySoundAlways, PTL

(* A stored report cites documents of its own window, each once, and none  *)
(* of a source it names as failed, for any listings, limits, failures and  *)
(* edits: _deduplicate_discovered and the failed source keys see to it.    *)
THEOREM CitationsSound == Spec => []EvidenceIsSound
<1>1. CommunitySound => EvidenceIsSound
  BY DEF CommunitySound, ReportsSound
<1> QED
  BY <1>1, CommunitySoundAlways, PTL

(* The Lambda and an operator that run one job at the same time answer     *)
(* with the same stored report, whoever inserted it (insert_report and     *)
(* get_report_for_date).                                                   *)
THEOREM AnswersAgree == Spec => []OneAnswerPerJob
<1>1. CommunitySound => OneAnswerPerJob
  <2> SUFFICES ASSUME CommunitySound, NEW w \in Workers, At(w, "done")
               PROVE  /\ workers[w].job \in DOMAIN reports
                      /\ workers[w].answer = reports[workers[w].job]
    BY DEF OneAnswerPerJob
  <2>1. Answering(workers[w])
    BY Phases DEF CommunitySound, WorkersSound, At
  <2> QED
    BY <2>1 DEF Answering
<1> QED
  BY <1>1, CommunitySoundAlways, PTL

(* Nothing is extracted, and paid for, that an earlier run stored and that *)
(* extraction_cache_retention_days retains for the window of this one.     *)
THEOREM NothingPaidTwice == Spec => []ExtractedOnce
<1>1. CommunitySound => ExtractedOnce
  <2> SUFFICES ASSUME CommunitySound, NEW w \in Workers, At(w, "store"),
                      NEW f \in workers[w].made
               PROVE  <<KeyOf(workers[w].job, f), f.published>> \notin workers[w].known
    BY DEF ExtractedOnce
  <2>1. Drafting(workers[w])
    BY Phases DEF CommunitySound, WorkersSound, At
  <2> QED
    BY <2>1 DEF Drafting, DraftSound, Unknown
<1> QED
  BY <1>1, CommunitySoundAlways, PTL

(* A published report is final: insert_report never replaces a row, and    *)
(* nothing else writes relay_community_reports.                            *)
THEOREM PublishedIsFinal == Spec => ReportsAreFinal
<1> DEFINE Final == \A job \in DOMAIN reports :
                      /\ job \in DOMAIN reports'
                      /\ reports'[job] = reports[job]
<1>1. ASSUME NEW w, NEW report, Insert(w, report) PROVE Final
  BY <1>1 DEF Insert, With
<1>2. ASSUME NEW w, Step(w) PROVE Final
  <2>1. CASE Publish(w)
    BY <1>1, <2>1 DEF Publish
  <2>2. CASE ~Publish(w)
    <3>1. reports' = reports
      BY <1>2, <2>2 DEF Step, Check, Prune, Discover, Lookup, Materialize, Store, ReadBack,
                        Acknowledge, tables
    <3> QED
      BY <3>1
  <2> QED
    BY <2>1, <2>2
<1>3. [Next]_vars => [Final]_vars
  <2> SUFFICES ASSUME Next PROVE Final
    OBVIOUS
  <2>1. CASE \E w : Step(w)
    BY <1>2, <2>1
  <2>2. CASE ~ \E w : Step(w)
    <3>1. reports' = reports
      BY <2>2 DEF Next, LambdaStep, Receive, Dispatch, Abort, RunByHand, Redrive, NextDay, Edit, tables
    <3> QED
      BY <3>1
  <2> QED
    BY <2>1, <2>2
<1> QED
  BY <1>3, PTL DEF Spec, ReportsAreFinal

=============================================================================
