-------------------------- MODULE CommunityReports --------------------------
(***************************************************************************)
(* The daily community report of every active strategy:                    *)
(*                                                                         *)
(*   Scheduler -> community queue -> community Lambda -> one strategy job  *)
(*     per strategy -> discovery, extraction cache, model -> one report    *)
(*                                                                         *)
(* The Lambda (lambda_community.py, reserved concurrency one) takes jobs   *)
(* from a standard SQS queue; an operator may run the same job by hand     *)
(* (fpl-relay community run) at the same time.  CommunityService.run is    *)
(* modelled call by call, so that the two interleave and each may stop     *)
(* between any two calls.  Time is in days; what a document says is the    *)
(* revision of it that a provider shows.                                   *)
(***************************************************************************)
EXTENDS Integers, Sequences, SequencesExt

CONSTANTS
    Strategies,   \* keys of the active strategies, in the order of the manifest
    SourcesOf,    \* the configured sources of a strategy, in order
    TypeOf,       \* the type of a source
    Lists,        \* the documents a source's provider lists, in order
    MaxDocuments, \* how many documents are taken from a source
    UrlOf,        \* the canonical URL of a document
    Lookback,     \* lookback_days
    Retention,    \* extraction_cache_retention_days
    MaxReceives,  \* maxReceiveCount of the redrive policy
    MaxDay,       \* bound on time
    FirstShown,   \* publication time of a document, before it is changed
    MaxFaults,    \* bound: failures from outside
    MaxEdits,     \* bound: changes of documents
    MaxManual,    \* bound: runs by hand
    MaxRedrives   \* bound: redrives from the dead-letter queue

Sources == UNION {ToSet(SourcesOf[s]) : s \in ToSet(Strategies)}
Documents == UNION {ToSet(Lists[s]) : s \in Sources}
Days == 1..MaxDay
Workers == {"lambda", "manual"}

(* CommunityStrategyDefinition.validate_strategy.                          *)
ASSUME StrategyAssumption ==
    /\ Lookback \in Nat \ {0} /\ Retention \in Nat /\ Retention > Lookback
    /\ Strategies \in Seq(ToSet(Strategies)) /\ IsInjective(Strategies)
    /\ \A s \in ToSet(Strategies) :
         /\ SourcesOf[s] \in Seq(Sources) \ {<<>>}
         /\ IsInjective(SourcesOf[s])
    /\ \A s \in Sources : TypeOf[s] \in {"x", "youtube", "blog"}

(* What publishers have.                                                   *)
ASSUME ListingAssumption ==
    /\ \A s \in Sources : Lists[s] \in Seq(Documents)
    /\ \A d \in Documents : FirstShown[d] \in Int

ASSUME BoundAssumption ==
    {MaxReceives, MaxDay, MaxFaults, MaxEdits, MaxManual, MaxRedrives} \subseteq Nat

VARIABLES
    now,       \* the day
    upstream,  \* what the providers show of a document: title and publication time
    queue,     \* messages: job and receive count
    dead,      \* the dead-letter queue
    workers,   \* what each worker is doing
    cache,     \* relay_community_extraction_cache
    reports,   \* relay_community_reports
    stored,    \* history: every key and publication time ever extracted
    budget     \* what is left of the bounds

vars == <<now, upstream, queue, dead, workers, cache, reports, stored, budget>>
environment == <<now, upstream, budget>>
messages == <<queue, dead>>
tables == <<cache, reports, stored>>

-----------------------------------------------------------------------------
(* Jobs and the queue.                                                     *)

DispatchJob(day) == [kind |-> "community_dispatch", day |-> day]

(* build_strategy_jobs: the window is [day - Lookback, day).               *)
StrategyJob(s, day) == [kind |-> "community_strategy", strategy |-> s, day |-> day]

StrategyJobs == {StrategyJob(s, d) : s \in ToSet(Strategies), d \in Days}

InWindow(job, time) == job.day - Lookback <= time /\ time < job.day

(* Two waiting messages that were received as often and carry the same job *)
(* count as one.                                                           *)
Sent(job) == queue \cup {[job |-> job, receives |-> 0]}

Idle == [pc |-> "idle"]

Go(w, r) == workers' = [workers EXCEPT ![w] = r]

(* A step in which something goes wrong outside spends one fault.          *)
Incident(happens) ==
    IF happens THEN budget.faults > 0 /\ budget' = [budget EXCEPT !.faults = @ - 1]
    ELSE UNCHANGED budget

(* A failed or killed invocation does not delete its message: it is        *)
(* received again after its visibility timeout, up to MaxReceives times.   *)
Returned(w) ==
    IF w = "lambda" /\ workers[w].msg.receives >= MaxReceives
    THEN queue' = queue \ {workers[w].msg} /\ dead' = dead \cup {workers[w].msg}
    ELSE UNCHANGED messages

Fail(w) == Go(w, Idle) /\ Returned(w)

(* Any step may fail: provider and model errors, a rejected answer, the    *)
(* database, a missing season, the time limit of the invocation.           *)
Abort(w) ==
    /\ workers[w] # Idle
    /\ Go(w, Idle)
    /\ Incident(TRUE)
    /\ Returned(w)
    /\ UNCHANGED <<now, upstream, tables>>

Receive(m) ==
    /\ workers["lambda"] = Idle
    /\ m \in queue
    /\ LET taken == [m EXCEPT !.receives = @ + 1]
       IN  /\ queue' = (queue \ {m}) \cup {taken}
           /\ Go("lambda",
                 IF m.job.kind = "community_dispatch"
                 THEN [pc |-> "dispatch", msg |-> taken, todo |-> Strategies]
                 ELSE [pc |-> "check", msg |-> taken, job |-> m.job])
    /\ UNCHANGED <<dead, environment, tables>>

(* One send_message per active strategy, in order.                         *)
Dispatch ==
    LET r == workers["lambda"]
    IN  /\ r.pc = "dispatch" /\ r.todo # <<>>
        /\ queue' = Sent(StrategyJob(Head(r.todo), r.msg.job.day))
        /\ Go("lambda", [r EXCEPT !.todo = Tail(@)])
        /\ UNCHANGED <<dead, environment, tables>>

(* Mutant: the message is deleted when its first job is sent.              *)
FinishedEarly(r) == r.pc = "done" \/ (r.pc = "dispatch" /\ r.todo # Strategies)

Finished(r) == r.pc = "done" \/ (r.pc = "dispatch" /\ r.todo = <<>>)

(* The handler returned: Lambda deletes the message.                       *)
Acknowledge(w) ==
    /\ Finished(workers[w])
    /\ queue' = IF w = "lambda" THEN queue \ {workers[w].msg} ELSE queue
    /\ Go(w, Idle)
    /\ UNCHANGED <<dead, environment, tables>>

(* fpl-relay community run, for a day that has begun.                      *)
RunByHand(job) ==
    /\ workers["manual"] = Idle
    /\ job.day <= now
    /\ budget.manual > 0
    /\ budget' = [budget EXCEPT !.manual = @ - 1]
    /\ Go("manual", [pc |-> "start", job |-> job])
    /\ UNCHANGED <<now, upstream, messages, tables>>

Redrive(m) ==
    /\ m \in dead
    /\ budget.redrives > 0
    /\ budget' = [budget EXCEPT !.redrives = @ - 1]
    /\ dead' = dead \ {m}
    /\ queue' = queue \cup {[m EXCEPT !.receives = 0]}
    /\ UNCHANGED <<now, upstream, workers, tables>>

-----------------------------------------------------------------------------
(* CommunityService.run.  A failed step is Fail or Abort.                  *)

At(w, pc) == workers[w].pc = pc

(* The fields of both, the first's where they have the same.               *)
With(r, more) ==
    [x \in DOMAIN r \cup DOMAIN more |-> IF x \in DOMAIN r THEN r[x] ELSE more[x]]

Base(r) == [x \in DOMAIN r \cap {"msg", "job"} |-> r[x]]

Done(r, report) == With(Base(r), [pc |-> "done", answer |-> report])

(* process_job and run each look for an existing report.                   *)
Check(w) ==
    LET r == workers[w]
    IN  /\ r.pc \in {"check", "start"}
        /\ Go(w, IF r.job \in DOMAIN reports THEN Done(r, reports[r.job])
                 ELSE IF r.pc = "check" THEN [r EXCEPT !.pc = "start"]
                 ELSE With(Base(r), [pc |-> "prune", asOf |-> now]))
        /\ UNCHANGED <<messages, environment, tables>>

Expired(asOf) == {e \in cache : e.expires <= asOf}

Prune(w) ==
    LET r == workers[w]
    IN  /\ At(w, "prune")
        /\ cache' = cache \ Expired(r.asOf)
        /\ Go(w, With([r EXCEPT !.pc = "discover"], [expired |-> Cardinality(Expired(r.asOf))]))
        /\ UNCHANGED <<messages, environment, reports, stored>>

(* The revision hashes what a provider's listing shows of the content: the *)
(* text of a post, the title of a video, but a blog entry's publication    *)
(* time as well.                                                           *)
Revision(source, d) ==
    IF TypeOf[source] = "blog" THEN <<upstream[d].title, upstream[d].published>>
    ELSE <<upstream[d].title>>

(* The positions of what a source's provider lists, and lists of the window. *)
Listed(source) == DOMAIN Lists[source]

PublishedAt(source, i) == upstream[Lists[source][i]].published

Shown(job, source) == {i \in Listed(source) : InWindow(job, PublishedAt(source, i))}

FirstOf(positions, limit) ==
    {i \in positions : Cardinality({j \in positions : j < i}) < limit}

(* The timeline of the window, up to max_documents posts.                  *)
DiscoveredPosts(job, source) == FirstOf(Shown(job, source), MaxDocuments[source])

(* Up to max_videos are searched from one second before the window, and    *)
(* what their metadata places outside it is left out.                      *)
DiscoveredVideos(job, source) ==
    LET before == {i \in Listed(source) : PublishedAt(source, i) = job.day - Lookback - 1}
    IN  FirstOf(Shown(job, source) \cup before, MaxDocuments[source]) \cap Shown(job, source)

(* The entries of the feed that are in the window, up to max_articles.     *)
DiscoveredArticles(job, source) == FirstOf(Shown(job, source), MaxDocuments[source])

Discovered(job, source) ==
    CASE TypeOf[source] = "x" -> DiscoveredPosts(job, source)
      [] TypeOf[source] = "youtube" -> DiscoveredVideos(job, source)
      [] OTHER -> DiscoveredArticles(job, source)

Document(source, i) ==
    LET d == Lists[source][i]
    IN  [source |-> source, doc |-> d, published |-> upstream[d].published,
         revision |-> Revision(source, d)]

(* Mutant: documents are only compared by their own identity.              *)
SameDocumentById(f, g) == f.doc = g.doc /\ f.source = g.source

(* The same provider-native identity, or the same canonical URL.           *)
SameDocument(f, g) == f.doc = g.doc \/ UrlOf[f.doc] = UrlOf[g.doc]

Earlier(a, b) == a[1] < b[1] \/ (a[1] = b[1] /\ a[2] < b[2])

(* _deduplicate_discovered: the first source that lists a document has it. *)
(* What has one identity has one URL here, so that the first of all that   *)
(* are the same document is the one that is kept.                          *)
Deduplicated(sources, results) ==
    LET listed == UNION {{n} \X results[n] : n \in DOMAIN sources}
        Located(at) == Document(sources[at[1]], at[2])
    IN  {Located(at) : at \in {b \in listed :
            \A a \in listed : Earlier(a, b) => ~SameDocument(Located(a), Located(b))}}

(* _discover_sources: the sources are read concurrently and some fail.     *)
Discover(w) ==
    LET r == workers[w]
        sources == SourcesOf[r.job.strategy]
    IN  /\ At(w, "discover")
        /\ \E unread \in SUBSET ToSet(sources) :
             LET results == [n \in DOMAIN sources |->
                               IF sources[n] \in unread THEN {}
                               ELSE Discovered(r.job, sources[n])]
                 found == Deduplicated(sources, results)
             IN  /\ Incident(unread # {})
                 /\ IF found = {} THEN Fail(w)
                    ELSE /\ Go(w, With([r EXCEPT !.pc = "lookup"],
                                       [unread |-> unread, found |-> found]))
                         /\ UNCHANGED messages
        /\ UNCHANGED <<now, upstream, tables>>

KeyOf(job, f) == [strategy |-> job.strategy, source |-> f.source, doc |-> f.doc,
                  revision |-> f.revision]

(* get_entries: unexpired rows of exactly these revisions.                 *)
Entries(r) ==
    {e \in cache : e.expires > r.asOf /\ \E f \in r.found : KeyOf(r.job, f) = e.key}

(* _validated_cache_hits: a row that disagrees with the discovered         *)
(* document fails the job.  known is history: the keys that were stored    *)
(* before, on a day on which they are retained.                            *)
Lookup(w) ==
    LET r == workers[w]
        entryOf(f) == {e \in Entries(r) : e.key = KeyOf(r.job, f)}
        hits == {f \in r.found : entryOf(f) # {}}
    IN  /\ At(w, "lookup")
        /\ IF \E f \in hits : \E e \in entryOf(f) : e.published # f.published
           THEN Fail(w)
           ELSE /\ Go(w, With([r EXCEPT !.pc = "materialize"],
                              [hits |-> hits,
                               topical |-> {f \in hits : \E e \in entryOf(f) : e.topics},
                               known |-> IF now < r.job.day + Retention - Lookback
                                         THEN stored ELSE {}]))
                /\ UNCHANGED messages
        /\ UNCHANGED <<environment, tables>>

Of(found, sources) == {f \in found : f.source \in sources}

(* Mutant: cache hits of a source that fails later are kept.               *)
KeptHitsOfAll(r, failed) == r.hits

KeptHits(r, failed) == r.hits \ Of(r.hits, failed)

(* Materialization of a source's misses: a post needs no request; a channel *)
(* fails as a whole, and videos without native captions are left out; an   *)
(* article that cannot be read is left out.                                *)
NothingLost == [failed |-> FALSE, excluded |-> {}]

PostOutcomes(misses) == {NothingLost}

VideoOutcomes(misses) ==
    {[failed |-> TRUE, excluded |-> {}]} \cup
    {[failed |-> FALSE, excluded |-> e] : e \in SUBSET misses}

ArticleOutcomes(misses) == {[failed |-> FALSE, excluded |-> e] : e \in SUBSET misses}

Outcomes(source, misses) ==
    CASE TypeOf[source] = "x" -> PostOutcomes(misses)
      [] TypeOf[source] = "youtube" -> VideoOutcomes(misses)
      [] OTHER -> ArticleOutcomes(misses)

(* The model names topics, or none, for every document it is given.        *)
Extractions(made) == SUBSET made

(* _materialize_sources and extract: a source that fails takes its cache   *)
(* hits with it.                                                           *)
Materialize(w) ==
    LET r == workers[w]
        misses == r.found \ r.hits
        requested == {f.source : f \in misses}
    IN  /\ At(w, "materialize")
        /\ \E outcome \in [requested -> UNION {Outcomes(s, Of(misses, {s})) : s \in requested}] :
             LET failed == {s \in requested : outcome[s].failed}
                 made == {f \in misses : f.source \notin failed
                                         /\ f \notin outcome[f.source].excluded}
                 hits == KeptHits(r, failed)
             IN  /\ \A s \in requested : outcome[s] \in Outcomes(s, Of(misses, {s}))
                 /\ \E topical \in Extractions(made) :
                    /\ Incident(made # misses \/ topical # made)
                    /\ IF made \cup hits = {} THEN Fail(w)
                       ELSE /\ Go(w, With([r EXCEPT !.pc = IF made = {} THEN "publish" ELSE "store",
                                                    !.hits = hits,
                                                    !.topical = (@ \cap hits) \cup topical],
                                          [made |-> made, failed |-> failed, writes |-> 0]))
                            /\ UNCHANGED messages
        /\ UNCHANGED <<now, upstream, tables>>

(* Mutant: a row expires with the window it was made for.                  *)
ExpiresWithWindow(published) == published + Lookback

ExpiresAt(published) == published + Retention

(* insert_entries: ON CONFLICT DO NOTHING.                                 *)
Store(w) ==
    LET r == workers[w]
        new == {f \in r.made : \A e \in cache : e.key # KeyOf(r.job, f)}
    IN  /\ At(w, "store")
        /\ cache' = cache \cup
              {[key |-> KeyOf(r.job, f), published |-> f.published,
                expires |-> ExpiresAt(f.published), topics |-> f \in r.topical] : f \in new}
        /\ stored' = stored \cup {<<KeyOf(r.job, f), f.published>> : f \in new}
        /\ Go(w, [r EXCEPT !.pc = "publish", !.writes = Cardinality(new)])
        /\ UNCHANGED <<messages, environment, reports>>

(* Mutant: the sources that failed in materialization still count.         *)
SuccessfulAtDiscovery(r) == Len(SourcesOf[r.job.strategy]) - Cardinality(r.unread)

Successful(r) ==
    Len(SourcesOf[r.job.strategy]) - Cardinality(r.unread \cup r.failed)

(* CollectionCoverage and ExtractionCacheUsage, which refuse inconsistent  *)
(* counts.                                                                 *)
CoverageAccepted(r) ==
    /\ Successful(r) >= 1
    /\ Successful(r) + Cardinality(r.unread) + Cardinality(r.failed)
          = Len(SourcesOf[r.job.strategy])

UsageAccepted(r) ==
    LET eligible == Cardinality(r.found \ Of(r.found, r.failed))
        misses == eligible - Cardinality(r.hits)
    IN  misses >= 0 /\ r.writes <= misses

Report(r, evidence) ==
    [evidence |-> evidence, failures |-> r.unread \cup r.failed]

(* Mutant: ON CONFLICT DO UPDATE.                                          *)
InsertOver(w, report) ==
    LET r == workers[w]
    IN  /\ reports' = With([job \in {r.job} |-> report], reports)
        /\ Go(w, Done(r, report))

(* insert_report: ON CONFLICT DO NOTHING RETURNING the inserted row.       *)
Insert(w, report) ==
    LET r == workers[w]
    IN  IF r.job \in DOMAIN reports
        THEN Go(w, With(Base(r), [pc |-> "read back"])) /\ UNCHANGED reports
        ELSE /\ reports' = With(reports, [job \in {r.job} |-> report])
             /\ Go(w, Done(r, report))

(* The candidates cite documents they were given; one that cites others    *)
(* fails the job, one without a canonical entity is dropped.               *)
Evidence(r) == (SUBSET (r.hits \cup r.made)) \ {{}}

(* Synthesis over all topics, ranking and publication.                     *)
Publish(w) ==
    LET r == workers[w]
    IN  /\ At(w, "publish")
        /\ IF r.topical = {} \/ ~CoverageAccepted(r) \/ ~UsageAccepted(r)
           THEN Fail(w) /\ UNCHANGED reports
           ELSE /\ \E evidence \in Evidence(r) : Insert(w, Report(r, evidence))
                /\ UNCHANGED messages
        /\ UNCHANGED <<environment, cache, stored>>

(* Mutant: the worker answers with its own draft.                          *)
AnswerWithDraft(w) ==
    /\ At(w, "read back")
    /\ Go(w, Done(workers[w], [evidence |-> {}, failures |-> {}]))
    /\ UNCHANGED <<messages, environment, tables>>

ReadBack(w) ==
    /\ At(w, "read back")
    /\ Go(w, Done(workers[w], reports[workers[w].job]))
    /\ UNCHANGED <<messages, environment, tables>>

Step(w) == \/ Check(w) \/ Prune(w) \/ Discover(w) \/ Lookup(w) \/ Materialize(w)
           \/ Store(w) \/ Publish(w) \/ ReadBack(w) \/ Acknowledge(w)

-----------------------------------------------------------------------------
(* The scheduler dispatches every day at the start of that day.            *)
NextDay ==
    /\ now < MaxDay
    /\ now' = now + 1
    /\ queue' = Sent(DispatchJob(now + 1))
    /\ UNCHANGED <<upstream, dead, workers, tables, budget>>

(* A publisher changes the title or text of a document, or its time (a     *)
(* premiere).                                                              *)
Edit(d) ==
    /\ budget.edits > 0
    /\ budget' = [budget EXCEPT !.edits = @ - 1]
    /\ \/ upstream' = [upstream EXCEPT ![d].title = @ + 1]
       \/ upstream' = [upstream EXCEPT ![d].published = now]
    /\ UNCHANGED <<now, messages, workers, tables>>

Init ==
    /\ now = 0
    /\ upstream = [d \in Documents |-> [title |-> 0, published |-> FirstShown[d]]]
    /\ queue = {} /\ dead = {}
    /\ workers = [w \in Workers |-> Idle]
    /\ cache = {} /\ reports = <<>> /\ stored = {}
    /\ budget = [faults |-> MaxFaults, edits |-> MaxEdits, manual |-> MaxManual, redrives |-> MaxRedrives]

LambdaStep == (\E m \in queue : Receive(m)) \/ Dispatch \/ Step("lambda")

Next ==
    \/ LambdaStep \/ Step("manual")
    \/ \E w \in Workers : Abort(w)
    \/ \E job \in StrategyJobs : RunByHand(job)
    \/ \E m \in dead : Redrive(m)
    \/ NextDay
    \/ \E d \in Documents : Edit(d)

Spec == Init /\ [][Next]_vars

(* Lambda polls the queue and its invocations end; nothing else is fair.   *)
FairSpec == Spec /\ WF_vars(LambdaStep)
-----------------------------------------------------------------------------
Found == [source : Sources, doc : Documents, published : Int, revision : Seq(Int)]

(* Type invariant: jobs, rows and what each worker holds are well-formed,  *)
(* and the Lambda's message is in the queue while it works on it.          *)
TypeOK ==
    /\ now \in 0..MaxDay
    /\ \A m \in queue \cup dead :
         /\ m.job \in StrategyJobs \cup {DispatchJob(d) : d \in Days}
         /\ m.receives \in 0..MaxReceives
    /\ workers["lambda"] # Idle => workers["lambda"].msg \in queue
    /\ \A w \in Workers : "found" \in DOMAIN workers[w] => workers[w].found \subseteq Found
    /\ \A e \in cache : <<e.key, e.published>> \in stored
    /\ DOMAIN reports \subseteq StrategyJobs

(* The paid work of a run is never thrown away by its own bookkeeping:     *)
(* whatever failed, in whichever phase, and whatever another run stored    *)
(* meanwhile, the validators accept the counts of the report.              *)
DraftsAreAccepted ==
    \A w \in Workers : At(w, "publish") =>
        CoverageAccepted(workers[w]) /\ UsageAccepted(workers[w])

(* A report rests on documents of its own window, each counted once, and   *)
(* none from a source it names as failed, though cached topics of such a   *)
(* source were at hand.                                                    *)
EvidenceIsSound ==
    \A job \in DOMAIN reports :
        /\ reports[job].evidence # {}
        /\ \A f \in reports[job].evidence :
             /\ InWindow(job, f.published)
             /\ f.source \notin reports[job].failures
             /\ \A g \in reports[job].evidence \ {f} :
                  f.doc # g.doc /\ UrlOf[f.doc] # UrlOf[g.doc]

(* Whoever runs a job, however often and at the same time as another,      *)
(* answers with the one report that is stored for it.                      *)
OneAnswerPerJob ==
    \A w \in Workers : At(w, "done") =>
        /\ workers[w].job \in DOMAIN reports
        /\ workers[w].answer = reports[workers[w].job]

(* A published report is final: a duplicate, late or redriven run of its   *)
(* job neither replaces nor removes it.                                    *)
ReportsAreFinal == [][\A job \in DOMAIN reports :
                        /\ job \in DOMAIN reports'
                        /\ reports'[job] = reports[job]]_vars

(* A revision whose extraction was stored is not sent to the model again   *)
(* by a run of the days on which it is retained: neither a retry after a   *)
(* later failure nor the next days' reports pay for it twice.              *)
ExtractedOnce ==
    \A w \in Workers : At(w, "store") =>
        \A f \in workers[w].made :
            <<KeyOf(workers[w].job, f), f.published>> \notin workers[w].known

Dead(body) == \E m \in dead : m.job = body

(* Every strategy gets its daily report, or a job that should produce it   *)
(* waits in the dead-letter queue (which an alarm reports), although the   *)
(* dispatch may stop half-way and be repeated.                             *)
EveryStrategyIsServed ==
    \A job \in StrategyJobs :
        (now >= job.day) ~> (job \in DOMAIN reports \/ Dead(job) \/ Dead(DispatchJob(job.day)))
=============================================================================
