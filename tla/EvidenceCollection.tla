------------------------- MODULE EvidenceCollection -------------------------
(***************************************************************************)
(* One collection of evidence (ops_agent/controller.py, collect_bundle)    *)
(* while the system it looks at goes on: the readiness and summary routes  *)
(* of ApiHealth, Prometheus with the scrapes of the Kafka exporter, and    *)
(* the worker deployment.  The sources are asked one after the other, the  *)
(* Kafka metrics of Prometheus in parallel, and the bundle is judged by    *)
(* HealthEvaluator.                                                        *)
(*                                                                         *)
(* One unit of time is the scrape interval and the step of the range       *)
(* queries (5 seconds).  Every call takes any time; the collector's        *)
(* timeouts are failures that may happen at any moment.                    *)
(***************************************************************************)
EXTENDS ApiHealth, HealthEvaluator

CONSTANTS
  Prober, Reader,   \* the clients through which the collector asks the API
  Partition,      \* the one partition whose series are collected
  ReadinessAge, SampleAge, ResourceAge, SummaryAge,  \* *_max_age_seconds
  Starts            \* situations it may begin in: [down, cluster, schemaReady, lag]

ASSUME CollectionAssumption ==
  /\ {Prober, Reader} \subseteq Clients
  /\ {ReadinessAge, SampleAge, ResourceAge, SummaryAge} \subseteq Nat
  /\ {RequiredStandbys, RequiredSync, AllowedDelay} \subseteq Nat
  /\ \A start \in Starts : start.lag \in Int

VARIABLES
  broker,      \* [end, committed] of the partition
  scrapes,     \* what Prometheus stored of the exporter: [stamp, up, end, committed]
  scraping,    \* the scrape under way, or None
  deployment,  \* the worker deployment
  down,        \* the sources that are down throughout
  run,         \* what the collection has read, and when
  past         \* what held at each time: sets of clusters, lags, deployments

env  == <<broker, scrapes, scraping, deployment, down>>
vars == <<now, surroundings, apiVars, env, run, past>>

Queries == {"end", "committed", "lag"}

-----------------------------------------------------------------------------
(* collectors/application.py                                               *)

\* the context of kubectl, before anything is asked; without one Kubernetes is
\* skipped, and the bundle is not of the scope that the policy judges
GetContext ==
  /\ run.at = "begin"
  /\ \/ run' = [run EXCEPT !.at = "application", !.started = now] /\ UNCHANGED changes
     \/ /\ "kubernetes" \notin down /\ Disturb
        /\ run' = [run EXCEPT !.at = "application", !.started = now, !.context = FALSE]

\* one timestamp, taken before the first call, serves both responses
AskApplication ==
  /\ run.at = "application" /\ "application" \notin down
  /\ AskReadiness(Prober)
  /\ run' = [run EXCEPT !.at = "readiness", !.application = now]
  /\ UNCHANGED surroundings

\* any body of JSON is evidence, also with a 503; the text of a 500 is not
Received(answer) ==
  IF answer.http = 500 THEN [status |-> "ERROR"] ELSE [status |-> "OK", body |-> answer]

ReceiveReadiness ==
  /\ run.at = "readiness"
  /\ TakeAnswer(Prober)
  /\ run' = [run EXCEPT !.at = "summary", !.readiness = Received(request[Prober])]

\* unreachable, or past the total time limit: the API goes on with the request
ReadinessFails ==
  /\ run.at = "readiness"
  /\ Disturb
  /\ run' = [run EXCEPT !.at = "summary", !.readiness = [status |-> "ERROR"]]
  /\ UNCHANGED <<cluster, kafkaUp, schemaReady, apiVars>>

ApplicationDown ==
  /\ run.at = "application" /\ "application" \in down
  /\ run' = [run EXCEPT !.at = "kafka", !.application = now, !.prometheus = now,
                        !.readiness = [status |-> "ERROR"], !.summary = [status |-> "ERROR"]]
  /\ UNCHANGED <<surroundings, apiVars>>

AskForSummary ==
  /\ run.at = "summary"
  /\ AskSummary(Reader)
  /\ run' = [run EXCEPT !.at = "reading"]
  /\ UNCHANGED surroundings

ReceiveSummary ==
  /\ run.at = "reading"
  /\ TakeAnswer(Reader)
  /\ run' = [run EXCEPT !.at = "kafka", !.prometheus = now,
                        !.summary = [status |-> "OK", asOf |-> request[Reader].asOf]]

SummaryFails ==
  /\ run.at = "reading"
  /\ Disturb
  /\ run' = [run EXCEPT !.at = "kafka", !.prometheus = now, !.summary = [status |-> "ERROR"]]
  /\ UNCHANGED <<cluster, kafkaUp, schemaReady, apiVars>>

-----------------------------------------------------------------------------
(* collectors/prometheus.py: per metric a range query, then the timestamps *)
(* of the samples, both evaluated at the time the collection began         *)

\* what an instant query at t answers from the scrapes stored by now
Visible(t) ==
  LET before == {k \in DOMAIN scrapes : scrapes[k].stamp <= t}
  IN  IF before = {} \/ ~scrapes[Max(before)].up THEN None ELSE scrapes[Max(before)]

Grid == (run.prometheus - SampleCount + 1)..run.prometheus

Shown(q, s) ==
  CASE q = "end" -> s.end [] q = "committed" -> s.committed [] q = "lag" -> s.end - s.committed

\* the answer to a range query: the points of the grid where there is a value
RangeOf(q) ==
  LET points == {t \in Grid : Visible(t) # None}
      nth(k) == CHOOSE t \in points : Cardinality({u \in points : u <= t}) = k
      grid == [k \in 1..Cardinality(points) |-> nth(k)]
  IN  [status |-> IF grid = << >> THEN "MISSING" ELSE "OK",
       grid |-> grid, samples |-> [k \in DOMAIN grid |-> Shown(q, Visible(grid[k]))]]

QueryRange(q) ==
  /\ run.at = "kafka" /\ "prometheus" \notin down /\ run.range[q] = None
  /\ run' = [run EXCEPT !.range[q] = RangeOf(q)]
  /\ UNCHANGED changes

NoRange == [status |-> "ERROR", grid |-> << >>, samples |-> << >>]

RangeFails(q) ==
  /\ run.at = "kafka" /\ "prometheus" \notin down /\ run.range[q] = None
  /\ Disturb
  /\ run' = [run EXCEPT !.range[q] = NoRange]

\* mutant: the time of the evaluation is taken for the time of the sample
StampOf_Evaluation ==
  IF Visible(run.prometheus) = None THEN [status |-> "MISSING"]
  ELSE [status |-> "OK", at |-> run.prometheus]

\* the answer to timestamp(...): when the value in sight was scraped
StampOf ==
  IF Visible(run.prometheus) = None THEN [status |-> "MISSING"]
  ELSE [status |-> "OK", at |-> Visible(run.prometheus).stamp]

QueryStamp(q) ==
  /\ run.at = "kafka" /\ "prometheus" \notin down /\ run.range[q] # None /\ run.stamp[q] = None
  /\ run' = [run EXCEPT !.stamp[q] = StampOf]
  /\ UNCHANGED changes

StampFails(q) ==
  /\ run.at = "kafka" /\ "prometheus" \notin down /\ run.range[q] # None /\ run.stamp[q] = None
  /\ Disturb
  /\ run' = [run EXCEPT !.stamp[q] = [status |-> "ERROR"]]

PrometheusDown ==
  /\ run.at = "kafka" /\ "prometheus" \in down
  /\ run' = [run EXCEPT !.at = "kubernetes", !.kubernetes = now,
                        !.range = [q \in Queries |-> NoRange],
                        !.stamp = [q \in Queries |-> [status |-> "ERROR"]]]
  /\ UNCHANGED changes

-----------------------------------------------------------------------------
(* collectors/kubernetes.py, and the end of collect_bundle                 *)

StartKubernetes ==
  /\ run.at = "kafka" /\ \A q \in Queries : run.stamp[q] # None
  /\ run' = [run EXCEPT !.at = "kubernetes", !.kubernetes = now]
  /\ UNCHANGED changes

\* the API server leaves out counts of zero
Normalized(d) ==
  [d EXCEPT !.current = IF @ = 0 THEN None ELSE @, !.available = IF @ = 0 THEN None ELSE @]

NoDeployment == [status |-> "ERROR"]

SkipKubernetes ==
  /\ run.at = "kubernetes" /\ ~run.context
  /\ run' = [run EXCEPT !.at = "build", !.deployment = NoDeployment]
  /\ UNCHANGED changes

GetDeployment ==
  /\ run.at = "kubernetes" /\ run.context /\ "kubernetes" \notin down
  /\ run' = [run EXCEPT !.at = "build", !.deployment = [status |-> "OK", body |-> Normalized(deployment)]]
  /\ UNCHANGED changes

GetDeploymentFails ==
  /\ run.at = "kubernetes" /\ run.context
  /\ IF "kubernetes" \in down THEN UNCHANGED changes ELSE Disturb
  /\ run' = [run EXCEPT !.at = "build", !.deployment = NoDeployment]

\* the raw results are written next to the bundle, one file per source
Complete ==
  /\ run.at = "build"
  /\ \/ run' = [run EXCEPT !.at = "done", !.completed = now] /\ UNCHANGED changes
     \/ Disturb /\ run' = [run EXCEPT !.at = "done", !.completed = now, !.written = FALSE]

-----------------------------------------------------------------------------
(* controller.py: build_bundle_from_results, the evidence items            *)

\* mutant: the age is measured when the source answered
Fresh_AtCollection(at, bound, upstream) == upstream <= bound

\* the age at the end of the collection, and what the source may add to it
Fresh(at, bound, upstream) == run.completed - at + upstream <= bound

Freshness(fresh) == IF fresh THEN "FRESH" ELSE "STALE"

\* an item refers to the raw result, if that could be written
Evidence(result, fresh) ==
  [f \in DOMAIN result \cup {"freshness", "contract"} |->
     CASE f = "freshness" -> Freshness(fresh) [] f = "contract" -> run.written
       [] OTHER -> result[f]]

HealthItem     == Evidence(run.readiness, Fresh(run.application, ReadinessAge, 0))
DeploymentItem == Evidence(run.deployment, Fresh(run.kubernetes, ResourceAge, 0))

\* mutant: the age of the cached summary is left out
SummaryFresh_NoCache ==
  run.summary.status = "OK" /\ Fresh(run.application, SummaryAge, 0)

SummaryFresh ==
  run.summary.status = "OK" /\ Fresh(run.application, SummaryAge, CacheTime)

\* the series a query was answered with
Series(q) ==
  IF run.range[q].samples = << >> THEN {} ELSE
  {[status |-> run.range[q].status, grid |-> run.range[q].grid,
    samples |-> run.range[q].samples, partition |-> Partition]}

Coverage(series) ==
  [observed |-> {x.partition : x \in series},
   complete |-> /\ {x.partition : x \in series} = Partitions
                /\ Cardinality(series) = Cardinality(Partitions)]

\* an offset may not go back; the lag may
Anomalies(q, x) ==
  {a \in {"negative_value", "offset_decrease"} :
     IF a = "negative_value" THEN \E k \in DOMAIN x.samples : x.samples[k] < 0
     ELSE q # "lag" /\ Decreases(x.samples)}

\* known only when all three were answered
PartitionMismatch ==
  /\ \A q \in Queries : run.range[q].status = "OK"
  /\ ~One({Coverage(Series(q)).observed : q \in Queries})

\* what makes an item of no use to a condition, whatever it shows
BlockingFlags(q, x) ==
  Anomalies(q, x)
  \cup (IF Coverage(Series(q)).complete THEN {} ELSE {"partial_partition_coverage"})
  \cup (IF PartitionMismatch THEN {"partition_set_mismatch"} ELSE {})
  \cup (CASE run.stamp[q].status = "ERROR"   -> {"source_timestamp_query_error"}
           [] run.stamp[q].status = "MISSING" -> {"source_timestamp_missing",
                                                  "source_timestamp_coverage_mismatch"}
           [] OTHER -> {})

\* of a query whose timestamps are those of the series
SourceTimestamp(q) ==
  IF run.stamp[q].status = "OK" /\ Series(q) # {} THEN run.stamp[q].at ELSE None

\* one item per series, when any was answered
SeriesItems(q) ==
  LET at    == SourceTimestamp(q)
      fresh == at # None /\ Fresh(at, SampleAge, 0)
  IN  {[status |-> x.status, partition |-> x.partition, exporter |-> "exporter", stamp |-> at,
        freshness |-> IF at = None THEN "UNKNOWN" ELSE Freshness(fresh),
        contract |-> run.written /\ BlockingFlags(q, x) = {},
        grid |-> x.grid, samples |-> x.samples] : x \in Series(q)}

\* how much of what was asked for is there
CollectionStatus ==
  LET results == {run.readiness.status, run.summary.status, run.deployment.status}
                 \cup {run.range[q].status : q \in Queries}
      stamps  == {run.stamp[q].status : q \in Queries}
  IN  IF results \cup stamps = {"OK"} THEN IF run.written THEN "COMPLETE" ELSE "PARTIAL"
      ELSE IF "OK" \in results THEN "PARTIAL" ELSE "FAILED"

Bundle ==
  [inScope |-> run.context, collection |-> CollectionStatus,
   started |-> run.started, completed |-> run.completed,
   end |-> SeriesItems("end"), committed |-> SeriesItems("committed"), lag |-> SeriesItems("lag"),
   health |-> HealthItem, deployment |-> DeploymentItem]

-----------------------------------------------------------------------------
(* The system that is looked at                                            *)

Produce ==
  Disturb /\ broker' = [broker EXCEPT !.end = @ + 1] /\ UNCHANGED <<scrapes, scraping, deployment, down>>

Consume ==
  /\ broker.committed < broker.end /\ Disturb
  /\ broker' = [broker EXCEPT !.committed = @ + 1]
  /\ UNCHANGED <<scrapes, scraping, deployment, down>>

Scrape(t) == [stamp |-> t, up |-> TRUE, end |-> broker.end, committed |-> broker.committed]

\* a failed scrape ends every series of the exporter at its time
EndScrape ==
  /\ scraping # None
  /\ \/ scrapes' = Append(scrapes, scraping) /\ UNCHANGED changes
     \/ Disturb /\ scrapes' = Append(scrapes, [scraping EXCEPT !.up = FALSE])
  /\ scraping' = None
  /\ UNCHANGED <<broker, deployment, down>>

Rescale ==
  /\ Disturb /\ deployment.desired = 1
  /\ deployment' = [deployment EXCEPT !.desired = 2, !.generation = @ + 1]
  /\ UNCHANGED <<broker, scrapes, scraping, down>>

ObserveGeneration ==
  /\ deployment.observed < deployment.generation
  /\ deployment' = [deployment EXCEPT !.observed = deployment.generation, !.current = deployment.desired]
  /\ UNCHANGED <<changes, broker, scrapes, scraping, down>>

PodLost ==
  /\ Disturb /\ deployment.available > 0
  /\ deployment' = [deployment EXCEPT !.available = @ - 1]
  /\ UNCHANGED <<broker, scrapes, scraping, down>>

PodReady ==
  /\ deployment.available < deployment.current
  /\ deployment' = [deployment EXCEPT !.available = @ + 1]
  /\ UNCHANGED <<changes, broker, scrapes, scraping, down>>

\* the next interval: a scrape begins, which carries this time and what the exporter
\* shows of the broker now, or is skipped; the one before it has ended
Elapse ==
  /\ scraping = None
  /\ Tick
  /\ scraping' \in {None} \cup (IF "prometheus" \in down THEN {} ELSE {Scrape(now')})
  /\ UNCHANGED <<changes, broker, scrapes, deployment, down>>

-----------------------------------------------------------------------------
Lag == broker.end - broker.committed

Observed == [clusters |-> {cluster}, lags |-> {Lag}, deployments |-> {deployment}]

\* history: what held at each time
Remember ==
  past' = IF now' > now THEN Append(past, Observed')
          ELSE [past EXCEPT ![now + 1] =
                  [k \in DOMAIN @ |-> @[k] \cup Observed'[k]]]

Init ==
  /\ ApiInit
  /\ \E start \in Starts :
       /\ down = start.down /\ cluster = start.cluster /\ schemaReady = start.schemaReady
       /\ broker = [end |-> 1, committed |-> 1 - start.lag]
  /\ now = SampleCount - 1
  /\ scrapes = [k \in 1..now |-> Scrape(k - 1)]
  /\ scraping = None
  /\ deployment = [generation |-> 1, observed |-> 1, desired |-> 1, current |-> 1, available |-> 1]
  /\ run = [at |-> "begin", started |-> None, application |-> None, readiness |-> None,
            summary |-> None, prometheus |-> None, range |-> [q \in Queries |-> None],
            stamp |-> [q \in Queries |-> None], kubernetes |-> None, deployment |-> None,
            completed |-> None, context |-> TRUE, written |-> TRUE]
  /\ past = [k \in 1..now + 1 |-> Observed]

CallsApplication ==
  \/ GetContext /\ UNCHANGED <<cluster, kafkaUp, schemaReady, apiVars>>
  \/ AskApplication \/ ApplicationDown \/ ReceiveReadiness \/ ReadinessFails
  \/ AskForSummary \/ ReceiveSummary \/ SummaryFails

CallsOthers ==
  \/ \E q \in Queries : QueryRange(q) \/ RangeFails(q) \/ QueryStamp(q) \/ StampFails(q)
  \/ PrometheusDown \/ StartKubernetes \/ SkipKubernetes \/ GetDeployment \/ GetDeploymentFails
  \/ Complete

\* what a source that is down would have shown may as well stand still
SystemStep ==
  \/ "prometheus" \notin down /\ (Produce \/ Consume \/ EndScrape)
  \/ "kubernetes" \notin down /\ (Rescale \/ ObserveGeneration \/ PodLost \/ PodReady)

\* once the collection has left the API, what goes on in it may as well stand still
AsksApplication == run.at \in {"begin", "application", "readiness", "summary", "reading"}

\* kubelet probes and dashboards
OtherClient(c) ==
  /\ "application" \notin down
  /\ AskReadiness(c) \/ AskSummary(c)
  /\ Disturb
  /\ UNCHANGED <<cluster, kafkaUp, schemaReady>>

Next ==
  /\ run.at # "done"
  /\ \/ CallsApplication /\ UNCHANGED <<now, env>>
     \/ CallsOthers /\ UNCHANGED <<now, cluster, kafkaUp, schemaReady, apiVars, env>>
     \/ SystemStep /\ UNCHANGED <<now, cluster, kafkaUp, schemaReady, apiVars, run>>
     \/ /\ AsksApplication
        /\ \/ \E c \in Clients : RequestStep(c)
           \/ \E c \in Clients \ {Prober, Reader} : OtherClient(c) \/ TakeAnswer(c)
        /\ UNCHANGED <<now, env, run>>
     \/ /\ "application" \notin down
        /\ ClusterChanges \/ (AsksApplication /\ (KafkaChanges \/ SchemaBecomesReady))
        /\ UNCHANGED <<now, apiVars, env, run>>
     \/ Elapse /\ UNCHANGED <<cluster, kafkaUp, schemaReady, apiVars, run>>
  /\ Remember

Spec == Init /\ [][Next]_vars

-----------------------------------------------------------------------------
(* What a judgement says must have been so, not long before the bundle was *)
(* completed.                                                              *)

Recent(age, what) ==
  UNION {past[t + 1][what] : t \in {t \in 0..run.completed : t >= run.completed - age}}

\* what the bundle says of a condition; a refused bundle says nothing
Judged(condition) ==
  LET e == Evaluation(Bundle)
  IN  IF e = None THEN "UNKNOWN" ELSE e[condition]

Done == run.at = "done"

\* DB_DEGRADED is read from PostgreSQL in two queries that may fall on either side
\* of a failover, cached by nobody and judged later: each reason of a PRESENT was
\* so within the age a readiness response may have, an ABSENT names nothing that
\* was wrong all that time, and without a connection all that time it is neither.
DbJudgementIsReal ==
  Done =>
    LET clusters == Recent(ReadinessAge, "clusters")
        db == Judged("db")
    IN  /\ db = "PRESENT" => \A r \in DbReasons(Bundle) :
             \E c \in clusters :
               CASE r = "postgres_primary_unreachable" -> ~c.primary
                 [] r = "postgres_ready_standbys_below_minimum" -> c.listed.standbys < RequiredStandbys
                 [] r = "postgres_sync_standbys_below_minimum" ->
                      c.listed.sync < RequiredSync \/ c.streams.sync < RequiredSync
                 [] r = "postgres_replication_delay_high" ->
                      c.listed.delay > AllowedDelay \/ c.streams.delay > AllowedDelay
        /\ db = "ABSENT" =>
             /\ \E c \in clusters : c.pool = "nodes" /\ c.primary
             /\ \E c \in clusters : c.listed.standbys >= RequiredStandbys
                                      \/ c.streams.standbys >= RequiredStandbys
             /\ \E c \in clusters : c.listed.sync >= RequiredSync \/ c.streams.sync >= RequiredSync
             /\ \E c \in clusters : c.listed.delay <= AllowedDelay \/ c.streams.delay <= AllowedDelay
        /\ (\A c \in clusters : c.pool = "down") => db = "UNKNOWN"

\* the longest time between two stored scrapes
Gap == Max({1} \cup {scrapes[k].stamp - scrapes[k-1].stamp : k \in 2..Len(scrapes)})

\* NO_BACKLOG_PRESSURE_DETECTED rests on samples whose time is asked for in a query
\* of its own, and a scrape may be stored between the two.  When it is PRESENT there
\* was no lag at some time within the age a sample may have and the time between
\* two scrapes, however the queries and the scrapes interleave.
NoBacklogIsReal ==
  Done /\ Judged("noBacklog") = "PRESENT" => 0 \in Recent(SampleAge + Gap, "lags")

\* All desired workers available is read with one GET: they were, in a generation
\* the controller had seen, within the age an observation may have.
WorkerJudgementIsReal ==
  Done /\ Judged("worker") = "ABSENT" =>
    \E d \in Recent(ResourceAge, "deployments") :
      d.observed = d.generation /\ d.available >= d.desired

\* The summary comes from a cache that another request may have filled: a fresh
\* one was read from Prometheus within its maximal age.
SummaryIsRecent ==
  Done /\ SummaryFresh => run.summary.asOf >= run.completed - SummaryAge
=============================================================================
