------------------------------ MODULE ApiHealth ------------------------------
(***************************************************************************)
(* What an API process says of itself: GET /health/ready with the status   *)
(* it derives from PostgreSQL (portfolio/db.py) and Kafka, and GET         *)
(* /ops/summary with its cache (portfolio/main.py).  Both are synchronous  *)
(* routes, so requests run in threads at the same time and share           *)
(* _degraded_started_at and the cached worker status.                      *)
(*                                                                         *)
(* A cluster is what PostgreSQL shows while it is in that condition:       *)
(*   pool     "nodes" (Pgpool answers SHOW pool_nodes), "direct" (a plain  *)
(*            server refuses it) or "down" (no connection)                 *)
(*   primary  is the primary up                                            *)
(*   listed   [standbys, sync, delay] of the standbys Pgpool lists as up   *)
(*   streams  the same of the rows of pg_stat_replication                  *)
(***************************************************************************)
EXTENDS Integers, FiniteSets

CONSTANTS
  Clients,           \* callers, each with at most one request at a time
  Clusters,          \* conditions PostgreSQL can be in
  MinReadyStandbys, MinSyncStandbys, MaxDelay,   \* settings.postgres_*
  CacheTime,         \* _WORKER_STATUS_CACHE_SECONDS
  MaxTime,           \* bound: the clock
  MaxChanges         \* bound: changes and failures of the surroundings

ASSUME ApiAssumption ==
  /\ CacheTime \in Nat
  /\ LET standbys == [standbys : Nat, sync : Nat, delay : Nat]
     IN  \A c \in Clusters :
           c \in [pool : {"nodes", "direct", "down"}, primary : BOOLEAN,
                 listed : standbys, streams : standbys]

VARIABLES
  now,
  cluster, kafkaUp, schemaReady,   \* what the process finds
  changes,
  degradedSince,     \* _degraded_started_at, NoTime when None
  cache,             \* _worker_status_cached: [asOf, until], when it was read
  holder,            \* the client whose request holds _worker_status_lock
  request            \* what each client's request is doing and has read

surroundings == <<cluster, kafkaUp, schemaReady, changes>>
apiVars == <<degradedSince, cache, holder, request>>

NoTime == -1
Nobody == {}
Idle == [at |-> "idle"]

Disturb == changes < MaxChanges /\ changes' = changes + 1

-----------------------------------------------------------------------------
(* portfolio/db.py: get_postgres_runtime_status                            *)

NoPostgres == [ha |-> FALSE, primary |-> FALSE, standbys |-> 0, sync |-> 0, delay |-> 0]

\* the rows of SHOW pool_nodes, or pg_is_in_recovery() where it is refused
FromNodes(c) ==
  CASE c.pool = "nodes"  -> [ha |-> TRUE, primary |-> c.primary, standbys |-> c.listed.standbys,
                             sync |-> c.listed.sync, delay |-> c.listed.delay]
    [] c.pool = "direct" -> [NoPostgres EXCEPT !.primary = c.primary]
    [] c.pool = "down"   -> NoPostgres

\* rows of pg_stat_replication replace the counts, except that a standby Pgpool
\* lists stays counted; no rows replace nothing
WithStreams(pg, c) ==
  IF c.streams.standbys = 0 THEN pg
  ELSE [pg EXCEPT !.standbys = IF c.streams.standbys > @ THEN c.streams.standbys ELSE @,
                  !.sync = c.streams.sync,
                  !.delay = c.streams.delay]

-----------------------------------------------------------------------------
(* GET /health/ready: _build_readiness_payload, one step per dependency    *)

Goto(c, place) == request' = [request EXCEPT ![c].at = place]

AskReadiness(c) ==
  /\ request[c] = Idle
  /\ Goto(c, "nodes")
  /\ UNCHANGED <<degradedSince, cache, holder>>

ReadNodes(c) ==
  /\ request[c].at = "nodes"
  /\ LET pg == FromNodes(cluster)
     IN  request' = [request EXCEPT
           ![c] = [at |-> IF pg.ha /\ pg.primary THEN "streams" ELSE "kafka", pg |-> pg]]
  /\ UNCHANGED <<degradedSince, cache, holder, surroundings>>

\* no connection is free, or SHOW pool_nodes alone is answered with an error
NodesFail(c) ==
  /\ request[c].at = "nodes"
  /\ Disturb
  /\ \E primary \in {FALSE, cluster.primary} :
       request' = [request EXCEPT ![c] = [at |-> "kafka", pg |-> [NoPostgres EXCEPT !.primary = primary]]]
  /\ UNCHANGED <<cluster, kafkaUp, schemaReady, degradedSince, cache, holder>>

\* over a second connection, when the cluster may have changed
ReadStreams(c) ==
  /\ request[c].at = "streams"
  /\ cluster.pool # "down" /\ cluster.primary
  /\ request' = [request EXCEPT
       ![c] = [at |-> "kafka", pg |-> WithStreams(@.pg, cluster)]]
  /\ UNCHANGED <<degradedSince, cache, holder, surroundings>>

\* the error is noted and the counts of the pool stay
StreamsFail(c) ==
  /\ request[c].at = "streams"
  /\ Goto(c, "kafka")
  /\ IF cluster.pool = "down" \/ ~cluster.primary
     THEN UNCHANGED surroundings
     ELSE Disturb /\ UNCHANGED <<cluster, kafkaUp, schemaReady>>
  /\ UNCHANGED <<degradedSince, cache, holder>>

PostgresReasons(pg) ==
  LET holds == [postgres_primary_unreachable |-> ~pg.primary,
                postgres_ready_standbys_below_minimum |-> pg.ha /\ pg.standbys < MinReadyStandbys,
                postgres_sync_standbys_below_minimum |-> pg.ha /\ pg.sync < MinSyncStandbys,
                postgres_replication_delay_high |-> pg.ha /\ pg.delay > MaxDelay]
  IN  {r \in DOMAIN holds : holds[r]}

HardFailures ==
  (IF schemaReady THEN {} ELSE {"schema_not_ready"})
    \cup (IF kafkaUp THEN {} ELSE {"kafka_unreachable"})

Answer(http, status, reasons, pg) ==
  [at |-> "answered", http |-> http, status |-> status, reasons |-> reasons, pg |-> pg]

\* ping_kafka, the reasons, and _degraded_grace_remaining up to the assignment
Judge(c) ==
  /\ request[c].at = "kafka"
  /\ LET pg == request[c].pg
         reasons == HardFailures \cup PostgresReasons(pg)
     IN  IF HardFailures = {} /\ reasons # {}
         THEN /\ degradedSince' = IF degradedSince = NoTime THEN now ELSE degradedSince
              /\ request' = [request EXCEPT ![c] = [at |-> "grace", pg |-> pg, reasons |-> reasons]]
         ELSE /\ degradedSince' = NoTime
              /\ request' = [request EXCEPT ![c] =
                   IF reasons = {} THEN Answer(200, "ready", reasons, pg)
                                   ELSE Answer(503, "not_ready", reasons, pg)]
  /\ UNCHANGED <<cache, holder, surroundings>>

\* now - _degraded_started_at: a TypeError, and so a 500, when another request
\* has cleared it since
Grace(c) ==
  /\ request[c].at = "grace"
  /\ request' = [request EXCEPT ![c] =
       IF degradedSince = NoTime THEN Answer(500, "error", {}, NoPostgres)
                                 ELSE Answer(200, "degraded", @.reasons, @.pg)]
  /\ UNCHANGED <<degradedSince, cache, holder, surroundings>>

-----------------------------------------------------------------------------
(* GET /ops/summary: _worker_runtime_status                                *)

CacheHit == cache.asOf # NoTime /\ now < cache.until

Summary == [at |-> "answered", asOf |-> cache.asOf]

AskSummary(c) ==
  /\ request[c] = Idle
  /\ request' = [request EXCEPT ![c] = IF CacheHit THEN Summary ELSE [at |-> "lock"]]
  /\ UNCHANGED <<degradedSince, cache, holder>>

LockSummary(c) ==
  /\ request[c].at = "lock" /\ holder = Nobody
  /\ IF CacheHit
     THEN request' = [request EXCEPT ![c] = Summary] /\ UNCHANGED holder
     ELSE /\ holder' = {c}
          /\ request' = [request EXCEPT ![c] = [at |-> "fetch", since |-> now]]
  /\ UNCHANGED <<degradedSince, cache, surroundings>>

\* what Prometheus shows, or "unavailable" when it does not answer: both are kept
FetchSummary(c) ==
  /\ request[c].at = "fetch"
  /\ cache' = [asOf |-> now, until |-> request[c].since + CacheTime]
  /\ holder' = Nobody
  /\ request' = [request EXCEPT ![c] = [at |-> "answered", asOf |-> now]]
  /\ UNCHANGED <<degradedSince, surroundings>>

-----------------------------------------------------------------------------
(* The surroundings                                                        *)

ClusterChanges ==
  /\ Disturb
  /\ \E c \in Clusters \ {cluster} : cluster' = c
  /\ UNCHANGED <<kafkaUp, schemaReady>>

KafkaChanges ==
  /\ Disturb
  /\ kafkaUp' = ~kafkaUp
  /\ UNCHANGED <<cluster, schemaReady>>

\* run_schema_migrations has finished, see DbPool
SchemaBecomesReady ==
  /\ ~schemaReady /\ Disturb
  /\ schemaReady' = TRUE
  /\ UNCHANGED <<cluster, kafkaUp>>

\* a caller that has its answer may ask again
TakeAnswer(c) ==
  /\ request[c].at = "answered"
  /\ request' = [request EXCEPT ![c] = Idle]
  /\ UNCHANGED <<degradedSince, cache, holder, surroundings>>

Tick == now < MaxTime /\ now' = now + 1

RequestStep(c) ==
  \/ ReadNodes(c) \/ NodesFail(c) \/ ReadStreams(c) \/ StreamsFail(c) \/ Judge(c) \/ Grace(c)
  \/ LockSummary(c) \/ FetchSummary(c)

ApiInit ==
  /\ cluster \in Clusters /\ kafkaUp = TRUE /\ schemaReady \in BOOLEAN
  /\ changes = 0
  /\ degradedSince = NoTime
  /\ cache = [asOf |-> NoTime, until |-> NoTime]
  /\ holder = Nobody
  /\ request = [c \in Clients |-> Idle]

ApiNext ==
  \/ \E c \in Clients :
       /\ \/ (AskReadiness(c) \/ AskSummary(c)) /\ UNCHANGED surroundings
          \/ RequestStep(c)
          \/ TakeAnswer(c)
       /\ UNCHANGED now
  \/ (ClusterChanges \/ KafkaChanges \/ SchemaBecomesReady) /\ UNCHANGED <<now, apiVars>>
  \/ Tick /\ UNCHANGED <<apiVars, surroundings>>

ApiSpec == now = 0 /\ ApiInit /\ [][ApiNext]_<<now, surroundings, apiVars>>

-----------------------------------------------------------------------------
\* Readiness answers 503 for hard failures and 200 otherwise; the grace field of
\* a degraded answer is context and does not change the HTTP status
\* (docs/RELIABILITY_POLICY.md).
GraceKeepsHttpStatus ==
  \A c \in Clients :
    request[c].at = "answered" /\ "http" \in DOMAIN request[c] => request[c].http \in {200, 503}
=============================================================================
