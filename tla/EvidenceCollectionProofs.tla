---------------------- MODULE EvidenceCollectionProofs ----------------------
(***************************************************************************)
(* Theorems about EvidenceCollection, for every set of clients, every      *)
(* condition PostgreSQL can be in, and every age and cache time: what a    *)
(* bundle is judged to say held while it was collected.                    *)
(***************************************************************************)
EXTENDS EvidenceCollection, FiniteSetTheorems, WellFoundedInduction, TLAPS

RunFields == {"at", "started", "application", "readiness", "summary", "prometheus", "range",
              "stamp", "kubernetes", "deployment", "completed", "context", "written"}

Deployments ==
  [generation : Nat, observed : Nat, desired : Nat, current : Nat, available : Nat]

\* What a snapshot of one time may hold.
Snapshots == [clusters : SUBSET Clusters, lags : SUBSET Int, deployments : SUBSET Deployments]

\* The system that is looked at.
SystemOK ==
  /\ now \in Nat
  /\ cluster \in Clusters
  /\ broker \in [end : Int, committed : Int]
  /\ deployment \in Deployments

\* The history reaches to this moment, and this moment is in it.
PastOK ==
  /\ past \in Seq(Snapshots) /\ Len(past) = now + 1
  /\ cluster \in past[now + 1].clusters
  /\ Lag \in past[now + 1].lags
  /\ deployment \in past[now + 1].deployments

\* The collection and the requests are records.
RecordsOK ==
  /\ DOMAIN run = RunFields
  /\ DOMAIN request = Clients
  /\ \A c \in Clients : "at" \in DOMAIN request[c]
  /\ \A c \in Clients : request[c].at = "fetch" => request[c].since \in 0..now
  /\ cache \in [asOf : Int, until : Int]

TypeInv == SystemOK /\ PastOK /\ RecordsOK

-----------------------------------------------------------------------------
(* Time and the system.                                                    *)

\* Time only moves when it elapses.
LEMMA TimeMoves ==
  ASSUME SystemOK, Next
  PROVE  now' \in {now, now + 1} /\ run.at # "done"
BY DEF SystemOK, Next, Elapse, Tick

\* A step leaves the system one of its conditions.
LEMMA SystemStays ==
  ASSUME SystemOK, Next
  PROVE  SystemOK'
<1>1. CASE UNCHANGED <<cluster, broker, deployment>>
  BY <1>1, TimeMoves DEF SystemOK
<1>2. CASE ClusterChanges /\ UNCHANGED <<now, env>>
  BY <1>2 DEF SystemOK, ClusterChanges, env
<1>3. CASE SystemStep /\ UNCHANGED <<now, cluster>>
  <2>1. CASE Produce \/ Consume \/ EndScrape
    BY <1>3, <2>1 DEF SystemOK, Produce, Consume, EndScrape
  <2>2. CASE Rescale \/ ObserveGeneration \/ PodLost \/ PodReady
    <3>0. deployment \in Deployments
      BY DEF SystemOK
    <3>1. deployment' \in Deployments
      <4>1. CASE Rescale
        <5>1. deployment.generation + 1 \in Nat
          BY <3>0 DEF Deployments
        <5>2. PICK n \in Nat : deployment' = [deployment EXCEPT !.desired = 2, !.generation = n]
          BY <4>1, <5>1 DEF Rescale
        <5> QED
          BY <3>0, <5>2 DEF Deployments
      <4>2. CASE ObserveGeneration
        BY <3>0, <4>2 DEF Deployments, ObserveGeneration
      <4>3. CASE PodLost
        BY <3>0, <4>3 DEF Deployments, PodLost
      <4>4. CASE PodReady
        BY <3>0, <4>4 DEF Deployments, PodReady
      <4> QED
        BY <2>2, <4>1, <4>2, <4>3, <4>4
    <3> QED
      BY <1>3, <2>2, <3>1 DEF SystemOK, Rescale, ObserveGeneration, PodLost, PodReady
  <2> QED
    BY <1>3, <2>1, <2>2 DEF SystemStep
<1> QED
  <2>1. CASE CallsApplication /\ UNCHANGED <<now, env>>
    <3>1. UNCHANGED cluster
      BY <2>1 DEF CallsApplication, GetContext, AskApplication, ApplicationDown, ReceiveReadiness,
           ReadinessFails, AskForSummary, ReceiveSummary, SummaryFails, TakeAnswer, surroundings
    <3> QED
      BY <1>1, <2>1, <3>1 DEF env
  <2>2. CASE \E c \in Clients : RequestStep(c) /\ UNCHANGED <<now, env>>
    <3>1. UNCHANGED cluster
      BY <2>2 DEF RequestStep, ReadNodes, NodesFail, ReadStreams, StreamsFail, Judge, Grace,
           LockSummary, FetchSummary, surroundings
    <3> QED
      BY <1>1, <2>2, <3>1 DEF env
  <2>3. CASE \E c \in Clients : (OtherClient(c) \/ TakeAnswer(c)) /\ UNCHANGED <<now, env>>
    BY <1>1, <2>3 DEF OtherClient, TakeAnswer, surroundings, env
  <2> QED
    BY <1>1, <1>2, <1>3, <2>1, <2>2, <2>3
       DEF Next, Elapse, KafkaChanges, SchemaBecomesReady, env

-----------------------------------------------------------------------------
(* The history.                                                            *)

\* Two snapshots of one time, put together.
LEMMA TwoSnapshots ==
  ASSUME NEW s \in Snapshots, NEW o \in Snapshots,
         NEW both, both = [k \in DOMAIN s |-> s[k] \cup o[k]]
  PROVE  /\ both \in Snapshots
         /\ s.clusters \subseteq both.clusters /\ o.clusters \subseteq both.clusters
         /\ s.lags \subseteq both.lags /\ o.lags \subseteq both.lags
         /\ s.deployments \subseteq both.deployments /\ o.deployments \subseteq both.deployments
<1>1. DOMAIN s = {"clusters", "lags", "deployments"}
  BY DEF Snapshots
<1>2. /\ both.clusters = s.clusters \cup o.clusters
      /\ both.lags = s.lags \cup o.lags
      /\ both.deployments = s.deployments \cup o.deployments
  BY <1>1
<1>3. both = [clusters |-> both.clusters, lags |-> both.lags, deployments |-> both.deployments]
  BY <1>1
<1>4. /\ both.clusters \in SUBSET Clusters /\ both.lags \in SUBSET Int
      /\ both.deployments \in SUBSET Deployments
  BY <1>2 DEF Snapshots
<1>5. both \in Snapshots
  BY ONLY <1>3, <1>4 DEF Snapshots
<1> QED
  BY <1>2, <1>5

\* What is remembered stays remembered, and this moment is added to it.
LEMMA PastGrows ==
  ASSUME SystemOK, PastOK, Next
  PROVE  /\ PastOK'
         /\ \A t \in 0..now : /\ past[t + 1].clusters \subseteq past'[t + 1].clusters
                              /\ past[t + 1].lags \subseteq past'[t + 1].lags
                              /\ past[t + 1].deployments \subseteq past'[t + 1].deployments
<1>1. Remember /\ SystemOK' /\ now' \in {now, now + 1} /\ now \in Nat
  BY SystemStays, TimeMoves DEF Next, SystemOK
<1>2. Observed' \in Snapshots
  <2>1. Lag' \in Int
    BY <1>1 DEF SystemOK, Lag
  <2> QED
    BY <1>1, <2>1 DEF SystemOK, Observed, Snapshots
<1>3. \A k \in 1..(now + 1) : past[k] \in Snapshots
  BY <1>1 DEF PastOK
<1>4. CASE now' = now + 1
  <2>1. past' = Append(past, Observed')
    BY <1>1, <1>4 DEF Remember
  <2>2. past' \in Seq(Snapshots) /\ Len(past') = now' + 1
    BY <1>1, <1>2, <1>4, <2>1 DEF PastOK
  <2>3. past'[now' + 1] = Observed' /\ \A t \in 0..now : past'[t + 1] = past[t + 1]
    BY <1>1, <1>2, <1>4, <2>1 DEF PastOK
  <2>4. cluster' \in Observed'.clusters /\ Lag' \in Observed'.lags /\ deployment' \in Observed'.deployments
    BY DEF Observed
  <2> QED
    BY <2>2, <2>3, <2>4 DEF PastOK
<1>5. CASE now' = now
  <2>1. PICK here, seen, both :
          here = past[now + 1] /\ seen = Observed' /\ both = [k \in DOMAIN here |-> here[k] \cup seen[k]]
    OBVIOUS
  <2>2. past' = [past EXCEPT ![now + 1] = both]
    BY <1>1, <1>5, <2>1 DEF Remember
  <2>3. here \in Snapshots /\ seen \in Snapshots
    BY <1>1, <1>2, <1>3, <2>1
  <2>4. /\ both \in Snapshots
        /\ here.clusters \subseteq both.clusters /\ seen.clusters \subseteq both.clusters
        /\ here.lags \subseteq both.lags /\ seen.lags \subseteq both.lags
        /\ here.deployments \subseteq both.deployments /\ seen.deployments \subseteq both.deployments
    BY ONLY <2>1, <2>3, TwoSnapshots
  <2>5. past \in Seq(Snapshots) /\ Len(past) = now + 1 /\ now + 1 \in 1..(now + 1)
    BY <1>1 DEF PastOK
  <2>6. /\ past' \in Seq(Snapshots) /\ Len(past') = now + 1
        /\ past'[now + 1] = both /\ \A t \in 0..now : t # now => past'[t + 1] = past[t + 1]
    BY ONLY <1>1, <2>2, <2>4, <2>5
  <2>7. cluster' \in seen.clusters /\ Lag' \in seen.lags /\ deployment' \in seen.deployments
    BY <2>1 DEF Observed
  <2>8. ASSUME NEW t \in 0..now
        PROVE  /\ past[t + 1].clusters \subseteq past'[t + 1].clusters
               /\ past[t + 1].lags \subseteq past'[t + 1].lags
               /\ past[t + 1].deployments \subseteq past'[t + 1].deployments
    BY <2>1, <2>4, <2>6
  <2> QED
    BY <1>5, <2>4, <2>6, <2>7, <2>8 DEF PastOK
<1> QED
  BY <1>1, <1>4, <1>5

\* What was so at some time since t.
ClustersSince(t)    == UNION {past[u + 1].clusters : u \in t..now}
DeploymentsSince(t) == UNION {past[u + 1].deployments : u \in t..now}

LEMMA SinceGrows ==
  ASSUME SystemOK, PastOK, Next, NEW t \in 0..now
  PROVE  /\ cluster \in ClustersSince(t) /\ ClustersSince(t) \subseteq ClustersSince(t)'
         /\ deployment \in DeploymentsSince(t) /\ DeploymentsSince(t) \subseteq DeploymentsSince(t)'
<1>1. now \in Nat /\ now' \in Nat /\ now <= now'
  BY TimeMoves DEF SystemOK
<1>2. cluster \in ClustersSince(t) /\ deployment \in DeploymentsSince(t)
  <2>1. now \in t..now
    BY <1>1
  <2> QED
    BY <2>1 DEF PastOK, ClustersSince, DeploymentsSince
<1>3. \A u \in t..now : u \in 0..now /\ u \in t..now'
  BY <1>1
<1> QED
  BY <1>2, <1>3, PastGrows DEF ClustersSince, DeploymentsSince

-----------------------------------------------------------------------------
(* The steps, by what they leave alone.                                    *)

\* The system moves, and neither the API nor the collection does.
Quiet == UNCHANGED <<apiVars, run>>

\* A request of the API moves by itself, or a client that is not the collector's.
ApiStep ==
  /\ \E c \in Clients :
       RequestStep(c) \/ (c \notin {Prober, Reader} /\ (OtherClient(c) \/ TakeAnswer(c)))
  /\ UNCHANGED <<now, run>>

LEMMA StepKinds ==
  ASSUME Next
  PROVE  \/ CallsApplication /\ UNCHANGED <<now, env>>
         \/ CallsOthers /\ UNCHANGED <<now, cluster, apiVars, env>>
         \/ Quiet
         \/ ApiStep
BY DEF Next, Quiet, ApiStep, Elapse, apiVars

\* The collection calls the other sources when the application has been asked.
LEMMA OthersComeAfter ==
  ASSUME RecordsOK, CallsOthers
  PROVE  /\ run.at \in {"kafka", "kubernetes", "build"}
         /\ run'.at \in {"kafka", "kubernetes", "build", "done"}
         /\ DOMAIN run' = RunFields
         /\ run'.application = run.application
         /\ run'.readiness = run.readiness
         /\ run'.summary = run.summary
         /\ run'.at = "done" => run.at = "build" /\ run'.completed = now
<1>1. DOMAIN run = RunFields
  BY DEF RecordsOK
<1>2. ASSUME NEW q \in Queries, QueryRange(q) \/ RangeFails(q) \/ QueryStamp(q) \/ StampFails(q)
      PROVE  \E f \in {"range", "stamp"} : \E v : run.at = "kafka" /\ run' = [run EXCEPT ![f] = v]
  <2>1. CASE QueryRange(q)
    BY <2>1 DEF QueryRange
  <2>2. CASE RangeFails(q)
    BY <2>2 DEF RangeFails
  <2>3. CASE QueryStamp(q)
    BY <2>3 DEF QueryStamp
  <2>4. CASE StampFails(q)
    BY <2>4 DEF StampFails
  <2> QED
    BY <1>2, <2>1, <2>2, <2>3, <2>4
<1>3. CASE \E q \in Queries : QueryRange(q) \/ RangeFails(q) \/ QueryStamp(q) \/ StampFails(q)
  BY <1>1, <1>2, <1>3 DEF RunFields
<1>4. CASE PrometheusDown \/ StartKubernetes
  BY <1>1, <1>4 DEF RunFields, PrometheusDown, StartKubernetes
<1>5. CASE SkipKubernetes \/ GetDeployment \/ GetDeploymentFails
  BY <1>1, <1>5 DEF RunFields, SkipKubernetes, GetDeployment, GetDeploymentFails
<1>6. CASE Complete
  BY <1>1, <1>6 DEF RunFields, Complete
<1> QED
  BY <1>3, <1>4, <1>5, <1>6 DEF CallsOthers

\* A step of a request changes that request only, and leaves it a record.
LEMMA OneRequest ==
  ASSUME RecordsOK, NEW c \in Clients,
         \/ RequestStep(c) \/ AskReadiness(c) \/ AskSummary(c) \/ TakeAnswer(c)
  PROVE  /\ DOMAIN request' = Clients
         /\ "at" \in DOMAIN request'[c]
         /\ request'[c].at = "fetch" => request'[c].since = now
         /\ \A d \in Clients \ {c} : request'[d] = request[d]
<1>1. DOMAIN request = Clients /\ "at" \in DOMAIN request[c]
  BY DEF RecordsOK
<1>2. CASE AskReadiness(c)
  BY <1>1, <1>2 DEF AskReadiness, Goto
<1>3. CASE StreamsFail(c)
  BY <1>1, <1>3 DEF StreamsFail, Goto
<1>4. CASE ReadNodes(c)
  BY <1>1, <1>4 DEF ReadNodes
<1>5. CASE NodesFail(c)
  BY <1>1, <1>5 DEF NodesFail
<1>6. CASE ReadStreams(c)
  BY <1>1, <1>6 DEF ReadStreams
<1>7. CASE Judge(c)
  BY <1>1, <1>7 DEF Judge, Answer
<1>8. CASE Grace(c)
  BY <1>1, <1>8 DEF Grace, Answer
<1>9. CASE LockSummary(c)
  BY <1>1, <1>9 DEF LockSummary, Summary
<1>10. CASE FetchSummary(c)
  BY <1>1, <1>10 DEF FetchSummary
<1>11. CASE AskSummary(c)
  BY <1>1, <1>11 DEF AskSummary, Summary
<1>12. CASE TakeAnswer(c)
  BY <1>1, <1>12 DEF TakeAnswer, Idle
<1> QED
  BY <1>2, <1>3, <1>4, <1>5, <1>6, <1>7, <1>8, <1>9, <1>10, <1>11, <1>12 DEF RequestStep

\* Only a fetch changes the cache.
LEMMA CacheChanges ==
  ASSUME NEW c \in Clients,
         \/ RequestStep(c) \/ AskReadiness(c) \/ AskSummary(c) \/ TakeAnswer(c)
  PROVE  cache' = cache \/ FetchSummary(c)
BY DEF RequestStep, ReadNodes, NodesFail, ReadStreams, StreamsFail, Judge, Grace, LockSummary,
       AskReadiness, AskSummary, TakeAnswer

\* The calls to the application, by the field of the request that they move.
LEMMA ApplicationCalls ==
  ASSUME RecordsOK, CallsApplication
  PROVE  /\ DOMAIN run' = RunFields
         /\ \/ GetContext /\ UNCHANGED apiVars
            \/ ApplicationDown \/ ReadinessFails \/ SummaryFails
            \/ AskApplication \/ ReceiveReadiness
            \/ AskForSummary \/ ReceiveSummary
<1>1. DOMAIN run = RunFields
  BY DEF RecordsOK
<1>2. CASE GetContext \/ AskApplication \/ ApplicationDown \/ ReceiveReadiness
  BY <1>1, <1>2 DEF GetContext, AskApplication, ApplicationDown, ReceiveReadiness, CallsApplication
<1>3. CASE ReadinessFails \/ AskForSummary \/ ReceiveSummary \/ SummaryFails
  BY <1>1, <1>3 DEF ReadinessFails, AskForSummary, ReceiveSummary, SummaryFails
<1> QED
  BY <1>2, <1>3 DEF CallsApplication

LEMMA RecordsStay ==
  ASSUME SystemOK, RecordsOK, Next
  PROVE  RecordsOK'
<1>0. now \in Nat /\ now' \in Nat /\ now <= now' /\ {Prober, Reader} \subseteq Clients
  BY TimeMoves, CollectionAssumption DEF SystemOK
<1>1. CASE CallsApplication /\ UNCHANGED now
  <2>1. DOMAIN run' = RunFields
    BY <1>1, ApplicationCalls
  <2>2. CASE UNCHANGED apiVars
    BY <1>0, <2>1, <2>2 DEF RecordsOK, apiVars
  <2>3. CASE \E c \in Clients : (AskReadiness(c) \/ AskSummary(c) \/ TakeAnswer(c))
    <3>1. PICK c \in Clients : AskReadiness(c) \/ AskSummary(c) \/ TakeAnswer(c)
      BY <2>3
    <3>2. cache' = cache
      BY <3>1 DEF AskReadiness, AskSummary, TakeAnswer
    <3> QED
      BY <1>0, <1>1, <2>1, <3>1, <3>2, OneRequest DEF RecordsOK
  <2> QED
    BY <1>0, <1>1, <2>2, <2>3 DEF CallsApplication, GetContext, AskApplication, ApplicationDown,
       ReceiveReadiness, ReadinessFails, AskForSummary, ReceiveSummary, SummaryFails
<1>2. CASE CallsOthers /\ UNCHANGED apiVars
  BY <1>0, <1>2, OthersComeAfter DEF RecordsOK, apiVars
<1>3. CASE Quiet
  BY <1>0, <1>3 DEF Quiet, RecordsOK, apiVars
<1>4. CASE ApiStep
  <2>1. PICK c \in Clients : RequestStep(c) \/ AskReadiness(c) \/ AskSummary(c) \/ TakeAnswer(c)
    BY <1>4 DEF ApiStep, OtherClient
  <2>2. run' = run /\ now' = now
    BY <1>4 DEF ApiStep
  <2>3. cache' \in [asOf : Int, until : Int]
    <3>1. CASE cache' = cache
      BY <3>1 DEF RecordsOK
    <3>2. CASE FetchSummary(c)
      <4>1. now \in Int /\ request[c].since + CacheTime \in Int
        BY <3>2, ApiAssumption DEF SystemOK, RecordsOK, FetchSummary
      <4> QED
        BY <3>2, <4>1 DEF FetchSummary
    <3> QED
      BY <2>1, <3>1, <3>2, CacheChanges
  <2> QED
    BY <1>0, <2>1, <2>2, <2>3, OneRequest DEF RecordsOK
<1> QED
  BY <1>1, <1>2, <1>3, <1>4, StepKinds

\* The types of the variables hold in every state, and the history holds this moment.
THEOREM TypeCorrect == Spec => []TypeInv
<1>1. Init => TypeInv
  <2> SUFFICES ASSUME Init PROVE TypeInv
    OBVIOUS
  <2>1. now \in Nat /\ deployment \in Deployments
    BY EvidenceAssumption DEF Init, Deployments
  <2>2. cluster \in Clusters
    BY DEF Init, ApiInit
  <2>3. broker \in [end : Int, committed : Int]
    BY CollectionAssumption DEF Init
  <2>4. Observed \in Snapshots
    <3>1. Lag \in Int
      BY <2>3 DEF Lag
    <3> QED
      BY <2>1, <2>2, <3>1 DEF Observed, Snapshots
  <2>5. PastOK
    <3>1. past = [k \in 1..(now + 1) |-> Observed]
      BY DEF Init
    <3>2. past \in Seq(Snapshots) /\ Len(past) = now + 1 /\ past[now + 1] = Observed
      BY <2>1, <2>4, <3>1
    <3> QED
      BY <3>2 DEF PastOK, Observed
  <2>6. RecordsOK
    BY DEF Init, ApiInit, RecordsOK, RunFields, Idle, NoTime
  <2> QED
    BY <2>1, <2>2, <2>3, <2>5, <2>6 DEF TypeInv, SystemOK
<1>2. TypeInv /\ [Next]_vars => TypeInv'
  <2>1. CASE Next
    BY <2>1, SystemStays, PastGrows, RecordsStay DEF TypeInv
  <2>2. CASE UNCHANGED vars
    BY <2>2 DEF TypeInv, SystemOK, PastOK, RecordsOK, Lag, vars, env, apiVars, surroundings
  <2> QED
    BY <2>1, <2>2
<1> QED
  BY <1>1, <1>2, PTL DEF Spec

-----------------------------------------------------------------------------
(* The summary.                                                            *)

\* A cached status is never served longer than CacheTime after it was read.
CacheOK == cache.asOf # NoTime => cache.until <= cache.asOf + CacheTime

\* What was read at t serves a collection that asked at application.
Serves(t, application) == t \in Int /\ t + CacheTime >= application

Answered == {"kafka", "kubernetes", "build", "done"}

SummaryInv ==
  /\ CacheOK
  /\ run.at \notin {"begin", "application"} => run.application \in 0..now
  /\ run.at = "reading" =>
       \/ request[Reader].at \in {"lock", "fetch"}
       \/ request[Reader].at = "answered" /\ Serves(request[Reader].asOf, run.application)
  /\ run.at \in Answered /\ run.summary.status = "OK" => Serves(run.summary.asOf, run.application)
  /\ run.at = "done" => run.completed = now

\* What a request for the summary is answered with is not older than CacheTime.
LEMMA SummaryAnswers ==
  ASSUME TypeInv, CacheOK, NEW c \in Clients,
         AskSummary(c) \/ LockSummary(c) \/ FetchSummary(c)
  PROVE  /\ CacheOK'
         /\ \/ request'[c].at \in {"lock", "fetch"}
            \/ request'[c].at = "answered" /\ Serves(request'[c].asOf, now)
<1>1. /\ now \in Nat /\ CacheTime \in Nat /\ cache.asOf \in Int /\ cache.until \in Int
      /\ DOMAIN request = Clients
  BY ApiAssumption DEF TypeInv, SystemOK, RecordsOK
<1>2. CacheHit => Serves(cache.asOf, now)
  BY <1>1 DEF CacheHit, CacheOK, Serves
<1>3. CASE AskSummary(c)
  BY <1>1, <1>2, <1>3 DEF AskSummary, Summary, CacheOK
<1>4. CASE LockSummary(c)
  BY <1>1, <1>2, <1>4 DEF LockSummary, Summary, CacheOK
<1>5. CASE FetchSummary(c)
  <2>1. request[c].since \in 0..now
    BY <1>5 DEF FetchSummary, TypeInv, RecordsOK
  <2> QED
    BY <1>1, <1>5, <2>1 DEF FetchSummary, CacheOK, Serves
<1> QED
  BY <1>3, <1>4, <1>5

\* The cache stays so whatever a request does.
LEMMA CacheStays ==
  ASSUME TypeInv, CacheOK, NEW c \in Clients,
         \/ RequestStep(c) \/ AskReadiness(c) \/ AskSummary(c) \/ TakeAnswer(c)
  PROVE  CacheOK'
BY CacheChanges, SummaryAnswers DEF CacheOK

\* The collection's own calls.
LEMMA SummaryWhenApplicationIsAsked ==
  ASSUME TypeInv, SummaryInv, CallsApplication, now' = now
  PROVE  SummaryInv'
<1>1. /\ DOMAIN run = RunFields /\ DOMAIN request = Clients /\ {Prober, Reader} \subseteq Clients
      /\ now \in Nat /\ CacheTime \in Nat
  BY CollectionAssumption, ApiAssumption DEF TypeInv, SystemOK, RecordsOK
<1>2. CacheOK'
  <2>1. CASE \E c \in Clients : AskReadiness(c) \/ AskSummary(c) \/ TakeAnswer(c)
    BY <2>1, CacheStays DEF SummaryInv
  <2>2. CASE cache' = cache
    BY <2>2 DEF CacheOK, SummaryInv
  <2> QED
    BY <1>1, <2>1, <2>2 DEF CallsApplication, GetContext, AskApplication, ApplicationDown,
       ReceiveReadiness, ReadinessFails, AskForSummary, ReceiveSummary, SummaryFails, apiVars
<1>3. CASE GetContext
  BY <1>1, <1>2, <1>3 DEF GetContext, SummaryInv, RunFields, Answered
<1>4. CASE AskApplication
  BY <1>1, <1>2, <1>4 DEF AskApplication, SummaryInv, RunFields, Answered
<1>5. CASE ApplicationDown
  BY <1>1, <1>2, <1>5 DEF ApplicationDown, SummaryInv, RunFields, Answered
<1>6. CASE ReceiveReadiness \/ ReadinessFails
  BY <1>1, <1>2, <1>6 DEF ReceiveReadiness, ReadinessFails, SummaryInv, RunFields, Answered
<1>7. CASE AskForSummary
  <2>1. \/ request'[Reader].at \in {"lock", "fetch"}
        \/ request'[Reader].at = "answered" /\ Serves(request'[Reader].asOf, now)
    BY <1>1, <1>7, SummaryAnswers DEF AskForSummary, SummaryInv
  <2>2. /\ run.at = "summary" /\ run'.at = "reading" /\ run'.application = run.application
        /\ run.application \in 0..now
    BY <1>1, <1>7 DEF AskForSummary, SummaryInv, RunFields
  <2>3. Serves(request'[Reader].asOf, now) => Serves(request'[Reader].asOf, run'.application)
    BY <1>1, <2>2 DEF Serves
  <2> QED
    BY <1>2, <2>1, <2>2, <2>3 DEF SummaryInv, Answered, Serves
<1>8. CASE ReceiveSummary
  <2>1. /\ run.at = "reading" /\ run'.at = "kafka" /\ run'.application = run.application
        /\ run'.summary = [status |-> "OK", asOf |-> request[Reader].asOf]
        /\ request[Reader].at = "answered"
    BY <1>1, <1>8 DEF ReceiveSummary, TakeAnswer, RunFields
  <2>2. Serves(request[Reader].asOf, run.application)
    BY <2>1 DEF SummaryInv
  <2> QED
    BY <1>2, <2>1, <2>2 DEF SummaryInv, Answered, Serves
<1>9. CASE SummaryFails
  BY <1>1, <1>2, <1>9 DEF SummaryFails, SummaryInv, RunFields, Answered
<1> QED
  BY <1>3, <1>4, <1>5, <1>6, <1>7, <1>8, <1>9 DEF CallsApplication

LEMMA SummaryStays ==
  ASSUME TypeInv, SummaryInv, Next
  PROVE  SummaryInv'
<1>1. /\ now \in Nat /\ now' \in {now, now + 1} /\ run.at # "done" /\ Reader \in Clients
      /\ CacheTime \in Nat
  BY TimeMoves, CollectionAssumption, ApiAssumption DEF TypeInv, SystemOK
<1>2. CASE CallsApplication /\ now' = now
  BY <1>2, SummaryWhenApplicationIsAsked
<1>3. CASE CallsOthers /\ UNCHANGED <<now, apiVars>>
  <2>1. RecordsOK
    BY DEF TypeInv
  <2> QED
    BY <1>1, <1>3, <2>1, OthersComeAfter DEF SummaryInv, CacheOK, Answered, Serves, apiVars
<1>4. CASE Quiet
  BY <1>1, <1>4 DEF Quiet, SummaryInv, CacheOK, Answered, Serves, apiVars
<1>5. CASE ApiStep
  <2>1. PICK c \in Clients :
          RequestStep(c) \/ (c \notin {Prober, Reader} /\ (OtherClient(c) \/ TakeAnswer(c)))
    BY <1>5 DEF ApiStep
  <2>2. run' = run /\ now' = now
    BY <1>5 DEF ApiStep
  <2>3. RequestStep(c) \/ AskReadiness(c) \/ AskSummary(c) \/ TakeAnswer(c)
    BY <2>1 DEF OtherClient
  <2>4. CacheOK'
    BY <2>3, CacheStays DEF SummaryInv
  <2>5. ASSUME run.at = "reading"
        PROVE  \/ request'[Reader].at \in {"lock", "fetch"}
               \/ request'[Reader].at = "answered" /\ Serves(request'[Reader].asOf, run.application)
    <3>1. CASE c # Reader
      <4>1. request'[Reader] = request[Reader]
        BY <1>1, <2>3, <3>1, OneRequest DEF TypeInv
      <4> QED
        BY <2>5, <4>1 DEF SummaryInv
    <3>2. CASE c = Reader
      <4>1. request[Reader].at \in {"lock", "fetch", "answered"}
        BY <2>5 DEF SummaryInv
      <4>2. LockSummary(Reader) \/ FetchSummary(Reader)
        BY <2>1, <3>2, <4>1 DEF RequestStep, ReadNodes, NodesFail, ReadStreams, StreamsFail, Judge, Grace
      <4>3. \/ request'[Reader].at \in {"lock", "fetch"}
            \/ request'[Reader].at = "answered" /\ Serves(request'[Reader].asOf, now)
        BY <1>1, <4>2, SummaryAnswers DEF SummaryInv
      <4>4. run.application \in 0..now
        BY <2>5 DEF SummaryInv
      <4> QED
        BY <1>1, <4>3, <4>4 DEF Serves
    <3> QED
      BY <3>1, <3>2
  <2> QED
    BY <2>2, <2>4, <2>5 DEF SummaryInv, Serves
<1> QED
  BY <1>2, <1>3, <1>4, <1>5, StepKinds

\* A summary that is judged fresh was read from Prometheus within its maximal age,
\* whichever request filled the cache and whenever (collect_bundle and the cached
\* worker status of the summary route).
THEOREM SummariesAreRecent == Spec => []SummaryIsRecent
<1>1. Init => SummaryInv
  BY DEF Init, ApiInit, SummaryInv, CacheOK, Answered
<1>2. TypeInv /\ SummaryInv /\ [Next]_vars => SummaryInv'
  <2>1. CASE UNCHANGED vars
    BY <2>1 DEF SummaryInv, CacheOK, Answered, Serves, vars, apiVars
  <2> QED
    BY <2>1, SummaryStays
<1>3. TypeInv /\ SummaryInv => SummaryIsRecent
  <2> SUFFICES ASSUME TypeInv, SummaryInv, run.at = "done", SummaryFresh
               PROVE  run.summary.asOf >= run.completed - SummaryAge
    BY DEF SummaryIsRecent, Done
  <2>1. /\ now \in Nat /\ run.completed = now /\ run.application \in 0..now
        /\ Serves(run.summary.asOf, run.application)
        /\ CacheTime \in Nat /\ SummaryAge \in Nat
    BY ApiAssumption, CollectionAssumption DEF SummaryInv, SummaryFresh, Answered, TypeInv, SystemOK
  <2>2. run.completed - run.application + CacheTime <= SummaryAge
    BY DEF SummaryFresh, Fresh
  <2> QED
    BY <2>1, <2>2 DEF Serves
<1> QED
  BY <1>1, <1>2, <1>3, TypeCorrect, PTL DEF Spec

-----------------------------------------------------------------------------
(* The worker deployment.                                                  *)

\* The item of the deployment shows one that was so since Kubernetes was asked.
WorkerInv ==
  /\ run.at \in {"kubernetes", "build", "done"} => run.kubernetes \in 0..now
  /\ run.at \in {"build", "done"} =>
       \/ run.deployment = NoDeployment
       \/ \E d \in DeploymentsSince(run.kubernetes) :
            run.deployment = [status |-> "OK", body |-> Normalized(d)]
  /\ run.at = "done" => run.completed = now

\* What the calls after the application leave of it.
LEMMA WorkerWhenOthersAreAsked ==
  ASSUME TypeInv, WorkerInv, CallsOthers, now' = now, deployment' = deployment,
         \A t \in 0..now : /\ deployment \in DeploymentsSince(t)
                           /\ DeploymentsSince(t) \subseteq DeploymentsSince(t)'
  PROVE  WorkerInv'
<1>1. DOMAIN run = RunFields /\ now \in Nat
  BY DEF TypeInv, RecordsOK, SystemOK
<1>2. ASSUME NEW q \in Queries, QueryRange(q) \/ RangeFails(q) \/ QueryStamp(q) \/ StampFails(q)
      PROVE  run'.at = "kafka"
  <2>1. CASE QueryRange(q)
    BY <1>1, <2>1 DEF QueryRange, RunFields
  <2>2. CASE RangeFails(q)
    BY <1>1, <2>2 DEF RangeFails, RunFields
  <2>3. CASE QueryStamp(q)
    BY <1>1, <2>3 DEF QueryStamp, RunFields
  <2>4. CASE StampFails(q)
    BY <1>1, <2>4 DEF StampFails, RunFields
  <2> QED
    BY <1>2, <2>1, <2>2, <2>3, <2>4
<1>3. CASE \E q \in Queries : QueryRange(q) \/ RangeFails(q) \/ QueryStamp(q) \/ StampFails(q)
  BY <1>2, <1>3 DEF WorkerInv
<1>4. CASE PrometheusDown \/ StartKubernetes
  <2>1. run'.at = "kubernetes" /\ run'.kubernetes = now
    BY <1>1, <1>4 DEF RunFields, PrometheusDown, StartKubernetes
  <2> QED
    BY <1>1, <2>1 DEF WorkerInv
<1>5. CASE SkipKubernetes \/ GetDeploymentFails
  <2>1. /\ run.at = "kubernetes" /\ run'.at = "build" /\ run'.kubernetes = run.kubernetes
        /\ run'.deployment = NoDeployment
    BY <1>1, <1>5 DEF RunFields, SkipKubernetes, GetDeploymentFails
  <2> QED
    BY <2>1 DEF WorkerInv
<1>6. CASE GetDeployment
  <2>1. /\ run'.at = "build" /\ run'.kubernetes = run.kubernetes /\ run.kubernetes \in 0..now
        /\ run'.deployment = [status |-> "OK", body |-> Normalized(deployment)]
    BY <1>1, <1>6 DEF RunFields, GetDeployment, WorkerInv
  <2>2. deployment \in DeploymentsSince(run.kubernetes)'
    BY <2>1
  <2>3. DeploymentsSince(run.kubernetes)' = UNION {past'[u + 1].deployments : u \in run'.kubernetes..now'}
    BY <2>1 DEF DeploymentsSince
  <2> QED
    BY <2>1, <2>2 DEF WorkerInv
<1>7. CASE Complete
  <2>1. /\ run'.at = "done" /\ run'.kubernetes = run.kubernetes /\ run.kubernetes \in 0..now
        /\ run.at = "build" /\ run'.deployment = run.deployment /\ run'.completed = now
    BY <1>1, <1>7 DEF RunFields, Complete, WorkerInv
  <2> QED
    BY <2>1 DEF WorkerInv
<1> QED
  BY <1>3, <1>4, <1>5, <1>6, <1>7 DEF CallsOthers

LEMMA ApplicationComesFirst ==
  ASSUME TypeInv, CallsApplication
  PROVE  run'.at \notin {"kubernetes", "build", "done"}
<1>1. DOMAIN run = RunFields
  BY DEF TypeInv, RecordsOK
<1>2. CASE GetContext \/ AskApplication \/ ApplicationDown \/ ReceiveReadiness
  BY <1>1, <1>2 DEF GetContext, AskApplication, ApplicationDown, ReceiveReadiness, RunFields
<1>3. CASE ReadinessFails \/ AskForSummary \/ ReceiveSummary \/ SummaryFails
  BY <1>1, <1>3 DEF ReadinessFails, AskForSummary, ReceiveSummary, SummaryFails, RunFields
<1> QED
  BY <1>2, <1>3 DEF CallsApplication

LEMMA WorkerStays ==
  ASSUME TypeInv, WorkerInv, Next
  PROVE  WorkerInv'
<1>1. /\ now \in Nat /\ now' \in {now, now + 1} /\ run.at # "done"
      /\ \A t \in 0..now : /\ deployment \in DeploymentsSince(t)
                           /\ DeploymentsSince(t) \subseteq DeploymentsSince(t)'
  BY TimeMoves, SinceGrows DEF TypeInv, SystemOK
<1>2. CASE CallsApplication
  BY <1>2, ApplicationComesFirst DEF WorkerInv
<1>3. CASE CallsOthers /\ UNCHANGED <<now, env>>
  BY <1>1, <1>3, WorkerWhenOthersAreAsked DEF env
<1>4. CASE run' = run
  <2>1. PICK k : k = run.kubernetes /\ k = run'.kubernetes
    BY <1>4
  <2>2. k \in 0..now => DeploymentsSince(k) \subseteq DeploymentsSince(k)' /\ k \in 0..now'
    BY <1>1
  <2>3. DeploymentsSince(k)' = DeploymentsSince(run.kubernetes)'
    BY <2>1 DEF DeploymentsSince
  <2> QED
    BY <1>1, <1>4, <2>1, <2>2, <2>3 DEF WorkerInv
<1> QED
  BY <1>2, <1>3, <1>4, StepKinds DEF Quiet, ApiStep

-----------------------------------------------------------------------------
(* The judgements.                                                         *)

\* A judgement is the state of its condition, or says nothing.
LEMMA JudgementIsState ==
  /\ Judged("worker") \in {"UNKNOWN", WorkerState(Bundle)}
  /\ Judged("db") \in {"UNKNOWN", DbState(Bundle)}
BY DEF Judged, Evaluation

\* The two responses of a bundle are what was collected, and their age.
LEMMA ItemsAreResults ==
  /\ "status" \in DOMAIN run.deployment => DeploymentItem.status = run.deployment.status
  /\ "body" \in DOMAIN run.deployment => DeploymentItem.body = run.deployment.body
  /\ DeploymentItem.freshness = "FRESH" => run.completed - run.kubernetes + 0 <= ResourceAge
  /\ "status" \in DOMAIN run.readiness => HealthItem.status = run.readiness.status
  /\ "body" \in DOMAIN run.readiness => HealthItem.body = run.readiness.body
  /\ HealthItem.freshness = "FRESH" => run.completed - run.application + 0 <= ReadinessAge
BY DEF DeploymentItem, HealthItem, Evidence, Freshness, Fresh

\* A deployment without a shortfall in the bundle had none when it was read.
LEMMA CompleteDeployment ==
  ASSUME NEW d \in Deployments, CountsKnown(Normalized(d)),
         Normalized(d).generation = Normalized(d).observed,
         Normalized(d).available >= Normalized(d).desired
  PROVE  d.observed = d.generation /\ d.available >= d.desired
<1>1. DOMAIN d = {"generation", "observed", "desired", "current", "available"}
  BY DEF Deployments
<1>2. /\ Normalized(d).generation = d.generation /\ Normalized(d).observed = d.observed
      /\ Normalized(d).desired = d.desired
      /\ Normalized(d).available = IF d.available = 0 THEN None ELSE d.available
  BY <1>1 DEF Normalized
<1>3. Normalized(d).available # None
  BY DEF CountsKnown
<1> QED
  BY <1>2, <1>3

\* When the worker condition is judged ABSENT, all desired workers were available, in a
\* generation the controller had seen, within the age an observation may have
\* (collectors/kubernetes.py, _evaluate_worker_unavailable).
THEOREM WorkersWereAvailable == Spec => []WorkerJudgementIsReal
<1>1. Init => WorkerInv
  BY DEF Init, WorkerInv
<1>2. TypeInv /\ WorkerInv /\ [Next]_vars => WorkerInv'
  <2>1. CASE UNCHANGED vars
    BY <2>1 DEF WorkerInv, DeploymentsSince, vars
  <2> QED
    BY <2>1, WorkerStays
<1>3. TypeInv /\ WorkerInv => WorkerJudgementIsReal
  <2> SUFFICES ASSUME TypeInv, WorkerInv, run.at = "done", Judged("worker") = "ABSENT"
               PROVE  \E d \in Recent(ResourceAge, "deployments") :
                        d.observed = d.generation /\ d.available >= d.desired
    BY DEF WorkerJudgementIsReal, Done
  <2>1. WorkerState(Bundle) = "ABSENT"
    BY JudgementIsState
  <2>2. /\ DeploymentUsable(Bundle)
        /\ DeploymentItem.body.available >= DeploymentItem.body.desired
    BY <2>1 DEF WorkerState, Bundle
  <2>3. /\ DeploymentItem.status = "OK" /\ DeploymentItem.freshness = "FRESH"
        /\ CountsKnown(DeploymentItem.body)
        /\ DeploymentItem.body.generation = DeploymentItem.body.observed
    BY <2>2 DEF DeploymentUsable, ResponseUsable, Bundle
  <2>4. /\ now \in Nat /\ run.completed = now /\ run.kubernetes \in 0..now /\ ResourceAge \in Nat
    BY CollectionAssumption DEF WorkerInv, TypeInv, SystemOK
  <2>5. \/ run.deployment = NoDeployment
        \/ \E d \in DeploymentsSince(run.kubernetes) :
             run.deployment = [status |-> "OK", body |-> Normalized(d)]
    BY DEF WorkerInv
  <2>6. "status" \in DOMAIN run.deployment
    <3>1. CASE run.deployment = NoDeployment
      BY <3>1 DEF NoDeployment
    <3>2. ASSUME NEW d, run.deployment = [status |-> "OK", body |-> Normalized(d)]
          PROVE  "status" \in DOMAIN run.deployment
      BY <3>2
    <3> QED
      BY ONLY <2>5, <3>1, <3>2
  <2>7. run.deployment.status = "OK" /\ run.completed - run.kubernetes + 0 <= ResourceAge
    BY <2>3, <2>6, ItemsAreResults
  <2>8. PICK d \in DeploymentsSince(run.kubernetes) :
          run.deployment = [status |-> "OK", body |-> Normalized(d)]
    BY <2>5, <2>7 DEF NoDeployment
  <2>9. DeploymentItem.body = Normalized(d)
    BY <2>8, ItemsAreResults
  <2>10. PICK u \in run.kubernetes..now : d \in past[u + 1].deployments
    BY <2>8 DEF DeploymentsSince
  <2>11. past[u + 1] \in Snapshots
    BY <2>4, <2>10 DEF TypeInv, PastOK
  <2>12. d \in Deployments
    BY <2>10, <2>11 DEF Snapshots
  <2>13. d.observed = d.generation /\ d.available >= d.desired
    BY <2>2, <2>3, <2>9, <2>12, CompleteDeployment
  <2>14. u \in 0..run.completed /\ u >= run.completed - ResourceAge
    BY <2>4, <2>7, <2>10
  <2>15. d \in Recent(ResourceAge, "deployments")
    BY <2>10, <2>14 DEF Recent
  <2> QED
    BY <2>13, <2>15
<1> QED
  BY <1>1, <1>2, <1>3, TypeCorrect, PTL DEF Spec

-----------------------------------------------------------------------------
(* Readiness.                                                              *)

\* With a Pgpool behind them, the counts are of two moments since t: when the nodes
\* were listed, and when the streams replaced some of them.
GroundedIn(pg, t) ==
  pg.ha => \E c, d \in ClustersSince(t) :
             c.pool = "nodes" /\ (pg = FromNodes(c) \/ pg = WithStreams(FromNodes(c), d))

ReadinessInv ==
  /\ run.at = "readiness" =>
       /\ request[Prober].at \in {"nodes", "streams", "kafka", "grace", "answered"}
       /\ request[Prober].at # "nodes" => GroundedIn(request[Prober].pg, run.application)
       /\ request[Prober].at = "streams" =>
            \E c \in ClustersSince(run.application) :
              c.pool = "nodes" /\ request[Prober].pg = FromNodes(c)
  /\ run.at \notin {"begin", "application", "readiness"} =>
       /\ "status" \in DOMAIN run.readiness
       /\ run.readiness.status = "OK" =>
            "body" \in DOMAIN run.readiness /\ GroundedIn(run.readiness.body.pg, run.application)

\* What is seen since t goes on to be seen.
LEMMA GroundedStays ==
  ASSUME TypeInv, Next, NEW t \in 0..now
  PROVE  /\ \A pg : GroundedIn(pg, t) => GroundedIn(pg, t)'
         /\ ClustersSince(t) \subseteq ClustersSince(t)' /\ cluster \in ClustersSince(t)'
BY SinceGrows DEF TypeInv, GroundedIn

\* The counts of a plain server, or of none, need no ground.
LEMMA NodesAreGrounded ==
  ASSUME TypeInv, Next, NEW t \in 0..now, NEW pg, pg = FromNodes(cluster)
  PROVE  /\ GroundedIn(pg, t)'
         /\ pg.ha => \E c \in ClustersSince(t)' : c.pool = "nodes" /\ pg = FromNodes(c)
<1>1. PICK c : c = cluster /\ c \in ClustersSince(t)' /\ pg = FromNodes(c)
  BY GroundedStays
<1>2. c.pool \in {"nodes", "direct", "down"}
  BY <1>1, ApiAssumption DEF TypeInv, SystemOK
<1>3. pg.ha => c.pool = "nodes"
  BY <1>1, <1>2 DEF FromNodes, NoPostgres
<1> QED
  BY <1>1, <1>3 DEF GroundedIn

\* Each step of the readiness route keeps them grounded.
LEMMA ReadinessRoute ==
  ASSUME TypeInv, Next, NEW t \in 0..now, RequestStep(Prober),
         request[Prober].at \in {"nodes", "streams", "kafka", "grace", "answered"},
         request[Prober].at # "nodes" => GroundedIn(request[Prober].pg, t),
         request[Prober].at = "streams" =>
           \E c \in ClustersSince(t) : c.pool = "nodes" /\ request[Prober].pg = FromNodes(c)
  PROVE  /\ request'[Prober].at \in {"streams", "kafka", "grace", "answered"}
         /\ GroundedIn(request[Prober].pg, t)'
         /\ request'[Prober].at = "streams" =>
              \E c \in ClustersSince(t)' : c.pool = "nodes" /\ request'[Prober].pg = FromNodes(c)
<1>1. /\ DOMAIN request = Clients /\ Prober \in Clients /\ "at" \in DOMAIN request[Prober]
  BY CollectionAssumption DEF TypeInv, RecordsOK
<1>2. PICK new : new = request'[Prober].pg
  OBVIOUS
<1>3. SUFFICES /\ request'[Prober].at \in {"streams", "kafka", "grace", "answered"}
               /\ GroundedIn(new, t)'
               /\ request'[Prober].at = "streams" =>
                    \E c \in ClustersSince(t)' : c.pool = "nodes" /\ new = FromNodes(c)
  BY <1>2 DEF GroundedIn
<1>4. PICK old : old = request[Prober].pg
  OBVIOUS
<1>5. request[Prober].at # "nodes" => GroundedIn(old, t)'
  BY <1>4, GroundedStays DEF GroundedIn
<1>6. CASE ReadNodes(Prober)
  <2>1. /\ new = FromNodes(cluster)
        /\ request'[Prober].at = IF new.ha /\ new.primary THEN "streams" ELSE "kafka"
    BY <1>1, <1>2, <1>6 DEF ReadNodes
  <2> QED
    BY <2>1, NodesAreGrounded
<1>7. CASE NodesFail(Prober)
  <2>1. PICK primary : request' = [request EXCEPT
          ![Prober] = [at |-> "kafka", pg |-> [NoPostgres EXCEPT !.primary = primary]]]
    BY <1>7 DEF NodesFail
  <2>2. request'[Prober].at = "kafka" /\ ~new.ha
    BY <1>1, <1>2, <2>1 DEF NoPostgres
  <2> QED
    BY <2>2 DEF GroundedIn
<1>8. CASE ReadStreams(Prober)
  <2>1. /\ request[Prober].at = "streams" /\ request'[Prober].at = "kafka"
        /\ new = WithStreams(old, cluster)
    BY <1>1, <1>2, <1>4, <1>8 DEF ReadStreams
  <2>2. PICK d : d = cluster /\ d \in ClustersSince(t)'
    BY GroundedStays
  <2>3. PICK c \in ClustersSince(t)' : c.pool = "nodes" /\ old = FromNodes(c)
    BY <1>4, <2>1, GroundedStays
  <2>4. new = WithStreams(FromNodes(c), d)
    BY <2>1, <2>2, <2>3
  <2> QED
    BY <2>1, <2>2, <2>3, <2>4 DEF GroundedIn
<1>9. CASE StreamsFail(Prober)
  <2>1. request[Prober].at = "streams" /\ request'[Prober].at = "kafka" /\ new = old
    BY <1>1, <1>2, <1>4, <1>9 DEF StreamsFail, Goto
  <2> QED
    BY <1>5, <2>1
<1>10. CASE Judge(Prober)
  <2>1. /\ request[Prober].at = "kafka" /\ request'[Prober].at \in {"grace", "answered"}
        /\ new = old
    BY <1>1, <1>2, <1>4, <1>10 DEF Judge, Answer
  <2> QED
    BY <1>5, <2>1
<1>11. CASE Grace(Prober)
  <2>1. /\ request[Prober].at = "grace" /\ request'[Prober].at = "answered"
        /\ new = old \/ ~new.ha
    BY <1>1, <1>2, <1>4, <1>11 DEF Grace, Answer, NoPostgres
  <2> QED
    BY <1>5, <2>1 DEF GroundedIn
<1>12. CASE LockSummary(Prober) \/ FetchSummary(Prober)
  BY <1>12 DEF LockSummary, FetchSummary
<1> QED
  BY <1>6, <1>7, <1>8, <1>9, <1>10, <1>11, <1>12 DEF RequestStep

\* The collection's own calls.
LEMMA ReadinessWhenApplicationIsAsked ==
  ASSUME TypeInv, SummaryInv, ReadinessInv, Next, CallsApplication, now' = now
  PROVE  ReadinessInv'
<1>1. DOMAIN run = RunFields /\ DOMAIN request = Clients /\ Prober \in Clients
  BY CollectionAssumption DEF TypeInv, RecordsOK
<1>2. CASE GetContext
  BY <1>1, <1>2 DEF GetContext, ReadinessInv, RunFields
<1>3. CASE AskApplication
  <2>1. run'.at = "readiness" /\ request'[Prober].at = "nodes"
    BY <1>1, <1>3 DEF AskApplication, AskReadiness, Goto, Idle, RunFields
  <2> QED
    BY <2>1 DEF ReadinessInv
<1>4. CASE ApplicationDown \/ ReadinessFails
  <2>1. run'.at \in {"summary", "kafka"} /\ run'.readiness = [status |-> "ERROR"]
    BY <1>1, <1>4 DEF ApplicationDown, ReadinessFails, RunFields
  <2> QED
    BY <2>1 DEF ReadinessInv
<1>5. CASE ReceiveReadiness
  <2>1. PICK answer, t : answer = request[Prober] /\ t = run.application
    OBVIOUS
  <2>2. /\ run.at = "readiness" /\ answer.at = "answered" /\ run'.at = "summary"
        /\ run'.application = t /\ run'.readiness = Received(answer)
    BY <1>1, <1>5, <2>1 DEF ReceiveReadiness, TakeAnswer, RunFields
  <2>3. t \in 0..now
    BY <2>1, <2>2 DEF SummaryInv
  <2>4. GroundedIn(answer.pg, t)
    BY <2>1, <2>2 DEF ReadinessInv
  <2>5. GroundedIn(answer.pg, t)'
    BY <2>3, <2>4, GroundedStays
  <2>6. \/ run'.readiness = [status |-> "ERROR"]
        \/ run'.readiness = [status |-> "OK", body |-> answer]
    BY <2>2 DEF Received
  <2>7. CASE run'.readiness = [status |-> "ERROR"]
    BY <2>2, <2>7 DEF ReadinessInv
  <2>8. CASE run'.readiness = [status |-> "OK", body |-> answer]
    <3>1. run'.readiness.body.pg = answer.pg
      BY <2>8
    <3>2. GroundedIn(run.readiness.body.pg, run.application)'
      BY <2>2, <2>5, <3>1 DEF GroundedIn, ClustersSince
    <3> QED
      BY <2>2, <2>8, <3>2 DEF ReadinessInv
  <2> QED
    BY <2>6, <2>7, <2>8
<1>6. CASE AskForSummary \/ ReceiveSummary \/ SummaryFails
  <2>1. PICK old, t : old = run.readiness /\ t = run.application
    OBVIOUS
  <2>2. /\ run.at \in {"summary", "reading"} /\ run'.at \in {"reading", "kafka"}
        /\ run'.application = t /\ run'.readiness = old
    BY <1>1, <1>6, <2>1 DEF AskForSummary, ReceiveSummary, SummaryFails, RunFields
  <2>3. t \in 0..now
    BY <2>1, <2>2 DEF SummaryInv
  <2>4. /\ "status" \in DOMAIN old
        /\ old.status = "OK" => "body" \in DOMAIN old /\ GroundedIn(old.body.pg, t)
    BY <2>1, <2>2 DEF ReadinessInv
  <2>5. old.status = "OK" => GroundedIn(old.body.pg, t)'
    BY <2>3, <2>4, GroundedStays
  <2>6. old.status = "OK" => GroundedIn(run.readiness.body.pg, run.application)'
    BY <2>2, <2>5 DEF GroundedIn, ClustersSince
  <2> QED
    BY <2>2, <2>4, <2>6 DEF ReadinessInv
<1> QED
  BY <1>2, <1>3, <1>4, <1>5, <1>6 DEF CallsApplication

\* What was received stays received.
LEMMA ReceivedStays ==
  ASSUME TypeInv, SummaryInv, ReadinessInv, Next,
         run.at \notin {"begin", "application", "readiness"},
         run'.at \notin {"begin", "application", "readiness"},
         run'.readiness = run.readiness, run'.application = run.application
  PROVE  ReadinessInv'
<1>1. PICK old, t : old = run.readiness /\ t = run.application
  OBVIOUS
<1>2. t \in 0..now
  BY <1>1 DEF SummaryInv
<1>3. /\ "status" \in DOMAIN old
      /\ old.status = "OK" => "body" \in DOMAIN old /\ GroundedIn(old.body.pg, t)
  BY <1>1 DEF ReadinessInv
<1>4. old.status = "OK" => GroundedIn(old.body.pg, t)'
  BY <1>2, <1>3, GroundedStays
<1>5. old.status = "OK" => GroundedIn(run.readiness.body.pg, run.application)'
  BY <1>1, <1>4 DEF GroundedIn, ClustersSince
<1> QED
  BY <1>1, <1>3, <1>5 DEF ReadinessInv

LEMMA ReadinessStays ==
  ASSUME TypeInv, SummaryInv, ReadinessInv, Next
  PROVE  ReadinessInv'
<1>1. CASE CallsApplication /\ now' = now
  BY <1>1, ReadinessWhenApplicationIsAsked
<1>2. CASE CallsOthers
  <2>1. RecordsOK
    BY DEF TypeInv
  <2> QED
    BY <1>2, <2>1, OthersComeAfter, ReceivedStays
<1>3. CASE run' = run /\ run.at # "readiness"
  <2>1. CASE run.at \in {"begin", "application"}
    BY <1>3, <2>1 DEF ReadinessInv
  <2>2. CASE run.at \notin {"begin", "application", "readiness"}
    BY <1>3, <2>2, ReceivedStays
  <2> QED
    BY <1>3, <2>1, <2>2
<1>4. CASE run' = run /\ run.at = "readiness" /\ (Quiet \/ ApiStep)
  <2>1. PICK t : t = run.application /\ t \in 0..now
    BY <1>4 DEF SummaryInv
  <2>2. /\ request[Prober].at \in {"nodes", "streams", "kafka", "grace", "answered"}
        /\ request[Prober].at # "nodes" => GroundedIn(request[Prober].pg, t)
        /\ request[Prober].at = "streams" =>
             \E c \in ClustersSince(t) : c.pool = "nodes" /\ request[Prober].pg = FromNodes(c)
    BY <1>4, <2>1 DEF ReadinessInv
  <2>3. SUFFICES
          /\ request'[Prober].at \in {"nodes", "streams", "kafka", "grace", "answered"}
          /\ request'[Prober].at # "nodes" => GroundedIn(request[Prober].pg, t)'
          /\ request'[Prober].at = "streams" =>
               \E c \in ClustersSince(t)' : c.pool = "nodes" /\ request'[Prober].pg = FromNodes(c)
    BY <1>4, <2>1 DEF ReadinessInv, GroundedIn, ClustersSince
  <2>4. CASE RequestStep(Prober)
    <3>1. /\ request'[Prober].at \in {"streams", "kafka", "grace", "answered"}
          /\ GroundedIn(request[Prober].pg, t)'
          /\ request'[Prober].at = "streams" =>
               \E c \in ClustersSince(t)' : c.pool = "nodes" /\ request'[Prober].pg = FromNodes(c)
      BY ONLY TypeInv, Next, <2>1, <2>2, <2>4, ReadinessRoute
    <3> QED
      BY ONLY <3>1
  <2>5. CASE request'[Prober] = request[Prober]
    <3>1. PICK pg : pg = request[Prober].pg /\ pg = request'[Prober].pg
      BY <2>5
    <3>2. t \in 0..now /\ (request[Prober].at # "nodes" => GroundedIn(pg, t))
      BY <2>1, <2>2, <3>1
    <3>3. request[Prober].at # "nodes" => GroundedIn(pg, t)'
      BY ONLY TypeInv, Next, <3>2, GroundedStays
    <3>4. request'[Prober].at # "nodes" => GroundedIn(request[Prober].pg, t)'
      BY <2>5, <3>1, <3>3 DEF GroundedIn
    <3>5. ClustersSince(t) \subseteq ClustersSince(t)'
      BY ONLY TypeInv, Next, <3>2, GroundedStays
    <3> QED
      BY ONLY <2>2, <2>5, <3>4, <3>5
  <2>6. CASE Quiet
    BY <2>5, <2>6 DEF Quiet, apiVars
  <2>7. CASE ApiStep
    <3>1. PICK c \in Clients :
            RequestStep(c) \/ (c \notin {Prober, Reader} /\ (OtherClient(c) \/ TakeAnswer(c)))
      BY <2>7 DEF ApiStep
    <3>2. RequestStep(c) \/ AskReadiness(c) \/ AskSummary(c) \/ TakeAnswer(c)
      BY <3>1 DEF OtherClient
    <3>3. c # Prober => request'[Prober] = request[Prober]
      BY <3>2, OneRequest, CollectionAssumption DEF TypeInv
    <3> QED
      BY <2>4, <2>5, <3>1, <3>3
  <2> QED
    BY <1>4, <2>6, <2>7
<1> QED
  BY <1>1, <1>2, <1>3, <1>4, StepKinds DEF Quiet, ApiStep

\* What the policy sees in the counts was so in one of the two moments.
LEMMA CountsAreOfAMoment ==
  ASSUME NEW c \in Clusters, NEW d \in Clusters, c.pool = "nodes",
         NEW pg, pg = FromNodes(c) \/ pg = WithStreams(FromNodes(c), d)
  PROVE  /\ pg.primary = c.primary
         /\ pg.standbys < RequiredStandbys => c.listed.standbys < RequiredStandbys
         /\ pg.standbys \in {c.listed.standbys, d.streams.standbys}
         /\ pg.sync \in {c.listed.sync, d.streams.sync}
         /\ pg.delay \in {c.listed.delay, d.streams.delay}
<1>1. /\ c.listed.standbys \in Nat /\ d.streams.standbys \in Nat /\ RequiredStandbys \in Nat
  BY ApiAssumption, CollectionAssumption
<1>2. PICK old : old = FromNodes(c)
  OBVIOUS
<1>3. old = [ha |-> TRUE, primary |-> c.primary, standbys |-> c.listed.standbys,
             sync |-> c.listed.sync, delay |-> c.listed.delay]
  BY <1>2 DEF FromNodes
<1>4. CASE pg = old
  BY <1>1, <1>3, <1>4
<1>5. CASE pg = WithStreams(old, d)
  BY <1>1, <1>3, <1>5 DEF WithStreams
<1> QED
  BY <1>2, <1>4, <1>5

LEMMA WhatIsDegraded ==
  ASSUME NEW pg
  PROVE  /\ "postgres_primary_unreachable" \in Degradations(pg) <=> ~pg.primary
         /\ "postgres_ready_standbys_below_minimum" \in Degradations(pg)
              <=> pg.standbys < RequiredStandbys
         /\ "postgres_sync_standbys_below_minimum" \in Degradations(pg) <=> pg.sync < RequiredSync
         /\ "postgres_replication_delay_high" \in Degradations(pg) <=> pg.delay > AllowedDelay
         /\ Degradations(pg) \subseteq
              {"postgres_primary_unreachable", "postgres_ready_standbys_below_minimum",
               "postgres_sync_standbys_below_minimum", "postgres_replication_delay_high"}
BY DEF Degradations

\* Since the readiness route was asked is recent enough.
LEMMA FreshIsRecent ==
  ASSUME TypeInv, SummaryInv, run.at = "done", HealthItem.freshness = "FRESH"
  PROVE  ClustersSince(run.application) \subseteq Recent(ReadinessAge, "clusters")
<1>1. /\ now \in Nat /\ run.completed = now /\ run.application \in 0..now
      /\ run.completed - run.application + 0 <= ReadinessAge /\ ReadinessAge \in Nat
  BY ItemsAreResults, CollectionAssumption DEF SummaryInv, TypeInv, SystemOK
<1>2. ASSUME NEW u \in run.application..now
      PROVE  u \in 0..run.completed /\ u >= run.completed - ReadinessAge
  BY <1>1
<1> QED
  BY <1>2 DEF ClustersSince, Recent

\* A judgement of the database rests on two moments of it.
LEMMA JudgedOnCounts ==
  ASSUME TypeInv, SummaryInv, ReadinessInv, run.at = "done",
         Judged("db") \in {"PRESENT", "ABSENT"}
  PROVE  \E c, d \in Recent(ReadinessAge, "clusters") : \E pg :
           /\ c \in Clusters /\ d \in Clusters /\ c.pool = "nodes"
           /\ pg = FromNodes(c) \/ pg = WithStreams(FromNodes(c), d)
           /\ DbReasons(Bundle) = Degradations(pg)
           /\ Judged("db") = "ABSENT" => Degradations(pg) = {}
<1>1. Judged("db") = DbState(Bundle)
  BY JudgementIsState
<1>2. /\ HealthItem.status = "OK" /\ HealthItem.freshness = "FRESH"
      /\ HealthItem.body.pg.ha
      /\ DbReasons(Bundle) = Degradations(HealthItem.body.pg)
  BY <1>1 DEF DbState, ReadinessUsable, ResponseUsable, DbCoherent, Bundle
<1>3. Judged("db") = "ABSENT" => DbReasons(Bundle) = {}
  BY <1>1 DEF DbState
<1>4. /\ "status" \in DOMAIN run.readiness
      /\ run.readiness.status = "OK" =>
           "body" \in DOMAIN run.readiness /\ GroundedIn(run.readiness.body.pg, run.application)
  BY DEF ReadinessInv
<1>5. HealthItem.body = run.readiness.body /\ GroundedIn(run.readiness.body.pg, run.application)
  BY <1>2, <1>4, ItemsAreResults
<1>6. PICK pg : pg = HealthItem.body.pg /\ pg.ha /\ GroundedIn(pg, run.application)
  BY <1>2, <1>5
<1>7. PICK c, d \in ClustersSince(run.application) :
        c.pool = "nodes" /\ (pg = FromNodes(c) \/ pg = WithStreams(FromNodes(c), d))
  BY <1>6 DEF GroundedIn
<1>8. ClustersSince(run.application) \subseteq Clusters
  <2>1. now \in Nat /\ run.application \in 0..now
    BY DEF SummaryInv, TypeInv, SystemOK
  <2>2. \A u \in run.application..now : past[u + 1] \in Snapshots
    BY <2>1 DEF TypeInv, PastOK
  <2> QED
    BY <2>2 DEF ClustersSince, Snapshots
<1>9. c \in Recent(ReadinessAge, "clusters") /\ d \in Recent(ReadinessAge, "clusters")
  BY <1>2, <1>7, FreshIsRecent
<1>10. c \in Clusters /\ d \in Clusters
  BY <1>7, <1>8
<1>11. DbReasons(Bundle) = Degradations(pg)
  BY <1>2, <1>6
<1> QED
  BY <1>3, <1>7, <1>9, <1>10, <1>11

\* DB_DEGRADED, whatever failovers fall between the queries of the readiness route and
\* before the judgement: each reason of a PRESENT was so within the age a response may
\* have, an ABSENT names nothing that was wrong all that time, and without a connection
\* all that time it is neither (get_postgres_runtime_status, _evaluate_db_degraded).
THEOREM DatabaseWasSo == Spec => []DbJudgementIsReal
<1>1. Init => SummaryInv /\ ReadinessInv
  BY DEF Init, ApiInit, SummaryInv, CacheOK, Answered, ReadinessInv
<1>2. TypeInv /\ SummaryInv /\ ReadinessInv /\ [Next]_vars => SummaryInv' /\ ReadinessInv'
  <2>1. CASE UNCHANGED vars
    <3>1. UNCHANGED <<now, run, request, cache, past>>
      BY <2>1 DEF vars, apiVars
    <3>2. SummaryInv => SummaryInv'
      BY <3>1 DEF SummaryInv, CacheOK, Answered, Serves
    <3>3. /\ ClustersSince(run.application)' = ClustersSince(run.application)
          /\ GroundedIn(request[Prober].pg, run.application)' <=>
               GroundedIn(request[Prober].pg, run.application)
          /\ GroundedIn(run.readiness.body.pg, run.application)' <=>
               GroundedIn(run.readiness.body.pg, run.application)
      BY ONLY <3>1 DEF GroundedIn, ClustersSince
    <3>4. ReadinessInv => ReadinessInv'
      BY ONLY <3>1, <3>3 DEF ReadinessInv
    <3> QED
      BY <3>2, <3>4
  <2> QED
    BY <2>1, SummaryStays, ReadinessStays
<1>3. TypeInv /\ SummaryInv /\ ReadinessInv => DbJudgementIsReal
  <2> SUFFICES ASSUME TypeInv, SummaryInv, ReadinessInv, run.at = "done"
               PROVE  DbJudgementIsReal
    BY DEF DbJudgementIsReal, Done
  <2> DEFINE clusters == Recent(ReadinessAge, "clusters")
             db == Judged("db")
  <2>1. clusters = Recent(ReadinessAge, "clusters") /\ db = Judged("db")
    OBVIOUS
  <2> HIDE DEF clusters, db
  <2>2. db \in {"PRESENT", "ABSENT", "UNKNOWN"}
    BY <2>1, JudgementIsState DEF DbState
  <2>3. ASSUME db # "UNKNOWN"
        PROVE  \E c, d \in clusters : \E pg :
                 /\ c \in Clusters /\ d \in Clusters /\ c.pool = "nodes"
                 /\ pg = FromNodes(c) \/ pg = WithStreams(FromNodes(c), d)
                 /\ DbReasons(Bundle) = Degradations(pg)
                 /\ db = "ABSENT" => Degradations(pg) = {}
    BY <2>1, <2>2, <2>3, JudgedOnCounts
  <2>4. ASSUME db = "PRESENT", NEW r \in DbReasons(Bundle)
        PROVE  \E c \in clusters :
                 CASE r = "postgres_primary_unreachable" -> ~c.primary
                   [] r = "postgres_ready_standbys_below_minimum" -> c.listed.standbys < RequiredStandbys
                   [] r = "postgres_sync_standbys_below_minimum" ->
                        c.listed.sync < RequiredSync \/ c.streams.sync < RequiredSync
                   [] r = "postgres_replication_delay_high" ->
                        c.listed.delay > AllowedDelay \/ c.streams.delay > AllowedDelay
    <3>1. PICK c \in clusters, d \in clusters : \E pg :
                 /\ c \in Clusters /\ d \in Clusters /\ c.pool = "nodes"
                 /\ pg = FromNodes(c) \/ pg = WithStreams(FromNodes(c), d)
                 /\ DbReasons(Bundle) = Degradations(pg)
      BY <2>3, <2>4
    <3>2. PICK pg : /\ c \in Clusters /\ d \in Clusters /\ c.pool = "nodes"
                    /\ pg = FromNodes(c) \/ pg = WithStreams(FromNodes(c), d)
                    /\ DbReasons(Bundle) = Degradations(pg)
      BY <3>1
    <3>3. /\ pg.primary = c.primary
          /\ pg.standbys < RequiredStandbys => c.listed.standbys < RequiredStandbys
          /\ pg.sync \in {c.listed.sync, d.streams.sync}
          /\ pg.delay \in {c.listed.delay, d.streams.delay}
      BY ONLY <3>2, CountsAreOfAMoment
    <3>4. \/ r = "postgres_primary_unreachable" /\ ~c.primary
          \/ r = "postgres_ready_standbys_below_minimum" /\ c.listed.standbys < RequiredStandbys
          \/ r = "postgres_sync_standbys_below_minimum" /\ pg.sync < RequiredSync
          \/ r = "postgres_replication_delay_high" /\ pg.delay > AllowedDelay
      BY ONLY r \in DbReasons(Bundle), <3>2, <3>3, WhatIsDegraded
    <3> QED
      BY ONLY <3>1, <3>3, <3>4
  <2>5. ASSUME db = "ABSENT"
        PROVE  /\ \E c \in clusters : c.pool = "nodes" /\ c.primary
               /\ \E c \in clusters : c.listed.standbys >= RequiredStandbys
                                        \/ c.streams.standbys >= RequiredStandbys
               /\ \E c \in clusters : c.listed.sync >= RequiredSync \/ c.streams.sync >= RequiredSync
               /\ \E c \in clusters : c.listed.delay <= AllowedDelay \/ c.streams.delay <= AllowedDelay
    <3>1. PICK c \in clusters, d \in clusters : \E pg :
                 /\ c \in Clusters /\ d \in Clusters /\ c.pool = "nodes"
                 /\ pg = FromNodes(c) \/ pg = WithStreams(FromNodes(c), d)
                 /\ Degradations(pg) = {}
      BY <2>3, <2>5
    <3>2. PICK pg : /\ c \in Clusters /\ d \in Clusters /\ c.pool = "nodes"
                    /\ pg = FromNodes(c) \/ pg = WithStreams(FromNodes(c), d)
                    /\ Degradations(pg) = {}
      BY <3>1
    <3>3. /\ pg.primary = c.primary
          /\ pg.standbys \in {c.listed.standbys, d.streams.standbys}
          /\ pg.sync \in {c.listed.sync, d.streams.sync}
          /\ pg.delay \in {c.listed.delay, d.streams.delay}
      BY ONLY <3>2, CountsAreOfAMoment
    <3>4. /\ pg.primary /\ ~(pg.standbys < RequiredStandbys) /\ ~(pg.sync < RequiredSync)
          /\ ~(pg.delay > AllowedDelay)
      BY ONLY <3>2, WhatIsDegraded
    <3>5. /\ {c.listed.standbys, c.listed.sync, c.listed.delay} \subseteq Nat
          /\ {d.streams.standbys, d.streams.sync, d.streams.delay} \subseteq Nat
          /\ {RequiredStandbys, RequiredSync, AllowedDelay} \subseteq Nat
      BY <3>2, ApiAssumption, CollectionAssumption
    <3>6. pg.standbys >= RequiredStandbys /\ pg.sync >= RequiredSync /\ pg.delay <= AllowedDelay
      BY ONLY <3>3, <3>4, <3>5
    <3> QED
      BY ONLY <3>1, <3>2, <3>3, <3>4, <3>6
  <2>6. (\A c \in clusters : c.pool = "down") => db = "UNKNOWN"
    BY <2>3
  <2> QED
    BY ONLY <2>4, <2>5, <2>6 DEF DbJudgementIsReal, clusters, db
<1> QED
  BY <1>1, <1>2, <1>3, TypeCorrect, PTL DEF Spec

-----------------------------------------------------------------------------
(* The largest of a set of numbers.                                        *)

\* Among the intervals 0..x one is in all others.
LEMMA SmallestExists ==
  ASSUME NEW T, T \subseteq Nat, T # {}
  PROVE  \E x \in T : \A y \in T : x <= y
<1>1. PICK F : F = {0..x : x \in T}
  OBVIOUS
<1>2. ASSUME NEW I \in F
      PROVE  I \subseteq Nat /\ IsFiniteSet(I)
  <2>1. PICK x \in Nat : I = 0..x
    BY <1>1
  <2>2. IsFiniteSet(0..x)
    BY FS_Interval
  <2> QED
    BY <2>1, <2>2
<1>3. F \subseteq FiniteSubsetsOf(Nat) /\ F # {}
  BY <1>1, <1>2 DEF FiniteSubsetsOf
<1>4. IsWellFoundedOn(StrictSubsetOrdering(Nat), FiniteSubsetsOf(Nat))
  BY FS_StrictSubsetOrderingWellFounded
<1>5. PICK I \in F : \A J \in F : ~ (<<J, I>> \in StrictSubsetOrdering(Nat))
  BY ONLY <1>3, <1>4, WFMin
<1>6. PICK x \in T : I = 0..x
  BY <1>1, <1>5
<1>7. ASSUME NEW y \in T, y < x
      PROVE  FALSE
  <2>1. 0..y \in F
    BY <1>1
  <2>2. 0..y \subseteq 0..x /\ x \in 0..x /\ x \notin 0..y
    BY <1>7
  <2>3. <<0..y, I>> \in StrictSubsetOrdering(Nat)
    BY <1>2, <1>6, <2>1, <2>2 DEF StrictSubsetOrdering
  <2> QED
    BY <1>5, <2>1, <2>3
<1> QED
  BY <1>7

LEMMA LargestExists ==
  ASSUME NEW n \in Nat, NEW S, S \subseteq Int, S # {}, \A x \in S : x <= n
  PROVE  Max(S) \in S /\ \A x \in S : Max(S) >= x
<1>1. PICK T : T = {n - x : x \in S}
  OBVIOUS
<1>2. T \subseteq Nat /\ T # {}
  <2>1. ASSUME NEW y \in T
        PROVE  y \in Nat
    <3>1. PICK x \in S : y = n - x
      BY <1>1
    <3>2. x \in Int /\ x <= n
      OBVIOUS
    <3> QED
      BY <3>1, <3>2
  <2> QED
    BY <1>1, <2>1
<1>3. PICK x \in T : \A y \in T : x <= y
  BY <1>2, SmallestExists
<1>4. PICK m \in S : x = n - m
  BY <1>1, <1>3
<1>5. \A y \in S : m >= y
  BY <1>1, <1>3, <1>4
<1> QED
  BY <1>5 DEF Max

-----------------------------------------------------------------------------
(* The scrapes.                                                            *)

Scrapes == [stamp : Nat, up : BOOLEAN, end : Int, committed : Int]

LagOf(s) == s.end - s.committed

\* What a scrape shows was so at its time.
IsTrue(s) == s \in Scrapes /\ s.stamp <= now /\ LagOf(s) \in past[s.stamp + 1].lags

ScrapesInv ==
  /\ scrapes \in Seq(Scrapes)
  /\ \A k \in 1..Len(scrapes) : IsTrue(scrapes[k])
  /\ \A k \in 1..Len(scrapes) : \A j \in 1..(k - 1) : scrapes[j].stamp < scrapes[k].stamp
  /\ scraping # None =>
       IsTrue(scraping) /\ \A k \in 1..Len(scrapes) : scrapes[k].stamp < scraping.stamp

\* A scrape begins at the time that begins, and is stored later.
LEMMA ScrapeSteps ==
  ASSUME Next
  PROVE  \/ UNCHANGED <<scrapes, scraping>>
         \/ /\ scraping = None /\ now' = now + 1 /\ UNCHANGED <<scrapes, broker>>
            /\ scraping' \in {None, Scrape(now')}
         \/ /\ scraping # None /\ scraping' = None
            /\ scrapes' = Append(scrapes, scraping)
                 \/ scrapes' = Append(scrapes, [scraping EXCEPT !.up = FALSE])
<1>1. CASE SystemStep
  BY <1>1 DEF SystemStep, Produce, Consume, EndScrape, Rescale, ObserveGeneration, PodLost, PodReady
<1>2. CASE Elapse
  BY <1>2 DEF Elapse, Tick
<1>3. CASE UNCHANGED env
  BY <1>3 DEF env
<1> QED
  BY <1>1, <1>2, <1>3 DEF Next

\* What was true stays true.
LEMMA TruthStays ==
  ASSUME TypeInv, Next, NEW s, IsTrue(s)
  PROVE  s \in Scrapes /\ s.stamp \in 0..now /\ s.stamp <= now' /\ LagOf(s) \in past'[s.stamp + 1].lags
<1>1. now \in Nat /\ now' \in {now, now + 1} /\ s \in Scrapes /\ s.stamp \in Nat
  BY TimeMoves DEF TypeInv, SystemOK, IsTrue, Scrapes
<1>2. s.stamp \in 0..now
  BY <1>1 DEF IsTrue
<1> QED
  BY <1>1, <1>2, PastGrows DEF TypeInv, IsTrue

\* A scrape that begins shows this moment.
LEMMA NewScrape ==
  ASSUME TypeInv, Next, UNCHANGED broker, NEW s, s = Scrape(now')
  PROVE  s \in Scrapes /\ s.stamp = now' /\ LagOf(s) \in past'[s.stamp + 1].lags
<1>1. SystemOK' /\ PastOK' /\ SystemOK
  BY SystemStays, PastGrows DEF TypeInv
<1>2. s = [stamp |-> now', up |-> TRUE, end |-> broker.end, committed |-> broker.committed]
  BY DEF Scrape
<1>3. s \in Scrapes
  BY <1>1, <1>2 DEF SystemOK, Scrapes
<1>4. LagOf(s) = Lag'
  BY <1>2 DEF LagOf, Lag
<1> QED
  BY <1>1, <1>2, <1>3, <1>4 DEF PastOK

LEMMA ScrapesStay ==
  ASSUME TypeInv, ScrapesInv, Next
  PROVE  ScrapesInv'
<1>1. now \in Nat /\ now' \in {now, now + 1}
  BY TimeMoves DEF TypeInv, SystemOK
<1>2. CASE UNCHANGED scrapes
  <2>1. /\ scrapes' \in Seq(Scrapes)
        /\ \A k \in 1..Len(scrapes') : IsTrue(scrapes[k])'
        /\ \A k \in 1..Len(scrapes') : \A j \in 1..(k - 1) : scrapes'[j].stamp < scrapes'[k].stamp
    <3>1. ASSUME NEW k \in 1..Len(scrapes')
          PROVE  IsTrue(scrapes[k])'
      <4>1. PICK s : s = scrapes[k] /\ s = scrapes'[k] /\ IsTrue(s)
        BY <1>2 DEF ScrapesInv
      <4> QED
        BY <4>1, TruthStays DEF IsTrue, LagOf
    <3> QED
      BY <1>2, <3>1 DEF ScrapesInv
  <2>2. CASE UNCHANGED scraping
    <3>1. ASSUME scraping # None PROVE IsTrue(scraping)'
      <4>1. PICK s : s = scraping /\ s = scraping' /\ IsTrue(s)
        BY <2>2, <3>1 DEF ScrapesInv
      <4> QED
        BY <4>1, TruthStays DEF IsTrue, LagOf
    <3> QED
      BY <1>2, <2>1, <2>2, <3>1 DEF ScrapesInv
  <2>3. CASE /\ scraping = None /\ now' = now + 1 /\ UNCHANGED broker
             /\ scraping' \in {None, Scrape(now')}
    <3>1. ASSUME scraping' # None
          PROVE  IsTrue(scraping)' /\ \A k \in 1..Len(scrapes') : scrapes'[k].stamp < scraping'.stamp
      <4>1. PICK s : s = scraping' /\ s = Scrape(now')
        BY <2>3, <3>1
      <4>2. s \in Scrapes /\ s.stamp = now' /\ LagOf(s) \in past'[s.stamp + 1].lags
        BY <2>3, <4>1, NewScrape
      <4>3. \A k \in 1..Len(scrapes) : scrapes[k].stamp <= now /\ scrapes[k].stamp \in Nat
        BY DEF ScrapesInv, IsTrue, Scrapes
      <4> QED
        BY <1>1, <1>2, <2>3, <4>1, <4>2, <4>3 DEF IsTrue, LagOf
    <3> QED
      BY <2>1, <3>1 DEF ScrapesInv
  <2> QED
    BY <1>2, <2>2, <2>3, ScrapeSteps
<1>3. CASE /\ scraping # None /\ scraping' = None
           /\ scrapes' = Append(scrapes, scraping)
                \/ scrapes' = Append(scrapes, [scraping EXCEPT !.up = FALSE])
  <2>1. PICK s : s \in {scraping, [scraping EXCEPT !.up = FALSE]} /\ scrapes' = Append(scrapes, s)
    BY <1>3
  <2>2. /\ s \in Scrapes /\ s.stamp = scraping.stamp /\ LagOf(s) = LagOf(scraping)
        /\ IsTrue(scraping) /\ \A k \in 1..Len(scrapes) : scrapes[k].stamp < s.stamp
    BY <1>3, <2>1 DEF ScrapesInv, IsTrue, Scrapes, LagOf
  <2>3. IsTrue(s)
    BY <2>2 DEF IsTrue
  <2>4. scrapes \in Seq(Scrapes) /\ Len(scrapes) \in Nat
    BY DEF ScrapesInv
  <2>5. /\ scrapes' \in Seq(Scrapes) /\ Len(scrapes') = Len(scrapes) + 1
        /\ \A k \in 1..Len(scrapes) : scrapes'[k] = scrapes[k]
        /\ scrapes'[Len(scrapes) + 1] = s
    BY <2>1, <2>2, <2>4
  <2>6. ASSUME NEW k \in 1..Len(scrapes')
        PROVE  /\ IsTrue(scrapes[k])'
               /\ \A j \in 1..(k - 1) : scrapes'[j].stamp < scrapes'[k].stamp
    <3>1. PICK r : r = scrapes'[k] /\ IsTrue(r)
      BY <2>3, <2>4, <2>5 DEF ScrapesInv
    <3>2. IsTrue(scrapes[k])'
      BY <3>1, TruthStays DEF IsTrue, LagOf
    <3>3. CASE k <= Len(scrapes)
      BY <2>4, <2>5, <3>2, <3>3 DEF ScrapesInv
    <3>4. CASE k = Len(scrapes) + 1
      BY <2>2, <2>4, <2>5, <3>2, <3>4
    <3> QED
      BY <2>4, <2>5, <3>3, <3>4
  <2> QED
    BY <1>3, <2>5, <2>6 DEF ScrapesInv
<1> QED
  BY <1>2, <1>3, ScrapeSteps

-----------------------------------------------------------------------------
(* What Prometheus answers.                                                *)

\* Of the scrapes that were not stored when n were, all but one began after p.
Later(n, p) ==
  /\ \A j \in 1..Len(scrapes) : j > n + 1 => scrapes[j].stamp > p
  /\ Len(scrapes) > n /\ scraping # None => scraping.stamp > p

\* The lag v was in sight at t, when n scrapes were stored and it was not before p.
Sampled(t, v, p) ==
  \E k \in 1..Len(scrapes) : \E n \in k..Len(scrapes) :
    /\ LagOf(scrapes[k]) = v /\ scrapes[k].stamp <= t
    /\ \A j \in (k + 1)..n : scrapes[j].stamp > t
    /\ Later(n, p)

\* The last point of a full range is such a lag.
RangeIsTrue(r, p) ==
  Len(r.grid) = SampleCount /\ Len(r.samples) = SampleCount =>
    r.grid[SampleCount] \in Int /\ Sampled(r.grid[SampleCount], r.samples[SampleCount], p)

\* The time of a sample is that of a scrape.
StampIsTrue(x, p) ==
  x.status = "OK" => \E m \in 1..Len(scrapes) : x.at = scrapes[m].stamp /\ x.at <= p

\* The value in sight at t is of the last scrape until then.
LEMMA WhatIsVisible ==
  ASSUME ScrapesInv, NEW t \in Int, Visible(t) # None
  PROVE  \E k \in 1..Len(scrapes) :
           /\ Visible(t) = scrapes[k] /\ scrapes[k].stamp <= t
           /\ \A j \in (k + 1)..Len(scrapes) : scrapes[j].stamp > t
<1>1. PICK before : before = {k \in DOMAIN scrapes : scrapes[k].stamp <= t}
  OBVIOUS
<1>2. /\ DOMAIN scrapes = 1..Len(scrapes) /\ Len(scrapes) \in Nat
      /\ \A k \in 1..Len(scrapes) : scrapes[k].stamp \in Nat
  BY DEF ScrapesInv, IsTrue, Scrapes
<1>3. before # {} /\ Visible(t) = scrapes[Max(before)]
  BY <1>1 DEF Visible
<1>4. before \subseteq Int /\ \A k \in before : k <= Len(scrapes)
  BY <1>1, <1>2
<1>5. Max(before) \in before /\ \A k \in before : Max(before) >= k
  BY ONLY <1>2, <1>3, <1>4, LargestExists
<1>6. ASSUME NEW j \in (Max(before) + 1)..Len(scrapes)
      PROVE  scrapes[j].stamp > t
  <2>1. Max(before) \in 1..Len(scrapes)
    BY <1>1, <1>2, <1>5
  <2>2. j \in 1..Len(scrapes) /\ ~(Max(before) >= j)
    BY <1>2, <2>1
  <2>3. j \notin before
    BY <1>5, <2>2
  <2> QED
    BY <1>1, <1>2, <2>2, <2>3
<1> QED
  BY <1>1, <1>2, <1>3, <1>5, <1>6

\* It is still so after any step.
LEMMA SampledStays ==
  ASSUME TypeInv, ScrapesInv, Next, NEW p \in 0..now, NEW t, NEW v, Sampled(t, v, p)
  PROVE  Sampled(t, v, p)'
<1>1. /\ now \in Nat /\ now' \in {now, now + 1} /\ scrapes \in Seq(Scrapes) /\ Len(scrapes) \in Nat
  BY TimeMoves DEF TypeInv, SystemOK, ScrapesInv
<1>2. PICK k \in 1..Len(scrapes) : \E n \in k..Len(scrapes) :
        /\ LagOf(scrapes[k]) = v /\ scrapes[k].stamp <= t
        /\ \A j \in (k + 1)..n : scrapes[j].stamp > t
        /\ Later(n, p)
  BY DEF Sampled
<1>3. PICK n \in k..Len(scrapes) :
        /\ LagOf(scrapes[k]) = v /\ scrapes[k].stamp <= t
        /\ \A j \in (k + 1)..n : scrapes[j].stamp > t
        /\ Later(n, p)
  BY <1>2
<1>4. SUFFICES /\ k \in 1..Len(scrapes') /\ n \in k..Len(scrapes')
               /\ \A j \in k..n : scrapes'[j] = scrapes[j]
               /\ Later(n, p)'
  <2>1. k \in k..n /\ \A j \in (k + 1)..n : j \in k..n
    BY <1>1
  <2> QED
    BY <1>3, <1>4, <2>1 DEF Sampled, LagOf
<1>5. CASE UNCHANGED <<scrapes, scraping>>
  BY <1>3, <1>5 DEF Later
<1>6. CASE /\ scraping = None /\ now' = now + 1 /\ UNCHANGED scrapes
           /\ scraping' \in {None, Scrape(now')}
  <2>1. scraping' # None => scraping'.stamp = now'
    BY <1>6 DEF Scrape
  <2> QED
    BY <1>1, <1>3, <1>6, <2>1 DEF Later
<1>7. CASE /\ scraping # None /\ scraping' = None
           /\ scrapes' = Append(scrapes, scraping)
                \/ scrapes' = Append(scrapes, [scraping EXCEPT !.up = FALSE])
  <2>1. PICK s : s \in {scraping, [scraping EXCEPT !.up = FALSE]} /\ scrapes' = Append(scrapes, s)
    BY <1>7
  <2>2. s \in Scrapes /\ s.stamp = scraping.stamp
    BY <1>7, <2>1 DEF ScrapesInv, IsTrue, Scrapes
  <2>3. /\ Len(scrapes') = Len(scrapes) + 1
        /\ \A j \in 1..Len(scrapes) : scrapes'[j] = scrapes[j]
        /\ scrapes'[Len(scrapes) + 1] = s
    BY <1>1, <2>1, <2>2
  <2>4. ASSUME NEW j \in 1..Len(scrapes'), j > n + 1
        PROVE  scrapes'[j].stamp > p
    <3>1. CASE j <= Len(scrapes)
      BY <1>1, <1>3, <2>3, <2>4, <3>1 DEF Later
    <3>2. CASE j = Len(scrapes) + 1
      <4>1. Len(scrapes) > n
        BY <1>1, <2>4, <3>2
      <4> QED
        BY <1>3, <1>7, <2>2, <2>3, <3>2, <4>1 DEF Later
    <3> QED
      BY <1>1, <2>3, <3>1, <3>2
  <2>5. Later(n, p)'
    BY <1>7, <2>4 DEF Later
  <2>6. /\ k \in 1..Len(scrapes') /\ n \in k..Len(scrapes')
        /\ \A j \in k..n : j \in 1..Len(scrapes)
    BY <1>1, <2>3
  <2> QED
    BY <2>3, <2>5, <2>6
<1> QED
  BY <1>5, <1>6, <1>7, ScrapeSteps

\* The last of a set in order is in it.
LEMMA LastInOrder ==
  ASSUME NEW P, NEW n, n \in 1..n, NEW s,
         s = [k \in 1..n |-> CHOOSE t \in P : Cardinality({u \in P : u <= t}) = k],
         \E t \in P : Cardinality({u \in P : u <= t}) = n
  PROVE  s[n] \in P
BY Zenon

\* A range that is answered ends in a lag that is in sight.
LEMMA RangeShowsLag ==
  ASSUME TypeInv, ScrapesInv, NEW p \in 0..now, p = run.prometheus, NEW r, r = RangeOf("lag")
  PROVE  RangeIsTrue(r, p)
<1> SUFFICES ASSUME Len(r.grid) = SampleCount, Len(r.samples) = SampleCount
             PROVE  /\ r.grid[SampleCount] \in Int
                    /\ Sampled(r.grid[SampleCount], r.samples[SampleCount], p)
  BY DEF RangeIsTrue
<1>1. now \in Nat /\ p \in Int /\ SampleCount \in Nat /\ SampleCount >= 2 /\ Len(scrapes) \in Nat
  BY EvidenceAssumption DEF TypeInv, SystemOK, ScrapesInv
<1>2. PICK points : points = {t \in Grid : Visible(t) # None}
  OBVIOUS
<1>3. Grid = (p - SampleCount + 1)..p
  BY DEF Grid
<1>4. IsFiniteSet(Grid)
  <2>1. p - SampleCount + 1 \in Int
    BY <1>1
  <2>2. IsFiniteSet((p - SampleCount + 1)..p)
    BY ONLY <1>1, <2>1, FS_Interval
  <2> QED
    BY ONLY <1>3, <2>2
<1>5. IsFiniteSet(points) /\ points \subseteq Grid
  BY <1>2, <1>4, FS_Subset
<1>6. PICK n : n = Cardinality(points) /\ n \in Nat
  BY <1>5, FS_CardinalityType
<1>7. PICK g : g = r.grid /\ g = [k \in 1..n |-> CHOOSE t \in points : Cardinality({u \in points : u <= t}) = k]
  <2>1. r.grid = [k \in 1..n |-> CHOOSE t \in points : Cardinality({u \in points : u <= t}) = k]
    BY <1>2, <1>6 DEF RangeOf
  <2> QED
    BY ONLY <2>1, Zenon
<1>8. n = SampleCount
  BY <1>6, <1>7
<1>9. points # {}
  <2>1. points = {} => Cardinality(points) = 0
    BY ONLY FS_EmptySet, Zenon
  <2> QED
    BY ONLY <1>1, <1>6, <1>8, <2>1
<1>10. points \subseteq Int /\ \A t \in points : t <= p
  BY <1>1, <1>3, <1>5
<1>11. p \in Nat
  BY <1>1
<1>12. Max(points) \in points /\ \A t \in points : Max(points) >= t
  BY ONLY <1>9, <1>10, <1>11, LargestExists
<1>13. Cardinality({u \in points : u <= Max(points)}) = n
  <2>1. {u \in points : u <= Max(points)} = points
    BY <1>10, <1>12
  <2> QED
    BY <1>6, <2>1
<1>14. n \in 1..n
  BY <1>1, <1>8
<1>15. g[n] \in points
  BY ONLY <1>7, <1>12, <1>13, <1>14, LastInOrder
<1>16. PICK last \in points : last = r.grid[SampleCount]
  BY <1>7, <1>8, <1>15
<1>17. r.samples = [k \in DOMAIN r.grid |-> Shown("lag", Visible(r.grid[k]))]
  BY DEF RangeOf
<1>18. r.samples[SampleCount] = Shown("lag", Visible(last))
  BY <1>7, <1>8, <1>14, <1>16, <1>17
<1>19. last \in Int /\ Visible(last) # None
  BY <1>2, <1>10, <1>16
<1>20. PICK k \in 1..Len(scrapes) :
         /\ Visible(last) = scrapes[k] /\ scrapes[k].stamp <= last
         /\ \A j \in (k + 1)..Len(scrapes) : scrapes[j].stamp > last
  BY <1>19, WhatIsVisible
<1>21. r.samples[SampleCount] = LagOf(scrapes[k])
  BY <1>18, <1>20 DEF Shown, LagOf
<1>22. Len(scrapes) \in k..Len(scrapes) /\ Later(Len(scrapes), p)
  BY <1>1 DEF Later
<1>23. Sampled(last, r.samples[SampleCount], p)
  BY <1>20, <1>21, <1>22 DEF Sampled
<1> QED
  BY <1>16, <1>19, <1>23

\* A timestamp that is answered is that of a scrape.
LEMMA StampShowsScrape ==
  ASSUME TypeInv, ScrapesInv, NEW p \in 0..now, p = run.prometheus, NEW x, x = StampOf
  PROVE  StampIsTrue(x, p)
<1> SUFFICES ASSUME x.status = "OK"
             PROVE  \E m \in 1..Len(scrapes) : x.at = scrapes[m].stamp /\ x.at <= p
  BY DEF StampIsTrue
<1>1. p \in Int
  OBVIOUS
<1>2. Visible(p) # None /\ x.at = Visible(p).stamp
  BY DEF StampOf
<1>3. PICK m \in 1..Len(scrapes) : Visible(p) = scrapes[m] /\ scrapes[m].stamp <= p
  BY <1>1, <1>2, WhatIsVisible
<1> QED
  BY <1>2, <1>3

-----------------------------------------------------------------------------
(* The queries of the collection.                                          *)

QueriesOK == DOMAIN run.range = Queries /\ DOMAIN run.stamp = Queries

\* The range is asked for first, then the time of the sample, both after the application.
BacklogInv ==
  /\ QueriesOK
  /\ run.at \notin Answered => run.range["lag"] = None /\ run.stamp["lag"] = None
  /\ run.at \in Answered => run.prometheus \in 0..now
  /\ run.at = "kafka" /\ run.stamp["lag"] # None => run.range["lag"] # None
  /\ run.at \in Answered /\ (run.range["lag"] # None \/ run.at # "kafka") =>
       RangeIsTrue(run.range["lag"], run.prometheus)
  /\ run.at \in Answered /\ (run.stamp["lag"] # None \/ run.at # "kafka") =>
       StampIsTrue(run.stamp["lag"], run.prometheus)

\* An answer stays true after any step.
LEMMA AnswersStay ==
  ASSUME TypeInv, ScrapesInv, Next, NEW p \in 0..now
  PROVE  /\ \A r : RangeIsTrue(r, p) => RangeIsTrue(r, p)'
         /\ \A x : StampIsTrue(x, p) => StampIsTrue(x, p)'
<1>1. ASSUME NEW r, RangeIsTrue(r, p)
      PROVE  RangeIsTrue(r, p)'
  <2>1. PICK t, v : t = r.grid[SampleCount] /\ v = r.samples[SampleCount]
    OBVIOUS
  <2>2. Sampled(t, v, p) => Sampled(t, v, p)'
    BY SampledStays
  <2> QED
    BY <1>1, <2>1, <2>2 DEF RangeIsTrue
<1>2. ASSUME NEW x, StampIsTrue(x, p)
      PROVE  StampIsTrue(x, p)'
  <2>1. \A m \in 1..Len(scrapes) : m \in 1..Len(scrapes') /\ scrapes'[m].stamp = scrapes[m].stamp
    <3>1. scrapes \in Seq(Scrapes) /\ Len(scrapes) \in Nat
      BY DEF ScrapesInv
    <3>2. CASE scrapes' = scrapes
      BY <3>2
    <3>3. ASSUME scraping # None, NEW s \in {scraping, [scraping EXCEPT !.up = FALSE]},
                 scrapes' = Append(scrapes, s)
          PROVE  \A m \in 1..Len(scrapes) : m \in 1..Len(scrapes') /\ scrapes'[m] = scrapes[m]
      <4>1. s \in Scrapes
        BY <3>3 DEF ScrapesInv, IsTrue, Scrapes
      <4> QED
        BY ONLY <3>1, <3>3, <4>1
    <3> QED
      BY <3>2, <3>3, ScrapeSteps
  <2> QED
    BY <1>2, <2>1 DEF StampIsTrue
<1> QED
  BY <1>1, <1>2

\* After a step the queries are answered as before it would have been true.
LEMMA QueriesAnswered ==
  ASSUME TypeInv, ScrapesInv, Next, run'.at \in Answered, QueriesOK',
         NEW p \in 0..now, p = run'.prometheus,
         NEW r, r = run'.range["lag"], NEW x, x = run'.stamp["lag"],
         run'.at = "kafka" /\ x # None => r # None,
         r # None \/ run'.at # "kafka" => RangeIsTrue(r, p),
         x # None \/ run'.at # "kafka" => StampIsTrue(x, p)
  PROVE  BacklogInv'
<1>1. p \in 0..now'
  BY TimeMoves DEF TypeInv, SystemOK
<1>2. /\ RangeIsTrue(r, p) => RangeIsTrue(r, p)'
      /\ StampIsTrue(x, p) => StampIsTrue(x, p)'
  BY AnswersStay
<1>3. /\ RangeIsTrue(r, p)' => RangeIsTrue(run.range["lag"], run.prometheus)'
      /\ StampIsTrue(x, p)' => StampIsTrue(run.stamp["lag"], run.prometheus)'
  BY DEF RangeIsTrue, StampIsTrue, Sampled, Later
<1> QED
  BY <1>1, <1>2, <1>3 DEF BacklogInv

\* The steps of a collection that leave its queries as they are.
LEMMA QueriesStay ==
  ASSUME TypeInv, ScrapesInv, BacklogInv, Next, run.at \in Answered, run'.at \in Answered,
         run.at = "kafka" => run'.at = "kafka" \/ run.stamp["lag"] # None,
         run'.at = "kafka" => run.at = "kafka", run'.prometheus = run.prometheus,
         run'.range = run.range, run'.stamp = run.stamp
  PROVE  BacklogInv'
<1>1. PICK p, r, x : p = run.prometheus /\ r = run.range["lag"] /\ x = run.stamp["lag"]
  OBVIOUS
<1>2. /\ p \in 0..now /\ QueriesOK'
      /\ r # None \/ run.at # "kafka" => RangeIsTrue(r, p)
      /\ x # None \/ run.at # "kafka" => StampIsTrue(x, p)
      /\ run.at = "kafka" /\ x # None => r # None
  BY <1>1 DEF BacklogInv, QueriesOK
<1> QED
  BY <1>1, <1>2, QueriesAnswered

\* The application leaves the queries to be asked, and sets the time they ask for.
LEMMA ApplicationAsksNothing ==
  ASSUME TypeInv, CallsApplication
  PROVE  /\ run.at \notin Answered /\ run'.range = run.range /\ run'.stamp = run.stamp
         /\ run'.at \in Answered => run'.at = "kafka" /\ run'.prometheus = now
<1>1. DOMAIN run = RunFields
  BY DEF TypeInv, RecordsOK
<1>2. CASE GetContext \/ AskApplication \/ ApplicationDown \/ ReceiveReadiness
  BY <1>1, <1>2 DEF GetContext, AskApplication, ApplicationDown, ReceiveReadiness, RunFields, Answered
<1>3. CASE ReadinessFails \/ AskForSummary \/ ReceiveSummary \/ SummaryFails
  BY <1>1, <1>3 DEF ReadinessFails, AskForSummary, ReceiveSummary, SummaryFails, RunFields, Answered
<1> QED
  BY <1>2, <1>3 DEF CallsApplication

LEMMA BacklogWhenApplicationIsAsked ==
  ASSUME TypeInv, BacklogInv, CallsApplication, UNCHANGED now
  PROVE  BacklogInv'
<1>1. now \in Nat /\ now' = now
  BY DEF TypeInv, SystemOK
<1>2. QueriesOK /\ run.range["lag"] = None /\ run.stamp["lag"] = None
  BY ApplicationAsksNothing DEF BacklogInv
<1>3. QueriesOK'
  BY <1>2, ApplicationAsksNothing DEF QueriesOK
<1> QED
  BY <1>1, <1>2, <1>3, ApplicationAsksNothing DEF BacklogInv

\* A query that is asked of Prometheus, or fails.
LEMMA BacklogWhenPrometheusIsAsked ==
  ASSUME TypeInv, ScrapesInv, BacklogInv, Next, NEW q \in Queries,
         QueryRange(q) \/ RangeFails(q) \/ QueryStamp(q) \/ StampFails(q)
  PROVE  BacklogInv'
<1>1. PICK p, r, x : p = run.prometheus /\ r = run.range["lag"] /\ x = run.stamp["lag"]
  OBVIOUS
<1>2. DOMAIN run = RunFields /\ run.at = "kafka" /\ "lag" \in Queries
  BY DEF TypeInv, RecordsOK, QueryRange, RangeFails, QueryStamp, StampFails, Queries
<1>3. /\ QueriesOK /\ p \in 0..now
      /\ r # None => RangeIsTrue(r, p)
      /\ x # None => StampIsTrue(x, p) /\ r # None
  BY <1>1, <1>2 DEF BacklogInv, Answered
<1>4. CASE QueryRange(q) \/ RangeFails(q)
  <2>1. PICK a : /\ a = RangeOf(q) \/ a = NoRange
                 /\ run' = [run EXCEPT !.range = [run.range EXCEPT ![q] = a]]
    BY <1>4 DEF QueryRange, RangeFails
  <2>2. q = "lag" => r = None
    BY <1>1, <1>4 DEF QueryRange, RangeFails
  <2>3. /\ run'.at = "kafka" /\ run'.prometheus = p /\ run'.stamp = run.stamp
        /\ run'.range = [run.range EXCEPT ![q] = a]
    BY <1>1, <1>2, <2>1 DEF RunFields
  <2>4. run'.range["lag"] = (IF q = "lag" THEN a ELSE r) /\ QueriesOK' /\ run'.stamp["lag"] = x
    BY <1>1, <1>2, <1>3, <2>3 DEF QueriesOK
  <2>5. q = "lag" => RangeIsTrue(a, p)
    <3>1. a = RangeOf("lag") => RangeIsTrue(a, p)
      BY <1>1, <1>3, RangeShowsLag
    <3>2. a = NoRange => Len(a.samples) # SampleCount
      BY EvidenceAssumption DEF NoRange
    <3> QED
      BY <2>1, <3>1, <3>2 DEF RangeIsTrue
  <2>6. PICK b : b = run'.range["lag"] /\ (b # None => RangeIsTrue(b, p)) /\ (x # None => b # None)
    BY <1>3, <2>2, <2>4, <2>5
  <2> QED
    BY <1>1, <1>3, <2>3, <2>4, <2>6, QueriesAnswered DEF Answered
<1>5. CASE QueryStamp(q) \/ StampFails(q)
  <2>1. PICK a : /\ a = StampOf \/ a = [status |-> "ERROR"]
                 /\ run' = [run EXCEPT !.stamp = [run.stamp EXCEPT ![q] = a]]
    BY <1>5 DEF QueryStamp, StampFails
  <2>2. q = "lag" => r # None
    BY <1>1, <1>5 DEF QueryStamp, StampFails
  <2>3. /\ run'.at = "kafka" /\ run'.prometheus = p /\ run'.range = run.range
        /\ run'.stamp = [run.stamp EXCEPT ![q] = a]
    BY <1>1, <1>2, <2>1 DEF RunFields
  <2>4. run'.stamp["lag"] = (IF q = "lag" THEN a ELSE x) /\ QueriesOK' /\ run'.range["lag"] = r
    BY <1>1, <1>2, <1>3, <2>3 DEF QueriesOK
  <2>5. q = "lag" => StampIsTrue(a, p)
    <3>1. a = StampOf => StampIsTrue(a, p)
      BY <1>1, <1>3, StampShowsScrape
    <3> QED
      BY <2>1, <3>1 DEF StampIsTrue
  <2>6. PICK b : b = run'.stamp["lag"] /\ (b # None => StampIsTrue(b, p) /\ r # None)
    BY <1>3, <2>2, <2>4, <2>5
  <2> QED
    BY <1>1, <1>3, <2>3, <2>4, <2>6, QueriesAnswered DEF Answered
<1> QED
  BY <1>4, <1>5

LEMMA BacklogWhenOthersAreAsked ==
  ASSUME TypeInv, ScrapesInv, BacklogInv, Next, CallsOthers
  PROVE  BacklogInv'
<1>1. DOMAIN run = RunFields /\ run.at \in Answered /\ "lag" \in Queries
  BY OthersComeAfter DEF TypeInv, RecordsOK, Answered, Queries
<1>2. CASE \E q \in Queries : QueryRange(q) \/ RangeFails(q) \/ QueryStamp(q) \/ StampFails(q)
  BY <1>2, BacklogWhenPrometheusIsAsked
<1>3. CASE PrometheusDown
  <2>1. PICK p, r, x : p = run'.prometheus /\ r = run'.range["lag"] /\ x = run'.stamp["lag"]
    OBVIOUS
  <2>2. /\ p = run.prometheus /\ run'.at = "kubernetes" /\ QueriesOK'
        /\ r = NoRange /\ x = [status |-> "ERROR"]
    BY <1>1, <1>3, <2>1 DEF PrometheusDown, RunFields, QueriesOK
  <2>3. p \in 0..now /\ run'.at \in Answered
    BY <1>1, <2>2 DEF BacklogInv, Answered
  <2>4. RangeIsTrue(r, p) /\ StampIsTrue(x, p)
    BY <2>2, EvidenceAssumption DEF RangeIsTrue, StampIsTrue, NoRange
  <2>5. run'.at # "kafka"
    BY <2>2
  <2> QED
    BY <2>1, <2>2, <2>3, <2>4, <2>5, QueriesAnswered
<1>4. CASE StartKubernetes \/ SkipKubernetes \/ GetDeployment \/ GetDeploymentFails \/ Complete
  <2>1. /\ run'.at \in Answered /\ run'.prometheus = run.prometheus
        /\ run'.range = run.range /\ run'.stamp = run.stamp
        /\ run'.at # "kafka" /\ (run.at = "kafka" => run.stamp["lag"] # None)
    BY <1>1, <1>4 DEF StartKubernetes, SkipKubernetes, GetDeployment, GetDeploymentFails, Complete,
         RunFields, Answered
  <2> QED
    BY <1>1, <2>1, QueriesStay
<1> QED
  BY <1>2, <1>3, <1>4 DEF CallsOthers

LEMMA BacklogStays ==
  ASSUME TypeInv, ScrapesInv, BacklogInv, Next
  PROVE  BacklogInv'
<1>1. CASE CallsApplication /\ UNCHANGED now
  BY <1>1, BacklogWhenApplicationIsAsked
<1>2. CASE CallsOthers
  BY <1>2, BacklogWhenOthersAreAsked
<1>3. CASE run' = run
  <2>1. CASE run.at \in Answered
    <3>1. QueriesOK' 
      BY <1>3 DEF BacklogInv, QueriesOK
    <3> QED
      BY <1>3, <2>1, QueriesStay
  <2>2. CASE run.at \notin Answered
    <3>1. run'.at \notin Answered /\ QueriesOK' /\ run'.range["lag"] = None /\ run'.stamp["lag"] = None
      BY <1>3, <2>2 DEF BacklogInv, QueriesOK
    <3> QED
      BY <3>1 DEF BacklogInv, Answered
  <2> QED
    BY <2>1, <2>2
<1> QED
  BY <1>1, <1>2, <1>3, StepKinds DEF Quiet, ApiStep

-----------------------------------------------------------------------------
(* No backlog.                                                             *)

LEMMA NoQueryAtFirst ==
  ASSUME Init
  PROVE  ScrapesInv /\ BacklogInv
<1>1. now \in Nat /\ broker \in [end : Int, committed : Int]
  BY EvidenceAssumption, CollectionAssumption DEF Init
<1>2. BacklogInv
  BY DEF Init, BacklogInv, QueriesOK, Answered, Queries
<1>3. past = [k \in 1..(now + 1) |-> Observed] /\ Observed.lags = {Lag}
  BY DEF Init, Observed
<1>4. ASSUME NEW k \in 1..now
      PROVE  Scrape(k - 1) \in Scrapes /\ Scrape(k - 1).stamp = k - 1 /\ IsTrue(Scrape(k - 1))
  <2>1. PICK s : s = Scrape(k - 1)
    OBVIOUS
  <2>2. s = [stamp |-> k - 1, up |-> TRUE, end |-> broker.end, committed |-> broker.committed]
    BY <2>1 DEF Scrape
  <2>3. k - 1 \in Nat
    BY <1>1
  <2>4. s \in Scrapes
    BY <1>1, <2>2, <2>3 DEF Scrapes
  <2>5. s.stamp = k - 1 /\ LagOf(s) = Lag
    BY <2>2 DEF LagOf, Lag
  <2>6. IsTrue(s)
    BY <1>1, <1>3, <2>4, <2>5 DEF IsTrue
  <2> QED
    BY <2>1, <2>4, <2>5, <2>6
<1>5. scrapes = [k \in 1..now |-> Scrape(k - 1)] /\ scraping = None
  BY DEF Init
<1>6. /\ scrapes \in Seq(Scrapes) /\ Len(scrapes) = now
      /\ \A k \in 1..Len(scrapes) : scrapes[k] = Scrape(k - 1)
  BY <1>1, <1>4, <1>5
<1>7. ASSUME NEW k \in 1..Len(scrapes), NEW j \in 1..(k - 1)
      PROVE  scrapes[j].stamp < scrapes[k].stamp
  <2>1. k \in 1..now /\ j \in 1..now /\ j < k
    BY <1>1, <1>6
  <2> QED
    BY <1>1, <1>4, <1>6, <2>1
<1>8. \A k \in 1..Len(scrapes) : IsTrue(scrapes[k])
  BY <1>4, <1>6
<1> QED
  BY <1>2, <1>5, <1>6, <1>7, <1>8 DEF ScrapesInv

\* No two scrapes in a row lie further apart than Gap.
LEMMA GapIsLargest ==
  ASSUME TypeInv, ScrapesInv
  PROVE  /\ Gap \in Int /\ Gap >= 1
         /\ \A k \in 2..Len(scrapes) : scrapes[k].stamp - scrapes[k - 1].stamp <= Gap
<1>1. PICK S : S = {1} \cup {scrapes[k].stamp - scrapes[k-1].stamp : k \in 2..Len(scrapes)}
  OBVIOUS
<1>2. now \in Nat /\ now + 1 \in Nat
  BY DEF TypeInv, SystemOK
<1>3. \A k \in 1..Len(scrapes) : scrapes[k].stamp \in Nat /\ scrapes[k].stamp <= now
  BY DEF ScrapesInv, IsTrue, Scrapes
<1>4. ASSUME NEW d \in S
      PROVE  d \in Int /\ d <= now + 1
  <2>1. CASE d = 1
    BY <1>2, <2>1
  <2>2. ASSUME NEW k \in 2..Len(scrapes), d = scrapes[k].stamp - scrapes[k-1].stamp
        PROVE  d \in Int /\ d <= now + 1
    <3>1. k \in 1..Len(scrapes) /\ k - 1 \in 1..Len(scrapes)
      BY DEF ScrapesInv
    <3> QED
      BY <1>2, <1>3, <2>2, <3>1
  <2> QED
    BY <1>1, <2>1, <2>2
<1>5. S \subseteq Int /\ 1 \in S
  BY <1>1, <1>4
<1>6. Max(S) \in S /\ \A d \in S : Max(S) >= d
  BY ONLY <1>2, <1>4, <1>5, LargestExists
<1> QED
  BY <1>1, <1>5, <1>6 DEF Gap

\* A value in sight at t was scraped at most one Gap before a time that is not after t and
\* that was asked for later.
LEMMA StampMeetsSample ==
  ASSUME TypeInv, ScrapesInv, NEW t \in Int, NEW v, NEW p, Sampled(t, v, p),
         NEW x, x.status = "OK", StampIsTrue(x, p), x.at <= t, p \in Int
  PROVE  \E k \in 1..Len(scrapes) : LagOf(scrapes[k]) = v /\ scrapes[k].stamp >= x.at - Gap
<1>1. /\ Len(scrapes) \in Nat /\ \A k \in 1..Len(scrapes) : scrapes[k].stamp \in Nat
      /\ \A k \in 1..Len(scrapes) : \A j \in 1..(k - 1) : scrapes[j].stamp < scrapes[k].stamp
  BY DEF ScrapesInv, IsTrue, Scrapes
<1>2. PICK k \in 1..Len(scrapes) : \E n \in k..Len(scrapes) :
        /\ LagOf(scrapes[k]) = v /\ scrapes[k].stamp <= t
        /\ \A j \in (k + 1)..n : scrapes[j].stamp > t
        /\ Later(n, p)
  BY DEF Sampled
<1>3. PICK n \in k..Len(scrapes) :
        /\ LagOf(scrapes[k]) = v /\ scrapes[k].stamp <= t
        /\ \A j \in (k + 1)..n : scrapes[j].stamp > t
        /\ Later(n, p)
  BY <1>2
<1>4. PICK m \in 1..Len(scrapes) : x.at = scrapes[m].stamp /\ x.at <= p
  BY DEF StampIsTrue
<1>5. /\ Gap \in Int /\ Gap >= 1
      /\ \A i \in 2..Len(scrapes) : scrapes[i].stamp - scrapes[i - 1].stamp <= Gap
  BY GapIsLargest
<1>6. CASE m <= k
  <2>1. m = k \/ m \in 1..(k - 1)
    BY <1>1, <1>6
  <2>2. scrapes[m].stamp <= scrapes[k].stamp
    BY <1>1, <2>1
  <2> QED
    BY <1>1, <1>3, <1>4, <1>5, <2>2
<1>7. CASE m > k /\ m <= n
  <2>1. m \in (k + 1)..n
    BY <1>1, <1>7
  <2> QED
    BY <1>1, <1>3, <1>4, <2>1
<1>8. CASE m = n + 1
  <2>1. CASE n = k
    <3>1. m \in 2..Len(scrapes) /\ m - 1 = k
      BY <1>1, <1>8, <2>1
    <3> QED
      BY <1>1, <1>3, <1>4, <1>5, <3>1
  <2>2. CASE n > k
    <3>1. n \in (k + 1)..n /\ n \in 1..(m - 1) /\ n \in 1..Len(scrapes)
      BY <1>1, <1>8, <2>2
    <3>2. scrapes[n].stamp > t /\ scrapes[n].stamp < scrapes[m].stamp
      BY <1>1, <1>3, <3>1
    <3> QED
      BY <1>1, <1>4, <3>1, <3>2
  <2> QED
    BY <1>1, <2>1, <2>2
<1>9. CASE m > n + 1
  <2>1. scrapes[m].stamp > p
    BY <1>3, <1>9 DEF Later
  <2> QED
    BY <1>1, <1>4, <2>1
<1> QED
  BY <1>1, <1>6, <1>7, <1>8, <1>9

\* Only a full range of fresh zeros, sampled when it was collected, shows that there is no backlog.
LEMMA ZeroSamples ==
  ASSUME Judged("noBacklog") = "PRESENT", NEW r, r = run.range["lag"], NEW x, x = run.stamp["lag"]
  PROVE  /\ Len(r.grid) = SampleCount /\ Len(r.samples) = SampleCount
         /\ r.samples[SampleCount] = 0
         /\ x.status = "OK" /\ r.grid[SampleCount] - x.at \in 0..SourceAge
         /\ run.completed - x.at + 0 <= SampleAge
<1>0. Bundle.lag = SeriesItems("lag")
  BY DEF Bundle
<1>1. PICK b : b = Bundle /\ b.lag = SeriesItems("lag")
  BY <1>0
<1>2. CoreState(b) = "ABSENT"
  <2>1. Judged("noBacklog") \in {"UNKNOWN", Assessment({CoreState(b), ConcentrationState(b)})}
    BY <1>1 DEF Judged, Evaluation
  <2>2. {CoreState(b), ConcentrationState(b)} = {"ABSENT"}
    BY <2>1 DEF Assessment
  <2> QED
    BY <2>2
<1>3. FamilyUsable(b, b.lag, FALSE) /\ AllZero(b.lag)
  BY <1>2 DEF CoreState, CoreUsable
<1>4. PICK i \in SeriesItems("lag") : ItemUsable(i) /\ SeriesUsable(b, i, FALSE)
  BY <1>1, <1>3 DEF FamilyUsable, DependencyUsable
<1>5. PICK y \in Series("lag") :
        /\ i.grid = y.grid /\ i.samples = y.samples /\ i.stamp = SourceTimestamp("lag")
        /\ i.freshness = IF SourceTimestamp("lag") = None THEN "UNKNOWN"
             ELSE Freshness(SourceTimestamp("lag") # None /\ Fresh(SourceTimestamp("lag"), SampleAge, 0))
  BY <1>4 DEF SeriesItems
<1>6. y.grid = r.grid /\ y.samples = r.samples
  BY <1>5 DEF Series
<1>7. i.freshness = "FRESH" /\ i.stamp # None
  BY <1>4 DEF ItemUsable
<1>8. x.status = "OK" /\ i.stamp = x.at /\ Fresh(x.at, SampleAge, 0)
  BY <1>5, <1>7 DEF SourceTimestamp, Freshness
<1>9. /\ Len(i.grid) = SampleCount /\ Len(i.samples) = SampleCount
      /\ i.grid[SampleCount] - i.stamp \in 0..SourceAge
  BY <1>4 DEF SeriesUsable, Last
<1>10. i.samples[SampleCount] = 0
  BY <1>1, <1>3, <1>4, <1>9, EvidenceAssumption DEF AllZero
<1> QED
  BY <1>5, <1>6, <1>8, <1>9, <1>10 DEF Fresh

\* When no backlog is judged PRESENT there was no lag at some time within the age a sample may
\* have and the time between two scrapes, however the range query, the query for the time of
\* its samples and the scrapes interleave (collectors/prometheus.py, _assess_no_backlog).
THEOREM BacklogWasGone == Spec => []NoBacklogIsReal
<1>1. Init => ScrapesInv /\ BacklogInv /\ SummaryInv
  BY NoQueryAtFirst DEF Init, ApiInit, SummaryInv, CacheOK, Answered
<1>2. TypeInv /\ ScrapesInv /\ BacklogInv /\ SummaryInv /\ [Next]_vars
        => ScrapesInv' /\ BacklogInv' /\ SummaryInv'
  <2>1. CASE UNCHANGED vars
    <3>1. UNCHANGED <<now, run, request, cache, past, scrapes, scraping>>
      BY <2>1 DEF vars, apiVars, env
    <3>2. SummaryInv => SummaryInv'
      BY <3>1 DEF SummaryInv, CacheOK, Answered, Serves
    <3>3. ScrapesInv => ScrapesInv'
      BY <3>1 DEF ScrapesInv, IsTrue, LagOf
    <3>4. BacklogInv => BacklogInv'
      BY <3>1 DEF BacklogInv, QueriesOK, RangeIsTrue, StampIsTrue, Sampled, Later, LagOf
    <3> QED
      BY <3>2, <3>3, <3>4
  <2> QED
    BY <2>1, SummaryStays, ScrapesStay, BacklogStays
<1>3. TypeInv /\ ScrapesInv /\ BacklogInv /\ SummaryInv => NoBacklogIsReal
  <2> SUFFICES ASSUME TypeInv, ScrapesInv, BacklogInv, SummaryInv,
                      run.at = "done", Judged("noBacklog") = "PRESENT"
               PROVE  0 \in Recent(SampleAge + Gap, "lags")
    BY DEF NoBacklogIsReal, Done
  <2>1. PICK p, r, x : p = run.prometheus /\ r = run.range["lag"] /\ x = run.stamp["lag"]
    OBVIOUS
  <2>2. /\ now \in Nat /\ run.completed = now /\ p \in 0..now
        /\ RangeIsTrue(r, p) /\ StampIsTrue(x, p)
    BY <2>1 DEF TypeInv, SystemOK, SummaryInv, BacklogInv, Answered
  <2>3. /\ Len(r.grid) = SampleCount /\ Len(r.samples) = SampleCount
        /\ r.samples[SampleCount] = 0
        /\ x.status = "OK" /\ r.grid[SampleCount] - x.at \in 0..SourceAge
        /\ now - x.at + 0 <= SampleAge
    BY <2>1, <2>2, ZeroSamples
  <2>4. PICK t \in Int : t = r.grid[SampleCount] /\ Sampled(t, 0, p)
    BY <2>2, <2>3 DEF RangeIsTrue
  <2>5. x.at \in Int
    <3>1. \A k \in 1..Len(scrapes) : scrapes[k].stamp \in Int
      BY DEF ScrapesInv, IsTrue, Scrapes
    <3> QED
      BY <2>2, <2>3, <3>1 DEF StampIsTrue
  <2>6. x.at <= t
    <3>1. SourceAge \in Nat /\ t - x.at \in 0..SourceAge
      BY <2>3, <2>4, EvidenceAssumption
    <3> QED
      BY ONLY <2>4, <2>5, <3>1
  <2>7. PICK k \in 1..Len(scrapes) : LagOf(scrapes[k]) = 0 /\ scrapes[k].stamp >= x.at - Gap
    BY <2>2, <2>3, <2>4, <2>6, StampMeetsSample
  <2>8. PICK u : u = scrapes[k].stamp /\ u \in 0..now /\ 0 \in past[u + 1].lags
    BY <2>2, <2>7 DEF ScrapesInv, IsTrue, Scrapes
  <2>9. Gap \in Int /\ SampleAge \in Nat
    BY GapIsLargest, CollectionAssumption
  <2>10. u >= run.completed - (SampleAge + Gap) /\ u \in 0..run.completed
    BY ONLY <2>2, <2>3, <2>5, <2>7, <2>8, <2>9
  <2> QED
    BY <2>8, <2>10 DEF Recent
<1> QED
  BY <1>1, <1>2, <1>3, TypeCorrect, PTL DEF Spec
=============================================================================
