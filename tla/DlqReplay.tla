------------------------------ MODULE DlqReplay ------------------------------
(***************************************************************************)
(* Replay of dead letters: worker/dlq_replayer.py (the replayer group),    *)
(* the manual route of portfolio/api.py, and the claim they share, a row   *)
(* of intake_idempotency_keys keyed by (request, generation) that          *)
(* portfolio/state_store.py inserts, takes over, marks and deletes.        *)
(*                                                                         *)
(* One SQL statement or one Kafka call is one step: that is where the      *)
(* replayers, the API processes and the ingress workers interleave.        *)
(***************************************************************************)
EXTENDS Integers, Sequences, FiniteSets

CONSTANTS
  Requests,      \* request ids that have been in the DLQ
  Invalid,       \* those whose DLQ payload replay_one refuses
  Replayers,     \* processes of the "-dlq-replayer" consumer group
  Callers,       \* calls of POST /v1/dlq/ingress/replay
  None,
  MaxReplays,    \* settings.dlq_replay_max_count
  MaxDlq,        \* bound: records in the DLQ
  MaxFaults      \* bound: failures of the environment in one behaviour

ASSUME ConstantsAssumption ==
  /\ Invalid \subseteq Requests
  /\ Replayers \cap Callers = {}
  /\ None \notin Replayers \cup Callers
  /\ MaxReplays \in Nat /\ MaxDlq \in Nat /\ MaxFaults \in Nat

Actors      == Replayers \cup Callers
Generations == 0..MaxReplays

VARIABLES
  dlq,        \* the DLQ topic (one partition: claims do not depend on it)
  committed,  \* the replayer group's committed offset
  owner,      \* the replayer the partition is assigned to
  position,   \* offset of a replayer's current record
  fetched,    \* end of a replayer's batch
  job,        \* the record an actor replays
  pc,         \* where an actor is
  claims,     \* claim row per request and generation
  sent,       \* copies of a generation appended to the ingress topic
  handled,    \* copies the ingress workers have dealt with
  status,     \* request_statuses, as far as it matters here
  stored,     \* requests with a row in messages
  lapses,     \* claims whose lease ran out
  faults      \* failures so far

logVars   == <<dlq, committed, owner>>
actorVars == <<position, fetched, job, pc>>
worker    == <<sent, handled, status, stored>>
vars      == <<logVars, actorVars, claims, worker, lapses, faults>>

Record == [req : Requests, gen : Generations]
Keys   == Requests \X Generations
Claim  == [state : {"claimed", "published"}, by : Actors, expired : BOOLEAN]

ASSUME NoneAssumption == None \notin Claim

Phases == {"idle", "status", "insert", "lock", "publish", "release", "mark",
           "commit_offset", "rewind", "replied"}

Key(a)  == <<job[a].req, job[a].gen>>
Row(a)  == claims[Key(a)]
\* The value a call writes carries a fresh owner token. A call only looks for
\* its own token while its claim is the last one it made, so the actor will do.
Claimed(k) == claims[k] # None /\ claims[k].state = "claimed"
Holds(a)   == Claimed(Key(a)) /\ Row(a).by = a

Fault          == faults < MaxFaults /\ faults' = faults + 1
Goto(a, phase) == pc' = [pc EXCEPT ![a] = phase]
\* How a replayer and a call end.
Done(a)   == Goto(a, IF a \in Replayers THEN "commit_offset" ELSE "replied")
Raise(a)  == Goto(a, IF a \in Replayers THEN "rewind" ELSE "replied")

\* An event is replayed while its generation is below the limit.
Replayable(d) == d.req \notin Invalid /\ d.gen < MaxReplays
-----------------------------------------------------------------------------
(* The replayer group.                                                     *)

\* A replayer whose batch is done polls: it may be given the partition, starts
\* at the committed offset if it is new to it, and gets records from there.
Poll(w) ==
  /\ pc[w] = "idle"
  /\ position[w] = fetched[w]
  /\ owner \in {None, w}
  /\ LET start == IF owner = w THEN position[w] ELSE committed IN
     /\ start < Len(dlq)
     /\ position' = [position EXCEPT ![w] = start]
     /\ \E end \in (start + 1)..Len(dlq) : fetched' = [fetched EXCEPT ![w] = end]
  /\ owner' = w
  /\ UNCHANGED <<dlq, committed, job, pc, claims, worker, lapses, faults>>

\* replay_one up to the claim: a refused payload or one at the replay limit is
\* skipped.
Take(w) ==
  LET d == dlq[position[w] + 1] IN
  /\ pc[w] = "idle"
  /\ position[w] < fetched[w]
  /\ job' = [job EXCEPT ![w] = d]
  /\ Goto(w, IF Replayable(d) THEN "status" ELSE "commit_offset")
  /\ UNCHANGED <<logVars, position, fetched, claims, worker, lapses, faults>>

\* _commit_processed_record: accepted from the owner only.
CommitOffset(w) ==
  /\ pc[w] = "commit_offset"
  /\ owner = w
  /\ committed' = position[w] + 1
  /\ position' = [position EXCEPT ![w] = @ + 1]
  /\ job' = [job EXCEPT ![w] = None]
  /\ Goto(w, "idle")
  /\ UNCHANGED <<dlq, owner, fetched, claims, worker, lapses, faults>>

CommitOffsetFails(w) ==
  /\ pc[w] = "commit_offset"
  /\ \/ owner # w /\ UNCHANGED <<committed, faults>>
     \/ owner = w /\ Fault /\ committed' \in {committed, position[w] + 1}
  /\ Goto(w, "rewind")
  /\ UNCHANGED <<dlq, owner, position, fetched, job, claims, worker, lapses>>

\* consumer.seek to the record; the rest of the batch is dropped.
Rewind(w) ==
  /\ pc[w] = "rewind"
  /\ fetched' = [fetched EXCEPT ![w] = position[w]]
  /\ job' = [job EXCEPT ![w] = None]
  /\ Goto(w, "idle")
  /\ UNCHANGED <<logVars, position, claims, worker, lapses, faults>>

\* The group takes the partition away while the replayer goes on.
Fence ==
  /\ owner # None
  /\ Fault
  /\ owner' = None
  /\ UNCHANGED <<dlq, committed, actorVars, claims, worker, lapses>>

\* The process dies, or rebuilds its consumer (PostgreSQL unavailable).
Crash(w) ==
  /\ pc[w] # "idle"
  /\ Fault
  /\ Goto(w, "idle")
  /\ position' = [position EXCEPT ![w] = 0]
  /\ fetched' = [fetched EXCEPT ![w] = 0]
  /\ owner' = IF owner = w THEN None ELSE owner
  /\ job' = [job EXCEPT ![w] = None]
  /\ UNCHANGED <<dlq, committed, claims, worker, lapses>>
-----------------------------------------------------------------------------
(* The manual route.                                                       *)

\* _find_dlq_item_by_request_id takes the latest record of the request; one
\* that may not be replayed is answered 409.
Call(c, r) ==
  LET mine == {i \in 1..Len(dlq) : dlq[i].req = r}
      last == CHOOSE i \in mine : \A j \in mine : j <= i
  IN
  /\ pc[c] = "idle"
  /\ mine # {}
  /\ Replayable(dlq[last])
  /\ job' = [job EXCEPT ![c] = dlq[last]]
  /\ Goto(c, "status")
  /\ UNCHANGED <<logVars, position, fetched, claims, worker, lapses, faults>>

\* The API process dies with the call.
CallerDies(c) ==
  /\ pc[c] \notin {"idle", "replied"}
  /\ Fault
  /\ Goto(c, "replied")
  /\ UNCHANGED <<logVars, position, fetched, job, claims, worker, lapses>>
-----------------------------------------------------------------------------
(* claim_dlq_replay, publish, and what follows, by a replayer or a call.   *)

ReadStatus(a) ==
  /\ pc[a] = "status"
  /\ IF status[job[a].req] = "persisted" THEN Done(a) ELSE Goto(a, "insert")
  /\ UNCHANGED <<logVars, position, fetched, job, claims, worker, lapses, faults>>

\* INSERT ... ON CONFLICT DO NOTHING, committed at once when it inserts.
InsertClaim(a) ==
  /\ pc[a] = "insert"
  /\ IF Row(a) = None
     THEN /\ claims' = [claims EXCEPT ![Key(a)] =
                          [state |-> "claimed", by |-> a, expired |-> FALSE]]
          /\ Goto(a, "publish")
     ELSE Goto(a, "lock") /\ UNCHANGED claims
  /\ UNCHANGED <<logVars, position, fetched, job, worker, lapses, faults>>

\* Mutated form: a claim is never taken over.
TakeOver_Never(a) == FALSE

\* Mutated form: the age of the claim is not looked at.
TakeOver_AnyAge(a) == TRUE

\* The UPDATE of a claim older than DLQ_REPLAY_CLAIM_LEASE_SECONDS.
TakeOver(a) == Row(a).expired

\* SELECT ... FOR UPDATE and the UPDATE: no row, or one that is not a claim,
\* means published.
LockClaim(a) ==
  /\ pc[a] = "lock"
  /\ \/ /\ ~Claimed(Key(a))
        /\ Done(a)
        /\ UNCHANGED claims
     \/ /\ Claimed(Key(a))
        /\ IF TakeOver(a)
           THEN /\ claims' = [claims EXCEPT ![Key(a)] =
                                [state |-> "claimed", by |-> a, expired |-> FALSE]]
                /\ Goto(a, "publish")
           ELSE Raise(a) /\ UNCHANGED claims
  /\ UNCHANGED <<logVars, position, fetched, job, worker, lapses, faults>>

\* A failing statement or connection; the commit of a claim may have happened.
ClaimFails(a) ==
  /\ pc[a] \in {"status", "insert", "lock"}
  /\ Fault
  /\ \/ UNCHANGED claims
     \/ /\ \/ pc[a] = "insert" /\ Row(a) = None
           \/ pc[a] = "lock" /\ Claimed(Key(a)) /\ TakeOver(a)
        /\ claims' = [claims EXCEPT ![Key(a)] =
                        [state |-> "claimed", by |-> a, expired |-> FALSE]]
  /\ Raise(a)
  /\ UNCHANGED <<logVars, position, fetched, job, worker, lapses>>

\* publish_ingress_job with the generation raised.
Publish(a) ==
  /\ pc[a] = "publish"
  /\ sent' = [sent EXCEPT ![Key(a)] = @ + 1]
  /\ Goto(a, "mark")
  /\ UNCHANGED <<logVars, position, fetched, job, claims, handled, status, stored, lapses, faults>>

\* It raises, with the record appended or not.
PublishFails(a) ==
  /\ pc[a] = "publish"
  /\ Fault
  /\ sent' \in {sent, [sent EXCEPT ![Key(a)] = @ + 1]}
  /\ Goto(a, "release")
  /\ UNCHANGED <<logVars, position, fetched, job, claims, handled, status, stored, lapses>>

\* mark_dlq_replay_published, of the own token only.
Mark(a) ==
  /\ pc[a] = "mark"
  /\ claims' = IF Holds(a) THEN [claims EXCEPT ![Key(a)].state = "published"] ELSE claims
  /\ Done(a)
  /\ UNCHANGED <<logVars, position, fetched, job, worker, lapses, faults>>

\* Its failure is logged, whether the row was written or not.
MarkFails(a) ==
  /\ pc[a] = "mark"
  /\ Fault
  /\ Done(a)
  /\ UNCHANGED <<logVars, position, fetched, job, claims, worker, lapses>>

\* Mutated form: the row is kept when the publish failed.
Release_Kept(a) ==
  /\ pc[a] = "release"
  /\ claims' = IF Holds(a) THEN [claims EXCEPT ![Key(a)].state = "published"] ELSE claims
  /\ Raise(a)
  /\ UNCHANGED <<logVars, position, fetched, job, worker, lapses, faults>>

\* release_dlq_replay_claim: DELETE of the own token only.
Release(a) ==
  /\ pc[a] = "release"
  /\ claims' = IF Holds(a) THEN [claims EXCEPT ![Key(a)] = None] ELSE claims
  /\ Raise(a)
  /\ UNCHANGED <<logVars, position, fetched, job, worker, lapses, faults>>

ReleaseFails(a) ==
  /\ pc[a] = "release"
  /\ Fault
  /\ Raise(a)
  /\ UNCHANGED <<logVars, position, fetched, job, claims, worker, lapses>>
-----------------------------------------------------------------------------
(* Time and the ingress workers.                                           *)

\* Thirty seconds pass without the claim being renewed.
LeaseExpires(k) ==
  /\ Claimed(k)
  /\ ~claims[k].expired
  /\ claims' = [claims EXCEPT ![k].expired = TRUE]
  /\ lapses' = lapses + 1
  /\ UNCHANGED <<logVars, actorVars, worker, faults>>

\* An ingress worker stores a replayed event.
WorkerStores(k) ==
  /\ handled[k] < sent[k]
  /\ handled' = [handled EXCEPT ![k] = @ + 1]
  /\ status' = [status EXCEPT ![k[1]] = "persisted"]
  /\ stored' = stored \cup {k[1]}
  /\ UNCHANGED <<logVars, actorVars, claims, sent, lapses, faults>>

\* Or gives it up again: the DLQ record carries the raised generation.
WorkerGivesUp(k) ==
  /\ handled[k] < sent[k]
  /\ Len(dlq) < MaxDlq
  /\ handled' = [handled EXCEPT ![k] = @ + 1]
  /\ status' = [status EXCEPT ![k[1]] = "failed_dlq"]
  /\ dlq' = Append(dlq, [req |-> k[1], gen |-> k[2] + 1])
  /\ UNCHANGED <<committed, owner, actorVars, claims, sent, stored, lapses, faults>>

\* A first dead letter, not yet in the DLQ.
WorkerIsolates(r) ==
  /\ \A i \in 1..Len(dlq) : dlq[i].req # r
  /\ Len(dlq) < MaxDlq
  /\ dlq' = Append(dlq, [req |-> r, gen |-> 0])
  /\ UNCHANGED <<committed, owner, actorVars, claims, worker, lapses, faults>>
-----------------------------------------------------------------------------
Init ==
  /\ dlq = << >>
  /\ committed = 0
  /\ owner = None
  /\ position = [w \in Replayers |-> 0]
  /\ fetched = [w \in Replayers |-> 0]
  /\ job = [a \in Actors |-> None]
  /\ pc = [a \in Actors |-> "idle"]
  /\ claims = [k \in Keys |-> None]
  /\ sent = [k \in Keys |-> 0]
  /\ handled = [k \in Keys |-> 0]
  /\ status = [r \in Requests |-> "failed_dlq"]
  /\ stored = {}
  /\ lapses = 0
  /\ faults = 0

\* What an actor does next when nothing fails.
Proceed(a) ==
  \/ ReadStatus(a)
  \/ InsertClaim(a)
  \/ LockClaim(a)
  \/ Publish(a)
  \/ Mark(a)
  \/ Release(a)

ReplayerStep(w) ==
  \/ Poll(w)
  \/ Take(w)
  \/ Proceed(w)
  \/ CommitOffset(w)
  \/ CommitOffsetFails(w)
  \/ Rewind(w)

Failure(a) == ClaimFails(a) \/ PublishFails(a) \/ MarkFails(a) \/ ReleaseFails(a)

Next ==
  \/ \E w \in Replayers : ReplayerStep(w) \/ Crash(w)
  \/ \E c \in Callers : Proceed(c) \/ CallerDies(c) \/ \E r \in Requests : Call(c, r)
  \/ \E a \in Actors : Failure(a)
  \/ Fence
  \/ \E k \in Keys : LeaseExpires(k) \/ WorkerStores(k) \/ WorkerGivesUp(k)
  \/ \E r \in Requests : WorkerIsolates(r)

Spec == Init /\ [][Next]_vars

\* Replayers and the API keep running, and time passes.
Fairness ==
  /\ \A w \in Replayers : WF_vars(ReplayerStep(w))
  /\ \A c \in Callers : WF_vars(Proceed(c))
  /\ \A k \in Keys : WF_vars(LeaseExpires(k))

FairSpec == Spec /\ Fairness
-----------------------------------------------------------------------------
(* What must hold.                                                         *)

TypeOK ==
  /\ dlq \in Seq(Record)
  /\ committed \in Nat
  /\ owner \in Replayers \cup {None}
  /\ position \in [Replayers -> Nat] /\ fetched \in [Replayers -> Nat]
  /\ job \in [Actors -> Record \cup {None}]
  /\ pc \in [Actors -> Phases]
  /\ claims \in [Keys -> Claim \cup {None}]
  /\ sent \in [Keys -> Nat] /\ handled \in [Keys -> Nat]
  /\ status \in [Requests -> {"failed_dlq", "persisted"}]
  /\ stored \subseteq Requests
  /\ lapses \in Nat /\ faults \in Nat

\* A generation is appended to the ingress topic once. Each further copy has a
\* failure or an expired lease of its own to blame: the manual route and the
\* replayers never publish a generation twice by merely racing.
CopiesNeedFailures == \A k \in Keys : sent[k] <= 1 + faults + lapses

\* A claim marked published is backed by a copy in the ingress topic.
PublishedIsSent ==
  \A k \in Keys : claims[k] # None /\ ~Claimed(k) => sent[k] >= 1

\* A dead letter that may be replayed is left behind by the replayer group only
\* when its event is stored or a copy of it is back in the ingress topic.
NothingLeftBehind ==
  \A i \in 1..Len(dlq) :
    i <= committed /\ Replayable(dlq[i]) =>
      dlq[i].req \in stored \/ sent[<<dlq[i].req, dlq[i].gen>>] >= 1

\* No dead letter blocks the DLQ partition: a claim whose owner died is taken
\* over when its lease runs out.
EveryDeadLetterPassed ==
  \A i \in 1..MaxDlq : Len(dlq) >= i ~> committed >= i
=============================================================================
