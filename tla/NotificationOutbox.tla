------------------------- MODULE NotificationOutbox -------------------------
(***************************************************************************)
(* From a stored event to its notification attempt: the relays of          *)
(* worker/outbox.py, the notification topic, the workers of                *)
(* run_kafka_notification_loop, and the demo reset of portfolio/api.py     *)
(* that empties the tables while records are still queued.                 *)
(*                                                                         *)
(* One statement that takes or changes rows, one commit and one Kafka call *)
(* are one step each. The ingress workers appear as StoreEvent; that a     *)
(* message and its outbox row appear together is proved in                 *)
(* IngressWorkerProofs.                                                    *)
(***************************************************************************)
EXTENDS Integers, FiniteSets, SequencesExt

CONSTANTS
  Relays,         \* processes with WORKER_MODE=outbox
  Workers,        \* processes of the notification consumer group
  None,
  Malformed,      \* foreign records that fail to normalise
  Poison,         \* foreign records PostgreSQL refuses with a DataError
  Unpublishable,  \* ids whose notification Kafka never takes
  MaxId,          \* bound: message ids
  MaxResets,      \* bound: demo resets
  MaxFaults       \* bound: failures of the environment in one behaviour

ASSUME ConstantsAssumption ==
  /\ Malformed \cap Poison = {}
  /\ None \notin Workers
  /\ MaxId \in Nat /\ MaxResets \in Nat /\ MaxFaults \in Nat

Ids          == 1..MaxId
Resets       == 0..MaxResets
\* The payload of an event carries its ids; which event of the id it is, is
\* told by the number of resets before it was stored.
Notification == [id : Ids, era : Resets]
Foreign      == Malformed \cup Poison

ASSUME ValuesAssumption ==
  /\ Foreign \cap Notification = {}
  /\ None \notin Resets \cup Notification

VARIABLES
  stored,     \* ids in messages
  nextId,     \* the identity sequence of messages
  resets,     \* demo resets so far
  pending,    \* ids whose outbox row has no published_at
  due,        \* those with next_attempt_at reached, in its order
  row,        \* the row a relay works on
  holds,      \* whether the transaction that locked it is alive
  rpc,        \* where a relay is
  topic,      \* the notification topic (one partition)
  late,       \* sends given up by the caller, not by the producer
  attempts,   \* era of the event of a notification_attempts row
  committed,  \* the group's committed offset
  owner,      \* the worker the partition is assigned to
  position,   \* offset of a worker's current record
  fetched,    \* end of a worker's batch
  wpc,        \* where a worker is
  faults      \* failures so far

tables     == <<stored, nextId, resets>>
outboxVars == <<pending, due>>
relayVars  == <<row, holds, rpc>>
log        == <<topic, late>>
groupVars  == <<committed, owner>>
workerVars == <<position, fetched, wpc>>
vars       == <<tables, outboxVars, relayVars, log, attempts, groupVars, workerVars, faults>>

Fault       == faults < MaxFaults /\ faults' = faults + 1
RelayAt(r, phase)  == rpc' = [rpc EXCEPT ![r] = phase]
WorkerAt(w, phase) == wpc' = [wpc EXCEPT ![w] = phase]
Locked      == {row[r].id : r \in {x \in Relays : holds[x]}}
-----------------------------------------------------------------------------
(* The tables.                                                             *)

\* persist_ingress_job. next_attempt_at is the clock at the INSERT, not at the
\* commit, so the row may appear anywhere in the order.
StoreEvent ==
  /\ nextId <= MaxId
  /\ stored' = stored \cup {nextId}
  /\ nextId' = nextId + 1
  /\ pending' = pending \cup {nextId}
  /\ \E i \in 1..(Len(due) + 1) : due' = InsertAt(due, i, nextId)
  /\ UNCHANGED <<resets, relayVars, log, attempts, groupVars, workerVars, faults>>

\* Mutated form: TRUNCATE ... RESTART IDENTITY.
NextIdAfterReset_Restarted == 1

\* TRUNCATE rooms CASCADE keeps the sequences.
NextIdAfterReset == nextId

\* _reset_demo_event_data waits for the locks of running transactions, and
\* empties the tables. The notification topic keeps its records.
Reset ==
  /\ resets < MaxResets
  /\ Locked = {}
  /\ resets' = resets + 1
  /\ stored' = {} /\ pending' = {} /\ due' = << >>
  /\ attempts' = [id \in Ids |-> None]
  /\ nextId' = NextIdAfterReset
  /\ UNCHANGED <<relayVars, log, groupVars, workerVars, faults>>
-----------------------------------------------------------------------------
(* The relays.                                                             *)

\* Mutated form: the row is read without a lock.
Free_NoLock(id) == id \in Ids

\* FOR UPDATE SKIP LOCKED.
Free(id) == id \notin Locked

\* The SELECT of relay_once: the first due row that no other relay has locked.
Select(r) ==
  /\ rpc[r] = "idle"
  /\ \E i \in 1..Len(due) :
       /\ Free(due[i])
       /\ \A j \in 1..(i - 1) : ~Free(due[j])
       /\ row' = [row EXCEPT ![r] = [id |-> due[i], era |-> resets]]
  /\ holds' = [holds EXCEPT ![r] = TRUE]
  /\ RelayAt(r, "publish")
  /\ UNCHANGED <<tables, outboxVars, log, attempts, groupVars, workerVars, faults>>

\* publish_notification_job returns with the acknowledgement.
Publish(r) ==
  /\ rpc[r] = "publish"
  /\ row[r].id \notin Unpublishable
  /\ topic' = Append(topic, row[r])
  /\ RelayAt(r, "mark")
  /\ UNCHANGED <<tables, outboxVars, row, holds, late, attempts, groupVars, workerVars, faults>>

\* It raises: the record was refused; or it timed out, and is in the topic, not
\* in it, or still on its way.
PublishFails(r) ==
  /\ rpc[r] = "publish"
  /\ \/ row[r].id \in Unpublishable /\ UNCHANGED <<log, faults>>
     \/ /\ row[r].id \notin Unpublishable
        /\ Fault
        /\ \/ UNCHANGED log
           \/ topic' = Append(topic, row[r]) /\ UNCHANGED late
           \/ late' = late \cup {row[r]} /\ UNCHANGED topic
  /\ RelayAt(r, "failed")
  /\ UNCHANGED <<tables, outboxVars, row, holds, attempts, groupVars, workerVars>>

EndRelay(r) ==
  /\ row' = [row EXCEPT ![r] = None]
  /\ holds' = [holds EXCEPT ![r] = FALSE]
  /\ RelayAt(r, "idle")

\* The row is not due any more, if it was.
NotDue(id) ==
  \/ id \notin ToSet(due) /\ UNCHANGED due
  \/ \E i \in 1..Len(due) : due[i] = id /\ due' = RemoveAt(due, i)

\* published_at is set: the row is no longer selected.
MarkRow(id) == pending' = pending \ {id} /\ NotDue(id)

\* Mutated form: the row keeps its next_attempt_at.
DelayRow_NoBackoff(id) == UNCHANGED outboxVars

\* attempts + 1 and a later next_attempt_at.
DelayRow(id) == NotDue(id) /\ UNCHANGED pending

\* What the UPDATE does after an acknowledgement and after a failed publish.
Update(r) == IF rpc[r] = "mark" THEN MarkRow(row[r].id) ELSE DelayRow(row[r].id)

CommitRow(r) ==
  /\ rpc[r] \in {"mark", "failed"}
  /\ holds[r]
  /\ Update(r)
  /\ EndRelay(r)
  /\ UNCHANGED <<tables, log, attempts, groupVars, workerVars, faults>>

\* The UPDATE or the COMMIT fails, and may have taken effect; the transaction
\* ends. run_outbox_loop logs it and goes on.
CommitRowFails(r) ==
  /\ rpc[r] \in {"mark", "failed"}
  /\ \/ ~holds[r] /\ UNCHANGED <<outboxVars, faults>>
     \/ holds[r] /\ Fault /\ (Update(r) \/ UNCHANGED outboxVars)
  /\ EndRelay(r)
  /\ UNCHANGED <<tables, log, attempts, groupVars, workerVars>>

\* PostgreSQL ends the session of a relay that waits for Kafka: its lock is
\* gone, and it does not know.
SessionLost(r) ==
  /\ holds[r]
  /\ Fault
  /\ holds' = [holds EXCEPT ![r] = FALSE]
  /\ UNCHANGED <<tables, outboxVars, row, rpc, log, attempts, groupVars, workerVars>>

\* The process dies; a record it was sending may be appended.
RelayCrash(r) ==
  /\ rpc[r] # "idle"
  /\ Fault
  /\ \/ UNCHANGED topic
     \/ /\ rpc[r] = "publish" /\ row[r].id \notin Unpublishable
        /\ topic' = Append(topic, row[r])
  /\ EndRelay(r)
  /\ UNCHANGED <<tables, outboxVars, late, attempts, groupVars, workerVars>>

\* The delay of a row that failed to publish is over.
BackoffElapses(id) ==
  /\ id \in pending \ ToSet(due)
  /\ due' = Append(due, id)
  /\ UNCHANGED <<tables, pending, relayVars, log, attempts, groupVars, workerVars, faults>>
-----------------------------------------------------------------------------
(* The topic.                                                              *)

\* The producer delivers a record after its caller gave up.
LateArrival(n) ==
  /\ n \in late
  /\ late' = late \ {n}
  /\ topic' = Append(topic, n)
  /\ UNCHANGED <<tables, outboxVars, relayVars, attempts, groupVars, workerVars, faults>>

\* A record no relay wrote.
ForeignRecord(m) ==
  /\ m \notin ToSet(topic)
  /\ Fault
  /\ topic' = Append(topic, m)
  /\ UNCHANGED <<tables, outboxVars, relayVars, late, attempts, groupVars, workerVars>>
-----------------------------------------------------------------------------
(* The notification workers.                                               *)

\* A worker whose batch is done polls: it may be given the partition, and
\* starts at the committed offset if it is new to it.
Poll(w) ==
  LET start == IF owner = w THEN position[w] ELSE committed IN
  /\ wpc[w] = "idle"
  /\ owner \in {None, w}
  /\ start < Len(topic)
  /\ position' = [position EXCEPT ![w] = start]
  /\ \E end \in (start + 1)..Len(topic) : fetched' = [fetched EXCEPT ![w] = end]
  /\ owner' = w
  /\ WorkerAt(w, "batch")
  /\ UNCHANGED <<tables, outboxVars, relayVars, log, attempts, committed, faults>>

Batch(w) == {topic[i] : i \in (position[w] + 1)..fetched[w]}

\* INSERT ... FROM targets ON CONFLICT (message_id) DO NOTHING: rows for those
\* whose event is there. Room ids are as little reused as message ids, so the
\* join compares the id.
Insert(records) ==
  LET Mine(id) == {n \in records \ Foreign : n.id = id} IN
  attempts' = [id \in Ids |->
    IF attempts[id] = None /\ id \in stored /\ Mine(id) # {}
    THEN (CHOOSE n \in Mine(id) : TRUE).era
    ELSE attempts[id]]

\* the statement for the record at hand
InsertOne(w) == Insert({topic[position[w] + 1]})

\* store_attempt_batch; a DataError leaves the batch to record handling.
StoreBatch(w) ==
  /\ wpc[w] = "batch"
  /\ IF Batch(w) \cap Poison = {}
     THEN Insert(Batch(w)) /\ WorkerAt(w, "commit")
     ELSE UNCHANGED attempts /\ WorkerAt(w, "record")
  /\ UNCHANGED <<tables, outboxVars, relayVars, log, groupVars, position, fetched, faults>>

\* handle_notification_job: a malformed or refused record is rejected.
StoreRecord(w) ==
  /\ wpc[w] = "record"
  /\ InsertOne(w)
  /\ WorkerAt(w, "confirm")
  /\ UNCHANGED <<tables, outboxVars, relayVars, log, groupVars, position, fetched, faults>>

\* Mutated form: the failure is logged and the batch confirmed.
AfterStoreFailure_Swallowed(w) == WorkerAt(w, "commit") /\ UNCHANGED fetched

\* consumer.seek to the current record; the rest of the batch is dropped.
Rewound(w) == WorkerAt(w, "idle") /\ fetched' = [fetched EXCEPT ![w] = position[w]]

AfterStoreFailure(w) == Rewound(w)

\* Both tries fail, the first or the second perhaps after its commit.
StoreFails(w) ==
  /\ wpc[w] \in {"batch", "record"}
  /\ Fault
  /\ \/ UNCHANGED attempts
     \/ wpc[w] = "batch" /\ Batch(w) \cap Poison = {} /\ Insert(Batch(w))
     \/ wpc[w] = "record" /\ InsertOne(w)
  /\ AfterStoreFailure(w)
  /\ UNCHANGED <<tables, outboxVars, relayVars, log, groupVars, position>>

Confirmed(w) ==
  /\ position' = [position EXCEPT ![w] = @ + 1]
  /\ WorkerAt(w, IF position[w] + 1 = fetched[w] THEN "idle"
                 ELSE IF wpc[w] = "confirm" THEN "record" ELSE "commit")

\* _commit_processed_record: accepted from the owner only.
CommitOffset(w) ==
  /\ wpc[w] \in {"commit", "confirm"}
  /\ owner = w
  /\ committed' = position[w] + 1
  /\ Confirmed(w)
  /\ UNCHANGED <<tables, outboxVars, relayVars, log, attempts, owner, fetched, faults>>

CommitOffsetFails(w) ==
  /\ wpc[w] \in {"commit", "confirm"}
  /\ \/ owner # w /\ UNCHANGED <<committed, faults>>
     \/ owner = w /\ Fault /\ committed' \in {committed, position[w] + 1}
  /\ Rewound(w)
  /\ UNCHANGED <<tables, outboxVars, relayVars, log, attempts, owner, position>>

\* The process dies, or a seek raised and the consumer is built anew.
WorkerRestarts(w) ==
  /\ wpc[w] # "idle"
  /\ Fault
  /\ WorkerAt(w, "idle")
  /\ position' = [position EXCEPT ![w] = 0]
  /\ fetched' = [fetched EXCEPT ![w] = 0]
  /\ owner' = IF owner = w THEN None ELSE owner
  /\ UNCHANGED <<tables, outboxVars, relayVars, log, attempts, committed>>

\* The group takes the partition away while the worker goes on.
Fence ==
  /\ owner # None
  /\ Fault
  /\ owner' = None
  /\ UNCHANGED <<tables, outboxVars, relayVars, log, attempts, committed, workerVars>>
-----------------------------------------------------------------------------
Init ==
  /\ stored = {} /\ nextId = 1 /\ resets = 0
  /\ pending = {} /\ due = << >>
  /\ row = [r \in Relays |-> None]
  /\ holds = [r \in Relays |-> FALSE]
  /\ rpc = [r \in Relays |-> "idle"]
  /\ topic = << >> /\ late = {}
  /\ attempts = [id \in Ids |-> None]
  /\ committed = 0 /\ owner = None
  /\ position = [w \in Workers |-> 0] /\ fetched = [w \in Workers |-> 0]
  /\ wpc = [w \in Workers |-> "idle"]
  /\ faults = 0

RelayStep(r) ==
  Select(r) \/ Publish(r) \/ PublishFails(r) \/ CommitRow(r) \/ CommitRowFails(r)

WorkerStep(w) ==
  \/ Poll(w) \/ StoreBatch(w) \/ StoreRecord(w) \/ StoreFails(w)
  \/ CommitOffset(w) \/ CommitOffsetFails(w)

Next ==
  \/ StoreEvent \/ Reset \/ Fence
  \/ \E r \in Relays : RelayStep(r) \/ SessionLost(r) \/ RelayCrash(r)
  \/ \E id \in Ids : BackoffElapses(id)
  \/ \E n \in late : LateArrival(n)
  \/ \E m \in Foreign : ForeignRecord(m)
  \/ \E w \in Workers : WorkerStep(w) \/ WorkerRestarts(w)

Spec == Init /\ [][Next]_vars

\* The loops of the relays and of the workers never end, and delays run out.
Fairness ==
  /\ \A r \in Relays : WF_vars(RelayStep(r))
  /\ \A w \in Workers : WF_vars(WorkerStep(w))
  /\ \A id \in Ids : WF_vars(BackoffElapses(id))

FairSpec == Spec /\ Fairness
-----------------------------------------------------------------------------
(* What must hold.                                                         *)

TypeOK ==
  /\ stored \subseteq Ids /\ nextId \in 1..(MaxId + 1) /\ resets \in Resets
  /\ pending \subseteq stored
  /\ due \in Seq(pending) /\ IsInjective(due)
  /\ row \in [Relays -> Notification \cup {None}]
  /\ holds \in [Relays -> BOOLEAN]
  /\ rpc \in [Relays -> {"idle", "publish", "mark", "failed"}]
  /\ topic \in Seq(Notification \cup Foreign)
  /\ late \subseteq Notification
  /\ attempts \in [Ids -> Resets \cup {None}]
  /\ committed \in 0..Len(topic)
  /\ owner \in Workers \cup {None}
  /\ position \in [Workers -> Nat] /\ fetched \in [Workers -> Nat]
  /\ wpc \in [Workers -> {"idle", "batch", "commit", "record", "confirm"}]
  /\ faults \in 0..MaxFaults

\* Relays that race publish an event once; each further record of it has a
\* failure of its own to blame.
DuplicatesNeedFailures ==
  \A n \in Notification :
    Cardinality({i \in 1..Len(topic) : topic[i] = n})
      <= 1 + faults - Cardinality(Foreign \cap ToSet(topic))

\* At least once: the notification of a stored event is an outbox row to
\* publish, a record ahead of the committed offset, or an attempt.
NotificationNotLost ==
  \A id \in stored :
    \/ id \in pending
    \/ attempts[id] # None
    \/ \E i \in (committed + 1)..Len(topic) : topic[i] = [id |-> id, era |-> resets]

\* An attempt row belongs to the event it names: a record that was queued when
\* the demo was reset never counts for an event stored after it.
AttemptIsOfItsEvent ==
  \A id \in Ids : attempts[id] # None => id \in stored /\ attempts[id] = resets

\* Every event Kafka can take gets its attempt, unless a reset removes it,
\* whatever rows and records are stuck around it.
EveryEventNotified ==
  \A id \in Ids \ Unpublishable, era \in Resets :
    (id \in stored /\ resets = era) ~> (attempts[id] # None \/ resets # era)
=============================================================================
