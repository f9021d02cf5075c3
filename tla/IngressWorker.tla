--------------------------- MODULE IngressWorker ---------------------------
(***************************************************************************)
(* The ingress consumer group: worker/main.py (run_kafka_worker_loop,      *)
(* _process_worker_batch, handle_ingress_job, persist_ingress_job), with   *)
(* the Kafka ingress and DLQ topics and the PostgreSQL tables the workers  *)
(* write.                                                                  *)
(*                                                                         *)
(* A step is what the other processes can observe as one: a PostgreSQL     *)
(* transaction is split where it reads (READ COMMITTED) and where it       *)
(* commits, every Kafka call is a step, and every call has the outcomes    *)
(* the code distinguishes: done, not done, and done with the reply lost.   *)
(***************************************************************************)
EXTENDS Integers, Sequences, FiniteSets

CONSTANTS
  Requests,        \* request ids, one uuid per API call
  Streams,         \* streams (rooms)
  Partitions,      \* partitions of the ingress topic
  Workers,         \* processes of the "message-worker" consumer group
  Keys,            \* idempotency rows: (route, actor, x_idempotency_key)
  None,            \* no worker, no request, no key, no task
  StreamOf,        \* Requests -> Streams
  PartitionOf,     \* Streams -> Partitions, the partitioner on the stream key
  KeyOf,           \* Requests -> Keys \cup {None}
  LegacyKeys,      \* keys answered before keys were scoped to the actor
  Kind,            \* Requests -> Kinds, how the pipeline will judge the job
  RoomSeq,         \* Requests -> Nat, the job's own room_seq, 0 when null
  MaxRetries,      \* settings.ingress_max_retries
  MaxReplays,      \* settings.dlq_replay_max_count
  MaxPoll,         \* records a poll returns from one partition
  MaxLog,          \* bound: records in one partition of the ingress topic
  MaxFaults        \* bound: failures of the environment in one behaviour

Kinds == {"valid", "unauthorized", "bad_data", "malformed", "misrouted"}

ASSUME ConstantsAssumption ==
  /\ StreamOf \in [Requests -> Streams]
  /\ PartitionOf \in [Streams -> Partitions]
  /\ KeyOf \in [Requests -> Keys \cup {None}]
  /\ LegacyKeys \subseteq Keys
  /\ Kind \in [Requests -> Kinds]
  /\ RoomSeq \in [Requests -> Nat]
  /\ MaxRetries \in Nat /\ MaxReplays \in Nat /\ MaxLog \in Nat /\ MaxFaults \in Nat
  /\ MaxPoll \in Nat \ {0}
  /\ None \notin Workers /\ None \notin Keys /\ None \notin Requests
  \* The route of a job names its stream, so a key belongs to one stream.
  /\ \A q, r \in Requests :
        KeyOf[q] = KeyOf[r] /\ KeyOf[q] # None => StreamOf[q] = StreamOf[r]

VARIABLES
  \* Kafka
  ingress,           \* the ingress topic: a log per partition
  committed,         \* the group's committed offset of each partition
  owner,             \* the group member a partition is assigned to
  dlq,               \* records of the DLQ topic
  \* worker processes
  held,              \* partitions the local consumer believes it owns
  cursor,            \* next offset to hand to the handler
  fetched,           \* end of the polled batch
  task,              \* the record under the handler
  pc,                \* where the handler is
  \* PostgreSQL
  messages,          \* table messages
  last_seq,          \* table room_sequences
  idempotency_keys,  \* table idempotency_keys: the request that was answered
  request_statuses,  \* table request_statuses
  outbox,            \* table notification_outbox, by message
  \* environment
  faults             \* failures so far

kafkaVars  == <<ingress, committed, owner, dlq>>
workerVars == <<held, cursor, fetched, task, pc>>
dbVars     == <<messages, last_seq, idempotency_keys, request_statuses, outbox>>
vars       == <<kafkaVars, workerVars, dbVars, faults>>

Record   == [req : Requests, replay_count : Nat]
Task     == [part : Partitions, offset : Nat, retry_count : Nat]
Message  == [req : Requests, seq : Nat \ {0}]
Statuses == {"none", "queued", "persisted", "failed", "failed_dlq"}

\* Inside the persistence transaction: what the reads decided it will write.
InTransaction == {"cached", "adopt", "existing", "insert"}
Phases == InTransaction \cup
  {"idle", "begin", "mark_retry", "publish_dlq", "status_dlq", "status_failed", "commit_offset"}
-----------------------------------------------------------------------------
(* What a worker is looking at.                                            *)

Rec(w)       == ingress[task[w].part][task[w].offset + 1]
Req(w)       == Rec(w).req
Persisted(r) == \E m \in messages : m.req = r
Stream(m)    == StreamOf[m.req]

\* A key is answered when a scoped row or, for an older result, a plain-route
\* row carries its response.
Answered(k) == idempotency_keys[k] # None \/ k \in LegacyKeys

\* Mutated form: the advisory lock is not taken.
KeyLockFree_NoLock(w, k) == TRUE

\* pg_advisory_xact_lock on the key: free, or held by no other transaction.
KeyLockFree(w, k) ==
  \A v \in Workers \ {w} : pc[v] \in InTransaction => KeyOf[Req(v)] # k

\* update_request_status: best effort, its failure is logged and swallowed.
WriteStatus(r, s) ==
  \/ /\ request_statuses' = [request_statuses EXCEPT ![r] = s]
     /\ UNCHANGED faults
  \/ /\ faults < MaxFaults
     /\ faults' = faults + 1
     /\ UNCHANGED request_statuses

Fault == faults < MaxFaults /\ faults' = faults + 1
Goto(w, phase) == pc' = [pc EXCEPT ![w] = phase]

\* Mutated form: the failed record is skipped and its batch goes on.
Rewind_Skip(w) ==
  LET p == task[w].part IN
  /\ cursor' = [cursor EXCEPT ![w][p] = @ + 1]
  /\ task' = [task EXCEPT ![w] = None]
  /\ Goto(w, "idle")
  /\ UNCHANGED <<held, fetched>>

\* The exception path of _process_worker_batch: seek the partition back to the
\* record and drop the rest of its batch.
Rewind(w) ==
  LET p == task[w].part IN
  /\ fetched' = [fetched EXCEPT ![w][p] = cursor[w][p]]
  /\ task' = [task EXCEPT ![w] = None]
  /\ Goto(w, "idle")
  /\ UNCHANGED <<held, cursor>>

\* Mutated form: an exhausted record is given up without a DLQ record.
RetryOrDlq_GiveUp(w) ==
  Goto(w, IF task[w].retry_count >= MaxRetries THEN "commit_offset" ELSE "mark_retry")

\* handle_ingress_job after a retryable exception.
RetryOrDlq(w) ==
  Goto(w, IF task[w].retry_count >= MaxRetries THEN "publish_dlq" ELSE "mark_retry")
-----------------------------------------------------------------------------
(* The API appends a job; a DLQ replay appends it again.                   *)

AppendIngress(r, n) ==
  LET p == PartitionOf[StreamOf[r]] IN
  /\ Len(ingress[p]) < MaxLog
  /\ ingress' = [ingress EXCEPT ![p] = Append(@, [req |-> r, replay_count |-> n])]
  /\ UNCHANGED <<committed, owner, dlq, workerVars, dbVars, faults>>

\* create_event, create_generic_event, create_order_event: one append for a
\* fresh request id. Whether the caller sees 202 or 503 (the acknowledgement
\* may be lost) changes nothing here.
Publish(r) ==
  /\ \A p \in Partitions : \A i \in 1..Len(ingress[p]) : ingress[p][i].req # r
  /\ AppendIngress(r, 0)

\* replay_one and the manual replay route: a record whose replay count is below
\* the limit is appended with the count raised. Claims make one generation
\* normally appear once; an expired claim lets it appear again, so does this.
ReplayDlq(d) ==
  /\ Kind[d.req] \notin {"malformed", "misrouted"}
  /\ d.replay_count < MaxReplays
  /\ AppendIngress(d.req, d.replay_count + 1)
-----------------------------------------------------------------------------
(* Group membership, as seen through the consumer API.                     *)

BatchDone(w) == pc[w] = "idle" /\ \A p \in Partitions : cursor[w][p] = fetched[w][p]

\* Inside poll a member rejoins, is given a free partition and starts at the
\* committed offset.
Assign(w, p) ==
  /\ BatchDone(w)
  /\ owner[p] = None
  /\ owner' = [owner EXCEPT ![p] = w]
  /\ held' = [held EXCEPT ![w] = @ \cup {p}]
  /\ cursor' = [cursor EXCEPT ![w][p] = committed[p]]
  /\ fetched' = [fetched EXCEPT ![w][p] = committed[p]]
  /\ UNCHANGED <<ingress, committed, dlq, task, pc, dbVars, faults>>

\* The group takes a partition away (session or max.poll.interval timeout);
\* the member goes on with its batch and learns of it later.
Fence(p) ==
  /\ owner[p] # None
  /\ Fault
  /\ owner' = [owner EXCEPT ![p] = None]
  /\ UNCHANGED <<ingress, committed, dlq, workerVars, dbVars>>

\* consumer.poll(max_records=20): lost partitions are forgotten, the others
\* give what is in the log from the current position.
Poll(w) ==
  LET mine == {p \in held[w] : owner[p] = w}
      end(p) == IF Len(ingress[p]) < cursor[w][p] + MaxPoll
                THEN Len(ingress[p]) ELSE cursor[w][p] + MaxPoll
  IN
  /\ BatchDone(w)
  /\ \/ mine # held[w]
     \/ \E p \in mine : cursor[w][p] < Len(ingress[p])
  /\ held' = [held EXCEPT ![w] = mine]
  /\ fetched' = [fetched EXCEPT ![w] =
                   [p \in Partitions |-> IF p \in mine THEN end(p) ELSE cursor[w][p]]]
  /\ UNCHANGED <<kafkaVars, cursor, task, pc, dbVars, faults>>

\* The process dies, or a failed seek makes run_kafka_worker_loop close and
\* rebuild the consumer: the open transaction is rolled back, local state is
\* gone, the group frees the partitions.
Crash(w) ==
  /\ pc[w] # "idle" \/ held[w] # {}
  /\ Fault
  /\ held' = [held EXCEPT ![w] = {}]
  /\ cursor' = [cursor EXCEPT ![w] = [p \in Partitions |-> 0]]
  /\ fetched' = [fetched EXCEPT ![w] = [p \in Partitions |-> 0]]
  /\ task' = [task EXCEPT ![w] = None]
  /\ Goto(w, "idle")
  /\ owner' = [p \in Partitions |-> IF owner[p] = w THEN None ELSE owner[p]]
  /\ UNCHANGED <<ingress, committed, dlq, dbVars>>
-----------------------------------------------------------------------------
(* handle_ingress_job.                                                     *)

\* The next record of the batch; an undecodable, invalid or wrongly keyed
\* payload goes straight to move_invalid_ingress_to_dlq.
Take(w, p) ==
  /\ pc[w] = "idle"
  /\ cursor[w][p] < fetched[w][p]
  /\ task' = [task EXCEPT ![w] = [part |-> p, offset |-> cursor[w][p], retry_count |-> 0]]
  /\ Goto(w, IF Kind[ingress[p][cursor[w][p] + 1].req] \in {"malformed", "misrouted"}
             THEN "publish_dlq" ELSE "begin")
  /\ UNCHANGED <<kafkaVars, held, cursor, fetched, dbVars, faults>>

\* Mutated form: rows of the plain route are not looked at.
LegacyAnswer_Ignored(k) == FALSE

\* A result older than scoped keys, adopted into a scoped row.
LegacyAnswer(k) == k \in LegacyKeys

\* The reads of _persist_message_with_cursor: take the key's lock, look for the
\* cached response, then for the request's own message, then authorize.
BeginTransaction(w) ==
  LET r == Req(w)
      k == KeyOf[r]
  IN
  /\ pc[w] = "begin"
  /\ k # None => KeyLockFree(w, k)
  /\ Goto(w, IF k # None /\ idempotency_keys[k] # None THEN "cached"
             ELSE IF k # None /\ LegacyAnswer(k) THEN "adopt"
             ELSE IF Persisted(r) THEN "existing"
             ELSE IF Kind[r] = "unauthorized" THEN "status_failed"
             ELSE "insert")
  /\ UNCHANGED <<kafkaVars, held, cursor, fetched, task, dbVars, faults>>

\* The sequence the insert would use. The room_sequences row is locked from
\* here to the commit, so the increment and the insert are one step.
NextSeq(r) == last_seq[StreamOf[r]] + 1
SeqOf(r)   == IF RoomSeq[r] = 0 THEN NextSeq(r) ELSE RoomSeq[r]

\* Another worker stored the request's message after this one read that there
\* was none.
AlreadyAtSeq(r) == RoomSeq[r] # 0 /\ [req |-> r, seq |-> RoomSeq[r]] \in messages

InsertPossible(r) ==
  /\ Kind[r] # "bad_data"
  /\ SeqOf(r) = NextSeq(r)
  /\ ~Persisted(r)

\* Mutated form: the increment of room_sequences is forgotten.
InsertMessage_NoIncrement(r) ==
  /\ messages' = messages \cup {[req |-> r, seq |-> SeqOf(r)]}
  /\ idempotency_keys' = IF KeyOf[r] = None THEN idempotency_keys
                         ELSE [idempotency_keys EXCEPT ![KeyOf[r]] = r]
  /\ UNCHANGED last_seq

InsertMessage(r) ==
  /\ messages' = messages \cup {[req |-> r, seq |-> SeqOf(r)]}
  /\ last_seq' = [last_seq EXCEPT ![StreamOf[r]] = NextSeq(r)]
  /\ idempotency_keys' = IF KeyOf[r] = None THEN idempotency_keys
                         ELSE [idempotency_keys EXCEPT ![KeyOf[r]] = r]

\* Mutated form: the intent is published after the commit, best effort.
EnqueueNotification_AfterCommit(r) == UNCHANGED outbox

\* enqueue_notification: INSERT ... ON CONFLICT (message_id) DO NOTHING.
EnqueueNotification(r) == outbox' = outbox \cup {r}

\* persist_ingress_job commits: message, sequence, idempotency row, status
\* "persisted" and outbox row in one transaction. A stale sequence that turns
\* out to be the request's own message counts as stored and keeps the increment
\* of room_sequences with it.
TransactionEffect(w) ==
  LET r == Req(w) IN
  /\ pc[w] \in InTransaction
  /\ request_statuses' = [request_statuses EXCEPT ![r] = "persisted"]
  /\ \/ /\ pc[w] = "cached"
        /\ UNCHANGED <<messages, last_seq, idempotency_keys, outbox>>
     \/ /\ pc[w] = "adopt"
        /\ idempotency_keys' = [idempotency_keys EXCEPT ![KeyOf[r]] = r]
        /\ UNCHANGED <<messages, last_seq, outbox>>
     \/ /\ pc[w] = "existing"
        /\ EnqueueNotification(r)
        /\ UNCHANGED <<messages, last_seq, idempotency_keys>>
     \/ /\ pc[w] = "insert"
        /\ InsertPossible(r)
        /\ InsertMessage(r)
        /\ EnqueueNotification(r)
     \/ /\ pc[w] = "insert"
        /\ AlreadyAtSeq(r)
        /\ last_seq' = [last_seq EXCEPT ![StreamOf[r]] = NextSeq(r)]
        /\ EnqueueNotification(r)
        /\ UNCHANGED <<messages, idempotency_keys>>

CommitTransaction(w) ==
  /\ TransactionEffect(w)
  /\ Goto(w, "commit_offset")
  /\ UNCHANGED <<kafkaVars, held, cursor, fetched, task, faults>>

\* The commit took place but the connection broke before the worker heard of
\* it: to the worker this is one more OperationalError.
CommitReplyLost(w) ==
  /\ TransactionEffect(w)
  /\ Fault
  /\ RetryOrDlq(w)
  /\ UNCHANGED <<kafkaVars, held, cursor, fetched, task>>

\* The insert cannot happen and the transaction is rolled back:
\*   - another message has the sequence, or it is behind: ValueError, rejected;
\*   - the sequence is ahead: RoomSequenceGapError, retried;
\*   - PostgreSQL refuses the values: DataError, to the DLQ;
\*   - the request was stored meanwhile: IntegrityError, caught by nobody below
\*     _process_worker_batch, so the record is read again.
InsertRefused(w) ==
  LET r == Req(w) IN
  /\ pc[w] = "insert"
  /\ UNCHANGED <<kafkaVars, dbVars, faults>>
  /\ \/ /\ SeqOf(r) < NextSeq(r)
        /\ ~AlreadyAtSeq(r)
        /\ Goto(w, "status_failed")
        /\ UNCHANGED <<held, cursor, fetched, task>>
     \/ /\ SeqOf(r) > NextSeq(r)
        /\ RetryOrDlq(w)
        /\ UNCHANGED <<held, cursor, fetched, task>>
     \/ /\ SeqOf(r) = NextSeq(r)
        /\ Kind[r] = "bad_data"
        /\ Goto(w, "publish_dlq")
        /\ UNCHANGED <<held, cursor, fetched, task>>
     \/ /\ SeqOf(r) = NextSeq(r)
        /\ Kind[r] # "bad_data"
        /\ Persisted(r)
        /\ Rewind(w)

\* OperationalError, InterfaceError or RuntimeError before the commit.
TransientError(w) ==
  /\ pc[w] \in InTransaction \cup {"begin"}
  /\ Fault
  /\ RetryOrDlq(w)
  /\ UNCHANGED <<kafkaVars, held, cursor, fetched, task, dbVars>>

\* Any other exception (PoolError, KafkaError, ...) leaves the handler.
HandlerRaises(w) ==
  /\ pc[w] \in InTransaction \cup {"begin"}
  /\ Fault
  /\ Rewind(w)
  /\ UNCHANGED <<kafkaVars, dbVars>>

\* Mutated form: the retry is not counted.
MarkInlineRetry_NotCounted(w) ==
  /\ pc[w] = "mark_retry"
  /\ WriteStatus(Req(w), "queued")
  /\ Goto(w, "begin")
  /\ UNCHANGED <<kafkaVars, held, cursor, fetched, task, messages, last_seq, idempotency_keys, outbox>>

\* mark_inline_retry, reconnect_pool, sleep, and round the loop again.
MarkInlineRetry(w) ==
  /\ pc[w] = "mark_retry"
  /\ task' = [task EXCEPT ![w].retry_count = @ + 1]
  /\ WriteStatus(Req(w), "queued")
  /\ Goto(w, "begin")
  /\ UNCHANGED <<kafkaVars, held, cursor, fetched, messages, last_seq, idempotency_keys, outbox>>

\* move_to_dlq and move_invalid_ingress_to_dlq publish first. An undecodable
\* payload names no owner, so it gets no status row.
PublishDlq(w) ==
  /\ pc[w] = "publish_dlq"
  /\ dlq' = dlq \cup {Rec(w)}
  /\ Goto(w, IF Kind[Req(w)] = "malformed" THEN "commit_offset" ELSE "status_dlq")
  /\ UNCHANGED <<ingress, committed, owner, held, cursor, fetched, task, dbVars, faults>>

\* Mutated form: a failed publish is logged and the record treated as isolated.
PublishDlqFails_Swallowed(w) ==
  /\ pc[w] = "publish_dlq"
  /\ Fault
  /\ Goto(w, "status_dlq")
  /\ UNCHANGED <<kafkaVars, held, cursor, fetched, task, dbVars>>

\* publish_dlq_job raises, with the record appended or not.
PublishDlqFails(w) ==
  /\ pc[w] = "publish_dlq"
  /\ Fault
  /\ dlq' \in {dlq, dlq \cup {Rec(w)}}
  /\ Rewind(w)
  /\ UNCHANGED <<ingress, committed, owner, dbVars>>

StatusFailedDlq(w) ==
  /\ pc[w] = "status_dlq"
  /\ WriteStatus(Req(w), "failed_dlq")
  /\ Goto(w, "commit_offset")
  /\ UNCHANGED <<kafkaVars, held, cursor, fetched, task, messages, last_seq, idempotency_keys, outbox>>

StatusFailed(w) ==
  /\ pc[w] = "status_failed"
  /\ WriteStatus(Req(w), "failed")
  /\ Goto(w, "commit_offset")
  /\ UNCHANGED <<kafkaVars, held, cursor, fetched, task, messages, last_seq, idempotency_keys, outbox>>

\* Mutated form: a commit of a fenced member is accepted.
CommitOffset_Unfenced(w) ==
  LET p == task[w].part IN
  /\ pc[w] = "commit_offset"
  /\ committed' = [committed EXCEPT ![p] = task[w].offset + 1]
  /\ cursor' = [cursor EXCEPT ![w][p] = task[w].offset + 1]
  /\ task' = [task EXCEPT ![w] = None]
  /\ Goto(w, "idle")
  /\ UNCHANGED <<ingress, owner, dlq, held, fetched, dbVars, faults>>

\* _commit_processed_record: the broker accepts it from the current owner only.
CommitOffset(w) ==
  LET p == task[w].part IN
  /\ pc[w] = "commit_offset"
  /\ owner[p] = w
  /\ committed' = [committed EXCEPT ![p] = task[w].offset + 1]
  /\ cursor' = [cursor EXCEPT ![w][p] = task[w].offset + 1]
  /\ task' = [task EXCEPT ![w] = None]
  /\ Goto(w, "idle")
  /\ UNCHANGED <<ingress, owner, dlq, held, fetched, dbVars, faults>>

\* The commit raises: the member was fenced, or the broker failed with the
\* offset stored or not. The record is read again.
CommitOffsetFails(w) ==
  LET p == task[w].part IN
  /\ pc[w] = "commit_offset"
  /\ \/ /\ owner[p] # w
        /\ UNCHANGED <<committed, faults>>
     \/ /\ owner[p] = w
        /\ Fault
        /\ committed' \in {committed, [committed EXCEPT ![p] = task[w].offset + 1]}
  /\ Rewind(w)
  /\ UNCHANGED <<ingress, owner, dlq, dbVars>>
-----------------------------------------------------------------------------
Init ==
  /\ ingress = [p \in Partitions |-> << >>]
  /\ committed = [p \in Partitions |-> 0]
  /\ owner = [p \in Partitions |-> None]
  /\ dlq = {}
  /\ held = [w \in Workers |-> {}]
  /\ cursor = [w \in Workers |-> [p \in Partitions |-> 0]]
  /\ fetched = [w \in Workers |-> [p \in Partitions |-> 0]]
  /\ task = [w \in Workers |-> None]
  /\ pc = [w \in Workers |-> "idle"]
  /\ messages = {}
  /\ last_seq = [s \in Streams |-> 0]
  /\ idempotency_keys = [k \in Keys |-> None]
  /\ request_statuses = [r \in Requests |-> "none"]
  /\ outbox = {}
  /\ faults = 0

\* What a worker does by itself when nothing fails.
Handle(w) ==
  \/ BeginTransaction(w)
  \/ CommitTransaction(w)
  \/ InsertRefused(w)
  \/ MarkInlineRetry(w)
  \/ PublishDlq(w)
  \/ StatusFailedDlq(w)
  \/ StatusFailed(w)
  \/ CommitOffset(w)
  \/ CommitOffsetFails(w)

WorkerStep(w) ==
  \/ Poll(w)
  \/ \E p \in Partitions : Assign(w, p) \/ Take(w, p)
  \/ Handle(w)

Failure(w) ==
  \/ Crash(w)
  \/ CommitReplyLost(w)
  \/ TransientError(w)
  \/ HandlerRaises(w)
  \/ PublishDlqFails(w)

Next ==
  \/ \E r \in Requests : Publish(r)
  \/ \E d \in dlq : ReplayDlq(d)
  \/ \E p \in Partitions : Fence(p)
  \/ \E w \in Workers : WorkerStep(w) \/ Failure(w)

Spec == Init /\ [][Next]_vars

\* A worker process keeps running its loop. Nothing else is fair: no request
\* has to arrive, no replay has to happen, failures only stop because
\* MaxFaults bounds them.
Fairness == \A w \in Workers : WF_vars(WorkerStep(w))

FairSpec == Spec /\ Fairness
(* What must hold.                                                         *)

TypeOK ==
  /\ ingress \in [Partitions -> Seq(Record)]
  /\ committed \in [Partitions -> Nat]
  /\ owner \in [Partitions -> Workers \cup {None}]
  /\ dlq \subseteq Record
  /\ held \in [Workers -> SUBSET Partitions]
  /\ cursor \in [Workers -> [Partitions -> Nat]]
  /\ fetched \in [Workers -> [Partitions -> Nat]]
  /\ task \in [Workers -> Task \cup {None}]
  /\ pc \in [Workers -> Phases]
  /\ messages \subseteq Message
  /\ last_seq \in [Streams -> Nat]
  /\ idempotency_keys \in [Keys -> Requests \cup {None}]
  /\ request_statuses \in [Requests -> Statuses]
  /\ outbox \subseteq Requests
  /\ faults \in Nat

\* However often a record is delivered, replayed or handled by two workers at
\* once, the request has at most one row in messages, an idempotency key at most
\* one message, and none when the key was already answered before keys were
\* scoped (_persist_message_with_cursor).
NoDuplicateEvents ==
  /\ \A m, n \in messages : m.req = n.req => m = n
  /\ \A m, n \in messages :
        KeyOf[m.req] # None /\ KeyOf[m.req] = KeyOf[n.req] => m = n
  /\ \A m \in messages : KeyOf[m.req] \notin LegacyKeys

\* The events of a stream are numbered 1, 2, 3, ... without gap or repetition
\* up to room_sequences.last_seq: a rolled-back transaction leaves no hole and
\* two workers never take one number.
StreamSequencesDense ==
  /\ \A m, n \in messages : Stream(m) = Stream(n) /\ m.seq = n.seq => m = n
  /\ \A m \in messages : m.seq <= last_seq[Stream(m)]
  /\ \A s \in Streams : \A i \in 1..last_seq[s] :
        \E m \in messages : Stream(m) = s /\ m.seq = i

\* A verdict that ends a record's processing, seen in durable state.
Rejectable(r) ==
  \/ Kind[r] = "unauthorized"
  \/ RoomSeq[r] # 0 /\ RoomSeq[r] <= last_seq[StreamOf[r]]

Resolved(rec) ==
  \/ Persisted(rec.req)
  \/ KeyOf[rec.req] # None /\ Answered(KeyOf[rec.req])
  \/ Rejectable(rec.req)
  \/ rec \in dlq

\* The committed offset never passes a record that is neither stored, answered
\* by an earlier event of its key, rejected for cause nor in the DLQ: no crash,
\* fencing or lost reply makes the group skip an accepted event.
CommittedIsResolved ==
  \A p \in Partitions : \A i \in 1..Len(ingress[p]) :
     i <= committed[p] => Resolved(ingress[p][i])

FirstAt(r, p, i) ==
  /\ ingress[p][i].req = r
  /\ \A j \in 1..(i - 1) : ingress[p][j].req # r

\* Inline retry keeps later events of a stream behind the failing one: events
\* that never went through the DLQ are numbered in the order they were
\* accepted, whichever workers stored them.
StreamOrder ==
  \A m, n \in messages :
    /\ Stream(m) = Stream(n)
    /\ m.seq < n.seq
    /\ RoomSeq[m.req] = 0 /\ RoomSeq[n.req] = 0
    /\ \A d \in dlq : d.req \notin {m.req, n.req}
    => LET p == PartitionOf[Stream(m)] IN
       \A i, j \in 1..Len(ingress[p]) :
          FirstAt(m.req, p, i) /\ FirstAt(n.req, p, j) => i < j

\* Every stored event has its outbox row, committed with it, and an answer
\* taken from the idempotency cache adds none.
OutboxMatchesMessages == outbox = {m.req : m \in messages}

\* A status the API shows is backed by what happened: "persisted" by an event of
\* the request or of its key, "failed_dlq" by a DLQ record, "failed" by a cause.
StatusIsBacked ==
  \A r \in Requests :
    /\ request_statuses[r] = "persisted" =>
         Persisted(r) \/ (KeyOf[r] # None /\ Answered(KeyOf[r]))
    /\ request_statuses[r] = "failed_dlq" => \E d \in dlq : d.req = r
    /\ request_statuses[r] = "failed" => Rejectable(r)

\* A fenced worker that wakes up cannot move the group back over records that
\* were already handled, and stored events are never changed or removed.
NothingIsTakenBack ==
  [][ /\ \A p \in Partitions : committed'[p] >= committed[p]
      /\ messages \subseteq messages' ]_vars

\* Every accepted record is eventually behind the committed offset, so no record
\* blocks its partition: the retry loop ends, a fenced or restarted worker is
\* replaced.
EveryRecordHandled ==
  \A p \in Partitions : \A i \in 1..MaxLog :
     Len(ingress[p]) >= i ~> committed[p] >= i

\* The workers implement the promise of EventStore.
Store == INSTANCE EventStore WITH
  submitted <- {r \in Requests : \E p \in Partitions :
                   \E i \in 1..Len(ingress[p]) : ingress[p][i].req = r},
  log       <- [s \in Streams |-> [n \in 1..last_seq[s] |->
                   (CHOOSE m \in messages : Stream(m) = s /\ m.seq = n).req]],
  answered  <- {k \in Keys : Answered(k)},
  notified  <- outbox

\* Each step of the workers is a step of EventStore or changes none of what
\* EventStore speaks of.
ImplementsEventStore == Store!Spec
=============================================================================
