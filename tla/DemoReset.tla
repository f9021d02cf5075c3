----------------------------- MODULE DemoReset -----------------------------
(***************************************************************************)
(* The demo reset of src/portfolio/api.py next to the requests and the     *)
(* Worker transactions it meets in PostgreSQL.                             *)
(*                                                                         *)
(* A transaction takes the lock of each table its statements name, in the  *)
(* order they name them, and keeps it until it ends.  The reset wants its  *)
(* tables for itself (ACCESS EXCLUSIVE); everyone else shares them (ACCESS *)
(* SHARE, ROW EXCLUSIVE).  Who has to wait queues up; PostgreSQL breaks a  *)
(* circle of waiting transactions by failing one of them.                  *)
(*                                                                         *)
(* A program is the sequence of tables and statements of one request; a    *)
(* statement changes what its own transaction will commit, and the commit  *)
(* changes the database.  The sequence rooms_id_seq is not transactional.  *)
(* Only rooms carry who made them: birth counts the streams ever made, so  *)
(* that a stream made anew under an old id is told from the old one.       *)
(***************************************************************************)
EXTENDS Naturals, Sequences, FiniteSets, SequencesExt

CONSTANTS Readers,       \* threads of the API that serve streams, posts and reads
          Resetters,     \* threads of the API that serve a demo reset
          Workers,       \* worker processes
          Requests,      \* request ids: one per POST
          Keyed,         \* those that carry an idempotency key
          MaxStreams,    \* bound: streams ever created
          MaxResets,     \* bound: resets ever asked for
          MaxFaults,     \* bound: lost sessions, lost replies, Kafka errors
          MaxRetries,    \* INGRESS_MAX_RETRIES
          None

Clients == Readers \cup Resetters

ASSUME DemoResetAssumption ==
  /\ Keyed \subseteq Requests
  /\ Readers \cap Resetters = {} /\ Clients \cap Workers = {}
  /\ {MaxStreams, MaxResets, MaxFaults, MaxRetries} \subseteq Nat

VARIABLES db,        \* the committed rows: rooms, messages, receipts, statuses
          nextRoom,  \* rooms_id_seq
          birth,     \* streams created so far (history)
          txn,       \* what each agent is doing
          held,      \* the tables each agent has locked
          waiters,   \* the agents that wait for a table, the oldest first
          jobs,      \* ingress records not yet behind the committed offset
          dlq,       \* the DLQ topic and its records
          asked,     \* requests posted, streams and resets asked for, faults so far
          known      \* the streams clients were answered with

vars == <<db, nextRoom, birth, txn, held, waiters, jobs, dlq, asked, known>>

Agents == Clients \cup Workers

Tables == {"idempotency_keys", "messages", "rooms", "request_statuses",
           "room_members", "read_receipts"}

EmptyDb == [rooms |-> {}, messages |-> {}, receipts |-> {}, statuses |-> {}]

\* room: the stream concerned; job: the record a Worker handles; found: what
\* the membership query answered; counts: what the reset counted.
Idle == [op |-> "idle", step |-> 1, room |-> None, job |-> None,
         found |-> FALSE, counts |-> None]

(***************************************************************************)
(* The order in which the code names tables and runs statements.           *)
(***************************************************************************)
\* Mutant: rooms before messages, the order of the readers.
LockedTables_RoomsFirst == <<"idempotency_keys", "rooms", "messages", "request_statuses">>
\* Mutant: no LOCK TABLE.
LockedTables_None == <<>>
LockedTables == <<"idempotency_keys", "messages", "rooms", "request_statuses">>

Member == <<"rooms", "room_members", "member">>

Persist == <<"messages", "rooms", "room_members", "authorize",
             "request_statuses", "commit_message">>

Programs ==
  [reset   |-> LockedTables \o <<"count", "room_members", "read_receipts",
                 "commit_reset", "delete_topic", "wait_topic", "create_topic">>,
   create  |-> <<"rooms", "insert_room", "room_members", "commit_room">>,
   list    |-> Member \o <<"messages", "answer">>,
   unread  |-> Member \o <<"messages", "read_receipts", "answer">>,
   mark    |-> <<"messages", "room_members", "find", "read_receipts", "commit_receipt">>,
   persist |-> Persist,
   keyed   |-> <<"idempotency_keys">> \o Persist,
   failed  |-> <<"request_statuses", "commit_status">>,
   dlq     |-> <<"publish_dlq", "request_statuses", "commit_status">>,
   retry   |-> <<"request_statuses", "commit_queued">>,
   idle    |-> <<"idle">>]

Persisting(t) == txn[t].op \in {"persist", "keyed"}

Program(t) == Programs[txn[t].op]

Now(t) == Program(t)[txn[t].step]

\* A session is in a transaction unless it waits for Kafka or for work.
InTransaction(t) ==
  txn[t].op # "idle"
    /\ Now(t) \notin {"delete_topic", "wait_topic", "create_topic", "publish_dlq"}

(***************************************************************************)
(* Table locks (PostgreSQL).                                               *)
(***************************************************************************)
Exclusive(t) == txn[t].op = "reset"

Waiting(t) == t \in Range(waiters)

WaitsBefore(u, t) ==
  \E i, j \in 1..Len(waiters) : waiters[i] = u /\ waiters[j] = t /\ i < j

\* Those t must wait for: who holds its table in a mode that excludes t's, and
\* who asked for it earlier in such a mode.
Blockers(t) ==
  {u \in Agents \ {t} :
     /\ Exclusive(t) \/ Exclusive(u)
     /\ \/ Now(t) \in held[u]
        \/ Waiting(u) /\ Now(u) = Now(t) /\ (Waiting(t) => WaitsBefore(u, t))}

Locked(t) == Now(t) \in held[t] \/ Blockers(t) = {}

\* t waits, directly or through others, for a transaction that waits for it:
\* it is among those that are reached from its blockers.
Ahead(agents) == UNION {Blockers(u) : u \in {v \in agents : Waiting(v)}}
Circle(t) ==
  \A reached \in SUBSET Agents :
    Blockers(t) \cup Ahead(reached) \subseteq reached => t \in reached

\* Mutant: nobody breaks the circle.
Deadlocked_Unbroken(t) == FALSE
Deadlocked(t) == Waiting(t) /\ Circle(t)

\* What t knows now, and on to its next statement.
Step(t, knows) == txn' = [txn EXCEPT ![t] = [knows EXCEPT !.step = @ + 1]]

\* t does not wait any longer, or did not wait.
Unqueue(t) ==
  \/ ~Waiting(t) /\ UNCHANGED waiters
  \/ \E i \in DOMAIN waiters : waiters[i] = t /\ waiters' = RemoveAt(waiters, i)

LockTable(t) ==
  /\ Now(t) \in Tables
  /\ Locked(t)
  /\ held' = [held EXCEPT ![t] = @ \cup {Now(t)}]
  /\ Unqueue(t)
  /\ Step(t, txn[t])
  /\ UNCHANGED <<db, nextRoom, birth, jobs, dlq, asked, known>>

QueueForTable(t) ==
  /\ Now(t) \in Tables
  /\ ~Locked(t)
  /\ ~Waiting(t)
  /\ waiters' = Append(waiters, t)
  /\ UNCHANGED <<db, nextRoom, birth, txn, held, jobs, dlq, asked, known>>

\* The end of a transaction, committed or not: get_conn rolls back whatever
\* was not committed before the connection returns to the pool.
Release(t) ==
  /\ held' = [held EXCEPT ![t] = {}]
  /\ Unqueue(t)

Answer(t) == txn' = [txn EXCEPT ![t] = Idle]

(***************************************************************************)
(* The demo reset.                                                         *)
(***************************************************************************)
AskReset(t) ==
  /\ txn[t].op = "idle"
  /\ asked.resets < MaxResets
  /\ asked' = [asked EXCEPT !.resets = @ + 1]
  /\ txn' = [txn EXCEPT ![t] = [Idle EXCEPT !.op = "reset"]]
  /\ UNCHANGED <<db, nextRoom, birth, held, waiters, jobs, dlq, known>>

RowCounts(d) == <<Cardinality(d.messages), Cardinality(d.rooms), Cardinality(d.statuses)>>

CountRows(t) ==
  /\ Now(t) = "count"
  /\ Step(t, [txn[t] EXCEPT !.counts = RowCounts(db)])
  /\ UNCHANGED <<db, nextRoom, birth, held, waiters, jobs, dlq, asked, known>>

\* What the TRUNCATEs leave: rooms CASCADE takes its members, messages and
\* their receipts along, and no statement restarts rooms_id_seq.
AfterTruncate == EmptyDb
\* Mutant: RESTART IDENTITY.
NextRoomAfterReset_Restart == 1
NextRoomAfterReset == nextRoom

CommitReset(t) ==
  /\ Now(t) = "commit_reset"
  /\ db' = AfterTruncate
  /\ nextRoom' = NextRoomAfterReset
  /\ Release(t)
  /\ Step(t, txn[t])
  /\ UNCHANGED <<birth, jobs, dlq, asked, known>>

\* reset_topic: delete, wait until the topic is gone from the list, create.
\* A topic that was not there, or is still there, is not an error.
DeleteTopic(t) ==
  /\ Now(t) = "delete_topic"
  /\ dlq' = [dlq EXCEPT !.topic = IF @ = "present" THEN "deleting" ELSE @]
  /\ Step(t, txn[t])
  /\ UNCHANGED <<db, nextRoom, birth, held, waiters, jobs, asked, known>>

TopicDeleted ==
  /\ dlq.topic = "deleting"
  /\ dlq' = [topic |-> "gone", records |-> {}]
  /\ UNCHANGED <<db, nextRoom, birth, txn, held, waiters, jobs, asked, known>>

Faulty == asked.faults < MaxFaults /\ asked' = [asked EXCEPT !.faults = @ + 1]

WaitTopic(t) ==
  /\ Now(t) = "wait_topic"
  /\ \/ dlq.topic # "deleting" /\ UNCHANGED asked
     \/ dlq.topic = "deleting" /\ Faulty      \* ten seconds were not enough
  /\ Step(t, txn[t])
  /\ UNCHANGED <<db, nextRoom, birth, held, waiters, jobs, dlq, known>>

CreateTopic(t) ==
  /\ Now(t) = "create_topic"
  /\ dlq' = [dlq EXCEPT !.topic = IF @ = "gone" THEN "present" ELSE @]
  /\ Answer(t)
  /\ UNCHANGED <<db, nextRoom, birth, held, waiters, jobs, asked, known>>

\* The tables are empty by then, and the answer says so.
TopicFails(t) ==
  /\ Now(t) \in {"delete_topic", "create_topic"}
  /\ Faulty
  /\ Answer(t)
  /\ UNCHANGED <<db, nextRoom, birth, held, waiters, jobs, dlq, known>>

(***************************************************************************)
(* Streams, posts and reads.                                               *)
(***************************************************************************)
AskCreate(t) ==
  /\ txn[t].op = "idle"
  /\ asked.streams < MaxStreams
  /\ asked' = [asked EXCEPT !.streams = @ + 1]
  /\ txn' = [txn EXCEPT ![t] = [Idle EXCEPT !.op = "create"]]
  /\ UNCHANGED <<db, nextRoom, birth, held, waiters, jobs, dlq, known>>

\* The sequence moves on whether or not the transaction commits.
InsertRoom(t) ==
  /\ Now(t) = "insert_room"
  /\ Step(t, [txn[t] EXCEPT !.room = [id |-> nextRoom, birth |-> birth]])
  /\ nextRoom' = nextRoom + 1
  /\ birth' = birth + 1
  /\ UNCHANGED <<db, held, waiters, jobs, dlq, asked, known>>

CommitRoom(t) ==
  /\ Now(t) = "commit_room"
  /\ db' = [db EXCEPT !.rooms = @ \cup {txn[t].room}]
  /\ known' = known \cup {txn[t].room}
  /\ Release(t)
  /\ Answer(t)
  /\ UNCHANGED <<nextRoom, birth, jobs, dlq, asked>>

\* A member id that does not exist.
UnknownMember(t) ==
  /\ Now(t) = "room_members"
  /\ txn[t].op = "create"
  /\ Release(t)
  /\ Answer(t)
  /\ UNCHANGED <<db, nextRoom, birth, jobs, dlq, asked, known>>

\* create_event publishes the record and touches no table: the stream may
\* have been reset since the client got to know it.
\* fits: whether PostgreSQL can store what it says (DataError if not).
PostEvent(t, room, r, fits) ==
  /\ txn[t].op = "idle"
  /\ r \notin asked.requests
  /\ asked' = [asked EXCEPT !.requests = @ \cup {r}]
  /\ jobs' = jobs \cup {[request |-> r, room |-> room, fits |-> fits,
                          retries |-> 0, replays |-> 0]}
  /\ Answer(t)
  /\ UNCHANGED <<db, nextRoom, birth, held, waiters, dlq, known>>

AskRead(t, op, room) ==
  /\ txn[t].op = "idle"
  /\ txn' = [txn EXCEPT ![t] = [Idle EXCEPT !.op = op, !.room = room]]
  /\ UNCHANGED <<db, nextRoom, birth, held, waiters, jobs, dlq, asked, known>>

RoomIds == {room.id : room \in db.rooms}

\* Every client is a member of every stream: what matters is whether it exists.
\* The transaction keeps its locks after the membership query.
\* Mutant: a transaction for each statement.
LocksAfterQuery_Autocommit(t) == {}
LocksAfterQuery(t) == held[t]
CheckMember(t) ==
  /\ Now(t) = "member"
  /\ IF txn[t].room.id \in RoomIds
     THEN /\ Step(t, [txn[t] EXCEPT !.found = TRUE])
          /\ held' = [held EXCEPT ![t] = LocksAfterQuery(t)]
          /\ UNCHANGED waiters
     ELSE Answer(t) /\ Release(t)
  /\ UNCHANGED <<db, nextRoom, birth, jobs, dlq, asked, known>>

AnswerRead(t) ==
  /\ Now(t) = "answer"
  /\ Answer(t)
  /\ Release(t)
  /\ UNCHANGED <<db, nextRoom, birth, jobs, dlq, asked, known>>

\* mark_as_read of the event request r was stored as, whose id the client saw.
AskMark(t, r) ==
  /\ txn[t].op = "idle"
  /\ \E m \in db.messages : m.request = r
  /\ txn' = [txn EXCEPT ![t] = [Idle EXCEPT !.op = "mark", !.room = r]]
  /\ UNCHANGED <<db, nextRoom, birth, held, waiters, jobs, dlq, asked, known>>

Stored(r) == \E m \in db.messages : m.request = r

FindMessage(t) ==
  /\ Now(t) = "find"
  /\ IF Stored(txn[t].room)
     THEN /\ Step(t, [txn[t] EXCEPT !.found = TRUE])
          /\ held' = [held EXCEPT ![t] = LocksAfterQuery(t)]
          /\ UNCHANGED waiters
     ELSE Answer(t) /\ Release(t)
  /\ UNCHANGED <<db, nextRoom, birth, jobs, dlq, asked, known>>

\* The foreign key refuses a receipt of a message that is not there; the
\* handler does not expect that and answers 500.
CommitReceipt(t) ==
  /\ Now(t) = "commit_receipt"
  /\ IF Stored(txn[t].room)
     THEN db' = [db EXCEPT !.receipts = @ \cup {txn[t].room}] /\ Answer(t)
     ELSE Answer(t) /\ UNCHANGED db
  /\ Release(t)
  /\ UNCHANGED <<nextRoom, birth, jobs, dlq, asked, known>>

(***************************************************************************)
(* The Worker: one record at a time, as IngressWorker has it in detail.    *)
(***************************************************************************)
PersistOp(job) == IF job.request \in Keyed THEN "keyed" ELSE "persist"

Begin(w, op, job) ==
  txn' = [txn EXCEPT ![w] = [Idle EXCEPT !.op = op, !.job = job]]

TakeJob(w, job) ==
  /\ txn[w].op = "idle"
  /\ \A v \in Workers : txn[v].op # "idle" => txn[v].job.request # job.request
  /\ Begin(w, PersistOp(job), job)
  /\ UNCHANGED <<db, nextRoom, birth, held, waiters, jobs, dlq, asked, known>>

\* A message stored before is answered again; a stream that is not there, or
\* that the actor is no member of, is a rejection.
Authorize(w) ==
  /\ Now(w) = "authorize"
  /\ IF Stored(txn[w].job.request) \/ txn[w].job.room.id \in RoomIds
     THEN Step(w, txn[w]) /\ UNCHANGED <<held, waiters>>
     ELSE Begin(w, "failed", txn[w].job) /\ Release(w)
  /\ UNCHANGED <<db, nextRoom, birth, jobs, dlq, asked, known>>

SetStatus(statuses, r, value) ==
  {s \in statuses : s.request # r} \cup {[request |-> r, value |-> value]}

\* The row belongs to whatever stream has the id of the record.
RoomOf(job) == CHOOSE room \in db.rooms : room.id = job.room.id

Persisted(job) ==
  [db EXCEPT !.messages = IF Stored(job.request) THEN @
                          ELSE @ \cup {[request |-> job.request, room |-> RoomOf(job)]},
             !.statuses = SetStatus(@, job.request, "persisted")]

Handled(w) == jobs' = {job \in jobs : job.request # txn[w].job.request}

CommitMessage(w) ==
  /\ Now(w) = "commit_message"
  /\ txn[w].job.fits
  /\ db' = Persisted(txn[w].job)
  /\ Handled(w)
  /\ Answer(w)
  /\ Release(w)
  /\ UNCHANGED <<nextRoom, birth, dlq, asked, known>>

\* An INSERT that can never succeed goes to the DLQ without a retry.
RefuseRow(w) ==
  /\ Now(w) = "commit_message"
  /\ ~txn[w].job.fits
  /\ Begin(w, "dlq", txn[w].job)
  /\ Release(w)
  /\ UNCHANGED <<db, nextRoom, birth, jobs, dlq, asked, known>>

CommitStatus(w) ==
  /\ Now(w) = "commit_status"
  /\ db' = [db EXCEPT !.statuses = SetStatus(@, txn[w].job.request, txn[w].op)]
  /\ Handled(w)
  /\ Answer(w)
  /\ Release(w)
  /\ UNCHANGED <<nextRoom, birth, dlq, asked, known>>

\* mark_inline_retry, then the same record again.
CommitQueued(w) ==
  /\ Now(w) = "commit_queued"
  /\ db' = [db EXCEPT !.statuses = SetStatus(@, txn[w].job.request, "queued")]
  /\ Begin(w, PersistOp(txn[w].job), [txn[w].job EXCEPT !.retries = @ + 1])
  /\ Release(w)
  /\ UNCHANGED <<nextRoom, birth, jobs, dlq, asked, known>>

PublishDlq(w) ==
  /\ Now(w) = "publish_dlq"
  /\ IF dlq.topic = "gone"
     THEN Answer(w) /\ UNCHANGED dlq     \* not committed: handled again
     ELSE /\ Step(w, txn[w])
          /\ dlq' = [dlq EXCEPT !.records = @ \cup {txn[w].job}]
  /\ UNCHANGED <<db, nextRoom, birth, held, waiters, jobs, asked, known>>

\* DlqReplay has the claims that guard it.
ReplayDlq(job) ==
  /\ job \in dlq.records
  /\ job.replays = 0
  /\ job.request \notin {j.request : j \in jobs}
  /\ jobs' = jobs \cup {[job EXCEPT !.retries = 0, !.replays = 1]}
  /\ dlq' = [dlq EXCEPT !.records = @ \ {job}]
  /\ UNCHANGED <<db, nextRoom, birth, txn, held, waiters, asked, known>>

(***************************************************************************)
(* Failures: a deadlock PostgreSQL broke, a lost session, a commit whose   *)
(* reply is lost.                                                          *)
(***************************************************************************)
AfterError(w) ==
  CASE ~Persisting(w) ->
         \* update_request_status only logs it
         IF txn[w].op = "retry"
         THEN Begin(w, PersistOp(txn[w].job), [txn[w].job EXCEPT !.retries = @ + 1]) /\ UNCHANGED jobs
         ELSE Answer(w) /\ Handled(w)
    [] Persisting(w) /\ txn[w].job.retries >= MaxRetries -> Begin(w, "dlq", txn[w].job) /\ UNCHANGED jobs
    [] OTHER -> Begin(w, "retry", txn[w].job) /\ UNCHANGED jobs

Fail(t) ==
  /\ IF t \in Workers THEN AfterError(t) ELSE Answer(t) /\ UNCHANGED jobs
  /\ Release(t)

BreakDeadlock(t) ==
  /\ Deadlocked(t)
  /\ Fail(t)
  /\ UNCHANGED <<db, nextRoom, birth, dlq, asked, known>>

LoseSession(t) ==
  /\ InTransaction(t)
  /\ Faulty
  /\ Fail(t)
  /\ UNCHANGED <<db, nextRoom, birth, dlq, known>>

LoseCommitReply(t) ==
  /\ Now(t) \in {"commit_reset", "commit_message"}
  /\ t \in Workers => txn[t].job.fits
  /\ Faulty
  /\ db' = IF t \in Workers THEN Persisted(txn[t].job) ELSE AfterTruncate
  /\ nextRoom' = IF t \in Workers THEN nextRoom ELSE NextRoomAfterReset
  /\ Fail(t)
  /\ UNCHANGED <<birth, dlq, known>>

(***************************************************************************)
(* The system.                                                             *)
(***************************************************************************)
Init ==
  /\ db = EmptyDb
  /\ nextRoom = 1
  /\ birth = 0
  /\ txn = [t \in Agents |-> Idle]
  /\ held = [t \in Agents |-> {}]
  /\ waiters = <<>>
  /\ jobs = {}
  /\ dlq = [topic |-> "present", records |-> {}]
  /\ asked = [requests |-> {}, resets |-> 0, streams |-> 0, faults |-> 0]
  /\ known = {}

Ask(t) ==
  \/ AskCreate(t)
  \/ \E room \in known, r \in Requests, fits \in BOOLEAN : PostEvent(t, room, r, fits)
  \/ \E room \in known, op \in {"list", "unread"} : AskRead(t, op, room)
  \/ \E r \in Requests : AskMark(t, r)

Serve(t) ==
  \/ LockTable(t) \/ QueueForTable(t) \/ BreakDeadlock(t)
  \/ CountRows(t) \/ CommitReset(t)
  \/ DeleteTopic(t) \/ WaitTopic(t) \/ CreateTopic(t)
  \/ InsertRoom(t) \/ CommitRoom(t)
  \/ CheckMember(t) \/ AnswerRead(t) \/ FindMessage(t) \/ CommitReceipt(t)

Work(w) ==
  \/ \E job \in jobs : TakeJob(w, job)
  \/ LockTable(w) \/ QueueForTable(w) \/ BreakDeadlock(w)
  \/ Authorize(w) \/ CommitMessage(w) \/ RefuseRow(w) \/ CommitStatus(w)
  \/ CommitQueued(w) \/ PublishDlq(w)

Failure(t) == LoseSession(t) \/ LoseCommitReply(t)

Next ==
  \/ \E t \in Readers : Ask(t) \/ UnknownMember(t)
  \/ \E t \in Resetters : AskReset(t) \/ TopicFails(t)
  \/ \E t \in Clients : Serve(t)
  \/ \E w \in Workers : Work(w)
  \/ \E t \in Agents : Failure(t)
  \/ TopicDeleted
  \/ \E job \in dlq.records : ReplayDlq(job)

Spec == Init /\ [][Next]_vars

\* rooms_id_seq and the history of streams move together, whatever is reset.
Room == {room \in [id : Nat, birth : Nat] : room.id = room.birth + 1}

Job == [request : Requests, room : Room, fits : BOOLEAN, retries : Nat, replays : Nat]

\* What an agent is doing.
Doing == [op : DOMAIN Programs, step : Nat \ {0}, room : Room \cup Requests \cup {None},
          job : Job \cup {None}, found : BOOLEAN,
          counts : (Nat \X Nat \X Nat) \cup {None}]

Database == [rooms : SUBSET Room, messages : SUBSET [request : Requests, room : Room],
             receipts : SUBSET Requests,
             statuses : SUBSET [request : Requests,
                                value : {"persisted", "failed", "dlq", "queued"}]]

\* The types of the state.
TypeOK ==
  /\ db \in Database
  /\ birth \in Nat /\ nextRoom = birth + 1
  /\ txn \in [Agents -> Doing]
  /\ held \in [Agents -> SUBSET Tables]
  /\ waiters \in Seq(Agents)
  /\ jobs \subseteq Job
  /\ dlq \in [topic : {"present", "deleting", "gone"}, records : SUBSET Job]
  /\ asked \in [requests : SUBSET Requests, resets : 0..MaxResets,
                streams : 0..MaxStreams, faults : 0..MaxFaults]
  /\ known \subseteq Room

\* A request that was asked is served: its thread runs, PostgreSQL grants a
\* lock that is free and breaks deadlocks (deadlock_timeout), Kafka deletes.
FairSpec ==
  /\ Spec
  /\ \A t \in Clients : WF_vars(Serve(t))
  /\ \A w \in Workers : WF_vars(Work(w))
  /\ WF_vars(TopicDeleted)

(***************************************************************************)
(* Properties.                                                             *)
(***************************************************************************)
\* A record that was still queued, retried or dead-lettered when the demo was
\* reset never ends up in a stream created afterwards, though the reset emptied
\* the rooms and the stream may be named alike ("must never target a
\* newly-created room that happened to reuse the old numeric ID", api.py:103).
RoomIdMonotonicity ==
  \A m \in db.messages, job \in jobs \cup dlq.records :
    m.room.id = job.room.id => m.room = job.room

\* What the reset answers to have deleted is what its TRUNCATEs delete: nothing
\* is written between its count and its commit.
CountsAreExact ==
  \A t \in Clients :
    txn[t].op = "reset" /\ txn[t].counts # None /\ InTransaction(t)
      => txn[t].counts = RowCounts(db)

\* No reset makes PostgreSQL fail a Worker: a Worker that was chosen to break a
\* deadlock would burn one of the record's retries.  The reset locks its tables
\* in the order in which the Worker's transaction comes to them.
WorkersNeverDeadlock == \A w \in Workers : Waiting(w) => ~Circle(w)

\* What a read found when it asked for the membership, or for the message, is
\* still there when it answers or stores the receipt, whatever reset comes
\* between its two statements.
AnswersAreOfOneEra ==
  \A t \in Clients :
    txn[t].found =>
      IF txn[t].op = "mark" THEN Stored(txn[t].room) ELSE txn[t].room \in db.rooms

\* Every request is answered, also the reader and the reset that block each
\* other (a reader holds rooms and wants messages).
EveryRequestAnswered == \A t \in Clients : txn[t].op # "idle" ~> txn[t].op = "idle"
=============================================================================
