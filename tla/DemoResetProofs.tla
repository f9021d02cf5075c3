---------------------------- MODULE DemoResetProofs ----------------------------
(***************************************************************************)
(* Proofs about DemoReset.  Two facts carry them: an agent has exactly the *)
(* tables locked that its program named so far, and a table is either      *)
(* shared or has one exclusive holder.  What a transaction read under its  *)
(* locks therefore holds until its end.                                    *)
(***************************************************************************)
EXTENDS DemoReset, FiniteSetTheorems, SequenceTheorems, TLAPS

ReaderOps == {"create", "list", "unread", "mark", "idle"}
ResetterOps == {"reset", "idle"}
WorkerOps == {"persist", "keyed", "failed", "dlq", "retry", "idle"}

Length(op) == Len(Programs[op])

\* Who runs which programs, and what a program knows at each of its steps;
\* a is what agent t is doing.
OwnProgram(t, a) ==
  /\ t \in Readers => a.op \in ReaderOps
  /\ t \in Resetters => a.op \in ResetterOps
  /\ t \in Workers => a.op \in WorkerOps
  /\ a.step \in 1..Length(a.op)

KnowsItsData(a) ==
  /\ a.op \in {"list", "unread"} => a.room \in Room
  /\ a.op = "create" /\ a.step > 2 => a.room \in Room
  /\ a.op = "mark" => a.room \in Requests
  /\ a.op \in WorkerOps \ {"idle"} => a.job \in Job
  /\ a.found => a.op \in {"list", "unread", "mark"} /\ a.step > 3
  /\ a.counts # None => a.op = "reset" /\ a.step > 5

Good(t, a) == a \in Doing /\ OwnProgram(t, a) /\ KnowsItsData(a)

FiniteRows ==
  /\ IsFiniteSet(db.rooms)
  /\ IsFiniteSet(db.messages)
  /\ IsFiniteSet(db.statuses)

TypeInv ==
  /\ TypeOK
  /\ FiniteRows
  /\ \A t \in Agents : Good(t, txn[t])

\* The tables its program has named before its present step, none once the
\* transaction of a reset is over.
LocksSoFar(a) ==
  IF a.op = "reset" /\ a.step > 8 THEN {}
  ELSE Tables \cap {Programs[a.op][i] : i \in 1..(a.step - 1)}

\* A table that two agents hold is held by no reset.
Apart ==
  \A t, u \in Agents :
    t # u /\ held[t] \cap held[u] # {} => ~Exclusive(t) /\ ~Exclusive(u)

LocksHeld == \A t \in Agents : held[t] = LocksSoFar(txn[t])

LockInv == LocksHeld /\ Apart

\* What each transaction found still holds while it runs.
StillFound(t) ==
  txn[t].found => IF txn[t].op = "mark" THEN Stored(txn[t].room)
                  ELSE txn[t].room \in db.rooms

Authorized(t) ==
  (Persisting(t) /\ txn[t].step > (IF txn[t].op = "keyed" THEN 5 ELSE 4))
    => Stored(txn[t].job.request) \/ txn[t].job.room.id \in RoomIds

StillCounted(t) ==
  (txn[t].op = "reset" /\ txn[t].step \in 6..8) => txn[t].counts = RowCounts(db)

EraInv == \A t \in Agents : StillFound(t) /\ Authorized(t) /\ StillCounted(t)

-----------------------------------------------------------------------------

\* The programs, statement by statement.
LEMMA ResetProgram ==
  /\ Len(Programs.reset) = 11
  /\ Programs.reset[1] = "idempotency_keys" /\ Programs.reset[2] = "messages"
  /\ Programs.reset[3] = "rooms" /\ Programs.reset[4] = "request_statuses"
  /\ Programs.reset[5] = "count" /\ Programs.reset[6] = "room_members"
  /\ Programs.reset[7] = "read_receipts" /\ Programs.reset[8] = "commit_reset"
  /\ Programs.reset[9] = "delete_topic" /\ Programs.reset[10] = "wait_topic"
  /\ Programs.reset[11] = "create_topic"
BY DEF Programs, LockedTables

LEMMA ReadPrograms ==
  /\ Len(Programs.list) = 5
  /\ Programs.list[1] = "rooms" /\ Programs.list[2] = "room_members"
  /\ Programs.list[3] = "member" /\ Programs.list[4] = "messages"
  /\ Programs.list[5] = "answer"
  /\ Len(Programs.unread) = 6
  /\ Programs.unread[1] = "rooms" /\ Programs.unread[2] = "room_members"
  /\ Programs.unread[3] = "member" /\ Programs.unread[4] = "messages"
  /\ Programs.unread[5] = "read_receipts" /\ Programs.unread[6] = "answer"
BY DEF Programs, Member

LEMMA WritePrograms ==
  /\ Len(Programs.create) = 4
  /\ Programs.create[1] = "rooms" /\ Programs.create[2] = "insert_room"
  /\ Programs.create[3] = "room_members" /\ Programs.create[4] = "commit_room"
  /\ Len(Programs.mark) = 5
  /\ Programs.mark[1] = "messages" /\ Programs.mark[2] = "room_members"
  /\ Programs.mark[3] = "find" /\ Programs.mark[4] = "read_receipts"
  /\ Programs.mark[5] = "commit_receipt"
  /\ Len(Programs.idle) = 1 /\ Programs.idle[1] = "idle"
BY DEF Programs

LEMMA PersistPrograms ==
  /\ Len(Programs.persist) = 6
  /\ Programs.persist[1] = "messages" /\ Programs.persist[2] = "rooms"
  /\ Programs.persist[3] = "room_members" /\ Programs.persist[4] = "authorize"
  /\ Programs.persist[5] = "request_statuses" /\ Programs.persist[6] = "commit_message"
  /\ Len(Programs.keyed) = 7 /\ Programs.keyed[1] = "idempotency_keys"
  /\ Programs.keyed[2] = "messages" /\ Programs.keyed[3] = "rooms"
  /\ Programs.keyed[4] = "room_members" /\ Programs.keyed[5] = "authorize"
  /\ Programs.keyed[6] = "request_statuses" /\ Programs.keyed[7] = "commit_message"
BY DEF Programs, Persist

LEMMA StatusPrograms ==
  /\ Len(Programs.failed) = 2
  /\ Programs.failed[1] = "request_statuses" /\ Programs.failed[2] = "commit_status"
  /\ Len(Programs.dlq) = 3
  /\ Programs.dlq[1] = "publish_dlq" /\ Programs.dlq[2] = "request_statuses"
  /\ Programs.dlq[3] = "commit_status"
  /\ Len(Programs.retry) = 2
  /\ Programs.retry[1] = "request_statuses" /\ Programs.retry[2] = "commit_queued"
BY DEF Programs

LEMMA ProgramNames ==
  DOMAIN Programs = {"reset", "create", "list", "unread", "mark", "persist", "keyed",
                     "failed", "dlq", "retry", "idle"}
BY DEF Programs

\* How far each program reaches.
LEMMA Lengths ==
  ASSUME NEW op \in DOMAIN Programs
  PROVE  /\ Length(op) \in Nat \ {0}
         /\ op = "reset" => Length(op) = 11
         /\ op = "keyed" => Length(op) = 7
         /\ op = "unread" => Length(op) = 6
         /\ op = "persist" => Length(op) = 6
         /\ op = "list" => Length(op) = 5
         /\ op = "mark" => Length(op) = 5
         /\ op = "create" => Length(op) = 4
         /\ op = "dlq" => Length(op) = 3
         /\ op = "idle" => Length(op) = 1
         /\ op = "failed" => Length(op) = 2
         /\ op = "retry" => Length(op) = 2
<1>1. op = "reset" => Length(op) = 11
  BY ResetProgram DEF Length
<1>2. op = "keyed" => Length(op) = 7
  BY PersistPrograms DEF Length
<1>3. op = "unread" => Length(op) = 6
  BY ReadPrograms DEF Length
<1>4. op = "persist" => Length(op) = 6
  BY PersistPrograms DEF Length
<1>5. op = "list" => Length(op) = 5
  BY ReadPrograms DEF Length
<1>6. op = "mark" => Length(op) = 5
  BY WritePrograms DEF Length
<1>7. op = "create" => Length(op) = 4
  BY WritePrograms DEF Length
<1>8. op = "dlq" => Length(op) = 3
  BY StatusPrograms DEF Length
<1>9. op = "idle" => Length(op) = 1
  BY WritePrograms DEF Length
<1>10. op = "failed" => Length(op) = 2
  BY StatusPrograms DEF Length
<1>11. op = "retry" => Length(op) = 2
  BY StatusPrograms DEF Length
<1> QED
  BY <1>1, <1>2, <1>3, <1>4, <1>5, <1>6, <1>7, <1>8, <1>9, <1>10, <1>11, ProgramNames

\* Where each statement stands.
LEMMA Places ==
  ASSUME NEW op \in DOMAIN Programs, NEW n \in 1..Length(op), NEW s,
         s = Programs[op][n]
  PROVE  /\ s = "count" => op = "reset" /\ n = 5
         /\ s = "commit_reset" => op = "reset" /\ n = 8
         /\ s = "delete_topic" => op = "reset" /\ n = 9
         /\ s = "wait_topic" => op = "reset" /\ n = 10
         /\ s = "create_topic" => op = "reset" /\ n = 11
         /\ s = "insert_room" => op = "create" /\ n = 2
         /\ s = "commit_room" => op = "create" /\ n = 4
         /\ s = "member" => op \in {"list", "unread"} /\ n = 3
         /\ s = "answer" => op \in {"list", "unread"} /\ n > 3
         /\ s = "find" => op = "mark" /\ n = 3
         /\ s = "commit_receipt" => op = "mark" /\ n = 5
         /\ s = "authorize" => (op = "persist" /\ n = 4) \/ (op = "keyed" /\ n = 5)
         /\ s = "commit_message" => (op = "persist" /\ n = 6) \/ (op = "keyed" /\ n = 7)
         /\ s = "commit_status" => (op = "failed" /\ n = 2) \/ (op = "dlq" /\ n = 3)
         /\ s = "commit_queued" => op = "retry" /\ n = 2
         /\ s = "publish_dlq" => op = "dlq" /\ n = 1
         /\ s = "idempotency_keys" => op \in {"reset", "keyed"} /\ n = 1
         /\ s \in Tables => op # "idle" /\ n < Length(op)
                              /\ (op = "reset" => n \in {1, 2, 3, 4, 6, 7})
<1>1. CASE op = "reset"
  <2>1. \/ n = 1 /\ s = "idempotency_keys"
        \/ n = 2 /\ s = "messages"
        \/ n = 3 /\ s = "rooms"
        \/ n = 4 /\ s = "request_statuses"
        \/ n = 5 /\ s = "count"
        \/ n = 6 /\ s = "room_members"
        \/ n = 7 /\ s = "read_receipts"
        \/ n = 8 /\ s = "commit_reset"
        \/ n = 9 /\ s = "delete_topic"
        \/ n = 10 /\ s = "wait_topic"
        \/ n = 11 /\ s = "create_topic"
    BY SMTT(30), <1>1, ResetProgram DEF Length
  <2>2. Length(op) = 11
    BY <1>1, Lengths, ProgramNames
  <2> QED
    BY <1>1, <2>1, <2>2 DEF Tables
<1>2. CASE op = "list"
  <2>1. \/ n = 1 /\ s = "rooms"
        \/ n = 2 /\ s = "room_members"
        \/ n = 3 /\ s = "member"
        \/ n = 4 /\ s = "messages"
        \/ n = 5 /\ s = "answer"
    BY <1>2, ReadPrograms DEF Length
  <2>2. Length(op) = 5
    BY <1>2, Lengths, ProgramNames
  <2> QED
    BY <1>2, <2>1, <2>2 DEF Tables
<1>3. CASE op = "unread"
  <2>1. \/ n = 1 /\ s = "rooms"
        \/ n = 2 /\ s = "room_members"
        \/ n = 3 /\ s = "member"
        \/ n = 4 /\ s = "messages"
        \/ n = 5 /\ s = "read_receipts"
        \/ n = 6 /\ s = "answer"
    BY <1>3, ReadPrograms DEF Length
  <2>2. Length(op) = 6
    BY <1>3, Lengths, ProgramNames
  <2> QED
    BY <1>3, <2>1, <2>2 DEF Tables
<1>4. CASE op = "create"
  <2>1. \/ n = 1 /\ s = "rooms"
        \/ n = 2 /\ s = "insert_room"
        \/ n = 3 /\ s = "room_members"
        \/ n = 4 /\ s = "commit_room"
    BY <1>4, WritePrograms DEF Length
  <2>2. Length(op) = 4
    BY <1>4, Lengths, ProgramNames
  <2> QED
    BY <1>4, <2>1, <2>2 DEF Tables
<1>5. CASE op = "mark"
  <2>1. \/ n = 1 /\ s = "messages"
        \/ n = 2 /\ s = "room_members"
        \/ n = 3 /\ s = "find"
        \/ n = 4 /\ s = "read_receipts"
        \/ n = 5 /\ s = "commit_receipt"
    BY <1>5, WritePrograms DEF Length
  <2>2. Length(op) = 5
    BY <1>5, Lengths, ProgramNames
  <2> QED
    BY <1>5, <2>1, <2>2 DEF Tables
<1>6. CASE op = "idle"
  <2>1. n = 1 /\ s = "idle"
    BY <1>6, WritePrograms DEF Length
  <2>2. Length(op) = 1
    BY <1>6, Lengths, ProgramNames
  <2> QED
    BY <1>6, <2>1, <2>2 DEF Tables
<1>7. CASE op = "persist"
  <2>1. \/ n = 1 /\ s = "messages"
        \/ n = 2 /\ s = "rooms"
        \/ n = 3 /\ s = "room_members"
        \/ n = 4 /\ s = "authorize"
        \/ n = 5 /\ s = "request_statuses"
        \/ n = 6 /\ s = "commit_message"
    BY <1>7, PersistPrograms DEF Length
  <2>2. Length(op) = 6
    BY <1>7, Lengths, ProgramNames
  <2> QED
    BY <1>7, <2>1, <2>2 DEF Tables
<1>8. CASE op = "keyed"
  <2>1. \/ n = 1 /\ s = "idempotency_keys"
        \/ n = 2 /\ s = "messages"
        \/ n = 3 /\ s = "rooms"
        \/ n = 4 /\ s = "room_members"
        \/ n = 5 /\ s = "authorize"
        \/ n = 6 /\ s = "request_statuses"
        \/ n = 7 /\ s = "commit_message"
    BY <1>8, PersistPrograms DEF Length
  <2>2. Length(op) = 7
    BY <1>8, Lengths, ProgramNames
  <2> QED
    BY <1>8, <2>1, <2>2 DEF Tables
<1>9. CASE op = "failed"
  <2>1. \/ n = 1 /\ s = "request_statuses"
        \/ n = 2 /\ s = "commit_status"
    BY <1>9, StatusPrograms DEF Length
  <2>2. Length(op) = 2
    BY <1>9, Lengths, ProgramNames
  <2> QED
    BY <1>9, <2>1, <2>2 DEF Tables
<1>10. CASE op = "dlq"
  <2>1. \/ n = 1 /\ s = "publish_dlq"
        \/ n = 2 /\ s = "request_statuses"
        \/ n = 3 /\ s = "commit_status"
    BY <1>10, StatusPrograms DEF Length
  <2>2. Length(op) = 3
    BY <1>10, Lengths, ProgramNames
  <2> QED
    BY <1>10, <2>1, <2>2 DEF Tables
<1>11. CASE op = "retry"
  <2>1. \/ n = 1 /\ s = "request_statuses"
        \/ n = 2 /\ s = "commit_queued"
    BY <1>11, StatusPrograms DEF Length
  <2>2. Length(op) = 2
    BY <1>11, Lengths, ProgramNames
  <2> QED
    BY <1>11, <2>1, <2>2 DEF Tables
<1> QED
  BY <1>1, <1>2, <1>3, <1>4, <1>5, <1>6, <1>7, <1>8, <1>9, <1>10, <1>11, ProgramNames

\* The tables that have been named when a statement is reached.
LEMMA NamedBefore ==
  ASSUME NEW op \in DOMAIN Programs, NEW n \in 1..Length(op)
  PROVE  LET named == {Programs[op][i] : i \in 1..(n - 1)} IN
         /\ op = "reset" /\ n > 4 =>
              {"idempotency_keys", "messages", "rooms", "request_statuses"} \subseteq named
         /\ op \in {"list", "unread"} /\ n > 1 => "rooms" \in named
         /\ op = "create" /\ n > 1 => "rooms" \in named
         /\ op = "mark" /\ n > 1 => "messages" \in named
         /\ op = "persist" /\ n > 2 => {"messages", "rooms"} \subseteq named
         /\ op = "keyed" /\ n > 3 => {"messages", "rooms"} \subseteq named
         /\ op = "persist" /\ n > 5 => "request_statuses" \in named
         /\ op = "keyed" /\ n > 6 => "request_statuses" \in named
         /\ op \in {"failed", "retry"} /\ n > 1 => "request_statuses" \in named
         /\ op = "dlq" /\ n > 2 => "request_statuses" \in named
<1> DEFINE named == {Programs[op][i] : i \in 1..(n - 1)}
<1>1. \A i \in 1..7 : i < n => Programs[op][i] \in named
  <2>1. Length(op) \in Nat /\ n \in Nat
    BY Lengths
  <2> QED
    BY <2>1
<1> HIDE DEF named
<1>2. CASE op = "reset"
  BY <1>1, <1>2, ResetProgram
<1>3. CASE op \in {"list", "unread"}
  BY <1>1, <1>3, ReadPrograms
<1>4. CASE op \in {"create", "mark", "idle"}
  BY <1>1, <1>4, WritePrograms
<1>5. CASE op \in {"persist", "keyed"}
  BY <1>1, <1>5, PersistPrograms
<1>6. CASE op \in {"failed", "dlq", "retry"}
  BY <1>1, <1>6, StatusPrograms
<1> QED
  BY <1>2, <1>3, <1>4, <1>5, <1>6, ProgramNames DEF named

(***************************************************************************)
(* What the steps of a program do to what its agent knows and holds.       *)
(***************************************************************************)

LEMMA IdleGood == ASSUME NEW t PROVE Good(t, Idle)
<1>1. Idle \in Doing
  BY ProgramNames DEF Idle, Doing
<1>2. Idle.op = "idle" /\ Idle.step = 1 /\ Idle.found = FALSE /\ Idle.counts = None
  BY DEF Idle
<1>3. OwnProgram(t, Idle)
  <2>1. Length(Idle.op) = 1
    BY <1>2, Lengths, ProgramNames
  <2> QED
    BY <1>2, <2>1 DEF OwnProgram, ReaderOps, ResetterOps, WorkerOps
<1>4. KnowsItsData(Idle)
  BY <1>2 DEF KnowsItsData
<1> QED
  BY <1>1, <1>3, <1>4 DEF Good

\* The next statement of the same program.
LEMMA NextStatement ==
  ASSUME NEW t, NEW a, Good(t, a), a.step < Length(a.op),
         a.op = "create" => a.step # 2,
         NEW b, b = [a EXCEPT !.step = @ + 1]
  PROVE  /\ Good(t, b) /\ b.op = a.op /\ b.step = a.step + 1 /\ b.room = a.room
         /\ b.job = a.job /\ b.found = a.found /\ b.counts = a.counts
<1>1. /\ b \in Doing /\ b.op = a.op /\ b.step = a.step + 1 /\ b.room = a.room
      /\ b.job = a.job /\ b.found = a.found /\ b.counts = a.counts
  BY DEF Good, Doing
<1>2. Length(a.op) \in Nat /\ a.step \in Nat
  BY Lengths DEF Good, Doing
<1>3. OwnProgram(t, b)
  BY <1>1, <1>2 DEF Good, OwnProgram
<1>4. KnowsItsData(b)
  BY <1>1, <1>2 DEF Good, KnowsItsData
<1> QED
  BY <1>1, <1>3, <1>4 DEF Good

\* One statement more names one table more.
LEMMA OneMore ==
  ASSUME NEW a, NEW b, a.op = b.op, a.step \in Nat \ {0}, b.step = a.step + 1,
         a.op \in DOMAIN Programs
  PROVE  (a.op # "reset" \/ a.step < 8) =>
           LocksSoFar(b) = LocksSoFar(a) \cup (Tables \cap {Programs[a.op][a.step]})
<1>1. 1..(b.step - 1) = (1..(a.step - 1)) \cup {a.step}
  OBVIOUS
<1>2. {Programs[b.op][i] : i \in 1..(b.step - 1)}
        = {Programs[a.op][i] : i \in 1..(a.step - 1)} \cup {Programs[a.op][a.step]}
  BY <1>1
<1> QED
  BY <1>2 DEF LocksSoFar

LEMMA NothingYet ==
  ASSUME NEW a, a.step = 1
  PROVE  LocksSoFar(a) = {}
BY DEF LocksSoFar

\* A program at its first statement.
Started(op, room, job) ==
  [op |-> op, step |-> 1, room |-> room, job |-> job, found |-> FALSE, counts |-> None]

LEMMA IdleStarts ==
  /\ Idle = Started("idle", None, None)
  /\ \A op, job : [Idle EXCEPT !.op = op, !.job = job] = Started(op, None, job)
  /\ \A op, room : [Idle EXCEPT !.op = op, !.room = room] = Started(op, room, None)
  /\ \A op : [Idle EXCEPT !.op = op] = Started(op, None, None)
<1>1. Idle = Started("idle", None, None)
  BY DEF Idle, Started
<1>2. ASSUME NEW op, NEW job
      PROVE  [Idle EXCEPT !.op = op, !.job = job] = Started(op, None, job)
  <2>1. ASSUME NEW b, b = [Idle EXCEPT !.op = op, !.job = job]
        PROVE  b = [op |-> op, step |-> 1, room |-> None, job |-> job,
            found |-> FALSE, counts |-> None]
    BY <2>1 DEF Idle
  <2> QED
    BY <2>1 DEF Started
<1>3. ASSUME NEW op, NEW room
      PROVE  [Idle EXCEPT !.op = op, !.room = room] = Started(op, room, None)
  <2>1. ASSUME NEW b, b = [Idle EXCEPT !.op = op, !.room = room]
        PROVE  b = [op |-> op, step |-> 1, room |-> room, job |-> None,
            found |-> FALSE, counts |-> None]
    BY <2>1 DEF Idle
  <2> QED
    BY <2>1 DEF Started
<1>4. ASSUME NEW op
      PROVE  [Idle EXCEPT !.op = op] = Started(op, None, None)
  <2>1. ASSUME NEW b, b = [Idle EXCEPT !.op = op]
        PROVE  b = [op |-> op, step |-> 1, room |-> None, job |-> None,
            found |-> FALSE, counts |-> None]
    BY <2>1 DEF Idle
  <2> QED
    BY <2>1 DEF Started
<1> QED
  BY <1>1, <1>2, <1>3, <1>4

\* A worker that starts a program for its record.
LEMMA WorkerBegins ==
  ASSUME NEW w \in Workers, NEW op \in WorkerOps, NEW job \in Job
  PROVE  Good(w, Started(op, None, job))
<1> DEFINE b == Started(op, None, job)
<1>1. /\ b \in Doing /\ b.step = 1 /\ b.op = op /\ b.job = job /\ b.found = FALSE /\ b.counts = None
  <2>1. b = [op |-> op, step |-> 1, room |-> None, job |-> job, found |-> FALSE,
             counts |-> None]
    BY DEF Started
  <2>2. op \in DOMAIN Programs
    BY ProgramNames DEF WorkerOps
  <2>3. b.step = 1 /\ b.op = op /\ b.job = job /\ b.found = FALSE /\ b.counts = None
    BY <2>1
  <2>4. b \in Doing
    BY <2>1, <2>2 DEF Doing
  <2> QED
    BY <2>3, <2>4
<1> HIDE DEF b
<1>2. w \notin Readers /\ w \notin Resetters
  BY DemoResetAssumption DEF Clients
<1>3. OwnProgram(w, b)
  <2>1. Length(b.op) \in Nat \ {0} /\ b.op \in WorkerOps
    BY <1>1, Lengths, ProgramNames DEF WorkerOps
  <2> QED
    BY <1>1, <1>2, <2>1 DEF OwnProgram
<1>4. KnowsItsData(b)
  BY <1>1 DEF KnowsItsData, WorkerOps
<1>5. Good(w, b)
  BY <1>1, <1>3, <1>4 DEF Good
<1> QED
  BY <1>5 DEF b

\* The requests a client may be asked for.
MayAsk(t, op, room) ==
  \/ t \in Resetters /\ op = "reset"
  \/ t \in Readers /\ op = "create"
  \/ t \in Readers /\ op \in {"list", "unread"} /\ room \in Room
  \/ t \in Readers /\ op = "mark" /\ room \in Requests

\* A client that starts to serve a request.
LEMMA ClientBegins ==
  ASSUME NEW t \in Clients, NEW op, NEW room \in Room \cup Requests \cup {None},
         MayAsk(t, op, room)
  PROVE  Good(t, Started(op, room, None))
<1> DEFINE b == Started(op, room, None)
<1>1. b = [op |-> op, step |-> 1, room |-> room, job |-> None, found |-> FALSE,
           counts |-> None]
  BY DEF Started
<1>2. op \in DOMAIN Programs
  BY ProgramNames DEF MayAsk
<1>3. /\ b.step = 1 /\ b.op = op /\ b.found = FALSE /\ b.counts = None /\ b.room = room
  BY <1>1
<1> HIDE DEF b
<1>4. b \in Doing
  BY <1>1, <1>2 DEF Doing
<1>5. /\ t \in Readers => op \in ReaderOps
      /\ t \in Resetters => op \in ResetterOps
      /\ t \notin Workers
  BY DemoResetAssumption DEF ReaderOps, ResetterOps, Clients, MayAsk
<1>6. OwnProgram(t, b)
  <2>1. Length(b.op) \in Nat \ {0}
    BY <1>2, <1>3, Lengths
  <2> QED
    BY <1>3, <1>5, <2>1 DEF OwnProgram
<1>7. KnowsItsData(b)
  BY <1>3 DEF KnowsItsData, WorkerOps, MayAsk
<1>8. Good(t, b)
  BY <1>4, <1>6, <1>7 DEF Good
<1> QED
  BY <1>8 DEF b

(***************************************************************************)
(* Every step of the system is one of three: nobody's transaction moves,   *)
(* one agent goes on to its next statement, or one agent ends a            *)
(* transaction and starts at the first statement of another program.       *)
(***************************************************************************)
Rests == UNCHANGED <<txn, held, db>>

Fresh(t) ==
  \E a : /\ Good(t, a) /\ a.step = 1 /\ a.found = FALSE /\ a.counts = None
         /\ txn' = [txn EXCEPT ![t] = a]
         /\ held' = [held EXCEPT ![t] = {}]

\* What a statement tells its transaction, and the lock it needs.
Learns(t, a) ==
  /\ Now(t) \in Tables => Locked(t)
  /\ a.found # txn[t].found =>
       IF a.op = "mark" THEN Now(t) = "find" /\ Stored(a.room)
       ELSE Now(t) = "member" /\ a.room.id \in RoomIds
  /\ a.room = txn[t].room \/ Now(t) = "insert_room"
  /\ Now(t) = "authorize" => Stored(a.job.request) \/ a.job.room.id \in RoomIds
  /\ IF Now(t) = "count" THEN a.counts = RowCounts(db) ELSE a.counts = txn[t].counts

Onward(t) ==
  \E a : /\ Good(t, a) /\ a.op = txn[t].op /\ a.step = txn[t].step + 1
         /\ a.job = txn[t].job
         /\ Learns(t, a)
         /\ txn' = [txn EXCEPT ![t] = a]
         /\ held' = [held EXCEPT ![t] = LocksSoFar(a)]

Writes(t) ==
  \/ db' = db
  \/ Now(t) = "commit_room" /\ db' = [db EXCEPT !.rooms = @ \cup {txn[t].room}]
  \/ Now(t) = "commit_receipt" /\ db' = [db EXCEPT !.receipts = @ \cup {txn[t].room}]
  \/ Now(t) = "commit_message" /\ db' = Persisted(txn[t].job)
  \/ /\ Now(t) \in {"commit_status", "commit_queued"}
     /\ \E value \in {"failed", "dlq", "queued"} :
          db' = [db EXCEPT !.statuses = SetStatus(@, txn[t].job.request, value)]
  \/ Now(t) = "commit_reset" /\ db' = EmptyDb

\* An agent at a statement, with what its place in the program says.
LEMMA AgentFacts ==
  ASSUME TypeInv, LocksHeld, NEW t \in Agents
  PROVE  /\ Good(t, txn[t]) /\ held[t] = LocksSoFar(txn[t])
         /\ txn[t] \in Doing /\ txn[t].op \in DOMAIN Programs
         /\ txn[t].step \in 1..Length(txn[t].op)
         /\ Now(t) = Programs[txn[t].op][txn[t].step]
BY DEF TypeInv, LocksHeld, Good, OwnProgram, Doing, Now, Program

\* t goes on without learning anything.
LEMMA PlainStep ==
  ASSUME TypeInv, LocksHeld, NEW t \in Agents, Step(t, txn[t]),
         txn[t].step < Length(txn[t].op),
         Now(t) \notin {"insert_room", "authorize", "count"},
         Now(t) \in Tables => Locked(t),
         held' = [held EXCEPT ![t] = IF Now(t) = "commit_reset" THEN {}
                                     ELSE @ \cup (Tables \cap {Now(t)})]
  PROVE  Onward(t)
<1>1. PICK a : a = [txn[t] EXCEPT !.step = @ + 1]
  OBVIOUS
<1>2. txn[t].op = "create" => txn[t].step # 2
  BY AgentFacts, WritePrograms
<1>3. /\ Good(t, a) /\ a.op = txn[t].op /\ a.step = txn[t].step + 1 /\ a.room = txn[t].room
      /\ a.job = txn[t].job /\ a.found = txn[t].found /\ a.counts = txn[t].counts
  BY <1>1, <1>2, AgentFacts, NextStatement
<1>4. txn' = [txn EXCEPT ![t] = a]
  BY <1>1 DEF Step
<1>5. held' = [held EXCEPT ![t] = LocksSoFar(a)]
  <2>1. held \in [Agents -> SUBSET Tables]
    BY DEF TypeInv, TypeOK
  <2>2. txn[t].step \in Nat \ {0} /\ txn[t].op \in DOMAIN Programs
    BY AgentFacts DEF Doing
  <2>3. CASE Now(t) = "commit_reset"
    <3>1. txn[t].op = "reset" /\ txn[t].step = 8
      BY <2>3, AgentFacts, Places
    <3>2. LocksSoFar(a) = {}
      BY <3>1, <1>3 DEF LocksSoFar
    <3> QED
      BY <3>2, <2>3
  <2>4. CASE Now(t) # "commit_reset" /\ (txn[t].op # "reset" \/ txn[t].step < 8)
    <3>1. LocksSoFar(a) = held[t] \cup (Tables \cap {Now(t)})
      BY <2>2, <2>4, <1>3, OneMore, AgentFacts
    <3> QED
      BY <3>1, <2>4
  <2>5. CASE txn[t].op = "reset" /\ txn[t].step > 8
    <3>1. LocksSoFar(a) = {}
      BY <2>5, <2>2, <1>3 DEF LocksSoFar
    <3>2. held[t] = {}
      BY <2>5, AgentFacts DEF LocksSoFar
    <3>3. Now(t) \notin Tables
      BY <2>5, AgentFacts, Places
    <3> QED
      BY <3>1, <3>2, <3>3
  <2>6. txn[t].op = "reset" /\ txn[t].step = 8 => Now(t) = "commit_reset"
    BY AgentFacts, ResetProgram
  <2> QED
    BY <2>2, <2>3, <2>4, <2>5, <2>6
<1>6. Learns(t, a)
  BY <1>3 DEF Learns
<1> QED
  BY <1>3, <1>4, <1>5, <1>6 DEF Onward

Moves(t) == (Onward(t) \/ Fresh(t)) /\ Writes(t)

\* The end of a transaction: its agent is idle and holds nothing.
LEMMA AnswerIsFresh ==
  ASSUME NEW t, Answer(t), held' = [held EXCEPT ![t] = {}]
  PROVE  Fresh(t)
<1>1. Idle.step = 1 /\ Idle.found = FALSE /\ Idle.counts = None
  BY DEF Idle
<1> QED
  BY <1>1, IdleGood DEF Fresh, Answer

\* Agents without locks, at the first statement or after the commit of a reset.
LEMMA Unlocked ==
  ASSUME TypeInv, LocksHeld, NEW t \in Agents,
         \/ txn[t].op = "idle"
         \/ txn[t].step = 1
         \/ txn[t].op = "reset" /\ txn[t].step > 8
  PROVE  held[t] = {} /\ held = [held EXCEPT ![t] = {}]
<1>1. held \in [Agents -> SUBSET Tables]
  BY DEF TypeInv, TypeOK
<1>2. txn[t].op = "idle" => txn[t].step = 1
  BY AgentFacts, Lengths
<1>3. txn[t].step = 1 => LocksSoFar(txn[t]) = {}
  BY NothingYet
<1>4. (txn[t].op = "reset" /\ txn[t].step > 8) => LocksSoFar(txn[t]) = {}
  BY DEF LocksSoFar
<1>5. held[t] = {}
  BY <1>2, <1>3, <1>4, AgentFacts
<1> QED
  BY <1>1, <1>5

LEMMA LockTableMoves ==
  ASSUME TypeInv, LocksHeld, NEW t \in Agents, LockTable(t)
  PROVE  Moves(t)
<1>1. txn[t].step < Length(txn[t].op) /\ Now(t) \in Tables
  BY AgentFacts, Places DEF LockTable
<1>2. /\ Now(t) \notin {"insert_room", "authorize", "count", "commit_reset"}
      /\ Tables \cap {Now(t)} = {Now(t)}
  BY <1>1 DEF Tables
<1>3. Onward(t)
  <2>1. Step(t, txn[t]) /\ Locked(t)
    BY DEF LockTable
  <2>2. held' = [held EXCEPT ![t] = IF Now(t) = "commit_reset" THEN {}
                                    ELSE @ \cup (Tables \cap {Now(t)})]
    BY <1>2 DEF LockTable
  <2> QED
    BY <1>1, <1>2, <2>1, <2>2, PlainStep
<1> QED
  BY <1>3 DEF Moves, Writes, LockTable

\* Statements of a reset that change nothing but its own place in the program.
LEMMA CommitResetMoves ==
  ASSUME TypeInv, LocksHeld, NEW t \in Agents, CommitReset(t)
  PROVE  Moves(t)
<1>1. txn[t].op = "reset" /\ txn[t].step = 8
  BY AgentFacts, Places DEF CommitReset
<1>2. Onward(t)
  <2>1. Step(t, txn[t]) /\ Now(t) = "commit_reset" /\ held' = [held EXCEPT ![t] = {}]
    BY DEF CommitReset, Release
  <2>2. held' = [held EXCEPT ![t] = IF Now(t) = "commit_reset" THEN {}
                                    ELSE @ \cup (Tables \cap {Now(t)})]
    BY <2>1
  <2>3. txn[t].step < Length(txn[t].op) /\ Now(t) \notin Tables
    BY <1>1, <2>1, Lengths, ProgramNames DEF Tables
  <2> QED
    BY <2>1, <2>2, <2>3, PlainStep
<1> QED
  BY <1>2 DEF Moves, Writes, CommitReset, AfterTruncate

LEMMA TopicMoves ==
  ASSUME TypeInv, LocksHeld, NEW t \in Agents,
         DeleteTopic(t) \/ WaitTopic(t) \/ CreateTopic(t) \/ TopicFails(t)
  PROVE  Moves(t)
<1>1. /\ Now(t) \in {"delete_topic", "wait_topic", "create_topic"}
      /\ UNCHANGED <<db, held>>
  BY DEF DeleteTopic, WaitTopic, CreateTopic, TopicFails
<1>2. txn[t].op = "reset" /\ txn[t].step > 8
  BY <1>1, AgentFacts, Places
<1>3. held[t] = {} /\ held = [held EXCEPT ![t] = {}]
  BY <1>2, Unlocked
<1>4. CASE DeleteTopic(t) \/ WaitTopic(t)
  <2>1. Step(t, txn[t]) /\ txn[t].step < 11
    BY <1>4, AgentFacts, Places DEF DeleteTopic, WaitTopic
  <2>2. held' = [held EXCEPT ![t] = IF Now(t) = "commit_reset" THEN {}
                                    ELSE @ \cup (Tables \cap {Now(t)})]
    BY <1>1, <1>3 DEF Tables
  <2>3. Now(t) \notin Tables
    BY <1>1 DEF Tables
  <2>4. Onward(t)
    BY <1>1, <1>2, <2>1, <2>2, <2>3, PlainStep, Lengths, ProgramNames
  <2> QED
    BY <1>1, <2>4 DEF Moves, Writes
<1>5. CASE CreateTopic(t) \/ TopicFails(t)
  <2>1. Fresh(t)
    BY <1>1, <1>3, <1>5, AnswerIsFresh DEF CreateTopic, TopicFails
  <2> QED
    BY <1>1, <2>1 DEF Moves, Writes
<1> QED
  BY <1>4, <1>5

\* A statement that is not about a table leaves the locks as they are.
LEMMA SameLocks ==
  ASSUME TypeInv, LocksHeld, NEW t \in Agents, NEW a,
         Now(t) \notin Tables \cup {"commit_reset"},
         a.op = txn[t].op, a.step = txn[t].step + 1,
         txn[t].op = "reset" => txn[t].step < 8
  PROVE  LocksSoFar(a) = held[t] /\ held = [held EXCEPT ![t] = LocksSoFar(a)]
<1>1. txn[t].step \in Nat \ {0} /\ txn[t].op \in DOMAIN Programs
  BY AgentFacts DEF Doing
<1>2. LocksSoFar(a) = LocksSoFar(txn[t]) \cup (Tables \cap {Now(t)})
  BY <1>1, OneMore, AgentFacts
<1>3. LocksSoFar(a) = held[t]
  BY <1>2, AgentFacts
<1>4. held \in [Agents -> SUBSET Tables]
  BY DEF TypeInv, TypeOK
<1> QED
  BY <1>3, <1>4

LEMMA CountRowsMoves ==
  ASSUME TypeInv, LocksHeld, NEW t \in Agents, CountRows(t)
  PROVE  Moves(t)
<1>1. txn[t].op = "reset" /\ txn[t].step = 5 /\ Now(t) = "count"
  BY AgentFacts, Places DEF CountRows
<1>2. PICK b : b = [txn[t] EXCEPT !.counts = RowCounts(db)]
  OBVIOUS
<1>3. PICK a : a = [b EXCEPT !.step = @ + 1]
  OBVIOUS
<1>4. RowCounts(db) \in Nat \X Nat \X Nat
  <2>1. /\ Cardinality(db.messages) \in Nat /\ Cardinality(db.rooms) \in Nat
        /\ Cardinality(db.statuses) \in Nat
    BY FS_CardinalityType DEF TypeInv, FiniteRows
  <2> QED
    BY <2>1 DEF RowCounts
<1>5. /\ a \in Doing /\ a.op = "reset" /\ a.step = 6 /\ a.room = txn[t].room
      /\ a.job = txn[t].job /\ a.found = txn[t].found /\ a.counts = RowCounts(db)
  <2>1. txn[t] \in Doing
    BY AgentFacts
  <2>2. /\ b \in Doing /\ b.op = txn[t].op /\ b.step = txn[t].step /\ b.room = txn[t].room
        /\ b.job = txn[t].job /\ b.found = txn[t].found /\ b.counts = RowCounts(db)
    BY <1>2, <1>4, <2>1 DEF Doing
  <2> QED
    BY <1>1, <1>3, <2>2 DEF Doing
<1>6. OwnProgram(t, a)
  BY <1>1, <1>5, AgentFacts, Lengths DEF Good, OwnProgram
<1>7. KnowsItsData(a)
  BY <1>1, <1>5, AgentFacts DEF Good, KnowsItsData, WorkerOps
<1>8. Learns(t, a)
  BY <1>1, <1>5 DEF Learns, Tables
<1>9. txn' = [txn EXCEPT ![t] = a]
  BY <1>2, <1>3 DEF CountRows, Step
<1>10. held' = [held EXCEPT ![t] = LocksSoFar(a)]
  BY <1>1, <1>5, SameLocks DEF CountRows, Tables
<1>11. Good(t, a) /\ a.op = txn[t].op /\ a.step = txn[t].step + 1 /\ a.job = txn[t].job
  BY <1>1, <1>5, <1>6, <1>7 DEF Good
<1>12. Onward(t)
  BY <1>8, <1>9, <1>10, <1>11 DEF Onward
<1> QED
  BY <1>12 DEF Moves, Writes, CountRows

LEMMA InsertRoomMoves ==
  ASSUME TypeInv, LocksHeld, NEW t \in Agents, InsertRoom(t)
  PROVE  Moves(t)
<1>1. txn[t].op = "create" /\ txn[t].step = 2 /\ Now(t) = "insert_room"
  BY AgentFacts, Places DEF InsertRoom
<1>2. PICK room : room = [id |-> nextRoom, birth |-> birth]
  OBVIOUS
<1>3. PICK b : b = [txn[t] EXCEPT !.room = room]
  OBVIOUS
<1>4. PICK a : a = [b EXCEPT !.step = @ + 1]
  OBVIOUS
<1>5. room \in Room
  BY <1>2 DEF TypeInv, TypeOK, Room
<1>6. /\ a \in Doing /\ a.op = "create" /\ a.step = 3 /\ a.room = room
      /\ a.job = txn[t].job /\ a.found = txn[t].found /\ a.counts = txn[t].counts
  <2>1. txn[t] \in Doing
    BY AgentFacts
  <2>2. /\ b \in Doing /\ b.op = txn[t].op /\ b.step = txn[t].step /\ b.room = room
        /\ b.job = txn[t].job /\ b.found = txn[t].found /\ b.counts = txn[t].counts
    BY <1>3, <1>5, <2>1 DEF Doing
  <2> QED
    BY <1>1, <1>4, <2>2 DEF Doing
<1>7. OwnProgram(t, a)
  BY <1>1, <1>6, AgentFacts, Lengths DEF Good, OwnProgram
<1>8. KnowsItsData(a)
  BY <1>1, <1>5, <1>6, AgentFacts DEF Good, KnowsItsData, WorkerOps
<1>9. Learns(t, a)
  BY <1>1, <1>6 DEF Learns, Tables
<1>10. txn' = [txn EXCEPT ![t] = a]
  BY <1>2, <1>3, <1>4 DEF InsertRoom, Step
<1>11. held' = [held EXCEPT ![t] = LocksSoFar(a)]
  BY <1>1, <1>6, SameLocks DEF InsertRoom, Tables
<1>12. Good(t, a) /\ a.op = txn[t].op /\ a.step = txn[t].step + 1 /\ a.job = txn[t].job
  BY <1>1, <1>6, <1>7, <1>8 DEF Good
<1>13. Onward(t)
  BY <1>9, <1>10, <1>11, <1>12 DEF Onward
<1> QED
  BY <1>13 DEF Moves, Writes, InsertRoom

\* The queries that find a stream or a message.
LEMMA FindsMoves ==
  ASSUME TypeInv, LocksHeld, NEW t \in Agents, CheckMember(t) \/ FindMessage(t)
  PROVE  Moves(t)
<1>1. UNCHANGED db /\ Now(t) \in {"member", "find"}
  BY DEF CheckMember, FindMessage
<1>2. /\ Now(t) = "member" => txn[t].op \in {"list", "unread"}
      /\ Now(t) = "find" => txn[t].op = "mark"
      /\ txn[t].step = 3
  BY <1>1, AgentFacts, Places
<1>3. CASE Answer(t) /\ Release(t)
  <2>1. Fresh(t)
    BY <1>3, AnswerIsFresh DEF Release
  <2> QED
    BY <1>1, <2>1 DEF Moves, Writes
<1>4. CASE /\ Step(t, [txn[t] EXCEPT !.found = TRUE])
           /\ held' = [held EXCEPT ![t] = LocksAfterQuery(t)]
           /\ IF Now(t) = "member" THEN txn[t].room.id \in RoomIds ELSE Stored(txn[t].room)
  <2>1. PICK b : b = [txn[t] EXCEPT !.found = TRUE]
    OBVIOUS
  <2>2. PICK a : a = [b EXCEPT !.step = @ + 1]
    OBVIOUS
  <2>3. /\ a \in Doing /\ a.op = txn[t].op /\ a.step = 4 /\ a.room = txn[t].room
        /\ a.job = txn[t].job /\ a.found = TRUE /\ a.counts = txn[t].counts
    <3>1. txn[t] \in Doing
      BY AgentFacts
    <3>2. /\ b \in Doing /\ b.op = txn[t].op /\ b.step = txn[t].step /\ b.room = txn[t].room
          /\ b.job = txn[t].job /\ b.found = TRUE /\ b.counts = txn[t].counts
      BY <2>1, <3>1 DEF Doing
    <3> QED
      BY <1>2, <2>2, <3>2 DEF Doing
  <2>4. OwnProgram(t, a)
    <3>1. Length(a.op) \in Nat /\ Length(a.op) > 4
      BY <1>1, <1>2, <2>3, Lengths, ProgramNames
    <3> QED
      BY <2>3, <3>1, AgentFacts DEF Good, OwnProgram
  <2>5. KnowsItsData(a)
    BY <1>1, <1>2, <2>3, AgentFacts DEF Good, KnowsItsData, WorkerOps
  <2>6. Learns(t, a)
    BY <1>1, <1>2, <1>4, <2>3 DEF Learns, Tables
  <2>7. txn' = [txn EXCEPT ![t] = a]
    BY <1>4, <2>1, <2>2 DEF Step
  <2>8. LocksSoFar(a) = held[t]
    BY <1>1, <1>2, <2>3, SameLocks DEF Tables
  <2>9. held' = [held EXCEPT ![t] = LocksSoFar(a)]
    BY <1>4, <2>8 DEF LocksAfterQuery
  <2>10. Good(t, a) /\ a.step = txn[t].step + 1
    BY <1>2, <2>3, <2>4, <2>5 DEF Good
  <2>11. Onward(t)
    BY <2>3, <2>6, <2>7, <2>9, <2>10 DEF Onward
  <2> QED
    BY <1>1, <2>11 DEF Moves, Writes
<1> QED
  BY <1>1, <1>3, <1>4 DEF CheckMember, FindMessage

\* A request that is answered and leaves nothing open.
LEMMA AnswersMoves ==
  ASSUME TypeInv, LocksHeld, NEW t \in Agents,
         \/ CommitRoom(t) \/ UnknownMember(t) \/ AnswerRead(t) \/ CommitReceipt(t)
         \/ CommitMessage(t) \/ CommitStatus(t)
  PROVE  Moves(t)
<1>1. Answer(t) /\ held' = [held EXCEPT ![t] = {}]
  BY DEF CommitRoom, UnknownMember, AnswerRead, CommitReceipt, CommitMessage, CommitStatus,
         Release
<1>2. Fresh(t)
  BY <1>1, AnswerIsFresh
<1>3. Writes(t)
  <2>1. CASE CommitStatus(t)
    <3>1. txn[t].op \in {"failed", "dlq"}
      BY <2>1, AgentFacts, Places DEF CommitStatus
    <3> QED
      BY <2>1, <3>1 DEF CommitStatus, Writes
  <2>2. CASE CommitReceipt(t)
    BY <2>2 DEF CommitReceipt, Writes
  <2> QED
    BY <2>1, <2>2 DEF CommitRoom, UnknownMember, AnswerRead, CommitMessage, Writes
<1> QED
  BY <1>2, <1>3 DEF Moves

\* A request that an idle client asks for.
LEMMA AsksMoves ==
  ASSUME TypeInv, LocksHeld, NEW t \in Clients,
         \/ t \in Resetters /\ AskReset(t)
         \/ t \in Readers /\ Ask(t)
  PROVE  Moves(t)
<1>1. UNCHANGED <<db, held>> /\ txn[t].op = "idle" /\ t \in Agents
  BY DEF AskReset, Ask, AskCreate, PostEvent, AskRead, AskMark, Agents
<1>2. held = [held EXCEPT ![t] = {}]
  BY <1>1, Unlocked
<1>3. CASE Answer(t)
  BY <1>1, <1>2, <1>3, AnswerIsFresh DEF Moves, Writes
<1>4. ASSUME NEW op, NEW room \in Room \cup Requests \cup {None},
             MayAsk(t, op, room),
             txn' = [txn EXCEPT ![t] = Started(op, room, None)]
      PROVE  Moves(t)
  <2>1. PICK b : b = Started(op, room, None)
    OBVIOUS
  <2>2. Good(t, b) /\ b.step = 1 /\ b.op = op /\ b.found = FALSE /\ b.counts = None
    <3>1. Good(t, Started(op, room, None))
      BY <1>4, ClientBegins
    <3>2. b.step = 1 /\ b.op = op /\ b.found = FALSE /\ b.counts = None
      BY <2>1 DEF Started
    <3> QED
      BY <2>1, <3>1, <3>2
  <2>3. Fresh(t)
    BY <1>1, <1>2, <1>4, <2>1, <2>2 DEF Fresh
  <2> QED
    BY <1>1, <2>3 DEF Moves, Writes
<1>5. CASE t \in Resetters /\ AskReset(t)
  <2>1. txn' = [txn EXCEPT ![t] = Started("reset", None, None)]
    BY <1>5, IdleStarts DEF AskReset
  <2> QED
    BY <1>4, <1>5, <2>1 DEF MayAsk
<1>6. CASE t \in Readers /\ AskCreate(t)
  <2>1. txn' = [txn EXCEPT ![t] = Started("create", None, None)]
    BY <1>6, IdleStarts DEF AskCreate
  <2> QED
    BY <1>4, <1>6, <2>1 DEF MayAsk
<1>7. ASSUME t \in Readers, NEW room \in known, NEW op \in {"list", "unread"},
             AskRead(t, op, room)
      PROVE  Moves(t)
  <2>1. txn' = [txn EXCEPT ![t] = Started(op, room, None)]
    BY <1>7, IdleStarts DEF AskRead
  <2>2. room \in Room
    BY DEF TypeInv, TypeOK
  <2> QED
    BY <1>4, <1>7, <2>1, <2>2 DEF MayAsk
<1>8. ASSUME t \in Readers, NEW r \in Requests, AskMark(t, r)
      PROVE  Moves(t)
  <2>1. txn' = [txn EXCEPT ![t] = Started("mark", r, None)]
    BY <1>8, IdleStarts DEF AskMark
  <2> QED
    BY <1>4, <1>8, <2>1 DEF MayAsk
<1>9. ASSUME NEW room, NEW r, NEW fits, PostEvent(t, room, r, fits)
      PROVE  Answer(t)
  BY <1>9 DEF PostEvent
<1> QED
  BY <1>3, <1>5, <1>6, <1>7, <1>8, <1>9 DEF Ask

\* A worker that starts a program and holds nothing.
LEMMA BeginIsFresh ==
  ASSUME NEW w \in Workers, NEW op \in WorkerOps, NEW job \in Job, Begin(w, op, job),
         held' = [held EXCEPT ![w] = {}]
  PROVE  Fresh(w)
<1>1. PICK b : b = Started(op, None, job)
  OBVIOUS
<1>2. Good(w, b)
  BY <1>1, WorkerBegins
<1>3. b.step = 1 /\ b.found = FALSE /\ b.counts = None
  BY <1>1 DEF Started
<1>4. txn' = [txn EXCEPT ![w] = b]
  BY ZenonT(40), <1>1, IdleStarts DEF Begin
<1> QED
  BY <1>2, <1>3, <1>4 DEF Fresh

\* The record of a worker that is busy.
LEMMA WorkerRecord ==
  ASSUME TypeInv, NEW w \in Workers, txn[w].op # "idle"
  PROVE  /\ txn[w].job \in Job
         /\ [txn[w].job EXCEPT !.retries = @ + 1] \in Job
         /\ PersistOp(txn[w].job) \in WorkerOps
<1>1. w \in Agents
  BY DEF Agents
<1>2. Good(w, txn[w])
  BY <1>1 DEF TypeInv
<1>3. txn[w].job \in Job
  BY <1>2 DEF Good, OwnProgram, KnowsItsData
<1>4. [txn[w].job EXCEPT !.retries = @ + 1] \in Job
  BY <1>3 DEF Job
<1> QED
  BY <1>3, <1>4 DEF PersistOp, WorkerOps

LEMMA TakeJobMoves ==
  ASSUME TypeInv, LocksHeld, NEW w \in Workers, NEW job \in jobs, TakeJob(w, job)
  PROVE  Moves(w)
<1>1. w \in Agents /\ job \in Job /\ txn[w].op = "idle"
  BY DEF Agents, TypeInv, TypeOK, TakeJob
<1>2. held' = [held EXCEPT ![w] = {}]
  BY <1>1, Unlocked DEF TakeJob
<1>3. Fresh(w)
  BY <1>1, <1>2, BeginIsFresh DEF TakeJob, PersistOp, WorkerOps
<1> QED
  BY <1>3 DEF Moves, Writes, TakeJob

LEMMA AuthorizeMoves ==
  ASSUME TypeInv, LocksHeld, NEW w \in Workers, Authorize(w)
  PROVE  Moves(w)
<1>1. w \in Agents /\ Now(w) = "authorize"
  BY DEF Agents, Authorize
<1>2. \/ txn[w].op = "persist" /\ txn[w].step = 4
      \/ txn[w].op = "keyed" /\ txn[w].step = 5
  BY <1>1, AgentFacts, Places
<1>3. CASE Begin(w, "failed", txn[w].job) /\ Release(w)
  <2>1. txn[w].job \in Job
    BY <1>2, WorkerRecord
  <2>2. Fresh(w)
    BY <1>3, <2>1, BeginIsFresh DEF Release, WorkerOps
  <2> QED
    BY <2>2 DEF Moves, Writes, Authorize
<1>4. CASE /\ Step(w, txn[w]) /\ UNCHANGED held
           /\ Stored(txn[w].job.request) \/ txn[w].job.room.id \in RoomIds
  <2>1. PICK a : a = [txn[w] EXCEPT !.step = @ + 1]
    OBVIOUS
  <2>2. txn[w].step < Length(txn[w].op)
    BY <1>2, Lengths, ProgramNames
  <2>3. /\ Good(w, a) /\ a.op = txn[w].op /\ a.step = txn[w].step + 1 /\ a.room = txn[w].room
        /\ a.job = txn[w].job /\ a.found = txn[w].found /\ a.counts = txn[w].counts
    BY <1>1, <1>2, <2>1, <2>2, AgentFacts, NextStatement
  <2>4. held' = [held EXCEPT ![w] = LocksSoFar(a)]
    BY <1>1, <1>2, <1>4, <2>3, SameLocks DEF Tables
  <2>5. Learns(w, a)
    BY <1>1, <1>4, <2>3 DEF Learns, Tables
  <2>6. txn' = [txn EXCEPT ![w] = a]
    BY <1>4, <2>1 DEF Step
  <2>7. Onward(w)
    BY <2>3, <2>4, <2>5, <2>6 DEF Onward
  <2> QED
    BY <2>7 DEF Moves, Writes, Authorize
<1> QED
  BY <1>3, <1>4 DEF Authorize

LEMMA BeginsMoves ==
  ASSUME TypeInv, LocksHeld, NEW w \in Workers, RefuseRow(w) \/ CommitQueued(w)
  PROVE  Moves(w)
<1>1. w \in Agents /\ held' = [held EXCEPT ![w] = {}]
  BY DEF Agents, RefuseRow, CommitQueued, Release
<1>2. txn[w].op # "idle"
  BY <1>1, AgentFacts, Places DEF RefuseRow, CommitQueued
<1>3. /\ txn[w].job \in Job /\ [txn[w].job EXCEPT !.retries = @ + 1] \in Job
      /\ PersistOp(txn[w].job) \in WorkerOps
  BY <1>2, WorkerRecord
<1>4. Fresh(w)
  <2>1. CASE RefuseRow(w)
    BY <1>1, <1>3, <2>1, BeginIsFresh DEF RefuseRow, WorkerOps
  <2>2. CASE CommitQueued(w)
    BY <1>1, <1>3, <2>2, BeginIsFresh DEF CommitQueued
  <2> QED
    BY <2>1, <2>2
<1> QED
  BY <1>4 DEF Moves, Writes, RefuseRow, CommitQueued

LEMMA PublishMoves ==
  ASSUME TypeInv, LocksHeld, NEW w \in Workers, PublishDlq(w)
  PROVE  Moves(w)
<1>1. w \in Agents /\ Now(w) = "publish_dlq" /\ UNCHANGED <<db, held>>
  BY DEF Agents, PublishDlq
<1>2. txn[w].op = "dlq" /\ txn[w].step = 1
  BY <1>1, AgentFacts, Places
<1>3. held[w] = {} /\ held = [held EXCEPT ![w] = {}]
  BY <1>1, <1>2, Unlocked
<1>4. CASE Answer(w)
  BY <1>1, <1>3, <1>4, AnswerIsFresh DEF Moves, Writes
<1>5. CASE Step(w, txn[w])
  <2>1. held' = [held EXCEPT ![w] = IF Now(w) = "commit_reset" THEN {}
                                    ELSE @ \cup (Tables \cap {Now(w)})]
    BY <1>1, <1>3 DEF Tables
  <2>2. txn[w].step < Length(txn[w].op)
    BY <1>2, Lengths, ProgramNames
  <2>3. Now(w) \notin Tables
    BY <1>1 DEF Tables
  <2>4. Onward(w)
    BY <1>1, <1>5, <2>1, <2>2, <2>3, PlainStep
  <2> QED
    BY <1>1, <2>4 DEF Moves, Writes
<1> QED
  BY <1>4, <1>5 DEF PublishDlq

\* A session that fails, whatever it was doing.
LEMMA FailMoves ==
  ASSUME TypeInv, LocksHeld, NEW t \in Agents, Fail(t)
  PROVE  Fresh(t)
<1>1. held' = [held EXCEPT ![t] = {}]
  BY DEF Fail, Release
<1>2. CASE Answer(t)
  BY <1>1, <1>2, AnswerIsFresh
<1>3. CASE t \in Workers /\ AfterError(t) /\ ~Answer(t)
  <2>1. txn[t].op \in {"persist", "keyed", "retry"}
    BY <1>3 DEF AfterError, Persisting
  <2>2. /\ txn[t].job \in Job /\ [txn[t].job EXCEPT !.retries = @ + 1] \in Job
        /\ PersistOp(txn[t].job) \in WorkerOps
    BY <1>3, <2>1, WorkerRecord
  <2>3. \/ Begin(t, PersistOp(txn[t].job), [txn[t].job EXCEPT !.retries = @ + 1])
        \/ Begin(t, "dlq", txn[t].job)
        \/ Begin(t, "retry", txn[t].job)
    BY <1>3 DEF AfterError
  <2> QED
    BY <1>1, <1>3, <2>2, <2>3, BeginIsFresh DEF WorkerOps
<1> QED
  BY <1>2, <1>3 DEF Fail

LEMMA FailuresMove ==
  ASSUME TypeInv, LocksHeld, NEW t \in Agents,
         BreakDeadlock(t) \/ LoseSession(t) \/ LoseCommitReply(t)
  PROVE  Moves(t)
<1>1. Fresh(t)
  BY FailMoves DEF BreakDeadlock, LoseSession, LoseCommitReply
<1>2. Writes(t)
  <2>1. CASE LoseCommitReply(t)
    <3>1. t \in Workers => Now(t) # "commit_reset"
      BY AgentFacts, Places, DemoResetAssumption
         DEF Good, OwnProgram, WorkerOps
    <3>2. t \notin Workers => Now(t) # "commit_message"
      BY AgentFacts, Places DEF Good, OwnProgram, ReaderOps, ResetterOps, Agents, Clients
    <3> QED
      BY <2>1, <3>1, <3>2 DEF LoseCommitReply, Writes, AfterTruncate
  <2> QED
    BY <2>1 DEF BreakDeadlock, LoseSession, Writes
<1> QED
  BY <1>1, <1>2 DEF Moves

LEMMA ClientsAreAgents == Readers \subseteq Clients /\ Resetters \subseteq Clients
                            /\ Clients \subseteq Agents /\ Workers \subseteq Agents
BY DEF Clients, Agents

LEMMA ServeMoves ==
  ASSUME TypeInv, LocksHeld, NEW t \in Agents, Serve(t)
  PROVE  Moves(t) \/ Rests
<1>1. CASE LockTable(t)
  BY <1>1, LockTableMoves
<1>2. CASE QueueForTable(t)
  BY <1>2 DEF QueueForTable, Rests
<1>3. CASE BreakDeadlock(t)
  BY <1>3, FailuresMove
<1>4. CASE CountRows(t)
  BY <1>4, CountRowsMoves
<1>5. CASE CommitReset(t)
  BY <1>5, CommitResetMoves
<1>6. CASE DeleteTopic(t) \/ WaitTopic(t) \/ CreateTopic(t)
  BY <1>6, TopicMoves
<1>7. CASE InsertRoom(t)
  BY <1>7, InsertRoomMoves
<1>8. CASE CommitRoom(t) \/ AnswerRead(t) \/ CommitReceipt(t)
  BY <1>8, AnswersMoves
<1>9. CASE CheckMember(t) \/ FindMessage(t)
  BY <1>9, FindsMoves
<1> QED
  BY <1>1, <1>2, <1>3, <1>4, <1>5, <1>6, <1>7, <1>8, <1>9 DEF Serve

LEMMA WorkMoves ==
  ASSUME TypeInv, LocksHeld, NEW w \in Workers, Work(w)
  PROVE  Moves(w) \/ Rests
<1> w \in Agents
  BY ClientsAreAgents
<1>1. CASE LockTable(w)
  BY <1>1, LockTableMoves
<1>2. CASE QueueForTable(w)
  BY <1>2 DEF QueueForTable, Rests
<1>3. CASE BreakDeadlock(w)
  BY <1>3, FailuresMove
<1>4. CASE Authorize(w)
  BY <1>4, AuthorizeMoves
<1>5. CASE CommitMessage(w) \/ CommitStatus(w)
  BY <1>5, AnswersMoves
<1>6. CASE RefuseRow(w) \/ CommitQueued(w)
  BY <1>6, BeginsMoves
<1>7. CASE PublishDlq(w)
  BY <1>7, PublishMoves
<1>8. CASE \E job \in jobs : TakeJob(w, job)
  BY <1>8, TakeJobMoves
<1> QED
  BY <1>1, <1>2, <1>3, <1>4, <1>5, <1>6, <1>7, <1>8 DEF Work

\* Every step is one of the three.
LEMMA EveryStep ==
  ASSUME TypeInv, LocksHeld, [Next]_vars
  PROVE  Rests \/ \E t \in Agents : Moves(t)
<1>1. CASE UNCHANGED vars
  BY <1>1 DEF vars, Rests
<1>2. ASSUME NEW t \in Readers, Ask(t) \/ UnknownMember(t)
      PROVE  Moves(t)
  BY <1>2, ClientsAreAgents, AsksMoves, AnswersMoves
<1>3. ASSUME NEW t \in Resetters, AskReset(t) \/ TopicFails(t)
      PROVE  Moves(t)
  BY <1>3, ClientsAreAgents, AsksMoves, TopicMoves
<1>4. ASSUME NEW t \in Clients, Serve(t)
      PROVE  Moves(t) \/ Rests
  BY <1>4, ClientsAreAgents, ServeMoves
<1>5. ASSUME NEW w \in Workers, Work(w)
      PROVE  Moves(w) \/ Rests
  BY <1>5, WorkMoves
<1>6. ASSUME NEW t \in Agents, Failure(t)
      PROVE  Moves(t)
  BY <1>6, FailuresMove DEF Failure
<1>7. CASE TopicDeleted
  BY <1>7 DEF TopicDeleted, Rests
<1>8. ASSUME NEW job \in dlq.records, ReplayDlq(job)
      PROVE  Rests
  BY <1>8 DEF ReplayDlq, Rests
<1> QED
  BY <1>1, <1>2, <1>3, <1>4, <1>5, <1>6, <1>7, <1>8, ClientsAreAgents DEF Next

(***************************************************************************)
(* Locks.                                                                  *)
(***************************************************************************)
LEMMA LocksAreTables == ASSUME NEW a PROVE LocksSoFar(a) \subseteq Tables
BY DEF LocksSoFar

\* What an agent holds after its step, and everyone else as before.
LEMMA HeldAfter ==
  ASSUME TypeInv, LocksHeld, NEW t \in Agents, Moves(t)
  PROVE  \E a : /\ Good(t, a) /\ a \in Doing
                /\ txn' = [txn EXCEPT ![t] = a] /\ txn'[t] = a
                /\ held' = [held EXCEPT ![t] = LocksSoFar(a)] /\ held'[t] = LocksSoFar(a)
                /\ \A u \in Agents \ {t} : txn'[u] = txn[u] /\ held'[u] = held[u]
<1>1. txn \in [Agents -> Doing] /\ held \in [Agents -> SUBSET Tables]
  BY DEF TypeInv, TypeOK
<1>2. PICK a : /\ Good(t, a) /\ txn' = [txn EXCEPT ![t] = a]
               /\ held' = [held EXCEPT ![t] = LocksSoFar(a)]
  <2>1. CASE Onward(t)
    BY <2>1 DEF Onward
  <2>2. CASE Fresh(t)
    BY <2>2, NothingYet DEF Fresh
  <2> QED
    BY <2>1, <2>2 DEF Moves
<1>3. a \in Doing
  BY <1>2 DEF Good
<1> QED
  BY <1>1, <1>2, <1>3

LEMMA HeldStep ==
  ASSUME TypeInv, LocksHeld, [Next]_vars
  PROVE  /\ LocksHeld' /\ txn' \in [Agents -> Doing] /\ held' \in [Agents -> SUBSET Tables]
         /\ \A t \in Agents : Good(t, txn'[t])
<1>1. txn \in [Agents -> Doing] /\ held \in [Agents -> SUBSET Tables]
  BY DEF TypeInv, TypeOK
<1>2. CASE Rests
  BY <1>1, <1>2 DEF Rests, LocksHeld, TypeInv
<1>3. ASSUME NEW t \in Agents, Moves(t)
      PROVE  /\ LocksHeld' /\ txn' \in [Agents -> Doing] /\ held' \in [Agents -> SUBSET Tables]
             /\ \A u \in Agents : Good(u, txn'[u])
  <2>1. PICK a : /\ Good(t, a) /\ a \in Doing
                 /\ txn' = [txn EXCEPT ![t] = a] /\ txn'[t] = a
                 /\ held' = [held EXCEPT ![t] = LocksSoFar(a)] /\ held'[t] = LocksSoFar(a)
                 /\ \A u \in Agents \ {t} : txn'[u] = txn[u] /\ held'[u] = held[u]
    BY <1>3, HeldAfter
  <2>2. LocksSoFar(a) \subseteq Tables
    BY LocksAreTables
  <2>3. txn' \in [Agents -> Doing] /\ held' \in [Agents -> SUBSET Tables]
    BY <1>1, <2>1, <2>2
  <2>4. ASSUME NEW u \in Agents
        PROVE  held'[u] = LocksSoFar(txn'[u]) /\ Good(u, txn'[u])
    <3>1. CASE u = t
      BY <2>1, <3>1
    <3>2. CASE u # t
      BY <2>1, <3>2 DEF LocksHeld, TypeInv
    <3> QED
      BY <3>1, <3>2
  <2>5. LocksHeld'
    BY <2>4 DEF LocksHeld
  <2> QED
    BY <2>3, <2>4, <2>5
<1> QED
  BY <1>2, <1>3, EveryStep

\* A table gets a second holder only where both share it.
LEMMA ApartStep ==
  ASSUME TypeInv, LockInv, [Next]_vars
  PROVE  Apart'
<1>1. CASE Rests
  BY <1>1 DEF Rests, LockInv, Apart, Exclusive
<1>2. ASSUME NEW t \in Agents, Moves(t)
      PROVE  Apart'
  <2>1. PICK a : /\ Good(t, a) /\ a \in Doing
                 /\ txn' = [txn EXCEPT ![t] = a] /\ txn'[t] = a
                 /\ held' = [held EXCEPT ![t] = LocksSoFar(a)] /\ held'[t] = LocksSoFar(a)
                 /\ \A u \in Agents \ {t} : txn'[u] = txn[u] /\ held'[u] = held[u]
    BY <1>2, HeldAfter DEF LockInv
  <2>2. ASSUME NEW u \in Agents \ {t}, NEW x \in held'[t] \cap held'[u]
        PROVE  a.op # "reset" /\ txn[u].op # "reset"
    <3>1. x \in LocksSoFar(a) /\ x \in held[u] /\ x \in Tables
      BY <2>1, <2>2, LocksAreTables
    <3>2. CASE Fresh(t)
      <4>1. held'[t] = {}
        BY <3>2 DEF Fresh, TypeInv, TypeOK
      <4> QED
        BY <4>1, <2>2
    <3>3. CASE Onward(t)
      <4>1. PICK b : /\ b.op = txn[t].op /\ b.step = txn[t].step + 1 /\ Learns(t, b)
                     /\ txn' = [txn EXCEPT ![t] = b]
        BY <3>3 DEF Onward
      <4>2. a = b
        BY <2>1, <4>1 DEF TypeInv, TypeOK
      <4>3. /\ txn[t].op \in DOMAIN Programs /\ txn[t].step \in Nat \ {0}
            /\ held[t] = LocksSoFar(txn[t])
            /\ Now(t) = Programs[txn[t].op][txn[t].step]
        BY AgentFacts DEF LockInv, Doing
      <4>4. LocksSoFar(a) \subseteq held[t] \cup (Tables \cap {Now(t)})
        <5>1. CASE a.op # "reset" \/ txn[t].step < 8
          BY <4>1, <4>2, <4>3, <5>1, OneMore
        <5>2. CASE a.op = "reset" /\ txn[t].step > 7
          BY <4>1, <4>2, <4>3, <5>2 DEF LocksSoFar
        <5> QED
          BY <5>1, <5>2, <4>3
      <4>5. CASE x \in held[t]
        BY <2>2, <3>1, <4>1, <4>2, <4>5 DEF LockInv, Apart, Exclusive
      <4>6. CASE x \notin held[t]
        <5>1. x = Now(t) /\ Locked(t)
          BY <3>1, <4>1, <4>4, <4>6 DEF Learns
        <5>2. u \notin Blockers(t)
          BY <4>6, <5>1 DEF Locked
        <5>3. ~Exclusive(t) /\ ~Exclusive(u)
          BY <2>2, <3>1, <5>1, <5>2 DEF Blockers
        <5> QED
          BY <5>3, <4>1, <4>2 DEF Exclusive
      <4> QED
        BY <4>5, <4>6
    <3> QED
      BY <1>2, <3>2, <3>3 DEF Moves
  <2>3. ASSUME NEW u \in Agents, NEW v \in Agents, u # v, NEW x \in held'[u] \cap held'[v]
        PROVE  txn'[u].op # "reset" /\ txn'[v].op # "reset"
    <3>1. CASE u # t /\ v # t
      BY <2>1, <2>3, <3>1 DEF LockInv, Apart, Exclusive
    <3>2. CASE u = t
      BY <2>1, <2>2, <2>3, <3>2
    <3>3. CASE v = t
      BY <2>1, <2>2, <2>3, <3>3
    <3> QED
      BY <3>1, <3>2, <3>3
  <2> QED
    BY <2>3 DEF Apart, Exclusive
<1> QED
  BY <1>1, <1>2, EveryStep DEF LockInv

(***************************************************************************)
(* The database.                                                           *)
(***************************************************************************)
LEMMA StatusTyped ==
  ASSUME NEW statuses \in SUBSET [request : Requests,
                                  value : {"persisted", "failed", "dlq", "queued"}],
         IsFiniteSet(statuses), NEW r \in Requests,
         NEW value \in {"persisted", "failed", "dlq", "queued"}
  PROVE  /\ SetStatus(statuses, r, value) \in
              SUBSET [request : Requests, value : {"persisted", "failed", "dlq", "queued"}]
         /\ IsFiniteSet(SetStatus(statuses, r, value))
<1>1. IsFiniteSet({s \in statuses : s.request # r})
  BY FS_Subset
<1>2. IsFiniteSet({s \in statuses : s.request # r} \cup {[request |-> r, value |-> value]})
  BY <1>1, FS_AddElement
<1> QED
  BY <1>2 DEF SetStatus

\* Where the data of a commit comes from.
LEMMA CommitData ==
  ASSUME TypeInv, LocksHeld, NEW t \in Agents
  PROVE  /\ Now(t) = "commit_room" => txn[t].room \in Room
         /\ Now(t) = "commit_receipt" => txn[t].room \in Requests
         /\ Now(t) \in {"commit_message", "commit_status", "commit_queued"} =>
              txn[t].job \in Job /\ txn[t].job.request \in Requests
<1>1. Good(t, txn[t])
  BY AgentFacts
<1>2. Now(t) = "commit_room" => txn[t].op = "create" /\ txn[t].step = 4
  BY AgentFacts, Places
<1>3. Now(t) = "commit_receipt" => txn[t].op = "mark"
  BY AgentFacts, Places
<1>4. Now(t) \in {"commit_message", "commit_status", "commit_queued"} =>
        txn[t].op \in {"persist", "keyed", "failed", "dlq", "retry"}
  BY AgentFacts, Places
<1>5. \A job \in Job : job.request \in Requests
  BY DEF Job
<1> QED
  BY <1>1, <1>2, <1>3, <1>4, <1>5 DEF Good, KnowsItsData, WorkerOps

\* The stream a record is stored in.
LEMMA RoomOfRecord ==
  ASSUME NEW job, job.room.id \in RoomIds
  PROVE  RoomOf(job) \in db.rooms /\ RoomOf(job).id = job.room.id
BY DEF RoomOf, RoomIds

LEMMA MessageIsAuthorized ==
  ASSUME TypeInv, LocksHeld, EraInv, NEW t \in Agents, Now(t) = "commit_message"
  PROVE  Stored(txn[t].job.request) \/ RoomOf(txn[t].job) \in db.rooms
<1>1. (txn[t].op = "persist" /\ txn[t].step = 6) \/ (txn[t].op = "keyed" /\ txn[t].step = 7)
  BY AgentFacts, Places
<1>2. Stored(txn[t].job.request) \/ txn[t].job.room.id \in RoomIds
  BY <1>1 DEF EraInv, Authorized, Persisting
<1> QED
  BY <1>2, RoomOfRecord

LEMMA DbStep ==
  ASSUME TypeInv, LocksHeld, EraInv, [Next]_vars
  PROVE  db' \in Database /\ FiniteRows'
<1>1. /\ db \in Database /\ FiniteRows
      /\ db.messages \subseteq [request : Requests, room : Room] /\ db.rooms \subseteq Room
      /\ db.receipts \subseteq Requests
      /\ db.statuses \in SUBSET [request : Requests,
                                 value : {"persisted", "failed", "dlq", "queued"}]
  BY DEF TypeInv, TypeOK, Database
<1>2. CASE Rests
  BY <1>1, <1>2 DEF Rests, FiniteRows
<1>3. ASSUME NEW t \in Agents, Moves(t)
      PROVE  db' \in Database /\ FiniteRows'
  <2>1. CASE db' = db
    BY <1>1, <2>1 DEF FiniteRows
  <2>2. CASE Now(t) = "commit_room" /\ db' = [db EXCEPT !.rooms = @ \cup {txn[t].room}]
    <3>1. IsFiniteSet(db.rooms \cup {txn[t].room})
      BY <1>1, FS_AddElement DEF FiniteRows
    <3>2. db' \in Database
      BY <1>1, <2>2, CommitData DEF Database
    <3>3. FiniteRows'
      BY <1>1, <2>2, <3>1 DEF FiniteRows, Database
    <3> QED
      BY <3>2, <3>3
  <2>3. CASE Now(t) = "commit_receipt"
               /\ db' = [db EXCEPT !.receipts = @ \cup {txn[t].room}]
    BY <1>1, <2>3, CommitData DEF Database, FiniteRows
  <2>4. CASE Now(t) = "commit_message" /\ db' = Persisted(txn[t].job)
    <3>1. txn[t].job.request \in Requests
      BY <2>4, CommitData
    <3>2. PICK message : message = [request |-> txn[t].job.request, room |-> RoomOf(txn[t].job)]
      OBVIOUS
    <3>3. PICK messages : messages = IF Stored(txn[t].job.request) THEN db.messages
                                     ELSE db.messages \cup {message}
      OBVIOUS
    <3>4. messages \subseteq [request : Requests, room : Room] /\ IsFiniteSet(messages)
      <4>1. CASE Stored(txn[t].job.request)
        BY <1>1, <3>3, <4>1 DEF FiniteRows
      <4>2. CASE ~Stored(txn[t].job.request)
        <5>1. RoomOf(txn[t].job) \in Room
          BY <1>1, <2>4, <4>2, MessageIsAuthorized
        <5>2. IsFiniteSet(db.messages \cup {message})
          BY <1>1, FS_AddElement DEF FiniteRows
        <5> QED
          BY <1>1, <3>1, <3>2, <3>3, <4>2, <5>1, <5>2
      <4> QED
        BY <4>1, <4>2
    <3>5. PICK statuses : statuses = SetStatus(db.statuses, txn[t].job.request, "persisted")
      OBVIOUS
    <3>6. /\ statuses \in SUBSET [request : Requests,
                                  value : {"persisted", "failed", "dlq", "queued"}]
          /\ IsFiniteSet(statuses)
      BY <1>1, <3>1, <3>5, StatusTyped DEF FiniteRows
    <3>7. db' = [db EXCEPT !.messages = messages, !.statuses = statuses]
      BY <2>4, <3>2, <3>3, <3>5 DEF Persisted
    <3>8. db' \in Database
      BY <1>1, <3>4, <3>6, <3>7 DEF Database
    <3>9. FiniteRows'
      BY <1>1, <3>4, <3>6, <3>7 DEF FiniteRows, Database
    <3> QED
      BY <3>8, <3>9
  <2>5. ASSUME Now(t) \in {"commit_status", "commit_queued"},
               NEW value \in {"failed", "dlq", "queued"},
               db' = [db EXCEPT !.statuses = SetStatus(@, txn[t].job.request, value)]
        PROVE  db' \in Database /\ FiniteRows'
    <3>1. PICK statuses : statuses = SetStatus(db.statuses, txn[t].job.request, value)
      OBVIOUS
    <3>2. /\ statuses \in SUBSET [request : Requests,
                                  value : {"persisted", "failed", "dlq", "queued"}]
          /\ IsFiniteSet(statuses)
      BY <1>1, <2>5, <3>1, CommitData, StatusTyped DEF FiniteRows
    <3>3. db' = [db EXCEPT !.statuses = statuses]
      BY <2>5, <3>1
    <3> QED
      BY <1>1, <3>2, <3>3 DEF FiniteRows, Database
  <2>6. CASE db' = EmptyDb
    BY <2>6, FS_EmptySet DEF EmptyDb, Database, FiniteRows
  <2> QED
    BY <1>3, <2>1, <2>2, <2>3, <2>4, <2>5, <2>6 DEF Moves, Writes
<1> QED
  BY <1>2, <1>3, EveryStep

(***************************************************************************)
(* The other variables.                                                    *)
(***************************************************************************)
NumbersTyped == birth \in Nat /\ nextRoom = birth + 1

JobsTyped == /\ jobs \subseteq Job /\ known \subseteq Room
             /\ dlq \in [topic : {"present", "deleting", "gone"}, records : SUBSET Job]

AskedTyped == asked \in [requests : SUBSET Requests, resets : 0..MaxResets,
                         streams : 0..MaxStreams, faults : 0..MaxFaults]

\* The streams ever created are numbered one after the other: no reset takes
\* the sequence back.
LEMMA NumbersStep ==
  ASSUME TypeInv, [Next]_vars
  PROVE  NumbersTyped'
<1>1. birth \in Nat /\ nextRoom = birth + 1
  BY DEF TypeInv, TypeOK
<1>2. \/ UNCHANGED <<birth, nextRoom>>
      \/ birth' = birth + 1 /\ nextRoom' = nextRoom + 1
  <2>1. ASSUME NEW t, Serve(t)
        PROVE  \/ UNCHANGED <<birth, nextRoom>>
               \/ birth' = birth + 1 /\ nextRoom' = nextRoom + 1
    BY <2>1 DEF Serve, LockTable, QueueForTable, BreakDeadlock, CountRows, CommitReset,
       NextRoomAfterReset, DeleteTopic, WaitTopic, CreateTopic, InsertRoom, CommitRoom,
       CheckMember, AnswerRead, FindMessage, CommitReceipt
  <2>2. ASSUME NEW w, Work(w)
        PROVE  UNCHANGED <<birth, nextRoom>>
    BY <2>2 DEF Work, TakeJob, LockTable, QueueForTable, BreakDeadlock, Authorize,
       CommitMessage, RefuseRow, CommitStatus, CommitQueued, PublishDlq
  <2>3. ASSUME NEW t, Failure(t)
        PROVE  UNCHANGED <<birth, nextRoom>>
    BY <2>3 DEF Failure, LoseSession, LoseCommitReply, NextRoomAfterReset
  <2>4. ASSUME NEW t, Ask(t) \/ UnknownMember(t) \/ AskReset(t) \/ TopicFails(t)
        PROVE  UNCHANGED <<birth, nextRoom>>
    BY <2>4 DEF Ask, AskCreate, PostEvent, AskRead, AskMark, UnknownMember, AskReset, TopicFails
  <2>5. CASE TopicDeleted \/ UNCHANGED vars
    BY <2>5 DEF TopicDeleted, vars
  <2>6. ASSUME NEW job, ReplayDlq(job)
        PROVE  UNCHANGED <<birth, nextRoom>>
    BY <2>6 DEF ReplayDlq
  <2> QED
    BY <2>1, <2>2, <2>3, <2>4, <2>5, <2>6 DEF Next
<1> QED
  BY <1>1, <1>2 DEF NumbersTyped

\* The queue for tables.
LEMMA UnqueueTyped ==
  ASSUME waiters \in Seq(Agents), NEW t, Unqueue(t)
  PROVE  waiters' \in Seq(Agents)
<1>1. ASSUME NEW i \in 1..Len(waiters), waiters' = RemoveAt(waiters, i)
      PROVE  waiters' \in Seq(Agents)
  <2>1. /\ SubSeq(waiters, 1, i - 1) \in Seq(Agents)
        /\ SubSeq(waiters, i + 1, Len(waiters)) \in Seq(Agents)
    OBVIOUS
  <2>2. waiters' = SubSeq(waiters, 1, i - 1) \o SubSeq(waiters, i + 1, Len(waiters))
    BY <1>1 DEF RemoveAt
  <2> QED
    BY <2>1, <2>2
<1>2. DOMAIN waiters = 1..Len(waiters)
  OBVIOUS
<1> QED
  BY <1>1, <1>2 DEF Unqueue

LEMMA WaitersStep ==
  ASSUME TypeInv, [Next]_vars
  PROVE  waiters' \in Seq(Agents)
<1> waiters \in Seq(Agents)
  BY DEF TypeInv, TypeOK
<1>1. ASSUME NEW t \in Agents, QueueForTable(t)
      PROVE  waiters' \in Seq(Agents)
  BY <1>1 DEF QueueForTable
<1>2. ASSUME NEW t, Unqueue(t)
      PROVE  waiters' \in Seq(Agents)
  BY <1>2, UnqueueTyped
<1>3. ASSUME NEW t \in Agents, Serve(t)
      PROVE  waiters' \in Seq(Agents)
  BY <1>1, <1>2, <1>3 DEF Serve, LockTable, BreakDeadlock, Fail, Release, CountRows,
     CommitReset, DeleteTopic, WaitTopic, CreateTopic, InsertRoom, CommitRoom,
     CheckMember, AnswerRead, FindMessage, CommitReceipt
<1>4. ASSUME NEW w \in Agents, Work(w)
      PROVE  waiters' \in Seq(Agents)
  BY <1>1, <1>2, <1>4 DEF Work, TakeJob, LockTable, BreakDeadlock, Fail, Release, Authorize,
     CommitMessage, RefuseRow, CommitStatus, CommitQueued, PublishDlq
<1>5. ASSUME NEW t, Failure(t)
      PROVE  waiters' \in Seq(Agents)
  BY <1>2, <1>5 DEF Failure, LoseSession, LoseCommitReply, Fail, Release
<1>6. ASSUME NEW t, Ask(t) \/ UnknownMember(t) \/ AskReset(t) \/ TopicFails(t)
      PROVE  waiters' \in Seq(Agents)
  BY <1>2, <1>6 DEF Ask, AskCreate, PostEvent, AskRead, AskMark, UnknownMember, AskReset,
     TopicFails, Release
<1>7. CASE TopicDeleted \/ UNCHANGED vars
  BY <1>7 DEF TopicDeleted, vars
<1>8. ASSUME NEW job, ReplayDlq(job)
      PROVE  waiters' \in Seq(Agents)
  BY <1>8 DEF ReplayDlq
<1> QED
  BY <1>3, <1>4, <1>5, <1>6, <1>7, <1>8, ClientsAreAgents DEF Next

\* Records and streams come from records and streams.
LEMMA HandledTyped ==
  ASSUME JobsTyped, NEW w, Handled(w)
  PROVE  jobs' \subseteq Job
BY DEF JobsTyped, Handled

LEMMA FailTyped ==
  ASSUME JobsTyped, NEW t, Fail(t)
  PROVE  jobs' \subseteq Job
<1>1. UNCHANGED jobs \/ Handled(t)
  BY DEF Fail, AfterError
<1> QED
  BY <1>1, HandledTyped DEF JobsTyped

LEMMA JobsStep ==
  ASSUME TypeInv, LocksHeld, [Next]_vars
  PROVE  JobsTyped'
<1> JobsTyped
  BY DEF TypeInv, TypeOK, JobsTyped
<1>1. CASE UNCHANGED <<jobs, known, dlq>>
  BY <1>1 DEF JobsTyped
<1>2. ASSUME NEW t, Fail(t), UNCHANGED <<known, dlq>>
      PROVE  JobsTyped'
  BY <1>2, FailTyped DEF JobsTyped
<1>3. ASSUME NEW t, Handled(t), UNCHANGED <<known, dlq>>
      PROVE  JobsTyped'
  BY <1>3, HandledTyped DEF JobsTyped
<1>4. ASSUME NEW t \in Agents, Serve(t)
      PROVE  JobsTyped'
  <2>1. CASE LockTable(t) \/ QueueForTable(t) \/ CountRows(t) \/ CommitReset(t)
             \/ WaitTopic(t) \/ InsertRoom(t) \/ CheckMember(t) \/ AnswerRead(t)
             \/ FindMessage(t) \/ CommitReceipt(t)
    BY <1>1, <2>1 DEF LockTable, QueueForTable, CountRows, CommitReset, WaitTopic, InsertRoom,
       CheckMember, AnswerRead, FindMessage, CommitReceipt
  <2>2. CASE BreakDeadlock(t)
    BY <1>2, <2>2 DEF BreakDeadlock
  <2>3. CASE DeleteTopic(t)
    BY <2>3 DEF DeleteTopic, JobsTyped
  <2>4. CASE CreateTopic(t)
    BY <2>4 DEF CreateTopic, JobsTyped
  <2>5. CASE CommitRoom(t)
    <3>1. txn[t].room \in Room
      BY <2>5, CommitData DEF CommitRoom
    <3> QED
      BY <2>5, <3>1 DEF CommitRoom, JobsTyped
  <2> QED
    BY <1>4, <2>1, <2>2, <2>3, <2>4, <2>5 DEF Serve
<1>5. ASSUME NEW w \in Workers, Work(w)
      PROVE  JobsTyped'
  <2>1. CASE LockTable(w) \/ QueueForTable(w) \/ Authorize(w) \/ RefuseRow(w)
             \/ CommitQueued(w) \/ \E job \in jobs : TakeJob(w, job)
    BY <1>1, <2>1 DEF LockTable, QueueForTable, Authorize, RefuseRow, CommitQueued, TakeJob
  <2>2. CASE BreakDeadlock(w)
    BY <1>2, <2>2 DEF BreakDeadlock
  <2>3. CASE CommitMessage(w) \/ CommitStatus(w)
    BY <1>3, <2>3 DEF CommitMessage, CommitStatus
  <2>4. CASE PublishDlq(w)
    <3>1. w \in Agents
      BY ClientsAreAgents
    <3>2. txn[w].op = "dlq"
      BY <2>4, <3>1, AgentFacts, Places DEF PublishDlq
    <3>3. txn[w].job \in Job
      BY <3>2, WorkerRecord
    <3> QED
      BY <2>4, <3>3 DEF PublishDlq, JobsTyped
  <2> QED
    BY <1>5, <2>1, <2>2, <2>3, <2>4 DEF Work
<1>6. ASSUME NEW t, Failure(t)
      PROVE  JobsTyped'
  BY <1>2, <1>6 DEF Failure, LoseSession, LoseCommitReply
<1>7. ASSUME NEW t, Ask(t)
      PROVE  JobsTyped'
  <2>1. ASSUME NEW room \in known, NEW r \in Requests, NEW fits \in BOOLEAN,
               PostEvent(t, room, r, fits)
        PROVE  JobsTyped'
    <3>1. [request |-> r, room |-> room, fits |-> fits, retries |-> 0, replays |-> 0] \in Job
      BY DEF Job, JobsTyped
    <3> QED
      BY <2>1, <3>1 DEF PostEvent, JobsTyped
  <2> QED
    BY <1>1, <1>7, <2>1 DEF Ask, AskCreate, AskRead, AskMark
<1>8. ASSUME NEW t, UnknownMember(t) \/ AskReset(t) \/ TopicFails(t)
      PROVE  JobsTyped'
  BY <1>1, <1>8 DEF UnknownMember, AskReset, TopicFails
<1>9. CASE UNCHANGED vars
  BY <1>1, <1>9 DEF vars
<1>10. CASE TopicDeleted
  BY <1>10 DEF TopicDeleted, JobsTyped
<1>11. ASSUME NEW job \in dlq.records, ReplayDlq(job)
       PROVE  JobsTyped'
  <2>1. [job EXCEPT !.retries = 0, !.replays = 1] \in Job
    BY DEF Job, JobsTyped
  <2> QED
    BY <1>11, <2>1 DEF ReplayDlq, JobsTyped
<1> QED
  BY <1>4, <1>5, <1>6, <1>7, <1>8, <1>9, <1>10, <1>11, ClientsAreAgents DEF Next

\* The bounds.
LEMMA AskedStep ==
  ASSUME TypeInv, [Next]_vars
  PROVE  AskedTyped'
<1> AskedTyped /\ {MaxStreams, MaxResets, MaxFaults} \subseteq Nat
  BY DemoResetAssumption DEF TypeInv, TypeOK, AskedTyped
<1>1. CASE UNCHANGED asked
  BY <1>1 DEF AskedTyped
<1>2. CASE Faulty
  BY <1>2 DEF Faulty, AskedTyped
<1>3. ASSUME NEW t, Serve(t)
      PROVE  AskedTyped'
  BY <1>1, <1>2, <1>3 DEF Serve, LockTable, QueueForTable, BreakDeadlock, CountRows,
     CommitReset, DeleteTopic, WaitTopic, CreateTopic, InsertRoom, CommitRoom,
     CheckMember, AnswerRead, FindMessage, CommitReceipt
<1>4. ASSUME NEW w, Work(w)
      PROVE  AskedTyped'
  BY <1>1, <1>4 DEF Work, TakeJob, LockTable, QueueForTable, BreakDeadlock, Authorize,
     CommitMessage, RefuseRow, CommitStatus, CommitQueued, PublishDlq
<1>5. ASSUME NEW t, Failure(t) \/ TopicFails(t)
      PROVE  AskedTyped'
  BY <1>2, <1>5 DEF Failure, LoseSession, LoseCommitReply, TopicFails
<1>6. ASSUME NEW t, AskReset(t)
      PROVE  AskedTyped'
  BY <1>6 DEF AskReset, AskedTyped
<1>7. ASSUME NEW t, AskCreate(t)
      PROVE  AskedTyped'
  BY <1>7 DEF AskCreate, AskedTyped
<1>8. ASSUME NEW t, NEW room, NEW r \in Requests, NEW fits, PostEvent(t, room, r, fits)
      PROVE  AskedTyped'
  BY <1>8 DEF PostEvent, AskedTyped
<1>9. ASSUME NEW t, Ask(t) \/ UnknownMember(t)
      PROVE  AskedTyped'
  BY <1>1, <1>7, <1>8, <1>9 DEF Ask, AskRead, AskMark, UnknownMember
<1>10. CASE TopicDeleted \/ UNCHANGED vars \/ \E job \in dlq.records : ReplayDlq(job)
  BY <1>1, <1>10 DEF TopicDeleted, vars, ReplayDlq
<1> QED
  BY <1>3, <1>4, <1>5, <1>6, <1>9, <1>10 DEF Next

(***************************************************************************)
(* What was found, authorized or counted stays so under its locks.         *)
(***************************************************************************)
\* The locks behind each of the three, and those of the statements that write.
LEMMA LocksBehind ==
  ASSUME TypeInv, LocksHeld, NEW t \in Agents
  PROVE  /\ txn[t].found /\ txn[t].op # "mark" => "rooms" \in held[t]
         /\ txn[t].found /\ txn[t].op = "mark" => "messages" \in held[t]
         /\ Persisting(t) /\ txn[t].step > (IF txn[t].op = "keyed" THEN 5 ELSE 4)
              => {"rooms", "messages"} \subseteq held[t]
         /\ txn[t].op = "reset" /\ txn[t].step \in 6..8
              => {"rooms", "messages", "request_statuses"} \subseteq held[t]
         /\ Now(t) = "commit_room" => "rooms" \in held[t]
         /\ Now(t) = "commit_message" => "messages" \in held[t]
         /\ Now(t) \in {"commit_status", "commit_queued"} => "request_statuses" \in held[t]
         /\ Now(t) = "commit_reset" =>
              Exclusive(t) /\ {"rooms", "messages", "request_statuses"} \subseteq held[t]
<1> DEFINE named == {Programs[txn[t].op][i] : i \in 1..(txn[t].step - 1)}
<1>1. /\ Good(t, txn[t]) /\ txn[t].op \in DOMAIN Programs
      /\ txn[t].step \in 1..Length(txn[t].op)
      /\ Now(t) = Programs[txn[t].op][txn[t].step]
  BY AgentFacts
<1>2. ~(txn[t].op = "reset" /\ txn[t].step > 8) => held[t] = Tables \cap named
  BY AgentFacts DEF LocksSoFar
<1>3. /\ txn[t].op = "reset" /\ txn[t].step > 4 =>
           {"idempotency_keys", "messages", "rooms", "request_statuses"} \subseteq named
      /\ txn[t].op \in {"list", "unread"} /\ txn[t].step > 1 => "rooms" \in named
      /\ txn[t].op = "create" /\ txn[t].step > 1 => "rooms" \in named
      /\ txn[t].op = "mark" /\ txn[t].step > 1 => "messages" \in named
      /\ txn[t].op = "persist" /\ txn[t].step > 2 => {"messages", "rooms"} \subseteq named
      /\ txn[t].op = "keyed" /\ txn[t].step > 3 => {"messages", "rooms"} \subseteq named
      /\ txn[t].op \in {"failed", "retry"} /\ txn[t].step > 1 => "request_statuses" \in named
      /\ txn[t].op = "dlq" /\ txn[t].step > 2 => "request_statuses" \in named
  BY <1>1, NamedBefore
<1> HIDE DEF named
<1>4. {"rooms", "messages", "request_statuses"} \subseteq Tables
  BY DEF Tables
<1>5. txn[t].found => txn[t].op \in {"list", "unread", "mark"} /\ txn[t].step > 3
  BY <1>1 DEF Good, KnowsItsData
<1>6. txn[t].found /\ txn[t].op # "mark" => "rooms" \in held[t]
  BY <1>1, <1>2, <1>3, <1>4, <1>5
<1>7. txn[t].found /\ txn[t].op = "mark" => "messages" \in held[t]
  BY <1>1, <1>2, <1>3, <1>4, <1>5
<1>8. Persisting(t) /\ txn[t].step > (IF txn[t].op = "keyed" THEN 5 ELSE 4)
        => {"rooms", "messages"} \subseteq held[t]
  BY <1>1, <1>2, <1>3, <1>4 DEF Persisting
<1>9. txn[t].op = "reset" /\ txn[t].step \in 6..8
        => {"rooms", "messages", "request_statuses"} \subseteq held[t]
  BY <1>1, <1>2, <1>3, <1>4
<1>10. Now(t) = "commit_room" => "rooms" \in held[t]
  <2>1. Now(t) = "commit_room" => txn[t].op = "create" /\ txn[t].step = 4
    BY AgentFacts, Places
  <2> QED
    BY <2>1, <1>2, <1>3, <1>4
<1>11. Now(t) = "commit_message" => "messages" \in held[t]
  <2>1. Now(t) = "commit_message" => \/ txn[t].op = "persist" /\ txn[t].step = 6
                                     \/ txn[t].op = "keyed" /\ txn[t].step = 7
    BY AgentFacts, Places
  <2> QED
    BY <2>1, <1>2, <1>3, <1>4
<1>12. Now(t) \in {"commit_status", "commit_queued"} => "request_statuses" \in held[t]
  <2>1. Now(t) \in {"commit_status", "commit_queued"} =>
          \/ txn[t].op \in {"failed", "retry"} /\ txn[t].step = 2
          \/ txn[t].op = "dlq" /\ txn[t].step = 3
    BY AgentFacts, Places
  <2> QED
    BY <2>1, <1>2, <1>3, <1>4
<1>13. Now(t) = "commit_reset" =>
         Exclusive(t) /\ {"rooms", "messages", "request_statuses"} \subseteq held[t]
  <2>1. Now(t) = "commit_reset" => txn[t].op = "reset" /\ txn[t].step = 8
    BY AgentFacts, Places
  <2> QED
    BY <2>1, <1>9 DEF Exclusive
<1> QED
  BY <1>6, <1>7, <1>8, <1>9, <1>10, <1>11, <1>12, <1>13

\* A transaction that is not t's loses nothing to what t writes.
LEMMA OthersKeep ==
  ASSUME TypeInv, LockInv, EraInv, NEW t \in Agents, Writes(t),
         NEW u \in Agents \ {t}, txn'[u] = txn[u]
  PROVE  (StillFound(u) /\ Authorized(u) /\ StillCounted(u))'
<1>1. /\ StillFound(u) /\ Authorized(u) /\ StillCounted(u)
      /\ db \in Database
  BY DEF EraInv, TypeInv, TypeOK
<1>2. \A x : x \in held[t] /\ x \in held[u] => ~Exclusive(t) /\ ~Exclusive(u)
  BY DEF LockInv, Apart
<1>3. CASE Now(t) = "commit_reset" /\ db' = EmptyDb
  <2>1. Exclusive(t) /\ {"rooms", "messages", "request_statuses"} \subseteq held[t]
    BY <1>3, LocksBehind DEF LockInv
  <2>2. "rooms" \notin held[u] /\ "messages" \notin held[u]
    BY <1>2, <2>1
  <2>3. /\ ~txn[u].found
        /\ ~(Persisting(u) /\ txn[u].step > (IF txn[u].op = "keyed" THEN 5 ELSE 4))
        /\ ~(txn[u].op = "reset" /\ txn[u].step \in 6..8)
    BY <2>2, LocksBehind DEF LockInv
  <2> QED
    BY <2>3 DEF StillFound, Authorized, StillCounted, Persisting
<1>4. CASE ~(Now(t) = "commit_reset" /\ db' = EmptyDb)
  <2>1. db.rooms \subseteq db'.rooms /\ db.messages \subseteq db'.messages
    BY <1>1, <1>4 DEF Writes, Persisted, Database
  <2>2. \A r : Stored(r) => Stored(r)'
    BY <2>1 DEF Stored
  <2>3. RoomIds \subseteq RoomIds'
    BY <2>1 DEF RoomIds
  <2>4. StillFound(u)'
    BY <1>1, <2>1, <2>2 DEF StillFound
  <2>5. Authorized(u)'
    BY <1>1, <2>2, <2>3 DEF Authorized, Persisting
  <2>6. StillCounted(u)'
    <3>1. SUFFICES ASSUME txn[u].op = "reset", txn[u].step \in 6..8
                   PROVE  RowCounts(db') = RowCounts(db)
      BY <1>1 DEF StillCounted
    <3>2. /\ Exclusive(u)
          /\ {"rooms", "messages", "request_statuses"} \subseteq held[u]
      BY <3>1, LocksBehind DEF LockInv, Exclusive
    <3>3. Now(t) \notin {"commit_room", "commit_message", "commit_status", "commit_queued"}
      BY <1>2, <3>2, LocksBehind DEF LockInv
    <3>4. db' = db \/ db' = [db EXCEPT !.receipts = @ \cup {txn[t].room}]
      BY <1>4, <3>3 DEF Writes
    <3> QED
      BY <1>1, <3>4 DEF RowCounts, Database
  <2> QED
    BY <2>4, <2>5, <2>6
<1> QED
  BY <1>3, <1>4

\* Streams are told apart by their ids.
LEMMA OneRoomPerId ==
  ASSUME NEW r \in Room, NEW s \in Room, r.id = s.id
  PROVE  r = s
BY DEF Room

\* t itself knows what it just learned, and keeps what it knew.
LEMMA OwnKeeps ==
  ASSUME TypeInv, LockInv, EraInv, NEW t \in Agents, Moves(t)
  PROVE  (StillFound(t) /\ Authorized(t) /\ StillCounted(t))'
<1>1. txn \in [Agents -> Doing] /\ db \in Database /\ db.rooms \subseteq Room
  BY DEF TypeInv, TypeOK, Database
<1>2. CASE Fresh(t)
  <2>1. /\ txn'[t].step = 1 /\ txn'[t].found = FALSE
    BY <1>1, <1>2 DEF Fresh
  <2> QED
    BY <2>1 DEF StillFound, Authorized, StillCounted
<1>3. CASE Onward(t)
  <2>1. PICK a : /\ Good(t, a) /\ a.op = txn[t].op /\ a.step = txn[t].step + 1
                 /\ a.job = txn[t].job /\ Learns(t, a) /\ txn'[t] = a
    BY <1>1, <1>3 DEF Onward
  <2>2. /\ Good(t, txn[t]) /\ txn[t].op \in DOMAIN Programs
        /\ txn[t].step \in 1..Length(txn[t].op)
        /\ Now(t) = Programs[txn[t].op][txn[t].step]
    BY AgentFacts DEF LockInv
  <2>3. /\ StillFound(t) /\ Authorized(t) /\ StillCounted(t)
    BY DEF EraInv
  <2>4. CASE Now(t) = "commit_reset"
    <3>1. txn[t].op = "reset" /\ txn[t].step = 8
      BY <2>4, AgentFacts, Places DEF LockInv
    <3>2. a.op = "reset" /\ a.step = 9
      BY <2>1, <3>1
    <3>3. ~a.found
      BY <2>1, <3>2 DEF Good, KnowsItsData
    <3> QED
      BY <2>1, <3>2, <3>3 DEF StillFound, Authorized, StillCounted, Persisting
  <2>5. CASE Now(t) # "commit_reset"
    <3>1. a.step \in Nat /\ a.step <= Length(txn[t].op) /\ Length(txn[t].op) \in Nat
      BY <2>1, <2>2, Lengths DEF Good, OwnProgram
    <3>2. txn[t].step < Length(txn[t].op)
      BY <2>1, <2>2, <3>1
    <3>3. Now(t) \notin {"commit_room", "commit_receipt", "commit_message", "commit_status",
                         "commit_queued"}
      BY <2>2, <3>2, Places, Lengths
    <3>4. db' = db
      BY <2>5, <3>3 DEF Moves, Writes
    <3>5. StillFound(t)'
      <4>1. SUFFICES ASSUME a.found
                     PROVE  IF a.op = "mark" THEN Stored(a.room) ELSE a.room \in db.rooms
        BY <2>1, <3>4 DEF StillFound, Stored
      <4>2. CASE txn[t].found
        <5>1. txn[t].op \in {"list", "unread", "mark"}
          BY <2>2, <4>2 DEF Good, KnowsItsData
        <5>2. Now(t) # "insert_room"
          BY <2>2, <5>1, Places
        <5> QED
          BY <2>1, <2>3, <4>2, <5>2 DEF Learns, StillFound
      <4>3. CASE ~txn[t].found
        <5>1. a.found # txn[t].found
          BY <4>1, <4>3
        <5>2. CASE a.op = "mark"
          BY <2>1, <5>1, <5>2 DEF Learns
        <5>3. CASE a.op # "mark"
          <6>1. a.room.id \in RoomIds
            BY <2>1, <5>1, <5>3 DEF Learns
          <6>2. a.room \in Room
            BY <2>1, <4>1, <5>3 DEF Good, KnowsItsData
          <6> QED
            BY <1>1, <5>3, <6>1, <6>2, OneRoomPerId DEF RoomIds
        <5> QED
          BY <5>2, <5>3
      <4> QED
        BY <4>2, <4>3
    <3>6. Authorized(t)'
      <4>1. SUFFICES ASSUME a.op \in {"persist", "keyed"},
                            a.step > (IF a.op = "keyed" THEN 5 ELSE 4)
                     PROVE  Stored(a.job.request) \/ a.job.room.id \in RoomIds
        BY <2>1, <3>4 DEF Authorized, Persisting, Stored, RoomIds
      <4>2. CASE Now(t) = "authorize"
        BY <2>1, <4>2 DEF Learns
      <4>3. CASE txn[t].step > (IF txn[t].op = "keyed" THEN 5 ELSE 4)
        BY <2>1, <2>3, <4>1, <4>3 DEF Authorized, Persisting
      <4>4. txn[t].step = (IF txn[t].op = "keyed" THEN 5 ELSE 4) => Now(t) = "authorize"
        BY <2>1, <2>2, <4>1, PersistPrograms
      <4>5. txn[t].step \in Nat
        BY <2>2, Lengths
      <4> QED
        BY <2>1, <4>1, <4>2, <4>3, <4>4, <4>5
    <3>7. StillCounted(t)'
      <4>1. SUFFICES ASSUME a.op = "reset", a.step \in 6..8
                     PROVE  a.counts = RowCounts(db)
        BY <2>1, <3>4 DEF StillCounted
      <4>2. CASE txn[t].step = 5
        <5>1. Now(t) = "count"
          BY <2>1, <2>2, <4>1, <4>2, ResetProgram
        <5> QED
          BY <2>1, <5>1 DEF Learns
      <4>3. CASE txn[t].step \in 6..7
        <5>1. Now(t) # "count"
          BY <2>2, <4>3, Places
        <5> QED
          BY <2>1, <2>3, <4>1, <4>3, <5>1 DEF Learns, StillCounted
      <4>4. txn[t].step \in Nat
        BY <2>2, Lengths
      <4> QED
        BY <2>1, <4>1, <4>2, <4>3, <4>4
    <3> QED
      BY <3>5, <3>6, <3>7
  <2> QED
    BY <2>4, <2>5
<1> QED
  BY <1>2, <1>3 DEF Moves

LEMMA EraStep ==
  ASSUME TypeInv, LockInv, EraInv, [Next]_vars
  PROVE  EraInv'
<1>1. CASE Rests
  BY <1>1 DEF Rests, EraInv, StillFound, Authorized, StillCounted, Persisting, Stored, RoomIds,
     RowCounts
<1>2. ASSUME NEW t \in Agents, Moves(t)
      PROVE  EraInv'
  <2>1. ASSUME NEW u \in Agents
        PROVE  (StillFound(u) /\ Authorized(u) /\ StillCounted(u))'
    <3>1. CASE u = t
      BY <1>2, <3>1, OwnKeeps
    <3>2. CASE u # t
      <4>1. txn'[u] = txn[u]
        BY <1>2, <3>2, HeldAfter DEF LockInv
      <4> QED
        BY <1>2, <3>2, <4>1, OthersKeep DEF Moves
    <3> QED
      BY <3>1, <3>2
  <2> QED
    BY <2>1 DEF EraInv
<1> QED
  BY <1>1, <1>2, EveryStep DEF LockInv

(***************************************************************************)
(* The queue of those that wait.                                           *)
(***************************************************************************)
\* Who waits does so once, and for a table.
Queued ==
  /\ IsInjective(waiters)
  /\ \A t \in Agents : Waiting(t) => Now(t) \in Tables

\* What a step does to the queue: t leaves it with a step of its own, or goes
\* on from a statement that asked for no lock.
OnlyOf(t) == \A u \in Agents \ {t} : txn'[u] = txn[u]
Leaves(t) == Unqueue(t) /\ OnlyOf(t)
Passes(t) == Now(t) \notin Tables /\ waiters' = waiters /\ OnlyOf(t)
Stands == UNCHANGED <<txn, waiters>>

LEMMA IdleAsksNothing ==
  ASSUME TypeInv, LocksHeld, NEW t \in Agents, txn[t].op = "idle"
  PROVE  Now(t) \notin Tables
BY AgentFacts, Places

LEMMA NotATable ==
  {"count", "commit_reset", "delete_topic", "wait_topic", "create_topic", "insert_room",
   "commit_room", "member", "answer", "find", "commit_receipt", "authorize",
   "commit_message", "commit_status", "commit_queued", "publish_dlq"} \cap Tables = {}
BY DEF Tables

LEMMA FailLeaves ==
  ASSUME TypeInv, NEW t \in Agents, Fail(t)
  PROVE  Leaves(t)
<1>1. txn \in [Agents -> Doing]
  BY DEF TypeInv, TypeOK
<1> QED
  BY <1>1 DEF Fail, AfterError, Begin, Answer, Release, Leaves, OnlyOf

LEMMA ServeQueue ==
  ASSUME TypeInv, LocksHeld, NEW t \in Agents, Serve(t)
  PROVE  QueueForTable(t) \/ Leaves(t) \/ Passes(t)
<1>1. txn \in [Agents -> Doing]
  BY DEF TypeInv, TypeOK
<1>2. CASE LockTable(t)
  BY <1>1, <1>2 DEF LockTable, Step, Leaves, OnlyOf
<1>3. CASE BreakDeadlock(t)
  BY <1>3, FailLeaves DEF BreakDeadlock
<1>4. CASE CountRows(t) \/ DeleteTopic(t) \/ WaitTopic(t) \/ InsertRoom(t)
  BY <1>1, <1>4, NotATable DEF CountRows, DeleteTopic, WaitTopic, InsertRoom, Step, Passes, OnlyOf
<1>5. CASE CreateTopic(t)
  BY <1>1, <1>5, NotATable DEF CreateTopic, Answer, Passes, OnlyOf
<1>6. CASE CommitReset(t)
  BY <1>1, <1>6 DEF CommitReset, Release, Step, Leaves, OnlyOf
<1>7. CASE CommitRoom(t) \/ AnswerRead(t) \/ CommitReceipt(t)
  BY <1>1, <1>7 DEF CommitRoom, AnswerRead, CommitReceipt, Release, Answer, Leaves, OnlyOf
<1>8. CASE CheckMember(t) \/ FindMessage(t)
  BY <1>1, <1>8, NotATable
     DEF CheckMember, FindMessage, Release, Answer, Step, Leaves, Passes, OnlyOf
<1> QED
  BY <1>2, <1>3, <1>4, <1>5, <1>6, <1>7, <1>8 DEF Serve

LEMMA WorkQueue ==
  ASSUME TypeInv, LocksHeld, NEW w \in Agents, Work(w)
  PROVE  QueueForTable(w) \/ Leaves(w) \/ Passes(w)
<1>1. txn \in [Agents -> Doing]
  BY DEF TypeInv, TypeOK
<1>2. CASE LockTable(w)
  BY <1>1, <1>2 DEF LockTable, Step, Leaves, OnlyOf
<1>3. CASE BreakDeadlock(w)
  BY <1>3, FailLeaves DEF BreakDeadlock
<1>4. CASE \E job \in jobs : TakeJob(w, job)
  BY <1>1, <1>4, IdleAsksNothing DEF TakeJob, Begin, Passes, OnlyOf
<1>5. CASE Authorize(w)
  BY <1>1, <1>5, NotATable DEF Authorize, Begin, Step, Release, Leaves, Passes, OnlyOf
<1>6. CASE CommitMessage(w) \/ CommitStatus(w)
  BY <1>1, <1>6 DEF CommitMessage, CommitStatus, Answer, Release, Leaves, OnlyOf
<1>7. CASE RefuseRow(w) \/ CommitQueued(w)
  BY <1>1, <1>7 DEF RefuseRow, CommitQueued, Begin, Release, Leaves, OnlyOf
<1>8. CASE PublishDlq(w)
  BY <1>1, <1>8, NotATable DEF PublishDlq, Answer, Step, Passes, OnlyOf
<1> QED
  BY <1>2, <1>3, <1>4, <1>5, <1>6, <1>7, <1>8 DEF Work

LEMMA QueueShape ==
  ASSUME TypeInv, LocksHeld, [Next]_vars
  PROVE  Stands \/ \E t \in Agents : QueueForTable(t) \/ Leaves(t) \/ Passes(t)
<1>1. txn \in [Agents -> Doing]
  BY DEF TypeInv, TypeOK
<1>2. ASSUME NEW t \in Agents, AskReset(t) \/ Ask(t)
      PROVE  Passes(t)
  BY <1>1, <1>2, IdleAsksNothing
     DEF AskReset, Ask, AskCreate, PostEvent, AskRead, AskMark, Answer, Passes, OnlyOf
<1>3. ASSUME NEW t \in Agents, UnknownMember(t)
      PROVE  Leaves(t)
  BY <1>1, <1>3 DEF UnknownMember, Release, Answer, Leaves, OnlyOf
<1>4. ASSUME NEW t \in Agents, TopicFails(t)
      PROVE  Passes(t)
  BY <1>1, <1>4, NotATable DEF TopicFails, Answer, Passes, OnlyOf
<1>5. ASSUME NEW t \in Agents, Failure(t)
      PROVE  Leaves(t)
  BY <1>5, FailLeaves DEF Failure, LoseSession, LoseCommitReply
<1>6. CASE TopicDeleted \/ UNCHANGED vars \/ \E job \in dlq.records : ReplayDlq(job)
  BY <1>6 DEF TopicDeleted, ReplayDlq, vars, Stands
<1> QED
  BY <1>2, <1>3, <1>4, <1>5, <1>6, ServeQueue, WorkQueue, ClientsAreAgents DEF Next

\* Taking one out of the queue leaves the others, each once.
LEMMA Removed ==
  ASSUME NEW s \in Seq(Agents), NEW i \in 1..Len(s), IsInjective(s)
  PROVE  /\ IsInjective(RemoveAt(s, i))
         /\ Range(RemoveAt(s, i)) \subseteq Range(s) \ {s[i]}
<1> DEFINE head == SubSeq(s, 1, i - 1)
           tail == SubSeq(s, i + 1, Len(s))
           t == RemoveAt(s, i)
<1>1. /\ head \in Seq(Agents) /\ Len(head) = i - 1
      /\ \A j \in 1..(i - 1) : head[j] = s[j]
  OBVIOUS
<1>2. /\ tail \in Seq(Agents) /\ Len(tail) = Len(s) - i
      /\ \A j \in 1..(Len(s) - i) : tail[j] = s[j + i]
  OBVIOUS
<1>3. t = head \o tail
  BY DEF RemoveAt
<1> HIDE DEF head, tail, t
<1>4. /\ t \in Seq(Agents) /\ Len(t) = Len(s) - 1
      /\ \A j \in 1..(i - 1) : t[j] = s[j]
      /\ \A j \in i..(Len(s) - 1) : t[j] = s[j + 1]
  <2>1. t \in Seq(Agents) /\ Len(t) = Len(s) - 1
    BY <1>1, <1>2, <1>3
  <2>2. \A j \in 1..(i - 1) : t[j] = head[j]
    BY <1>1, <1>2, <1>3
  <2>3. \A j \in i..(Len(s) - 1) : t[j] = tail[j - i + 1] /\ j - i + 1 \in 1..(Len(s) - i)
    BY <1>1, <1>2, <1>3
  <2>4. \A j \in i..(Len(s) - 1) : t[j] = s[j + 1]
    BY <1>2, <2>3
  <2> QED
    BY <1>1, <2>1, <2>2, <2>4
<1>5. \A j, k \in 1..Len(s) : s[j] = s[k] => j = k
  BY DEF IsInjective
<1>6. /\ Len(s) \in Nat /\ DOMAIN t = 1..(Len(s) - 1) /\ DOMAIN s = 1..Len(s)
  BY <1>4
<1>7. ASSUME NEW j \in 1..(Len(s) - 1)
      PROVE  \E k \in 1..Len(s) : t[j] = s[k] /\ k # i
  <2>1. CASE j < i
    BY <1>4, <1>6, <2>1
  <2>2. CASE j >= i
    BY <1>4, <1>6, <2>2
  <2> QED
    BY <1>6, <2>1, <2>2
<1>8. \A j, k \in 1..(Len(s) - 1) : t[j] = t[k] => j = k
  BY <1>4, <1>5, <1>6
<1>9. IsInjective(t)
  BY <1>6, <1>8 DEF IsInjective
<1>10. ASSUME NEW x \in Range(t)
       PROVE  x \in Range(s) \ {s[i]}
  <2>1. PICK j \in 1..(Len(s) - 1) : x = t[j]
    BY <1>6 DEF Range
  <2>2. PICK k \in 1..Len(s) : x = s[k] /\ k # i
    BY <1>7, <2>1
  <2>3. x # s[i]
    BY <1>5, <2>2
  <2> QED
    BY <1>6, <2>2, <2>3 DEF Range
<1> QED
  BY <1>9, <1>10 DEF t

LEMMA QueuedStep ==
  ASSUME TypeInv, LocksHeld, Queued, [Next]_vars
  PROVE  Queued'
<1>1. /\ waiters \in Seq(Agents) /\ waiters' \in Seq(Agents) /\ IsInjective(waiters)
      /\ \A t \in Agents : Waiting(t) => Now(t) \in Tables
  BY WaitersStep DEF TypeInv, TypeOK, Queued
<1>2. \A t \in Agents : txn'[t] = txn[t] => Now(t)' = Now(t)
  BY DEF Now, Program
<1>3. \A t : /\ Waiting(t) <=> t \in Range(waiters)
             /\ Waiting(t)' <=> t \in Range(waiters')
  BY DEF Waiting
<1>4. CASE Stands
  BY <1>1, <1>2, <1>3, <1>4 DEF Stands, Queued
<1>5. ASSUME NEW t \in Agents, Passes(t)
      PROVE  Queued'
  BY <1>1, <1>2, <1>3, <1>5 DEF Passes, OnlyOf, Queued
<1>6. ASSUME NEW t \in Agents, QueueForTable(t)
      PROVE  Queued'
  <2>1. /\ txn' = txn /\ waiters' = Append(waiters, t)
        /\ Now(t) \in Tables /\ t \notin Range(waiters)
    BY <1>3, <1>6 DEF QueueForTable
  <2>2. /\ DOMAIN waiters = 1..Len(waiters) /\ Len(waiters) \in Nat
        /\ DOMAIN waiters' = 1..(Len(waiters) + 1) /\ waiters'[Len(waiters) + 1] = t
        /\ \A i \in 1..Len(waiters) : waiters'[i] = waiters[i]
    BY <1>1, <2>1
  <2>3. \A i \in 1..Len(waiters) : waiters[i] # t
    BY <2>1, <2>2 DEF Range
  <2>4. \A i, j \in 1..Len(waiters) : waiters[i] = waiters[j] => i = j
    BY <1>1, <2>2 DEF IsInjective
  <2>5. \A i, j \in 1..(Len(waiters) + 1) : waiters'[i] = waiters'[j] => i = j
    <3> SUFFICES ASSUME NEW i \in 1..(Len(waiters) + 1), NEW j \in 1..(Len(waiters) + 1),
                        waiters'[i] = waiters'[j]
                 PROVE  i = j
      OBVIOUS
    <3>1. \A k \in 1..(Len(waiters) + 1) : k = Len(waiters) + 1 \/ k \in 1..Len(waiters)
      BY <2>2
    <3> QED
      BY <2>2, <2>3, <2>4, <3>1
  <2>6. IsInjective(waiters')
    BY <2>2, <2>5 DEF IsInjective
  <2>7. \A u \in Range(waiters') : u = t \/ u \in Range(waiters)
    BY <2>2 DEF Range
  <2> QED
    BY <1>1, <1>2, <1>3, <2>1, <2>6, <2>7 DEF Queued
<1>7. ASSUME NEW t \in Agents, Leaves(t)
      PROVE  Queued'
  <2>1. CASE waiters' = waiters /\ ~Waiting(t)
    BY <1>1, <1>2, <1>3, <1>7, <2>1 DEF Leaves, OnlyOf, Queued
  <2>2. ASSUME NEW i \in DOMAIN waiters, waiters[i] = t, waiters' = RemoveAt(waiters, i)
        PROVE  Queued'
    <3>1. IsInjective(waiters') /\ Range(waiters') \subseteq Range(waiters) \ {t}
      BY <1>1, <2>2, Removed
    <3> QED
      BY <1>1, <1>2, <1>3, <1>7, <3>1 DEF Leaves, OnlyOf, Queued
  <2> QED
    BY <1>7, <2>1, <2>2 DEF Leaves, Unqueue
<1> QED
  BY <1>4, <1>5, <1>6, <1>7, QueueShape

(***************************************************************************)
(* No worker waits in a circle.                                            *)
(***************************************************************************)
\* What a reset has locked when it comes to a statement.
LEMMA ResetHolds ==
  ASSUME TypeInv, LocksHeld, NEW r \in Agents, Exclusive(r)
  PROVE  /\ txn[r].step \in 1..11
         /\ held[r] \subseteq Tables
         /\ txn[r].step > 8 => held[r] = {}
         /\ txn[r].step <= 8 =>
              /\ "idempotency_keys" \in held[r] <=> txn[r].step > 1
              /\ "messages" \in held[r] <=> txn[r].step > 2
              /\ "rooms" \in held[r] <=> txn[r].step > 3
              /\ "request_statuses" \in held[r] <=> txn[r].step > 4
              /\ "room_members" \in held[r] <=> txn[r].step > 6
              /\ "read_receipts" \in held[r] <=> txn[r].step > 7
<1> DEFINE n == txn[r].step
<1>1. txn[r].op = "reset" /\ "reset" \in DOMAIN Programs
  BY ProgramNames DEF Exclusive
<1>2. n \in 1..11
  <2>1. n \in 1..Length("reset") /\ Length("reset") = 11
    BY <1>1, AgentFacts, Lengths
  <2> QED
    BY <2>1
<1>3. held[r] = LocksSoFar(txn[r])
  BY AgentFacts
<1>4. held[r] \subseteq Tables /\ (n > 8 => held[r] = {})
  BY <1>1, <1>3 DEF LocksSoFar
<1>5. \A T \in Tables : n <= 8 =>
        (T \in held[r] <=> \E i \in 1..(n - 1) : Programs["reset"][i] = T)
  BY <1>1, <1>2, <1>3 DEF LocksSoFar
<1>6. Tables = {"idempotency_keys", "messages", "rooms", "request_statuses",
                "room_members", "read_receipts"}
  BY DEF Tables
<1>7. \A i \in 1..7 :
        \/ i = 1 /\ Programs["reset"][i] = "idempotency_keys"
        \/ i = 2 /\ Programs["reset"][i] = "messages"
        \/ i = 3 /\ Programs["reset"][i] = "rooms"
        \/ i = 4 /\ Programs["reset"][i] = "request_statuses"
        \/ i = 5 /\ Programs["reset"][i] = "count"
        \/ i = 6 /\ Programs["reset"][i] = "room_members"
        \/ i = 7 /\ Programs["reset"][i] = "read_receipts"
  BY ResetProgram
<1> HIDE DEF n
<1>8. ASSUME n <= 8, NEW k \in 1..7, NEW T \in Tables, Programs["reset"][k] = T
      PROVE  T \in held[r] <=> n > k
  <2>1. \A i \in 1..7 : Programs["reset"][i] = T => i = k
    BY <1>7, <1>8
  <2> QED
    BY <1>2, <1>5, <1>8, <2>1
<1>9. n <= 8 =>
        /\ "idempotency_keys" \in held[r] <=> n > 1
        /\ "messages" \in held[r] <=> n > 2
        /\ "rooms" \in held[r] <=> n > 3
        /\ "request_statuses" \in held[r] <=> n > 4
        /\ "room_members" \in held[r] <=> n > 6
        /\ "read_receipts" \in held[r] <=> n > 7
  BY <1>6, <1>7, <1>8
<1> QED
  BY <1>2, <1>4, <1>9 DEF n

\* The tables of a reset come in one order, and it asks for none it has.
LEMMA ResetOrder ==
  ASSUME TypeInv, LocksHeld, NEW r \in Agents, Exclusive(r), NEW table \in Tables,
         table \in held[r] \/ Now(r) = table
  PROVE  /\ table # "idempotency_keys" => "idempotency_keys" \in held[r]
         /\ table \notin {"idempotency_keys", "messages"} => "messages" \in held[r]
         /\ Now(r) = table => table \notin held[r]
         /\ Now(r) = "idempotency_keys" => held[r] = {}
<1> DEFINE n == txn[r].step
<1>1. txn[r].op = "reset" /\ n \in 1..11 /\ Now(r) = Programs["reset"][n]
  BY AgentFacts, ResetHolds DEF Exclusive
<1>2. Now(r) \in Tables =>
        \/ n = 1 /\ Now(r) = "idempotency_keys"
        \/ n = 2 /\ Now(r) = "messages"
        \/ n = 3 /\ Now(r) = "rooms"
        \/ n = 4 /\ Now(r) = "request_statuses"
        \/ n = 6 /\ Now(r) = "room_members"
        \/ n = 7 /\ Now(r) = "read_receipts"
  BY <1>1, ResetProgram DEF Tables
<1>3. Tables = {"idempotency_keys", "messages", "rooms", "request_statuses",
                "room_members", "read_receipts"}
  BY DEF Tables
<1> HIDE DEF n
<1>4. CASE n > 8
  BY <1>2, <1>4, ResetHolds DEF n
<1>5. CASE n <= 8
  <2>1. /\ held[r] \subseteq Tables
        /\ "idempotency_keys" \in held[r] <=> n > 1
        /\ "messages" \in held[r] <=> n > 2
        /\ "rooms" \in held[r] <=> n > 3
        /\ "request_statuses" \in held[r] <=> n > 4
        /\ "room_members" \in held[r] <=> n > 6
        /\ "read_receipts" \in held[r] <=> n > 7
    BY <1>5, ResetHolds DEF n
  <2>2. n = 1 => held[r] = {}
    BY <1>3, <2>1
  <2> QED
    BY <1>1, <1>2, <1>3, <2>1, <2>2
<1> QED
  BY <1>1, <1>4, <1>5

LEMMA WorkerOrder ==
  ASSUME TypeInv, LocksHeld, NEW w \in Workers, Now(w) \in Tables
  PROVE  \/ held[w] = {}
         \/ Now(w) # "idempotency_keys" /\ "idempotency_keys" \in held[w]
         \/ Now(w) \notin {"idempotency_keys", "messages"} /\ "messages" \in held[w]
<1> DEFINE op == txn[w].op
           n == txn[w].step
           named == {Programs[op][i] : i \in 1..(n - 1)}
<1>1. /\ w \in Agents /\ op \in DOMAIN Programs /\ n \in 1..Length(op)
      /\ Now(w) = Programs[op][n] /\ op \in WorkerOps
  BY ClientsAreAgents, AgentFacts DEF Good, OwnProgram
<1>2. op # "idle" /\ n < Length(op)
  BY <1>1, Places
<1>3. held[w] = Tables \cap named
  BY <1>1, AgentFacts DEF LocksSoFar, WorkerOps
<1>4. {"idempotency_keys", "messages"} \subseteq Tables /\ "publish_dlq" \notin Tables
  BY DEF Tables
<1>5. n = 1 => held[w] = {}
  BY <1>3
<1>6. n > 1 => Programs[op][1] \in named
  BY <1>1
<1>7. CASE op = "persist"
  <2>1. Length("persist") = 6
    BY Lengths, ProgramNames
  <2>2. n > 1 => Now(w) \notin {"idempotency_keys", "messages"}
    BY <1>1, <1>2, <1>7, <2>1, PersistPrograms
  <2> QED
    BY <1>1, <1>3, <1>4, <1>5, <1>6, <1>7, <2>2, PersistPrograms
<1>8. CASE op = "keyed"
  <2>1. Length("keyed") = 7
    BY Lengths, ProgramNames
  <2>2. n > 1 => Now(w) # "idempotency_keys"
    BY <1>1, <1>2, <1>8, <2>1, PersistPrograms
  <2> QED
    BY <1>1, <1>3, <1>4, <1>5, <1>6, <1>8, <2>2, PersistPrograms
<1>9. CASE op \in {"failed", "retry"}
  <2>1. Length("failed") = 2 /\ Length("retry") = 2
    BY Lengths, ProgramNames
  <2> QED
    BY <1>1, <1>2, <1>5, <1>9, <2>1
<1>10. CASE op = "dlq"
  <2>1. Length("dlq") = 3
    BY Lengths, ProgramNames
  <2>2. n = 1 \/ n = 2
    BY <1>1, <1>2, <1>10, <2>1
  <2>3. n = 2 => named = {"publish_dlq"}
    BY <1>10, StatusPrograms
  <2> QED
    BY <1>3, <1>4, <1>5, <2>2, <2>3
<1> QED
  BY <1>1, <1>2, <1>7, <1>8, <1>9, <1>10 DEF WorkerOps

\* A worker that a reset keeps waiting elsewhere than at the keys holds nothing,
\* and no other reset is far enough to wait for it.
LEMMA NobodyBehind ==
  ASSUME TypeInv, LockInv, Queued, NEW w \in Workers, Waiting(w),
         Now(w) # "idempotency_keys", NEW r \in Blockers(w), NEW v \in Agents, Waiting(v)
  PROVE  w \notin Blockers(v)
<1> SUFFICES ASSUME w \in Blockers(v) PROVE FALSE
  OBVIOUS
<1> DEFINE table == Now(w)
<1>1. /\ w \in Agents /\ ~Exclusive(w) /\ table \in Tables /\ LocksHeld /\ r \in Agents
  <2>1. w \in Agents
    BY ClientsAreAgents
  <2>2. txn[w].op \in WorkerOps
    BY <2>1, AgentFacts DEF LockInv, Good, OwnProgram
  <2> QED
    BY <2>1, <2>2 DEF LockInv, Queued, Exclusive, WorkerOps, Blockers
<1>2. /\ r # w /\ Exclusive(r)
      /\ table \in held[r] \/ (Now(r) = table /\ WaitsBefore(r, w))
  BY <1>1 DEF Blockers
<1>3. /\ v # w /\ Exclusive(v)
      /\ Now(v) \in held[w] \/ (Now(v) = table /\ WaitsBefore(w, v))
  BY <1>1 DEF Blockers
<1> HIDE DEF table
<1>4. /\ "idempotency_keys" \in held[r]
      /\ table # "messages" => "messages" \in held[r]
  BY <1>1, <1>2, ResetOrder DEF table
<1>5. "idempotency_keys" \notin held[w] /\ (table # "messages" => "messages" \notin held[w])
  BY <1>1, <1>2, <1>4 DEF LockInv, Apart
<1>6. held[w] = {}
  BY <1>1, <1>5, WorkerOrder DEF table
<1>7. Now(v) = table /\ WaitsBefore(w, v)
  BY <1>3, <1>6
<1>8. "idempotency_keys" \in held[v] /\ table \notin held[v]
  BY <1>1, <1>3, <1>7, ResetOrder DEF table
<1>9. v = r
  BY <1>1, <1>2, <1>4, <1>8 DEF LockInv, Apart
<1>10. WaitsBefore(v, w)
  BY <1>2, <1>8, <1>9
<1> QED
  BY <1>7, <1>10 DEF Queued, IsInjective, WaitsBefore, TypeInv, TypeOK

\* Whoever asks for the keys asks for them first.
LEMMA KeysComeFirst ==
  ASSUME TypeInv, LocksHeld, NEW u \in Agents, Now(u) = "idempotency_keys"
  PROVE  held[u] = {}
<1>1. txn[u].step = 1
  BY AgentFacts, Places
<1>2. held[u] = LocksSoFar(txn[u])
  BY AgentFacts
<1> QED
  BY <1>1, <1>2 DEF LocksSoFar

\* Of two that wait one comes before the other.
LEMMA QueueOrder ==
  ASSUME TypeInv, Queued, NEW t, NEW u, NEW v
  PROVE  /\ ~WaitsBefore(t, t)
         /\ WaitsBefore(t, u) /\ WaitsBefore(u, v) => WaitsBefore(t, v)
<1>1. Len(waiters) \in Nat /\ DOMAIN waiters = 1..Len(waiters)
  BY DEF TypeInv, TypeOK
<1>2. \A i, j \in 1..Len(waiters) : waiters[i] = waiters[j] => i = j
  BY <1>1 DEF Queued, IsInjective
<1>3. ~WaitsBefore(t, t)
  BY <1>1, <1>2 DEF WaitsBefore
<1>4. ASSUME WaitsBefore(t, u), WaitsBefore(u, v)
      PROVE  WaitsBefore(t, v)
  <2>1. PICK i, j \in 1..Len(waiters) : waiters[i] = t /\ waiters[j] = u /\ i < j
    BY <1>4 DEF WaitsBefore
  <2>2. PICK k, l \in 1..Len(waiters) : waiters[k] = u /\ waiters[l] = v /\ k < l
    BY <1>4 DEF WaitsBefore
  <2>3. j = k
    BY <1>2, <2>1, <2>2
  <2>4. i < l
    BY <1>1, <2>1, <2>2, <2>3
  <2> QED
    BY <2>1, <2>2, <2>4 DEF WaitsBefore
<1> QED
  BY <1>3, <1>4

\* A set that w does not belong to, that has all it waits for and all that
\* they wait for, shows that w waits in no circle.
LEMMA OutOfReach ==
  ASSUME NEW w, NEW reached \in SUBSET Agents, w \notin reached,
         Blockers(w) \subseteq reached,
         \A v \in reached : Waiting(v) => Blockers(v) \subseteq reached
  PROVE  ~Circle(w)
<1>1. Ahead(reached) \subseteq reached
  BY DEF Ahead
<1> QED
  BY <1>1 DEF Circle

LEMMA WorkersEscape ==
  ASSUME TypeInv, LockInv, Queued, NEW w \in Workers, Waiting(w)
  PROVE  ~Circle(w)
<1>1. /\ w \in Agents
      /\ \A v : Blockers(v) \subseteq Agents \ {v}
  BY ClientsAreAgents DEF Blockers
<1>2. CASE Blockers(w) = {}
  BY <1>2, OutOfReach
<1>3. CASE Now(w) # "idempotency_keys" /\ Blockers(w) # {}
  <2>1. \A v \in Agents : Waiting(v) => w \notin Blockers(v)
    BY <1>3, NobodyBehind
  <2> DEFINE reached == Agents \ {w}
  <2>2. \A v \in reached : Waiting(v) => Blockers(v) \subseteq reached
    BY <1>1, <2>1
  <2>3. Blockers(w) \subseteq reached /\ w \notin reached /\ reached \in SUBSET Agents
    BY <1>1
  <2> QED
    BY <2>2, <2>3, OutOfReach
<1>4. CASE Now(w) = "idempotency_keys"
  <2> DEFINE behind == {u \in Agents : /\ Waiting(u) /\ Now(u) = "idempotency_keys"
                                       /\ ~WaitsBefore(u, w)}
             reached == Agents \ behind
  <2>1. w \notin reached /\ reached \in SUBSET Agents
    BY <1>1, <1>4, QueueOrder
  <2>2. \A u \in behind : held[u] = {}
    BY KeysComeFirst DEF LockInv
  <2>3. \A v \in Agents : \A u \in Blockers(v) :
          u \in behind /\ Waiting(v) => Now(v) = "idempotency_keys" /\ WaitsBefore(u, v)
    BY <2>2 DEF Blockers
  <2>4. Blockers(w) \subseteq reached
    BY <1>1, <2>3
  <2>5. ASSUME NEW v \in reached, Waiting(v), NEW u \in Blockers(v)
        PROVE  u \notin behind
    <3>1. SUFFICES ASSUME u \in behind PROVE FALSE
      OBVIOUS
    <3>2. Now(v) = "idempotency_keys" /\ WaitsBefore(u, v)
      BY <2>3, <2>5, <3>1
    <3>3. WaitsBefore(v, w)
      BY <2>5, <3>2
    <3> QED
      BY <3>1, <3>2, <3>3, QueueOrder
  <2>6. \A v \in reached : Waiting(v) => Blockers(v) \subseteq reached
    BY <1>1, <2>5
  <2> HIDE DEF reached
  <2> QED
    BY <2>1, <2>4, <2>6, OutOfReach
<1> QED
  BY <1>2, <1>3, <1>4

(***************************************************************************)
(* The inductive invariant.                                                *)
(***************************************************************************)
Inv == TypeInv /\ LockInv /\ EraInv /\ Queued

LEMMA InitInv == Init => Inv
<1> SUFFICES ASSUME Init PROVE Inv
  OBVIOUS
<1>1. \A t \in Agents : txn[t] = Idle /\ held[t] = {} /\ Good(t, txn[t])
  BY IdleGood DEF Init
<1>2. Idle.op = "idle" /\ Idle.step = 1 /\ Idle.found = FALSE /\ Idle \in Doing
  BY IdleGood DEF Idle, Good
<1>3. TypeInv
  <2>1. db \in Database /\ FiniteRows
    BY FS_EmptySet DEF Init, EmptyDb, Database, FiniteRows
  <2>2. txn \in [Agents -> Doing] /\ held \in [Agents -> SUBSET Tables]
    BY <1>2 DEF Init
  <2>3. asked \in [requests : SUBSET Requests, resets : 0..MaxResets,
                   streams : 0..MaxStreams, faults : 0..MaxFaults]
    BY DemoResetAssumption DEF Init
  <2>4. /\ birth \in Nat /\ nextRoom = birth + 1 /\ waiters \in Seq(Agents)
        /\ jobs \subseteq Job /\ known \subseteq Room
        /\ dlq \in [topic : {"present", "deleting", "gone"}, records : SUBSET Job]
    BY DEF Init
  <2> QED
    BY <1>1, <2>1, <2>2, <2>3, <2>4 DEF TypeInv, TypeOK
<1>4. LockInv
  BY <1>1, <1>2, NothingYet DEF LockInv, LocksHeld, Apart
<1>5. EraInv
  BY <1>1, <1>2 DEF EraInv, StillFound, Authorized, StillCounted, Persisting
<1>6. Queued
  BY DEF Init, Queued, Waiting, IsInjective, Range
<1> QED
  BY <1>3, <1>4, <1>5, <1>6 DEF Inv

LEMMA TypeStep ==
  ASSUME TypeInv, LocksHeld, EraInv, [Next]_vars
  PROVE  TypeInv'
<1>1. /\ txn' \in [Agents -> Doing] /\ held' \in [Agents -> SUBSET Tables]
      /\ \A t \in Agents : Good(t, txn'[t])
  BY HeldStep
<1>2. db' \in Database /\ FiniteRows'
  BY DbStep
<1>3. NumbersTyped' /\ JobsTyped' /\ AskedTyped' /\ waiters' \in Seq(Agents)
  BY NumbersStep, JobsStep, AskedStep, WaitersStep
<1>4. TypeOK'
  BY <1>1, <1>2, <1>3 DEF TypeOK, NumbersTyped, JobsTyped, AskedTyped
<1> QED
  BY <1>1, <1>2, <1>4 DEF TypeInv

LEMMA InvStep == Inv /\ [Next]_vars => Inv'
<1> SUFFICES ASSUME Inv, [Next]_vars PROVE Inv'
  OBVIOUS
<1>1. TypeInv /\ LockInv /\ EraInv /\ LocksHeld
  BY DEF Inv, LockInv
<1>2. TypeInv'
  BY <1>1, TypeStep
<1>3. LocksHeld' /\ Apart'
  BY <1>1, HeldStep, ApartStep
<1>4. EraInv'
  BY <1>1, EraStep
<1>5. Queued'
  BY <1>1, QueuedStep DEF Inv
<1> QED
  BY <1>2, <1>3, <1>4, <1>5 DEF Inv, LockInv

LEMMA Invariant == Spec => []Inv
<1>1. Init => Inv
  BY InitInv
<1>2. Inv /\ [Next]_vars => Inv'
  BY InvStep
<1> QED
  BY <1>1, <1>2, PTL DEF Spec

\* The types of the model, with what each program knows at each of its steps.
THEOREM TypeCorrect == Spec => []TypeInv
<1>1. Inv => TypeInv
  BY DEF Inv
<1> QED
  BY <1>1, Invariant, PTL

\* A record posted before a reset never ends up in a stream created after it
\* (no TRUNCATE restarts rooms_id_seq): streams with the same id are the same.
THEOREM RoomIdsAreMonotonic == Spec => []RoomIdMonotonicity
<1>1. Inv => RoomIdMonotonicity
  <2> SUFFICES ASSUME Inv PROVE RoomIdMonotonicity
    OBVIOUS
  <2>1. ASSUME NEW m \in db.messages, NEW job \in jobs \cup dlq.records
        PROVE  m.room \in Room /\ job.room \in Room
    <3>1. db.messages \subseteq [request : Requests, room : Room]
      BY DEF Inv, TypeInv, TypeOK, Database
    <3>2. jobs \cup dlq.records \subseteq Job
      BY DEF Inv, TypeInv, TypeOK
    <3> QED
      BY <3>1, <3>2 DEF Job
  <2> QED
    BY <2>1, OneRoomPerId DEF RoomIdMonotonicity
<1> QED
  BY <1>1, Invariant, PTL

\* The counts demo_reset answers are those of the rows its TRUNCATEs remove.
THEOREM ResetCountsExactly == Spec => []CountsAreExact
<1>1. Inv => CountsAreExact
  <2> SUFFICES ASSUME Inv, NEW t \in Clients,
                      txn[t].op = "reset", txn[t].counts # None, InTransaction(t)
               PROVE  txn[t].counts = RowCounts(db)
    BY DEF CountsAreExact
  <2>1. t \in Agents /\ TypeInv /\ LocksHeld
    BY ClientsAreAgents DEF Inv, LockInv
  <2>2. txn[t].step \in 1..11 /\ txn[t].step > 5
    BY <2>1, AgentFacts, Lengths DEF Good, KnowsItsData
  <2>3. /\ txn[t].step = 9 => Now(t) = "delete_topic"
        /\ txn[t].step = 10 => Now(t) = "wait_topic"
        /\ txn[t].step = 11 => Now(t) = "create_topic"
    BY <2>1, AgentFacts, ResetProgram
  <2>4. txn[t].step \in 6..8
    BY <2>2, <2>3 DEF InTransaction
  <2>5. StillCounted(t)
    BY <2>1 DEF Inv, EraInv
  <2> QED
    BY <2>4, <2>5 DEF StillCounted
<1> QED
  BY <1>1, Invariant, PTL

\* What list_events, unread_count or mark_as_read found is there until its
\* transaction ends: ACCESS SHARE keeps the reset's ACCESS EXCLUSIVE out.
THEOREM AnswersKeepTheirEra == Spec => []AnswersAreOfOneEra
<1>1. Inv => AnswersAreOfOneEra
  BY ClientsAreAgents DEF Inv, EraInv, StillFound, AnswersAreOfOneEra
<1> QED
  BY <1>1, Invariant, PTL

\* No demo reset makes PostgreSQL fail a Worker: its LOCK TABLE comes to the
\* tables in the order of the Worker's transaction, so that a Worker it keeps
\* waiting holds nothing anyone waits for.
THEOREM WorkersAreNoVictims == Spec => []WorkersNeverDeadlock
<1>1. Inv => WorkersNeverDeadlock
  BY WorkersEscape DEF Inv, WorkersNeverDeadlock
<1> QED
  BY <1>1, Invariant, PTL
=============================================================================
